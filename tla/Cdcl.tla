-------------------------------- MODULE Cdcl --------------------------------
(***************************************************************************)
(* The search itself: one call of 'solve' on a formula, with an external   *)
(* propagator that stands for a theory given by a set of clauses.  Clauses *)
(* are literal sequences, watched and propagated one watch at a time;      *)
(* conflicts are analysed and clauses learned as in the code.  Decisions,  *)
(* restart levels and the choices of the propagator are free.              *)
(***************************************************************************)
EXTENDS Analysis

CONSTANTS Problems,    \* what to solve, see Problem
          MaxRestarts  \* bound on the number of restarts

\* A formula, the clauses the propagator stands for, the assumptions and the
\* literals of the constraint (<<>>: none) in their order, and the option.
Problem == [formula : Seq(Seq(Lit)), theory : SUBSET Seq(Lit), assumptions : Seq(Lit),
            constraint : Seq(Lit), chrono : BOOLEAN]

VARIABLES s,         \* the search state, see Trail and Clauses
          pc,        \* where in the loop, see PropagatorLoop
          problem,
          input,     \* what is still to be added of the formula
          sent,      \* the theory clauses the propagator has added
          res,       \* the answer, 0 if there is none
          marked_failed, failed,  \* the failed assumptions, found when asked for
          unsat_constraint,
          restarts,  \* how often the search was restarted
          restarted  \* no conflict since the last restart

vars == <<s, pc, problem, input, sent, res, marked_failed, failed, unsat_constraint,
          restarts, restarted>>

Theory == problem.theory
Assumptions == problem.assumptions
Constraint == problem.constraint

PseudoLevels == Len(Assumptions) + (IF Constraint = <<>> THEN 0 ELSE 1)

\* Mutant: the levels of the assumptions need not have been opened.
satisfiedEarly(t) == t.propagated = Len(t.trail) /\ Len(t.trail) = Cardinality(Var)

satisfied(t) ==
    t.propagated = Len(t.trail) /\ Len(t.trail) = Cardinality(Var) /\ Level(t) >= PseudoLevels

Init ==
    /\ problem \in Problems /\ input = problem.formula
    /\ s = EmptySearch(problem.chrono) /\ pc = "idle"
    /\ sent = {} /\ res = 0
    /\ marked_failed = TRUE /\ failed = {} /\ unsat_constraint = FALSE
    /\ restarts = 0 /\ restarted = TRUE

UserVars == <<problem, input>>
FailedVars == <<marked_failed, failed, unsat_constraint>>
AnswerVars == <<res, FailedVars>>
RestartVars == <<restarts, restarted>>

Goto(t, p) ==
    s' = t /\ pc' = p /\ UNCHANGED <<UserVars, sent, AnswerVars, RestartVars>>

(***************************************************************************)
(* Before the search: the propagator observes its variables and the user   *)
(* adds the clauses.                                                       *)
(***************************************************************************)
Waiting == pc = "idle" /\ res = 0
TheoryVars == {vidx(x) : x \in UNION {ToSet(c) : c \in Theory}}

AddObservedVar(v) ==
    /\ Waiting /\ input = problem.formula
    /\ v \in TheoryVars \ s.obs /\ \A w \in TheoryVars \ s.obs : v <= w
    /\ Goto([s EXCEPT !.obs = @ \cup {v}], "idle")

add_new_original_clause ==
    /\ Waiting /\ input # <<>> /\ s.obs = TheoryVars
    /\ LET c == Head(input)
           lits == Distinct(SelectSeq(c, LAMBDA x : val(s, x) = 0))
           skip == Tautology(c) \/ \E x \in ToSet(c) : val(s, x) > 0
       IN  IF skip THEN s' = s /\ pc' = pc
           ELSE IF lits = <<>> THEN s' = s /\ pc' = "unsat"
           ELSE IF Len(lits) = 1 THEN s' = search_assign(s, lits[1], 0) /\ pc' = "unitAdd"
           ELSE s' = AddWatched(s, lits, FALSE) /\ pc' = pc
    /\ input' = Tail(input)
    /\ UNCHANGED <<problem, sent, AnswerVars, RestartVars>>

Solve == Waiting /\ input = <<>> /\ s.obs = TheoryVars /\ Goto(s, "start")

(***************************************************************************)
(* 'propagate'.                                                            *)
(***************************************************************************)
UnitPcs == {"unitAdd", "unitFals", "unitClause", "unitCheck", "start"}
BcpPcs == {"bcp", "bcpProp", "bcpClause"} \cup UnitPcs

Busy == pc \in BcpPcs /\ s.propagated < Len(s.trail)

VisitWatch == Busy /\ MoreWatches(s) /\ \E t \in {Visit(s)} : Goto(t, pc)

EndOfWatches == Busy /\ ~MoreWatches(s) /\ s.conflict = 0 /\ Goto(NextLiteral(s), pc)

BcpConflict ==
    /\ Busy /\ ~MoreWatches(s) /\ s.conflict # 0
    /\ Goto(NextLiteral(s), IF pc \in UnitPcs THEN "unsat" ELSE "conflict")

Done(p) == pc = p /\ Propagated(s)

StartDone == Done("start") /\ Goto(s, "bcp")
UnitAddDone == Done("unitAdd") /\ Goto(s, "idle")

\* Mutant: 'external_propagate' does not notify first.
BcpDoneSilent == (Done("bcp") \/ Done("bcpProp")) /\ Goto(s, "ext")

BcpDone == (Done("bcp") \/ Done("bcpProp")) /\ Goto(NotifyAssignments(s), "ext")
BcpClauseDone ==
    (Done("bcpClause") \/ Done("unitClause")) /\ Goto(NotifyAssignments(s), "clauses")
UnitFalsDone == Done("unitFals") /\ Goto(s, "clauses")
UnitCheckDone ==
    Done("unitCheck") /\ Goto(NotifyAssignments(s), IF satisfied(s) THEN "check" ELSE "bcp")

(***************************************************************************)
(* 'handle_external_clause' on a clause with the literals lits.            *)
(***************************************************************************)
UnitPc == CASE pc = "ext" -> "unitFals"
            [] pc = "clauses" -> "unitClause"
            [] OTHER -> "unitCheck"

HandledUnit(x) == s' = search_assign(backtrack(s, 0), x, 0) /\ pc' = UnitPc

\* Mutant: backtracks to the level of the other watch.
HandledLongLow(t, lits) ==
    LET u == IF s.chrono THEN t ELSE backtrack(t, lev(t, lits[2]))
    IN  CASE val(t, lits[1]) < 0 /\ val(t, lits[2]) < 0 ->
                s' = [u EXCEPT !.conflict = Len(t.db)] /\ pc' = "conflict"
          [] val(t, lits[1]) = 0 /\ val(t, lits[2]) < 0 ->
                s' = search_assign_driving(u, lits[1], Len(t.db)) /\ pc' = "bcpClause"
          [] OTHER -> s' = t /\ pc' = IF pc = "checkClauses" THEN "checkMore" ELSE pc

HandledLong(t, lits) ==
    LET c == Len(t.db)
        u == IF ~s.chrono \/ pc \in {"checkClauses", "checkMore"}
             THEN backtrack(t, lev(t, lits[1])) ELSE t
        w == IF s.chrono THEN t ELSE backtrack(t, lev(t, lits[2]))
    IN  CASE val(t, lits[1]) < 0 /\ val(t, lits[2]) < 0 ->
                s' = [u EXCEPT !.conflict = c] /\ pc' = "conflict"
          [] val(t, lits[1]) = 0 /\ val(t, lits[2]) < 0 ->
                s' = search_assign_driving(w, lits[1], c) /\ pc' = "bcpClause"
          [] OTHER ->
                s' = t /\ pc' = IF pc = "checkClauses" THEN "checkMore" ELSE pc

handle_external_clause(lits) ==
    LET c == Simplified(s, lits)
    IN  IF Skipped(s, lits)
        THEN s' = s /\ pc' = IF pc = "checkClauses" THEN "checkMore" ELSE pc
        ELSE IF c = <<>> THEN s' = s /\ pc' = "unsat"
        ELSE IF Len(c) = 1 THEN HandledUnit(c[1])
        ELSE \E t \in {add_external_clause(s, lits)} : HandledLong(t, literals(t, Len(t.db)))

(***************************************************************************)
(* 'external_propagate': the propagator implies x by one of its clauses.   *)
(***************************************************************************)
Viewed == UNION {s.view[k] : k \in DOMAIN s.view}

\* The reason is asked for at once on the pseudo levels.
search_assign_external(x, lits) ==
    LET t == add_external_clause(s, lits)
        c == IF Len(Simplified(s, lits)) > 1 THEN Len(t.db) ELSE 0
    IN  IF Level(s) > PseudoLevels
        THEN NotifyAssignments([SearchAssign(s, x, Level(s)) EXCEPT
                                   !.ext = @ \cup {vidx(x)}, !.why[vidx(x)] = lits])
        ELSE search_assign_driving(IF c = 0 THEN s ELSE t, x, c)

Implied(x, lits) == \A y \in ToSet(lits) \ {x} : -y \in Viewed

ExternalPropagate(lits, x) ==
    /\ pc = "ext" /\ Implied(x, lits) /\ val(s, x) = 0
    /\ Goto(search_assign_external(x, lits), "bcpProp")

ExternalFalsified(lits, x) ==
    /\ pc = "ext" /\ Implied(x, lits) /\ val(s, x) < 0
    /\ handle_external_clause(lits)
    /\ UNCHANGED <<UserVars, sent, AnswerVars, RestartVars>>

NothingToPropagate == pc = "ext" /\ Goto(s, "clauses")

AddExternalClause(lits) ==
    /\ pc \in {"clauses", "checkClauses", "checkMore"}
    /\ lits \notin sent
    /\ handle_external_clause(lits)
    /\ sent' = sent \cup {lits}
    /\ UNCHANGED <<UserVars, AnswerVars, RestartVars>>

NoMoreClauses == pc = "clauses" /\ Goto(s, IF satisfied(s) THEN "check" ELSE "loop")

(***************************************************************************)
(* 'external_check_solution'.                                              *)
(***************************************************************************)
TrueIn(lits, S) == ToSet(lits) \cap S # {}

CheckApproves ==
    /\ pc = "check" /\ \A lits \in Theory : TrueIn(lits, Viewed)
    /\ s' = NotifyAssignments(s) /\ pc' = "idle" /\ res' = 10
    /\ UNCHANGED <<UserVars, sent, FailedVars, RestartVars>>

CheckRejects ==
    /\ pc = "check" /\ Theory \ sent # {}
    /\ Goto(NotifyAssignments(s), "checkClauses")

CheckAgain == pc = "checkMore" /\ Goto(s, "check")

(***************************************************************************)
(* 'analyze'.                                                              *)
(***************************************************************************)
Analyzed == WithHighestFirst(explain_external_propagations(s))

Resolved(t, p) ==
    /\ s' = t /\ pc' = p /\ restarted' = FALSE
    /\ UNCHANGED <<UserVars, sent, AnswerVars, restarts>>

Cleared(t) == [t EXCEPT !.conflict = 0]

AnalyzeRoot(t) == ConflictLevel(t) = 0 /\ Resolved(backtrack(t, 0), "unsat")

\* Mutant: the forced literal is left to 'propagate'.
AnalyzeForcedIdle(t, forced) ==
    /\ ConflictLevel(t) > 0 /\ OnConflictLevel(t) = {forced}
    /\ Resolved(Cleared(backtrack(t, ConflictLevel(t) - 1)), "bcp")

AnalyzeForced(t, forced) ==
    LET l == ConflictLevel(t)
    IN  /\ l > 0 /\ OnConflictLevel(t) = {forced}
        /\ Resolved(Cleared(search_assign_driving(backtrack(t, l - 1), forced, t.conflict)),
                    "bcp")

\* 'determine_actual_backtrack_level': the trail above the jump level may be
\* reused, except on the levels of assumptions.
BacktrackLevels(t, jump) ==
    IF jump < Len(Assumptions) THEN {jump} ELSE jump .. Level(t) - 1

jump(t, driving) == IF Len(driving) = 1 THEN 0 ELSE lev(t, driving[2])

AnalyzeLearn(t, driving, n) ==
    LET c == Len(t.db) + 1
    IN  IF Len(driving) = 1
        THEN Resolved(Cleared(search_assign_driving(backtrack(t, n), driving[1], 0)), "bcp")
        ELSE Resolved(
                eagerly_subsume_recently_learned_clauses(
                    Cleared(search_assign_driving(backtrack(AddWatched(t, driving, TRUE), n),
                                                  driving[1], c)), c),
                "bcp")

Analyze ==
    /\ pc = "conflict"
    /\ \E t \in {Analyzed} :
          \/ AnalyzeRoot(t)
          \/ \E x \in OnConflictLevel(t) : AnalyzeForced(t, x)
          \/ /\ ConflictLevel(t) > 0 /\ Cardinality(OnConflictLevel(t)) > 1
             /\ \E u \in {backtrack(t, ConflictLevel(t))} :
                   \E driving \in {DrivingClause(u)} :
                      \E n \in BacktrackLevels(u, jump(u, driving)) : AnalyzeLearn(u, driving, n)

(***************************************************************************)
(* 'decide' and 'restart'.                                                 *)
(***************************************************************************)
Deciding == pc = "loop" /\ ~satisfied(s)

Wanted ==
    IF Level(s) < Len(Assumptions) THEN <<Assumptions[Level(s) + 1]>>
    ELSE IF Level(s) = Len(Assumptions) THEN Constraint
    ELSE <<>>

AllFalse(lits) == \A x \in ToSet(lits) : val(s, x) < 0

DecideHolds ==
    /\ Deciding /\ \E x \in ToSet(Wanted) : val(s, x) > 0
    /\ Goto(NewLevel(s, 0), "bcp")

\* The first literal that is not assigned, or any on a free level.
DecideOn(x) ==
    /\ Deciding /\ val(s, x) = 0
    /\ \/ Wanted = <<>>
       \/ /\ x \in ToSet(Wanted) /\ \A y \in ToSet(Wanted) : val(s, y) <= 0
          /\ x = SelectSeq(Wanted, LAMBDA y : val(s, y) = 0)[1]
    /\ Goto(SearchAssumeDecision(s, x), "bcp")

DecideFails ==
    /\ Deciding /\ Wanted # <<>> /\ AllFalse(Wanted)
    /\ unsat_constraint' = (Level(s) = Len(Assumptions)) /\ marked_failed' = FALSE
    /\ res' = 20 /\ pc' = "idle"
    /\ UNCHANGED <<s, UserVars, sent, failed, RestartVars>>

Restart(n) ==
    /\ pc = "loop" /\ ~restarted /\ restarts < MaxRestarts
    /\ Level(s) >= Len(Assumptions) + 2
    /\ n >= Len(Assumptions) + (IF s.control[Len(Assumptions) + 1].decision = 0 THEN 1 ELSE 0)
    /\ s' = backtrack(s, n) /\ pc' = "bcp"
    /\ restarted' = TRUE /\ restarts' = restarts + 1
    /\ UNCHANGED <<UserVars, sent, AnswerVars>>

(***************************************************************************)
(* The answers.                                                            *)
(***************************************************************************)
Unsatisfiable ==
    /\ pc = "unsat" /\ res = 0 /\ res' = 20
    /\ UNCHANGED <<s, pc, UserVars, sent, FailedVars, RestartVars>>

\* The user asks for the failed assumptions.
Failed ==
    /\ res = 20 /\ ~marked_failed
    /\ failed' = failing(s, Assumptions, Constraint, unsat_constraint)
    /\ marked_failed' = TRUE
    /\ UNCHANGED <<s, pc, UserVars, sent, res, unsat_constraint, RestartVars>>

Stop == res # 0 /\ UNCHANGED vars

Next ==
    \/ \E v \in Var : AddObservedVar(v)
    \/ add_new_original_clause \/ Solve
    \/ VisitWatch \/ EndOfWatches \/ BcpConflict
    \/ StartDone \/ UnitAddDone \/ BcpDone \/ BcpClauseDone \/ UnitFalsDone \/ UnitCheckDone
    \/ \E lits \in Theory : \E x \in ToSet(lits) :
          ExternalPropagate(lits, x) \/ ExternalFalsified(lits, x)
    \/ NothingToPropagate
    \/ \E lits \in Theory : AddExternalClause(lits)
    \/ NoMoreClauses \/ CheckApproves \/ CheckRejects \/ CheckAgain
    \/ Analyze
    \/ DecideHolds \/ DecideFails \/ \E x \in Lit : DecideOn(x)
    \/ \E n \in 0 .. Level(s) : Restart(n)
    \/ Unsatisfiable \/ Failed \/ Stop

(***************************************************************************)
(* The thread that called 'solve' runs on until it has an answer.  (This   *)
(* is weak fairness of Next, as before the answer a step is always         *)
(* possible.)                                                              *)
(***************************************************************************)
Fairness == <>[](res # 0) \/ []<><<TRUE>>_vars

Spec == Init /\ [][Next]_vars /\ Fairness
-----------------------------------------------------------------------------
LoopState ==
    [trail |-> s.trail, control |-> s.control, lev |-> s.lev, ext |-> s.ext,
     fixed |-> s.fixed, obs |-> s.obs, notified |-> s.notified, view |-> s.view]

Assignments == {A \in SUBSET Lit : \A v \in Var : v \in A <=> -v \notin A}
Holds(A, S) == \A lits \in S : TrueIn(lits, A)
AllClauses == ToSet(problem.formula) \cup Theory

(***************************************************************************)
(* Whatever 'analyze', 'shrink_and_minimize_clause', the explanations and  *)
(* the simplification of external clauses add to the data base, or fix on  *)
(* the root level, is implied by the formula and the clauses of the        *)
(* propagator; so the empty clause is derived only if these have no model. *)
(***************************************************************************)
ClausesImplied ==
    \A A \in Assignments : Holds(A, AllClauses) =>
        /\ pc # "unsat"
        /\ s.fixed \subseteq A
        /\ \A c \in DOMAIN s.db : TrueIn(literals(s, c), A)

(***************************************************************************)
(* What 'analyze_reason', 'minimize_literal' and 'failing' rely on: the    *)
(* reason of an assigned literal contains it, and its other literals were  *)
(* falsified before it, on levels that are not higher, also when literals  *)
(* are assigned out of order or their reasons were asked for later.        *)
(***************************************************************************)
ReasonsImply ==
    \A i \in DOMAIN s.trail :
        LET x == s.trail[i]
            c == s.reason[vidx(x)]
        IN  c # 0 =>
              /\ x \in ToSet(literals(s, c))
              /\ \A y \in ToSet(literals(s, c)) \ {x} :
                    /\ \E j \in 1 .. i - 1 : s.trail[j] = -y
                    /\ lev(s, y) <= lev(s, x)

(***************************************************************************)
(* 'propagate' misses no conflict: when it has gone through the trail      *)
(* without one, no clause is falsified, although two watches of a clause   *)
(* are all it looks at, external clauses are added in the middle of the    *)
(* search, and out-of-order literals survive 'backtrack'.                  *)
(***************************************************************************)
ConflictsFound ==
    Propagated(s) => \A c \in DOMAIN s.db : ~s.db[c].garbage => ~AllFalse(literals(s, c))

\* Clauses the propagator may have given, simplified or not.
MayBeExternal(c) ==
    ~s.db[c].redundant /\ \E lits \in Theory : ToSet(literals(s, c)) \subseteq ToSet(lits)

\* One literal is unassigned and the others are false.
UnitUnder(c) ==
    \E x \in ToSet(literals(s, c)) :
       val(s, x) = 0 /\ \A y \in ToSet(literals(s, c)) \ {x} : val(s, y) < 0

(***************************************************************************)
(* With 'chrono' on it misses no unit clause either, except among the      *)
(* clauses of the propagator: 'handle_external_clause' does not repropagate*)
(* a literal that its clause implies on a lower level, so that after a     *)
(* backtrack the clause can be unit without notice.                        *)
(***************************************************************************)
UnitsFound ==
    Propagated(s) /\ s.chrono => \A c \in DOMAIN s.db :
        ~MayBeExternal(c) /\ ~s.db[c].garbage => ~UnitUnder(c)

\* What the caller of 'solve' asks for.
Wished(A) ==
    /\ Holds(A, AllClauses) /\ ToSet(Assumptions) \subseteq A
    /\ Constraint # <<>> => TrueIn(Constraint, A)

(***************************************************************************)
(* The answer of 'solve' is right: a model satisfies the formula, the      *)
(* clauses of the propagator (which may have rejected earlier ones), the   *)
(* assumptions and the constraint, and there is none if the answer is 20.  *)
(***************************************************************************)
AnswerRight ==
    /\ res = 10 => OnTrail(s) \in Assignments /\ Wished(OnTrail(s))
    /\ res = 20 => \A A \in Assignments : ~Wished(A)

(***************************************************************************)
(* The failed assumptions that 'failing' marks are assumptions, and        *)
(* suffice: the clauses and, if it failed, the constraint have no model in *)
(* which they all hold.                                                    *)
(***************************************************************************)
CoreSuffices ==
    res = 20 /\ marked_failed /\ pc = "idle" =>
        /\ failed \subseteq ToSet(Assumptions)
        /\ \A A \in Assignments :
              ~ (Holds(A, AllClauses) /\ failed \subseteq A
                 /\ (unsat_constraint => TrueIn(Constraint, A)))

(***************************************************************************)
(* Once 'solve' is called and the clauses are there it answers, whatever   *)
(* the propagator propagates, adds and rejects (as long as it rejects no   *)
(* model without a new clause) and however often a conflict forces a       *)
(* literal without learning a clause.                                      *)
(***************************************************************************)
Terminates == <>(res # 0)

\* No other literal is better to watch than the first two.
BestFirst(c) ==
    LET a == c[1]
        b == c[2]
        rest == {c[j] : j \in 3 .. Len(c)}
    IN  /\ val(s, a) >= val(s, b)
        /\ val(s, a) > 0 /\ val(s, b) > 0 =>
              /\ lev(s, a) <= lev(s, b)
              /\ \A x \in rest : val(s, x) <= 0 \/ lev(s, b) <= lev(s, x)
        /\ val(s, b) = 0 => \A x \in rest : val(s, x) <= 0
        /\ val(s, b) < 0 => \A x \in rest : val(s, x) < 0 /\ lev(s, b) >= lev(s, x)
        /\ val(s, a) < 0 => lev(s, a) >= lev(s, b)

(***************************************************************************)
(* The assertions of 'check_watched_literals' on the first two literals of *)
(* a clause of the propagator, under the assignment it is added in.        *)
(***************************************************************************)
WatchesBest ==
    [][sent' # sent /\ Len(s'.db) > Len(s.db) => BestFirst(literals(s', Len(s'.db)))]_vars

\* What has to become of a clause of the propagator.
Outcome(lits) ==
    LET left == {x \in ToSet(lits) : -x \notin s.fixed}
        unset == {x \in left : val(s, x) = 0}
        checking == pc \in {"checkClauses", "checkMore"}
    IN  IF Tautology(lits) \/ left \cap s.fixed # {} THEN s' = s
        ELSE IF left = {} THEN pc' = "unsat"
        ELSE IF Cardinality(left) = 1 THEN Level(s') = 0 /\ left \subseteq s'.fixed
        ELSE IF \A x \in left : val(s, x) < 0
        THEN /\ pc' = "conflict" /\ ToSet(literals(s', s'.conflict)) = left
             /\ \A x \in left : val(s', x) < 0
             /\ (s.chrono /\ ~checking) \/ Level(s') = MaxLevel(s, left)
        ELSE IF Cardinality(unset) = 1 /\ \A x \in left \ unset : val(s, x) < 0
        THEN /\ unset \subseteq OnTrail(s')
             /\ \A x \in unset : lev(s', x) = MaxLevel(s, left \ unset)
             /\ s.chrono \/ Level(s') = MaxLevel(s, left \ unset)
        ELSE s'.trail = s.trail /\ Len(s'.db) = Len(s.db) + 1

(***************************************************************************)
(* 'handle_external_clause', which looks at two literals, does what its    *)
(* comment lists as cases 1 to 6 in terms of all literals of the clause:   *)
(* skip it, fix a unit, give up, backtrack to where the clause is still    *)
(* falsified or first propagates, or just add it.                          *)
(***************************************************************************)
CasesExact == [][\A lits \in sent' \ sent : Outcome(lits)]_vars

\* The refinement mapping.
LoopPc == IF pc = "checkMore" THEN "checkClauses" ELSE pc
LoopConflict == IF pc = "conflict" THEN ToSet(literals(s, s.conflict)) ELSE {}

Loop(chrono, assumptions, constraint) == INSTANCE PropagatorLoop WITH
    Chrono <- chrono, Assumptions <- assumptions, Constraint <- constraint,
    ObserveAssigned <- FALSE, SavedPhases <- FALSE,
    st <- LoopState, pc <- LoopPc, conflict <- LoopConflict

(***************************************************************************)
(* The search is a PropagatorLoop: what is proved there of the reports to  *)
(* the propagator holds of it.  The level function and the explained       *)
(* variables that the loop leaves open are those computed here.            *)
(***************************************************************************)
ImplementsLoop ==
    /\ \E p \in Problems :
          p = problem /\ Loop(p.chrono, p.assumptions, ToSet(p.constraint))!Init
    /\ [][\E p \in Problems :
              p = problem /\ Loop(p.chrono, p.assumptions, ToSet(p.constraint))!Next
         ]_<<LoopState, LoopPc, LoopConflict>>
=============================================================================
