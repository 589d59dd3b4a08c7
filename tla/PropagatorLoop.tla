--------------------------- MODULE PropagatorLoop ---------------------------
(***************************************************************************)
(* The CDCL loop with a connected (non lazy) external propagator, at the   *)
(* granularity of its callbacks: 'cdcl_loop_with_inprocessing' with        *)
(* 'propagate', 'external_propagate', 'handle_external_clause',            *)
(* 'external_check_solution', 'analyze', 'decide', 'restart' and the       *)
(* inprocessing steps, and the API calls between two calls of 'solve'.     *)
(*                                                                         *)
(* The clause data base is abstracted: Boolean propagation may imply any   *)
(* unassigned literal at any admissible assignment level and may run into  *)
(* any falsified clause; the propagator may propagate any observed literal *)
(* and add any clause.                                                     *)
(***************************************************************************)
EXTENDS TrailInv

CONSTANTS Chrono,           \* option 'chrono' is on
          Assumptions,      \* the assumed literals, in order
          Constraint,       \* the literals of the constraint, {} if none
          ObserveAssigned,  \* the propagator may start to observe a variable
                            \* that is assigned above the root level
          SavedPhases       \* local search may hand over its saved phases

ASSUME ChronoAssumption == Chrono \in BOOLEAN
ASSUME AssumptionsAssumption == Assumptions \in Seq(Lit) /\ Constraint \subseteq Lit
ASSUME UsageAssumption == ObserveAssigned \in BOOLEAN /\ SavedPhases \in BOOLEAN

VARIABLES st,        \* the search state, see Trail
          pc,        \* where in the loop
          conflict   \* the literals of the conflicting clause, {} if none

vars == <<st, pc, conflict>>

\* Number of levels taken by assumptions and the constraint.
PseudoLevels == Len(Assumptions) + (IF Constraint = {} THEN 0 ELSE 1)

Satisfied(s) == Unassigned(s) = {} /\ Level(s) >= PseudoLevels

Init == /\ st = EmptyTrail({})
        /\ pc = "idle"
        /\ conflict = {}

Goto(s, p) == st' = s /\ pc' = p /\ UNCHANGED conflict

(***************************************************************************)
(* API calls between two 'solve' calls.                                    *)
(***************************************************************************)
\* Late: a callback of the running search calls add_observed_var.
Callbacks == {"ext", "clauses", "check", "checkClauses", "loop"}

AddObservedVar(v) ==
    /\ pc \in Callbacks \cup {"idle"}
    /\ v \notin st.obs
    /\ pc # "idle" /\ st.lev[v] > 0 => ObserveAssigned
    /\ LET known == {x \in st.fixed : vidx(x) = v}
       IN  Goto([st EXCEPT !.obs = @ \cup {v}, !.view[1] = @ \cup known], pc)

RemoveObservedVar(v) ==
    /\ pc = "idle"
    /\ v \in st.obs
    /\ LET t == IF \E x \in st.fixed : vidx(x) = v THEN st ELSE Backtrack(st, 0)
       IN  Goto([t EXCEPT !.obs = @ \ {v}], pc)

\* Disconnect the propagator and connect a fresh one.
Reconnect ==
    /\ pc = "idle"
    /\ LET t == IF st.obs \subseteq {vidx(x) : x \in st.fixed} THEN st
                ELSE Backtrack(st, 0)
       IN  Goto([t EXCEPT !.obs = {}, !.notified = 0, !.view = <<{}>>], pc)

\* A unit clause (after simplification) is added through the API.
AddOriginalUnit(x) ==
    /\ pc = "idle"
    /\ x \in Unassigned(Backtrack(st, 0))
    /\ Goto(SearchAssign(Backtrack(st, 0), x, 0), "unitAdd")

\* Any other clause: it is added to the data base, or skipped, or it is empty
\* after simplification.
AddOriginalClause(p) ==
    pc = "idle" /\ p \in {"idle", "unsat"} /\ Goto(Backtrack(st, 0), p)

Solve == pc = "idle" /\ Goto(Backtrack(st, 0), "start")

(***************************************************************************)
(* 'propagate', in each of the places it is called from.                   *)
(***************************************************************************)
UnitPcs == {"unitAdd", "unitFals", "unitClause", "unitCheck"}
BcpPcs == {"start", "phases", "bcp", "bcpProp", "bcpClause"} \cup UnitPcs

\* The level of a literal implied by a clause whose other literals have
\* levels up to m.
ImpliedLevel(s, m) == IF Chrono THEN m ELSE Level(s)

BcpAssign(x, m) ==
    /\ pc \in BcpPcs
    /\ x \in Unassigned(st)
    /\ m \in 0 .. Level(st)
    /\ Goto(SearchAssign(st, x, ImpliedLevel(st, m)), pc)

FalsifiedClauses(s) == {C \in SUBSET FalseLits(s) : Cardinality(C) >= 2}

BcpConflict(C) ==
    /\ pc \in {"bcp", "bcpProp", "bcpClause"}
    /\ C \in FalsifiedClauses(st)
    /\ conflict' = C
    /\ pc' = "conflict"
    /\ UNCHANGED st

\* A conflict while propagating units makes the formula unsatisfiable.
RootConflict ==
    /\ pc \in UnitPcs \cup {"start"}
    /\ FalsifiedClauses(st) # {}
    /\ Goto(st, "unsat")

\* Mutant: 'external_propagate' does not notify first.
BcpDoneSilent == pc = "bcp" /\ Goto(st, "ext")

\* Main loop: after propagation 'external_propagate' starts by notifying.
BcpDone == pc = "bcp" /\ Goto(NotifyAssignments(st), "ext")
BcpPropDone == pc = "bcpProp" /\ Goto(NotifyAssignments(st), "ext")
BcpClauseDone ==
    pc \in {"bcpClause", "unitClause"} /\ Goto(NotifyAssignments(st), "clauses")
\* After a falsified propagation the loop is left without notifying.
UnitFalsDone == pc = "unitFals" /\ Goto(st, "clauses")
UnitAddDone == pc = "unitAdd" /\ Goto(st, "idle")
UnitCheckDone ==
    /\ pc = "unitCheck"
    /\ Goto(NotifyAssignments(st), IF Satisfied(st) THEN "check" ELSE "bcp")
StartDone == pc = "start" /\ Goto(st, "bcp")

(***************************************************************************)
(* Local search found a model: decide on the saved phases, propagate, and  *)
(* enter the CDCL loop with the resulting trail, or give up.               *)
(***************************************************************************)
LocalSearchModel ==
    SavedPhases /\ pc = "start" /\ Constraint = {} /\ Goto(st, "phases")
PhasesDone == pc = "phases" /\ Satisfied(st) /\ Goto(st, "bcp")
PhasesFail ==
    /\ pc = "phases" /\ Level(st) > 0
    /\ FalsifiedClauses(st) # {}
    /\ Goto(Backtrack(st, 0), "bcp")

(***************************************************************************)
(* 'decide': assumptions, then the constraint, then a free decision, which *)
(* the propagator may suggest.                                             *)
(***************************************************************************)
DecidePc == IF pc = "phases" THEN "phases" ELSE "bcp"
Deciding == pc \in {"loop", "phases"} /\ ~Satisfied(st)

\* The next literals 'decide' tries on a pseudo level, {} above those.
Wanted(s) ==
    IF Level(s) < Len(Assumptions) THEN {Assumptions[Level(s) + 1]}
    ELSE IF Level(s) = Len(Assumptions) THEN Constraint
    ELSE {}

DecideHolds ==
    /\ Deciding
    /\ Wanted(st) \cap TrueLits(st) # {}
    /\ Goto(NewLevel(st, 0), DecidePc)

DecideOn(x) ==
    /\ Deciding
    /\ x \in Unassigned(st)
    /\ \/ Wanted(st) = {}
       \/ x \in Wanted(st) /\ Wanted(st) \cap TrueLits(st) = {}
    /\ Goto(SearchAssumeDecision(st, x), DecidePc)

\* A failing assumption or constraint ends the call.
DecideFails ==
    /\ Deciding
    /\ Wanted(st) # {} /\ Wanted(st) \subseteq FalseLits(st)
    /\ Goto(st, IF pc = "phases" THEN "bcp" ELSE "idle")

(***************************************************************************)
(* 'external_propagate', first loop: 'cb_propagate'.                       *)
(***************************************************************************)
ExternalPropagate(x, m) ==
    /\ pc = "ext"
    /\ x \in Unassigned(st) /\ vidx(x) \in st.obs
    /\ m \in 0 .. Level(st)
    /\ LET eager == Level(st) <= PseudoLevels
           l == IF ~eager THEN Level(st)
                ELSE IF m = 0 THEN 0 ELSE ImpliedLevel(st, m)
           t == NotifyAssignments(SearchAssign(st, x, l))
       IN  Goto(IF eager \/ l = 0 THEN t ELSE [t EXCEPT !.ext = @ \cup {vidx(x)}],
                "bcpProp")

NothingToPropagate == pc = "ext" /\ Goto(st, "clauses")

(***************************************************************************)
(* 'handle_external_clause' on the literals D that root-level              *)
(* simplification leaves of a clause: the lazily asked reason of a         *)
(* falsified propagation (all literals false), or an external clause.      *)
(***************************************************************************)
ClausePcs == {"ext", "clauses", "checkClauses"}

NonRoot(s, C) == {x \in C : x \notin s.fixed /\ -x \notin s.fixed}

UnitPc == CASE pc = "ext" -> "unitFals"
            [] pc = "clauses" -> "unitClause"
            [] OTHER -> "unitCheck"

ClauseEmpty ==
    /\ pc \in ClausePcs
    /\ pc = "ext" => st.fixed # {}
    /\ Goto(st, "unsat")

ClauseUnit(x) ==
    /\ pc \in ClausePcs
    /\ x \in NonRoot(st, Lit)
    /\ pc = "ext" => x \in FalseLits(st)
    /\ Goto(SearchAssign(Backtrack(st, 0), x, 0), UnitPc)

ClauseFalsified(D) ==
    /\ pc \in ClausePcs
    /\ D \in FalsifiedClauses(st) /\ D = NonRoot(st, D)
    /\ pc = "ext" => \E x \in D : vidx(x) \in st.obs
    /\ conflict' = D
    /\ st' = IF ~Chrono \/ pc = "checkClauses"
             THEN Backtrack(st, MaxLevel(st, D)) ELSE st
    /\ pc' = "conflict"

ClausePropagates(x, D) ==
    /\ pc = "clauses"
    /\ x \in Unassigned(st)
    /\ D \in SUBSET FalseLits(st) /\ D # {} /\ D = NonRoot(st, D)
    /\ LET m == MaxLevel(st, D)
           t == IF Chrono THEN st ELSE Backtrack(st, m)
       IN  Goto(NotifyAssignments(SearchAssign(t, x, m)), "bcpClause")

NoMoreClauses ==
    pc = "clauses" /\ Goto(st, IF Satisfied(st) THEN "check" ELSE "loop")

(***************************************************************************)
(* 'external_check_solution'.                                              *)
(***************************************************************************)
CheckApproves == pc = "check" /\ Goto(NotifyAssignments(st), "idle")
CheckRejects == pc = "check" /\ Goto(NotifyAssignments(st), "checkClauses")
\* Only clauses that change nothing were added: check the model again.
CheckAgain == pc = "checkClauses" /\ Goto(st, "check")

(***************************************************************************)
(* 'analyze': explain, then fail on the root level, reuse a conflict with  *)
(* a single literal of the highest level, or learn a clause that drives    *)
(* the negation of a literal of that level.                                *)
(***************************************************************************)
Resolved(s, p) == st' = s /\ pc' = p /\ conflict' = {}

AnalyzeRoot(E, nl) ==
    LET t == Explain(st, E, nl)
    IN  /\ MaxLevel(t, conflict) = 0
        /\ Resolved(Backtrack(t, 0), "unsat")

AnalyzeForced(E, nl, x) ==
    LET t == Explain(st, E, nl)
        rest == MaxLevel(t, conflict \ {x})
        u == Backtrack(t, t.lev[vidx(x)] - 1)
    IN  /\ t.lev[vidx(x)] > rest
        /\ Resolved(NotifyAssignments(SearchAssign(u, x, ImpliedLevel(u, rest))), "bcp")

\* n lies between the jump level and the conflict level: 'chrono' reuse.
AnalyzeLearn(E, nl, x, jump, n) ==
    LET t == Explain(st, E, nl)
        top == MaxLevel(t, conflict)
        u == Backtrack(Backtrack(t, top), n)
        l == IF jump = 0 THEN 0 ELSE ImpliedLevel(u, jump)
    IN  /\ Cardinality({y \in conflict : t.lev[vidx(y)] = top}) >= 2
        /\ -x \in OnTrail(t) /\ t.lev[vidx(x)] = top
        /\ jump <= n /\ n < top
        /\ Resolved(NotifyAssignments(SearchAssign(u, x, l)), "bcp")

Analyze ==
    /\ pc = "conflict"
    /\ \E E \in SUBSET st.ext : \E nl \in Lowered(st, E, Chrono) :
          \/ AnalyzeRoot(E, nl)
          \/ \E x \in conflict : AnalyzeForced(E, nl, x)
          \/ \E x \in Lit, jump, n \in 0 .. Level(st) : AnalyzeLearn(E, nl, x, jump, n)

(***************************************************************************)
(* The remaining steps of the loop.                                        *)
(***************************************************************************)
Restart(n) ==
    /\ pc = "loop"
    /\ Len(Assumptions) <= n /\ n <= Level(st)
    /\ Level(st) >= Len(Assumptions) + 2
    /\ Goto(Backtrack(st, n), "bcp")

\* Inprocessing works on the root level; the units it finds are propagated.
Inprocess == pc = "loop" /\ Goto(Backtrack(st, 0), "bcp")

CompactFixed(x) ==
    /\ pc = "loop" /\ Level(st) = 0
    /\ x \in st.fixed /\ \A y \in st.fixed : vidx(x) <= vidx(y)
    /\ Goto(Compact(st, x), "bcp")

\* A limit is hit or 'terminate' was called.
GiveUp == pc = "loop" /\ Goto(st, "idle")

\* Once the empty clause is derived every further call answers 20.
AlreadySolved == pc = "unsat" /\ UNCHANGED vars

Next ==
    \/ \E v \in Var : AddObservedVar(v) \/ RemoveObservedVar(v)
    \/ Reconnect \/ Solve \/ AlreadySolved
    \/ \E p \in {"idle", "unsat"} : AddOriginalClause(p)
    \/ \E x \in Lit : AddOriginalUnit(x) \/ DecideOn(x) \/ ClauseUnit(x) \/ CompactFixed(x)
    \/ \E x \in Lit, m \in 0 .. Level(st) : BcpAssign(x, m) \/ ExternalPropagate(x, m)
    \/ \E C \in SUBSET FalseLits(st) : BcpConflict(C) \/ ClauseFalsified(C)
    \/ \E x \in Lit, C \in SUBSET FalseLits(st) : ClausePropagates(x, C)
    \/ RootConflict \/ BcpDone \/ BcpPropDone \/ BcpClauseDone \/ UnitFalsDone
    \/ UnitAddDone \/ UnitCheckDone \/ StartDone
    \/ LocalSearchModel \/ PhasesDone \/ PhasesFail
    \/ DecideHolds \/ DecideFails
    \/ NothingToPropagate \/ ClauseEmpty \/ NoMoreClauses
    \/ CheckApproves \/ CheckRejects \/ CheckAgain
    \/ Analyze
    \/ \E n \in 0 .. Level(st) : Restart(n)
    \/ Inprocess \/ GiveUp

Spec == Init /\ [][Next]_vars

-----------------------------------------------------------------------------
(***************************************************************************)
(* Properties.                                                             *)
(***************************************************************************)
Pcs == BcpPcs \cup Callbacks \cup {"idle", "conflict", "unsat"}

\* The search state and the control state have their types.
TypeOK ==
    /\ st \in SearchState
    /\ st.notified <= Len(st.trail)
    /\ pc \in Pcs
    /\ conflict \subseteq Lit

\* What the propagator holds on all its levels together.
Viewed(s) == UNION {s.view[k] : k \in DOMAIN s.view}

(***************************************************************************)
(* Nothing the propagator still holds has been retracted by the solver:    *)
(* 'backtrack' never unassigns a literal that was reported on a level the  *)
(* propagator keeps.                                                       *)
(***************************************************************************)
NothingStale == Viewed(st) \subseteq TrueLits(st)

(***************************************************************************)
(* Whenever a callback runs that reads the assignment ('cb_propagate',     *)
(* 'cb_has_external_clause', 'cb_decide', 'cb_check_found_model') every    *)
(* assigned observed variable has been reported and is still held.         *)
(***************************************************************************)
CompleteAtCallback ==
    pc \in Callbacks =>
        {x \in TrueLits(st) : vidx(x) \in st.obs} \subseteq Viewed(st)

(***************************************************************************)
(* A literal that 'notified' counts as passed on is held by the            *)
(* propagator, during the whole search: it will not be reported again      *)
(* before it is unassigned, so it would be lost for good.                  *)
(***************************************************************************)
NothingForgotten ==
    pc # "idle" =>
        \A i \in 1 .. st.notified :
            vidx(st.trail[i]) \in st.obs => st.trail[i] \in Viewed(st)

(***************************************************************************)
(* No literal is reported on a propagator level below its assignment       *)
(* level, and a literal held on two levels is FIXED: it was reported once  *)
(* by 'notify_assignments' and once by 'mark_fixed', never twice by the    *)
(* former.                                                                 *)
(***************************************************************************)
ReportedOnItsLevel ==
    \A k \in DOMAIN st.view : \A x \in st.view[k] :
        /\ st.lev[vidx(x)] < k
        /\ x \in st.fixed \/ \A m \in DOMAIN st.view \ {k} : x \notin st.view[m]

(***************************************************************************)
(* The levels of solver and propagator agree during the whole search, so   *)
(* that 'notify_backtrack' drops what the solver retracts.                 *)
(***************************************************************************)
SameLevels == pc # "idle" => Len(st.view) = Level(st) + 1

(***************************************************************************)
(* 'analyze' is only entered with a clause all of whose literals are       *)
(* false, also after the backtracking of 'handle_external_clause' and      *)
(* 'external_check_solution' (the assertion of 'explain_reason').          *)
(***************************************************************************)
ConflictFalsified == pc = "conflict" => conflict # {} /\ conflict \subseteq FalseLits(st)

(***************************************************************************)
(* The inductive invariant behind these properties (for a propagator that  *)
(* does not observe assigned variables, and without saved phases): during  *)
(* the search the state is synced, callbacks find nothing pending, and     *)
(* units are propagated on the root level.                                 *)
(***************************************************************************)
LoopInv ==
    /\ pc \in Pcs \ {"phases"}
    /\ Sound(st)
    /\ pc # "idle" => Synced(st)
    /\ pc \in Callbacks => AllTold(st)
    /\ pc \in UnitPcs \cup {"start"} => Level(st) = 0
    /\ conflict \subseteq FalseLits(st)
    /\ pc = "conflict" <=> conflict # {}

(***************************************************************************)
(* The loop implements the protocol a propagator relies on: no step takes  *)
(* a report back on a level that stays, reports a literal a second time    *)
(* or on a level in the middle, or reports both a literal and its          *)
(* negation.                                                               *)
(***************************************************************************)
Protocol == INSTANCE Notifications WITH Literals <- Lit, held <- st.view

ReportsFollowProtocol == Protocol!Spec

(***************************************************************************)
(* A literal that a step of the search unassigns had an assignment level   *)
(* above the level the step backtracks to, and FIXED literals stay.        *)
(***************************************************************************)
OnlyHigherLevelsUndone ==
    [][ /\ st.fixed \subseteq st'.fixed
        /\ \A x \in OnTrail(st) :
              x \notin TrueLits(st') => st.lev[vidx(x)] > Len(st'.control) ]_vars
=============================================================================
