----------------------------- MODULE SolverApi -----------------------------
(***************************************************************************)
(* The state machine of the solver's interface (solver.cpp): the calls the *)
(* user makes between two solve calls, the calls a propagator may make     *)
(* from its callbacks, and what a solve call does meanwhile to the tables  *)
(* of ApiTables: it learns units, removes variables that are not frozen,   *)
(* brings them back and compacts, in any order.  The order its phases      *)
(* really have is the subject of SolveCall.  Decisions change none of the  *)
(* tables; of the decision level an answer is left with we keep whether it *)
(* is 0.                                                                   *)
(***************************************************************************)
EXTENDS ApiTables

CONSTANTS
  Added,         \* literals the user adds to clauses,
  Constrained,   \* to the constraint,
  Assumed,       \* and assumes
  MaxFreeze      \* bound on the user's own freezes of one variable

\* No count reaches its bound, since a count that saturates is never taken back.
ApiConstants ==
  /\ TableConstants
  /\ Added \subseteq Lit /\ Constrained \subseteq Lit /\ Assumed \subseteq Lit
  /\ MaxFreeze \in Nat
  /\ UINT_MAX > MaxVar * (MaxFreeze + 5)

VARIABLES
  state,               \* Solver::_state
  adding_clause,       \* Solver::adding_clause
  adding_constraint,   \* Solver::adding_constraint
  t,                   \* the tables of ApiTables
  frozen               \* how often the user froze each variable

vars == <<state, adding_clause, adding_constraint, t, frozen>>

READY == {"CONFIGURING", "UNKNOWN", "SATISFIED", "UNSATISFIED"}
VALID == READY \cup {"ADDING"}

Init ==
  /\ state = "CONFIGURING"
  /\ adding_clause = FALSE /\ adding_constraint = FALSE
  /\ t = EmptyTables
  /\ frozen = [v \in Var |-> 0]

----------------------------------------------------------------------------
(* Clauses, constraint and assumptions                                     *)

\* REQUIRE_VALID_STATE, and the user completes what they started to add.
Complete(other) == state \in VALID /\ ~other

\* Solver::transition_to_unknown_state: an answer is left together with its
\* assumptions and its constraint.
transition_to_unknown_state ==
  IF state \in {"SATISFIED", "UNSATISFIED"}
  THEN reset_constraint(reset_assumptions(t)) ELSE t

\* A unit on the root level.
WithUnit(u, ilit) ==
  [u EXCEPT !.val[Abs(ilit)] = IF ilit < 0 THEN -1 ELSE 1,
            !.status[Abs(ilit)] = "fixed"]

\* Internal::add_original_lit (0) and add_new_original_clause: the clause is
\* simplified by the root values; a unit is assigned and propagated, which
\* may fail.
NewOriginalClause(u) ==
  LET b    == [backtrack(u) EXCEPT !.original = {}]
      rest == {l \in u.original : RootVal(b, l) = 0}
      skip == \/ b.unsat
              \/ \E l \in u.original : RootVal(b, l) = 1
              \/ \E l \in rest : -l \in rest
  IN  IF skip \/ Cardinality(rest) > 1 THEN {b}
      ELSE IF rest = {} THEN {[b EXCEPT !.unsat = TRUE]}
      ELSE {[WithUnit(b, l) EXCEPT !.unsat = fails] : l \in rest, fails \in BOOLEAN}

\* Solver::add with a literal and with 0.
Add(lit) ==
  /\ Complete(adding_constraint)
  /\ LET u == internalize(transition_to_unknown_state, lit)
     IN  t' = [u EXCEPT !.original = @ \cup {Ilit(u, lit)}]
  /\ adding_clause' = TRUE
  /\ state' = "ADDING"
  /\ UNCHANGED <<adding_constraint, frozen>>

AddZero ==
  /\ Complete(adding_constraint)
  /\ t' \in NewOriginalClause(transition_to_unknown_state)
  /\ adding_clause' = FALSE
  /\ state' = "UNKNOWN"
  /\ UNCHANGED <<adding_constraint, frozen>>

\* Solver::constrain with a literal and with 0.
Constrain(lit) ==
  /\ Complete(adding_clause)
  /\ t' = constrain(transition_to_unknown_state, lit)
  /\ adding_constraint' = TRUE
  /\ state' = "ADDING"
  /\ UNCHANGED <<adding_clause, frozen>>

ConstrainZero ==
  /\ Complete(adding_clause)
  /\ t' = close_constraint(transition_to_unknown_state)
  /\ adding_constraint' = FALSE
  /\ state' = "UNKNOWN"
  /\ UNCHANGED <<adding_clause, frozen>>

\* Solver::assume, reset_assumptions and reset_constraint.
Assume(lit) ==
  /\ Complete(adding_clause \/ adding_constraint)
  /\ t' = assume(transition_to_unknown_state, lit)
  /\ state' = "UNKNOWN"
  /\ UNCHANGED <<adding_clause, adding_constraint, frozen>>

ResetAssumptions ==
  /\ Complete(adding_clause \/ adding_constraint)
  /\ t' = reset_assumptions(transition_to_unknown_state)
  /\ state' = "UNKNOWN"
  /\ UNCHANGED <<adding_clause, adding_constraint, frozen>>

ResetConstraint ==
  /\ Complete(adding_clause \/ adding_constraint)
  /\ t' = reset_constraint(transition_to_unknown_state)
  /\ state' = "UNKNOWN"
  /\ UNCHANGED <<adding_clause, adding_constraint, frozen>>

----------------------------------------------------------------------------
(* Calls that leave the state of the interface alone                       *)

\* Solver::freeze and Solver::melt; the user only melts what they froze.
Freeze(v) ==
  /\ state \in VALID /\ frozen[v] < MaxFreeze
  /\ t' = freeze(t, v)
  /\ frozen' = [frozen EXCEPT ![v] = @ + 1]
  /\ UNCHANGED <<state, adding_clause, adding_constraint>>

Melt(v) ==
  /\ state \in VALID /\ frozen[v] > 0
  /\ t' = melt(t, v)
  /\ frozen' = [frozen EXCEPT ![v] = @ - 1]
  /\ UNCHANGED <<state, adding_clause, adding_constraint>>

\* Solver::connect_external_propagator and disconnect_external_propagator.
Disconnected == IF t.propagator THEN reset_observed_vars(t) ELSE t

ConnectPropagator ==
  /\ state \in VALID
  /\ t' = [Disconnected EXCEPT !.propagator = TRUE]
  /\ UNCHANGED <<state, adding_clause, adding_constraint, frozen>>

DisconnectPropagator ==
  /\ state \in VALID
  /\ t' = [Disconnected EXCEPT !.propagator = FALSE]
  /\ UNCHANGED <<state, adding_clause, adding_constraint, frozen>>

\* Solver::add_observed_var, also called from callbacks of a solve call.
AddObserved(v) ==
  /\ t.propagator
  /\ t' = add_observed_var(t, v)
  /\ UNCHANGED <<state, adding_clause, adding_constraint, frozen>>

\* Solver::remove_observed_var, and reset_observed_vars, which the contract
\* allows while solving as well.
RemoveObserved(v) ==
  /\ state \in VALID /\ t.propagator
  /\ t' = remove_observed_var(t, v)
  /\ UNCHANGED <<state, adding_clause, adding_constraint, frozen>>

ResetObserved ==
  /\ t.propagator
  /\ t' = reset_observed_vars(t)
  /\ UNCHANGED <<state, adding_clause, adding_constraint, frozen>>

\* Solver::failed computes the failed assumptions on its first call.
Failed ==
  /\ state = "UNSATISFIED"
  /\ t' = [t EXCEPT !.marked_failed = TRUE]
  /\ UNCHANGED <<state, adding_clause, adding_constraint, frozen>>

----------------------------------------------------------------------------
(* The solve call                                                          *)

Inconsistent == t.unsat \/ t.unsat_constraint

SolvingStep(u) ==
  /\ state = "SOLVING" /\ t' = u
  /\ UNCHANGED <<state, adding_clause, adding_constraint, frozen>>

\* Solver::solve and Solver::simplify, up to Internal::solve.
Solve ==
  /\ state \in READY
  /\ t' = [transition_to_unknown_state EXCEPT !.level = 0, !.trail = "none"]
  /\ state' = "SOLVING"
  /\ UNCHANGED <<adding_clause, adding_constraint, frozen>>

\* Internal::restore_clauses brings eliminated variables back.
RestoreClauses ==
  \E v \in 1 .. t.imax :
    /\ t.status[v] = "eliminated"
    /\ SolvingStep([t EXCEPT !.status[v] = "active"])

\* A unit clause is learned or found by inprocessing.
LearnUnit ==
  \E v \in 1 .. t.imax, sign \in {-1, 1} :
    /\ t.status[v] = "active"
    /\ SolvingStep(WithUnit(t, sign * v))

LearnEmptyClause == SolvingStep([t EXCEPT !.unsat = TRUE])

\* elim, block, cover, decompose and the like skip frozen variables.
Eliminable(u, v) == u.status[v] = "active" /\ u.ifrozen[v] = 0

Eliminate ==
  \E v \in 1 .. t.imax :
    /\ Eliminable(t, v)
    /\ SolvingStep([t EXCEPT !.status[v] = "eliminated"])

Compact ==
  /\ ~t.unsat
  /\ \E v \in 1 .. t.imax : t.status[v] # "active"
  /\ SolvingStep(compact(t))

\* Solver::lookahead propagates, restores and probes on the root level, unless
\* the formula is known to be inconsistent.  Neither the state nor the
\* assumptions are reset.
Lookahead ==
  /\ state \in VALID /\ ~adding_clause /\ ~adding_constraint
  /\ t' \in IF Inconsistent THEN {t}
            ELSE LET b == backtrack(t)
                 IN  {b, [b EXCEPT !.unsat = TRUE]}
                       \cup {[b EXCEPT !.status[v] = "active"] :
                               v \in {w \in 1 .. b.imax : b.status[w] = "eliminated"}}
                       \cup {WithUnit(b, sign * v) : sign \in {-1, 1},
                               v \in {w \in 1 .. b.imax : b.status[w] = "active"}}
  /\ UNCHANGED <<state, adding_clause, adding_constraint, frozen>>

Answer(answer, u) ==
  /\ state = "SOLVING" /\ state' = answer /\ t' = u
  /\ UNCHANGED <<adding_clause, adding_constraint, frozen>>

\* The end of Solver::call_external_solve_and_check_results, one action for
\* each result of Internal::solve.  Internal::satisfied wants a decision level
\* for each assumption and for the constraint.
ReturnSatisfied ==
  /\ ~Inconsistent
  /\ \E level \in {0, 1} :
       /\ t.assumptions \cup t.constraint # {} => level = 1
       /\ Answer("SATISFIED", [t EXCEPT !.level = level, !.trail = "model"])

ReturnInconsistent == Inconsistent /\ Answer("UNSATISFIED", t)

\* Internal::decide found a false assumption, or the constraint false.
ReturnFailed ==
  LET failed(level) ==
        [t EXCEPT !.level = level, !.trail = "failed", !.marked_failed = FALSE]
  IN  /\ ~Inconsistent
      /\ \E level \in {0, 1} :
           \/ /\ \E a \in t.assumptions : RootVal(t, a) # 1
              /\ Answer("UNSATISFIED", failed(level))
           \/ /\ t.constraint # {} /\ \A l \in t.constraint : RootVal(t, l) # 1
              /\ Answer("UNSATISFIED", [failed(level) EXCEPT !.unsat_constraint = TRUE])

ReturnUnknown == ~Inconsistent /\ Answer("UNKNOWN", reset_assumptions(t))

Next ==
  \/ \E lit \in Added : Add(lit)
  \/ \E lit \in Constrained : Constrain(lit)
  \/ \E lit \in Assumed : Assume(lit)
  \/ AddZero \/ ConstrainZero \/ ResetAssumptions \/ ResetConstraint
  \/ \E v \in Var : Freeze(v) \/ Melt(v) \/ AddObserved(v) \/ RemoveObserved(v)
  \/ ConnectPropagator \/ DisconnectPropagator \/ ResetObserved \/ Failed
  \/ Solve \/ RestoreClauses \/ LearnUnit \/ LearnEmptyClause \/ Eliminate
  \/ Compact \/ ReturnSatisfied \/ ReturnInconsistent \/ ReturnFailed \/ ReturnUnknown
  \/ Lookahead

Spec == Init /\ [][Next]_vars

----------------------------------------------------------------------------
(* Properties                                                              *)

\* Who holds a reference to internal variable "v": the external freezes of all
\* the variables that are mapped to it, its assumed literals, and its literals
\* in a complete constraint.
Holders(v) ==
  MapThenSumSet(LAMBDA e : t.frozentab[e], {e \in Var : Abs(t.e2i[e]) = v})
    + Cardinality({l \in t.assumptions : Abs(l) = v})
    + Cardinality({l \in t.constraint : t.eclosed /\ Abs(l) = v})

ConstraintHeld == t.eclosed /\ t.constraint # {}

\* A variable that is frozen (observed variables are), assumed, or in the
\* constraint is never eliminated and never loses its internal variable, on
\* which compact, decide, failed and the notifications of the propagator rely
\* (the comment "Because we froze all!!!" in compact.cpp).
HeldVariablesKept ==
  \A e \in 1 .. t.max :
    \/ t.frozentab[e] > 0
    \/ e \in {Abs(l) : l \in t.eassumptions}
    \/ ConstraintHeld /\ e \in {Abs(l) : l \in t.econstraint}
    => t.e2i[e] # 0 /\ t.status[Abs(t.e2i[e])] \in {"active", "fixed"}

\* The reference counts are exact, and in the range of their type, whatever
\* calls, answers and compactions happen in between.  Each reference of
\* Internal::freeze is taken once and given back once, so that a melted variable
\* can be eliminated and a held one can not.  As long as an internal variable
\* has no root value, its 'relevanttab' count is the number of observed
\* variables mapped to it, so that notifications neither miss an observed
\* variable nor go on after the last is removed.
CountsExact ==
  /\ t \in Tables
  /\ \A v \in Var : t.ifrozen[v] = Holders(v)
  /\ \A v \in 1 .. t.imax : t.val[v] = 0 =>
       t.relevanttab[v] = Cardinality({e \in Var : t.is_observed[e] /\ Abs(t.e2i[e]) = v})

\* The internal copies agree with the external ones, also after compact took
\* them back and entered them again: 'decide' uses the former, 'failed' and
\* the model checks the latter.  Only root-false literals of the constraint
\* are missing in its copy.
CopiesAgree ==
  /\ t.assumptions = {Ilit(t, elit) : elit \in t.eassumptions}
  /\ ConstraintHeld =>
       LET image == {Ilit(t, elit) : elit \in t.econstraint}
       IN  t.constraint \subseteq image /\ \A l \in image \ t.constraint : RootVal(t, l) = -1
=============================================================================
