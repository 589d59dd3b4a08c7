------------------------------- MODULE Trail -------------------------------
(***************************************************************************)
(* The assignment trail of the CDCL search and the copy of it that an      *)
(* external propagator keeps, as the operations on them that every other   *)
(* step of the search is made of: 'search_assign', 'mark_fixed',           *)
(* 'notify_assignments', the opening of a decision level, 'backtrack',     *)
(* 'explain_external_propagations' and 'compact'.                          *)
(*                                                                         *)
(* A search state s is a record                                            *)
(*   trail     the assigned literals in assignment order;                  *)
(*   control   per decision level its decision (0 on a pseudo level) and   *)
(*             the length of the trail before it;                          *)
(*   lev       the assignment level of a variable (0 when unassigned);     *)
(*   ext       the variables whose reason is still 'external_reason';      *)
(*   fixed     the literals with status FIXED, which stay true even after  *)
(*             'compact' has dropped them from the trail;                  *)
(*   obs       the observed variables;                                     *)
(*   notified  how much of the trail 'notify_assignments' has passed on;   *)
(*   view      what the propagator holds, one set per level as it has been *)
(*             told of levels: view[1] is the root level.                  *)
(***************************************************************************)
EXTENDS Integers, Sequences, FiniteSets

CONSTANTS Var,           \* the variables, positive integers
          LoggingBuild   \* TRUE: compiled with LOGGING

ASSUME VarAssumption == Var \subseteq Nat \ {0}
ASSUME LoggingAssumption == LoggingBuild \in BOOLEAN

Lit == Var \cup {-v : v \in Var}

vidx(x) == IF x < 0 THEN -x ELSE x

SearchState ==
    [trail : Seq(Lit),
     control : Seq([decision : Lit \cup {0}, trail : Nat]),
     lev : [Var -> Nat],
     ext : SUBSET Var,
     fixed : SUBSET Lit,
     obs : SUBSET Var,
     notified : Nat,
     view : Seq(SUBSET Lit)]

Level(s) == Len(s.control)

OnTrail(s) == {s.trail[i] : i \in DOMAIN s.trail}
TrueLits(s) == OnTrail(s) \cup s.fixed
FalseLits(s) == {x \in Lit : -x \in TrueLits(s)}
Unassigned(s) == Lit \ (TrueLits(s) \cup FalseLits(s))

\* The highest assignment level in a set of assigned literals, 0 if empty.
MaxLevel(s, C) ==
    CHOOSE m \in {s.lev[vidx(x)] : x \in C} \cup {0} :
        \A x \in C : s.lev[vidx(x)] <= m

EmptyTrail(obs) ==
    [trail |-> <<>>, control |-> <<>>, lev |-> [v \in Var |-> 0], ext |-> {},
     fixed |-> {}, obs |-> obs, notified |-> 0, view |-> <<{}>>]

(***************************************************************************)
(* A literal becomes FIXED and, if observed, is reported at once with      *)
(* is_fixed = true; the propagator keeps it on its root level.             *)
(***************************************************************************)
MarkFixed(s, x) ==
    [s EXCEPT !.fixed = @ \cup {x},
              !.view[1] = @ \cup (IF vidx(x) \in s.obs THEN {x} ELSE {})]

\* 'search_assign' with the assignment level l already determined.
SearchAssign(s, x, l) ==
    LET t == [s EXCEPT !.trail = Append(@, x), !.lev[vidx(x)] = l]
    IN  IF l = 0 THEN MarkFixed(t, x) ELSE t

\* The part of the trail that has not been passed on yet.
Pending(s) == {s.trail[i] : i \in s.notified + 1 .. Len(s.trail)}

\* Mutant: everything is reported on the root level.
NotifyOnRoot(s) ==
    [s EXCEPT !.notified = Len(s.trail),
              !.view[1] = @ \cup {x \in Pending(s) : vidx(x) \in s.obs}]

\* Mutant: the last literal of the trail is left out.
NotifyAllButLast(s) ==
    [s EXCEPT !.notified = Len(s.trail),
              !.view[Len(s.view)] = @ \cup
                 {s.trail[i] : i \in {j \in s.notified + 1 .. Len(s.trail) - 1 :
                                        vidx(s.trail[j]) \in s.obs}}]

NotifyAssignments(s) ==
    LET told == {x \in Pending(s) : vidx(x) \in s.obs /\ x \notin s.fixed}
    IN  [s EXCEPT !.notified = Len(s.trail),
                  !.view[Len(s.view)] = @ \cup told]

\* Mutant: the propagator is not told of the new level.
NewLevelUntold(s, d) ==
    [s EXCEPT !.control = Append(@, [decision |-> d, trail |-> Len(s.trail)])]

\* A new decision level; d is its decision, or 0 for a pseudo level.
NewLevel(s, d) ==
    [s EXCEPT !.control = Append(@, [decision |-> d, trail |-> Len(s.trail)]),
              !.view = Append(@, {})]

SearchAssumeDecision(s, x) == SearchAssign(NewLevel(s, x), x, Level(s) + 1)

\* The elements of seq at the positions in S, in their order.
Select(seq, S) ==
    [j \in 1 .. Cardinality(S) |->
        seq[CHOOSE i \in S : Cardinality({k \in S : k <= i}) = j]]

\* Mutant: the propagator keeps one level too many.
BacktrackKeepsLevel(s, n) ==
    IF n = Level(s) THEN s
    ELSE LET assigned == s.control[n + 1].trail
         IN  [s EXCEPT !.trail = SubSeq(@, 1, assigned),
                       !.lev = [v \in Var |-> IF @[v] > n THEN 0 ELSE @[v]],
                       !.ext = {v \in @ : s.lev[v] <= n},
                       !.notified = IF @ > assigned THEN assigned ELSE @,
                       !.view = SubSeq(@, 1, IF n + 2 < Len(@) THEN n + 2 ELSE Len(@)),
                       !.control = SubSeq(@, 1, n)]

\* Mutant: out-of-order literals are dropped although their level stays.
BacktrackDropsAll(s, n) ==
    IF n = Level(s) THEN s
    ELSE LET assigned == s.control[n + 1].trail
         IN  [s EXCEPT !.trail = SubSeq(@, 1, assigned),
                       !.lev = [v \in Var |->
                                  IF v \in {vidx(s.trail[i]) : i \in 1 .. assigned}
                                  THEN @[v] ELSE 0],
                       !.notified = IF @ > assigned THEN assigned ELSE @,
                       !.view = SubSeq(@, 1, n + 1),
                       !.control = SubSeq(@, 1, n)]

(***************************************************************************)
(* Backtracking to level n removes from the trail, beyond the literals     *)
(* below the first level left, those with a higher assignment level; the   *)
(* others stay (out of order) and move down.  The propagator drops its     *)
(* levels and 'notified' goes back, so that the literals that stay are     *)
(* reported again.  Only a LOGGING build counts 'reassigned' and reports   *)
(* them before it returns.                                                 *)
(***************************************************************************)
Beyond(s, n) == s.control[n + 1].trail + 1 .. Len(s.trail)

OutOfOrder(s, n) == {i \in Beyond(s, n) : s.lev[vidx(s.trail[i])] <= n}

Undo(s, n) ==
    LET assigned == s.control[n + 1].trail
        keep == OutOfOrder(s, n)
        gone == {vidx(s.trail[i]) : i \in Beyond(s, n) \ keep}
    IN  [s EXCEPT !.trail = SubSeq(@, 1, assigned) \o Select(@, keep),
                  !.lev = [v \in Var |-> IF v \in gone THEN 0 ELSE @[v]],
                  !.ext = @ \ gone,
                  !.notified = IF @ > assigned THEN assigned ELSE @,
                  !.view = SubSeq(@, 1, n + 1),
                  !.control = SubSeq(@, 1, n)]

Backtrack(s, n) ==
    IF n = Level(s) THEN s
    ELSE IF LoggingBuild /\ OutOfOrder(s, n) # {} THEN NotifyAssignments(Undo(s, n))
    ELSE Undo(s, n)

(***************************************************************************)
(* Explaining external propagations: the reasons of E become known and the *)
(* assignment levels are recomputed to nl, which only lowers them; what    *)
(* turns out to hold on the root level is learned as a unit.               *)
(***************************************************************************)
Explain(s, E, nl) ==
    LET units == {x \in OnTrail(s) : nl[vidx(x)] = 0} \ s.fixed
    IN  [s EXCEPT !.lev = nl,
                  !.ext = @ \ E,
                  !.fixed = @ \cup units,
                  !.view[1] = @ \cup {x \in units : vidx(x) \in s.obs}]

\* The level functions an explanation of E can lead to.
Lowered(s, E, chrono) ==
    {nl \in [Var -> 0 .. Level(s)] :
        /\ \A v \in Var : nl[v] <= s.lev[v]
        /\ \A l \in DOMAIN s.control : s.control[l].decision # 0 =>
              nl[vidx(s.control[l].decision)] = s.lev[vidx(s.control[l].decision)]
        /\ chrono /\ E = {} => nl = s.lev}

\* 'compact' maps all fixed literals to the first one (root level only).
Compact(s, x) == [s EXCEPT !.trail = <<x>>, !.notified = 0]
=============================================================================
