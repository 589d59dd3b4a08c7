--------------------------- MODULE Notifications ---------------------------
(***************************************************************************)
(* What an external propagator may rely on: the effect of the calls of     *)
(* 'notify_assignment', 'notify_new_decision_level' and 'notify_backtrack' *)
(* on a propagator that simply keeps what it is told, one set of literals  *)
(* per decision level.  Everything the solver does between two callbacks   *)
(* amounts to one of three steps.                                          *)
(***************************************************************************)
EXTENDS Integers, Sequences

CONSTANT Literals   \* integers, negation is '-'

VARIABLE held

Told(h) == UNION {h[k] : k \in DOMAIN h}

Consistent(S) == \A x \in S : -x \notin S

Init == held = <<{}>>

NewLevel == held' = Append(held, {})

(***************************************************************************)
(* Levels are dropped from the top; of the ones that stay the root level   *)
(* may gain FIXED literals and the top one literals reported for the first *)
(* time: they are held on no other level.                                  *)
(***************************************************************************)
Report ==
    LET n == Len(held')
    IN  /\ 1 <= n /\ n <= Len(held)
        /\ \A k \in 1 .. n : held[k] \subseteq held'[k]
        /\ \A k \in 2 .. n - 1 : held'[k] = held[k]
        /\ n > 1 => \A x \in held'[n] \ held[n] : \A k \in 1 .. n - 1 : x \notin held'[k]
        /\ Told(held') \subseteq Literals
        /\ Consistent(Told(held'))

\* A fresh propagator is connected.
Connect == held' = <<{}>>

Next == NewLevel \/ Report \/ Connect

Spec == Init /\ [][Next]_held
=============================================================================
