----------------------------- MODULE BmcOracle -----------------------------
(***************************************************************************)
(* The BMC oracle as an external propagator: what its callbacks do with    *)
(* the notifications of the solver.  It observes, for each atomic          *)
(* proposition of the LTL formula, one variable per step 0 .. K, and the   *)
(* loop variables.  The sign of a literal plays no role here; the clauses  *)
(* themselves are the subject of BmcClauses.                               *)
(*                                                                         *)
(* The solver side is the protocol of Notifications, one call at a time:   *)
(* 'held' and 'fixed' are what it has reported.  With Chrono = FALSE a     *)
(* literal that was reported on a higher level may be reported again as    *)
(* FIXED, when conflict analysis finds that it holds on the root level.    *)
(***************************************************************************)
EXTENDS Integers, Sequences, FiniteSets, SequencesExt

CONSTANTS K,          \* the bound
          Name,       \* the atomic propositions of the LTL formula
          Loop,       \* the loop variables, each its own name
          Chrono,
          MaxLevel,   \* bound on the decision levels
          MaxQueue,   \* bound on the clauses waiting
          Few, Least, Most   \* the percentages 30, 5 and 10 of the filters

ASSUME SizeAssumption == K \in Nat \ {0} /\ MaxLevel \in Nat /\ MaxQueue \in Nat
ASSUME NamesAssumption == IsFiniteSet(Name) /\ IsFiniteSet(Loop)

Copies == Name \X (0 .. K)
Vars == Copies \cup (Loop \X {0})
Names == Name \cup Loop

VARIABLES current_trail, curr_trail_sz, prev_trail_sz, assignment_counter,
          ap_to_rm, unassigned_vars, registered, property, nb_property_variable,
          new_clauses,
          held, fixed,
          proposal    \* the answer of the last cb_decide, <<>> before

oracle == <<current_trail, curr_trail_sz, prev_trail_sz, assignment_counter, ap_to_rm,
            unassigned_vars, registered, property, nb_property_variable, new_clauses>>
vars == <<oracle, held, fixed, proposal>>

Init ==
    /\ current_trail = <<{}>>
    /\ curr_trail_sz = 0 /\ prev_trail_sz = 0
    /\ assignment_counter = [n \in Names |-> 0]
    /\ ap_to_rm = {}
    /\ unassigned_vars = [n \in Names |-> {}]
    /\ registered = Name
    /\ property = Vars
    /\ nb_property_variable = Cardinality(Vars)
    /\ new_clauses = <<>>
    /\ held = <<{}>> /\ fixed = {}
    /\ proposal = <<>>

\* The variables on some levels together.
All(levels) == UNION {levels[k] : k \in DOMAIN levels}

(***************************************************************************)
(* notify_assignment                                                       *)
(***************************************************************************)
\* The last of K copies of a name fixed on the root level: counted, but not
\* put on the trail.
Completes(v, is_fixed) ==
    is_fixed /\ Len(current_trail) = 1 /\ assignment_counter[v[1]] + 1 = K

Count(v, is_fixed) ==
    IF is_fixed /\ Len(current_trail) = 1
    THEN [assignment_counter EXCEPT ![v[1]] = @ + 1] ELSE assignment_counter

RemoveName(v) ==
    /\ ap_to_rm' = ap_to_rm \cup {v[1]}
    /\ property' = property \ {v}
    /\ nb_property_variable' = nb_property_variable - K
    /\ UNCHANGED <<current_trail, prev_trail_sz, registered, new_clauses>>

\* Mutant: a FIXED literal goes to the current level.
PushOnTop(v, is_fixed) ==
    [current_trail EXCEPT ![Len(current_trail)] = @ \cup {v}]

Push(v, is_fixed) ==
    [current_trail EXCEPT ![IF is_fixed THEN 1 ELSE Len(current_trail)] = @ \cup {v}]

\* The test whether to evaluate the trail, at size sz.
Worthwhile(sz) ==
    LET new == sz - prev_trail_sz
    IN  /\ new >= 0
        /\ sz * 100 <= Few * nb_property_variable
        /\ \/ prev_trail_sz = 0
           \/ /\ new * 100 >= Least * nb_property_variable
              /\ new * 100 <= Most * nb_property_variable

\* Evaluation adds some clauses, each over the whole trail.
evaluate_assignment(trail, sz) ==
    IF Worthwhile(sz)
    THEN /\ \E n \in 0 .. MaxQueue - Len(new_clauses) :
               new_clauses' = new_clauses \o [j \in 1 .. n |-> All(trail)]
         /\ prev_trail_sz' = sz
    ELSE UNCHANGED <<new_clauses, prev_trail_sz>>

PutOnTrail(v, is_fixed) ==
    /\ current_trail' = Push(v, is_fixed)
    /\ registered' = registered \ ap_to_rm
    /\ ap_to_rm' = {}
    /\ evaluate_assignment(current_trail', curr_trail_sz + 1)
    /\ UNCHANGED <<property, nb_property_variable>>

\* Mutant: the variable is not taken out of unassigned_vars.
NotifyKeepsUnassigned(v, is_fixed) ==
    /\ curr_trail_sz' = curr_trail_sz + 1
    /\ assignment_counter' = Count(v, is_fixed)
    /\ UNCHANGED unassigned_vars
    /\ IF Completes(v, is_fixed) THEN RemoveName(v) ELSE PutOnTrail(v, is_fixed)

notify_assignment(v, is_fixed) ==
    /\ curr_trail_sz' = curr_trail_sz + 1
    /\ unassigned_vars' = [unassigned_vars EXCEPT ![v[1]] = @ \ {v}]
    /\ assignment_counter' = Count(v, is_fixed)
    /\ IF Completes(v, is_fixed) THEN RemoveName(v) ELSE PutOnTrail(v, is_fixed)

\* The variables on some levels, a variable on two levels counted twice.
Stored(levels) == UNION {{k} \X levels[k] : k \in DOMAIN levels}
Size(levels) == Cardinality(Stored(levels))

(***************************************************************************)
(* notify_backtrack: drop the levels above n, one by one.                  *)
(***************************************************************************)
Above(n) == [k \in n + 2 .. Len(current_trail) |-> current_trail[k]]

\* Mutant: the size is not taken back.
BacktrackKeepsSize(n) ==
    /\ current_trail' = SubSeq(current_trail, 1, n + 1)
    /\ unassigned_vars' = [m \in Names |->
          unassigned_vars[m] \cup {v \in All(Above(n)) : v[1] = m}]
    /\ UNCHANGED <<curr_trail_sz, prev_trail_sz, assignment_counter, ap_to_rm, registered,
                   property, nb_property_variable, new_clauses>>

notify_backtrack(n) ==
    /\ current_trail' = SubSeq(current_trail, 1, n + 1)
    /\ curr_trail_sz' = curr_trail_sz - Size(Above(n))
    /\ unassigned_vars' = [m \in Names |->
          unassigned_vars[m] \cup {v \in All(Above(n)) : v[1] = m}]
    /\ UNCHANGED <<prev_trail_sz, assignment_counter, ap_to_rm, registered,
                   property, nb_property_variable, new_clauses>>

(***************************************************************************)
(* The steps of the solver, with the callback each of them makes.          *)
(***************************************************************************)
HeldVars == All(held)

Tell(v) ==
    /\ v \notin HeldVars
    /\ held' = [held EXCEPT ![Len(held)] = @ \cup {v}]
    /\ Len(held) > 1
    /\ notify_assignment(v, FALSE)
    /\ UNCHANGED fixed
    /\ proposal' = <<>>

Fix(v) ==
    /\ v \notin fixed
    /\ Chrono => v \notin HeldVars
    /\ held' = [held EXCEPT ![1] = @ \cup {v}]
    /\ fixed' = fixed \cup {v}
    /\ notify_assignment(v, TRUE)
    /\ proposal' = <<>>

Decide ==
    /\ Len(held) <= MaxLevel
    /\ held' = Append(held, {})
    /\ current_trail' = Append(current_trail, {})
    /\ UNCHANGED <<curr_trail_sz, prev_trail_sz, assignment_counter, ap_to_rm, unassigned_vars,
                   registered, property, nb_property_variable, new_clauses, fixed>>
    /\ proposal' = <<>>

BacktrackTo(n) ==
    /\ n + 1 < Len(held)
    /\ held' = SubSeq(held, 1, n + 1)
    /\ notify_backtrack(n)
    /\ UNCHANGED fixed
    /\ proposal' = <<>>

\* 'add_external_clause' reads the clause at the back of the queue.
AddExternalClause ==
    /\ new_clauses # <<>>
    /\ new_clauses' = Front(new_clauses)
    /\ UNCHANGED <<current_trail, curr_trail_sz, prev_trail_sz, assignment_counter, ap_to_rm,
                   unassigned_vars, registered, property, nb_property_variable,
                   held, fixed>>
    /\ proposal' = <<>>

\* The first name with a smallest set; the dereferenced begin () of an empty
\* set is any value.
cb_decide ==
    /\ proposal = <<>>
    /\ \E n \in Names :
          /\ \A m \in Names : Cardinality(unassigned_vars[n]) <= Cardinality(unassigned_vars[m])
          /\ proposal' \in IF unassigned_vars[n] = {} THEN Vars ELSE unassigned_vars[n]
    /\ UNCHANGED <<oracle, held, fixed>>

Next ==
    \/ \E v \in Vars : Tell(v) \/ Fix(v)
    \/ Decide
    \/ \E n \in 0 .. MaxLevel : BacktrackTo(n)
    \/ AddExternalClause
    \/ cb_decide

Spec == Init /\ [][Next]_vars

-----------------------------------------------------------------------------
(***************************************************************************)
(* The trail from which clauses are made is what the solver has reported   *)
(* and not taken back, level by level, but for the copies with which       *)
(* notify_assignment completed a name: those it never stores.  In          *)
(* particular every stored variable is a property variable (the assertion  *)
(* at the end of notify_assignment).                                       *)
(***************************************************************************)
MirrorsHeld ==
    /\ Len(current_trail) = Len(held)
    /\ \A k \in DOMAIN held : current_trail[k] = held[k] \cap property

(***************************************************************************)
(* curr_trail_sz, which is updated apart from the trail and compared with  *)
(* the thresholds, drifts from the size of the trail by the completing     *)
(* copies only, whatever the order of reports and backtracks, and          *)
(* whether a literal is held twice or not.                                 *)
(***************************************************************************)
SizeAccounts == curr_trail_sz = Size(current_trail) + Cardinality(Vars \ property)

(***************************************************************************)
(* With chronological backtracking unassigned_vars never lists a variable  *)
(* the solver still has assigned, so that a proposed decision is free.     *)
(***************************************************************************)
UnassignedNotHeld == \A n \in Names : unassigned_vars[n] \cap HeldVars = {}

(***************************************************************************)
(* cb_decide proposes a variable that backtracking has freed, of a name    *)
(* with few of them ("Decide on the next AP that has few assignments       *)
(* left").                                                                 *)
(***************************************************************************)
ProposalIsFree ==
    proposal # <<>> => proposal \in unassigned_vars[proposal[1]]
=============================================================================
