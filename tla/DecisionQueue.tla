--------------------------- MODULE DecisionQueue ---------------------------
(***************************************************************************)
(* The VMTF decision queue: a doubly linked list of the variables in the   *)
(* order of their time stamps 'btab', with a pointer 'unassigned' from     *)
(* which the search for the next decision goes backward.  New variables,   *)
(* assignments, bumping, shuffling and compaction all touch it, each in    *)
(* its own way.                                                            *)
(*                                                                         *)
(* queue holds first, last, unassigned and bumped of 'Queue', the links    *)
(* prev and next, btab and stats.bumped.  Compaction renumbers variables;  *)
(* here they keep their names and 'idx' shrinks.                           *)
(***************************************************************************)
EXTENDS Integers, FiniteSets, SequencesExt

CONSTANTS Var,        \* variables, positive integers
          MaxStamp,   \* bound on the absolute value of stamps
          Modulus     \* 2^64 of the unsigned ranks

ASSUME VarAssumption == Var \subseteq Nat \ {0} /\ Modulus \in Nat

VARIABLES queue, idx, vals, fixed,
          opts   \* the options 'reverse' and 'shuffle', set once
vars == <<queue, idx, vals, fixed, opts>>

None == [v \in Var |-> 0]

Init ==
    /\ queue = [first |-> 0, last |-> 0, unassigned |-> 0, bumped |-> 0,
                prev |-> None, next |-> None, btab |-> None, stamp |-> 0]
    /\ idx = {} /\ vals = {} /\ fixed = {}
    /\ opts \in [reverse : BOOLEAN, shuffle : BOOLEAN]

update_queue_unassigned(q, v) == [q EXCEPT !.unassigned = v, !.bumped = q.btab[v]]

(***************************************************************************)
(* The list.                                                               *)
(***************************************************************************)
dequeue(q, v) ==
    LET p == q.prev[v]
        n == q.next[v]
    IN  [q EXCEPT !.first = IF p = 0 THEN n ELSE @,
                  !.last = IF n = 0 THEN p ELSE @,
                  !.next = [u \in Var |-> IF u = p THEN n ELSE @[u]],
                  !.prev = [u \in Var |-> IF u = n THEN p ELSE @[u]]]

enqueue(q, v) ==
    [q EXCEPT !.first = IF q.last = 0 THEN v ELSE @,
              !.last = v,
              !.next = [u \in Var |-> IF u = v THEN 0 ELSE IF u = q.last THEN v ELSE @[u]],
              !.prev[v] = q.last]

\* Following the links from v, in a list that may be broken.
Follow(link, v) ==
    LET walk[n \in 0 .. Cardinality(Var)] ==
            IF n = 0 THEN <<v>>
            ELSE LET w == walk[n - 1]
                 IN  IF Last(w) = 0 THEN w ELSE Append(w, link[Last(w)])
    IN  SelectSeq(walk[Cardinality(Var)], LAMBDA u : u # 0)

Backward(s) == [i \in DOMAIN s |-> s[Len(s) - i + 1]]

Order(q) == Follow(q.next, q.first)

(***************************************************************************)
(* init_queue: one more variable, also during the search.                  *)
(***************************************************************************)
EnqueueFirst(q, v) ==
    LET r == [q EXCEPT !.last = IF q.first = 0 THEN v ELSE @,
                       !.btab[v] = IF q.first = 0 THEN 0 ELSE q.btab[q.first] - 1,
                       !.prev = [u \in Var |-> IF u = v THEN 0
                                               ELSE IF u = q.first THEN v ELSE @[u]],
                       !.next[v] = q.first,
                       !.first = v]
    IN  IF q.unassigned = 0 THEN update_queue_unassigned(r, r.last) ELSE r

EnqueueLast(q, v) ==
    LET r == [enqueue(q, v) EXCEPT !.stamp = @ + 1, !.btab[v] = q.stamp + 1]
    IN  update_queue_unassigned(r, v)

AddVar(v) ==
    /\ v \in Var \ idx /\ \A u \in Var \ idx : v <= u
    /\ v \notin fixed
    /\ queue.stamp < MaxStamp /\ (queue.first # 0 => queue.btab[queue.first] > -MaxStamp)
    /\ queue' = IF opts.reverse THEN EnqueueFirst(queue, v) ELSE EnqueueLast(queue, v)
    /\ idx' = idx \cup {v}
    /\ UNCHANGED <<vals, fixed, opts>>

(***************************************************************************)
(* Assignments.  'decide' searches the last unassigned variable.           *)
(***************************************************************************)
Search(q) ==
    LET back == Follow(q.prev, q.unassigned)
    IN  back[SelectInSeq(back, LAMBDA v : v \notin vals)]

Decide ==
    /\ idx \ vals # {}
    /\ LET v == Search(queue)
       IN  /\ queue' = IF v = queue.unassigned THEN queue
                       ELSE update_queue_unassigned(queue, v)
           /\ vals' = vals \cup {v}
    /\ UNCHANGED <<idx, fixed, opts>>

Propagate(v, unit) ==
    /\ v \in idx \ vals
    /\ vals' = vals \cup {v}
    /\ fixed' = IF unit THEN fixed \cup {v} ELSE fixed
    /\ UNCHANGED <<queue, idx, opts>>

\* Mutant: the pointer does not follow.
UnassignKeepsPointer(q, v) == q

unassign(q, v) == IF q.bumped < q.btab[v] THEN update_queue_unassigned(q, v) ELSE q

Unassign(v) ==
    /\ v \in vals \ fixed
    /\ vals' = vals \ {v}
    /\ queue' = unassign(queue, v)
    /\ UNCHANGED <<idx, fixed, opts>>

(***************************************************************************)
(* bump_variables: the analyzed variables, all assigned above the root     *)
(* level, in the order of their stamps, which are compared as unsigned.    *)
(***************************************************************************)
Rank(q, v) == IF q.btab[v] < 0 THEN q.btab[v] + Modulus ELSE q.btab[v]

\* Mutant: the stamp is not renewed.
BumpKeepsStamp(q, v) ==
    IF q.next[v] = 0 THEN q ELSE enqueue(dequeue(q, v), v)

bump_queue(q, v) ==
    IF q.next[v] = 0 THEN q
    ELSE LET r == [enqueue(dequeue(q, v), v) EXCEPT !.stamp = @ + 1, !.btab[v] = q.stamp + 1]
         IN  IF v \in vals THEN r ELSE update_queue_unassigned(r, v)

\* Mutant: the variables are bumped in no particular order.
AnyOrder(q, A) == SetToSeq(A)

ByRank(q, A) == SetToSortSeq(A, LAMBDA u, v : Rank(q, u) < Rank(q, v))

BumpVariables(A) ==
    /\ A # {} /\ A \subseteq vals \ fixed
    /\ queue.stamp + Cardinality(A) <= MaxStamp
    /\ queue' = FoldLeft(bump_queue, queue, ByRank(queue, A))
    /\ UNCHANGED <<idx, vals, fixed, opts>>

(***************************************************************************)
(* On the root level: shuffling and compaction.                            *)
(***************************************************************************)
\* The variables s get stamps down from queue.bumped.
Requeue(q, s) ==
    LET r == FoldLeft(enqueue, [q EXCEPT !.first = 0, !.last = 0], s)
    IN  [r EXCEPT !.btab = [v \in Var |-> IF v \in Range(s)
                               THEN q.bumped - Len(s) + SelectInSeq(s, LAMBDA u : u = v)
                               ELSE @[v]],
                  !.unassigned = r.last]

\* 'shufflerandom' takes all indices, otherwise the queue is reversed.
ShuffleQueue(s) ==
    /\ opts.shuffle /\ vals = fixed
    /\ queue.bumped - Len(s) >= -MaxStamp
    /\ queue' = Requeue(queue, s)
    /\ UNCHANGED <<idx, vals, fixed, opts>>

Shuffles == SetToSeqs(idx) \cup {Follow(queue.prev, queue.last)}

\* Eliminated variables E and all but the first fixed one lose their index;
\* neither they nor the first fixed one stay in the queue.
Compact(E) ==
    /\ vals = fixed /\ E \subseteq idx \ vals /\ E \cup fixed # {}
    /\ LET keep == SelectSeq(Order(queue), LAMBDA v : v \notin E \cup fixed)
           r == FoldLeft(enqueue, [queue EXCEPT !.first = 0, !.last = 0], keep)
           kept == {v \in fixed : \A u \in fixed : v <= u}
       IN  /\ queue' = [r EXCEPT !.unassigned = r.last]
           /\ idx' = (idx \ (E \cup fixed)) \cup kept
           /\ vals' = kept
           /\ fixed' = kept
    /\ UNCHANGED opts

Next ==
    \/ \E v \in Var : AddVar(v) \/ Unassign(v) \/ \E unit \in BOOLEAN : Propagate(v, unit)
    \/ Decide
    \/ \E A \in SUBSET Var : BumpVariables(A)
    \/ \E s \in Shuffles : ShuffleQueue(s)
    \/ \E E \in SUBSET idx : Compact(E)

Spec == Init /\ [][Next]_vars

-----------------------------------------------------------------------------
(***************************************************************************)
(* The links are one list in both directions, it has every variable that   *)
(* can still be decided exactly once, and stamps grow along it and are     *)
(* never ahead of the counter new ones are drawn from.                     *)
(***************************************************************************)
ListIntact ==
    LET order == Order(queue)
    IN  /\ order = Backward(Follow(queue.prev, queue.last))
        /\ IsInjective(order)
        /\ idx \ fixed \subseteq Range(order) /\ Range(order) \subseteq idx
        /\ \A i \in 2 .. Len(order) : queue.btab[order[i - 1]] < queue.btab[order[i]]
        /\ order # <<>> => queue.btab[Last(order)] <= queue.stamp

(***************************************************************************)
(* "All variables after this one are assigned": the search for a decision  *)
(* starts at 'unassigned' and never misses a variable, although 'bumped',  *)
(* which decides whether 'unassign' moves the pointer, is not always the   *)
(* stamp of the variable pointed to.                                       *)
(***************************************************************************)
PointerCovers ==
    idx \ vals \subseteq Range(Follow(queue.prev, queue.unassigned))

(***************************************************************************)
(* "This maintains relative order between bumped variables in the queue":  *)
(* the bumped ones move to the end, nothing else changes places.  Stamps   *)
(* below zero, which 'reverse' and shuffling give out, are ranked as if    *)
(* they were large, so this is stated for the others.                      *)
(***************************************************************************)
BumpKeepsOrder ==
    [][\A A \in SUBSET Var : BumpVariables(A) /\ (\A v \in A : queue.btab[v] >= 0) =>
          Order(queue') = SelectSeq(Order(queue), LAMBDA v : v \notin A)
                          \o SelectSeq(Order(queue), LAMBDA v : v \in A)]_vars
=============================================================================
