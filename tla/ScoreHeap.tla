----------------------------- MODULE ScoreHeap -----------------------------
(***************************************************************************)
(* The EVSIDS scores and the binary heap 'scores' of decision variables:   *)
(* 'heap', 'bump_variable_score', 'rescale_variable_scores', the search    *)
(* for a decision, 'unassign', shuffling and compaction.                   *)
(*                                                                         *)
(* Positions start at 1, and 0 is invalid_heap_position.  Scores are       *)
(* floating-point numbers in the code; here they are natural numbers,      *)
(* with One for 1.0 and Limit for 1e150, and multiplying by the factor of  *)
(* a rescaling rounds.                                                     *)
(***************************************************************************)
EXTENDS Integers, FiniteSets, SequencesExt

CONSTANTS MaxVar,     \* bound on max_var
          Limit, One,
          MaxInc      \* bound on score_inc before a conflict

VARIABLES heap,        \* array and pos
          stab, score_inc,
          max_var, vals, fixed
vars == <<heap, stab, score_inc, max_var, vals, fixed>>

Vars == 1 .. MaxVar
idx == 1 .. max_var

Empty == [array |-> <<>>, pos |-> [v \in Vars |-> 0]]

Init ==
    /\ heap = Empty
    /\ stab = [v \in Vars |-> 0] /\ score_inc = 1
    /\ max_var = 0 /\ vals = {} /\ fixed = {}

score_smaller(tab, a, b) == tab[a] < tab[b] \/ (tab[a] = tab[b] /\ a > b)

exchange(h, a, b) ==
    [array |-> [h.array EXCEPT ![h.pos[a]] = b, ![h.pos[b]] = a],
     pos |-> [h.pos EXCEPT ![a] = h.pos[b], ![b] = h.pos[a]]]

RECURSIVE up(_, _, _)
up(h, tab, e) ==
    LET p == h.array[h.pos[e] \div 2]
    IN  IF h.pos[e] > 1 /\ score_smaller(tab, p, e)
        THEN up(exchange(h, p, e), tab, e) ELSE h

\* Mutant: the right child is not considered.
LargerChildLeft(h, tab, e) == h.array[2 * h.pos[e]]

LargerChild(h, tab, e) ==
    LET i == 2 * h.pos[e]
    IN  IF i + 1 <= Len(h.array) /\ score_smaller(tab, h.array[i], h.array[i + 1])
        THEN h.array[i + 1] ELSE h.array[i]

RECURSIVE down(_, _, _)
down(h, tab, e) ==
    IF 2 * h.pos[e] <= Len(h.array) /\ score_smaller(tab, e, LargerChild(h, tab, e))
    THEN down(exchange(h, e, LargerChild(h, tab, e)), tab, e) ELSE h

contains(h, e) == h.pos[e] # 0

update(h, tab, e) == down(up(h, tab, e), tab, e)

push_back(h, tab, e) ==
    update([array |-> Append(h.array, e), pos |-> [h.pos EXCEPT ![e] = Len(h.array) + 1]],
           tab, e)

pop_front(h, tab) ==
    LET res == h.array[1]
        last == Last(h.array)
        r == [exchange(h, res, last) EXCEPT !.array = Front(@), !.pos[res] = 0]
    IN  IF Len(r.array) > 1 THEN down(r, tab, last) ELSE r

PushAll(h, tab, s) == FoldLeft(LAMBDA g, e : push_back(g, tab, e), h, s)

\* The elements in the order in which pop_front returns them.
RECURSIVE Popped(_, _)
Popped(h, tab) ==
    IF h.array = <<>> THEN <<>> ELSE <<h.array[1]>> \o Popped(pop_front(h, tab), tab)

(***************************************************************************)
(* New variables, assignments and decisions.                               *)
(***************************************************************************)
AddVar ==
    /\ max_var < MaxVar
    /\ max_var' = max_var + 1
    /\ stab' = [stab EXCEPT ![max_var'] = 0]
    /\ heap' = push_back(heap, stab', max_var')
    /\ UNCHANGED <<score_inc, vals, fixed>>

\* Assigned variables are popped until the front is unassigned.
RECURSIVE DropAssigned(_)
DropAssigned(h) == IF h.array[1] \in vals THEN DropAssigned(pop_front(h, stab)) ELSE h

Decide ==
    /\ idx \ vals # {}
    /\ heap' = DropAssigned(heap)
    /\ vals' = vals \cup {heap'.array[1]}
    /\ UNCHANGED <<stab, score_inc, max_var, fixed>>

Propagate(v, unit) ==
    /\ v \in idx \ vals
    /\ vals' = vals \cup {v}
    /\ fixed' = IF unit THEN fixed \cup {v} ELSE fixed
    /\ UNCHANGED <<heap, stab, score_inc, max_var>>

\* Mutant: the variable is not pushed back.
UnassignKeepsHeap(h, v) == h

unassign(h, v) == IF contains(h, v) THEN h ELSE push_back(h, stab, v)

Unassign(v) ==
    /\ v \in vals \ fixed
    /\ vals' = vals \ {v}
    /\ heap' = unassign(heap, v)
    /\ UNCHANGED <<stab, score_inc, max_var, fixed>>

(***************************************************************************)
(* Bumping.  Rescaling divides all scores by the largest one and leaves    *)
(* the heap alone.                                                         *)
(***************************************************************************)
Divider(tab, inc) == CHOOSE m \in {tab[v] : v \in idx} \cup {inc} :
                        \A v \in idx : tab[v] <= m /\ inc <= m

Rescaled(tab, inc) ==
    [v \in Vars |-> IF v \in idx THEN (tab[v] * One) \div Divider(tab, inc) ELSE tab[v]]

RescaledInc(tab, inc) ==
    LET r == (inc * One) \div Divider(tab, inc) IN IF r = 0 THEN 1 ELSE r

hit(score) == score > Limit

\* s has the heap, the scores and the increment.
rescale_variable_scores(s) ==
    [s EXCEPT !.tab = Rescaled(s.tab, s.inc), !.inc = RescaledInc(s.tab, s.inc)]

bump_variable_score(s, v) ==
    LET r == IF hit(s.tab[v] + s.inc) THEN rescale_variable_scores(s) ELSE s
        tab == [r.tab EXCEPT ![v] = @ + r.inc]
    IN  [r EXCEPT !.tab = tab,
                  !.heap = IF contains(@, v) THEN update(@, tab, v) ELSE @]

bump_variable_score_inc(s) ==
    LET r == IF hit(2 * s.inc) THEN rescale_variable_scores(s) ELSE s
    IN  [r EXCEPT !.inc = 2 * @]

\* The analyzed variables, all assigned above the root level.
BumpVariables(analyzed) ==
    /\ score_inc <= MaxInc
    /\ LET s == [heap |-> heap, tab |-> stab, inc |-> score_inc]
           r == bump_variable_score_inc(FoldLeft(bump_variable_score, s, analyzed))
       IN  heap' = r.heap /\ stab' = r.tab /\ score_inc' = r.inc
    /\ UNCHANGED <<max_var, vals, fixed>>

(***************************************************************************)
(* On the root level.  New scores 0, 1, ... in the order s, pushed one by  *)
(* one onto the emptied heap.                                              *)
(***************************************************************************)
ShuffleScores(s) ==
    /\ vals = fixed
    /\ LET tab == [v \in Vars |-> IF v \in Range(s)
                       THEN SelectInSeq(s, LAMBDA u : u = v) - 1 ELSE stab[v]]
       IN  /\ stab' = tab
           /\ heap' = PushAll(Empty, tab, s)
    /\ score_inc' = Len(s)
    /\ UNCHANGED <<max_var, vals, fixed>>

Shuffles == SetToSeqs(idx) \cup {Popped(heap, stab)}

\* Eliminated variables E and all but the first fixed one lose their index,
\* the others move down; the first fixed one is not on the heap any more.
Compact(E) ==
    /\ vals = fixed /\ E \subseteq idx \ vals /\ E \cup fixed # {}
    /\ LET first == {v \in fixed : \A u \in fixed : v <= u}
           kept == (idx \ (E \cup fixed)) \cup first
           map(v) == Cardinality({u \in kept : u <= v})
           saved == SelectSeq(Popped(heap, stab), LAMBDA v : v \in kept \ first)
       IN  /\ stab' = [w \in Vars |-> IF w <= Cardinality(kept)
                          THEN stab[CHOOSE v \in kept : map(v) = w] ELSE 0]
           /\ heap' = PushAll(Empty, stab', [i \in DOMAIN saved |-> map(saved[i])])
           /\ max_var' = Cardinality(kept)
           /\ vals' = {map(v) : v \in first} /\ fixed' = vals'
    /\ UNCHANGED score_inc

Next ==
    \/ AddVar \/ Decide
    \/ \E v \in idx : Unassign(v) \/ \E unit \in BOOLEAN : Propagate(v, unit)
    \/ \E A \in SUBSET (vals \ fixed) \ {{}} : \E s \in SetToSeqs(A) : BumpVariables(s)
    \/ max_var > 0 /\ \E s \in Shuffles : ShuffleScores(s)
    \/ \E E \in SUBSET idx : Compact(E)

Spec == Init /\ [][Next]_vars

-----------------------------------------------------------------------------
(***************************************************************************)
(* Every variable that can be decided is on the heap, where 'pos' says:    *)
(* the search for a decision, which pops assigned variables for good,      *)
(* never runs empty.                                                       *)
(***************************************************************************)
FreeOnHeap ==
    \A v \in idx \ vals : contains(heap, v) /\ \E i \in DOMAIN heap.array :
                              i = heap.pos[v] /\ heap.array[i] = v

(***************************************************************************)
(* "Returns the maximum element in the heap": nothing on the heap has a    *)
(* larger score than the front.  Rescaling does not touch the heap; where  *)
(* it rounds scores together, the front need no longer be the one among    *)
(* equals that 'score_smaller' prefers.                                    *)
(***************************************************************************)
FrontIsMaximum ==
    \A i \in 2 .. Len(heap.array) : stab[heap.array[i]] <= stab[heap.array[1]]
=============================================================================
