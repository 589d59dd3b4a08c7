----------------------------- MODULE MCDecision -----------------------------
(***************************************************************************)
(* The two structures decisions are taken from: the queue and, in stable   *)
(* mode, the heap of scores.  They share no state but the assignment, so a *)
(* behaviour follows one of them and leaves the other one empty.           *)
(***************************************************************************)
EXTENDS DecisionQueue

CONSTANTS MaxVar, Limit, One, MaxInc    \* of ScoreHeap

VARIABLES stable,   \* the heap is used
          heap, stab, score_inc, max_var

Scores == INSTANCE ScoreHeap

scoreVars == <<heap, stab, score_inc, max_var>>
allVars == <<stable, scoreVars, vars>>

\* The options only matter to the queue.
BothInit ==
    /\ stable \in BOOLEAN /\ Init /\ Scores!Init
    /\ stable => opts = [reverse |-> FALSE, shuffle |-> FALSE]

BothNext ==
    \/ ~stable /\ Next /\ UNCHANGED <<stable, scoreVars>>
    \/ stable /\ Scores!Next /\ UNCHANGED <<stable, queue, idx, opts>>

BothSpec == BothInit /\ [][BothNext]_allVars

\* See ScoreHeap: no variable that can be decided is missing on the heap.
FreeOnHeap == Scores!FreeOnHeap

\* See ScoreHeap: the front of the heap has the largest score.
FrontIsMaximum == Scores!FrontIsMaximum
=============================================================================
