------------------------------ MODULE TrailInv ------------------------------
(***************************************************************************)
(* The facts about a search state that the operations of Trail preserve    *)
(* and that together keep the propagator's copy of the trail exact.        *)
(***************************************************************************)
EXTENDS Trail

\* The control stack cuts the trail into consecutive blocks.
BlocksOrdered(s) ==
    /\ \A l \in 1 .. Len(s.control) : s.control[l].trail <= Len(s.trail)
    /\ \A l, m \in 1 .. Len(s.control) :
          l <= m => s.control[l].trail <= s.control[m].trail

\* No variable is assigned twice.
Consistent(s) ==
    /\ \A i, j \in 1 .. Len(s.trail) :
          vidx(s.trail[i]) = vidx(s.trail[j]) => i = j
    /\ \A x \in TrueLits(s) : -x \notin TrueLits(s)

\* Assignment levels exist, and level 0 is what FIXED literals have.
LevelsExist(s) ==
    /\ \A i \in 1 .. Len(s.trail) :
          /\ s.lev[vidx(s.trail[i])] <= Len(s.control)
          /\ s.lev[vidx(s.trail[i])] = 0 => s.trail[i] \in s.fixed
    /\ \A x \in s.fixed : s.lev[vidx(x)] = 0

\* What lies before the l-th decision has a lower assignment level.
LowerBefore(s) ==
    \A l \in 1 .. Len(s.control) : \A i \in 1 .. s.control[l].trail :
        s.lev[vidx(s.trail[i])] < l

\* Position i of the trail belongs to the block of propagator level k.
InBlock(s, i, k) ==
    /\ k <= Len(s.control) => i <= s.control[k].trail
    /\ k > 1 => s.control[k - 1].trail < i

\* A literal the propagator holds is FIXED or lies in the block of the level
\* it is held on.
HeldInBlock(s) ==
    \A k \in 1 .. Len(s.view) : \A x \in s.view[k] :
        \/ x \in s.fixed
        \/ \E i \in 1 .. Len(s.trail) : s.trail[i] = x /\ InBlock(s, i, k)

FixedHeld(s) == \A x \in s.fixed : vidx(x) \in s.obs => x \in s.view[1]

\* Holds at all times, also between two calls of 'solve'.
Sound(s) ==
    /\ s \in SearchState
    /\ s.notified <= Len(s.trail)
    /\ 1 <= Len(s.view) /\ Len(s.view) <= Len(s.control) + 1
    /\ BlocksOrdered(s)
    /\ Consistent(s)
    /\ LevelsExist(s)
    /\ LowerBefore(s)
    /\ HeldInBlock(s)
    /\ FixedHeld(s)

\* What 'notified' counts as passed on is held in its block, or FIXED.
CountedHeld(s) ==
    \A i \in 1 .. s.notified : vidx(s.trail[i]) \in s.obs =>
        \/ s.trail[i] \in s.fixed
        \/ \E k \in 1 .. Len(s.view) : s.trail[i] \in s.view[k] /\ InBlock(s, i, k)

\* Decisions are only taken when all but FIXED literals are passed on.
PendingAbove(s) ==
    \A l \in 1 .. Len(s.control) : \A i \in s.notified + 1 .. s.control[l].trail :
        s.trail[i] \in s.fixed

\* Holds in addition during a call of 'solve'.
Synced(s) ==
    /\ Len(s.view) = Len(s.control) + 1
    /\ CountedHeld(s)
    /\ PendingAbove(s)

\* Nothing but FIXED literals is still to be passed on.
AllTold(s) == \A i \in s.notified + 1 .. Len(s.trail) : s.trail[i] \in s.fixed
=============================================================================
