--------------------------- MODULE ProtocolProofs ---------------------------
(***************************************************************************)
(* What a single step of the loop may do, for any set of variables, any    *)
(* assumptions and constraint, and in both builds: to the propagator it is *)
(* a step of the protocol in Notifications, and of the assignment it takes *)
(* back only what lies above the level it returns to.  A step is made of   *)
(* several operations on the trail; 'Moves' is what each of them does and  *)
(* what they do in sequence.                                               *)
(***************************************************************************)
EXTENDS PropagatorLoopProofs

\* Levels are dropped from the top, those that stay lose nothing, and above
\* the root level only the top one gains literals, which are not FIXED.
Follows(s, t) ==
    /\ Len(t.view) <= Len(s.view)
    /\ \A k \in 1 .. Len(t.view) : s.view[k] \subseteq t.view[k]
    /\ \A k \in 2 .. Len(t.view) : \A x \in t.view[k] \ s.view[k] :
          k = Len(t.view) /\ x \notin t.fixed

\* What is true stays true on a level not higher than before, or was assigned
\* above the levels that are left.
Retains(s, t) ==
    /\ s.fixed \subseteq t.fixed
    /\ Len(t.control) <= Len(s.control)
    /\ \A x \in TrueLits(s) :
          \/ x \in TrueLits(t) /\ t.lev[vidx(x)] <= s.lev[vidx(x)]
          \/ s.lev[vidx(x)] > Len(t.control)

Moves(s, t) == Follows(s, t) /\ Retains(s, t)

\* Literals that become FIXED are newly assigned ones.
FixesNew(s, t) == \A x \in t.fixed \ s.fixed : x \notin TrueLits(s)

\* The levels of true literals are numbers.
LEMMA TrueFacts ==
    ASSUME NEW s, Sound(s)
    PROVE  /\ \A x \in TrueLits(s) : x \in Lit /\ vidx(x) \in Var /\ s.lev[vidx(x)] \in Nat
           /\ Len(s.control) \in Nat /\ Len(s.view) \in Nat /\ 1 <= Len(s.view)
<1>1. s \in SearchState /\ 1 <= Len(s.view)
  BY DEF Sound
<1>2. \A x \in TrueLits(s) : x \in Lit
  BY <1>1, StateFacts DEF TrueLits, OnTrail
<1>3. s.lev \in [Var -> Nat]
  BY <1>1, StateFacts
<1>4. \A x \in TrueLits(s) : vidx(x) \in Var
  BY <1>2, LitFacts
<1> QED BY <1>1, <1>2, <1>3, <1>4, StateFacts

\* Nothing is moved by doing nothing.
LEMMA MovesSame ==
    ASSUME NEW s, Sound(s)
    PROVE  Moves(s, s) /\ FixesNew(s, s)
BY TrueFacts DEF Moves, Follows, Retains, FixesNew

\* A further operation that fixes no literal true before moves on.
LEMMA MovesOn ==
    ASSUME NEW s, NEW t, NEW u, Sound(s), Sound(t), Sound(u),
           Moves(s, t), Moves(t, u), FixesNew(t, u)
    PROVE  Moves(s, u)
<1>1. /\ Len(s.view) \in Nat /\ Len(t.view) \in Nat /\ Len(u.view) \in Nat
      /\ Len(s.control) \in Nat /\ Len(t.control) \in Nat /\ Len(u.control) \in Nat
  BY TrueFacts
<1>2. Follows(s, t) /\ Follows(t, u) /\ Retains(s, t) /\ Retains(t, u)
  BY DEF Moves
<1>3. Len(u.view) <= Len(t.view) /\ Len(t.view) <= Len(s.view)
  BY <1>2 DEF Follows
<1>4. \A k \in 1 .. Len(u.view) : k \in 1 .. Len(t.view)
  BY <1>1, <1>3
<1>5. \A k \in 1 .. Len(u.view) : s.view[k] \subseteq u.view[k]
  BY <1>2, <1>4 DEF Follows
<1>6. ASSUME NEW k \in 2 .. Len(u.view), NEW x \in u.view[k] \ s.view[k]
      PROVE  k = Len(u.view) /\ x \notin u.fixed
  <2>1. CASE x \notin t.view[k]
    BY <2>1, <1>2, <1>6 DEF Follows
  <2>2. CASE x \in t.view[k]
    <3>1. k \in 2 .. Len(t.view) /\ k \in 1 .. Len(t.view)
      BY <1>1, <1>3
    <3>2. k = Len(t.view) /\ x \notin t.fixed
      BY <3>1, <2>2, <1>2, <1>6 DEF Follows
    <3>3. k = Len(u.view)
      BY <3>2, <1>1, <1>3
    <3>4. x \in TrueLits(t)
      BY <3>1, <2>2, HeldTrue
    <3> QED BY <3>2, <3>3, <3>4 DEF FixesNew
  <2> QED BY <2>1, <2>2
<1>7. Follows(s, u)
  BY <1>1, <1>3, <1>5, <1>6 DEF Follows
<1>8. ASSUME NEW x \in TrueLits(s)
      PROVE  \/ x \in TrueLits(u) /\ u.lev[vidx(x)] <= s.lev[vidx(x)]
             \/ s.lev[vidx(x)] > Len(u.control)
  <2>1. s.lev[vidx(x)] \in Nat /\ Len(u.control) <= Len(t.control)
    BY <1>2, TrueFacts DEF Retains
  <2>2. CASE s.lev[vidx(x)] > Len(t.control)
    BY <2>1, <2>2, <1>1
  <2>3. CASE x \in TrueLits(t) /\ t.lev[vidx(x)] <= s.lev[vidx(x)]
    <3>1. t.lev[vidx(x)] \in Nat
      BY <2>3, TrueFacts
    <3>2. CASE t.lev[vidx(x)] > Len(u.control)
      BY <3>1, <3>2, <2>1, <2>3, <1>1
    <3>3. CASE x \in TrueLits(u) /\ u.lev[vidx(x)] <= t.lev[vidx(x)]
      <4>1. u.lev[vidx(x)] \in Nat
        BY <3>3, TrueFacts
      <4> QED BY <4>1, <3>1, <3>3, <2>1, <2>3
    <3> QED BY <3>2, <3>3, <2>3, <1>2 DEF Retains
  <2> QED BY <2>2, <2>3, <1>2 DEF Retains
<1>9. s.fixed \subseteq u.fixed /\ Len(u.control) <= Len(s.control)
  BY <1>1, <1>2 DEF Retains
<1> QED BY <1>7, <1>8, <1>9 DEF Moves, Retains

\* Operations that leave view, levels, assignment and control as they are.
LEMMA MovesAlike ==
    ASSUME NEW s, NEW t, Sound(s), t.view = s.view, t.lev = s.lev, t.fixed = s.fixed,
           t.control = s.control, TrueLits(t) = TrueLits(s)
    PROVE  Moves(s, t) /\ FixesNew(s, t)
BY TrueFacts DEF Moves, Follows, Retains, FixesNew

\* 'search_assign' adds to the root level of the propagator only.
LEMMA AssignMoves ==
    ASSUME NEW s, Sound(s), NEW x \in Unassigned(s), NEW l \in 0 .. Len(s.control)
    PROVE  LET t == SearchAssign(s, x, l) IN Moves(s, t) /\ FixesNew(s, t)
<1> DEFINE t == SearchAssign(s, x, l)
<1>1. /\ s \in SearchState /\ s.view \in Seq(SUBSET Lit) /\ s.lev \in [Var -> Nat]
      /\ 1 <= Len(s.view) /\ Len(s.view) \in Nat /\ DOMAIN s.view = 1 .. Len(s.view)
      /\ Len(s.control) \in Nat
  BY StateFacts DEF Sound
<1>2. t.control = s.control /\ TrueLits(t) = TrueLits(s) \cup {x}
  BY SearchAssignSound
<1>3. /\ s.fixed \subseteq t.fixed /\ t.fixed \subseteq s.fixed \cup {x}
      /\ t.lev = [s.lev EXCEPT ![vidx(x)] = l]
      /\ t.view = IF l = 0
                  THEN [s.view EXCEPT ![1] = @ \cup (IF vidx(x) \in s.obs THEN {x} ELSE {})]
                  ELSE s.view
  BY <1>1 DEF SearchAssign, MarkFixed, SearchState
<1> HIDE DEF t
<1>4. /\ Len(t.view) = Len(s.view)
      /\ \A k \in 1 .. Len(s.view) : s.view[k] \subseteq t.view[k]
      /\ \A k \in 2 .. Len(s.view) : t.view[k] = s.view[k]
  BY <1>1, <1>3
<1>5. x \in Lit /\ x \notin TrueLits(s) /\ -x \notin TrueLits(s)
  BY DEF Unassigned, FalseLits
<1>6. \A y \in TrueLits(s) : t.lev[vidx(y)] = s.lev[vidx(y)]
  <2> SUFFICES ASSUME NEW y \in TrueLits(s) PROVE t.lev[vidx(y)] = s.lev[vidx(y)]
    OBVIOUS
  <2>1. y \in Lit /\ vidx(y) \in Var
    BY TrueFacts
  <2>2. vidx(y) # vidx(x)
    BY <2>1, <1>5, LitFacts
  <2> QED BY <2>1, <2>2, <1>1, <1>3
<1>7. Follows(s, t)
  BY <1>1, <1>4 DEF Follows
<1>8. Retains(s, t)
  BY <1>1, <1>2, <1>3, <1>6, TrueFacts DEF Retains
<1>9. FixesNew(s, t)
  BY <1>3, <1>5 DEF FixesNew
<1> QED BY <1>7, <1>8, <1>9 DEF Moves, t

\* 'notify_assignments' adds literals that are not FIXED to the top level.
LEMMA NotifyMoves ==
    ASSUME NEW s, Sound(s), Synced(s)
    PROVE  LET t == NotifyAssignments(s) IN Moves(s, t) /\ FixesNew(s, t)
<1> DEFINE t == NotifyAssignments(s)
           told == {x \in Pending(s) : vidx(x) \in s.obs /\ x \notin s.fixed}
<1>1. /\ s \in SearchState /\ s.view \in Seq(SUBSET Lit)
      /\ 1 <= Len(s.view) /\ Len(s.view) \in Nat /\ DOMAIN s.view = 1 .. Len(s.view)
  BY StateFacts DEF Sound
<1>2. t.control = s.control /\ TrueLits(t) = TrueLits(s) /\ t.lev = s.lev /\ t.fixed = s.fixed
  BY NotifySound
<1>3. t.view = [s.view EXCEPT ![Len(s.view)] = @ \cup told]
  BY <1>1 DEF NotifyAssignments, SearchState
<1>4. \A x \in told : x \notin s.fixed
  OBVIOUS
<1> HIDE DEF t, told
<1>5. /\ Len(t.view) = Len(s.view)
      /\ \A k \in 1 .. Len(s.view) : s.view[k] \subseteq t.view[k]
      /\ \A k \in 1 .. Len(s.view) : k # Len(s.view) => t.view[k] = s.view[k]
      /\ t.view[Len(s.view)] = s.view[Len(s.view)] \cup told
  BY <1>1, <1>3
<1>6. Follows(s, t)
  BY <1>1, <1>2, <1>4, <1>5 DEF Follows
<1>7. Retains(s, t) /\ FixesNew(s, t)
  BY <1>2, TrueFacts DEF Retains, FixesNew
<1> QED BY <1>6, <1>7 DEF Moves, t

\* 'backtrack' drops the levels above n on both sides.
LEMMA BacktrackMoves ==
    ASSUME NEW s, Sound(s), NEW n \in 0 .. Len(s.control), Synced(s) \/ n = 0
    PROVE  LET t == Backtrack(s, n) IN Moves(s, t) /\ FixesNew(s, t)
<1> DEFINE u == Undo(s, n)
           t == Backtrack(s, n)
<1>1. /\ s \in SearchState /\ s.view \in Seq(SUBSET Lit)
      /\ 1 <= Len(s.view) /\ Len(s.view) \in Nat /\ Len(s.control) \in Nat
  BY StateFacts DEF Sound
<1>2. CASE n = Len(s.control)
  <2>1. t = s
    BY <1>2 DEF Backtrack, Level
  <2> HIDE DEF t
  <2> QED BY <2>1, MovesSame DEF t
<1>3. CASE n # Len(s.control)
  <2>1. n \in Nat /\ n < Len(s.control) /\ n + 1 <= Len(s.view)
    BY <1>1, <1>3 DEF Synced
  <2>2. /\ Sound(u) /\ Len(u.control) = n /\ (Synced(s) => Synced(u))
        /\ TrueLits(u) = {x \in TrueLits(s) : s.lev[vidx(x)] <= n}
        /\ \A x \in TrueLits(u) : u.lev[vidx(x)] = s.lev[vidx(x)]
        /\ u.fixed = s.fixed
    BY <2>1, UndoSound
  <2>3. u.view = SubSeq(s.view, 1, n + 1)
    BY <1>1 DEF Undo, SearchState
  <2>4. t = u \/ t = NotifyAssignments(u)
    BY <1>3 DEF Backtrack, Level
  <2> HIDE DEF u, t
  <2>5. Len(u.view) = n + 1 /\ \A k \in 1 .. n + 1 : u.view[k] = s.view[k]
    BY <2>1, <2>3, <1>1
  <2>6. Follows(s, u)
    BY <2>1, <2>5, <1>1 DEF Follows
  <2>7. Retains(s, u) /\ FixesNew(s, u)
    <3>1. \A x \in TrueLits(s) : s.lev[vidx(x)] \in Nat
      BY TrueFacts
    <3>2. \A x \in TrueLits(s) : x \in TrueLits(u) \/ s.lev[vidx(x)] > n
      BY <3>1, <2>1, <2>2
    <3> QED BY <3>1, <3>2, <2>1, <2>2 DEF Retains, FixesNew
  <2>8. Synced(u)
    BY <2>1, <2>2, RootSynced
  <2>9. CASE t = NotifyAssignments(u)
    <3>1. Sound(t) /\ t.fixed = u.fixed
      BY <2>2, <2>8, <2>9, NotifySound
    <3>2. Moves(u, t) /\ FixesNew(u, t)
      BY <2>2, <2>8, <2>9, NotifyMoves
    <3>3. Moves(s, t)
      BY <3>1, <3>2, <2>2, <2>6, <2>7, MovesOn DEF Moves
    <3> QED BY <3>1, <3>3, <2>2 DEF t, FixesNew
  <2> QED BY <2>4, <2>6, <2>7, <2>9 DEF Moves, t
<1> QED BY <1>2, <1>3

\* Explaining lowers levels and adds to the root level of the propagator only.
LEMMA ExplainMoves ==
    ASSUME NEW s, Sound(s), NEW E, NEW chrono, NEW nl \in Lowered(s, E, chrono)
    PROVE  Moves(s, Explain(s, E, nl))
<1> DEFINE t == Explain(s, E, nl)
           units == {x \in OnTrail(s) : nl[vidx(x)] = 0} \ s.fixed
           new == {x \in units : vidx(x) \in s.obs}
<1>1. /\ s \in SearchState /\ s.view \in Seq(SUBSET Lit)
      /\ 1 <= Len(s.view) /\ Len(s.view) \in Nat /\ DOMAIN s.view = 1 .. Len(s.view)
      /\ Len(s.control) \in Nat
  BY StateFacts DEF Sound
<1>2. t.control = s.control /\ t.lev = nl /\ TrueLits(t) = TrueLits(s)
  BY ExplainSound
<1>3. t.fixed = s.fixed \cup units /\ t.view = [s.view EXCEPT ![1] = @ \cup new]
  BY <1>1 DEF Explain, SearchState
<1>4. \A v \in Var : nl[v] <= s.lev[v]
  BY DEF Lowered
<1> HIDE DEF t, units, new
<1>5. /\ Len(t.view) = Len(s.view)
      /\ \A k \in 1 .. Len(s.view) : s.view[k] \subseteq t.view[k]
      /\ \A k \in 2 .. Len(s.view) : t.view[k] = s.view[k]
  BY <1>1, <1>3
<1>6. Follows(s, t)
  BY <1>1, <1>5 DEF Follows
<1>7. Retains(s, t)
  BY <1>1, <1>2, <1>3, <1>4, TrueFacts DEF Retains
<1> QED BY <1>6, <1>7 DEF Moves, t

\* What a step of the search may take back.
Undone ==
    /\ st.fixed \subseteq st'.fixed
    /\ \A x \in OnTrail(st) :
          x \notin TrueLits(st') => st.lev[vidx(x)] > Len(st'.control)

\* To the propagator a step is one of the protocol, or none.
StepAllowed == (Protocol!Next \/ st'.view = st.view) /\ Undone

\* Steps that move the state report what the protocol allows.
LEMMA MovesAllowed ==
    ASSUME Sound(st), Sound(st'), Moves(st, st')
    PROVE  StepAllowed
<1> DEFINE h == st.view
           g == st'.view
           n == Len(g)
<1>1. /\ Len(h) \in Nat /\ n \in Nat /\ 1 <= n
      /\ \A x \in TrueLits(st') : x \in Lit
  BY TrueFacts
<1>2. DOMAIN g = 1 .. n
  BY StateFacts DEF Sound
<1>3. Follows(st, st') /\ Retains(st, st')
  BY DEF Moves
<1>4. /\ n <= Len(h)
      /\ \A k \in 1 .. n : h[k] \subseteq g[k]
      /\ \A k \in 2 .. n : \A x \in g[k] \ h[k] : k = n /\ x \notin st'.fixed
  BY <1>3 DEF Follows
<1>5. \A k \in 2 .. n - 1 : g[k] = h[k]
  <2> SUFFICES ASSUME NEW k \in 2 .. n - 1 PROVE g[k] = h[k]
    OBVIOUS
  <2>1. k \in 2 .. n /\ k \in 1 .. n /\ k # n
    BY <1>1
  <2> HIDE DEF n, g, h
  <2> QED BY <2>1, <1>4
<1>6. ASSUME n > 1, NEW x \in g[n] \ h[n], NEW k \in 1 .. n - 1 PROVE x \notin g[k]
  <2>1. n \in 2 .. n /\ n \in 1 .. n /\ k \in 1 .. n \ {n}
    BY <1>1, <1>6
  <2>2. x \notin st'.fixed
    BY <2>1, <1>4, <1>6
  <2>3. x \in st'.fixed \/ \A m \in 1 .. Len(st'.view) \ {n} : x \notin st'.view[m]
    BY <2>1, <1>6, HeldOnce
  <2> QED BY <2>1, <2>2, <2>3
<1>7. Protocol!Told(g) \subseteq TrueLits(st')
  <2>1. \A k \in 1 .. n : \A x \in g[k] : x \in TrueLits(st')
    BY HeldTrue
  <2> HIDE DEF g
  <2> QED BY <2>1, <1>2 DEF Protocol!Told
<1>8. Protocol!Told(g) \subseteq Lit /\ Protocol!Consistent(Protocol!Told(g))
  <2>1. \A x \in TrueLits(st') : -x \notin TrueLits(st')
    BY DEF Sound, Consistent
  <2> QED BY <2>1, <1>1, <1>7 DEF Protocol!Consistent
<1>9. Protocol!Report
  BY <1>1, <1>4, <1>5, <1>6, <1>8 DEF Protocol!Report
<1>10. Undone
  <2>1. \A x \in OnTrail(st) : x \in TrueLits(st)
    BY DEF TrueLits
  <2> QED BY <2>1, <1>3 DEF Retains, Undone
<1> QED BY <1>9, <1>10 DEF StepAllowed, Protocol!Next

\* Steps that leave the search state alone are allowed.
LEMMA StaysAllowed ==
    ASSUME st' = st
    PROVE  StepAllowed
BY DEF StepAllowed, Undone, TrueLits

\* 'search_assign', with or without the report of what is pending, goes on
\* from any earlier move.
LEMMA AssignMovesOn ==
    ASSUME NEW s, NEW u, Sound(s), Sound(u), Synced(u), Moves(s, u),
           NEW x \in Unassigned(u), NEW l \in 0 .. Len(u.control)
    PROVE  LET r == SearchAssign(u, x, l)
           IN  Sound(r) /\ Synced(r) /\ Moves(s, r) /\ Moves(s, NotifyAssignments(r))
<1> DEFINE r == SearchAssign(u, x, l)
           w == NotifyAssignments(r)
<1>1. Sound(r) /\ Synced(r)
  BY SearchAssignSound
<1>2. Moves(u, r) /\ FixesNew(u, r)
  BY AssignMoves
<1> HIDE DEF r
<1>3. Moves(s, r)
  BY <1>1, <1>2, MovesOn
<1>4. Sound(w)
  BY <1>1, NotifySound
<1>5. Moves(r, w) /\ FixesNew(r, w)
  BY <1>1, NotifyMoves
<1> HIDE DEF w
<1>6. Moves(s, w)
  BY <1>1, <1>3, <1>4, <1>5, MovesOn
<1> QED BY <1>1, <1>3, <1>6 DEF r, w

\* API calls between two calls of 'solve', and add_observed_var in a callback.
LEMMA ApiAllowed ==
    ASSUME LoopInv, LoopInv',
           \/ \E v \in Var : AddObservedVar(v) \/ RemoveObservedVar(v)
           \/ Reconnect \/ Solve \/ \E x \in Lit : AddOriginalUnit(x)
           \/ \E p \in {"idle", "unsat"} : AddOriginalClause(p)
    PROVE  StepAllowed
<1>1. Sound(st) /\ st \in SearchState /\ Sound(st') /\ 0 \in 0 .. Len(st.control)
  BY StateFacts DEF LoopInv, Sound
<1> DEFINE b == Backtrack(st, 0)
<1>2. Moves(st, b) /\ Sound(b) /\ Synced(b) /\ Len(b.control) = 0
  BY <1>1, BacktrackMoves, BacktrackSound
<1>3. Moves(st, st)
  BY <1>1, MovesSame
<1>4. ASSUME NEW v \in Var, AddObservedVar(v) PROVE StepAllowed
  <2> DEFINE known == {x \in st.fixed : vidx(x) = v}
             t == [st EXCEPT !.obs = @ \cup {v}, !.view[1] = @ \cup known]
  <2>1. st' = t
    BY <1>4 DEF AddObservedVar, Goto
  <2>2. t.control = st.control /\ TrueLits(t) = TrueLits(st)
    BY <1>1, ObserveSound
  <2>3. /\ t.lev = st.lev /\ t.fixed = st.fixed
        /\ t.view = [st.view EXCEPT ![1] = @ \cup known]
    BY <1>1 DEF SearchState
  <2>4. /\ st.view \in Seq(SUBSET Lit) /\ Len(st.view) \in Nat
        /\ DOMAIN st.view = 1 .. Len(st.view)
    BY <1>1, StateFacts
  <2> HIDE DEF t, known
  <2>5. /\ Len(t.view) = Len(st.view)
        /\ \A k \in 1 .. Len(st.view) : st.view[k] \subseteq t.view[k]
        /\ \A k \in 2 .. Len(st.view) : t.view[k] = st.view[k]
    BY <2>3, <2>4
  <2>6. Follows(st, t)
    BY <2>4, <2>5 DEF Follows
  <2>7. Retains(st, t)
    BY <2>2, <2>3, <1>1, TrueFacts DEF Retains
  <2> QED BY <2>1, <2>6, <2>7, <1>1, MovesAllowed DEF Moves
<1>5. ASSUME NEW v \in Var, RemoveObservedVar(v) PROVE StepAllowed
  <2> DEFINE c == IF \E x \in st.fixed : vidx(x) = v THEN st ELSE b
             t == [c EXCEPT !.obs = @ \ {v}]
  <2>1. st' = t
    BY <1>5 DEF RemoveObservedVar, Goto
  <2>2. Sound(c) /\ Moves(st, c)
    BY <1>1, <1>2, <1>3
  <2> HIDE DEF c
  <2>3. /\ t.view = c.view /\ t.lev = c.lev /\ t.fixed = c.fixed /\ t.control = c.control
        /\ TrueLits(t) = TrueLits(c)
    BY <2>2 DEF Sound, SearchState, TrueLits, OnTrail
  <2> HIDE DEF t
  <2>4. Moves(c, t) /\ FixesNew(c, t)
    BY <2>2, <2>3, MovesAlike
  <2>5. Moves(st, t)
    BY <2>1, <2>2, <2>4, <1>1, MovesOn
  <2> QED BY <2>1, <2>5, <1>1, MovesAllowed
<1>6. ASSUME Reconnect PROVE StepAllowed
  <2> DEFINE c == IF st.obs \subseteq {vidx(x) : x \in st.fixed} THEN st ELSE b
             t == [c EXCEPT !.obs = {}, !.notified = 0, !.view = <<{}>>]
  <2>1. st' = t
    BY <1>6 DEF Reconnect, Goto
  <2>2. Sound(c) /\ Moves(st, c)
    BY <1>1, <1>2, <1>3
  <2> HIDE DEF c
  <2>3. /\ t.view = <<{}>> /\ t.fixed = c.fixed /\ t.control = c.control
        /\ TrueLits(t) = TrueLits(c)
    BY <2>2 DEF Sound, SearchState, TrueLits, OnTrail
  <2> HIDE DEF t
  <2>4. Protocol!Connect
    BY <2>1, <2>3 DEF Protocol!Connect
  <2>5. /\ st.fixed \subseteq t.fixed
        /\ \A x \in TrueLits(st) : x \in TrueLits(t) \/ st.lev[vidx(x)] > Len(t.control)
    BY <2>2, <2>3 DEF Moves, Retains
  <2>6. Undone
    BY <2>1, <2>5 DEF Undone, TrueLits
  <2> QED BY <2>4, <2>6 DEF StepAllowed, Protocol!Next
<1>7. ASSUME \/ Solve
             \/ \E p \in {"idle", "unsat"} : AddOriginalClause(p)
      PROVE  StepAllowed
  <2>1. st' = b
    BY <1>7 DEF Solve, AddOriginalClause, Goto
  <2> HIDE DEF b
  <2> QED BY <2>1, <1>1, <1>2, MovesAllowed
<1>8. ASSUME NEW x \in Lit, AddOriginalUnit(x) PROVE StepAllowed
  <2> DEFINE t == SearchAssign(b, x, 0)
  <2>1. x \in Unassigned(b) /\ st' = t
    BY <1>8 DEF AddOriginalUnit, Goto
  <2> HIDE DEF b
  <2>2. Moves(st, t)
    BY <2>1, <1>1, <1>2, AssignMovesOn
  <2> HIDE DEF t
  <2> QED BY <2>1, <2>2, <1>1, MovesAllowed
<1> QED BY <1>4, <1>5, <1>6, <1>7, <1>8

\* 'propagate' and what is done once it finds no conflict.
LEMMA BcpAllowed ==
    ASSUME LoopInv, LoopInv',
           \/ \E x \in Lit, m \in 0 .. Level(st) : BcpAssign(x, m)
           \/ \E C \in SUBSET FalseLits(st) : BcpConflict(C)
           \/ RootConflict \/ BcpDone \/ BcpPropDone \/ BcpClauseDone \/ UnitFalsDone
           \/ UnitAddDone \/ UnitCheckDone \/ StartDone
    PROVE  StepAllowed
<1>1. /\ Sound(st) /\ Sound(st') /\ Len(st.control) \in Nat
      /\ pc # "idle" => Synced(st)
  BY InvFacts, StateFacts DEF LoopInv
<1>2. ASSUME NEW x \in Lit, NEW m \in 0 .. Level(st), BcpAssign(x, m) PROVE StepAllowed
  <2> DEFINE l == ImpliedLevel(st, m)
             t == SearchAssign(st, x, l)
  <2>1. x \in Unassigned(st) /\ st' = t
    BY <1>2 DEF BcpAssign, Goto
  <2>2. l \in 0 .. Len(st.control)
    BY <1>1 DEF ImpliedLevel, Level
  <2> HIDE DEF l
  <2>3. Moves(st, t)
    BY <2>1, <2>2, <1>1, AssignMoves
  <2> HIDE DEF t
  <2> QED BY <2>1, <2>3, <1>1, MovesAllowed
<1>3. ASSUME \/ \E C \in SUBSET FalseLits(st) : BcpConflict(C)
             \/ RootConflict \/ UnitFalsDone \/ UnitAddDone \/ StartDone
      PROVE  StepAllowed
  BY <1>3, StaysAllowed
     DEF BcpConflict, RootConflict, UnitFalsDone, UnitAddDone, StartDone, Goto
<1>4. ASSUME BcpDone \/ BcpPropDone \/ BcpClauseDone \/ UnitCheckDone PROVE StepAllowed
  <2> DEFINE t == NotifyAssignments(st)
  <2>1. pc # "idle" /\ st' = t
    BY <1>4 DEF BcpDone, BcpPropDone, BcpClauseDone, UnitCheckDone, Goto
  <2>2. Moves(st, t)
    BY <2>1, <1>1, NotifyMoves
  <2> HIDE DEF t
  <2> QED BY <2>1, <2>2, <1>1, MovesAllowed
<1> QED BY <1>2, <1>3, <1>4

\* 'decide', 'cb_propagate', 'external_check_solution' and the other steps of
\* the loop that start in a callback.
LEMMA CallbackAllowed ==
    ASSUME LoopInv, LoopInv',
           \/ LocalSearchModel \/ PhasesDone \/ PhasesFail
           \/ DecideHolds \/ DecideFails \/ \E x \in Lit : DecideOn(x) \/ CompactFixed(x)
           \/ \E x \in Lit, m \in 0 .. Level(st) : ExternalPropagate(x, m)
           \/ NothingToPropagate \/ ClauseEmpty \/ NoMoreClauses
           \/ CheckApproves \/ CheckRejects \/ CheckAgain
           \/ \E n \in 0 .. Level(st) : Restart(n)
           \/ Inprocess \/ GiveUp
    PROVE  StepAllowed
<1>1. /\ Sound(st) /\ st \in SearchState /\ Sound(st') /\ Len(st.control) \in Nat
      /\ pc # "idle" => Synced(st)
      /\ pc \in Callbacks => AllTold(st)
      /\ pc # "phases"
  BY InvFacts, StateFacts DEF LoopInv
<1>2. ASSUME pc \in {"loop", "ext", "check"} PROVE Synced(st) /\ AllTold(st)
  BY <1>1, <1>2 DEF Callbacks
<1>3. ~PhasesDone /\ ~PhasesFail
  BY <1>1 DEF PhasesDone, PhasesFail
<1>4. ASSUME DecideHolds PROVE StepAllowed
  <2> DEFINE t == NewLevel(st, 0)
  <2>1. pc = "loop" /\ st' = t
    BY <1>1, <1>4 DEF DecideHolds, Deciding, Goto
  <2>2. TrueLits(t) = TrueLits(st)
    BY <2>1, <1>1, <1>2, NewLevelSound
  <2>3. t.view = Append(st.view, {}) /\ t.fixed = st.fixed
    BY <1>1 DEF NewLevel, SearchState
  <2> HIDE DEF t
  <2>4. Protocol!NewLevel /\ Undone
    BY <2>1, <2>2, <2>3 DEF Protocol!NewLevel, Undone, TrueLits
  <2> QED BY <2>4 DEF StepAllowed, Protocol!Next
<1>5. ASSUME NEW x \in Lit, DecideOn(x) PROVE StepAllowed
  <2> DEFINE b == NewLevel(st, x)
             l == Level(st) + 1
             t == SearchAssign(b, x, l)
  <2>1. pc = "loop" /\ x \in Unassigned(st) /\ st' = t
    BY <1>1, <1>5 DEF DecideOn, Deciding, SearchAssumeDecision, Goto
  <2>2. /\ Sound(b) /\ Len(b.control) = Len(st.control) + 1
        /\ TrueLits(b) = TrueLits(st)
    BY <2>1, <1>1, <1>2, NewLevelSound
  <2>3. b.view = Append(st.view, {}) /\ b.fixed = st.fixed
    BY <1>1 DEF NewLevel, SearchState
  <2> HIDE DEF b
  <2>4. x \in Unassigned(b) /\ l \in 0 .. Len(b.control) /\ l # 0
    BY <2>1, <2>2, <1>1, FalseLitsSame DEF Level
  <2> HIDE DEF l
  <2>5. TrueLits(t) = TrueLits(b) \cup {x}
    BY <2>2, <2>4, SearchAssignSound
  <2>6. t.view = b.view /\ t.fixed = b.fixed
    BY <2>2, <2>4 DEF SearchAssign, Sound, SearchState
  <2> HIDE DEF t
  <2>7. Protocol!NewLevel /\ Undone
    BY <2>1, <2>2, <2>3, <2>5, <2>6 DEF Protocol!NewLevel, Undone, TrueLits
  <2> QED BY <2>7 DEF StepAllowed, Protocol!Next
<1>6. ASSUME NEW x \in Lit, CompactFixed(x) PROVE StepAllowed
  <2> DEFINE t == Compact(st, x)
  <2>1. Len(st.control) = 0 /\ x \in st.fixed /\ st' = t
    BY <1>6 DEF CompactFixed, Level, Goto
  <2>2. TrueLits(t) = TrueLits(st)
    BY <2>1, <1>1, CompactSound
  <2>3. /\ t.view = st.view /\ t.lev = st.lev /\ t.fixed = st.fixed
        /\ t.control = st.control
    BY <1>1 DEF Compact, SearchState
  <2> HIDE DEF t
  <2>4. Moves(st, t)
    BY <2>2, <2>3, <1>1, MovesAlike
  <2> QED BY <2>1, <2>4, <1>1, MovesAllowed
<1>7. ASSUME NEW x \in Lit, NEW m \in 0 .. Level(st), ExternalPropagate(x, m)
      PROVE  StepAllowed
  <2> DEFINE eager == Level(st) <= PseudoLevels
             l == IF ~eager THEN Level(st)
                  ELSE IF m = 0 THEN 0 ELSE ImpliedLevel(st, m)
             b == SearchAssign(st, x, l)
             t == NotifyAssignments(b)
             u == IF eager \/ l = 0 THEN t ELSE [t EXCEPT !.ext = @ \cup {vidx(x)}]
  <2>1. pc = "ext" /\ x \in Unassigned(st) /\ st' = u
    BY <1>7 DEF ExternalPropagate, Goto
  <2>2. l \in 0 .. Len(st.control)
    BY <1>1 DEF ImpliedLevel, Level
  <2> HIDE DEF l, eager
  <2>3. Synced(st) /\ Moves(st, st)
    BY <2>1, <1>1, <1>2, MovesSame
  <2>4. Sound(b) /\ Synced(b) /\ Moves(st, t)
    BY <2>1, <2>2, <2>3, <1>1, AssignMovesOn
  <2> HIDE DEF b
  <2>5. Sound(t)
    BY <2>4, NotifySound
  <2> HIDE DEF t
  <2>6. /\ u.view = t.view /\ u.lev = t.lev /\ u.fixed = t.fixed /\ u.control = t.control
        /\ TrueLits(u) = TrueLits(t)
    BY <2>5 DEF Sound, SearchState, TrueLits, OnTrail
  <2> HIDE DEF u
  <2>7. Moves(t, u) /\ FixesNew(t, u)
    BY <2>5, <2>6, MovesAlike
  <2>8. Moves(st, u)
    BY <2>1, <2>4, <2>5, <2>7, <1>1, MovesOn
  <2> QED BY <2>1, <2>8, <1>1, MovesAllowed
<1>8. ASSUME LocalSearchModel \/ DecideFails \/ NothingToPropagate \/ ClauseEmpty
             \/ NoMoreClauses \/ CheckAgain \/ GiveUp
      PROVE  StepAllowed
  BY <1>8, StaysAllowed DEF LocalSearchModel, DecideFails, NothingToPropagate, ClauseEmpty,
     NoMoreClauses, CheckAgain, GiveUp, Goto
<1>9. ASSUME CheckApproves \/ CheckRejects PROVE StepAllowed
  <2> DEFINE t == NotifyAssignments(st)
  <2>1. pc = "check" /\ st' = t
    BY <1>9 DEF CheckApproves, CheckRejects, Goto
  <2>2. Moves(st, t)
    BY <2>1, <1>1, <1>2, NotifyMoves
  <2> HIDE DEF t
  <2> QED BY <2>1, <2>2, <1>1, MovesAllowed
<1>10. ASSUME NEW n \in 0 .. Level(st), Restart(n) \/ (Inprocess /\ n = 0)
       PROVE  StepAllowed
  <2> DEFINE t == Backtrack(st, n)
  <2>1. pc = "loop" /\ st' = t
    BY <1>10 DEF Restart, Inprocess, Goto
  <2>2. Moves(st, t)
    BY <2>1, <1>1, <1>2, BacktrackMoves DEF Level
  <2> HIDE DEF t
  <2> QED BY <2>1, <2>2, <1>1, MovesAllowed
<1>11. 0 \in 0 .. Level(st)
  BY <1>1 DEF Level
<1> QED BY <1>3, <1>4, <1>5, <1>6, <1>7, <1>8, <1>9, <1>10, <1>11

\* 'handle_external_clause' on reasons and external clauses.
LEMMA ClauseAllowed ==
    ASSUME LoopInv, LoopInv',
           \/ \E x \in Lit : ClauseUnit(x)
           \/ \E C \in SUBSET FalseLits(st) : ClauseFalsified(C)
           \/ \E x \in Lit, C \in SUBSET FalseLits(st) : ClausePropagates(x, C)
    PROVE  StepAllowed
<1>1. /\ Sound(st) /\ Sound(st') /\ Len(st.control) \in Nat /\ 0 \in 0 .. Len(st.control)
      /\ pc # "idle" => Synced(st)
  BY InvFacts, StateFacts DEF LoopInv
<1>2. ASSUME NEW x \in Lit, ClauseUnit(x) PROVE StepAllowed
  <2> DEFINE b == Backtrack(st, 0)
             t == SearchAssign(b, x, 0)
  <2>1. x \in NonRoot(st, Lit) /\ st' = t
    BY <1>2 DEF ClauseUnit, Goto
  <2>2. Sound(b) /\ Synced(b) /\ Len(b.control) = 0 /\ Moves(st, b)
    BY <1>1, BacktrackSound, BacktrackMoves
  <2>3. x \in Unassigned(b)
    BY <2>1, <1>1, NonRootUnassigned
  <2> HIDE DEF b
  <2>4. Moves(st, t)
    BY <2>2, <2>3, <1>1, AssignMovesOn
  <2> HIDE DEF t
  <2> QED BY <2>1, <2>4, <1>1, MovesAllowed
<1>3. ASSUME NEW D \in SUBSET FalseLits(st), ClauseFalsified(D) PROVE StepAllowed
  <2> DEFINE n == MaxLevel(st, D)
             b == Backtrack(st, n)
  <2>1. pc # "idle" /\ (st' = b \/ st' = st)
    BY <1>3 DEF ClauseFalsified, ClausePcs
  <2>2. n \in 0 .. Len(st.control)
    BY <1>1, MaxLevelFacts
  <2> HIDE DEF n
  <2>3. Moves(st, b)
    BY <2>1, <2>2, <1>1, BacktrackMoves
  <2> HIDE DEF b
  <2> QED BY <2>1, <2>3, <1>1, MovesAllowed, StaysAllowed
<1>4. ASSUME NEW x \in Lit, NEW D \in SUBSET FalseLits(st), ClausePropagates(x, D)
      PROVE  StepAllowed
  <2> DEFINE m == MaxLevel(st, D)
             c == Backtrack(st, m)
             b == IF Chrono THEN st ELSE c
             t == NotifyAssignments(SearchAssign(b, x, m))
  <2>1. pc = "clauses" /\ x \in Unassigned(st) /\ st' = t
    BY <1>4 DEF ClausePropagates, Goto
  <2>2. m \in 0 .. Len(st.control) /\ Synced(st)
    BY <2>1, <1>1, MaxLevelFacts
  <2> HIDE DEF m
  <2>3. /\ Sound(c) /\ Synced(c) /\ Len(c.control) = m /\ Moves(st, c)
        /\ TrueLits(c) \subseteq TrueLits(st)
    BY <2>2, <1>1, BacktrackSound, BacktrackMoves
  <2>4. Moves(st, st)
    BY <1>1, MovesSame
  <2> HIDE DEF c
  <2>5. /\ Sound(b) /\ Synced(b) /\ m \in 0 .. Len(b.control) /\ Moves(st, b)
        /\ TrueLits(b) \subseteq TrueLits(st)
    <3>1. CASE Chrono
      BY <3>1, <2>2, <2>4, <1>1
    <3>2. CASE ~Chrono
      BY <3>2, <2>2, <2>3
    <3> QED BY <3>1, <3>2
  <2> HIDE DEF b
  <2>6. x \in Unassigned(b)
    BY <2>1, <2>5 DEF Unassigned, FalseLits
  <2>7. Moves(st, t)
    BY <2>5, <2>6, <1>1, AssignMovesOn
  <2> HIDE DEF t
  <2> QED BY <2>1, <2>7, <1>1, MovesAllowed
<1> QED BY <1>2, <1>3, <1>4

\* 'analyze': explanation, one or two backtracks, and the driven literal.
LEMMA AnalyzeAllowed ==
    ASSUME LoopInv, LoopInv', Analyze
    PROVE  StepAllowed
<1>1. /\ Sound(st) /\ Sound(st') /\ st \in SearchState /\ Len(st.control) \in Nat
      /\ pc = "conflict" /\ Synced(st)
      /\ conflict \subseteq FalseLits(st)
  BY InvFacts, StateFacts DEF Analyze, LoopInv
<1>0. PICK E \in SUBSET st.ext : \E nl \in Lowered(st, E, Chrono) :
          \/ AnalyzeRoot(E, nl)
          \/ \E x \in conflict : AnalyzeForced(E, nl, x)
          \/ \E x \in Lit, jump, n \in 0 .. Level(st) : AnalyzeLearn(E, nl, x, jump, n)
  BY DEF Analyze
<1>2. PICK nl \in Lowered(st, E, Chrono) :
          \/ AnalyzeRoot(E, nl)
          \/ \E x \in conflict : AnalyzeForced(E, nl, x)
          \/ \E x \in Lit, jump, n \in 0 .. Level(st) : AnalyzeLearn(E, nl, x, jump, n)
  BY <1>0
<1> DEFINE t == Explain(st, E, nl)
<1>3. /\ Sound(t) /\ Synced(t) /\ t.control = st.control /\ TrueLits(t) = TrueLits(st)
      /\ Moves(st, t)
  BY <1>1, ExplainSound, ExplainMoves
<1> HIDE DEF t
<1>4. t \in SearchState /\ conflict \in SUBSET FalseLits(t) /\ Len(t.control) \in Nat
  BY <1>1, <1>3, FalseLitsSame DEF Sound
<1>5. ASSUME NEW s, Sound(s), Synced(s), Moves(st, s), NEW n \in 0 .. Len(s.control)
      PROVE  LET u == Backtrack(s, n)
             IN  Sound(u) /\ Synced(u) /\ Len(u.control) = n /\ Moves(st, u)
  <2> DEFINE u == Backtrack(s, n)
  <2>1. /\ Sound(u) /\ Synced(u) /\ Len(u.control) = n
        /\ Moves(s, u) /\ FixesNew(s, u)
    BY <1>5, BacktrackSound, BacktrackMoves
  <2> HIDE DEF u
  <2>2. Moves(st, u)
    BY <2>1, <1>1, <1>5, MovesOn
  <2> QED BY <2>1, <2>2 DEF u
<1>6. ASSUME NEW u, Sound(u), Synced(u), Moves(st, u), NEW x \in Unassigned(u),
             NEW l \in 0 .. Len(u.control),
             Resolved(NotifyAssignments(SearchAssign(u, x, l)), "bcp")
      PROVE  StepAllowed
  <2> DEFINE w == NotifyAssignments(SearchAssign(u, x, l))
  <2>1. st' = w
    BY <1>6 DEF Resolved
  <2>2. Moves(st, w)
    BY <1>1, <1>6, AssignMovesOn
  <2> HIDE DEF w
  <2> QED BY <2>1, <2>2, <1>1, MovesAllowed
<1>7. CASE AnalyzeRoot(E, nl)
  <2> DEFINE u == Backtrack(t, 0)
  <2>1. st' = u
    BY <1>7 DEF AnalyzeRoot, Resolved, t
  <2>2. Moves(st, u)
    BY <1>3, <1>4, <1>5
  <2> HIDE DEF u
  <2> QED BY <2>1, <2>2, <1>1, MovesAllowed
<1>8. ASSUME NEW x \in conflict, AnalyzeForced(E, nl, x) PROVE StepAllowed
  <2> DEFINE rest == MaxLevel(t, conflict \ {x})
             n == t.lev[vidx(x)] - 1
             u == Backtrack(t, n)
             l == ImpliedLevel(u, rest)
  <2>1. t.lev[vidx(x)] > rest /\ Resolved(NotifyAssignments(SearchAssign(u, x, l)), "bcp")
    BY <1>8 DEF AnalyzeForced, t
  <2>2. rest \in 0 .. Len(t.control)
    <3>1. conflict \ {x} \in SUBSET FalseLits(t)
      BY <1>4
    <3> QED BY <3>1, <1>3, MaxLevelFacts
  <2>3. t.lev[vidx(x)] \in Nat /\ t.lev[vidx(x)] <= Len(t.control)
    <3>1. /\ t.lev[vidx(x)] \in Nat /\ t.lev[vidx(x)] <= MaxLevel(t, conflict)
          /\ MaxLevel(t, conflict) \in 0 .. Len(t.control)
      BY <1>3, <1>4, MaxLevelFacts
    <3> QED BY <3>1, <1>4, SMTT(60)
  <2> HIDE DEF rest
  <2>4. n \in 0 .. Len(t.control) /\ rest \in 0 .. n /\ t.lev[vidx(x)] > n
    BY <2>1, <2>2, <2>3, <1>4
  <2> HIDE DEF n
  <2>5. Sound(u) /\ Synced(u) /\ Len(u.control) = n /\ Moves(st, u)
    BY <2>4, <1>3, <1>5
  <2>6. x \in Unassigned(u)
    BY <2>4, <1>3, <1>4, HigherUnassigned
  <2> HIDE DEF u
  <2>7. l \in 0 .. Len(u.control)
    BY <2>4, <2>5 DEF ImpliedLevel, Level
  <2> HIDE DEF l
  <2> QED BY <2>1, <2>5, <2>6, <2>7, <1>6
<1>9. ASSUME NEW x \in Lit, NEW jump \in 0 .. Level(st), NEW n \in 0 .. Level(st),
             AnalyzeLearn(E, nl, x, jump, n)
      PROVE  StepAllowed
  <2> DEFINE top == MaxLevel(t, conflict)
             b == Backtrack(t, top)
             u == Backtrack(b, n)
             l == IF jump = 0 THEN 0 ELSE ImpliedLevel(u, jump)
  <2>1. /\ -x \in OnTrail(t) /\ t.lev[vidx(x)] = top /\ jump <= n /\ n < top
        /\ Resolved(NotifyAssignments(SearchAssign(u, x, l)), "bcp")
    BY <1>9 DEF AnalyzeLearn, t
  <2>2. top \in 0 .. Len(t.control)
    BY <1>3, <1>4, MaxLevelFacts
  <2> HIDE DEF top
  <2>3. /\ Sound(b) /\ Synced(b) /\ Len(b.control) = top /\ Moves(st, b)
        /\ TrueLits(b) = {y \in TrueLits(t) : t.lev[vidx(y)] <= top}
        /\ \A y \in TrueLits(b) : b.lev[vidx(y)] = t.lev[vidx(y)]
    BY <2>2, <1>3, <1>5, BacktrackSound
  <2> HIDE DEF b
  <2>4. n \in 0 .. Len(b.control) /\ jump \in 0 .. n /\ top > n
    BY <2>1, <2>2, <2>3, <1>1, <1>4, SMTT(120) DEF Level
  <2>5. -x \in TrueLits(b) /\ b.lev[vidx(x)] = top
    <3>1. vidx(-x) = vidx(x)
      BY LitFacts
    <3>2. -x \in TrueLits(t) /\ t.lev[vidx(-x)] <= top
      BY <3>1, <2>1, <2>2, <1>4 DEF TrueLits
    <3> QED BY <3>1, <3>2, <2>1, <2>3
  <2>6. x \in FalseLits(b) /\ b.lev[vidx(x)] > n
    BY <2>4, <2>5 DEF FalseLits
  <2>7. x \in Unassigned(u)
    BY <2>3, <2>4, <2>6, HigherUnassigned
  <2>8. Sound(u) /\ Synced(u) /\ Len(u.control) = n /\ Moves(st, u)
    BY <2>3, <2>4, <1>5
  <2> HIDE DEF u
  <2>9. l \in 0 .. Len(u.control)
    BY <2>4, <2>8 DEF ImpliedLevel, Level
  <2> HIDE DEF l
  <2> QED BY <2>1, <2>7, <2>8, <2>9, <1>6
<1> QED BY <1>2, <1>7, <1>8, <1>9

\* Every step of the loop is allowed.
LEMMA NextAllowed ==
    ASSUME LoopInv, LoopInv', [Next]_vars
    PROVE  StepAllowed
<1>1. CASE UNCHANGED vars \/ AlreadySolved
  BY <1>1, StaysAllowed DEF AlreadySolved, vars
<1>2. CASE Next /\ ~AlreadySolved
  BY <1>2, ApiAllowed, BcpAllowed, CallbackAllowed, ClauseAllowed, AnalyzeAllowed DEF Next
<1> QED BY <1>1, <1>2

(***************************************************************************)
(* The loop implements the protocol of Notifications: whatever the search  *)
(* does between two callbacks, 'notify_assignment', 'notify_backtrack' and *)
(* 'notify_new_decision_level' amount to a step of it for the propagator.  *)
(***************************************************************************)
THEOREM ImplementsProtocol ==
    ASSUME ~ObserveAssigned, ~SavedPhases
    PROVE  Spec => ReportsFollowProtocol
<1>1. Init => Protocol!Init
  BY DEF Init, Protocol!Init, EmptyTrail
<1>2. LoopInv /\ LoopInv' /\ [Next]_vars => [Protocol!Next]_(st.view)
  BY NextAllowed DEF StepAllowed
<1> QED BY <1>1, <1>2, LoopInvariant, PTL DEF Spec, ReportsFollowProtocol, Protocol!Spec

(***************************************************************************)
(* A step of the search, with 'backtrack', explanations and late units     *)
(* together, takes back only literals above the level it returns to.       *)
(***************************************************************************)
THEOREM HigherLevelsUndone ==
    ASSUME ~ObserveAssigned, ~SavedPhases
    PROVE  Spec => OnlyHigherLevelsUndone
<1>1. LoopInv /\ LoopInv' /\ [Next]_vars =>
        [ /\ st.fixed \subseteq st'.fixed
          /\ \A x \in OnTrail(st) :
                x \notin TrueLits(st') => st.lev[vidx(x)] > Len(st'.control) ]_vars
  BY NextAllowed DEF StepAllowed, Undone
<1> QED BY <1>1, LoopInvariant, PTL DEF Spec, OnlyHigherLevelsUndone
=============================================================================
