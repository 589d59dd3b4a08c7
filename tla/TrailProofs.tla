---------------------------- MODULE TrailProofs -----------------------------
(***************************************************************************)
(* The operations of Trail preserve the facts of TrailInv.                 *)
(***************************************************************************)
EXTENDS TrailInv, FiniteSetTheorems, SequenceTheorems, TLAPS

\* Literals are nonzero integers, and two literals have the same variable
\* ('vidx') only if they are equal or each other's negation.
LEMMA LitFacts ==
    ASSUME NEW x \in Lit
    PROVE  /\ x \in Int /\ x # 0 /\ -x \in Lit /\ -(-x) = x
           /\ vidx(x) \in Var /\ vidx(-x) = vidx(x)
           /\ \A y \in Lit : vidx(x) = vidx(y) => y = x \/ y = -x
BY VarAssumption DEF Lit, vidx

\* The rank of an element of a finite set of numbers: distinct elements have
\* distinct ranks, and the ranks are 1 .. Cardinality.
LEMMA RankBijection ==
    ASSUME NEW S \in SUBSET Int, IsFiniteSet(S)
    PROVE  LET r(i) == Cardinality({k \in S : k <= i})
           IN  /\ \A i \in S : r(i) \in 1 .. Cardinality(S)
               /\ \A i, j \in S : r(i) = r(j) => i = j
               /\ \A n \in 1 .. Cardinality(S) : \E i \in S : r(i) = n
<1> DEFINE B(i) == {k \in S : k <= i}
           r(i) == Cardinality(B(i))
           R == [i \in S |-> r(i)]
           T == 1 .. Cardinality(S)
<1>0. \A k \in S : k \in Int
  OBVIOUS
<1>1. Cardinality(S) \in Nat
  BY FS_CardinalityType
<1>2. \A i \in S : IsFiniteSet(B(i)) /\ r(i) \in Nat /\ r(i) <= Cardinality(S)
  BY FS_Subset, FS_CardinalityType, <1>1
<1>3. \A i \in S : r(i) # 0
  BY <1>2, FS_EmptySet
<1>4. ASSUME NEW i \in S, NEW j \in S, r(i) = r(j) PROVE i = j
  <2>1. CASE i <= j
    <3>1. \A k \in S : k <= i => k <= j
      BY <2>1, <1>0
    <3>a. B(i) \subseteq B(j)
      BY <3>1
    <3>2. B(i) = B(j)
      BY <3>a, <1>2, <1>4, FS_Subset
    <3> QED BY <3>2, <2>1
  <2>2. CASE j <= i
    <3>1. \A k \in S : k <= j => k <= i
      BY <2>2, <1>0
    <3>a. B(j) \subseteq B(i)
      BY <3>1
    <3>2. B(i) = B(j)
      BY <3>a, <1>2, <1>4, FS_Subset
    <3> QED BY <3>2, <2>2
  <2> QED BY <2>1, <2>2
<1>5. \A i \in S : r(i) \in T
  BY <1>1, <1>2, <1>3
<1>6. R \in Injection(S, T)
  BY <1>4, <1>5 DEF Injection, IsInjective
<1>7. IsFiniteSet(T) /\ Cardinality(T) = Cardinality(S)
  BY <1>1, FS_Interval
<1>8. R \in Surjection(S, T)
  BY <1>6, <1>7, FS_Injection
<1>9. \A n \in T : \E i \in S : r(i) = n
  BY <1>8 DEF Surjection
<1> QED BY <1>4, <1>5, <1>9

\* Selecting positions of a trail keeps exactly the literals there, without
\* repeating a position.
LEMMA SelectFacts ==
    ASSUME NEW D, NEW seq \in Seq(D), NEW S \in SUBSET (1 .. Len(seq))
    PROVE  /\ Select(seq, S) \in Seq(D)
           /\ \A j \in 1 .. Len(Select(seq, S)) :
                 \E i \in S : Select(seq, S)[j] = seq[i]
           /\ \A i \in S : \E j \in 1 .. Len(Select(seq, S)) :
                 Select(seq, S)[j] = seq[i]
           /\ (\A i, j \in S : seq[i] = seq[j] => i = j) =>
                 \A i, j \in 1 .. Len(Select(seq, S)) :
                    Select(seq, S)[i] = Select(seq, S)[j] => i = j
<1> DEFINE r(i) == Cardinality({k \in S : k <= i})
           n == Cardinality(S)
           c(j) == CHOOSE i \in S : r(i) = j
<1>0. IsFiniteSet(1 .. Len(seq))
  BY FS_Interval
<1>1. IsFiniteSet(S) /\ n \in Nat
  BY <1>0, FS_Subset, FS_CardinalityType
<1>2. /\ \A i \in S : r(i) \in 1 .. n
      /\ \A i, j \in S : r(i) = r(j) => i = j
      /\ \A j \in 1 .. n : \E i \in S : r(i) = j
  <2>1. S \in SUBSET Int
    OBVIOUS
  <2> QED BY <1>1, <2>1, RankBijection
<1> HIDE DEF r
<1>3. \A j \in 1 .. n : c(j) \in S /\ r(c(j)) = j
  BY <1>2
<1>4. \A i \in S : c(r(i)) = i
  BY <1>2, <1>3
<1> HIDE DEF c, n
<1>5. Select(seq, S) = [j \in 1 .. n |-> seq[c(j)]]
  BY DEF Select, r, c, n
<1>6. Select(seq, S) \in Seq(D) /\ Len(Select(seq, S)) = n
  <2>1. \A j \in 1 .. n : seq[c(j)] \in D
    <3>1. \A i \in S : seq[i] \in D
      BY ElementOfSeq
    <3> QED BY <1>3, <3>1
  <2>2. Select(seq, S) \in [1 .. n -> D]
    BY <2>1, <1>5
  <2>3. Select(seq, S) \in Seq(D)
    <3>1. Seq(D) = UNION {[1 .. m -> D] : m \in Nat}
      BY SeqDef, Zenon
    <3> QED BY <3>1, <2>2, <1>1, Zenon
  <2>4. DOMAIN Select(seq, S) = 1 .. n /\ DOMAIN Select(seq, S) = 1 .. Len(Select(seq, S))
    BY <2>2, <2>3, LenProperties
  <2> QED BY <2>3, <2>4, <1>1, LenProperties
<1>7. \A j \in 1 .. n : Select(seq, S)[j] = seq[c(j)]
  BY <1>5
<1>8. \A i \in S : r(i) \in 1 .. n /\ Select(seq, S)[r(i)] = seq[i]
  BY <1>2, <1>4, <1>7
<1>9. ASSUME \A i, j \in S : seq[i] = seq[j] => i = j,
             NEW i \in 1 .. n, NEW j \in 1 .. n,
             Select(seq, S)[i] = Select(seq, S)[j]
      PROVE  i = j
  BY <1>3, <1>7, <1>9
<1> QED BY <1>3, <1>6, <1>7, <1>8, <1>9

\* The fields of a search state, with their types spelled out.
LEMMA StateFacts ==
    ASSUME NEW s \in SearchState
    PROVE  /\ s.trail \in Seq(Lit) /\ Len(s.trail) \in Nat
           /\ DOMAIN s.trail = 1 .. Len(s.trail)
           /\ \A i \in 1 .. Len(s.trail) : s.trail[i] \in Lit /\ vidx(s.trail[i]) \in Var
           /\ s.control \in Seq([decision : Lit \cup {0}, trail : Nat])
           /\ Len(s.control) \in Nat /\ DOMAIN s.control = 1 .. Len(s.control)
           /\ \A l \in 1 .. Len(s.control) : s.control[l].trail \in Nat
           /\ s.view \in Seq(SUBSET Lit) /\ Len(s.view) \in Nat
           /\ DOMAIN s.view = 1 .. Len(s.view)
           /\ \A k \in 1 .. Len(s.view) : s.view[k] \subseteq Lit
           /\ s.lev \in [Var -> Nat] /\ s.ext \subseteq Var
           /\ s.fixed \subseteq Lit /\ s.obs \subseteq Var /\ s.notified \in Nat
<1>1. /\ s.trail \in Seq(Lit)
      /\ s.control \in Seq([decision : Lit \cup {0}, trail : Nat])
      /\ s.view \in Seq(SUBSET Lit)
      /\ s.lev \in [Var -> Nat] /\ s.ext \subseteq Var
      /\ s.fixed \subseteq Lit /\ s.obs \subseteq Var /\ s.notified \in Nat
  BY DEF SearchState
<1>2. /\ Len(s.trail) \in Nat /\ DOMAIN s.trail = 1 .. Len(s.trail)
      /\ Len(s.control) \in Nat /\ DOMAIN s.control = 1 .. Len(s.control)
      /\ Len(s.view) \in Nat /\ DOMAIN s.view = 1 .. Len(s.view)
  BY <1>1, LenProperties
<1>3. \A i \in 1 .. Len(s.trail) : s.trail[i] \in Lit /\ vidx(s.trail[i]) \in Var
  BY <1>1, ElementOfSeq, LitFacts
<1>4. \A l \in 1 .. Len(s.control) : s.control[l].trail \in Nat
  <2>1. \A l \in 1 .. Len(s.control) :
           s.control[l] \in [decision : Lit \cup {0}, trail : Nat]
    BY <1>1, ElementOfSeq
  <2> QED BY <2>1
<1>5. \A k \in 1 .. Len(s.view) : s.view[k] \subseteq Lit
  BY <1>1, ElementOfSeq
<1> QED BY <1>1, <1>2, <1>3, <1>4, <1>5

\* Assigning an unassigned literal on an existing level ('search_assign' with
\* the eager report of 'mark_fixed') keeps both invariants.
LEMMA SearchAssignSound ==
    ASSUME NEW s, Sound(s), NEW x \in Unassigned(s), NEW l \in 0 .. Len(s.control)
    PROVE  LET t == SearchAssign(s, x, l)
           IN  /\ Sound(t)
               /\ t.control = s.control
               /\ Synced(s) => Synced(t)
               /\ TrueLits(t) = TrueLits(s) \cup {x}
<1> DEFINE t == SearchAssign(s, x, l)
<1>1. x \in Lit /\ x \notin TrueLits(s) /\ -x \notin TrueLits(s) /\ vidx(x) \in Var
  BY LitFacts DEF Unassigned, FalseLits
<1>2. s \in SearchState
  BY DEF Sound
<1>3. /\ t.trail = Append(s.trail, x)
      /\ t.control = s.control
      /\ t.lev = [s.lev EXCEPT ![vidx(x)] = l]
      /\ t.obs = s.obs /\ t.ext = s.ext /\ t.notified = s.notified
      /\ t.fixed = IF l = 0 THEN s.fixed \cup {x} ELSE s.fixed
      /\ t.view = IF l = 0
                  THEN [s.view EXCEPT ![1] = @ \cup (IF vidx(x) \in s.obs THEN {x} ELSE {})]
                  ELSE s.view
  BY <1>2 DEF SearchAssign, MarkFixed, SearchState
<1> DEFINE n == Len(s.trail)
<1> HIDE DEF t
<1>4. /\ s.trail \in Seq(Lit) /\ s.view \in Seq(SUBSET Lit)
      /\ s.lev \in [Var -> Nat] /\ s.fixed \subseteq Lit /\ s.obs \subseteq Var
      /\ n \in Nat /\ Len(s.control) \in Nat /\ Len(s.view) \in Nat /\ 1 <= Len(s.view)
      /\ s.notified \in Nat /\ s.notified <= n
      /\ \A k \in 1 .. Len(s.control) : s.control[k].trail \in Nat /\ s.control[k].trail <= n
  BY <1>2, StateFacts DEF Sound, BlocksOrdered
<1>a. \A i \in 1 .. n + 1 : i \in 1 .. n \/ i = n + 1
  BY <1>4
<1>5. /\ t.trail \in Seq(Lit) /\ Len(t.trail) = n + 1
      /\ \A i \in 1 .. n : t.trail[i] = s.trail[i]
      /\ t.trail[n + 1] = x
  BY <1>1, <1>3, <1>4, AppendProperties
<1>6. /\ t.view \in Seq(SUBSET Lit) /\ Len(t.view) = Len(s.view)
      /\ \A k \in 1 .. Len(s.view) :
            t.view[k] = IF l = 0 /\ k = 1 /\ vidx(x) \in s.obs
                        THEN s.view[k] \cup {x} ELSE s.view[k]
  <2>1. CASE l = 0
    <3> DEFINE e == s.view[1] \cup (IF vidx(x) \in s.obs THEN {x} ELSE {})
    <3>1. e \in SUBSET Lit /\ 1 \in 1 .. Len(s.view)
      BY <1>1, <1>4, ElementOfSeq
    <3>2. t.view = [s.view EXCEPT ![1] = e]
      BY <2>1, <1>3
    <3> HIDE DEF e
    <3>3. /\ t.view \in Seq(SUBSET Lit) /\ Len(t.view) = Len(s.view)
          /\ \A k \in 1 .. Len(s.view) : t.view[k] = IF k = 1 THEN e ELSE s.view[k]
      BY <3>1, <3>2, <1>4, ExceptSeq
    <3> QED BY <3>3, <2>1 DEF e
  <2>2. CASE l # 0
    BY <2>2, <1>3, <1>4
  <2> QED BY <2>1, <2>2
<1>7. /\ \A i \in 1 .. n : s.trail[i] \in Lit /\ s.trail[i] \in TrueLits(s)
      /\ \A y \in TrueLits(s) : y \in Lit /\ vidx(y) # vidx(x)
  <2>1. \A i \in 1 .. n : s.trail[i] \in Lit /\ s.trail[i] \in TrueLits(s)
    BY <1>4, ElementOfSeq, LenProperties DEF TrueLits, OnTrail
  <2>2. \A y \in TrueLits(s) : y \in Lit
    BY <1>4, ElementOfSeq, LenProperties DEF TrueLits, OnTrail
  <2>3. \A y \in Lit : vidx(x) = vidx(y) => y = x \/ y = -x
    BY <1>1, LitFacts
  <2> QED BY <2>1, <2>2, <2>3, <1>1
<1>8. /\ t.lev \in [Var -> Nat] /\ t.lev[vidx(x)] = l
      /\ \A y \in TrueLits(s) : t.lev[vidx(y)] = s.lev[vidx(y)]
  <2>1. \A y \in TrueLits(s) : vidx(y) \in Var
    BY <1>7, LitFacts
  <2> QED BY <2>1, <1>1, <1>3, <1>4, <1>7
<1>9. TrueLits(t) = TrueLits(s) \cup {x}
  <2>1. DOMAIN s.trail = 1 .. n /\ DOMAIN t.trail = 1 .. n + 1
    BY <1>4, <1>5, LenProperties
  <2>2. OnTrail(t) = OnTrail(s) \cup {x}
    <3>1. \A i \in 1 .. n : i \in 1 .. n + 1
      BY <1>4
    <3>2. n + 1 \in 1 .. n + 1
      BY <1>4
    <3> QED BY <2>1, <3>1, <3>2, <1>a, <1>5 DEF OnTrail
  <2> QED BY <2>2, <1>3 DEF TrueLits
<1>10. t \in SearchState
  BY <1>1, <1>2, <1>3, <1>5, <1>6, <1>8 DEF SearchState, SearchAssign, MarkFixed, t
<1>11. BlocksOrdered(t)
  <2>1. BlocksOrdered(s)
    BY DEF Sound
  <2>2. ASSUME NEW k \in 1 .. Len(s.control) PROVE s.control[k].trail <= n + 1
    <3>1. s.control[k].trail \in Nat /\ n \in Nat /\ s.control[k].trail <= n
      BY <1>4
    <3> QED BY ONLY <3>1, SMTT(30)
  <2>3. t.control = s.control /\ Len(t.trail) = n + 1
    BY <1>3, <1>5
  <2> QED BY ONLY <2>1, <2>2, <2>3 DEF BlocksOrdered
<1>12. Consistent(t)
  <2>1. \A i, j \in 1 .. n + 1 : vidx(t.trail[i]) = vidx(t.trail[j]) => i = j
    <3>1. \A i, j \in 1 .. n : vidx(s.trail[i]) = vidx(s.trail[j]) => i = j
      BY DEF Sound, Consistent
    <3>2. \A i \in 1 .. n : vidx(s.trail[i]) # vidx(x)
      BY <1>7
    <3> QED BY <3>1, <3>2, <1>a, <1>5
  <2>2. \A y \in TrueLits(t) : -y \notin TrueLits(t)
    <3>1. \A y \in TrueLits(s) : -y \notin TrueLits(s)
      BY DEF Sound, Consistent
    <3>2. x # -x /\ \A y \in TrueLits(s) : -y # x
      BY <1>1, <1>7, LitFacts
    <3> QED BY <3>1, <3>2, <1>1, <1>9
  <2> QED BY <2>1, <2>2, <1>5 DEF Consistent
<1>13. LevelsExist(t)
  BY <1>1, <1>3, <1>4, <1>5, <1>7, <1>8, SMTT(40) DEF LevelsExist, Sound, TrueLits
<1>14. LowerBefore(t)
  <2>1. \A k \in 1 .. Len(s.control) : \A i \in 1 .. s.control[k].trail : i \in 1 .. n
    BY <1>4
  <2>2. LowerBefore(s)
    BY DEF Sound
  <2>3. ASSUME NEW k \in 1 .. Len(s.control), NEW i \in 1 .. s.control[k].trail
        PROVE  t.lev[vidx(t.trail[i])] < k
    <3>1. i \in 1 .. n /\ t.trail[i] = s.trail[i] /\ s.trail[i] \in TrueLits(s)
      BY <2>1, <1>5, <1>7
    <3>2. s.lev[vidx(s.trail[i])] < k
      BY <2>2 DEF LowerBefore
    <3> QED BY <3>1, <3>2, <1>8
  <2> QED BY <2>3, <1>3 DEF LowerBefore
<1>15. HeldInBlock(t)
  BY <1>1, <1>3, <1>4, <1>5, <1>6 DEF HeldInBlock, InBlock, Sound
<1>16. FixedHeld(t)
  BY <1>1, <1>3, <1>4, <1>6 DEF FixedHeld, Sound
<1>17. Sound(t)
  BY <1>3, <1>4, <1>5, <1>6, <1>10, <1>11, <1>12, <1>13, <1>14, <1>15, <1>16 DEF Sound
<1>18. ASSUME Synced(s) PROVE Synced(t)
  <2>1. CountedHeld(t)
    <3>1. \A i \in 1 .. s.notified : i \in 1 .. n
      BY <1>4
    <3>2. \A y, k : k \in 1 .. Len(s.view) /\ y \in s.view[k] => y \in t.view[k]
      BY <1>6
    <3>3. s.fixed \subseteq t.fixed
      BY <1>3
    <3> QED BY <3>1, <3>2, <3>3, <1>3, <1>5, <1>6, <1>18
            DEF Synced, CountedHeld, InBlock
  <2>2. PendingAbove(t)
    <3>1. \A k \in 1 .. Len(s.control) :
             \A i \in s.notified + 1 .. s.control[k].trail : i \in 1 .. n
      BY <1>4
    <3>2. s.fixed \subseteq t.fixed
      BY <1>3
    <3> QED BY <3>1, <3>2, <1>3, <1>5, <1>18 DEF Synced, PendingAbove
  <2> QED BY <2>1, <2>2, <1>3, <1>6, <1>18 DEF Synced
<1> QED BY <1>3, <1>9, <1>17, <1>18 DEF t

\* 'notify_assignments' in a synced state reports what is pending in the
\* block of the current level, and leaves nothing pending.
LEMMA NotifySound ==
    ASSUME NEW s, Sound(s), Synced(s)
    PROVE  LET t == NotifyAssignments(s)
           IN  /\ Sound(t) /\ Synced(t) /\ AllTold(t)
               /\ t.control = s.control /\ TrueLits(t) = TrueLits(s)
               /\ t.lev = s.lev /\ t.fixed = s.fixed
<1> DEFINE t == NotifyAssignments(s)
           n == Len(s.trail)
           top == Len(s.view)
           told == {x \in Pending(s) : vidx(x) \in s.obs /\ x \notin s.fixed}
           e == s.view[top] \cup told
<1>1. /\ s \in SearchState /\ BlocksOrdered(s) /\ Consistent(s) /\ LevelsExist(s)
      /\ LowerBefore(s) /\ HeldInBlock(s) /\ FixedHeld(s)
      /\ s.notified <= n /\ 1 <= top /\ top = Len(s.control) + 1
      /\ CountedHeld(s) /\ PendingAbove(s)
  BY DEF Sound, Synced
<1>2. /\ n \in Nat /\ top \in Nat /\ s.notified \in Nat /\ Len(s.control) \in Nat
      /\ s.view \in Seq(SUBSET Lit) /\ top \in 1 .. top
      /\ \A i \in 1 .. n : s.trail[i] \in Lit
  BY <1>1, StateFacts
<1>3. /\ t.trail = s.trail /\ t.control = s.control /\ t.lev = s.lev
      /\ t.fixed = s.fixed /\ t.obs = s.obs /\ t.ext = s.ext
      /\ t.notified = n /\ t.view = [s.view EXCEPT ![top] = e]
  BY <1>1 DEF NotifyAssignments, SearchState
<1>4. \A i \in s.notified + 1 .. n : i \in 1 .. n
  BY <1>1, <1>2
<1>5. \A x \in told : \E i \in s.notified + 1 .. n : s.trail[i] = x
  BY DEF Pending
<1>6. told \subseteq Lit /\ e \in SUBSET Lit
  BY ZenonT(60), <1>1, <1>2, <1>4, <1>5, StateFacts
<1>7. /\ t.view \in Seq(SUBSET Lit) /\ Len(t.view) = top
      /\ \A k \in 1 .. top : t.view[k] = IF k = top THEN e ELSE s.view[k]
  <2> HIDE DEF e, top, t
  <2>1. top = Len(s.view)
    BY DEF top
  <2> QED BY <1>2, <1>3, <1>6, <2>1, ExceptSeq
<1>8. t \in SearchState
  BY <1>1, <1>2, <1>7 DEF NotifyAssignments, SearchState
<1> HIDE DEF t, e
<1>9. HeldInBlock(t)
  <2> SUFFICES ASSUME NEW k \in 1 .. top, NEW x \in t.view[k], x \notin t.fixed
               PROVE  \E i \in 1 .. n : s.trail[i] = x /\ InBlock(s, i, k)
    BY <1>3, <1>7 DEF HeldInBlock, InBlock
  <2>1. CASE x \in s.view[k]
    BY <2>1, <1>1, <1>3 DEF HeldInBlock
  <2>2. CASE x \notin s.view[k]
    <3>1. k = top /\ x \in told
      BY <2>2, <1>7 DEF e
    <3>2. PICK i \in s.notified + 1 .. n : s.trail[i] = x
      BY <3>1, <1>5
    <3>3. ASSUME top > 1 PROVE s.control[top - 1].trail < i
      <4>1. Len(s.control) \in 1 .. Len(s.control) /\ top - 1 = Len(s.control)
        BY <3>3, <1>1, <1>2
      <4>2. s.control[top - 1].trail \in Nat
        BY <4>1, <1>1, StateFacts
      <4>3. i \notin s.notified + 1 .. s.control[top - 1].trail
        BY <4>1, <3>2, <1>1, <1>3 DEF PendingAbove
      <4> QED BY <4>2, <4>3, <1>2
    <3>4. InBlock(s, i, k)
      BY <3>1, <3>3, <1>1, <1>2 DEF InBlock
    <3> QED BY <3>2, <3>4, <1>4
  <2> QED BY <2>1, <2>2
<1>10. FixedHeld(t)
  BY <1>1, <1>2, <1>3, <1>7 DEF FixedHeld, e
<1>11. Sound(t)
  <2>1. BlocksOrdered(t)
    BY <1>1, <1>3 DEF BlocksOrdered
  <2>2. Consistent(t)
    BY <1>1, <1>3 DEF Consistent, TrueLits, OnTrail
  <2>3. LevelsExist(t) /\ LowerBefore(t)
    BY <1>1, <1>3 DEF LevelsExist, LowerBefore
  <2> QED BY <2>1, <2>2, <2>3, <1>1, <1>2, <1>3, <1>7, <1>8, <1>9, <1>10 DEF Sound
<1>12. CountedHeld(t)
  <2> SUFFICES ASSUME NEW i \in 1 .. n, vidx(s.trail[i]) \in s.obs, s.trail[i] \notin s.fixed
               PROVE  \E k \in 1 .. top : s.trail[i] \in t.view[k] /\ InBlock(s, i, k)
    BY <1>3, <1>7 DEF CountedHeld, InBlock
  <2>1. CASE i <= s.notified
    <3>1. i \in 1 .. s.notified
      BY <2>1, <1>2
    <3>2. PICK k \in 1 .. top : s.trail[i] \in s.view[k] /\ InBlock(s, i, k)
      BY <3>1, <1>1 DEF CountedHeld
    <3> QED BY <3>2, <1>7 DEF e
  <2>2. CASE ~(i <= s.notified)
    <3>1. i \in s.notified + 1 .. n
      BY <2>2, <1>2
    <3>2. s.trail[i] \in t.view[top]
      <4>1. s.trail[i] \in told
        BY <3>1 DEF Pending
      <4> QED BY <4>1, <1>2, <1>7 DEF e
    <3>3. PICK j \in 1 .. n : s.trail[j] = s.trail[i] /\ InBlock(s, j, top)
      <4>1. top \in 1 .. Len(t.view) /\ s.trail[i] \notin t.fixed
        BY <1>2, <1>3, <1>7
      <4>2. PICK j \in 1 .. Len(t.trail) : t.trail[j] = s.trail[i] /\ InBlock(t, j, top)
        BY <4>1, <3>2, <1>9 DEF HeldInBlock
      <4> QED BY <4>2, <1>3 DEF InBlock
    <3>4. j = i
      BY <3>3, <1>1 DEF Consistent
    <3> QED BY <3>2, <3>3, <3>4, <1>2
  <2> QED BY <2>1, <2>2
<1>13. PendingAbove(t) /\ AllTold(t)
  <2>1. \A l \in 1 .. Len(s.control) : s.control[l].trail \in Nat /\ s.control[l].trail <= n
    BY <1>1, StateFacts DEF BlocksOrdered
  <2> QED BY <2>1, <1>2, <1>3 DEF PendingAbove, AllTold
<1>14. Synced(t)
  BY <1>1, <1>3, <1>7, <1>12, <1>13 DEF Synced
<1>15. TrueLits(t) = TrueLits(s)
  BY <1>3 DEF TrueLits, OnTrail
<1> QED BY <1>3, <1>11, <1>13, <1>14, <1>15 DEF t

\* Opening a level, with nothing but FIXED literals pending, keeps both
\* invariants ('notify_decision' opens the propagator's level as well).
LEMMA NewLevelSound ==
    ASSUME NEW s, Sound(s), Synced(s), AllTold(s), NEW d \in Lit \cup {0}
    PROVE  LET t == NewLevel(s, d)
           IN  /\ Sound(t) /\ Synced(t)
               /\ Len(t.control) = Len(s.control) + 1 /\ TrueLits(t) = TrueLits(s)
<1> DEFINE t == NewLevel(s, d)
           n == Len(s.trail)
           c == Len(s.control)
           r == [decision |-> d, trail |-> n]
<1>1. /\ s \in SearchState /\ BlocksOrdered(s) /\ Consistent(s) /\ LevelsExist(s)
      /\ LowerBefore(s) /\ HeldInBlock(s) /\ FixedHeld(s)
      /\ s.notified <= n /\ Len(s.view) = c + 1
      /\ CountedHeld(s) /\ PendingAbove(s)
  BY DEF Sound, Synced
<1>2. /\ n \in Nat /\ s.notified \in Nat /\ c \in Nat
      /\ s.view \in Seq(SUBSET Lit)
      /\ s.control \in Seq([decision : Lit \cup {0}, trail : Nat])
      /\ s.lev \in [Var -> Nat]
      /\ \A i \in 1 .. n : s.trail[i] \in Lit /\ vidx(s.trail[i]) \in Var
      /\ \A l \in 1 .. c : s.control[l].trail \in Nat /\ s.control[l].trail <= n
  BY <1>1, StateFacts DEF BlocksOrdered
<1>3. /\ t.trail = s.trail /\ t.lev = s.lev
      /\ t.fixed = s.fixed /\ t.obs = s.obs /\ t.ext = s.ext
      /\ t.notified = s.notified
      /\ t.control = Append(s.control, r) /\ t.view = Append(s.view, {})
  BY <1>1 DEF NewLevel, SearchState
<1>4. /\ t.control \in Seq([decision : Lit \cup {0}, trail : Nat])
      /\ Len(t.control) = c + 1
      /\ \A l \in 1 .. c : t.control[l] = s.control[l]
      /\ t.control[c + 1].trail = n
  <2>1. r \in [decision : Lit \cup {0}, trail : Nat] /\ r.trail = n
    BY <1>2
  <2> HIDE DEF r
  <2> QED BY <2>1, <1>2, <1>3, AppendProperties
<1>5. /\ t.view \in Seq(SUBSET Lit)
      /\ Len(t.view) = c + 2
      /\ \A k \in 1 .. c + 1 : t.view[k] = s.view[k]
      /\ t.view[c + 2] = {}
  <2>1. {} \in SUBSET Lit
    OBVIOUS
  <2>2. /\ Append(s.view, {}) \in Seq(SUBSET Lit)
        /\ Len(Append(s.view, {})) = Len(s.view) + 1
        /\ \A k \in 1 .. Len(s.view) : Append(s.view, {})[k] = s.view[k]
        /\ Append(s.view, {})[Len(s.view) + 1] = {}
    BY <2>1, <1>2, AppendProperties
  <2> QED BY <2>2, <1>1, <1>2, <1>3
<1>6. t \in SearchState
  <2>1. /\ s.trail \in Seq(Lit) /\ s.ext \subseteq Var /\ s.fixed \subseteq Lit
        /\ s.obs \subseteq Var
    BY <1>1, StateFacts
  <2> QED BY <2>1, <1>1, <1>2, <1>3, <1>4, <1>5 DEF NewLevel, SearchState
<1> HIDE DEF t
<1>a. \A l \in 1 .. c + 1 : l \in 1 .. c \/ l = c + 1
  BY <1>2
<1>b. \A k \in 1 .. c + 2 : k \in 1 .. c + 1 \/ k = c + 2
  BY <1>2
<1>7. BlocksOrdered(t)
  BY <1>1, <1>2, <1>3, <1>4, <1>a DEF BlocksOrdered
<1>8. TrueLits(t) = TrueLits(s)
  BY <1>3 DEF TrueLits, OnTrail
<1>9. Consistent(t)
  BY <1>1, <1>3, <1>8 DEF Consistent
<1>10. LevelsExist(t)
  BY <1>1, <1>2, <1>3, <1>4 DEF LevelsExist
<1>11. LowerBefore(t)
  <2>1. \A i \in 1 .. n : s.lev[vidx(s.trail[i])] < c + 1
    BY <1>1, <1>2 DEF LevelsExist
  <2> QED BY <2>1, <1>1, <1>3, <1>4, <1>a DEF LowerBefore
<1>12. \A i \in 1 .. n : \A k \in 1 .. c + 1 : InBlock(s, i, k) => InBlock(t, i, k)
  <2> SUFFICES ASSUME NEW i \in 1 .. n, NEW k \in 1 .. c + 1, InBlock(s, i, k)
               PROVE  InBlock(t, i, k)
    OBVIOUS
  <2>1. i <= t.control[k].trail
    <3>1. CASE k \in 1 .. c
      <4>1. k <= Len(s.control) /\ t.control[k] = s.control[k]
        BY <3>1, <1>2, <1>4
      <4> QED BY <4>1 DEF InBlock
    <3>2. CASE k = c + 1
      BY <3>2, <1>2, <1>4
    <3> QED BY <3>1, <3>2, <1>a
  <2>2. k > 1 => t.control[k - 1].trail < i
    <3>1. k > 1 => k - 1 \in 1 .. c
      BY <1>2
    <3> QED BY <3>1, <1>4 DEF InBlock
  <2> QED BY <2>1, <2>2 DEF InBlock
<1>13. HeldInBlock(t)
  BY <1>1, <1>3, <1>5, <1>b, <1>12 DEF HeldInBlock
<1>14. FixedHeld(t)
  BY <1>1, <1>2, <1>3, <1>5 DEF FixedHeld
<1>15. CountedHeld(t)
  <2>1. \A i \in 1 .. s.notified : i \in 1 .. n
    BY <1>1, <1>2
  <2>2. \A k \in 1 .. c + 1 : k \in 1 .. c + 2
    BY <1>2
  <2> QED BY <2>1, <2>2, <1>1, <1>3, <1>5, <1>12 DEF CountedHeld
<1>16. PendingAbove(t)
  BY <1>1, <1>3, <1>4, <1>a DEF PendingAbove, AllTold
<1>17. Sound(t)
  BY <1>1, <1>2, <1>3, <1>4, <1>5, <1>6, <1>7, <1>9, <1>10, <1>11, <1>13, <1>14 DEF Sound
<1>18. Synced(t)
  BY <1>2, <1>4, <1>5, <1>15, <1>16 DEF Synced
<1> QED BY <1>4, <1>8, <1>17, <1>18 DEF t

\* Explaining external propagations only lowers assignment levels, and what
\* becomes FIXED is reported: both invariants are kept.
LEMMA ExplainSound ==
    ASSUME NEW s, Sound(s), NEW E, NEW chrono, NEW nl \in Lowered(s, E, chrono)
    PROVE  LET t == Explain(s, E, nl)
           IN  /\ Sound(t)
               /\ t.control = s.control /\ t.lev = nl
               /\ Synced(s) => Synced(t)
               /\ TrueLits(t) = TrueLits(s)
<1> DEFINE t == Explain(s, E, nl)
           n == Len(s.trail)
           units == {x \in OnTrail(s) : nl[vidx(x)] = 0} \ s.fixed
           e == s.view[1] \cup {x \in units : vidx(x) \in s.obs}
<1>1. /\ s \in SearchState /\ BlocksOrdered(s) /\ Consistent(s) /\ LevelsExist(s)
      /\ LowerBefore(s) /\ HeldInBlock(s) /\ FixedHeld(s)
      /\ s.notified <= n /\ 1 <= Len(s.view) /\ Len(s.view) <= Len(s.control) + 1
  BY DEF Sound
<1>2. /\ n \in Nat /\ s.notified \in Nat /\ Len(s.control) \in Nat /\ Len(s.view) \in Nat
      /\ s.view \in Seq(SUBSET Lit) /\ s.view[1] \subseteq Lit /\ 1 \in 1 .. Len(s.view)
      /\ s.lev \in [Var -> Nat] /\ s.fixed \subseteq Lit
      /\ \A i \in 1 .. n : s.trail[i] \in Lit /\ vidx(s.trail[i]) \in Var
      /\ \A l \in 1 .. Len(s.control) : s.control[l].trail \in Nat /\ s.control[l].trail <= n
      /\ DOMAIN s.trail = 1 .. n
  BY <1>1, StateFacts DEF BlocksOrdered
<1>3. /\ nl \in [Var -> Nat]
      /\ \A v \in Var : nl[v] \in Nat /\ s.lev[v] \in Nat /\ nl[v] <= s.lev[v]
  BY <1>2 DEF Lowered, Level
<1>4. /\ t.trail = s.trail /\ t.control = s.control /\ t.lev = nl
      /\ t.fixed = s.fixed \cup units /\ t.obs = s.obs /\ t.ext = s.ext \ E
      /\ t.notified = s.notified /\ t.view = [s.view EXCEPT ![1] = e]
  BY <1>1 DEF Explain, SearchState
<1>5. units \subseteq Lit /\ units \subseteq OnTrail(s) /\ e \in SUBSET Lit
  BY <1>2 DEF OnTrail
<1>6. /\ t.view \in Seq(SUBSET Lit) /\ Len(t.view) = Len(s.view)
      /\ \A k \in 1 .. Len(s.view) : t.view[k] = IF k = 1 THEN e ELSE s.view[k]
  <2> HIDE DEF e, t
  <2> QED BY <1>2, <1>4, <1>5, ExceptSeq
<1>7. t \in SearchState
  <2>1. s.ext \ E \subseteq Var
    BY <1>1, StateFacts
  <2> QED BY <2>1, <1>1, <1>2, <1>3, <1>4, <1>5, <1>6 DEF Explain, SearchState
<1>8. \A i \in 1 .. n : nl[vidx(s.trail[i])] = 0 => s.trail[i] \in t.fixed
  BY <1>2, <1>4 DEF OnTrail
<1> HIDE DEF t
<1>9. TrueLits(t) = TrueLits(s)
  BY <1>4, <1>5 DEF TrueLits, OnTrail
<1>10. Consistent(t)
  BY <1>1, <1>4, <1>9 DEF Consistent
<1>11. LevelsExist(t)
  <2>1. \A i \in 1 .. n : nl[vidx(s.trail[i])] <= Len(s.control)
    BY <1>1, <1>2, <1>3 DEF LevelsExist
  <2>2. \A x \in s.fixed : nl[vidx(x)] = 0
    <3>1. \A x \in s.fixed : s.lev[vidx(x)] = 0 /\ vidx(x) \in Var
      BY <1>1, <1>2, LitFacts DEF LevelsExist
    <3> QED BY <3>1, <1>3
  <2> QED BY <2>1, <2>2, <1>4, <1>8 DEF LevelsExist
<1>12. LowerBefore(t)
  <2> SUFFICES ASSUME NEW l \in 1 .. Len(s.control), NEW i \in 1 .. s.control[l].trail
               PROVE  nl[vidx(s.trail[i])] < l
    BY <1>4 DEF LowerBefore
  <2>1. s.lev[vidx(s.trail[i])] < l
    BY <1>1 DEF LowerBefore
  <2>2. vidx(s.trail[i]) \in Var /\ l \in Nat
    BY <1>2
  <2> QED BY <2>1, <2>2, <1>3
<1>13. BlocksOrdered(t)
  BY <1>1, <1>4 DEF BlocksOrdered
<1>14. s.fixed \subseteq t.fixed /\ \A x \in e : x \in s.view[1] \/ x \in t.fixed
  BY <1>4
<1> HIDE DEF e
<1>15. HeldInBlock(t)
  BY <1>1, <1>4, <1>6, <1>14 DEF HeldInBlock, InBlock
<1>16. FixedHeld(t)
  BY <1>1, <1>2, <1>4, <1>6 DEF FixedHeld, e
<1>17. Sound(t)
  BY <1>1, <1>4, <1>6, <1>7, <1>10, <1>11, <1>12, <1>13, <1>15, <1>16 DEF Sound
<1>18. ASSUME Synced(s) PROVE Synced(t)
  <2>1. \A k \in 1 .. Len(s.view) : s.view[k] \subseteq t.view[k]
    BY <1>6 DEF e
  <2>2. CountedHeld(t)
    BY <2>1, <1>4, <1>6, <1>14, <1>18 DEF Synced, CountedHeld, InBlock
  <2>3. PendingAbove(t)
    BY <1>4, <1>14, <1>18 DEF Synced, PendingAbove
  <2> QED BY <2>2, <2>3, <1>4, <1>6, <1>18 DEF Synced
<1> QED BY <1>4, <1>9, <1>17, <1>18 DEF t

\* On the root level everything on the trail is FIXED, so that a sound state
\* is synced there: this is how a new call of 'solve' starts.
LEMMA RootSynced ==
    ASSUME NEW s, Sound(s), Len(s.control) = 0
    PROVE  Synced(s) /\ AllTold(s)
<1>1. s \in SearchState /\ LevelsExist(s) /\ s.notified <= Len(s.trail)
      /\ 1 <= Len(s.view) /\ Len(s.view) <= 1
  BY DEF Sound
<1>2. \A i \in 1 .. Len(s.trail) : s.trail[i] \in s.fixed
  <2>1. SUFFICES ASSUME NEW i \in 1 .. Len(s.trail)
                 PROVE  s.trail[i] \in s.fixed
    OBVIOUS
  <2>2. s.lev[vidx(s.trail[i])] \in Nat
    BY <1>1, StateFacts
  <2>3. /\ s.lev[vidx(s.trail[i])] <= 0
        /\ s.lev[vidx(s.trail[i])] = 0 => s.trail[i] \in s.fixed
    BY <1>1 DEF LevelsExist
  <2> QED BY <2>2, <2>3
<1>3. Len(s.trail) \in Nat /\ s.notified \in Nat /\ Len(s.view) \in Nat
  BY <1>1, StateFacts
<1>4. CountedHeld(s)
  BY <1>1, <1>2, <1>3 DEF CountedHeld
<1>5. PendingAbove(s) /\ AllTold(s)
  BY <1>1, <1>2, <1>3 DEF PendingAbove, AllTold
<1>6. Len(s.view) = 1
  <2>1. \A k \in Nat : 1 <= k /\ k <= 1 => k = 1
    OBVIOUS
  <2> QED BY <2>1, <1>1, <1>3, Zenon
<1>7. Len(s.view) = Len(s.control) + 1
  BY <1>6
<1> QED BY <1>4, <1>5, <1>7 DEF Synced

\* The trail that 'backtrack' leaves: the part before the first level left is
\* unchanged, and beyond it exactly the out-of-order literals are kept.
LEMMA UndoTrail ==
    ASSUME NEW s, Sound(s), NEW n \in Nat, n < Len(s.control)
    PROVE  LET a == s.control[n + 1].trail
               q == SubSeq(s.trail, 1, a) \o Select(s.trail, OutOfOrder(s, n))
           IN  /\ q \in Seq(Lit) /\ a \in Nat /\ a <= Len(q) /\ Len(q) \in Nat
               /\ a <= Len(s.trail)
               /\ \A i \in 1 .. a : q[i] = s.trail[i]
               /\ \A j \in 1 .. Len(q) : \E i \in 1 .. Len(s.trail) :
                     q[j] = s.trail[i] /\ (i <= a \/ i \in OutOfOrder(s, n))
               /\ \A i \in OutOfOrder(s, n) : \E j \in a + 1 .. Len(q) : q[j] = s.trail[i]
               /\ \A i, j \in 1 .. Len(q) : q[i] = q[j] => i = j
<1> DEFINE a == s.control[n + 1].trail
           m == Len(s.trail)
           K == OutOfOrder(s, n)
           p == SubSeq(s.trail, 1, a)
           r == Select(s.trail, K)
           q == p \o r
<1>1. s \in SearchState /\ BlocksOrdered(s) /\ Consistent(s)
  BY DEF Sound
<1>2. n + 1 \in 1 .. Len(s.control)
  BY <1>1, StateFacts
<1>3. a \in Nat /\ m \in Nat /\ a <= m /\ s.trail \in Seq(Lit)
      /\ \A i \in 1 .. m : s.trail[i] \in Lit
  BY <1>1, <1>2, StateFacts DEF BlocksOrdered
<1>4. \A i \in K : i \in a + 1 .. m
  BY DEF OutOfOrder, Beyond
<1> HIDE DEF a, m, K
<1>5. K \in SUBSET (1 .. m) /\ \A i \in K : i \in 1 .. m /\ i > a
  BY <1>3, <1>4
<1>6. \A i, j \in 1 .. m : s.trail[i] = s.trail[j] => i = j
  BY <1>1 DEF Consistent, m
<1>7. /\ p \in Seq(Lit) /\ Len(p) = a
      /\ \A i \in 1 .. a : p[i] = s.trail[i]
  <2>1. \A i \in 1 .. a : s.trail[i] \in Lit
    BY <1>3
  <2>2. 1 \in Int /\ a \in Int
    BY <1>3
  <2>3. /\ p \in Seq(Lit)
        /\ Len(p) = IF 1 <= a THEN a - 1 + 1 ELSE 0
        /\ \A i \in 1 .. a - 1 + 1 : p[i] = s.trail[1 + i - 1]
    BY <2>1, <2>2, SubSeqProperties
  <2> QED BY <2>3, <1>3
<1>8. /\ r \in Seq(Lit) /\ Len(r) \in Nat
      /\ \A j \in 1 .. Len(r) : \E i \in K : r[j] = s.trail[i]
      /\ \A i \in K : \E j \in 1 .. Len(r) : r[j] = s.trail[i]
      /\ \A i, j \in 1 .. Len(r) : r[i] = r[j] => i = j
  <2>1. K \in SUBSET (1 .. Len(s.trail))
    BY <1>5 DEF m
  <2>2. \A i, j \in K : s.trail[i] = s.trail[j] => i = j
    BY <1>5, <1>6
  <2>3. /\ r \in Seq(Lit)
        /\ \A j \in 1 .. Len(r) : \E i \in K : r[j] = s.trail[i]
        /\ \A i \in K : \E j \in 1 .. Len(r) : r[j] = s.trail[i]
        /\ \A i, j \in 1 .. Len(r) : r[i] = r[j] => i = j
    BY ZenonT(60), <2>1, <2>2, <1>3, SelectFacts
  <2> QED BY <2>3, LenProperties
<1> HIDE DEF p, r
<1>9. /\ q \in Seq(Lit) /\ Len(q) = a + Len(r)
      /\ \A i \in 1 .. a + Len(r) : q[i] = IF i <= a THEN p[i] ELSE r[i - a]
  <2>1. /\ q \in Seq(Lit) /\ Len(q) = Len(p) + Len(r)
        /\ \A i \in 1 .. Len(p) + Len(r) :
              q[i] = IF i <= Len(p) THEN p[i] ELSE r[i - Len(p)]
    <3>1. p \in Seq(Lit) /\ r \in Seq(Lit)
      BY <1>7, <1>8
    <3> QED BY <3>1, ConcatProperties, Zenon
  <2> QED BY <2>1, <1>7
<1> HIDE DEF q
<1>10. \A i \in 1 .. a : i \in 1 .. a + Len(r) /\ i <= a /\ i \in 1 .. m
  BY <1>3, <1>8
<1>11. \A i \in 1 .. a : q[i] = s.trail[i]
  BY <1>7, <1>9, <1>10
<1>12. \A j \in 1 .. Len(q) : \/ j \in 1 .. a
                              \/ j - a \in 1 .. Len(r) /\ q[j] = r[j - a]
  BY <1>3, <1>8, <1>9
<1>13. \A j \in 1 .. Len(q) : \E i \in 1 .. m : q[j] = s.trail[i] /\ (i <= a \/ i \in K)
  <2> SUFFICES ASSUME NEW j \in 1 .. Len(q)
               PROVE  \E i \in 1 .. m : q[j] = s.trail[i] /\ (i <= a \/ i \in K)
    OBVIOUS
  <2>1. CASE j \in 1 .. a
    BY <2>1, <1>10, <1>11
  <2>2. CASE j - a \in 1 .. Len(r) /\ q[j] = r[j - a]
    BY <2>2, <1>5, <1>8
  <2> QED BY <2>1, <2>2, <1>12
<1>14. \A i \in K : \E j \in a + 1 .. Len(q) : q[j] = s.trail[i]
  <2> SUFFICES ASSUME NEW i \in K
               PROVE  \E j \in a + 1 .. Len(q) : q[j] = s.trail[i]
    OBVIOUS
  <2>1. PICK j \in 1 .. Len(r) : r[j] = s.trail[i]
    BY <1>8
  <2> DEFINE k == a + j
  <2>2. k \in a + 1 .. Len(q) /\ k \in 1 .. a + Len(r) /\ k > a /\ k - a = j
    BY <1>3, <1>8, <1>9
  <2> HIDE DEF k
  <2>3. \A h \in 1 .. a + Len(r) : h > a => q[h] = r[h - a]
    BY <1>3, <1>8, <1>9
  <2>4. q[k] = r[k - a]
    BY <2>2, <2>3
  <2> QED BY <2>1, <2>2, <2>4
<1>15. \A i, j \in 1 .. Len(q) : q[i] = q[j] => i = j
  <2> SUFFICES ASSUME NEW i \in 1 .. Len(q), NEW j \in 1 .. Len(q), q[i] = q[j]
               PROVE  i = j
    OBVIOUS
  <2>0. i \in Int /\ j \in Int
    BY <1>3, <1>8, <1>9
  <2>1. CASE i \in 1 .. a /\ j \in 1 .. a
    BY <2>1, <1>6, <1>10, <1>11
  <2>2. CASE i \in 1 .. a /\ j - a \in 1 .. Len(r) /\ q[j] = r[j - a]
    <3>1. PICK k \in K : r[j - a] = s.trail[k]
      BY <2>2, <1>8
    <3>2. s.trail[i] = s.trail[k] /\ i \in 1 .. m /\ k \in 1 .. m /\ k > a /\ i <= a
      BY <3>1, <2>2, <1>5, <1>10, <1>11
    <3> QED BY <3>2, <1>6, <1>3
  <2>3. CASE j \in 1 .. a /\ i - a \in 1 .. Len(r) /\ q[i] = r[i - a]
    <3>1. PICK k \in K : r[i - a] = s.trail[k]
      BY <2>3, <1>8
    <3>2. s.trail[j] = s.trail[k] /\ j \in 1 .. m /\ k \in 1 .. m /\ k > a /\ j <= a
      BY <3>1, <2>3, <1>5, <1>10, <1>11
    <3> QED BY <3>2, <1>6, <1>3
  <2>4. CASE i - a \in 1 .. Len(r) /\ q[i] = r[i - a] /\ j - a \in 1 .. Len(r) /\ q[j] = r[j - a]
    <3>1. i - a = j - a
      BY <2>4, <1>8
    <3> QED BY <3>1, <2>0, <1>3
  <2> QED BY <2>1, <2>2, <2>3, <2>4, <1>12
<1>16. a <= Len(q) /\ Len(q) \in Nat
  BY <1>3, <1>8, <1>9
<1> QED BY <1>3, <1>9, <1>11, <1>13, <1>14, <1>15, <1>16 DEF a, m, K, p, r, q
\* Undoing the levels above n keeps the state sound, and synced if it was.
\* Exactly the literals of level n and below stay true, on their level.
LEMMA UndoSound ==
    ASSUME NEW s, Sound(s), NEW n \in Nat, n < Len(s.control), n + 1 <= Len(s.view)
    PROVE  LET t == Undo(s, n)
           IN  /\ Sound(t) /\ Len(t.control) = n
               /\ Synced(s) => Synced(t)
               /\ TrueLits(t) = {x \in TrueLits(s) : s.lev[vidx(x)] <= n}
               /\ \A x \in TrueLits(t) : t.lev[vidx(x)] = s.lev[vidx(x)]
               /\ t.fixed = s.fixed
<1> DEFINE t == Undo(s, n)
           a == s.control[n + 1].trail
           K == OutOfOrder(s, n)
           gone == {vidx(s.trail[i]) : i \in Beyond(s, n) \ K}
           q == SubSeq(s.trail, 1, a) \o Select(s.trail, K)
           cs == SubSeq(s.control, 1, n)
           vw == SubSeq(s.view, 1, n + 1)
           c == Len(s.control)
           m == Len(s.trail)
<1>1. /\ s \in SearchState /\ BlocksOrdered(s) /\ Consistent(s) /\ LevelsExist(s)
      /\ LowerBefore(s) /\ HeldInBlock(s) /\ FixedHeld(s)
      /\ s.notified <= m /\ 1 <= Len(s.view) /\ Len(s.view) <= c + 1
  BY DEF Sound
<1>2. /\ m \in Nat /\ c \in Nat /\ s.notified \in Nat /\ Len(s.view) \in Nat
      /\ n + 1 \in 1 .. c
      /\ \A i \in 1 .. m : s.trail[i] \in Lit /\ vidx(s.trail[i]) \in Var
      /\ s.lev \in [Var -> Nat] /\ \A v \in Var : s.lev[v] \in Nat
      /\ s.fixed \subseteq Lit /\ \A x \in s.fixed : vidx(x) \in Var
  BY <1>1, StateFacts, LitFacts
<1>3. /\ q \in Seq(Lit) /\ a \in Nat /\ a <= Len(q) /\ Len(q) \in Nat /\ a <= m
      /\ \A i \in 1 .. a : q[i] = s.trail[i]
      /\ \A j \in 1 .. Len(q) : \E i \in 1 .. m : q[j] = s.trail[i] /\ (i <= a \/ i \in K)
      /\ \A i \in K : \E j \in a + 1 .. Len(q) : q[j] = s.trail[i]
      /\ \A i, j \in 1 .. Len(q) : q[i] = q[j] => i = j
  BY UndoTrail
<1>4. /\ t.trail = q /\ t.control = cs /\ t.view = vw
      /\ t.lev = [v \in Var |-> IF v \in gone THEN 0 ELSE s.lev[v]]
      /\ t.fixed = s.fixed /\ t.obs = s.obs /\ t.ext = s.ext \ gone
      /\ t.notified = IF s.notified > a THEN a ELSE s.notified
  BY <1>1 DEF Undo, SearchState
<1>5. /\ cs \in Seq([decision : Lit \cup {0}, trail : Nat]) /\ Len(cs) = n
      /\ \A l \in 1 .. n : cs[l] = s.control[l]
  <2>1. \A l \in 1 .. n : s.control[l] \in [decision : Lit \cup {0}, trail : Nat]
    <3>1. \A l \in 1 .. n : l \in 1 .. c
      BY <1>2
    <3> QED BY <3>1, <1>1, StateFacts, ElementOfSeq
  <2>2. 1 \in Int /\ n \in Int
    OBVIOUS
  <2>3. /\ cs \in Seq([decision : Lit \cup {0}, trail : Nat])
        /\ Len(cs) = IF 1 <= n THEN n - 1 + 1 ELSE 0
        /\ \A l \in 1 .. n - 1 + 1 : cs[l] = s.control[1 + l - 1]
    BY <2>1, <2>2, SubSeqProperties
  <2> HIDE DEF cs
  <2> QED BY <2>3
<1>6. /\ vw \in Seq(SUBSET Lit) /\ Len(vw) = n + 1
      /\ \A k \in 1 .. n + 1 : vw[k] = s.view[k]
  <2>1. \A k \in 1 .. n + 1 : s.view[k] \in SUBSET Lit
    <3>1. \A k \in 1 .. n + 1 : k \in 1 .. Len(s.view)
      BY <1>2
    <3> QED BY <3>1, <1>1, StateFacts
  <2>2. 1 \in Int /\ n + 1 \in Int
    OBVIOUS
  <2>3. /\ vw \in Seq(SUBSET Lit)
        /\ Len(vw) = IF 1 <= n + 1 THEN n + 1 - 1 + 1 ELSE 0
        /\ \A k \in 1 .. n + 1 - 1 + 1 : vw[k] = s.view[1 + k - 1]
    BY <2>1, <2>2, SubSeqProperties
  <2> HIDE DEF vw
  <2> QED BY <2>3
<1>7. \A v \in gone : v \in Var /\ s.lev[v] > n
  <2>0. \A v \in gone : \E i \in a + 1 .. m :
           v = vidx(s.trail[i]) /\ ~(s.lev[vidx(s.trail[i])] <= n)
    BY DEF Beyond, OutOfOrder
  <2> HIDE DEF a, q, gone
  <2>1. \A i \in a + 1 .. m : i \in 1 .. m
    BY <1>2, <1>3
  <2> QED BY <2>0, <2>1, <1>2
<1>8. \A i \in K : i \in 1 .. m /\ a < i /\ s.lev[vidx(s.trail[i])] <= n
  <2>0. \A i \in K : i \in a + 1 .. m /\ s.lev[vidx(s.trail[i])] <= n
    BY DEF Beyond, OutOfOrder
  <2> HIDE DEF a, q, K
  <2> QED BY <2>0, <1>2, <1>3
<1>9. t \in SearchState
  <2>1. [v \in Var |-> IF v \in gone THEN 0 ELSE s.lev[v]] \in [Var -> Nat]
    BY <1>2
  <2>2. (IF s.notified > a THEN a ELSE s.notified) \in Nat
    BY <1>2, <1>3
  <2>3. s.ext \ gone \subseteq Var
    BY <1>1 DEF SearchState
  <2> HIDE DEF q, gone, cs, vw
  <2> QED BY <1>1, <1>3, <1>4, <1>5, <1>6, <2>1, <2>2, <2>3 DEF Undo, SearchState, q, gone, cs, vw, K, a
<1> HIDE DEF t, a, K, gone, q, cs, vw
<1>10. /\ t.notified \in Nat /\ t.notified <= a /\ t.notified <= s.notified
       /\ t.notified <= Len(t.trail)
       /\ s.notified <= a => t.notified = s.notified
       /\ t.notified < a => t.notified = s.notified
  BY <1>2, <1>3, <1>4
<1>11. \A l \in 1 .. n : /\ l \in 1 .. c /\ t.control[l].trail = s.control[l].trail
                         /\ s.control[l].trail \in Nat /\ s.control[l].trail <= a
  <2> SUFFICES ASSUME NEW l \in 1 .. n
               PROVE  /\ l \in 1 .. c /\ t.control[l].trail = s.control[l].trail
                      /\ s.control[l].trail \in Nat /\ s.control[l].trail <= a
    OBVIOUS
  <2>1. l \in 1 .. c /\ l <= n + 1
    BY <1>2
  <2>2. s.control[l].trail <= s.control[n + 1].trail
    BY <2>1, <1>1, <1>2 DEF BlocksOrdered
  <2> QED BY <2>1, <2>2, <1>1, <1>4, <1>5, StateFacts DEF a
<1>12. \A i \in 1 .. a : i \in 1 .. m /\ i \in 1 .. Len(q) /\ s.lev[vidx(s.trail[i])] <= n
  <2>1. \A i \in 1 .. a : s.lev[vidx(s.trail[i])] < n + 1
    BY <1>1, <1>2 DEF LowerBefore, a
  <2>2. \A i \in 1 .. a : i \in 1 .. m /\ i \in 1 .. Len(q)
    BY <1>2, <1>3
  <2> QED BY <2>1, <2>2, <1>2
<1>13. \A j \in 1 .. Len(q) : \E i \in 1 .. m :
          q[j] = s.trail[i] /\ s.lev[vidx(s.trail[i])] <= n
  <2> SUFFICES ASSUME NEW j \in 1 .. Len(q)
               PROVE  \E i \in 1 .. m : q[j] = s.trail[i] /\ s.lev[vidx(s.trail[i])] <= n
    OBVIOUS
  <2>1. PICK i \in 1 .. m : q[j] = s.trail[i] /\ (i <= a \/ i \in K)
    BY <1>3
  <2>2. i \in K \/ i \in 1 .. a
    BY <2>1, <1>2, <1>3
  <2> QED BY <2>1, <2>2, <1>8, <1>12
<1>14. \A v \in Var : v \in gone \/ t.lev[v] = s.lev[v]
  BY <1>4
<1>15. \A v \in Var : s.lev[v] <= n => t.lev[v] = s.lev[v]
  BY <1>2, <1>7, <1>14
<1>16. TrueLits(t) = {x \in TrueLits(s) : s.lev[vidx(x)] <= n}
  <2>1. ASSUME NEW x \in TrueLits(t) PROVE x \in TrueLits(s) /\ s.lev[vidx(x)] <= n
    <3>1. CASE x \in s.fixed
      <4>1. s.lev[vidx(x)] = 0
        BY <3>1, <1>1 DEF LevelsExist
      <4> QED BY <4>1, <3>1 DEF TrueLits
    <3>2. CASE x \notin s.fixed
      <4>1. PICK j \in 1 .. Len(q) : q[j] = x
        BY <3>2, <1>4, <1>9, StateFacts DEF TrueLits, OnTrail
      <4>2. PICK i \in 1 .. m : q[j] = s.trail[i] /\ s.lev[vidx(s.trail[i])] <= n
        BY <1>13
      <4>3. s.trail[i] \in OnTrail(s)
        BY <1>1, StateFacts DEF OnTrail
      <4> QED BY <4>1, <4>2, <4>3 DEF TrueLits
    <3> QED BY <3>1, <3>2
  <2>2. ASSUME NEW x \in TrueLits(s), s.lev[vidx(x)] <= n PROVE x \in TrueLits(t)
    <3>1. CASE x \in s.fixed
      BY <3>1, <1>4 DEF TrueLits
    <3>2. CASE x \notin s.fixed
      <4>1. PICK i \in 1 .. m : s.trail[i] = x
        BY <3>2, <1>1, StateFacts DEF TrueLits, OnTrail
      <4>2. CASE i \in 1 .. a
        <5>1. q[i] = x /\ i \in 1 .. Len(q)
          BY <4>1, <4>2, <1>3, <1>12
        <5> QED BY <5>1, <1>4, <1>9, StateFacts DEF TrueLits, OnTrail
      <4>3. CASE i \notin 1 .. a
        <5>1. i \in a + 1 .. m
          BY <4>3, <1>2, <1>3
        <5>2. i \in K
          BY <5>1, <4>1, <2>2 DEF K, OutOfOrder, Beyond, a
        <5>3. PICK j \in a + 1 .. Len(q) : q[j] = x
          BY <5>2, <4>1, <1>3
        <5>4. j \in 1 .. Len(q)
          BY <5>3, <1>3
        <5> QED BY <5>3, <5>4, <1>4, <1>9, StateFacts DEF TrueLits, OnTrail
      <4> QED BY <4>2, <4>3
    <3> QED BY <3>1, <3>2
  <2> QED BY <2>1, <2>2
<1>17. \A x \in TrueLits(t) : t.lev[vidx(x)] = s.lev[vidx(x)] /\ s.lev[vidx(x)] <= n
  <2>1. \A x \in TrueLits(s) : vidx(x) \in Var
    BY <1>1, <1>2, StateFacts DEF TrueLits, OnTrail
  <2> QED BY <2>1, <1>15, <1>16
<1>18. BlocksOrdered(t)
  <2>1. \A l \in 1 .. n : t.control[l].trail <= Len(t.trail)
    BY <1>3, <1>4, <1>11, SMTT(40)
  <2>2. \A l, k \in 1 .. n : l <= k => t.control[l].trail <= t.control[k].trail
    BY <1>1, <1>11 DEF BlocksOrdered
  <2> QED BY <2>1, <2>2, <1>4, <1>5 DEF BlocksOrdered
<1>19. Consistent(t)
  <2>1. \A i, j \in 1 .. Len(q) : vidx(q[i]) = vidx(q[j]) => i = j
    <3> SUFFICES ASSUME NEW i \in 1 .. Len(q), NEW j \in 1 .. Len(q), vidx(q[i]) = vidx(q[j])
                 PROVE  i = j
      OBVIOUS
    <3>1. PICK i1 \in 1 .. m : q[i] = s.trail[i1]
      BY <1>3
    <3>2. PICK j1 \in 1 .. m : q[j] = s.trail[j1]
      BY <1>3
    <3>3. i1 = j1
      BY <3>1, <3>2, <1>1 DEF Consistent
    <3> QED BY <3>1, <3>2, <3>3, <1>3
  <2>2. \A x \in TrueLits(t) : x \in TrueLits(s)
    BY <1>16
  <2> QED BY <2>1, <2>2, <1>1, <1>4 DEF Consistent
<1>20. LevelsExist(t)
  <2>1. \A i \in 1 .. Len(q) : q[i] \in TrueLits(t)
    BY <1>4, <1>9, StateFacts DEF TrueLits, OnTrail
  <2>2. \A i \in 1 .. Len(q) : s.lev[vidx(q[i])] = 0 => q[i] \in s.fixed
    BY <1>3, <1>1 DEF LevelsExist
  <2>3. \A x \in s.fixed : x \in TrueLits(t) /\ s.lev[vidx(x)] = 0
    BY <1>1, <1>4 DEF LevelsExist, TrueLits
  <2> QED BY <2>1, <2>2, <2>3, <1>4, <1>5, <1>17 DEF LevelsExist
<1>21. LowerBefore(t)
  <2> SUFFICES ASSUME NEW l \in 1 .. n, NEW i \in 1 .. s.control[l].trail
               PROVE  t.lev[vidx(q[i])] < l
    BY <1>4, <1>5, <1>11 DEF LowerBefore
  <2>1. i \in 1 .. a
    BY <1>3, <1>11
  <2>2. s.lev[vidx(s.trail[i])] < l
    BY <1>1, <1>11 DEF LowerBefore
  <2>3. vidx(s.trail[i]) \in Var
    BY <2>1, <1>2, <1>12
  <2>4. t.lev[vidx(s.trail[i])] = s.lev[vidx(s.trail[i])]
    BY <2>1, <2>3, <1>12, <1>15
  <2> QED BY <2>1, <2>2, <2>4, <1>3
<1>22. HeldInBlock(t)
  <2> SUFFICES ASSUME NEW k \in 1 .. n + 1, NEW x \in s.view[k], x \notin s.fixed
               PROVE  \E i \in 1 .. Len(q) : q[i] = x /\ InBlock(t, i, k)
    BY <1>4, <1>6 DEF HeldInBlock
  <2>1. k \in 1 .. Len(s.view) /\ k \in 1 .. c /\ k <= n + 1
    BY <1>2
  <2>2. PICK i \in 1 .. m : s.trail[i] = x /\ InBlock(s, i, k)
    BY <2>1, <1>1 DEF HeldInBlock
  <2>3. i <= s.control[k].trail /\ (k > 1 => s.control[k - 1].trail < i)
    BY <2>1, <2>2 DEF InBlock
  <2>4. s.control[k].trail <= a /\ s.control[k].trail \in Nat
    BY <2>1, <1>1, <1>2, StateFacts DEF BlocksOrdered, a
  <2>5. i \in 1 .. a
    BY <2>3, <2>4, <1>2, <1>3
  <2>6. k <= n => i <= t.control[k].trail
    <3>1. k <= n => k \in 1 .. n
      OBVIOUS
    <3> QED BY <3>1, <2>3, <1>11
  <2>7. k > 1 => t.control[k - 1].trail < i
    <3>1. k > 1 => k - 1 \in 1 .. n
      OBVIOUS
    <3> QED BY <3>1, <2>3, <1>11
  <2>8. InBlock(t, i, k)
    BY <2>6, <2>7, <1>4, <1>5 DEF InBlock
  <2> QED BY <2>2, <2>5, <2>8, <1>3, <1>12
<1>23. FixedHeld(t)
  BY <1>1, <1>4, <1>6 DEF FixedHeld
<1>24. Sound(t)
  BY <1>4, <1>5, <1>6, <1>9, <1>10, <1>18, <1>19, <1>20, <1>21, <1>22, <1>23 DEF Sound
<1>25. ASSUME Synced(s) PROVE Synced(t)
  <2>1. CountedHeld(s) /\ PendingAbove(s) /\ Len(s.view) = c + 1
    BY <1>25 DEF Synced
  <2>2. CountedHeld(t)
    <3> SUFFICES ASSUME NEW i \in 1 .. t.notified, vidx(q[i]) \in s.obs, q[i] \notin s.fixed
                 PROVE  \E k \in 1 .. n + 1 : q[i] \in s.view[k] /\ InBlock(t, i, k)
      BY <1>4, <1>6 DEF CountedHeld
    <3>1. i \in 1 .. a /\ i \in 1 .. s.notified
      BY SMTT(30), <1>2, <1>3, <1>10
    <3>2. q[i] = s.trail[i]
      BY <3>1, <1>3
    <3>3. PICK k \in 1 .. c + 1 : s.trail[i] \in s.view[k] /\ InBlock(s, i, k)
      BY <3>1, <3>2, <2>1 DEF CountedHeld
    <3>4. k <= n + 1
      <4> SUFFICES ASSUME k > n + 1 PROVE FALSE
        BY <1>2
      <4>1. k - 1 \in 1 .. c /\ n + 1 <= k - 1 /\ k > 1
        BY <1>2
      <4>2. s.control[k - 1].trail < i
        BY <4>1, <3>3 DEF InBlock
      <4>3. a <= s.control[k - 1].trail /\ s.control[k - 1].trail \in Nat
        BY <4>1, <1>1, <1>2, StateFacts DEF BlocksOrdered, a
      <4> QED BY SMTT(30), <4>2, <4>3, <3>1, <1>3
    <3>5. k \in 1 .. n + 1
      BY <3>4
    <3>6. k <= n => i <= t.control[k].trail
      <4>1. k <= n => k \in 1 .. n /\ k <= c
        BY <1>2
      <4> QED BY <4>1, <3>3, <1>11 DEF InBlock
    <3>7. k > 1 => t.control[k - 1].trail < i
      <4>1. k > 1 => k - 1 \in 1 .. n
        BY <3>5
      <4> QED BY <4>1, <3>3, <1>11 DEF InBlock
    <3>8. InBlock(t, i, k)
      BY <3>6, <3>7, <1>4, <1>5 DEF InBlock
    <3> QED BY <3>2, <3>3, <3>5, <3>8
  <2>3. PendingAbove(t)
    <3> SUFFICES ASSUME NEW l \in 1 .. n, NEW i \in t.notified + 1 .. s.control[l].trail
                 PROVE  q[i] \in s.fixed
      BY <1>4, <1>5, <1>11 DEF PendingAbove
    <3>1. i \in 1 .. a /\ t.notified < a
      BY SMTT(30), <1>3, <1>10, <1>11
    <3>2. i \in s.notified + 1 .. s.control[l].trail
      BY <3>1, <1>10
    <3>3. s.trail[i] \in s.fixed
      BY <3>2, <2>1, <1>11 DEF PendingAbove
    <3> QED BY <3>1, <3>3, <1>3
  <2> QED BY <2>2, <2>3, <1>4, <1>5, <1>6 DEF Synced
<1> QED BY <1>4, <1>5, <1>16, <1>17, <1>24, <1>25 DEF t
\* 'backtrack', from a synced state or to the root level, leads to a sound and
\* synced state in which exactly the literals of level n and below are true.
LEMMA BacktrackSound ==
    ASSUME NEW s, Sound(s), NEW n \in 0 .. Len(s.control), Synced(s) \/ n = 0
    PROVE  LET t == Backtrack(s, n)
           IN  /\ Sound(t) /\ Synced(t) /\ Len(t.control) = n
               /\ TrueLits(t) = {x \in TrueLits(s) : s.lev[vidx(x)] <= n}
               /\ \A x \in TrueLits(t) : t.lev[vidx(x)] = s.lev[vidx(x)]
               /\ t.fixed = s.fixed
<1> DEFINE t == Backtrack(s, n)
           u == Undo(s, n)
<1>1. /\ s \in SearchState /\ LevelsExist(s)
      /\ 1 <= Len(s.view) /\ Len(s.view) <= Len(s.control) + 1
  BY DEF Sound
<1>2. Len(s.control) \in Nat /\ Len(s.view) \in Nat /\ n \in Nat
  BY <1>1, StateFacts
<1>3. CASE n = Len(s.control)
  <2>1. t = s
    BY <1>3 DEF Backtrack, Level
  <2>2. Synced(s)
    BY <1>3, RootSynced
  <2>3. \A x \in TrueLits(s) : s.lev[vidx(x)] <= n
    <3> SUFFICES ASSUME NEW x \in TrueLits(s) PROVE s.lev[vidx(x)] <= n
      OBVIOUS
    <3>1. CASE x \in s.fixed
      <4>1. s.lev[vidx(x)] = 0
        BY <3>1, <1>1 DEF LevelsExist
      <4> QED BY <4>1, <1>2
    <3>2. CASE x \notin s.fixed
      <4>1. PICK i \in 1 .. Len(s.trail) : s.trail[i] = x
        BY <3>2, <1>1, StateFacts DEF TrueLits, OnTrail
      <4> QED BY <4>1, <1>1, <1>3 DEF LevelsExist
    <3> QED BY <3>1, <3>2
  <2> HIDE DEF t
  <2>4. TrueLits(t) = {x \in TrueLits(s) : s.lev[vidx(x)] <= n}
    BY <2>1, <2>3
  <2>5. Sound(t) /\ Synced(t) /\ Len(t.control) = n /\ t.fixed = s.fixed
    BY <2>1, <2>2, <1>3
  <2> QED BY <2>1, <2>4, <2>5 DEF t
<1>4. CASE n # Len(s.control)
  <2>1. n < Len(s.control)
    BY <1>4, <1>2
  <2>2. n + 1 <= Len(s.view)
    <3>1. CASE Synced(s)
      <4>1. Len(s.view) = Len(s.control) + 1
        BY <3>1 DEF Synced
      <4> QED BY <4>1, <2>1, <1>2
    <3>2. CASE n = 0
      BY <3>2, <1>1
    <3> QED BY <3>1, <3>2
  <2>3. /\ Sound(u) /\ Len(u.control) = n
        /\ Synced(s) => Synced(u)
        /\ TrueLits(u) = {x \in TrueLits(s) : s.lev[vidx(x)] <= n}
        /\ \A x \in TrueLits(u) : u.lev[vidx(x)] = s.lev[vidx(x)]
        /\ u.fixed = s.fixed
    BY <2>1, <2>2, <1>2, UndoSound
  <2> HIDE DEF u
  <2>4. Synced(u)
    BY <2>3, RootSynced
  <2>5. t = u \/ t = NotifyAssignments(u)
    BY <1>4 DEF Backtrack, Level, u
  <2>6. CASE t = u
    <3> HIDE DEF t
    <3> QED BY <2>3, <2>4, <2>6 DEF t
  <2>7. CASE t = NotifyAssignments(u)
    <3> HIDE DEF t
    <3>1. /\ Sound(t) /\ Synced(t) /\ t.control = u.control /\ TrueLits(t) = TrueLits(u)
          /\ t.lev = u.lev /\ t.fixed = u.fixed
      BY <2>3, <2>4, <2>7, NotifySound
    <3> QED BY <2>3, <3>1 DEF t
  <2> QED BY <2>5, <2>6, <2>7
<1> QED BY <1>3, <1>4

\* Replacing the fixed part of a root-level trail by one FIXED literal keeps
\* the state sound: 'compact' maps all of them to the first one.
LEMMA CompactSound ==
    ASSUME NEW s, Sound(s), Len(s.control) = 0, NEW x \in s.fixed
    PROVE  LET t == Compact(s, x)
           IN  Sound(t) /\ Len(t.control) = 0 /\ TrueLits(t) = TrueLits(s)
<1> DEFINE t == Compact(s, x)
<1>1. /\ s \in SearchState /\ BlocksOrdered(s) /\ Consistent(s) /\ LevelsExist(s)
      /\ LowerBefore(s) /\ HeldInBlock(s) /\ FixedHeld(s)
      /\ 1 <= Len(s.view) /\ Len(s.view) <= 0 + 1
  BY DEF Sound
<1>2. x \in Lit /\ s.fixed \subseteq Lit
  BY <1>1, StateFacts
<1>3. /\ t.trail = <<x>> /\ t.notified = 0 /\ t.control = s.control /\ t.lev = s.lev
      /\ t.ext = s.ext /\ t.fixed = s.fixed /\ t.obs = s.obs /\ t.view = s.view
  BY <1>1 DEF Compact, SearchState
<1>4. <<x>> \in Seq(Lit) /\ Len(<<x>>) = 1 /\ <<x>>[1] = x
  BY <1>2
<1>5. t \in SearchState
  BY <1>1, <1>4 DEF Compact, SearchState
<1> HIDE DEF t
<1>6. \A i \in 1 .. Len(t.trail) : i = 1 /\ t.trail[i] = x
  BY <1>3, <1>4
<1>7. \A i \in 1 .. Len(s.trail) : s.trail[i] \in s.fixed
  BY <1>1, StateFacts DEF LevelsExist
<1>8. OnTrail(t) \subseteq {x} /\ OnTrail(s) \subseteq s.fixed
  BY <1>1, <1>3, <1>4, <1>5, <1>6, <1>7, StateFacts DEF OnTrail
<1>9. TrueLits(t) = TrueLits(s)
  BY <1>3, <1>8 DEF TrueLits
<1>10. BlocksOrdered(t) /\ LowerBefore(t)
  BY <1>1, <1>3 DEF BlocksOrdered, LowerBefore
<1>11. Consistent(t)
  BY <1>1, <1>6, <1>9 DEF Consistent
<1>12. LevelsExist(t)
  BY <1>1, <1>3, <1>6 DEF LevelsExist
<1>13. HeldInBlock(t)
  <2>1. \A k \in 1 .. Len(s.view) : \A y \in s.view[k] : y \in s.fixed
    BY <1>1, <1>7 DEF HeldInBlock
  <2> QED BY <2>1, <1>3 DEF HeldInBlock
<1>14. FixedHeld(t)
  BY <1>1, <1>3 DEF FixedHeld
<1>15. t.notified <= Len(t.trail)
  BY <1>3, <1>4
<1>16. Sound(t)
  BY <1>1, <1>3, <1>5, <1>10, <1>11, <1>12, <1>13, <1>14, <1>15 DEF Sound
<1> QED BY <1>3, <1>9, <1>16 DEF t
\* Observing a variable that is unassigned, or FIXED and then reported at once,
\* keeps both invariants ('add_observed_var').
LEMMA ObserveSound ==
    ASSUME NEW s, Sound(s), NEW v \in Var
    PROVE  LET known == {x \in s.fixed : vidx(x) = v}
               t == [s EXCEPT !.obs = @ \cup {v}, !.view[1] = @ \cup known]
           IN  /\ Sound(t)
               /\ Synced(s) /\ s.lev[v] = 0 => Synced(t)
               /\ AllTold(s) => AllTold(t)
               /\ t.control = s.control /\ TrueLits(t) = TrueLits(s)
<1> DEFINE known == {x \in s.fixed : vidx(x) = v}
           t == [s EXCEPT !.obs = @ \cup {v}, !.view[1] = @ \cup known]
           e == s.view[1] \cup known
<1>1. /\ s \in SearchState /\ BlocksOrdered(s) /\ Consistent(s) /\ LevelsExist(s)
      /\ LowerBefore(s) /\ HeldInBlock(s) /\ FixedHeld(s) /\ s.notified <= Len(s.trail)
      /\ 1 <= Len(s.view) /\ Len(s.view) <= Len(s.control) + 1
  BY DEF Sound
<1>2. /\ s.view \in Seq(SUBSET Lit) /\ 1 \in 1 .. Len(s.view)
      /\ s.fixed \subseteq Lit /\ e \in SUBSET Lit
      /\ s.notified \in Nat /\ Len(s.trail) \in Nat
  BY SMTT(30), <1>1, StateFacts
<1>3. /\ t.trail = s.trail /\ t.notified = s.notified /\ t.control = s.control
      /\ t.lev = s.lev /\ t.ext = s.ext /\ t.fixed = s.fixed
      /\ t.obs = s.obs \cup {v} /\ t.view = [s.view EXCEPT ![1] = e]
  BY <1>1 DEF SearchState
<1>4. /\ t.view \in Seq(SUBSET Lit) /\ Len(t.view) = Len(s.view)
      /\ \A k \in 1 .. Len(s.view) : t.view[k] = IF k = 1 THEN e ELSE s.view[k]
  <2> HIDE DEF t, e
  <2> QED BY <1>2, <1>3, ExceptSeq
<1>5. t \in SearchState
  <2>1. [s.view EXCEPT ![1] = e] \in Seq(SUBSET Lit)
    BY <1>3, <1>4
  <2> QED BY <1>1, <2>1 DEF SearchState
<1> HIDE DEF t
<1>6. /\ BlocksOrdered(t) /\ LevelsExist(t) /\ LowerBefore(t)
      /\ TrueLits(t) = TrueLits(s)
  BY SMTT(30), <1>1, <1>3 DEF BlocksOrdered, LevelsExist, LowerBefore, TrueLits, OnTrail
<1>7. Consistent(t)
  BY <1>1, <1>3, <1>6 DEF Consistent
<1>8. HeldInBlock(t)
  BY <1>1, <1>2, <1>3, <1>4 DEF HeldInBlock, InBlock
<1>9. FixedHeld(t)
  BY <1>1, <1>2, <1>3, <1>4 DEF FixedHeld
<1>10. Sound(t)
  BY <1>1, <1>3, <1>4, <1>5, <1>6, <1>7, <1>8, <1>9 DEF Sound
<1>11. ASSUME Synced(s), s.lev[v] = 0 PROVE Synced(t)
  <2>1. CountedHeld(s) /\ PendingAbove(s) /\ Len(s.view) = Len(s.control) + 1
    BY <1>11 DEF Synced
  <2>2. CountedHeld(t)
    <3> SUFFICES ASSUME NEW i \in 1 .. s.notified, vidx(s.trail[i]) \in s.obs \cup {v},
                        s.trail[i] \notin s.fixed
                 PROVE  \E k \in 1 .. Len(s.view) : s.trail[i] \in t.view[k] /\ InBlock(s, i, k)
      BY <1>3, <1>4 DEF CountedHeld, InBlock
    <3>1. i \in 1 .. Len(s.trail)
      BY <1>1, <1>2
    <3>2. vidx(s.trail[i]) \in s.obs
      BY <3>1, <1>1, <1>11 DEF LevelsExist
    <3>3. PICK k \in 1 .. Len(s.view) : s.trail[i] \in s.view[k] /\ InBlock(s, i, k)
      BY <3>2, <2>1 DEF CountedHeld
    <3> QED BY <3>3, <1>4
  <2>3. PendingAbove(t)
    BY <2>1, <1>3 DEF PendingAbove
  <2> QED BY <2>1, <2>2, <2>3, <1>3, <1>4 DEF Synced
<1>12. AllTold(s) => AllTold(t)
  BY <1>3 DEF AllTold
<1> QED BY <1>3, <1>6, <1>10, <1>11, <1>12 DEF t

\* No longer observing some variables keeps the state sound.
LEMMA UnobserveSound ==
    ASSUME NEW s, Sound(s), NEW O \in SUBSET s.obs
    PROVE  LET t == [s EXCEPT !.obs = O]
           IN  Sound(t) /\ t.control = s.control /\ TrueLits(t) = TrueLits(s)
<1> DEFINE t == [s EXCEPT !.obs = O]
<1>1. /\ s \in SearchState /\ BlocksOrdered(s) /\ Consistent(s) /\ LevelsExist(s)
      /\ LowerBefore(s) /\ HeldInBlock(s) /\ FixedHeld(s) /\ s.notified <= Len(s.trail)
      /\ 1 <= Len(s.view) /\ Len(s.view) <= Len(s.control) + 1
  BY DEF Sound
<1>2. /\ t.trail = s.trail /\ t.notified = s.notified /\ t.control = s.control
      /\ t.lev = s.lev /\ t.ext = s.ext /\ t.fixed = s.fixed
      /\ t.obs = O /\ t.view = s.view
  BY <1>1 DEF SearchState
<1>3. t \in SearchState
  BY <1>1 DEF SearchState
<1> HIDE DEF t
<1>4. /\ BlocksOrdered(t) /\ LevelsExist(t) /\ LowerBefore(t)
      /\ TrueLits(t) = TrueLits(s)
  BY <1>1, <1>2 DEF BlocksOrdered, LevelsExist, LowerBefore, TrueLits, OnTrail
<1>5. Consistent(t)
  BY <1>1, <1>2, <1>4 DEF Consistent
<1>6. HeldInBlock(t) /\ FixedHeld(t)
  BY <1>1, <1>2 DEF HeldInBlock, InBlock, FixedHeld
<1> QED BY <1>1, <1>2, <1>3, <1>4, <1>5, <1>6 DEF Sound, t

\* A fresh propagator that observes nothing holds nothing: connecting it keeps
\* the state sound.
LEMMA FreshSound ==
    ASSUME NEW s, Sound(s)
    PROVE  LET t == [s EXCEPT !.obs = {}, !.notified = 0, !.view = <<{}>>]
           IN  Sound(t) /\ t.control = s.control /\ TrueLits(t) = TrueLits(s)
<1> DEFINE t == [s EXCEPT !.obs = {}, !.notified = 0, !.view = <<{}>>]
<1>1. /\ s \in SearchState /\ BlocksOrdered(s) /\ Consistent(s) /\ LevelsExist(s)
      /\ LowerBefore(s) /\ HeldInBlock(s)
  BY DEF Sound
<1>2. /\ t.trail = s.trail /\ t.notified = 0 /\ t.control = s.control
      /\ t.lev = s.lev /\ t.ext = s.ext /\ t.fixed = s.fixed
      /\ t.obs = {} /\ t.view = <<{}>>
  BY <1>1 DEF SearchState
<1>3. <<{}>> \in Seq(SUBSET Lit) /\ Len(<<{}>>) = 1 /\ <<{}>>[1] = {}
  OBVIOUS
<1>4. t \in SearchState
  BY <1>1, <1>3 DEF SearchState
<1>5. Len(s.trail) \in Nat /\ Len(s.control) \in Nat
  BY <1>1, StateFacts
<1> HIDE DEF t
<1>6. /\ BlocksOrdered(t) /\ LevelsExist(t) /\ LowerBefore(t)
      /\ TrueLits(t) = TrueLits(s)
  BY <1>1, <1>2 DEF BlocksOrdered, LevelsExist, LowerBefore, TrueLits, OnTrail
<1>7. Consistent(t)
  BY <1>1, <1>2, <1>6 DEF Consistent
<1>8. HeldInBlock(t) /\ FixedHeld(t)
  BY <1>2, <1>3 DEF HeldInBlock, FixedHeld
<1>9. t.notified <= Len(t.trail) /\ 1 <= Len(t.view) /\ Len(t.view) <= Len(t.control) + 1
  BY <1>2, <1>3, <1>5
<1> QED BY <1>2, <1>4, <1>6, <1>7, <1>8, <1>9 DEF Sound, t

\* Which reasons are still external does not matter to the invariants.
LEMMA ExternalReasonSound ==
    ASSUME NEW s, Sound(s), NEW X \in SUBSET Var
    PROVE  LET t == [s EXCEPT !.ext = X]
           IN  /\ Sound(t) /\ t.control = s.control /\ TrueLits(t) = TrueLits(s)
               /\ Synced(s) => Synced(t)
               /\ AllTold(s) => AllTold(t)
<1> DEFINE t == [s EXCEPT !.ext = X]
<1>1. /\ s \in SearchState /\ BlocksOrdered(s) /\ Consistent(s) /\ LevelsExist(s)
      /\ LowerBefore(s) /\ HeldInBlock(s) /\ FixedHeld(s) /\ s.notified <= Len(s.trail)
      /\ 1 <= Len(s.view) /\ Len(s.view) <= Len(s.control) + 1
  BY DEF Sound
<1>2. /\ t.trail = s.trail /\ t.notified = s.notified /\ t.control = s.control
      /\ t.lev = s.lev /\ t.fixed = s.fixed /\ t.obs = s.obs /\ t.view = s.view
  BY <1>1 DEF SearchState
<1>3. t \in SearchState
  BY <1>1 DEF SearchState
<1> HIDE DEF t
<1>4. /\ BlocksOrdered(t) /\ LevelsExist(t) /\ LowerBefore(t)
      /\ TrueLits(t) = TrueLits(s)
  BY <1>1, <1>2 DEF BlocksOrdered, LevelsExist, LowerBefore, TrueLits, OnTrail
<1>5. Consistent(t)
  BY <1>1, <1>2, <1>4 DEF Consistent
<1>6. HeldInBlock(t) /\ FixedHeld(t)
  BY <1>1, <1>2 DEF HeldInBlock, InBlock, FixedHeld
<1>7. Sound(t)
  BY <1>1, <1>2, <1>3, <1>4, <1>5, <1>6 DEF Sound
<1>8. (Synced(s) => Synced(t)) /\ (AllTold(s) => AllTold(t))
  BY <1>2 DEF Synced, CountedHeld, PendingAbove, InBlock, AllTold
<1> QED BY <1>2, <1>4, <1>7, <1>8 DEF t

\* The state of a new solver is sound.
LEMMA EmptySound == Sound(EmptyTrail({})) /\ Len(EmptyTrail({}).control) = 0
<1> DEFINE t == EmptyTrail({})
<1>1. /\ t.trail = <<>> /\ t.control = <<>> /\ t.lev = [v \in Var |-> 0]
      /\ t.ext = {} /\ t.fixed = {} /\ t.obs = {} /\ t.notified = 0 /\ t.view = <<{}>>
  BY DEF EmptyTrail
<1>2. t \in SearchState
  BY DEF EmptyTrail, SearchState
<1>3. /\ Len(<<>>) = 0 /\ 1 .. 0 = {} /\ Len(<<{}>>) = 1 /\ <<{}>>[1] = {}
      /\ DOMAIN <<>> = {}
  OBVIOUS
<1> HIDE DEF t
<1>4. TrueLits(t) = {}
  BY <1>1, <1>3 DEF TrueLits, OnTrail
<1>5. BlocksOrdered(t) /\ Consistent(t) /\ LevelsExist(t) /\ LowerBefore(t)
  BY <1>1, <1>3, <1>4 DEF BlocksOrdered, Consistent, LevelsExist, LowerBefore
<1>6. HeldInBlock(t) /\ FixedHeld(t)
  BY <1>1, <1>3 DEF HeldInBlock, FixedHeld
<1>7. /\ t.notified <= Len(t.trail) /\ 1 <= Len(t.view)
      /\ Len(t.view) <= Len(t.control) + 1 /\ Len(t.control) = 0
  BY <1>1, <1>3
<1> QED BY <1>2, <1>5, <1>6, <1>7 DEF Sound, t

\* A non-empty set of natural numbers has a least element.
LEMMA LeastNatural ==
    ASSUME NEW T \in SUBSET Nat, T # {}
    PROVE  \E x \in T : \A y \in T : x <= y
<1> DEFINE R == OpToRel(<, Nat)
<1>1. \A x, y \in Nat : y < x => <<y, x>> \in R
  BY DEF OpToRel
<1>2. IsWellFoundedOn(R, Nat)
  BY NatLessThanWellFounded
<1> HIDE DEF R
<1>3. \E x \in T : \A y \in T : ~ (<<y, x>> \in R)
  BY <1>2, WFMin
<1>4. PICK x \in T : \A y \in T : ~ (<<y, x>> \in R)
  BY <1>3
<1>5. \A y \in T : ~(y < x)
  BY <1>1, <1>4
<1>6. \A y \in T : x <= y
  BY <1>5
<1> QED BY <1>6

\* The highest level of a set of assigned literals is a level of the search
\* and bounds the level of each of them.
LEMMA MaxLevelFacts ==
    ASSUME NEW s, Sound(s), NEW C \in SUBSET FalseLits(s)
    PROVE  /\ MaxLevel(s, C) \in 0 .. Len(s.control)
           /\ \A x \in C : s.lev[vidx(x)] \in Nat /\ s.lev[vidx(x)] <= MaxLevel(s, C)
           /\ MaxLevel(s, C) = 0 \/ \E x \in C : s.lev[vidx(x)] = MaxLevel(s, C)
<1> DEFINE c == Len(s.control)
           L == {s.lev[vidx(x)] : x \in C} \cup {0}
           B == {b \in Nat : \A x \in C : s.lev[vidx(x)] <= b}
<1>1. s \in SearchState /\ LevelsExist(s) /\ c \in Nat
  BY StateFacts DEF Sound
<1>2. \A x \in C : s.lev[vidx(x)] \in Nat /\ s.lev[vidx(x)] <= c
  <2> SUFFICES ASSUME NEW x \in C PROVE s.lev[vidx(x)] \in Nat /\ s.lev[vidx(x)] <= c
    OBVIOUS
  <2>1. x \in Lit /\ -x \in TrueLits(s) /\ vidx(-x) = vidx(x) /\ vidx(x) \in Var
    BY LitFacts DEF FalseLits
  <2>2. s.lev[vidx(x)] \in Nat
    BY <2>1, <1>1, StateFacts
  <2>3. CASE -x \in s.fixed
    <3>1. s.lev[vidx(-x)] = 0
      BY <2>3, <1>1 DEF LevelsExist
    <3> QED BY <3>1, <2>1, <1>1
  <2>4. CASE -x \notin s.fixed
    <3>1. PICK i \in 1 .. Len(s.trail) : s.trail[i] = -x
      BY <2>1, <2>4, <1>1, StateFacts DEF TrueLits, OnTrail
    <3>2. s.lev[vidx(-x)] <= c
      BY <3>1, <1>1 DEF LevelsExist
    <3> QED BY <3>2, <2>1, <2>2
  <2> QED BY <2>3, <2>4
<1>3. c \in B
  BY <1>1, <1>2
<1>4. PICK b \in B : \A d \in B : b <= d
  BY <1>3, LeastNatural
<1>5. b \in L
  <2> SUFFICES ASSUME b # 0 PROVE \E x \in C : s.lev[vidx(x)] = b
    OBVIOUS
  <2>1. b - 1 \in Nat /\ b - 1 \notin B
    BY <1>4
  <2>2. PICK x \in C : ~(s.lev[vidx(x)] <= b - 1)
    BY <2>1
  <2>3. s.lev[vidx(x)] <= b
    BY <1>4
  <2> QED BY <2>1, <2>2, <2>3, <1>2
<1>6. MaxLevel(s, C) = CHOOSE m \in L : \A x \in C : s.lev[vidx(x)] <= m
  BY DEF MaxLevel
<1>7. \A x \in C : s.lev[vidx(x)] <= b
  BY <1>4
<1>8. MaxLevel(s, C) \in L /\ \A x \in C : s.lev[vidx(x)] <= MaxLevel(s, C)
  BY <1>5, <1>6, <1>7
<1>9. \A l \in L : l \in 0 .. c
  BY <1>1, <1>2
<1> QED BY <1>2, <1>8, <1>9
=============================================================================
