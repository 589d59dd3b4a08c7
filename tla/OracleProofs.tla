---------------------------- MODULE OracleProofs ----------------------------
(***************************************************************************)
(* For every bound K, all propositions and loop variables and any number   *)
(* of levels: the oracle's trail mirrors what the solver has reported,     *)
(* and with chronological backtracking the sets of freed variables, from   *)
(* which cb_decide takes its proposal, hold no assigned variable.  The     *)
(* counter compared with the thresholds is the size of that trail.         *)
(***************************************************************************)
EXTENDS BmcOracle, FiniteSetTheorems, TLAPS

\* The root level of the solver's reports are the FIXED literals, and only
\* those are ever taken out of the property variables.
OracleInv ==
    /\ held \in Seq(SUBSET Vars) /\ Len(held) >= 1
    /\ current_trail \in Seq(SUBSET Vars)
    /\ property \subseteq Vars
    /\ held[1] = fixed
    /\ Vars \ property \subseteq fixed
    /\ MirrorsHeld

\* Every variable is held on one level only, and freed ones are filed under
\* their name.
FreedInv ==
    /\ \A i, j \in DOMAIN held : i # j => held[i] \cap held[j] = {}
    /\ unassigned_vars \in [Names -> SUBSET Vars]
    /\ \A n \in Names : \A v \in unassigned_vars[n] : v[1] = n
    /\ UnassignedNotHeld

\* Every variable has a name.
LEMMA VarNames ==
    ASSUME NEW v \in Vars
    PROVE  v[1] \in Names
BY DEF Vars, Copies, Names

\* What the shape of the two stacks is.
LEMMA StackFacts ==
    ASSUME OracleInv
    PROVE  /\ Len(held) \in Nat \ {0} /\ DOMAIN held = 1 .. Len(held)
           /\ Len(current_trail) = Len(held)
           /\ DOMAIN current_trail = 1 .. Len(held)
           /\ \A k \in 1 .. Len(held) :
                 held[k] \subseteq Vars /\ current_trail[k] = held[k] \cap property
BY DEF OracleInv, MirrorsHeld

\* A literal is put on the level of the trail it was reported on.
LEMMA PushMirrors ==
    ASSUME OracleInv, NEW v \in Vars, v \notin fixed, NEW is_fixed \in BOOLEAN,
           PutOnTrail(v, is_fixed),
           fixed' = IF is_fixed THEN fixed \cup {v} ELSE fixed,
           is_fixed \/ Len(held) > 1,
           held' = [held EXCEPT ![IF is_fixed THEN 1 ELSE Len(held)] = @ \cup {v}]
    PROVE  OracleInv'
<1> DEFINE p == IF is_fixed THEN 1 ELSE Len(held)
<1>1. /\ Len(held) \in Nat \ {0} /\ DOMAIN held = 1 .. Len(held)
      /\ Len(current_trail) = Len(held) /\ DOMAIN current_trail = 1 .. Len(held)
      /\ \A k \in 1 .. Len(held) :
            held[k] \subseteq Vars /\ current_trail[k] = held[k] \cap property
  BY StackFacts
<1>2. /\ held \in Seq(SUBSET Vars) /\ current_trail \in Seq(SUBSET Vars)
      /\ property \subseteq Vars /\ held[1] = fixed /\ Vars \ property \subseteq fixed
  BY DEF OracleInv
<1>3. v \in property
  BY <1>2
<1>4. /\ current_trail' = [current_trail EXCEPT ![p] = @ \cup {v}]
      /\ held' = [held EXCEPT ![p] = @ \cup {v}] /\ property' = property
  BY <1>1 DEF PutOnTrail, Push
<1>5. p \in 1 .. Len(held) /\ (is_fixed => p = 1) /\ (~is_fixed => p # 1)
  BY <1>1
<1> HIDE DEF p
<1>6. held' \in Seq(SUBSET Vars) /\ Len(held') = Len(held)
  BY <1>1, <1>2, <1>4, <1>5
<1>7. current_trail' \in Seq(SUBSET Vars) /\ Len(current_trail') = Len(held)
  BY <1>1, <1>2, <1>4, <1>5
<1>8. \A k \in 1 .. Len(held) :
         /\ held'[k] = IF k = p THEN held[k] \cup {v} ELSE held[k]
         /\ current_trail'[k] = IF k = p THEN current_trail[k] \cup {v} ELSE current_trail[k]
  BY <1>1, <1>4, <1>5
<1>9. ASSUME NEW k \in 1 .. Len(held) PROVE current_trail'[k] = held'[k] \cap property
  <2>1. current_trail[k] = held[k] \cap property
    BY <1>1
  <2>2. CASE k = p
    <3>1. held'[k] = held[k] \cup {v} /\ current_trail'[k] = current_trail[k] \cup {v}
      BY <2>2, <1>8
    <3> QED BY <2>1, <3>1, <1>3
  <2>3. CASE k # p
    BY <2>1, <2>3, <1>8
  <2> QED BY <2>2, <2>3
<1>10. held'[1] = fixed'
  <2>1. 1 \in 1 .. Len(held)
    BY <1>1
  <2>2. CASE is_fixed
    BY <2>1, <2>2, <1>2, <1>5, <1>8
  <2>3. CASE ~is_fixed
    <3>1. held'[1] = held[1]
      BY <2>1, <2>3, <1>5, <1>8
    <3>2. fixed' = fixed
      BY <2>3
    <3> QED BY <3>1, <3>2, <1>2
  <2> QED BY <2>2, <2>3
<1>11. MirrorsHeld'
  BY <1>1, <1>4, <1>6, <1>7, <1>9 DEF MirrorsHeld
<1> QED BY <1>1, <1>2, <1>4, <1>6, <1>7, <1>10, <1>11 DEF OracleInv

\* Every callback preserves the mirror.
LEMMA OracleStep ==
    ASSUME OracleInv, [Next]_vars
    PROVE  OracleInv'
<1>1. /\ Len(held) \in Nat \ {0} /\ DOMAIN held = 1 .. Len(held)
      /\ Len(current_trail) = Len(held) /\ DOMAIN current_trail = 1 .. Len(held)
      /\ \A k \in 1 .. Len(held) :
            held[k] \subseteq Vars /\ current_trail[k] = held[k] \cap property
  BY StackFacts
<1>2. /\ held \in Seq(SUBSET Vars) /\ current_trail \in Seq(SUBSET Vars)
      /\ property \subseteq Vars /\ held[1] = fixed /\ Vars \ property \subseteq fixed
  BY DEF OracleInv
<1>3. ASSUME NEW v \in Vars, Tell(v) PROVE OracleInv'
  <2>1. v \notin fixed
    BY <1>1, <1>2, <1>3 DEF Tell, HeldVars, All
  <2>2. ~Completes(v, FALSE)
    BY DEF Completes
  <2> QED BY <1>3, <2>1, <2>2, PushMirrors DEF Tell, notify_assignment
<1>4. ASSUME NEW v \in Vars, Fix(v) PROVE OracleInv'
  <2>1. v \notin fixed /\ fixed' = fixed \cup {v}
        /\ held' = [held EXCEPT ![1] = @ \cup {v}] /\ notify_assignment(v, TRUE)
    BY <1>4 DEF Fix
  <2>2. CASE ~Completes(v, TRUE)
    BY <2>1, <2>2, PushMirrors DEF notify_assignment
  <2>3. CASE Completes(v, TRUE)
    <3>1. current_trail' = current_trail /\ property' = property \ {v} /\ Len(held) = 1
      BY <2>1, <2>3, <1>1 DEF notify_assignment, RemoveName, Completes
    <3>2. held' \in Seq(SUBSET Vars) /\ Len(held') = 1 /\ held'[1] = fixed'
      BY <2>1, <3>1, <1>1, <1>2
    <3>3. current_trail'[1] = held'[1] \cap property'
      BY <2>1, <3>1, <3>2, <1>1, <1>2
    <3>4. MirrorsHeld'
      BY <3>1, <3>2, <3>3, <1>1 DEF MirrorsHeld
    <3> QED BY <2>1, <3>1, <3>2, <3>4, <1>2 DEF OracleInv
  <2> QED BY <2>2, <2>3
<1>5. ASSUME Decide PROVE OracleInv'
  <2>1. /\ held' = Append(held, {}) /\ current_trail' = Append(current_trail, {})
        /\ property' = property /\ fixed' = fixed
    BY <1>5 DEF Decide
  <2>2. /\ held' \in Seq(SUBSET Vars) /\ current_trail' \in Seq(SUBSET Vars)
        /\ Len(held') = Len(held) + 1 /\ Len(current_trail') = Len(held) + 1
        /\ held'[1] = fixed
    BY <2>1, <1>1, <1>2
  <2>3. \A k \in 1 .. Len(held) + 1 : current_trail'[k] = held'[k] \cap property
    <3> SUFFICES ASSUME NEW k \in 1 .. Len(held) + 1
                 PROVE  current_trail'[k] = held'[k] \cap property
      OBVIOUS
    <3>1. CASE k \in 1 .. Len(held)
      BY <3>1, <2>1, <1>1, <1>2
    <3>2. CASE k = Len(held) + 1
      BY <3>2, <2>1, <1>1, <1>2
    <3> QED BY <3>1, <3>2, <1>1
  <2>4. MirrorsHeld'
    BY <2>1, <2>2, <2>3 DEF MirrorsHeld
  <2> QED BY <2>1, <2>2, <2>4, <1>1, <1>2 DEF OracleInv
<1>6. ASSUME NEW n \in 0 .. MaxLevel, BacktrackTo(n) PROVE OracleInv'
  <2>1. /\ n \in Nat /\ n + 1 < Len(held) /\ property' = property /\ fixed' = fixed
        /\ held' = SubSeq(held, 1, n + 1)
        /\ current_trail' = SubSeq(current_trail, 1, n + 1)
    BY <1>6, SizeAssumption DEF BacktrackTo, notify_backtrack
  <2>2. /\ held' \in Seq(SUBSET Vars) /\ current_trail' \in Seq(SUBSET Vars)
        /\ Len(held') = n + 1 /\ Len(current_trail') = n + 1
        /\ \A k \in 1 .. n + 1 : held'[k] = held[k] /\ current_trail'[k] = current_trail[k]
    BY <2>1, <1>1, <1>2
  <2>3. MirrorsHeld'
    BY <2>1, <2>2, <1>1 DEF MirrorsHeld
  <2> QED BY <2>1, <2>2, <2>3, <1>1, <1>2 DEF OracleInv
<1>7. CASE AddExternalClause
  BY <1>7 DEF AddExternalClause, OracleInv, MirrorsHeld
<1>8. CASE cb_decide \/ UNCHANGED vars
  BY <1>8 DEF cb_decide, oracle, vars, OracleInv, MirrorsHeld
<1> QED BY <1>3, <1>4, <1>5, <1>6, <1>7, <1>8 DEF Next

\* A variable that is reported and not yet held stays on one level, and is no
\* longer listed as free.
LEMMA PutKeepsFreed ==
    ASSUME OracleInv, FreedInv, NEW v \in Vars, v \notin HeldVars,
           NEW p \in DOMAIN held,
           held' = [held EXCEPT ![p] = @ \cup {v}],
           unassigned_vars' = [unassigned_vars EXCEPT ![v[1]] = @ \ {v}]
    PROVE  FreedInv'
<1>1. DOMAIN held = 1 .. Len(held) /\ Len(held) \in Nat
  BY StackFacts
<1>2. /\ DOMAIN held' = DOMAIN held
      /\ \A k \in DOMAIN held : held'[k] = IF k = p THEN held[k] \cup {v} ELSE held[k]
  BY DEF OracleInv
<1>3. \A k \in DOMAIN held : v \notin held[k]
  BY DEF HeldVars, All
<1>4. \A i, j \in DOMAIN held' : i # j => held'[i] \cap held'[j] = {}
  BY <1>2, <1>3 DEF FreedInv
<1>5. v[1] \in Names
  BY VarNames
<1>6. /\ unassigned_vars' \in [Names -> SUBSET Vars]
      /\ \A n \in Names : unassigned_vars'[n] =
            IF n = v[1] THEN unassigned_vars[n] \ {v} ELSE unassigned_vars[n]
  BY <1>5 DEF FreedInv
<1>7. \A n \in Names : \A u \in unassigned_vars'[n] : u[1] = n /\ u # v
  BY <1>6 DEF FreedInv
<1>8. HeldVars' = HeldVars \cup {v}
  BY <1>2 DEF HeldVars, All
<1>9. UnassignedNotHeld'
  BY <1>6, <1>7, <1>8 DEF FreedInv, UnassignedNotHeld
<1> QED BY <1>4, <1>6, <1>7, <1>9 DEF FreedInv

\* With chronological backtracking every callback preserves FreedInv.
LEMMA FreedStep ==
    ASSUME Chrono, OracleInv, FreedInv, [Next]_vars
    PROVE  FreedInv'
<1>1. /\ Len(held) \in Nat \ {0} /\ DOMAIN held = 1 .. Len(held)
      /\ Len(current_trail) = Len(held) /\ DOMAIN current_trail = 1 .. Len(held)
      /\ \A k \in 1 .. Len(held) :
            held[k] \subseteq Vars /\ current_trail[k] = held[k] \cap property
  BY StackFacts
<1>2. held \in Seq(SUBSET Vars) /\ current_trail \in Seq(SUBSET Vars)
  BY DEF OracleInv
<1>3. ASSUME NEW v \in Vars, Tell(v) PROVE FreedInv'
  <2>1. /\ v \notin HeldVars /\ held' = [held EXCEPT ![Len(held)] = @ \cup {v}]
        /\ unassigned_vars' = [unassigned_vars EXCEPT ![v[1]] = @ \ {v}]
    BY <1>3 DEF Tell, notify_assignment
  <2>2. Len(held) \in DOMAIN held
    BY <1>1
  <2> QED BY <2>1, <2>2, PutKeepsFreed
<1>4. ASSUME NEW v \in Vars, Fix(v) PROVE FreedInv'
  <2>1. /\ v \notin HeldVars /\ held' = [held EXCEPT ![1] = @ \cup {v}]
        /\ unassigned_vars' = [unassigned_vars EXCEPT ![v[1]] = @ \ {v}]
    BY <1>4 DEF Fix, notify_assignment
  <2>2. 1 \in DOMAIN held
    BY <1>1
  <2> QED BY <2>1, <2>2, PutKeepsFreed
<1>5. CASE Decide
  <2>1. held' = Append(held, {}) /\ unassigned_vars' = unassigned_vars
    BY <1>5 DEF Decide
  <2>2. /\ DOMAIN held' = 1 .. Len(held) + 1
        /\ \A k \in 1 .. Len(held) : held'[k] = held[k]
        /\ held'[Len(held) + 1] = {}
    BY <2>1, <1>1, <1>2
  <2>3. \A k \in DOMAIN held' : (k \in DOMAIN held /\ held'[k] = held[k]) \/ held'[k] = {}
    BY <2>2, <1>1
  <2>4. \A i, j \in DOMAIN held' : i # j => held'[i] \cap held'[j] = {}
    BY <2>3 DEF FreedInv
  <2>5. HeldVars' \subseteq HeldVars
    BY <2>3 DEF HeldVars, All
  <2> QED BY <2>1, <2>4, <2>5 DEF FreedInv, UnassignedNotHeld
<1>6. ASSUME NEW n \in 0 .. MaxLevel, BacktrackTo(n) PROVE FreedInv'
  <2> DEFINE Freed == All(Above(n))
  <2>1. /\ n \in Nat /\ n + 1 < Len(held) /\ held' = SubSeq(held, 1, n + 1)
        /\ unassigned_vars' = [m \in Names |->
              unassigned_vars[m] \cup {v \in Freed : v[1] = m}]
    BY <1>6, SizeAssumption DEF BacktrackTo, notify_backtrack
  <2>2. DOMAIN held' = 1 .. n + 1 /\ \A k \in 1 .. n + 1 : held'[k] = held[k]
    BY <2>1, <1>1, <1>2
  <2>3. \A k \in DOMAIN held' : k \in DOMAIN held /\ held'[k] = held[k]
    BY <2>1, <2>2, <1>1
  <2>4. \A i, j \in DOMAIN held' : i # j => held'[i] \cap held'[j] = {}
    BY <2>3 DEF FreedInv
  <2>5. \A v \in Freed : \E k \in n + 2 .. Len(held) : v \in held[k]
    <3>1. /\ DOMAIN Above(n) = n + 2 .. Len(held)
          /\ \A k \in n + 2 .. Len(held) : Above(n)[k] = current_trail[k] /\ k \in 1 .. Len(held)
      BY <2>1, <1>1 DEF Above
    <3> QED BY <3>1, <1>1 DEF All
  <2>6. \A v \in Freed : v \in Vars /\ v \notin HeldVars'
    <3> SUFFICES ASSUME NEW v \in Freed PROVE v \in Vars /\ v \notin HeldVars'
      OBVIOUS
    <3>1. PICK k \in n + 2 .. Len(held) : v \in held[k]
      BY <2>5
    <3>2. k \in DOMAIN held /\ \A i \in 1 .. n + 1 : i \in DOMAIN held /\ i # k
      BY <2>1, <1>1
    <3>3. \A i \in 1 .. n + 1 : v \notin held'[i]
      BY <3>1, <3>2, <2>2 DEF FreedInv
    <3> QED BY <3>1, <3>2, <3>3, <2>2, <1>1 DEF HeldVars, All
  <2>7. HeldVars' \subseteq HeldVars
    BY <2>3 DEF HeldVars, All
  <2> HIDE DEF Freed
  <2>8. unassigned_vars' \in [Names -> SUBSET Vars]
    BY <2>1, <2>6 DEF FreedInv
  <2>9. \A m \in Names : \A v \in unassigned_vars'[m] : v[1] = m
    BY <2>1 DEF FreedInv
  <2>10. UnassignedNotHeld'
    BY <2>1, <2>6, <2>7 DEF FreedInv, UnassignedNotHeld
  <2> QED BY <2>4, <2>8, <2>9, <2>10 DEF FreedInv
<1>7. CASE AddExternalClause
  BY <1>7 DEF AddExternalClause, FreedInv, UnassignedNotHeld, HeldVars, All
<1>8. CASE cb_decide \/ UNCHANGED vars
  BY <1>8 DEF cb_decide, oracle, vars, FreedInv, UnassignedNotHeld, HeldVars, All
<1> QED BY <1>3, <1>4, <1>5, <1>6, <1>7, <1>8 DEF Next

\* There are finitely many variables.
LEMMA VarsFinite == IsFiniteSet(Vars)
<1>1. IsFiniteSet(0 .. K) /\ IsFiniteSet({0})
  <2>1. 0 \in Int /\ K \in Int
    BY SizeAssumption
  <2>2. IsFiniteSet(0 .. K)
    BY <2>1, FS_Interval
  <2> QED BY <2>2, FS_Singleton
<1>2. IsFiniteSet(Name \X (0 .. K)) /\ IsFiniteSet(Loop \X {0})
  BY <1>1, NamesAssumption, FS_Product
<1> QED BY <1>2, FS_Union DEF Vars, Copies

\* Finitely many are stored on finitely many levels.
LEMMA StoredFinite ==
    ASSUME NEW a \in Nat, NEW b \in Nat, NEW levels \in [a .. b -> SUBSET Vars]
    PROVE  IsFiniteSet(Stored(levels)) /\ Size(levels) \in Nat
<1>1. IsFiniteSet((a .. b) \X Vars)
  <2>1. a \in Int /\ b \in Int
    OBVIOUS
  <2>2. IsFiniteSet(a .. b)
    BY <2>1, FS_Interval
  <2> QED BY <2>2, VarsFinite, FS_Product
<1>2. Stored(levels) \subseteq (a .. b) \X Vars
  BY DEF Stored
<1> QED BY <1>1, <1>2, FS_Subset, FS_CardinalityType DEF Size

\* Nothing is counted twice in a disjoint union.
LEMMA DisjointUnion ==
    ASSUME NEW S, NEW T, IsFiniteSet(S), IsFiniteSet(T), S \cap T = {}
    PROVE  Cardinality(S \cup T) = Cardinality(S) + Cardinality(T)
<1>1. Cardinality(S \cup T) = Cardinality(S) + Cardinality(T) - Cardinality(S \cap T)
  BY FS_Union
<1>2. Cardinality(S \cap T) = 0
  BY FS_EmptySet
<1>3. Cardinality(S) \in Nat /\ Cardinality(T) \in Nat
  BY FS_CardinalityType
<1> QED BY <1>1, <1>2, <1>3

\* The counter of notify_assignment and notify_backtrack.
LEMMA SizeStep ==
    ASSUME OracleInv, SizeAccounts, [Next]_vars
    PROVE  SizeAccounts'
<1>1. /\ Len(held) \in Nat \ {0} /\ DOMAIN held = 1 .. Len(held)
      /\ Len(current_trail) = Len(held) /\ DOMAIN current_trail = 1 .. Len(held)
      /\ \A k \in 1 .. Len(held) :
            held[k] \subseteq Vars /\ current_trail[k] = held[k] \cap property
  BY StackFacts
<1>2. /\ current_trail \in Seq(SUBSET Vars)
      /\ current_trail \in [1 .. Len(held) -> SUBSET Vars]
      /\ property \subseteq Vars /\ held[1] = fixed /\ Vars \ property \subseteq fixed
  BY <1>1 DEF OracleInv
<1>3. /\ IsFiniteSet(Stored(current_trail)) /\ Size(current_trail) \in Nat
      /\ IsFiniteSet(Vars \ property) /\ Cardinality(Vars \ property) \in Nat
  BY <1>1, <1>2, StoredFinite, VarsFinite, FS_Subset, FS_CardinalityType
<1>4. curr_trail_sz = Size(current_trail) + Cardinality(Vars \ property)
  BY DEF SizeAccounts
<1>5. ASSUME NEW v \in Vars, v \notin fixed, NEW is_fixed \in BOOLEAN, PutOnTrail(v, is_fixed),
             curr_trail_sz' = curr_trail_sz + 1, is_fixed \/ v \notin HeldVars
      PROVE  SizeAccounts'
  <2> DEFINE p == IF is_fixed THEN 1 ELSE Len(held)
  <2>1. /\ current_trail' = [current_trail EXCEPT ![p] = @ \cup {v}] /\ property' = property
        /\ p \in 1 .. Len(held)
    BY <1>1, <1>5 DEF PutOnTrail, Push
  <2>2. v \notin current_trail[p]
    BY <1>1, <1>2, <1>5, <2>1 DEF HeldVars, All
  <2> HIDE DEF p
  <2>3. Stored(current_trail') = Stored(current_trail) \cup {<<p, v>>}
    BY <1>2, <2>1 DEF Stored
  <2>4. <<p, v>> \notin Stored(current_trail)
    BY <2>2 DEF Stored
  <2>5. Size(current_trail') = Size(current_trail) + 1
    BY <1>3, <2>3, <2>4, FS_AddElement DEF Size
  <2> QED BY <1>3, <1>4, <1>5, <2>1, <2>5 DEF SizeAccounts
<1>6. ASSUME NEW v \in Vars, Tell(v) PROVE SizeAccounts'
  <2>1. v \notin fixed
    BY <1>1, <1>2, <1>6 DEF Tell, HeldVars, All
  <2>2. ~Completes(v, FALSE)
    BY DEF Completes
  <2> QED BY <1>5, <1>6, <2>1, <2>2 DEF Tell, notify_assignment
<1>7. ASSUME NEW v \in Vars, Fix(v) PROVE SizeAccounts'
  <2>1. v \notin fixed /\ notify_assignment(v, TRUE) /\ curr_trail_sz' = curr_trail_sz + 1
    BY <1>7 DEF Fix, notify_assignment
  <2>2. CASE ~Completes(v, TRUE)
    BY <1>5, <2>1, <2>2 DEF notify_assignment
  <2>3. CASE Completes(v, TRUE)
    <3>1. current_trail' = current_trail /\ property' = property \ {v}
      BY <2>1, <2>3 DEF notify_assignment, RemoveName
    <3>2. Vars \ property' = (Vars \ property) \cup {v} /\ v \notin Vars \ property
      BY <1>2, <2>1, <3>1
    <3>3. Cardinality(Vars \ property') = Cardinality(Vars \ property) + 1
      BY <1>3, <3>2, FS_AddElement
    <3> QED BY <1>3, <1>4, <2>1, <3>1, <3>3 DEF SizeAccounts
  <2> QED BY <2>2, <2>3
<1>8. CASE Decide
  <2>1. current_trail' = Append(current_trail, {}) /\ property' = property
        /\ curr_trail_sz' = curr_trail_sz
    BY <1>8 DEF Decide
  <2>2. /\ DOMAIN current_trail' = 1 .. Len(held) + 1
        /\ \A k \in 1 .. Len(held) : current_trail'[k] = current_trail[k]
        /\ current_trail'[Len(held) + 1] = {}
    BY <1>1, <1>2, <2>1
  <2>3. Stored(current_trail') = Stored(current_trail)
    BY <1>1, <2>2 DEF Stored
  <2> QED BY <2>1, <2>3 DEF SizeAccounts, Size
<1>9. ASSUME NEW n \in 0 .. MaxLevel, BacktrackTo(n) PROVE SizeAccounts'
  <2>1. /\ n \in Nat /\ n + 1 < Len(held) /\ property' = property
        /\ current_trail' = SubSeq(current_trail, 1, n + 1)
        /\ curr_trail_sz' = curr_trail_sz - Size(Above(n))
    BY <1>9, SizeAssumption DEF BacktrackTo, notify_backtrack
  <2>2. /\ DOMAIN current_trail' = 1 .. n + 1 /\ current_trail' \in [1 .. n + 1 -> SUBSET Vars]
        /\ \A k \in 1 .. n + 1 : current_trail'[k] = current_trail[k]
    <3>1. /\ current_trail' \in Seq(SUBSET Vars) /\ Len(current_trail') = n + 1
          /\ \A k \in 1 .. n + 1 : current_trail'[k] = current_trail[k]
      BY <1>1, <1>2, <2>1
    <3> QED BY <3>1
  <2>3. /\ Above(n) \in [n + 2 .. Len(held) -> SUBSET Vars]
        /\ \A k \in n + 2 .. Len(held) : Above(n)[k] = current_trail[k]
    BY <1>1, <1>2, <2>1 DEF Above
  <2>4. /\ IsFiniteSet(Stored(current_trail')) /\ Size(current_trail') \in Nat
        /\ IsFiniteSet(Stored(Above(n))) /\ Size(Above(n)) \in Nat
    <3>1. 1 \in Nat /\ n + 1 \in Nat /\ n + 2 \in Nat /\ Len(held) \in Nat
      BY <1>1, <2>1
    <3>2. IsFiniteSet(Stored(current_trail')) /\ Size(current_trail') \in Nat
      BY <2>2, <3>1, StoredFinite
    <3>3. IsFiniteSet(Stored(Above(n))) /\ Size(Above(n)) \in Nat
      BY <2>3, <3>1, StoredFinite
    <3> QED BY <3>2, <3>3
  <2>5. 1 .. Len(held) = (1 .. n + 1) \cup (n + 2 .. Len(held))
    BY <1>1, <2>1
  <2>6. Stored(current_trail) = Stored(current_trail') \cup Stored(Above(n))
    BY <1>1, <2>2, <2>3, <2>5 DEF Stored
  <2>7. Stored(current_trail') \cap Stored(Above(n)) = {}
    <3>1. \A x \in Stored(current_trail') : x[1] \in 1 .. n + 1
      BY <2>2 DEF Stored
    <3>2. \A x \in Stored(Above(n)) : x[1] \in n + 2 .. Len(held)
      BY <2>3 DEF Stored
    <3> QED BY <2>1, <3>1, <3>2
  <2>8. Size(current_trail) = Size(current_trail') + Size(Above(n))
    <3> DEFINE S == Stored(current_trail')
               T == Stored(Above(n))
    <3>1. IsFiniteSet(S) /\ IsFiniteSet(T) /\ Cardinality(S) \in Nat /\ Cardinality(T) \in Nat
          /\ S \cap T = {}
      BY <2>4, <2>7 DEF Size
    <3> HIDE DEF S, T
    <3>2. Cardinality(S \cup T) = Cardinality(S) + Cardinality(T)
      BY <3>1, DisjointUnion
    <3> QED BY <2>6, <3>2 DEF S, T, Size
  <2> QED BY <1>3, <1>4, <2>1, <2>4, <2>8 DEF SizeAccounts
<1>10. CASE AddExternalClause
  BY <1>10 DEF AddExternalClause, SizeAccounts
<1>11. CASE cb_decide \/ UNCHANGED vars
  BY <1>11 DEF cb_decide, oracle, vars, SizeAccounts
<1> QED BY <1>6, <1>7, <1>8, <1>9, <1>10, <1>11 DEF Next

-----------------------------------------------------------------------------
\* The trail the clauses are made from is what the solver has reported and
\* not taken back, on the levels it was reported on: notify_assignment,
\* notify_new_decision_level and notify_backtrack, in any order, with or
\* without literals that are reported again as FIXED.
THEOREM TrailMirrors == Spec => []MirrorsHeld
<1>1. Init => OracleInv
  <2> SUFFICES ASSUME Init PROVE OracleInv
    OBVIOUS
  <2>1. held = <<{}>> /\ current_trail = <<{}>> /\ fixed = {} /\ property = Vars
    BY DEF Init
  <2> QED BY <2>1 DEF OracleInv, MirrorsHeld
<1>2. OracleInv /\ [Next]_vars => OracleInv'
  BY OracleStep
<1>3. OracleInv => MirrorsHeld
  BY DEF OracleInv
<1> QED BY <1>1, <1>2, <1>3, PTL DEF Spec

\* With chronological backtracking, notify_backtrack files under
\* unassigned_vars only variables that are free afterwards, and
\* notify_assignment strikes them out before they are held again.
THEOREM FreedAreFree ==
    ASSUME Chrono
    PROVE  Spec => []UnassignedNotHeld
<1>1. Init => OracleInv /\ FreedInv
  <2> SUFFICES ASSUME Init PROVE OracleInv /\ FreedInv
    OBVIOUS
  <2>1. /\ held = <<{}>> /\ current_trail = <<{}>> /\ fixed = {} /\ property = Vars
        /\ unassigned_vars = [n \in Names |-> {}]
    BY DEF Init
  <2>2. OracleInv
    BY <2>1 DEF OracleInv, MirrorsHeld
  <2>3. FreedInv
    BY <2>1 DEF FreedInv, UnassignedNotHeld
  <2> QED BY <2>2, <2>3
<1>2. OracleInv /\ FreedInv /\ [Next]_vars => (OracleInv /\ FreedInv)'
  BY OracleStep, FreedStep
<1>3. FreedInv => UnassignedNotHeld
  BY DEF FreedInv
<1> QED BY <1>1, <1>2, <1>3, PTL DEF Spec

\* The counter that decides when the trail is evaluated is the size of the
\* trail and the number of completing copies, whatever the order in which
\* notify_assignment and notify_backtrack are called.
THEOREM SizeIsExact == Spec => []SizeAccounts
<1>1. Init => OracleInv /\ SizeAccounts
  <2> SUFFICES ASSUME Init PROVE OracleInv /\ SizeAccounts
    OBVIOUS
  <2>1. /\ held = <<{}>> /\ current_trail = <<{}>> /\ fixed = {} /\ property = Vars
        /\ curr_trail_sz = 0
    BY DEF Init
  <2>2. OracleInv
    BY <2>1 DEF OracleInv, MirrorsHeld
  <2>3. Stored(current_trail) = {} /\ Vars \ property = {}
    BY <2>1 DEF Stored
  <2> QED BY <2>1, <2>2, <2>3, FS_EmptySet DEF SizeAccounts, Size
<1>2. OracleInv /\ SizeAccounts /\ [Next]_vars => (OracleInv /\ SizeAccounts)'
  BY OracleStep, SizeStep
<1> QED BY <1>1, <1>2, PTL DEF Spec
=============================================================================
