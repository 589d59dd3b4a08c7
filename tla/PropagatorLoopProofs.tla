------------------------ MODULE PropagatorLoopProofs ------------------------
(***************************************************************************)
(* For any set of variables, any assumptions and constraint, with and      *)
(* without chronological backtracking and in both builds: the propagator's *)
(* copy of the trail is exact throughout the search.  The two uses that    *)
(* break it (observing a variable already assigned above the root level,   *)
(* and the saved phases of local search) are excluded by hypothesis.       *)
(***************************************************************************)
EXTENDS PropagatorLoop, TrailProofs

\* A step to another place of the loop preserves the invariant when the state
\* it leaves has what that place needs.
LEMMA GotoInv ==
    ASSUME NEW t, NEW p, Goto(t, p), conflict = {},
           p \in Pcs \ {"phases", "conflict"}, Sound(t),
           p # "idle" => Synced(t),
           p \in Callbacks => AllTold(t),
           p \in UnitPcs \cup {"start"} => Len(t.control) = 0
    PROVE  LoopInv'
BY DEF Goto, LoopInv, Level

\* What a place of the loop other than 'analyze' starts from.
LEMMA InvFacts ==
    ASSUME LoopInv
    PROVE  /\ Sound(st) /\ st \in SearchState
           /\ pc # "idle" => Synced(st)
           /\ pc \in Callbacks => AllTold(st)
           /\ pc \in UnitPcs \cup {"start"} => Len(st.control) = 0
           /\ pc # "conflict" => conflict = {}
           /\ pc # "phases"
           /\ Len(st.control) \in Nat
BY StateFacts DEF LoopInv, Level, Sound

\* Literals that are false stay false when the true literals do.
LEMMA FalseLitsSame ==
    ASSUME NEW s, NEW t, TrueLits(t) = TrueLits(s)
    PROVE  FalseLits(t) = FalseLits(s) /\ Unassigned(t) = Unassigned(s)
BY DEF FalseLits, Unassigned

\* On the root level only FIXED literals are true.
LEMMA RootTrueFixed ==
    ASSUME NEW s, Sound(s), NEW y \in TrueLits(s), s.lev[vidx(y)] <= 0
    PROVE  y \in s.fixed
<1>1. s \in SearchState /\ LevelsExist(s)
  BY DEF Sound
<1> SUFFICES ASSUME y \notin s.fixed PROVE FALSE
  OBVIOUS
<1>2. PICK i \in 1 .. Len(s.trail) : s.trail[i] = y
  BY <1>1, StateFacts DEF TrueLits, OnTrail
<1>3. vidx(y) \in Var /\ s.lev[vidx(y)] \in Nat
  BY <1>1, <1>2, StateFacts
<1>4. s.lev[vidx(y)] = 0
  BY <1>3
<1> QED BY <1>1, <1>2, <1>4 DEF LevelsExist

\* Literals that are not FIXED either way are unassigned on the root level.
LEMMA NonRootUnassigned ==
    ASSUME NEW s, Sound(s), NEW x \in NonRoot(s, Lit)
    PROVE  x \in Unassigned(Backtrack(s, 0))
<1> DEFINE t == Backtrack(s, 0)
<1>1. x \in Lit /\ x \notin s.fixed /\ -x \notin s.fixed
  BY DEF NonRoot
<1>2. Len(s.control) \in Nat
  BY StateFacts DEF Sound
<1>3. TrueLits(t) = {y \in TrueLits(s) : s.lev[vidx(y)] <= 0}
  BY <1>2, BacktrackSound
<1> HIDE DEF t
<1>4. \A y \in TrueLits(t) : y \in s.fixed
  BY <1>3, RootTrueFixed
<1> QED BY <1>1, <1>4 DEF Unassigned, FalseLits, t

\* Backtracking below the level of a false literal leaves it unassigned.
LEMMA HigherUnassigned ==
    ASSUME NEW s, Sound(s), Synced(s), NEW n \in 0 .. Len(s.control),
           NEW x \in FalseLits(s), s.lev[vidx(x)] > n
    PROVE  x \in Unassigned(Backtrack(s, n))
<1> DEFINE t == Backtrack(s, n)
<1>1. x \in Lit /\ -x \in TrueLits(s) /\ vidx(-x) = vidx(x) /\ -(-x) = x /\ vidx(x) \in Var
  BY LitFacts DEF FalseLits
<1>2. s \in SearchState /\ Consistent(s)
  BY DEF Sound
<1>3. x \notin TrueLits(s)
  BY <1>1, <1>2 DEF Consistent
<1>4. TrueLits(t) = {y \in TrueLits(s) : s.lev[vidx(y)] <= n}
  BY BacktrackSound
<1> HIDE DEF t
<1>5. s.lev[vidx(x)] \in Nat /\ n \in Nat
  BY <1>1, <1>2, StateFacts
<1>6. -x \notin TrueLits(t)
  BY <1>1, <1>4, <1>5
<1>7. x \notin TrueLits(t)
  BY <1>3, <1>4
<1> QED BY <1>1, <1>6, <1>7 DEF Unassigned, FalseLits, t

\* Backtracking to the highest level of falsified literals keeps them false.
LEMMA FalsifiedKept ==
    ASSUME NEW s, Sound(s), Synced(s), NEW D \in SUBSET FalseLits(s)
    PROVE  D \subseteq FalseLits(Backtrack(s, MaxLevel(s, D)))
<1> DEFINE n == MaxLevel(s, D)
           t == Backtrack(s, n)
<1>1. n \in 0 .. Len(s.control) /\ \A x \in D : s.lev[vidx(x)] <= n
  BY MaxLevelFacts
<1> HIDE DEF n
<1>2. TrueLits(t) = {y \in TrueLits(s) : s.lev[vidx(y)] <= n}
  BY <1>1, BacktrackSound
<1> HIDE DEF t
<1>3. ASSUME NEW x \in D PROVE x \in FalseLits(t)
  <2>1. x \in Lit /\ -x \in TrueLits(s) /\ vidx(-x) = vidx(x)
    BY LitFacts DEF FalseLits
  <2>2. -x \in TrueLits(t)
    BY <2>1, <1>1, <1>2
  <2> QED BY <2>1, <2>2 DEF FalseLits
<1> QED BY <1>3 DEF t, n

\* API calls between two calls of 'solve', and add_observed_var in a callback.
LEMMA ApiInv ==
    ASSUME LoopInv, ~ObserveAssigned,
           \/ \E v \in Var : AddObservedVar(v) \/ RemoveObservedVar(v)
           \/ Reconnect \/ Solve \/ \E x \in Lit : AddOriginalUnit(x)
           \/ \E p \in {"idle", "unsat"} : AddOriginalClause(p)
    PROVE  LoopInv'
<1>1. /\ Sound(st) /\ st \in SearchState /\ Len(st.control) \in Nat
      /\ pc # "idle" => Synced(st)
      /\ pc \in Callbacks => AllTold(st)
      /\ pc \in UnitPcs \cup {"start"} => Len(st.control) = 0
      /\ pc # "conflict" => conflict = {}
  BY InvFacts
<1>2. Callbacks \cup {"idle"} \subseteq Pcs \ {"phases", "conflict"} /\ "idle" \notin Callbacks
      /\ \A p \in Callbacks \cup {"idle"} : p \notin UnitPcs \cup {"start"} /\ p # "conflict"
  BY DEF Callbacks, Pcs, BcpPcs, UnitPcs
<1>3. LET t == Backtrack(st, 0)
      IN  Sound(t) /\ Synced(t) /\ Len(t.control) = 0
  BY <1>1, BacktrackSound
<1>4. ASSUME NEW v \in Var, AddObservedVar(v) PROVE LoopInv'
  <2> DEFINE known == {x \in st.fixed : vidx(x) = v}
             t == [st EXCEPT !.obs = @ \cup {v}, !.view[1] = @ \cup known]
  <2>1. /\ pc \in Callbacks \cup {"idle"} /\ Goto(t, pc)
        /\ pc # "idle" => ~(st.lev[v] > 0)
    BY <1>4 DEF AddObservedVar
  <2>2. pc # "idle" => st.lev[v] = 0
    BY <2>1, <1>1, StateFacts
  <2> HIDE DEF t
  <2>3. Sound(t)
    BY <1>1, ObserveSound DEF t
  <2>4. pc # "idle" => Synced(t)
    BY <1>1, <2>2, ObserveSound DEF t
  <2>5. pc \in Callbacks => AllTold(t)
    BY <1>1, ObserveSound DEF t
  <2> QED BY <2>1, <2>3, <2>4, <2>5, <1>1, <1>2, GotoInv
<1>5. ASSUME NEW v \in Var, RemoveObservedVar(v) PROVE LoopInv'
  <2> DEFINE b == IF \E x \in st.fixed : vidx(x) = v THEN st ELSE Backtrack(st, 0)
             t == [b EXCEPT !.obs = @ \ {v}]
  <2>1. pc = "idle" /\ Goto(t, "idle")
    BY <1>5 DEF RemoveObservedVar
  <2>2. Sound(b)
    BY <1>1, <1>3
  <2> HIDE DEF b
  <2>3. Sound(t)
    <3>1. t = [b EXCEPT !.obs = b.obs \ {v}]
      BY <2>2 DEF Sound, SearchState
    <3> QED BY <3>1, <2>2, UnobserveSound
  <2> HIDE DEF t
  <2> QED BY <2>1, <2>3, <1>1, <1>2, GotoInv
<1>6. ASSUME Reconnect PROVE LoopInv'
  <2> DEFINE b == IF st.obs \subseteq {vidx(x) : x \in st.fixed} THEN st
                  ELSE Backtrack(st, 0)
             t == [b EXCEPT !.obs = {}, !.notified = 0, !.view = <<{}>>]
  <2>1. pc = "idle" /\ Goto(t, "idle")
    BY <1>6 DEF Reconnect
  <2>2. Sound(b)
    BY <1>1, <1>3
  <2> HIDE DEF b
  <2>3. Sound(t)
    BY <2>2, FreshSound
  <2> HIDE DEF t
  <2> QED BY <2>1, <2>3, <1>1, <1>2, GotoInv
<1>7. ASSUME Solve PROVE LoopInv'
  <2> DEFINE t == Backtrack(st, 0)
  <2>1. pc = "idle" /\ Goto(t, "start")
    BY <1>7 DEF Solve
  <2>2. "start" \in Pcs \ {"phases", "conflict"} /\ "start" \notin Callbacks
    BY DEF Pcs, BcpPcs, Callbacks
  <2>3. Sound(t) /\ Synced(t) /\ Len(t.control) = 0
    BY <1>3
  <2> HIDE DEF t
  <2> QED BY <2>1, <2>2, <2>3, <1>1, GotoInv
<1>9. ASSUME NEW p \in {"idle", "unsat"}, AddOriginalClause(p) PROVE LoopInv'
  <2> DEFINE t == Backtrack(st, 0)
  <2>1. pc = "idle" /\ Goto(t, p)
    BY <1>9 DEF AddOriginalClause
  <2>2. p \in Pcs \ {"phases", "conflict"} /\ p \notin Callbacks
        /\ p \notin UnitPcs \cup {"start"}
    BY DEF Pcs, BcpPcs, Callbacks, UnitPcs
  <2>3. Sound(t) /\ Synced(t) /\ Len(t.control) = 0
    BY <1>3
  <2> HIDE DEF t
  <2> QED BY <2>1, <2>2, <2>3, <1>1, GotoInv
<1>8. ASSUME NEW x \in Lit, AddOriginalUnit(x) PROVE LoopInv'
  <2> DEFINE b == Backtrack(st, 0)
             t == SearchAssign(b, x, 0)
  <2>1. pc = "idle" /\ x \in Unassigned(b) /\ Goto(t, "unitAdd")
    BY <1>8 DEF AddOriginalUnit
  <2>2. "unitAdd" \in Pcs \ {"phases", "conflict"} /\ "unitAdd" \notin Callbacks
    BY DEF Pcs, BcpPcs, UnitPcs, Callbacks
  <2>3. Sound(b) /\ Synced(b) /\ Len(b.control) = 0 /\ 0 \in 0 .. Len(b.control)
    BY <1>3
  <2> HIDE DEF b
  <2>4. Sound(t) /\ Synced(t) /\ Len(t.control) = 0
    BY <2>1, <2>3, SearchAssignSound
  <2> HIDE DEF t
  <2> QED BY <2>1, <2>2, <2>4, <1>1, GotoInv
<1> QED BY <1>4, <1>5, <1>6, <1>7, <1>8, <1>9

\* 'propagate' and what is done once it finds no conflict.
LEMMA BcpInv ==
    ASSUME LoopInv,
           \/ \E x \in Lit, m \in 0 .. Level(st) : BcpAssign(x, m)
           \/ \E C \in SUBSET FalseLits(st) : BcpConflict(C)
           \/ RootConflict \/ BcpDone \/ BcpPropDone \/ BcpClauseDone \/ UnitFalsDone
           \/ UnitAddDone \/ UnitCheckDone \/ StartDone
    PROVE  LoopInv'
<1>1. /\ Sound(st) /\ st \in SearchState /\ Len(st.control) \in Nat
      /\ pc # "idle" => Synced(st)
      /\ pc \in Callbacks => AllTold(st)
      /\ pc \in UnitPcs \cup {"start"} => Len(st.control) = 0
      /\ pc # "conflict" => conflict = {}
      /\ pc # "phases"
  BY InvFacts
<1>2. /\ BcpPcs \cap (Callbacks \cup {"idle", "conflict"}) = {}
      /\ BcpPcs \subseteq Pcs \ {"conflict"}
      /\ UnitPcs \cup {"start"} \subseteq BcpPcs
  BY DEF Callbacks, Pcs, BcpPcs, UnitPcs
<1>3. LET t == NotifyAssignments(st)
      IN  Synced(st) => Sound(t) /\ Synced(t) /\ AllTold(t)
  BY <1>1, NotifySound
<1>4. ASSUME NEW x \in Lit, NEW m \in 0 .. Level(st), BcpAssign(x, m) PROVE LoopInv'
  <2> DEFINE l == ImpliedLevel(st, m)
             t == SearchAssign(st, x, l)
  <2>1. pc \in BcpPcs /\ x \in Unassigned(st) /\ Goto(t, pc)
    BY <1>4 DEF BcpAssign
  <2>2. l \in 0 .. Len(st.control)
    BY <1>1 DEF ImpliedLevel, Level
  <2> HIDE DEF l
  <2>3. Synced(st)
    BY <2>1, <1>1, <1>2
  <2>4. Sound(t) /\ Synced(t) /\ t.control = st.control
    BY <2>1, <2>2, <2>3, <1>1, SearchAssignSound
  <2> HIDE DEF t
  <2> QED BY <2>1, <2>4, <1>1, <1>2, GotoInv
<1>5. ASSUME NEW C \in SUBSET FalseLits(st), BcpConflict(C) PROVE LoopInv'
  <2>1. /\ pc' = "conflict" /\ st' = st /\ conflict' = C /\ pc # "idle"
        /\ C \in FalsifiedClauses(st)
    BY <1>5 DEF BcpConflict
  <2>2. C # {}
    <3>1. Cardinality(C) >= 2
      BY <2>1 DEF FalsifiedClauses
    <3> QED BY <3>1, FS_EmptySet
  <2>3. "conflict" \in Pcs \ {"phases"} /\ "conflict" \notin Callbacks \cup UnitPcs \cup {"start"}
    BY DEF Pcs, BcpPcs, UnitPcs, Callbacks
  <2> QED BY <2>1, <2>2, <2>3, <1>1 DEF LoopInv
<1>6. ASSUME RootConflict PROVE LoopInv'
  <2>1. pc \in BcpPcs /\ Goto(st, "unsat")
    BY <1>6, <1>2 DEF RootConflict
  <2>2. "unsat" \in Pcs \ {"phases", "conflict"} /\ "unsat" \notin Callbacks \cup UnitPcs \cup {"start"}
    BY DEF Pcs, BcpPcs, UnitPcs, Callbacks
  <2> QED BY <2>1, <2>2, <1>1, <1>2, GotoInv
<1>7. ASSUME BcpDone \/ BcpPropDone \/ BcpClauseDone \/ UnitCheckDone PROVE LoopInv'
  <2> DEFINE t == NotifyAssignments(st)
  <2>1. pc \in BcpPcs /\ \E p \in {"ext", "clauses", "check", "bcp"} : Goto(t, p)
    BY <1>7 DEF BcpDone, BcpPropDone, BcpClauseDone, UnitCheckDone, BcpPcs, UnitPcs
  <2>2. PICK p \in {"ext", "clauses", "check", "bcp"} : Goto(t, p)
    BY <2>1
  <2>3. /\ {"ext", "clauses", "check", "bcp"} \subseteq Pcs \ {"phases", "conflict"}
        /\ {"ext", "clauses", "check", "bcp"} \cap (UnitPcs \cup {"start"}) = {}
    BY DEF Pcs, BcpPcs, UnitPcs, Callbacks
  <2>4. Sound(t) /\ Synced(t) /\ AllTold(t)
    BY <2>1, <1>1, <1>2, <1>3
  <2> HIDE DEF t
  <2> QED BY <2>1, <2>2, <2>3, <2>4, <1>1, <1>2, GotoInv
<1>8. ASSUME UnitFalsDone \/ UnitAddDone \/ StartDone PROVE LoopInv'
  <2>1. /\ pc \in UnitPcs \cup {"start"}
        /\ \E p \in {"clauses", "idle", "bcp"} : Goto(st, p)
    BY <1>8 DEF UnitFalsDone, UnitAddDone, StartDone, UnitPcs
  <2>2. PICK p \in {"clauses", "idle", "bcp"} : Goto(st, p)
    BY <2>1
  <2>3. /\ {"clauses", "idle", "bcp"} \subseteq Pcs \ {"phases", "conflict"}
        /\ {"clauses", "idle", "bcp"} \cap (UnitPcs \cup {"start"}) = {}
    BY DEF Pcs, BcpPcs, UnitPcs, Callbacks
  <2>4. Synced(st) /\ AllTold(st)
    BY <2>1, <1>1, RootSynced
  <2> QED BY <2>1, <2>2, <2>3, <2>4, <1>1, <1>2, GotoInv
<1> QED BY <1>4, <1>5, <1>6, <1>7, <1>8
\* 'decide', 'cb_propagate', 'external_check_solution' and the other steps of
\* the loop that start in a callback.
LEMMA CallbackInv ==
    ASSUME LoopInv, ~SavedPhases,
           \/ LocalSearchModel \/ PhasesDone \/ PhasesFail
           \/ DecideHolds \/ DecideFails \/ \E x \in Lit : DecideOn(x) \/ CompactFixed(x)
           \/ \E x \in Lit, m \in 0 .. Level(st) : ExternalPropagate(x, m)
           \/ NothingToPropagate \/ ClauseEmpty \/ NoMoreClauses
           \/ CheckApproves \/ CheckRejects \/ CheckAgain
           \/ \E n \in 0 .. Level(st) : Restart(n)
           \/ Inprocess \/ GiveUp
    PROVE  LoopInv'
<1>1. /\ Sound(st) /\ st \in SearchState /\ Len(st.control) \in Nat
      /\ pc # "idle" => Synced(st)
      /\ pc \in Callbacks => AllTold(st)
      /\ pc # "conflict" => conflict = {}
      /\ pc # "phases"
  BY InvFacts
<1>2. /\ Callbacks \cup {"bcp", "bcpProp", "idle", "unsat"} \subseteq Pcs \ {"phases", "conflict"}
      /\ (Callbacks \cup {"bcp", "bcpProp", "idle", "unsat"}) \cap (UnitPcs \cup {"start"}) = {}
      /\ {"bcp", "bcpProp", "idle", "unsat"} \cap Callbacks = {}
      /\ Callbacks = {"ext", "clauses", "check", "checkClauses", "loop"}
  BY DEF Callbacks, Pcs, BcpPcs, UnitPcs
<1>3. ASSUME pc \in Callbacks PROVE Synced(st) /\ AllTold(st) /\ conflict = {}
  BY <1>1, <1>2, <1>3
<1>4. ~LocalSearchModel /\ ~PhasesDone /\ ~PhasesFail
  BY <1>1 DEF LocalSearchModel, PhasesDone, PhasesFail
<1>5. ASSUME DecideHolds PROVE LoopInv'
  <2> DEFINE t == NewLevel(st, 0)
  <2>1. pc = "loop" /\ Goto(t, "bcp")
    BY <1>1, <1>5 DEF DecideHolds, Deciding, DecidePc
  <2>2. Sound(t) /\ Synced(t)
    BY <2>1, <1>1, <1>2, <1>3, NewLevelSound
  <2> HIDE DEF t
  <2> QED BY <2>1, <2>2, <1>2, <1>3, GotoInv
<1>6. ASSUME NEW x \in Lit, DecideOn(x) PROVE LoopInv'
  <2> DEFINE b == NewLevel(st, x)
             l == Level(st) + 1
             t == SearchAssign(b, x, l)
  <2>1. pc = "loop" /\ x \in Unassigned(st) /\ Goto(t, "bcp")
    BY <1>1, <1>6 DEF DecideOn, Deciding, DecidePc, SearchAssumeDecision
  <2>2. /\ Sound(b) /\ Synced(b) /\ Len(b.control) = Len(st.control) + 1
        /\ TrueLits(b) = TrueLits(st)
    BY <2>1, <1>1, <1>2, <1>3, NewLevelSound
  <2> HIDE DEF b
  <2>3. x \in Unassigned(b) /\ l \in 0 .. Len(b.control)
    BY <2>1, <2>2, <1>1, FalseLitsSame DEF Level
  <2> HIDE DEF l
  <2>4. Sound(t) /\ Synced(t)
    BY <2>2, <2>3, SearchAssignSound
  <2> HIDE DEF t
  <2> QED BY <2>1, <2>4, <1>2, <1>3, GotoInv
<1>7. ASSUME NEW x \in Lit, CompactFixed(x) PROVE LoopInv'
  <2> DEFINE t == Compact(st, x)
  <2>1. pc = "loop" /\ Len(st.control) = 0 /\ x \in st.fixed /\ Goto(t, "bcp")
    BY <1>7 DEF CompactFixed, Level
  <2>2. Sound(t) /\ Len(t.control) = 0
    BY <2>1, <1>1, CompactSound
  <2> HIDE DEF t
  <2>3. Synced(t)
    BY <2>2, RootSynced
  <2> QED BY <2>1, <2>2, <2>3, <1>2, <1>3, GotoInv
<1>8. ASSUME NEW x \in Lit, NEW m \in 0 .. Level(st), ExternalPropagate(x, m) PROVE LoopInv'
  <2> DEFINE eager == Level(st) <= PseudoLevels
             l == IF ~eager THEN Level(st)
                  ELSE IF m = 0 THEN 0 ELSE ImpliedLevel(st, m)
             b == SearchAssign(st, x, l)
             t == NotifyAssignments(b)
             u == IF eager \/ l = 0 THEN t ELSE [t EXCEPT !.ext = @ \cup {vidx(x)}]
  <2>1. pc = "ext" /\ x \in Unassigned(st) /\ Goto(u, "bcpProp")
    BY <1>8 DEF ExternalPropagate
  <2>2. l \in 0 .. Len(st.control)
    BY <1>1 DEF ImpliedLevel, Level
  <2> HIDE DEF l, eager
  <2>3. Sound(b) /\ Synced(b)
    BY <2>1, <2>2, <1>1, <1>2, <1>3, SearchAssignSound
  <2> HIDE DEF b
  <2>4. Sound(t) /\ Synced(t)
    BY <2>3, NotifySound
  <2> HIDE DEF t
  <2>5. Sound(u) /\ Synced(u)
    <3> DEFINE X == t.ext \cup {vidx(x)}
    <3>1. t \in SearchState /\ X \in SUBSET Var
      BY <2>4, LitFacts, StateFacts DEF Sound
    <3>2. [t EXCEPT !.ext = @ \cup {vidx(x)}] = [t EXCEPT !.ext = X]
      BY <3>1 DEF SearchState
    <3> HIDE DEF X
    <3>3. Sound([t EXCEPT !.ext = X]) /\ Synced([t EXCEPT !.ext = X])
      BY <2>4, <3>1, ExternalReasonSound
    <3> QED BY <2>4, <3>2, <3>3
  <2> HIDE DEF u
  <2> QED BY <2>1, <2>5, <1>2, <1>3, GotoInv
<1>9. ASSUME DecideFails \/ NothingToPropagate \/ ClauseEmpty \/ NoMoreClauses
             \/ CheckAgain \/ GiveUp
      PROVE  LoopInv'
  <2>1. /\ pc \in Callbacks
        /\ \E p \in Callbacks \cup {"bcp", "idle", "unsat"} : Goto(st, p)
    BY <1>1, <1>9, <1>2 DEF DecideFails, Deciding, NothingToPropagate, ClauseEmpty, ClausePcs,
          NoMoreClauses, CheckAgain, GiveUp
  <2>2. PICK p \in Callbacks \cup {"bcp", "idle", "unsat"} : Goto(st, p)
    BY <2>1
  <2> QED BY <2>1, <2>2, <1>1, <1>2, <1>3, GotoInv
<1>10. ASSUME CheckApproves \/ CheckRejects PROVE LoopInv'
  <2> DEFINE t == NotifyAssignments(st)
  <2>1. pc = "check" /\ \E p \in {"idle", "checkClauses"} : Goto(t, p)
    BY <1>10 DEF CheckApproves, CheckRejects
  <2>2. PICK p \in {"idle", "checkClauses"} : Goto(t, p)
    BY <2>1
  <2>3. Sound(t) /\ Synced(t) /\ AllTold(t)
    BY <2>1, <1>1, <1>2, <1>3, NotifySound
  <2> HIDE DEF t
  <2> QED BY <2>1, <2>2, <2>3, <1>2, <1>3, GotoInv
<1>11. ASSUME NEW n \in 0 .. Level(st), Restart(n) \/ (Inprocess /\ n = 0) PROVE LoopInv'
  <2> DEFINE t == Backtrack(st, n)
  <2>1. pc = "loop" /\ Goto(t, "bcp")
    BY <1>11 DEF Restart, Inprocess
  <2>2. Sound(t) /\ Synced(t)
    BY <2>1, <1>1, <1>2, <1>3, BacktrackSound DEF Level
  <2> HIDE DEF t
  <2> QED BY <2>1, <2>2, <1>2, <1>3, GotoInv
<1>12. 0 \in 0 .. Level(st)
  BY <1>1 DEF Level
<1> QED BY <1>4, <1>5, <1>6, <1>7, <1>8, <1>9, <1>10, <1>11, <1>12

\* 'handle_external_clause' on reasons and external clauses.
LEMMA ClauseInv ==
    ASSUME LoopInv,
           \/ \E x \in Lit : ClauseUnit(x)
           \/ \E C \in SUBSET FalseLits(st) : ClauseFalsified(C)
           \/ \E x \in Lit, C \in SUBSET FalseLits(st) : ClausePropagates(x, C)
    PROVE  LoopInv'
<1>1. /\ Sound(st) /\ st \in SearchState /\ Len(st.control) \in Nat
      /\ pc # "idle" => Synced(st)
      /\ pc # "conflict" => conflict = {}
  BY InvFacts
<1>2. ASSUME NEW x \in Lit, ClauseUnit(x) PROVE LoopInv'
  <2> DEFINE b == Backtrack(st, 0)
             t == SearchAssign(b, x, 0)
  <2>1. pc \in ClausePcs /\ x \in NonRoot(st, Lit) /\ Goto(t, UnitPc)
    BY <1>2 DEF ClauseUnit
  <2>2. pc # "conflict" /\ UnitPc \in UnitPcs
    BY <2>1 DEF ClausePcs, UnitPc, UnitPcs
  <2>3. /\ UnitPcs \subseteq Pcs \ {"phases", "conflict"}
        /\ UnitPcs \cap Callbacks = {}
    BY DEF Pcs, BcpPcs, UnitPcs, Callbacks
  <2>4. Sound(b) /\ Synced(b) /\ Len(b.control) = 0 /\ 0 \in 0 .. Len(b.control)
    BY <1>1, BacktrackSound
  <2>5. x \in Unassigned(b)
    BY <2>1, <1>1, NonRootUnassigned
  <2> HIDE DEF b
  <2>6. Sound(t) /\ Synced(t) /\ Len(t.control) = 0
    BY <2>4, <2>5, SearchAssignSound
  <2> HIDE DEF t
  <2> QED BY <2>1, <2>2, <2>3, <2>6, <1>1, GotoInv
<1>3. ASSUME NEW D \in SUBSET FalseLits(st), ClauseFalsified(D) PROVE LoopInv'
  <2> DEFINE b == Backtrack(st, MaxLevel(st, D))
  <2>1. /\ pc \in ClausePcs /\ D \in FalsifiedClauses(st)
        /\ conflict' = D /\ pc' = "conflict" /\ (st' = b \/ st' = st)
    BY <1>3 DEF ClauseFalsified
  <2>2. Synced(st)
    BY <2>1, <1>1 DEF ClausePcs
  <2>3. D # {}
    <3>1. Cardinality(D) >= 2
      BY <2>1 DEF FalsifiedClauses
    <3> QED BY <3>1, FS_EmptySet
  <2>4. D \subseteq FalseLits(b)
    BY <2>2, <1>1, FalsifiedKept
  <2>5. Sound(b) /\ Synced(b)
    <3>1. MaxLevel(st, D) \in 0 .. Len(st.control)
      BY <1>1, MaxLevelFacts
    <3> QED BY <3>1, <2>2, <1>1, BacktrackSound
  <2>6. "conflict" \in Pcs \ {"phases"} /\ "conflict" \notin Callbacks \cup UnitPcs \cup {"start"}
    BY DEF Pcs, BcpPcs, UnitPcs, Callbacks
  <2> HIDE DEF b
  <2> QED BY <2>1, <2>2, <2>3, <2>4, <2>5, <2>6, <1>1 DEF LoopInv
<1>4. ASSUME NEW x \in Lit, NEW D \in SUBSET FalseLits(st), ClausePropagates(x, D)
      PROVE  LoopInv'
  <2> DEFINE m == MaxLevel(st, D)
             b == IF Chrono THEN st ELSE Backtrack(st, m)
             r == SearchAssign(b, x, m)
             t == NotifyAssignments(r)
  <2>1. pc = "clauses" /\ x \in Unassigned(st) /\ Goto(t, "bcpClause")
    BY <1>4 DEF ClausePropagates
  <2>2. "bcpClause" \in Pcs \ {"phases", "conflict"}
        /\ "bcpClause" \notin Callbacks \cup UnitPcs \cup {"start"}
    BY DEF Pcs, BcpPcs, UnitPcs, Callbacks
  <2>3. m \in 0 .. Len(st.control)
    BY <1>1, MaxLevelFacts
  <2> HIDE DEF m
  <2>4. LET c == Backtrack(st, m)
        IN  /\ Sound(c) /\ Synced(c) /\ Len(c.control) = m
            /\ TrueLits(c) = {y \in TrueLits(st) : st.lev[vidx(y)] <= m}
    BY <2>1, <2>3, <1>1, BacktrackSound
  <2>5. Sound(b) /\ Synced(b) /\ m \in 0 .. Len(b.control) /\ TrueLits(b) \subseteq TrueLits(st)
    <3>1. CASE Chrono
      BY <3>1, <2>1, <2>3, <1>1
    <3>2. CASE ~Chrono
      BY <3>2, <2>3, <2>4
    <3> QED BY <3>1, <3>2
  <2> HIDE DEF b
  <2>6. x \in Unassigned(b)
    BY <2>1, <2>5 DEF Unassigned, FalseLits
  <2>7. Sound(r) /\ Synced(r)
    BY <2>5, <2>6, SearchAssignSound
  <2> HIDE DEF r
  <2>8. Sound(t) /\ Synced(t)
    BY <2>7, NotifySound
  <2> HIDE DEF t
  <2> QED BY <2>1, <2>2, <2>8, <1>1, GotoInv
<1> QED BY <1>2, <1>3, <1>4

\* 'analyze': after the explanation the state is backtracked below the level
\* of the literal that the conflict or the learned clause drives.
LEMMA AnalyzeInv ==
    ASSUME LoopInv, Analyze
    PROVE  LoopInv'
<1>1. /\ Sound(st) /\ st \in SearchState /\ Len(st.control) \in Nat
      /\ pc = "conflict" /\ Synced(st)
      /\ conflict \subseteq FalseLits(st)
  BY InvFacts DEF Analyze, LoopInv
<1>0. PICK E \in SUBSET st.ext : \E nl \in Lowered(st, E, Chrono) :
          \/ AnalyzeRoot(E, nl)
          \/ \E x \in conflict : AnalyzeForced(E, nl, x)
          \/ \E x \in Lit, jump, n \in 0 .. Level(st) : AnalyzeLearn(E, nl, x, jump, n)
  BY DEF Analyze
<1>2. PICK nl \in Lowered(st, E, Chrono) :
          \/ AnalyzeRoot(E, nl)
          \/ \E x \in conflict : AnalyzeForced(E, nl, x)
          \/ \E x \in Lit, jump, n \in 0 .. Level(st) : AnalyzeLearn(E, nl, x, jump, n)
  BY <1>0
<1> DEFINE t == Explain(st, E, nl)
<1>3. /\ Sound(t) /\ Synced(t) /\ t.control = st.control /\ TrueLits(t) = TrueLits(st)
  BY <1>1, ExplainSound
<1> HIDE DEF t
<1>4. t \in SearchState /\ conflict \in SUBSET FalseLits(t) /\ Len(t.control) \in Nat
  BY <1>1, <1>3, FalseLitsSame DEF Sound
<1>5. ASSUME NEW u, NEW p \in {"bcp", "unsat"}, Resolved(u, p), Sound(u), Synced(u)
      PROVE  LoopInv'
  <2>1. /\ {"bcp", "unsat"} \subseteq Pcs \ {"phases", "conflict"}
        /\ {"bcp", "unsat"} \cap (Callbacks \cup UnitPcs \cup {"start"}) = {}
    BY DEF Pcs, BcpPcs, UnitPcs, Callbacks
  <2> QED BY <2>1, <1>5 DEF Resolved, LoopInv
<1>6. ASSUME NEW u, Sound(u), Synced(u), NEW x \in Unassigned(u), NEW l \in 0 .. Len(u.control),
             Resolved(NotifyAssignments(SearchAssign(u, x, l)), "bcp")
      PROVE  LoopInv'
  <2> DEFINE r == SearchAssign(u, x, l)
             w == NotifyAssignments(r)
  <2>1. Sound(r) /\ Synced(r)
    BY <1>6, SearchAssignSound
  <2> HIDE DEF r
  <2>2. Sound(w) /\ Synced(w)
    BY <2>1, NotifySound
  <2>3. Resolved(w, "bcp")
    BY <1>6 DEF r
  <2> HIDE DEF w
  <2> QED BY <2>2, <2>3, <1>5
<1>7. CASE AnalyzeRoot(E, nl)
  <2> DEFINE u == Backtrack(t, 0)
  <2>1. Resolved(u, "unsat")
    BY <1>7 DEF AnalyzeRoot, t
  <2>2. Sound(u) /\ Synced(u)
    BY <1>3, <1>4, BacktrackSound
  <2> HIDE DEF u
  <2> QED BY <2>1, <2>2, <1>5
<1>8. ASSUME NEW x \in conflict, AnalyzeForced(E, nl, x) PROVE LoopInv'
  <2> DEFINE rest == MaxLevel(t, conflict \ {x})
             n == t.lev[vidx(x)] - 1
             u == Backtrack(t, n)
             l == ImpliedLevel(u, rest)
  <2>1. t.lev[vidx(x)] > rest /\ Resolved(NotifyAssignments(SearchAssign(u, x, l)), "bcp")
    BY <1>8 DEF AnalyzeForced, t
  <2>2. rest \in 0 .. Len(t.control)
    <3>1. conflict \ {x} \in SUBSET FalseLits(t)
      BY <1>4
    <3> QED BY <3>1, <1>3, MaxLevelFacts
  <2>3. t.lev[vidx(x)] \in Nat /\ t.lev[vidx(x)] <= Len(t.control)
    <3>1. /\ t.lev[vidx(x)] \in Nat /\ t.lev[vidx(x)] <= MaxLevel(t, conflict)
          /\ MaxLevel(t, conflict) \in 0 .. Len(t.control)
      BY <1>3, <1>4, MaxLevelFacts
    <3> QED BY <3>1, <1>4
  <2> HIDE DEF rest
  <2>4. n \in 0 .. Len(t.control) /\ rest \in 0 .. n /\ t.lev[vidx(x)] > n
    BY <2>1, <2>2, <2>3, <1>4
  <2> HIDE DEF n
  <2>5. Sound(u) /\ Synced(u) /\ Len(u.control) = n
    BY <2>4, <1>3, BacktrackSound
  <2>6. x \in Unassigned(u)
    BY <2>4, <1>3, <1>4, HigherUnassigned
  <2> HIDE DEF u
  <2>7. l \in 0 .. Len(u.control)
    BY <2>4, <2>5 DEF ImpliedLevel, Level
  <2> HIDE DEF l
  <2> QED BY <2>1, <2>5, <2>6, <2>7, <1>6
<1>9. ASSUME NEW x \in Lit, NEW jump \in 0 .. Level(st), NEW n \in 0 .. Level(st),
             AnalyzeLearn(E, nl, x, jump, n)
      PROVE  LoopInv'
  <2> DEFINE top == MaxLevel(t, conflict)
             b == Backtrack(t, top)
             u == Backtrack(b, n)
             l == IF jump = 0 THEN 0 ELSE ImpliedLevel(u, jump)
  <2>1. /\ -x \in OnTrail(t) /\ t.lev[vidx(x)] = top /\ jump <= n /\ n < top
        /\ Resolved(NotifyAssignments(SearchAssign(u, x, l)), "bcp")
    BY <1>9 DEF AnalyzeLearn, t
  <2>2. top \in 0 .. Len(t.control)
    BY <1>3, <1>4, MaxLevelFacts
  <2> HIDE DEF top
  <2>3. /\ Sound(b) /\ Synced(b) /\ Len(b.control) = top
        /\ TrueLits(b) = {y \in TrueLits(t) : t.lev[vidx(y)] <= top}
        /\ \A y \in TrueLits(b) : b.lev[vidx(y)] = t.lev[vidx(y)]
    BY <2>2, <1>3, BacktrackSound
  <2> HIDE DEF b
  <2>4. n \in 0 .. Len(b.control) /\ jump \in 0 .. n /\ top > n
    BY <2>1, <2>2, <2>3, <1>1, <1>4 DEF Level
  <2>5. -x \in TrueLits(b) /\ b.lev[vidx(x)] = top
    <3>1. vidx(-x) = vidx(x)
      BY LitFacts
    <3>2. -x \in TrueLits(t) /\ t.lev[vidx(-x)] <= top
      BY <3>1, <2>1, <2>2, <1>4 DEF TrueLits
    <3> QED BY <3>1, <3>2, <2>1, <2>3
  <2>6. x \in FalseLits(b) /\ b.lev[vidx(x)] > n
    BY <2>4, <2>5 DEF FalseLits
  <2>7. x \in Unassigned(u)
    BY <2>3, <2>4, <2>6, HigherUnassigned
  <2>8. Sound(u) /\ Synced(u) /\ Len(u.control) = n
    BY <2>3, <2>4, BacktrackSound
  <2> HIDE DEF u
  <2>9. l \in 0 .. Len(u.control)
    BY <2>4, <2>8 DEF ImpliedLevel, Level
  <2> HIDE DEF l
  <2> QED BY <2>1, <2>7, <2>8, <2>9, <1>6
<1> QED BY <1>2, <1>7, <1>8, <1>9

\* Every step of the loop preserves the invariant.
LEMMA NextInv ==
    ASSUME LoopInv, ~ObserveAssigned, ~SavedPhases, [Next]_vars
    PROVE  LoopInv'
<1>1. CASE UNCHANGED vars
  BY <1>1 DEF vars, LoopInv
<1>2. CASE AlreadySolved
  BY <1>2 DEF AlreadySolved, vars, LoopInv
<1>3. CASE Next /\ ~AlreadySolved
  BY <1>3, ApiInv, BcpInv, CallbackInv, ClauseInv, AnalyzeInv DEF Next
<1> QED BY <1>1, <1>2, <1>3

(***************************************************************************)
(* The invariant holds throughout every run of the loop.                   *)
(***************************************************************************)
THEOREM LoopInvariant ==
    ASSUME ~ObserveAssigned, ~SavedPhases
    PROVE  Spec => []LoopInv
<1>1. Init => LoopInv
  BY EmptySound DEF Init, LoopInv, Pcs, Callbacks, UnitPcs
<1>2. LoopInv /\ [Next]_vars => LoopInv'
  BY NextInv
<1> QED BY <1>1, <1>2, PTL DEF Spec
\* The search state keeps its type and 'notified' stays within the trail.
THEOREM Typed ==
    ASSUME ~ObserveAssigned, ~SavedPhases
    PROVE  Spec => []TypeOK
<1>1. LoopInv => TypeOK
  BY DEF LoopInv, TypeOK, Sound, FalseLits
<1> QED BY <1>1, LoopInvariant, PTL

\* What lies in a block of the trail, or is FIXED, is true.
LEMMA HeldTrue ==
    ASSUME NEW s, Sound(s), NEW k \in 1 .. Len(s.view), NEW x \in s.view[k]
    PROVE  x \in TrueLits(s)
<1>1. s \in SearchState /\ HeldInBlock(s)
  BY DEF Sound
<1>2. x \in s.fixed \/ \E i \in 1 .. Len(s.trail) : s.trail[i] = x
  BY <1>1 DEF HeldInBlock
<1> QED BY <1>1, <1>2, StateFacts DEF TrueLits, OnTrail

\* 'backtrack' never unassigns what the propagator still holds.
THEOREM NeverStale ==
    ASSUME ~ObserveAssigned, ~SavedPhases
    PROVE  Spec => []NothingStale
<1>1. ASSUME LoopInv PROVE NothingStale
  <2>1. Sound(st) /\ DOMAIN st.view = 1 .. Len(st.view)
    BY <1>1, InvFacts, StateFacts
  <2>2. \A k \in 1 .. Len(st.view) : \A x \in st.view[k] : x \in TrueLits(st)
    BY <2>1, HeldTrue
  <2> QED BY <2>1, <2>2 DEF NothingStale, Viewed
<1> QED BY <1>1, LoopInvariant, PTL

\* Synced states have passed on what 'notified' counts.
LEMMA CountedViewed ==
    ASSUME NEW s, Sound(s), Synced(s), NEW i \in 1 .. s.notified,
           vidx(s.trail[i]) \in s.obs
    PROVE  s.trail[i] \in Viewed(s)
<1>1. /\ s \in SearchState /\ FixedHeld(s) /\ CountedHeld(s)
      /\ DOMAIN s.view = 1 .. Len(s.view) /\ 1 \in 1 .. Len(s.view)
  BY StateFacts DEF Sound, Synced
<1>2. \E k \in 1 .. Len(s.view) : s.trail[i] \in s.view[k]
  BY <1>1 DEF FixedHeld, CountedHeld
<1> QED BY <1>1, <1>2 DEF Viewed

\* What 'notified' counts is never lost by the propagator.
THEOREM NeverForgotten ==
    ASSUME ~ObserveAssigned, ~SavedPhases
    PROVE  Spec => []NothingForgotten
<1>1. ASSUME LoopInv PROVE NothingForgotten
  BY <1>1, InvFacts, CountedViewed DEF NothingForgotten
<1> QED BY <1>1, LoopInvariant, PTL

\* Callbacks find the propagator with the complete observed assignment.
THEOREM CompleteCallbacks ==
    ASSUME ~ObserveAssigned, ~SavedPhases
    PROVE  Spec => []CompleteAtCallback
<1>1. ASSUME LoopInv PROVE CompleteAtCallback
  <2> SUFFICES ASSUME pc \in Callbacks, NEW x \in TrueLits(st), vidx(x) \in st.obs
               PROVE  x \in Viewed(st)
    BY DEF CompleteAtCallback
  <2>1. /\ Sound(st) /\ st \in SearchState /\ Synced(st) /\ AllTold(st)
    BY <1>1, InvFacts DEF Callbacks
  <2>2. FixedHeld(st) /\ 1 <= Len(st.view) /\ DOMAIN st.view = 1 .. Len(st.view)
    BY <2>1, StateFacts DEF Sound
  <2>3. CASE x \in st.fixed
    <3>1. 1 \in DOMAIN st.view /\ x \in st.view[1]
      BY <2>1, <2>2, <2>3, StateFacts DEF FixedHeld
    <3> QED BY <3>1 DEF Viewed
  <2>4. CASE x \notin st.fixed
    <3>1. PICK i \in 1 .. Len(st.trail) : st.trail[i] = x
      BY <2>1, <2>4, StateFacts DEF TrueLits, OnTrail
    <3>2. i \notin st.notified + 1 .. Len(st.trail)
      BY <3>1, <2>1, <2>4 DEF AllTold
    <3>3. i \in 1 .. st.notified
      BY <3>1, <3>2, <2>1, StateFacts
    <3> QED BY <3>1, <3>3, <2>1, CountedViewed
  <2> QED BY <2>3, <2>4
<1> QED BY <1>1, LoopInvariant, PTL

\* Solver and propagator agree on the number of levels.
THEOREM LevelsAgree ==
    ASSUME ~ObserveAssigned, ~SavedPhases
    PROVE  Spec => []SameLevels
<1>1. LoopInv => SameLevels
  BY DEF LoopInv, SameLevels, Synced, Level
<1> QED BY <1>1, LoopInvariant, PTL

\* Conflict analysis is only entered with a falsified clause.
THEOREM ConflictsFalsified ==
    ASSUME ~ObserveAssigned, ~SavedPhases
    PROVE  Spec => []ConflictFalsified
<1>1. LoopInv => ConflictFalsified
  BY DEF LoopInv, ConflictFalsified
<1> QED BY <1>1, LoopInvariant, PTL

\* A literal is held above its assignment level and in one level's set only,
\* unless it is FIXED.
LEMMA HeldOnce ==
    ASSUME NEW s, Sound(s), NEW k \in 1 .. Len(s.view), NEW x \in s.view[k]
    PROVE  /\ s.lev[vidx(x)] < k
           /\ x \in s.fixed \/ \A m \in 1 .. Len(s.view) \ {k} : x \notin s.view[m]
<1> DEFINE c == Len(s.control)
<1>1. /\ s \in SearchState /\ BlocksOrdered(s) /\ Consistent(s) /\ LevelsExist(s)
      /\ LowerBefore(s) /\ HeldInBlock(s) /\ Len(s.view) <= c + 1
  BY DEF Sound
<1>2. /\ c \in Nat /\ Len(s.view) \in Nat /\ Len(s.trail) \in Nat
      /\ \A l \in 1 .. c : s.control[l].trail \in Nat
      /\ \A i \in 1 .. Len(s.trail) : s.lev[vidx(s.trail[i])] \in Nat
  BY <1>1, StateFacts
<1>3. CASE x \in s.fixed
  <2>1. s.lev[vidx(x)] = 0
    BY <1>1, <1>3 DEF LevelsExist
  <2> QED BY <1>3, <2>1
<1>4. CASE x \notin s.fixed
  <2>1. PICK i \in 1 .. Len(s.trail) : s.trail[i] = x /\ InBlock(s, i, k)
    BY <1>1, <1>4 DEF HeldInBlock
  <2>2. s.lev[vidx(x)] < k
    <3>1. CASE k <= c
      <4>1. k \in 1 .. c /\ i \in 1 .. s.control[k].trail
        BY <3>1, <2>1, <1>2 DEF InBlock
      <4> QED BY <4>1, <2>1, <1>1 DEF LowerBefore
    <3>2. CASE ~(k <= c)
      <4>1. s.lev[vidx(x)] <= c
        BY <2>1, <1>1 DEF LevelsExist
      <4>2. s.lev[vidx(x)] \in Nat
        BY <2>1, <1>2
      <4>3. \A l, d, h \in Nat : l <= d /\ ~(h <= d) => l < h
        OBVIOUS
      <4> QED BY <4>1, <4>2, <4>3, <3>2, <1>2
    <3> QED BY <3>1, <3>2
  <2>3. ASSUME NEW m \in 1 .. Len(s.view) \ {k}, x \in s.view[m] PROVE FALSE
    <3>1. PICK j \in 1 .. Len(s.trail) : s.trail[j] = x /\ InBlock(s, j, m)
      BY <2>3, <1>1, <1>4 DEF HeldInBlock
    <3>2. i = j
      BY <2>1, <3>1, <1>1 DEF Consistent
    <3>3. ASSUME NEW a \in 1 .. Len(s.view), NEW b \in 1 .. Len(s.view), a < b,
                 InBlock(s, i, a), InBlock(s, i, b)
          PROVE  FALSE
      <4>1. a \in 1 .. c /\ b - 1 \in 1 .. c /\ a <= b - 1 /\ b > 1
        BY <3>3, <1>1, <1>2
      <4>2. i <= s.control[a].trail /\ s.control[b - 1].trail < i
        BY <4>1, <3>3 DEF InBlock
      <4>3. s.control[a].trail <= s.control[b - 1].trail
        BY <4>1, <1>1 DEF BlocksOrdered
      <4>4. s.control[a].trail \in Nat /\ s.control[b - 1].trail \in Nat
        BY <4>1, <1>2
      <4>5. \A p, q \in Nat : ~(i <= p /\ q < i /\ p <= q)
        BY <2>1
      <4> QED BY <4>2, <4>3, <4>4, <4>5
    <3>4. k < m \/ m < k
      BY <2>3, <1>2
    <3> QED BY <2>1, <3>1, <3>2, <3>3, <3>4
  <2> QED BY <2>2, <2>3
<1> QED BY <1>3, <1>4

\* Every literal is reported on a level of the propagator above which it is
\* not assigned, and on one such level only.
THEOREM ReportedOnce ==
    ASSUME ~ObserveAssigned, ~SavedPhases
    PROVE  Spec => []ReportedOnItsLevel
<1>1. ASSUME LoopInv PROVE ReportedOnItsLevel
  <2>1. Sound(st) /\ DOMAIN st.view = 1 .. Len(st.view)
    BY <1>1, InvFacts, StateFacts
  <2> QED BY <2>1, HeldOnce DEF ReportedOnItsLevel
<1> QED BY <1>1, LoopInvariant, PTL
=============================================================================
