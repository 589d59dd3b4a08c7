-------------------------- MODULE SolveCallProofs --------------------------
(***************************************************************************)
(* Safety of the solve call for every countdown, number of levels and      *)
(* number of assumptions.                                                  *)
(***************************************************************************)
EXTENDS SolveCall, TLAPS

(* The control and the flag, which is all that the theorems are about.     *)
ControlOK ==
  /\ pc \in {"user", "already_solved", "restore", "preprocess", "local_search",
             "lucky", "cdcl", "tail", "reset"}
  /\ preprocess_only \in BOOLEAN /\ limited \in BOOLEAN /\ propagator \in BOOLEAN
  /\ termination_forced \in BOOLEAN /\ asked \in BOOLEAN
  /\ preprocess_only => pc \notin {"local_search", "lucky", "cdcl", "tail"}

IInv == ControlOK /\ FlagAsked /\ NoSpuriousUnknown

(* A solver thread's check of the flag keeps what FlagAsked says.          *)
LEMMA ChecksKeepFlag ==
  ASSUME ControlOK, FlagAsked, InnerChecks
  PROVE  /\ FlagAsked' /\ (asked => asked')
         /\ termination_forced' \in BOOLEAN /\ asked' \in BOOLEAN
<1>1. CASE UNCHANGED stop
  BY <1>1 DEF stop, ControlOK, FlagAsked
<1>2. CASE Remember
  BY <1>2, Zenon DEF Remember, terminated_asynchronously, ControlOK, FlagAsked
<1>3. CASE UNCHANGED <<termination_forced, asked>>
  BY <1>3 DEF ControlOK, FlagAsked
<1>4. CASE termination_forced' = TRUE /\ asked' = TRUE
  BY <1>4 DEF FlagAsked
<1> QED
  BY <1>1, <1>2, <1>3, <1>4 DEF InnerChecks

(* Where the phases before the loop lead.                                  *)
LEMMA PhaseLeads ==
  ASSUME ControlOK, InnerChecks, FlagAsked, NEW from, NEW to, NEW r, Phase(from, to, r),
         from # "reset",
         to \in {"restore", "preprocess", "local_search", "lucky", "cdcl"},
         to \in {"lucky", "cdcl"} => from \in {"local_search", "lucky"}
  PROVE  IInv'
  BY ChecksKeepFlag DEF IInv, ControlOK, Phase, GoOn, args, NoSpuriousUnknown

(* The inductive invariant: a flag that is set was asked for since the last  *)
(* reset_solving, and only full solve calls get to the loop.                *)
THEOREM Inductive == Spec => []IInv
<1>1. Init => IInv
  BY DEF Init, IInv, ControlOK, FlagAsked, NoSpuriousUnknown
<1>2. IInv /\ [Next]_vars => IInv'
  <2> SUFFICES ASSUME IInv, [Next]_vars PROVE IInv'
    OBVIOUS
  <2> USE DEF IInv
  <2>1. CASE AlreadySolved
    <3>1. InnerChecks
      BY <2>1 DEF AlreadySolved, InnerChecks
    <3>2. PICK r \in {0, 10, 20} : Phase("already_solved", "restore", r)
      BY <2>1 DEF AlreadySolved
    <3> QED
      BY <3>1, <3>2, PhaseLeads
  <2>2. CASE RestoreClauses
    <3>1. InnerChecks
      BY <2>2 DEF RestoreClauses, InnerChecks
    <3>2. PICK r \in {0, 20} : Phase("restore", "preprocess", r)
      BY <2>2 DEF RestoreClauses
    <3> QED
      BY <3>1, <3>2, PhaseLeads
  <2>3. CASE Preprocess
    BY <2>3, PhaseLeads DEF Preprocess
  <2>4. CASE LocalSearch
    BY <2>4, PhaseLeads DEF LocalSearch
  <2>5. CASE LuckyPhases
    BY <2>5, PhaseLeads DEF LuckyPhases
  <2>6. CASE LoopUnsat
    BY <2>6 DEF LoopUnsat, Leave, args, stop,
      ControlOK, FlagAsked, NoSpuriousUnknown
  <2>7. CASE Conflict
    BY <2>7 DEF Conflict, Loop, args, stop,
      ControlOK, FlagAsked, NoSpuriousUnknown
  <2>8. CASE Iterate
    BY <2>8 DEF Iterate, Loop, args, stop,
      ControlOK, FlagAsked, NoSpuriousUnknown
  <2>9. CASE ModelFound
    BY <2>9 DEF ModelFound, Loop, Leave, args, stop,
      ControlOK, FlagAsked, NoSpuriousUnknown
  <2>10. CASE ModelRejected
    BY <2>10 DEF ModelRejected, Loop, args, stop,
      ControlOK, FlagAsked, NoSpuriousUnknown
  <2>11. CASE SearchLimitsHit
    BY <2>11 DEF SearchLimitsHit, Loop, Leave, args, stop,
      ControlOK, FlagAsked, NoSpuriousUnknown
  <2>12. CASE Terminated
    BY <2>12 DEF Terminated, Loop, Leave, args, Remember, terminated_asynchronously,
      ControlOK, FlagAsked, NoSpuriousUnknown
  <2>13. CASE NotTerminated
    BY <2>13 DEF NotTerminated, Loop, args,
      ControlOK, FlagAsked, NoSpuriousUnknown
  <2>14. CASE Backjump
    BY <2>14 DEF Backjump, Tail, args, stop,
      ControlOK, FlagAsked, NoSpuriousUnknown
  <2>15. CASE Inprocess
    BY <2>15, ChecksKeepFlag DEF Inprocess, Tail, args,
      ControlOK, FlagAsked, NoSpuriousUnknown
  <2>16. CASE Decide
    BY <2>16 DEF Decide, Tail, args, stop,
      ControlOK, FlagAsked, NoSpuriousUnknown
  <2>17. CASE DecideFails
    BY <2>17 DEF DecideFails, args, stop,
      ControlOK, FlagAsked, NoSpuriousUnknown
  <2>18. CASE ResetSolving
    BY <2>18 DEF ResetSolving, args,
      ControlOK, FlagAsked, NoSpuriousUnknown
  <2>19. CASE Solve
    BY <2>19 DEF Solve, stop,
      ControlOK, FlagAsked, NoSpuriousUnknown
  <2>20. CASE Terminate
    BY <2>20 DEF Terminate, args,
      ControlOK, FlagAsked, NoSpuriousUnknown
  <2>21. CASE TerminatorFires
    BY <2>21 DEF TerminatorFires, args, stop,
      ControlOK, FlagAsked, NoSpuriousUnknown
  <2>22. CASE UNCHANGED vars
    BY <2>22 DEF vars, args, stop,
      ControlOK, FlagAsked, NoSpuriousUnknown
  <2> QED
    BY <2>1, <2>2, <2>3, <2>4, <2>5, <2>6, <2>7, <2>8, <2>9, <2>10, <2>11,
       <2>12, <2>13, <2>14, <2>15, <2>16, <2>17, <2>18, <2>19, <2>20, <2>21, <2>22 DEF Next, SolverStep
<1> QED
  BY <1>1, <1>2, PTL DEF Spec

(* A full solve call gives up only on a limit or on a request made since   *)
(* the reset_solving of the call before.                                   *)
THEOREM UnknownIsAskedFor == Spec => []NoSpuriousUnknown
<1>1. IInv => NoSpuriousUnknown
  BY DEF IInv
<1> QED
  BY <1>1, Inductive, PTL

(* Every model of a full solve call with a connected propagator leaves it  *)
(* through the loop.                                                       *)
THEOREM PropagatorSeesModels == Spec => ModelsChecked
<1> DEFINE Checked == pc # "reset" /\ pc' = "reset" /\ res' = 10 /\ propagator
                        /\ ~preprocess_only => pc = "cdcl"
<1>1. [Next]_vars => [Checked]_vars
  <2> SUFFICES ASSUME Next PROVE Checked
    OBVIOUS
  <2>1. ASSUME NEW from, NEW to, NEW r, Phase(from, to, r), to # "reset"
        PROVE  Checked
    BY <2>1 DEF Phase, GoOn
  <2>2. CASE AlreadySolved \/ RestoreClauses \/ Preprocess \/ LocalSearch \/ LuckyPhases
    BY <2>1, <2>2 DEF AlreadySolved, RestoreClauses, Preprocess, LocalSearch, LuckyPhases
  <2>3. CASE LoopUnsat \/ Conflict \/ Iterate \/ ModelFound \/ ModelRejected
             \/ SearchLimitsHit \/ Terminated \/ NotTerminated
    BY <2>3 DEF LoopUnsat, Conflict, Iterate, ModelFound, ModelRejected,
                SearchLimitsHit, Terminated, NotTerminated, Loop, Leave
  <2>4. CASE Backjump \/ Inprocess \/ Decide \/ DecideFails \/ ResetSolving
    BY <2>4 DEF Backjump, Inprocess, Decide, DecideFails, ResetSolving, Tail
  <2>5. CASE Solve \/ Terminate \/ TerminatorFires
    BY <2>5 DEF Solve, Terminate, TerminatorFires
  <2> QED
    BY <2>2, <2>3, <2>4, <2>5 DEF Next, SolverStep
<1> QED
  BY <1>1, PTL DEF Spec, ModelsChecked
=============================================================================
