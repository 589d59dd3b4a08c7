----------------------------- MODULE SolveCall -----------------------------
(***************************************************************************)
(* The control flow of one solve call after the other (Internal::solve and *)
(* cdcl_loop_with_inprocessing in internal.cpp), and the two ways to stop  *)
(* one: Solver::terminate, called at any time by another thread or by a    *)
(* signal handler, and a connected Terminator, which the solver asks every *)
(* so often (terminated_asynchronously in internal.hpp).                   *)
(*                                                                         *)
(* The search is abstracted to the decision level and to what its steps    *)
(* may find.  Callbacks of a connected propagator return.                  *)
(***************************************************************************)
EXTENDS Integers

CONSTANTS
  TerminateInt,  \* opts.terminateint
  MaxFactor,     \* largest factor of it that lucky_phases passes
  MaxLevel,      \* bound on the decision level
  MaxAssume      \* bound on the number of assumptions, the constraint included

ASSUME SolveConstants ==
  /\ TerminateInt \in Nat /\ MaxFactor \in Nat \ {0}
  /\ MaxAssume \in Nat /\ MaxLevel \in Nat /\ MaxLevel > MaxAssume

VARIABLES
  pc,                  \* where the solver's thread is; "user" outside of solve
  preprocess_only,     \* argument of Internal::solve
  propagator,          \* an ExternalPropagator is connected
  assumed,             \* number of assumptions, plus one with a constraint
  res,                 \* result of Internal::solve
  unsat,               \* Internal::unsat
  unsat_constraint,    \* Internal::unsat_constraint
  level,               \* Internal::level
  iterating,           \* Internal::iterating
  termination_forced,  \* Internal::termination_forced
  terminator,          \* the connected Terminator, and whether it says stop
  check,               \* lim.terminate.check
  limited,             \* a search limit is set (Solver::limit) for this call
  asked                \* a stop was asked for since reset_solving ran last

search == <<unsat, unsat_constraint, level, iterating>>
args   == <<preprocess_only, propagator, assumed, limited>>
stop   == <<termination_forced, check, asked>>
vars   == <<pc, args, res, search, terminator, stop>>

Init ==
  /\ pc = "user" /\ preprocess_only = FALSE /\ propagator = FALSE
  /\ assumed = 0 /\ limited = FALSE /\ res = 0
  /\ unsat = FALSE /\ unsat_constraint = FALSE /\ level = 0 /\ iterating = FALSE
  /\ termination_forced = FALSE /\ terminator = "none" /\ check = 0
  /\ asked = FALSE

----------------------------------------------------------------------------
(* The user's thread, and the other one                                    *)

\* Everything the user does between two calls, and Solver::solve or simplify.
Solve ==
  /\ pc = "user" /\ pc' = "already_solved" /\ res' = 0
  /\ preprocess_only' \in BOOLEAN /\ propagator' \in BOOLEAN
  /\ assumed' \in 0 .. MaxAssume /\ limited' \in BOOLEAN
  /\ unsat_constraint' \in BOOLEAN
  /\ terminator' \in {"none", "quiet", "fires"}
  /\ UNCHANGED <<unsat, level, iterating, stop>>

\* Solver::terminate, or the limit "terminate", which forces it for testing.
Terminate ==
  /\ termination_forced' = TRUE /\ asked' = TRUE
  /\ UNCHANGED <<pc, args, res, search, terminator, check>>

\* From now on the terminator says stop, for instance since time is over.
TerminatorFires ==
  /\ terminator = "quiet" /\ terminator' = "fires"
  /\ UNCHANGED <<pc, args, res, search, stop>>

----------------------------------------------------------------------------
(* Internal::terminated_asynchronously                                     *)

\* The flag, or when the countdown is over the terminator, whose answer is
\* remembered in the flag.
terminated_asynchronously ==
  termination_forced \/ (terminator = "fires" /\ check = 0)

\* Mutant: the countdown starts again before it is over.
CountdownEarly ==
  check' = IF termination_forced \/ terminator = "none" THEN check
           ELSE IF check <= 1 THEN TerminateInt ELSE check - 1

\* The countdown of one call.
Countdown ==
  check' = IF termination_forced \/ terminator = "none" THEN check
           ELSE IF check = 0 THEN TerminateInt ELSE check - 1

Remember ==
  /\ termination_forced' = terminated_asynchronously
  /\ asked' = (asked \/ (~termination_forced /\ terminated_asynchronously))

\* Any number of calls in inner loops of preprocessing and inprocessing, some
\* of which ask for a longer countdown.
InnerChecks ==
  \/ UNCHANGED stop
  \/ Countdown /\ Remember
  \/ /\ ~termination_forced /\ terminator = "quiet"
     /\ check' \in 0 .. MaxFactor * TerminateInt
     /\ UNCHANGED <<termination_forced, asked>>
  \/ /\ ~termination_forced /\ terminator = "fires"
     /\ check' \in {factor * TerminateInt : factor \in 1 .. MaxFactor}
     /\ termination_forced' = TRUE /\ asked' = TRUE

----------------------------------------------------------------------------
(* Internal::solve up to the loop                                          *)

\* Mutant: an answer of an early phase is final, with a propagator as well.
GoOnAnswered(phase, r) ==
  IF r = 0 /\ ~(preprocess_only /\ phase = "local_search") THEN phase ELSE "reset"

\* Where solve goes on after a phase with result "r".
GoOn(phase, r) ==
  IF r = 0 /\ ~(preprocess_only /\ phase = "local_search") THEN phase
  ELSE IF ~preprocess_only /\ propagator THEN "cdcl" ELSE "reset"

\* The phase at "from" ends with result "r".
Phase(from, to, r) ==
  /\ pc = from /\ pc' = GoOn(to, r) /\ res' = r
  /\ UNCHANGED <<args, terminator>>

Found(u, l) == unsat' = u /\ level' = l /\ UNCHANGED <<unsat_constraint, iterating>>

\* Internal::already_solved: the root level may be in conflict, and a solver
\* without variables has a model.
AlreadySolved ==
  /\ UNCHANGED stop
  /\ IF unsat \/ unsat_constraint
     THEN Phase("already_solved", "restore", 20) /\ UNCHANGED search
     ELSE \/ Found(TRUE, 0) /\ Phase("already_solved", "restore", 20)
          \/ Found(FALSE, 0) /\ \E r \in {0, 10} : Phase("already_solved", "restore", r)

\* Internal::restore_clauses: an empty clause that is restored is only noted.
RestoreClauses ==
  /\ UNCHANGED stop
  /\ \E u \in BOOLEAN : Found(u, 0) /\ \E r \in IF u THEN {0, 20} ELSE {0} :
       Phase("restore", "preprocess", r)

\* Internal::preprocess.
Preprocess ==
  /\ InnerChecks
  /\ \E u \in {unsat, TRUE} :
       Found(u, 0) /\ Phase("preprocess", "local_search", IF u THEN 20 ELSE 0)

\* Internal::local_search: a model, or assumptions that fail; producing these
\* may show that the formula is unsatisfiable.
LocalSearch ==
  /\ InnerChecks
  /\ \/ Found(unsat, 0) /\ Phase("local_search", "lucky", 0)
     \/ \E l \in assumed .. MaxLevel :
          Found(FALSE, l) /\ Phase("local_search", "lucky", 10)
     \/ /\ level' \in 0 .. assumed - 1 /\ unsat' \in BOOLEAN
        /\ iterating' \in {iterating, TRUE} /\ UNCHANGED unsat_constraint
        /\ Phase("local_search", "lucky", 20)

\* Internal::lucky_phases.
LuckyPhases ==
  /\ InnerChecks
  /\ \/ Found(unsat, 0) /\ Phase("lucky", "cdcl", 0)
     \/ /\ assumed = 0 /\ ~propagator
        /\ \/ \E l \in 0 .. MaxLevel : Found(FALSE, l) /\ Phase("lucky", "cdcl", 10)
           \/ Found(TRUE, 0) /\ Phase("lucky", "cdcl", 20)

----------------------------------------------------------------------------
(* Internal::cdcl_loop_with_inprocessing                                   *)

Loop == pc = "cdcl" /\ ~unsat /\ ~unsat_constraint

Leave(r) == pc' = "reset" /\ res' = r /\ UNCHANGED <<args, search, terminator>>

LoopUnsat ==
  /\ pc = "cdcl" /\ (unsat \/ unsat_constraint)
  /\ Leave(20) /\ UNCHANGED stop

\* Mutant: analyze may stay on the level of the conflict.
AnalyzedLevelsSame == 0 .. level

\* The levels analyze jumps back to.
AnalyzedLevels == 0 .. level - 1

\* A conflict of propagate, or of a clause or a propagation of the external
\* propagator, and analyze: the empty clause, a unit or a longer clause.
Conflict ==
  /\ Loop
  /\ \/ unsat' = TRUE /\ UNCHANGED <<level, iterating>>
     \/ /\ level' \in AnalyzedLevels /\ iterating' \in {iterating, TRUE}
        /\ UNCHANGED unsat
  /\ UNCHANGED <<pc, args, res, unsat_constraint, terminator, stop>>

Iterate ==
  /\ Loop /\ iterating /\ iterating' = FALSE
  /\ UNCHANGED <<pc, args, res, unsat, unsat_constraint, level, terminator, stop>>

\* A model the propagator accepts, and one it rejects with a clause that is
\* no conflict but takes back decisions.
ModelFound ==
  /\ Loop /\ ~iterating /\ level >= assumed
  /\ Leave(10) /\ UNCHANGED stop

ModelRejected ==
  /\ Loop /\ ~iterating /\ level >= assumed /\ propagator
  /\ level' \in 0 .. level - 1
  /\ UNCHANGED <<pc, args, res, unsat, unsat_constraint, iterating, terminator, stop>>

\* Internal::search_limits_hit.
SearchLimitsHit ==
  /\ Loop /\ ~iterating /\ limited
  /\ Leave(0) /\ UNCHANGED stop

Terminated ==
  /\ Loop /\ ~iterating /\ terminated_asynchronously
  /\ Countdown /\ Remember /\ Leave(0)

NotTerminated ==
  /\ Loop /\ ~iterating /\ ~terminated_asynchronously
  /\ Countdown /\ UNCHANGED <<termination_forced, asked>>
  /\ pc' = "tail" /\ UNCHANGED <<args, res, search, terminator>>

\* The rest of the iteration ends in one of the following.
Tail == pc = "tail" /\ pc' = "cdcl" /\ UNCHANGED <<args, res, terminator>>

\* restart, rephase and reduce.
Backjump ==
  /\ Tail /\ \E l \in 0 .. level : Found(unsat, l)
  /\ UNCHANGED stop

\* probe, subsume, elim, compact and condition.
Inprocess ==
  /\ Tail /\ InnerChecks
  /\ \E u \in BOOLEAN : Found(u, 0)

\* Internal::decide.
Decide ==
  /\ Tail /\ level < MaxLevel /\ Found(unsat, level + 1)
  /\ UNCHANGED stop

DecideFails ==
  /\ pc = "tail" /\ level < assumed
  /\ pc' = "reset" /\ res' = 20
  /\ unsat_constraint' \in {FALSE, level = assumed - 1}
  /\ UNCHANGED <<args, unsat, level, iterating, terminator, stop>>

----------------------------------------------------------------------------
(* The end of the call                                                     *)

\* Mutant: the flag is only cleared when the call has no answer.
ResetSolvingUnanswered ==
  /\ pc = "reset" /\ pc' = "user"
  /\ termination_forced' = (termination_forced /\ res # 0) /\ asked' = FALSE
  /\ UNCHANGED <<args, res, search, terminator, check>>

\* Internal::reset_solving and the return.
ResetSolving ==
  /\ pc = "reset" /\ pc' = "user"
  /\ termination_forced' = FALSE /\ asked' = FALSE
  /\ UNCHANGED <<args, res, search, terminator, check>>

SolverStep ==
  \/ AlreadySolved \/ RestoreClauses \/ Preprocess \/ LocalSearch \/ LuckyPhases
  \/ LoopUnsat \/ Conflict \/ Iterate \/ ModelFound \/ ModelRejected
  \/ SearchLimitsHit \/ Terminated \/ NotTerminated
  \/ Backjump \/ Inprocess \/ Decide \/ DecideFails
  \/ ResetSolving

Next == SolverStep \/ Solve \/ Terminate \/ TerminatorFires

\* The solver's thread runs on; nobody has to call anything.
Spec == Init /\ [][Next]_vars /\ WF_vars(SolverStep)

----------------------------------------------------------------------------
(* Properties                                                              *)

\* The flag only stands for requests since reset_solving ran last.
FlagAsked == termination_forced => asked

\* A full solve call only gives up when a limit is set or when someone asked
\* for it since the end of the call before: reset_solving lets no request of
\* an earlier call leak into this one.
NoSpuriousUnknown ==
  pc = "reset" /\ res = 0 /\ ~preprocess_only => limited \/ asked

\* With a propagator connected no model leaves a full solve call other than
\* through the loop, where the propagator checks it.
ModelsChecked ==
  [][pc # "reset" /\ pc' = "reset" /\ res' = 10 /\ propagator /\ ~preprocess_only
       => pc = "cdcl"]_vars

\* A terminate call that the solve call sees makes it return, whatever the
\* loop is doing.
TerminateStops == (pc # "user" /\ termination_forced) ~> (pc = "user")

\* A terminator that says stop makes the call return, although it is only
\* asked when the countdown is over.
TerminatorStops == (pc # "user" /\ terminator = "fires") ~> (pc = "user")
=============================================================================
