----------------------------- MODULE MCExternal -----------------------------
(***************************************************************************)
(* The two halves of the external layer: which variables are held, frozen  *)
(* and mapped (SolverApi), and which clauses are removed, restored and     *)
(* used to extend models (Reconstruction).  They are checked one at a      *)
(* time; a behaviour of one leaves the other in its initial state.         *)
(***************************************************************************)
EXTENDS MCReconstruction

CONSTANTS MaxVar, UINT_MAX, MaxFreeze   \* of SolverApi

VARIABLES part, state, adding_clause, adding_constraint, t, frozen

Api == INSTANCE SolverApi WITH
  Added <- {1, 2}, Constrained <- {-1, 2}, Assumed <- {1, -1}

ASSUME ApiAssumption == Api!ApiConstants

apiVars == <<state, adding_clause, adding_constraint, t, frozen>>
allVars == <<part, apiVars, vars>>

EitherInit ==
  /\ part \in {"api", "reconstruction"} /\ Init /\ Api!Init
  /\ part = "api" => opts = Opts(FALSE, 0, TRUE)

EitherNext ==
  \/ part = "api" /\ Api!Next /\ UNCHANGED <<part, vars>>
  \/ part = "reconstruction" /\ Next /\ UNCHANGED <<part, apiVars>>

EitherSpec == EitherInit /\ [][EitherNext]_allVars

\* See SolverApi: the counts of Internal::freeze and of observed variables.
CountsExact == Api!CountsExact

\* See SolverApi: a held variable keeps its internal variable.
HeldVariablesKept == Api!HeldVariablesKept

\* See SolverApi: internal and external assumptions and constraint agree.
CopiesAgree == Api!CopiesAgree
=============================================================================
