---------------------------- MODULE MCBmcClauses ----------------------------
(* All Buchi automata with two states over one proposition, with at most   *)
(* one edge from a state to a state.                                       *)
EXTENDS BmcClauses

TwoStates == {
    {[src |-> q, dst |-> r, cond |-> f[q, r].cond, acc |-> f[q, r].acc] :
        <<q, r>> \in {p \in Q \X Q : f[p].cond # False}} :
            f \in [Q \X Q -> [cond : SUBSET Valuation, acc : BOOLEAN]]}
=============================================================================
