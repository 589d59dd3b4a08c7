-------------------------- MODULE MCPropagatorLoop --------------------------
(* Small instances of the CDCL loop with an external propagator. *)
EXTENDS PropagatorLoop

NoAssumptions == <<>>
OneAssumption == <<1>>
TwoLiteralConstraint == {-1, 2}
=============================================================================
