---------------------------- MODULE MCBmcOracle ----------------------------
(* Small instances of the BMC oracle.  The percentages are larger than in  *)
(* the code, so that a handful of variables reaches both sides of each.    *)
EXTENDS BmcOracle
=============================================================================
