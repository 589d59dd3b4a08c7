-------------------------- MODULE MCReconstruction --------------------------
(* Reconstruction on small formulas and on the one that shows the fault of  *)
(* backward subsumption.                                                    *)
EXTENDS Reconstruction

Opts(flush, all, subst) == [flush |-> flush, all |-> all, subst |-> subst]

(* An AND gate under the default options and under forced restoring, an XOR *)
(* gate and an if-then-else gate without covered clause elimination.        *)
And == << <<{1, 2}, {-1, 3}, {-1, -2, -3}>>, <<{1, -2}>> >>
Xor == << <<{1, 2, 3}, {1, -2, -3}, {-1, 2, -3}, {-1, -2, 3}>> >>
Ite == << <<{1, 2, 3}, {1, -2, 4}, {-1, 2, -3}, {-1, -2, -4}>> >>
SmallUses == {
  [batches |-> And, opts |-> Opts(FALSE, 0, TRUE)],
  [batches |-> And, opts |-> Opts(TRUE, 2, FALSE)],
  [batches |-> Xor, opts |-> Opts(TRUE, 0, TRUE)],
  [batches |-> Ite, opts |-> Opts(TRUE, 0, TRUE)]}
MinusOne == {-1}
Learnt == {{2, 3}}
Told == {{3}}

(* Without gates, resolving on 1 finds the unit 2 only when the resolvents  *)
(* are added; the resolvent {6, 7} then meets the satisfied clause {2, 6}.  *)
LateUnit == {[
  batches |-> << <<{1, 2, 3}, {-1, 2, 4}, {1, 6, -2}, {-1, 7, -2}, {1, -3, 5},
                   {-1, -3, 5}, {3, -4}, {6, 2}, {6, -7}, {-5}>> >>,
  opts |-> Opts(FALSE, 0, FALSE)]}
=============================================================================
