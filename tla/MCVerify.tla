------------------------------ MODULE MCVerify ------------------------------
(* Verify on small sets, for TLC.                                          *)
EXTENDS Verify, TLC

\* Keys, labels and the ids of a dataset are not told apart.
Symmetry ==
  Permutations(Keys) \union Permutations(Labels) \union Permutations(Generations)
=============================================================================
