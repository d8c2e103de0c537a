------------------------------ MODULE MCIngest ------------------------------
(* Ingest on small sets, for TLC.                                          *)
EXTENDS Ingest, TLC

\* Neither items nor groups are told apart.
Symmetry == Permutations(Items) \union Permutations(Groups)
=============================================================================
