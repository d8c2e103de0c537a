--------------------------- MODULE MCPgAdvisoryLock ---------------------------
(* PgAdvisoryLock for TLC: tasks and sessions are interchangeable where only
   safety is checked. *)
EXTENDS PgAdvisoryLock, TLC

Symmetry == Permutations(Tasks) \cup Permutations(Sessions)

=============================================================================
