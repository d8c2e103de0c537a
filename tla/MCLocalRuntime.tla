--------------------------- MODULE MCLocalRuntime ---------------------------
(* LocalRuntime on small sets, for TLC.                                    *)
EXTENDS LocalRuntime, TLC

\* No runtime, task, root, user, tenant or provider is told from its equals.
Symmetry ==
  UNION {Permutations(S) : S \in {Runtimes, Tasks, Roots, Users, Tenants,
                                  OwnProviders}}
=============================================================================
