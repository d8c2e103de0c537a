-------------------------- MODULE MCDatasetLifecycle --------------------------
(* Small instances of DatasetLifecycle for TLC. *)
EXTENDS DatasetLifecycleInv, TLC

(* No definition orders keys, workers, ids or configurations. *)
Symmetry ==
    Permutations(Keys) \cup Permutations(Workers) \cup Permutations(DatasetIds)
        \cup Permutations(Profiles)

=============================================================================
