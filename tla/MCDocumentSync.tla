--------------------------- MODULE MCDocumentSync ---------------------------
(* DocumentSync and its inductive invariant on small sets, for TLC.        *)
EXTENDS DocumentSyncInv, Naturals, FiniteSets, TLC

(* Keys, workers and the values of each field are alike. *)
Symmetry ==
    UNION {Permutations(S) :
             S \in {Keys, Workers, Contents, Labels, Weights, Profiles,
                    Identities}}

(* Bound: how many possible states failed attempts pile up for one document. *)
MaxPossibleStates == 3

FewPossibleStates ==
    \A k \in Keys : Cardinality(tracking[k].states) <= MaxPossibleStates
=============================================================================
