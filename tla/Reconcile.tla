------------------------------ MODULE Reconcile ------------------------------
(***************************************************************************)
(* The pure half of cogindex's document target: tracking records and the   *)
(* decision DocumentHandler.reconcile takes for one key.                   *)
(*                                                                         *)
(* A fingerprint stands for the value it was taken of: BLAKE2b is assumed  *)
(* not to collide, so two fingerprints are equal exactly when the values   *)
(* are.  The engine's list of possible previous records is a set here: the *)
(* code only asks "any", "all" and "empty" of it.                          *)
(***************************************************************************)

CONSTANTS
    Keys,         \* external document keys, already NFC-normalised
    Contents,     \* document contents
    Labels,       \* display labels (metadata_fingerprint)
    Annotations,  \* external_metadata and node_set (annotations_fingerprint)
    Weights,      \* importance_weight values
    Profiles,     \* processing configurations (processing_fingerprint)
    Identities,   \* identity derivations (IDENTITY_SCHEMA_VERSION)
    NonExistence  \* coco.NON_EXISTENCE

(* The desired state of one document. *)
CogneeDocumentSpec ==
    [content: Contents, label: Labels, annotations: Annotations,
     weight: Weights]

(* What the engine persists about one document.  The data_id of a record is
   a function of its key and of the identity derivation in force when the
   record was written, so the record keeps the derivation alone. *)
DocumentRecord ==
    [identity: Identities, content: Contents, label: Labels,
     annotations: Annotations, processing: Profiles, weight: Weights]

TrackingState == DocumentRecord \cup {NonExistence}

(* NonExistence is a marker of its own. *)
ASSUME NonExistenceAssumption ==
    /\ NonExistence \notin DocumentRecord
    /\ NonExistence \notin CogneeDocumentSpec

(* uuid5 over an injective join: one data_id per key and derivation. *)
document_data_id(key, identity) == <<key, identity>>

DataIds == Keys \X Identities

document_record_for(spec, identity, processing) ==
    [identity    |-> identity,
     content     |-> spec.content,
     label       |-> spec.label,
     annotations |-> spec.annotations,
     processing  |-> processing,
     weight      |-> spec.weight]

-----------------------------------------------------------------------------
(* CocoIndex's connectorkits.statediff.diff for a desired record that exists;
   "none" stands for a None result. *)
StateDiff(desired, prev, missing) ==
    CASE prev = {}                             -> "insert"
      [] prev # {} /\ missing                  -> "upsert"
      [] prev # {} /\ ~missing /\ prev = {desired} -> "none"
      [] OTHER                                 -> "replace"

(* Faulty variants: a fingerprint is left out of the comparison. *)
SameDerivativesButIdentity(r, desired) ==
    /\ r.content = desired.content
    /\ r.annotations = desired.annotations
    /\ r.processing = desired.processing

SameDerivativesButProcessing(r, desired) ==
    /\ r.identity = desired.identity
    /\ r.content = desired.content
    /\ r.annotations = desired.annotations

(* Two records whose derivatives are interchangeable: every
   derivative-affecting fingerprint agrees. *)
SameDerivatives(r, desired) ==
    /\ r.identity = desired.identity
    /\ r.content = desired.content
    /\ r.annotations = desired.annotations
    /\ r.processing = desired.processing

(* Faulty variant: a possibly missing row is added, never purged first. *)
ClassifyWriteTrustingRows(diff, desired, prev, missing) ==
    CASE \E r \in prev : r.weight # desired.weight -> "recreate"
      [] /\ \A r \in prev : r.weight = desired.weight
         /\ diff \in {"insert", "upsert"}          -> "upsert"
      [] OTHER                                     ->
            IF \A r \in prev : SameDerivatives(r, desired)
            THEN "update_metadata"
            ELSE "replace"

(* Faulty variant: a changed weight is written in place. *)
ClassifyWriteInPlace(diff, desired, prev, missing) ==
    IF diff \in {"insert", "upsert"}
    THEN IF missing /\ prev # {} THEN "replace" ELSE "upsert"
    ELSE IF \A r \in prev : SameDerivatives(r, desired)
         THEN "update_metadata"
         ELSE "replace"

(* _classify_write: the Cognee write that a statediff action becomes. *)
ClassifyWrite(diff, desired, prev, missing) ==
    CASE \E r \in prev : r.weight # desired.weight -> "recreate"
      [] /\ \A r \in prev : r.weight = desired.weight
         /\ diff \in {"insert", "upsert"}          ->
            IF missing /\ prev # {} THEN "replace" ELSE "upsert"
      [] OTHER                                     ->
            IF ~missing /\ \A r \in prev : SameDerivatives(r, desired)
            THEN "update_metadata"
            ELSE "replace"

(* DocumentHandler.reconcile without the payload: the op of the action it
   returns, or "none" when it returns None. *)
ReconcileOp(desired, prev, missing) ==
    IF desired = NonExistence
    THEN IF prev = {} /\ ~missing THEN "none" ELSE "delete"
    ELSE LET diff == StateDiff(desired, prev, missing) IN
         IF diff = "none" THEN "none"
         ELSE ClassifyWrite(diff, desired, prev, missing)

(* Faulty variant: rows under an earlier identity are forgotten. *)
NoStaleDataIds(key, identity, prev) == {}

(* Identities that earlier records gave the key and the current one does not. *)
StaleDataIds(key, identity, prev) ==
    {document_data_id(key, r.identity) : r \in prev}
        \ {document_data_id(key, identity)}

WriteOps == {"upsert", "replace", "recreate", "update_metadata"}

=============================================================================
