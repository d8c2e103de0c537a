-------------------------- MODULE DocumentSyncProofs --------------------------
(***************************************************************************)
(* Lemmas about the operators of DocumentSync and about its actions, the   *)
(* type invariant for every value of the constants, and IInv, which is     *)
(* inductive, with the safety properties that follow.  One lemma per       *)
(* action; the argument for each part of IInv is in DocumentSyncInv.       *)
(***************************************************************************)
EXTENDS DocumentSyncInv, TLAPS

-----------------------------------------------------------------------------
(* Lemmas about the pure operators. *)

(* A record built for a spec of the declared type is a record. *)
LEMMA RecordType ==
    ASSUME NEW spec \in CogneeDocumentSpec, NEW c \in Config
    PROVE  document_record_for(spec, c.identity, c.processing)
               \in DocumentRecord
BY DEF CogneeDocumentSpec, Config, DocumentRecord, document_record_for

(* reconcile answers with an op of the action type or with none. *)
LEMMA OpRange ==
    ASSUME NEW desired, NEW prev, NEW missing
    PROVE  /\ ReconcileOp(desired, prev, missing)
                  \in WriteOps \cup {"delete", "none"}
           /\ ReconcileOp(desired, prev, missing) = "delete"
                  => desired = NonExistence
           /\ desired = NonExistence =>
                  ReconcileOp(desired, prev, missing) \in {"delete", "none"}
BY DEF ReconcileOp, ClassifyWrite, StateDiff, WriteOps

(* The rows that the calls leave behind, field by field. *)
LEMMA PurgedFields ==
    ASSUME NEW row \in Rows
    PROVE  /\ PurgedRow(row) \in Rows
           /\ PurgedRow(row).weight = row.weight
           /\ PurgedRow(row).complete = FALSE
           /\ PurgedRow(row).derived = {}
BY DEF PurgedRow, Rows

LEMMA TornFields ==
    ASSUME NEW row \in Rows
    PROVE  /\ TornRow(row) \in Rows
           /\ TornRow(row).weight = row.weight
BY DEF TornRow, Rows

LEMMA NewFields ==
    ASSUME NEW r \in DocumentRecord
    PROVE  /\ NewRow(r) \in Rows
           /\ NewRow(r).content = r.content
           /\ NewRow(r).label = r.label
           /\ NewRow(r).annotations = r.annotations
           /\ NewRow(r).weight = r.weight
           /\ NewRow(r).complete = FALSE
           /\ NewRow(r).derived = {}
BY DEF NewRow, Rows, DocumentRecord

LEMMA UpdatedFields ==
    ASSUME NEW row \in Rows, NEW r \in DocumentRecord
    PROVE  /\ UpdatedRow(row, r) \in Rows
           /\ UpdatedRow(row, r).content = r.content
           /\ UpdatedRow(row, r).label = r.label
           /\ UpdatedRow(row, r).annotations = r.annotations
           /\ UpdatedRow(row, r).weight = row.weight
           /\ UpdatedRow(row, r).complete =
                (row.complete /\ row.content = r.content)
           /\ UpdatedRow(row, r).derived = row.derived
BY DEF UpdatedRow, Rows, DocumentRecord

LEMMA DerivedFields ==
    ASSUME NEW row \in Rows, config \in Config
    PROVE  /\ DerivedRow(row) \in Rows
           /\ DerivedRow(row).content = row.content
           /\ DerivedRow(row).label = row.label
           /\ DerivedRow(row).annotations = row.annotations
           /\ DerivedRow(row).weight = row.weight
           /\ DerivedRow(row).complete = row.complete
           /\ DerivedRow(row).derived =
                row.derived \cup {Fragment(row, config.processing)}
<1>1. Fragment(row, config.processing) \in Fragments
  BY DEF Fragment, Fragments, Rows, Config
<1> QED BY <1>1 DEF DerivedRow, Rows

LEMMA CognifiedFields ==
    ASSUME NEW row \in Rows, config \in Config
    PROVE  /\ CognifiedRow(row) \in Rows
           /\ CognifiedRow(row).content = row.content
           /\ CognifiedRow(row).label = row.label
           /\ CognifiedRow(row).annotations = row.annotations
           /\ CognifiedRow(row).weight = row.weight
           /\ CognifiedRow(row).complete = TRUE
           /\ CognifiedRow(row).derived =
                row.derived \cup {Fragment(row, config.processing)}
<1>1. DerivedRow(row) \in Rows
  BY DerivedFields
<1>2. /\ CognifiedRow(row) \in Rows
      /\ CognifiedRow(row).content = DerivedRow(row).content
      /\ CognifiedRow(row).label = DerivedRow(row).label
      /\ CognifiedRow(row).annotations = DerivedRow(row).annotations
      /\ CognifiedRow(row).weight = DerivedRow(row).weight
      /\ CognifiedRow(row).complete = TRUE
      /\ CognifiedRow(row).derived = DerivedRow(row).derived
  BY <1>1 DEF CognifiedRow, Rows
<1> QED BY <1>2, DerivedFields

(* The desired tracking state of a key is a tracking state. *)
LEMMA DesiredType ==
    ASSUME TypeOK, NEW k \in Keys
    PROVE  Desired(k) \in TrackingState
BY RecordType DEF TypeOK, Desired, TrackingState

(* Precommit and invalidation keep an entry an entry. *)
LEMMA EntryTypes ==
    ASSUME TypeOK, NEW k \in Keys
    PROVE  /\ Precommit(k) \in Entries
           /\ Precommit(k).states = tracking[k].states \cup {Desired(k)}
           /\ Precommit(k).missing = tracking[k].missing
<1>1. tracking[k] \in Entries
  BY DEF TypeOK
<1> QED BY <1>1, DesiredType DEF Precommit, Entries

(* A batch's locals name data_ids. *)
LEMMA LocalTypes ==
    ASSUME TypeOK, NEW K \in SUBSET Keys
    PROVE  /\ DeleteIds(K) \subseteq DataIds
           /\ PurgeIds(K) \subseteq DataIds
           /\ PayloadIds(K) \subseteq DataIds
<1>1. \A k \in Keys : DataId(k) \in DataIds
  BY DEF TypeOK, Config, DataId, document_data_id, DataIds
<1>2. ASSUME NEW k \in Keys
      PROVE  StaleDataIds(k, config.identity, PrevRecords(k)) \subseteq DataIds
  <2>1. \A r \in PrevRecords(k) : r.identity \in Identities
    BY DEF TypeOK, Entries, PrevRecords, TrackingState, DocumentRecord
  <2> QED BY <2>1 DEF StaleDataIds, document_data_id, DataIds
<1> QED
  BY <1>1, <1>2 DEF DeleteIds, PurgeIds, PayloadIds, RecreateIds

-----------------------------------------------------------------------------
(* Type correctness. *)

LEMMA TypeInit == Init => TypeOK
<1>1. Untracked \in Entries /\ IdlePlan \in Plans
  BY DEF Untracked, IdlePlan, Entries, Plans, TrackingState
<1> QED BY <1>1 DEF Init, TypeOK

LEMMA TypeAbandon ==
    ASSUME TypeOK, NEW w \in Workers, AbandonBatch(w),
           store' \in [DataIds -> Rows \cup {NoRow}]
    PROVE  TypeOK'
<1>1. IdlePlan \in Plans
  BY DEF IdlePlan, Plans, TrackingState
<1>2. ReleaseBy(w) \in BOOLEAN
  BY DEF ReleaseBy, TypeOK
<1> QED BY <1>1, <1>2 DEF TypeOK, AbandonBatch

LEMMA TypeStep == TypeOK /\ PayloadInv /\ [Next]_vars => TypeOK'
<1> SUFFICES ASSUME TypeOK, PayloadInv, [Next]_vars PROVE TypeOK'
  OBVIOUS
<1>1. ASSUME NEW w \in Workers, NEW K \in SUBSET Keys, Submit(w, K)
      PROVE  TypeOK'
  <2>1. \A k \in Keys : Precommit(k) \in Entries
    BY EntryTypes
  <2>2. \A k \in Keys : [op |-> Op(k), target |-> Desired(k)] \in Plans
    BY OpRange, DesiredType DEF Plans, Op
  <2>3. NeedsCognify(K) \in BOOLEAN
    BY DEF NeedsCognify
  <2> QED BY <1>1, <2>1, <2>2, <2>3, LocalTypes DEF TypeOK, Submit
<1>2. ASSUME NEW w \in Workers, AcquireLock(w) PROVE TypeOK'
  BY <1>2 DEF TypeOK, AcquireLock, locals
<1>3. ASSUME NEW w \in Workers, NEW d \in DataIds, DeleteDocument(w, d)
      PROVE  TypeOK'
  BY <1>3 DEF TypeOK, DeleteDocument
<1>4. ASSUME NEW w \in Workers, NEW d \in DataIds, PurgeDocument(w, d)
      PROVE  TypeOK'
  <2>1. CASE store[d] = NoRow
    BY <1>4, <2>1 DEF TypeOK, PurgeDocument
  <2>2. CASE store[d] \in Rows
    BY <1>4, <2>2, PurgedFields DEF TypeOK, PurgeDocument
  <2> QED BY <2>1, <2>2 DEF TypeOK
<1>5. ASSUME NEW w \in Workers, NEW d \in DataIds, AddDocument(w, d)
      PROVE  TypeOK'
  <2>1. PICK k \in Keys, i \in Identities : d = <<k, i>>
    BY DEF DataIds
  <2>2. plan[d[1]].target \in DocumentRecord
    BY <1>5, <2>1
       DEF AddDocument, CanAdd, PayloadInv, TypeOK, Plans, TrackingState
  <2>3. AddedRow(store[d], plan[d[1]].target) \in Rows
    <3>1. CASE store[d] = NoRow
      BY <2>2, <3>1, NewFields DEF AddedRow
    <3>2. CASE store[d] \in Rows
      BY <2>2, <3>2, NoRowAssumption, UpdatedFields DEF AddedRow
    <3> QED BY <3>1, <3>2 DEF TypeOK
  <2> QED BY <1>5, <2>3 DEF TypeOK, AddDocument
<1>6. ASSUME NEW w \in Workers, NEW d \in DataIds, CognifyDocument(w, d)
      PROVE  TypeOK'
  <2>1. store[d] \in Rows
    BY <1>6 DEF CognifyDocument, CanCognify, NeedsProcessing, TypeOK
  <2>2. CognifiedRow(store[d]) \in Rows
    BY <2>1, CognifiedFields DEF TypeOK
  <2> QED BY <1>6, <2>2 DEF TypeOK, CognifyDocument, locals
<1>7. ASSUME NEW w \in Workers, FinishApply(w) PROVE TypeOK'
  BY <1>7 DEF TypeOK, FinishApply
<1>8. ASSUME NEW w \in Workers, NEW k \in Keys, CommitKey(w, k)
      PROVE  TypeOK'
  <2>1. IdlePlan \in Plans /\ Untracked \in Entries
    BY DEF IdlePlan, Plans, TrackingState, Untracked, Entries
  <2>2. [states |-> {plan[k].target}, missing |-> FALSE] \in Entries
    BY DEF TypeOK, Plans, Entries
  <2> QED BY <1>8, <2>1, <2>2 DEF TypeOK, CommitKey, locals
<1>9. ASSUME NEW w \in Workers, Failure(w) PROVE TypeOK'
  <2>1. CASE FailBatch(w)
    BY <2>1, TypeAbandon DEF FailBatch, TypeOK
  <2>2. ASSUME NEW d \in DataIds, TearRemoval(w, d) PROVE TypeOK'
    <3>1. TornRow(store[d]) \in Rows
      BY <2>2, TornFields DEF TearRemoval, TypeOK
    <3> QED BY <2>2, <3>1, TypeAbandon DEF TearRemoval, TypeOK
  <2>3. ASSUME NEW d \in DataIds, TearCognify(w, d) PROVE TypeOK'
    <3>1. store[d] \in Rows
      BY <2>3 DEF TearCognify, CanCognify, NeedsProcessing, TypeOK
    <3>2. DerivedRow(store[d]) \in Rows
      BY <3>1, DerivedFields DEF TypeOK
    <3> QED BY <2>3, <3>2, TypeAbandon DEF TearCognify, TypeOK
  <2> QED BY <1>9, <2>1, <2>2, <2>3 DEF Failure
<1>10. ASSUME NEW k \in Keys,
              NEW spec \in CogneeDocumentSpec \cup {NonExistence},
              Declare(k, spec)
       PROVE  TypeOK'
  BY <1>10 DEF TypeOK, Declare, locals
<1>11. ASSUME NEW c \in Config, NEW lossy \in BOOLEAN, Reconfigure(c, lossy)
       PROVE  TypeOK'
  <2>1. \A k \in Keys :
            [tracking[k] EXCEPT !.missing = @ \/ lossy] \in Entries
    BY DEF TypeOK, Entries
  <2> QED BY <1>11, <2>1 DEF TypeOK, Reconfigure, locals
<1>12. CASE UNCHANGED vars
  BY <1>12 DEF TypeOK, vars
<1> QED
  BY <1>1, <1>2, <1>3, <1>4, <1>5, <1>6, <1>7, <1>8, <1>9, <1>10, <1>11,
     <1>12 DEF Next, Progress, Disturb

(* The ids of a batch's locals belong to the batch's keys. *)
LEMMA BatchIds ==
    ASSUME TypeOK, NEW K \in SUBSET Keys, NEW k \in Keys, NEW i \in Identities
    PROVE  /\ <<k, i>> \in PayloadIds(K) <=>
                k \in K /\ i = config.identity /\ Op(k) \in WriteOps
           /\ <<k, i>> \in PurgeIds(K) <=>
                k \in K /\ i = config.identity /\ Op(k) = "replace"
           /\ <<k, i>> \in DeleteIds(K) <=>
                /\ k \in K
                /\ \/ /\ i # config.identity
                      /\ \E r \in PrevRecords(k) : r.identity = i
                   \/ i = config.identity /\ Op(k) \in {"delete", "recreate"}
<1> USE DEF DataId, document_data_id
<1>1. <<k, i>> \in PayloadIds(K) <=>
        k \in K /\ i = config.identity /\ Op(k) \in WriteOps
  BY DEF PayloadIds
<1>2. <<k, i>> \in RecreateIds(K) <=>
        k \in K /\ i = config.identity /\ Op(k) = "recreate"
  BY DEF RecreateIds
<1>3. <<k, i>> \in PurgeIds(K) <=>
        k \in K /\ i = config.identity /\ Op(k) = "replace"
  BY <1>2 DEF PurgeIds
<1>4. <<k, i>> \in UNION {StaleDataIds(j, config.identity, PrevRecords(j)) :
                             j \in K}
        <=> /\ k \in K
            /\ i # config.identity
            /\ \E r \in PrevRecords(k) : r.identity = i
  BY DEF StaleDataIds
<1>5. <<k, i>> \in {DataId(j) : j \in {l \in K : Op(l) = "delete"}}
        <=> k \in K /\ i = config.identity /\ Op(k) = "delete"
  OBVIOUS
<1>6. Op(k) = "recreate" => Op(k) \in WriteOps
  BY DEF WriteOps
<1>7. Op(k) = "delete" => Op(k) \notin WriteOps
  BY DEF WriteOps
<1>8. <<k, i>> \in DeleteIds(K) <=>
        \/ /\ \/ <<k, i>> \in UNION {StaleDataIds(j, config.identity,
                                       PrevRecords(j)) : j \in K}
              \/ <<k, i>> \in {DataId(j) : j \in {l \in K : Op(l) = "delete"}}
           /\ <<k, i>> \notin PayloadIds(K)
        \/ <<k, i>> \in RecreateIds(K)
  BY DEF DeleteIds
<1> HIDE DEF DataId, document_data_id
<1>9. <<k, i>> \in DeleteIds(K) <=>
        /\ k \in K
        /\ \/ /\ i # config.identity
              /\ \E r \in PrevRecords(k) : r.identity = i
           \/ i = config.identity /\ Op(k) \in {"delete", "recreate"}
  BY <1>1, <1>2, <1>4, <1>5, <1>6, <1>7, <1>8
<1> QED BY <1>1, <1>3, <1>9

(* Only writes have a target record. *)
LEMMA OpTarget ==
    ASSUME TypeOK, NEW k \in Keys
    PROVE  /\ Op(k) \in WriteOps => Desired(k) # NonExistence
           /\ Op(k) = "delete" <=>
                Desired(k) = NonExistence /\ Op(k) # "none"
BY OpRange DEF Op, WriteOps

LEMMA PayloadStep == TypeOK /\ PayloadInv /\ [Next]_vars => PayloadInv'
<1> SUFFICES ASSUME TypeOK, PayloadInv, [Next]_vars PROVE PayloadInv'
  OBVIOUS
<1>1. ASSUME NEW w \in Workers, NEW K \in SUBSET Keys, Submit(w, K)
      PROVE  PayloadInv'
  <2> SUFFICES ASSUME NEW v \in Workers
               PROVE  /\ \A k \in Keys, i \in Identities :
                           <<k, i>> \in payloads'[v] =>
                             /\ owner'[k] = v
                             /\ plan'[k].target # NonExistence
                      /\ pc'[v] \in {"idle", "applied"} => payloads'[v] = {}
    BY DEF PayloadInv
  <2>1. CASE v = w
    <3>1. pc'[v] = "waiting" /\ payloads'[v] = PayloadIds(K)
      BY <1>1, <2>1 DEF Submit, TypeOK
    <3>2. ASSUME NEW k \in Keys, NEW i \in Identities,
                 <<k, i>> \in PayloadIds(K)
          PROVE  owner'[k] = v /\ plan'[k].target # NonExistence
      <4>1. k \in K /\ Desired(k) # NonExistence
        BY <3>2, BatchIds, OpTarget
      <4> QED BY <1>1, <2>1, <4>1 DEF Submit
    <3> QED BY <3>1, <3>2
  <2>2. CASE v # w
    <3>1. pc'[v] = pc[v] /\ payloads'[v] = payloads[v]
      BY <1>1, <2>2 DEF Submit, TypeOK
    <3>2. \A k \in K : owner[k] = Nobody
      BY <1>1 DEF Submit
    <3>3. \A k \in Keys : owner[k] = v =>
              owner'[k] = owner[k] /\ plan'[k] = plan[k]
      BY <1>1, <3>2, SyncAssumption DEF Submit
    <3> QED BY <3>1, <3>3 DEF PayloadInv
  <2> QED BY <2>1, <2>2
<1>2. ASSUME NEW w \in Workers, AcquireLock(w) PROVE PayloadInv'
  BY <1>2 DEF PayloadInv, AcquireLock, locals, TypeOK
<1>3. ASSUME NEW w \in Workers, NEW d \in DataIds,
             \/ DeleteDocument(w, d) \/ PurgeDocument(w, d)
             \/ CognifyDocument(w, d)
      PROVE  PayloadInv'
  BY <1>3 DEF PayloadInv, DeleteDocument, PurgeDocument, CognifyDocument,
              locals
<1>4. ASSUME NEW w \in Workers, NEW d \in DataIds, AddDocument(w, d)
      PROVE  PayloadInv'
  <2>1. \A v \in Workers : payloads'[v] \subseteq payloads[v]
    BY <1>4 DEF AddDocument, TypeOK
  <2> QED BY <1>4, <2>1 DEF PayloadInv, AddDocument
<1>5. ASSUME NEW w \in Workers, FinishApply(w) PROVE PayloadInv'
  BY <1>5 DEF PayloadInv, FinishApply, TypeOK
<1>6. ASSUME NEW w \in Workers, NEW k \in Keys, CommitKey(w, k)
      PROVE  PayloadInv'
  <2>1. payloads[w] = {} /\ payloads' = payloads
    BY <1>6 DEF CommitKey, PayloadInv, locals
  <2>2. \A v \in Workers : v # w => pc'[v] = pc[v]
    BY <1>6 DEF CommitKey, TypeOK
  <2>3. \A j \in Keys : owner[j] # w =>
            owner'[j] = owner[j] /\ plan'[j] = plan[j]
    BY <1>6 DEF CommitKey, TypeOK
  <2> QED BY <2>1, <2>2, <2>3 DEF PayloadInv
<1>7. ASSUME NEW w \in Workers, AbandonBatch(w) PROVE PayloadInv'
  <2>1. payloads'[w] = {}
    BY <1>7 DEF AbandonBatch, TypeOK
  <2>2. \A v \in Workers : v # w =>
            pc'[v] = pc[v] /\ payloads'[v] = payloads[v]
    BY <1>7 DEF AbandonBatch, TypeOK
  <2>3. \A j \in Keys : owner[j] # w =>
            owner'[j] = owner[j] /\ plan'[j] = plan[j]
    BY <1>7 DEF AbandonBatch, TypeOK
  <2> QED BY <2>1, <2>2, <2>3 DEF PayloadInv
<1>8. ASSUME NEW k \in Keys,
             NEW spec \in CogneeDocumentSpec \cup {NonExistence},
             Declare(k, spec)
      PROVE  PayloadInv'
  BY <1>8 DEF PayloadInv, Declare, locals
<1>9. ASSUME NEW c \in Config, NEW lossy \in BOOLEAN, Reconfigure(c, lossy)
      PROVE  PayloadInv'
  BY <1>9 DEF PayloadInv, Reconfigure, locals
<1>10. CASE UNCHANGED vars
  BY <1>10 DEF PayloadInv, vars
<1> QED
  BY <1>1, <1>2, <1>3, <1>4, <1>5, <1>6, <1>7, <1>8, <1>9, <1>10
     DEF Next, Progress, Disturb, Failure, FailBatch, TearRemoval, TearCognify

(* Every variable of DocumentSync keeps its type: in particular a payload is
   never applied for a key that is to be deleted (_target.py 250-263). *)
THEOREM TypeCorrect == Spec => []TypeOK
<1>1. Init => TypeOK /\ PayloadInv
  <2>1. Init => PayloadInv
    BY DEF Init, PayloadInv
  <2> QED BY <2>1, TypeInit
<1>2. (TypeOK /\ PayloadInv) /\ [Next]_vars => (TypeOK /\ PayloadInv)'
  BY TypeStep, PayloadStep
<1> QED BY <1>1, <1>2, PTL DEF Spec

-----------------------------------------------------------------------------
(* The inductive invariant. *)

(* The lock: whoever takes it finds nobody inside, and only the batch that is
   inside gives it back. *)
LEMMA MutexStep == TypeOK /\ MutexInv /\ [Next]_vars => MutexInv'
<1> SUFFICES ASSUME TypeOK, MutexInv, [Next]_vars PROVE MutexInv'
  OBVIOUS
<1>1. ASSUME UNCHANGED <<pc, locked>> PROVE MutexInv'
  BY <1>1 DEF MutexInv
<1>2. ASSUME NEW w \in Workers, NEW p \in {"idle", "waiting", "applied"},
             pc[w] # "applying", pc' = [pc EXCEPT ![w] = p], locked' = locked
      PROVE  MutexInv'
  BY <1>2 DEF TypeOK, MutexInv
<1>3. ASSUME NEW w \in Workers, NEW p \in {"idle", "applied"},
             pc[w] = "applying", pc' = [pc EXCEPT ![w] = p], locked' = FALSE
      PROVE  MutexInv'
  BY <1>3 DEF TypeOK, MutexInv
<1>4. ASSUME NEW w \in Workers, AcquireLock(w) PROVE MutexInv'
  BY <1>4 DEF AcquireLock, TypeOK, MutexInv
<1>5. ASSUME NEW w \in Workers, NEW K \in SUBSET Keys, Submit(w, K)
      PROVE  MutexInv'
  BY <1>2, <1>5 DEF Submit
<1>6. ASSUME NEW w \in Workers, FinishApply(w) PROVE MutexInv'
  BY <1>3, <1>6 DEF FinishApply
<1>7. ASSUME NEW w \in Workers, NEW k \in Keys, CommitKey(w, k)
      PROVE  MutexInv'
  BY <1>2, <1>7 DEF CommitKey
<1>8. ASSUME NEW w \in Workers, AbandonBatch(w) PROVE MutexInv'
  BY <1>2, <1>3, <1>8 DEF AbandonBatch, ReleaseBy
<1>9. ASSUME NEW w \in Workers, Progress(w) PROVE MutexInv'
  BY <1>1, <1>4, <1>5, <1>6, <1>7, <1>9
     DEF Progress, DeleteDocument, PurgeDocument, AddDocument, CognifyDocument
<1>10. CASE Disturb
  BY <1>1, <1>8, <1>10
     DEF Disturb, Failure, FailBatch, TearRemoval, TearCognify, Declare,
         Reconfigure
<1> QED BY <1>1, <1>9, <1>10 DEF Next, vars

(* The settled entries are those that reconcile trusts. *)
LEMMA SingletonSettled ==
    ASSUME NEW k \in Keys, NEW r \in PrevRecords(k),
           tracking[k].states = {r}, ~tracking[k].missing
    PROVE  Settled(k)
BY DEF Settled, MayBeMissing, PrevRecords, SameDerivatives

LEMMA IInvPayload == IInv => PayloadInv
BY SyncAssumption
   DEF IInv, KeyInv, PlanInv, BatchInv, PayloadInv, InFlight

LEMMA IInvType == IInv /\ [Next]_vars => TypeOK' /\ MutexInv'
BY IInvPayload, TypeStep, MutexStep DEF IInv

(* What the types say of a key: where its records, its target and its rows
   live. *)
LEMMA KeyTypes ==
    ASSUME IInv, NEW k \in Keys
    PROVE  /\ InFlight(k) => owner[k] \in Workers
           /\ \A r \in PrevRecords(k) : /\ r \in DocumentRecord
                                        /\ r.identity \in Identities
           /\ (InFlight(k) /\ plan[k].op # "delete") =>
                /\ plan[k].target \in DocumentRecord
                /\ plan[k].target \in PrevRecords(k)
                /\ plan[k].target.identity = config.identity
           /\ config.identity \in Identities
           /\ \A i \in Identities : store[<<k, i>>] \in Rows \cup {NoRow}
<1>1. /\ tracking[k].states \subseteq TrackingState
      /\ owner[k] \in Workers \cup {Nobody}
      /\ config.identity \in Identities
  BY DEF IInv, TypeOK, Entries, Config
<1>2. \A i \in Identities : store[<<k, i>>] \in Rows \cup {NoRow}
  BY DEF IInv, TypeOK, DataIds
<1>3. \A r \in PrevRecords(k) : r \in DocumentRecord /\ r.identity \in Identities
  BY <1>1 DEF PrevRecords, TrackingState, DocumentRecord
<1>4. ASSUME InFlight(k), plan[k].op # "delete"
      PROVE  /\ plan[k].target \in PrevRecords(k)
             /\ plan[k].target.identity = config.identity
  BY <1>4 DEF IInv, KeyInv, PlanInv, PrevRecords
<1> QED BY <1>1, <1>2, <1>3, <1>4 DEF InFlight

(* A settled entry has complete rows only. *)
LEMMA SettledComplete ==
    ASSUME IInv, NEW k \in Keys, NEW i \in Identities, Settled(k),
           store[<<k, i>>] # NoRow
    PROVE  store[<<k, i>>].complete
<1>1. PICK r \in PrevRecords(k) : r.identity = i
  BY DEF IInv, KeyInv, RowsInv
<1> QED BY <1>1 DEF IInv, KeyInv, SettledInv, Intact

-----------------------------------------------------------------------------
(* Frames: what a step that does not concern a key leaves true of it. *)

(* The entry and the rows of k are as before. *)
LEMMA RowsFrame ==
    ASSUME IInv, NEW k \in Keys, tracking'[k] = tracking[k],
           \A i \in Identities : store'[<<k, i>>] = store[<<k, i>>]
    PROVE  RowsInv(k)' /\ SettledInv(k)'
<1>1. PrevRecords(k)' = PrevRecords(k) /\ (Settled(k)' <=> Settled(k))
  BY DEF PrevRecords, Settled, MayBeMissing
<1>2. RowsInv(k)'
  BY <1>1 DEF IInv, KeyInv, RowsInv
<1>3. ASSUME NEW r \in PrevRecords(k)
      PROVE  /\ store'[<<k, r.identity>>] = store[<<k, r.identity>>]
             /\ Intact(k, r) => Intact(k, r)'
  <2>1. store'[<<k, r.identity>>] = store[<<k, r.identity>>]
    BY <1>3, KeyTypes
  <2> QED BY <2>1 DEF Intact
<1>4. Settled(k)' => \A r \in PrevRecords(k)' : Intact(k, r)'
  BY <1>1, <1>3 DEF IInv, KeyInv, SettledInv
<1>5. \A r \in PrevRecords(k)' :
        (tracking'[k].states = {r} /\ ~tracking'[k].missing) =>
           store'[<<k, r.identity>>].label = r.label
  BY <1>1, <1>3 DEF IInv, KeyInv, SettledInv
<1> QED BY <1>2, <1>4, <1>5 DEF IInv, KeyInv, SettledInv

(* The entry, the plan and the rows of k are as before, and its batch is
   where it was with regard to k. *)
LEMMA KeyFrame ==
    ASSUME IInv, NEW k \in Keys,
           InFlight(k) => config' = config,
           tracking'[k] = tracking[k], owner'[k] = owner[k],
           plan'[k] = plan[k],
           \A i \in Identities : store'[<<k, i>>] = store[<<k, i>>],
           InFlight(k) =>
             /\ pc'[owner[k]] = pc[owner[k]]
             /\ needs_cognify'[owner[k]] = needs_cognify[owner[k]]
             /\ \A i \in Identities :
                  /\ <<k, i>> \in delete_ids'[owner[k]] <=>
                       <<k, i>> \in delete_ids[owner[k]]
                  /\ <<k, i>> \in purge_ids'[owner[k]] <=>
                       <<k, i>> \in purge_ids[owner[k]]
                  /\ <<k, i>> \in payloads'[owner[k]] <=>
                       <<k, i>> \in payloads[owner[k]]
             /\ delete_ids[owner[k]] = {} => delete_ids'[owner[k]] = {}
             /\ purge_ids[owner[k]] = {} => purge_ids'[owner[k]] = {}
    PROVE  KeyInv(k)'
<1>1. PrevRecords(k)' = PrevRecords(k) /\ (InFlight(k)' <=> InFlight(k))
  BY DEF PrevRecords, InFlight
<1>2. Settled(k)' <=> Settled(k)
  BY DEF PrevRecords, Settled, MayBeMissing
<1>3. PlanInv(k)'
  BY <1>1, <1>2 DEF IInv, KeyInv, PlanInv
<1>4. RowsInv(k)' /\ SettledInv(k)'
  BY RowsFrame
<1>5. FlightInv(k)'
  <2> SUFFICES ASSUME InFlight(k) PROVE FlightInv(k)'
    BY <1>1 DEF FlightInv
  <2>1. OthersGoing(k)'
    BY DEF IInv, KeyInv, FlightInv, OthersGoing
  <2>2. ASSUME plan[k].op # "delete"
        PROVE  /\ WeightReady(k)' /\ NotStarted(k)' /\ BareBeforeAdd(k)'
               /\ WrittenAfterAdd(k)' /\ CognifyAhead(k)'
    <3>1. plan[k].target.identity \in Identities
      BY <2>2, KeyTypes
    <3>2. /\ WeightReady(k) /\ NotStarted(k) /\ BareBeforeAdd(k)
          /\ WrittenAfterAdd(k) /\ CognifyAhead(k)
      BY <2>2 DEF IInv, KeyInv, FlightInv
    <3>3. WeightReady(k)' /\ NotStarted(k)'
      BY <3>1, <3>2 DEF WeightReady, NotStarted, TargetId
    <3>4. BareBeforeAdd(k)'
      BY <3>1, <3>2 DEF BareBeforeAdd, TargetId
    <3>5. WrittenAfterAdd(k)'
      BY <3>1, <3>2 DEF WrittenAfterAdd, TargetId
    <3>6. CognifyAhead(k)'
      BY <3>1, <3>2 DEF CognifyAhead, TargetId
    <3> QED BY <3>3, <3>4, <3>5, <3>6
  <2> QED BY <2>1, <2>2 DEF FlightInv
<1> QED BY <1>3, <1>4, <1>5 DEF KeyInv

(* One document of a batch was worked on: the other keys are framed. *)
LEMMA RowStep ==
    ASSUME IInv, TypeOK', MutexInv', NEW w \in Workers,
           NEW k \in Keys, NEW i \in Identities, NEW row,
           store' = [store EXCEPT ![<<k, i>>] = row],
           UNCHANGED <<config, tracking, owner, plan, pc, needs_cognify>>,
           \A v \in Workers :
             /\ delete_ids'[v] \in {delete_ids[v], delete_ids[v] \ {<<k, i>>}}
             /\ purge_ids'[v] \in {purge_ids[v], purge_ids[v] \ {<<k, i>>}}
             /\ payloads'[v] \in {payloads[v], payloads[v] \ {<<k, i>>}},
           SettledInv(k)', RowsInv(k)', FlightInv(k)'
    PROVE  IInv'
<1>2. BatchInv'
  BY DEF IInv, BatchInv
<1>3. PlanInv(k)'
  <2>1. PlanInv(k)
    BY DEF IInv, KeyInv
  <2> QED BY <2>1 DEF PlanInv, InFlight, Settled, MayBeMissing, PrevRecords
<1>4. ASSUME NEW j \in Keys, j # k PROVE KeyInv(j)'
  <2>1. \A l \in Identities : store'[<<j, l>>] = store[<<j, l>>]
    BY <1>4 DEF IInv, TypeOK, DataIds
  <2>2. InFlight(j) => owner[j] \in Workers
    BY KeyTypes
  <2>3. InFlight(j) =>
          /\ \A l \in Identities :
               /\ <<j, l>> \in delete_ids'[owner[j]] <=>
                    <<j, l>> \in delete_ids[owner[j]]
               /\ <<j, l>> \in purge_ids'[owner[j]] <=>
                    <<j, l>> \in purge_ids[owner[j]]
               /\ <<j, l>> \in payloads'[owner[j]] <=>
                    <<j, l>> \in payloads[owner[j]]
          /\ delete_ids[owner[j]] = {} => delete_ids'[owner[j]] = {}
          /\ purge_ids[owner[j]] = {} => purge_ids'[owner[j]] = {}
    BY <1>4, <2>2
  <2> QED BY <2>1, <2>3, KeyFrame
<1> QED BY <1>2, <1>3, <1>4 DEF IInv, KeyInv

-----------------------------------------------------------------------------
(* Steps that leave the store and the tracking entries alone. *)

LEMMA AcquireLockInv ==
    ASSUME IInv, NEW w \in Workers, AcquireLock(w)
    PROVE  IInv'
<1>1. TypeOK' /\ MutexInv'
  BY IInvType DEF Next, Progress
<1>2. /\ pc'[w] = "applying" /\ pc[w] = "waiting"
      /\ \A v \in Workers : v # w => pc'[v] = pc[v]
  BY DEF AcquireLock, IInv, TypeOK
<1>3. UNCHANGED <<config, tracking, store, owner, plan, delete_ids,
                  purge_ids, payloads, needs_cognify>>
  BY DEF AcquireLock, locals
<1>5. BatchInv'
  BY <1>2, <1>3 DEF IInv, BatchInv
<1>6. ASSUME NEW k \in Keys PROVE KeyInv(k)'
  <2>1. InFlight(k) => owner[k] \in Workers
    BY KeyTypes
  <2>2. CASE owner[k] # w
    BY <1>2, <1>3, <2>1, <2>2, KeyFrame
  <2>3. CASE owner[k] = w
    <3>1. PlanInv(k) /\ RowsInv(k) /\ SettledInv(k) /\ FlightInv(k)
      BY DEF IInv, KeyInv
    <3>2. PlanInv(k)' /\ RowsInv(k)' /\ SettledInv(k)'
      BY <1>2, <1>3, <2>3, <3>1
         DEF PlanInv, RowsInv, SettledInv, InFlight, Settled, MayBeMissing,
             PrevRecords, Intact
    <3>3. FlightInv(k)'
      BY <1>2, <1>3, <2>3, <3>1
         DEF FlightInv, InFlight, OthersGoing, WeightReady, NotStarted,
             BareBeforeAdd, WrittenAfterAdd, CognifyAhead, TargetId
    <3> QED BY <3>2, <3>3 DEF KeyInv
  <2> QED BY <2>2, <2>3
<1> QED BY <1>1, <1>5, <1>6 DEF IInv

LEMMA DeclareInv ==
    ASSUME IInv, NEW k \in Keys,
           NEW spec \in CogneeDocumentSpec \cup {NonExistence},
           Declare(k, spec)
    PROVE  IInv'
<1>1. TypeOK' /\ MutexInv'
  BY IInvType DEF Next, Disturb
<1>2. UNCHANGED <<config, tracking, store, owner, plan, pc, delete_ids,
                  purge_ids, payloads, needs_cognify>>
  BY DEF Declare, locals
<1>3. BatchInv'
  BY <1>2 DEF IInv, BatchInv
<1>4. \A j \in Keys : KeyInv(j)'
  BY <1>2, KeyFrame
<1> QED BY <1>1, <1>3, <1>4 DEF IInv

LEMMA FinishApplyInv ==
    ASSUME IInv, NEW w \in Workers, FinishApply(w)
    PROVE  IInv'
<1>1. TypeOK' /\ MutexInv'
  BY IInvType DEF Next, Progress
<1>2. /\ pc[w] = "applying" /\ pc'[w] = "applied"
      /\ \A v \in Workers : v # w =>
           pc'[v] = pc[v] /\ needs_cognify'[v] = needs_cognify[v]
  BY DEF FinishApply, IInv, TypeOK
<1>3. UNCHANGED <<config, tracking, store, owner, plan, delete_ids,
                  purge_ids, payloads>>
  BY DEF FinishApply
<1>5. BatchInv'
  BY <1>2, <1>3 DEF IInv, BatchInv, FinishApply
<1>6. ASSUME NEW k \in Keys PROVE KeyInv(k)'
  <2>1. InFlight(k) => owner[k] \in Workers
    BY KeyTypes
  <2>2. CASE owner[k] # w
    BY <1>2, <1>3, <2>1, <2>2, KeyFrame
  <2>3. CASE owner[k] = w
    <3>1. PlanInv(k) /\ RowsInv(k) /\ SettledInv(k) /\ FlightInv(k)
      BY DEF IInv, KeyInv
    <3>2. PlanInv(k)' /\ RowsInv(k)' /\ SettledInv(k)'
      BY <1>2, <1>3, <2>3, <3>1
         DEF PlanInv, RowsInv, SettledInv, InFlight, Settled, MayBeMissing,
             PrevRecords, Intact
    <3>3. ASSUME InFlight(k), plan[k].op # "delete"
          PROVE  CognifyAhead(k)'
      <4> SUFFICES ASSUME plan[k].op \in Rebuild
                   PROVE  store[TargetId(k)].complete
        BY <1>2, <1>3, <2>3 DEF CognifyAhead, TargetId
      <4>1. needs_cognify[w]
        BY <1>2, <2>3, <3>1, <3>3 DEF FlightInv, CognifyAhead
      <4>2. \A d \in DataIds : ~NeedsProcessing(d)
        BY <4>1 DEF FinishApply
      <4>3. store[TargetId(k)] # NoRow
        BY <2>3, <3>1, <3>3 DEF FinishApply, FlightInv, WrittenAfterAdd
      <4>4. TargetId(k) \in DataIds
        BY <3>3, KeyTypes DEF TargetId, DataIds
      <4> QED BY <4>2, <4>3, <4>4 DEF NeedsProcessing
    <3>4. FlightInv(k)'
      BY <1>2, <1>3, <2>3, <3>1, <3>3
         DEF FlightInv, InFlight, OthersGoing, WeightReady, NotStarted,
             BareBeforeAdd, WrittenAfterAdd, TargetId
    <3> QED BY <3>2, <3>4 DEF KeyInv
  <2> QED BY <2>2, <2>3
<1> QED BY <1>1, <1>5, <1>6 DEF IInv

LEMMA ReconfigureInv ==
    ASSUME IInv, NEW c \in Config, NEW lossy \in BOOLEAN,
           Reconfigure(c, lossy)
    PROVE  IInv'
<1>1. TypeOK' /\ MutexInv'
  BY IInvType DEF Next, Disturb
<1>2. UNCHANGED <<store, owner, plan, pc, delete_ids, purge_ids, payloads,
                  needs_cognify>>
  BY DEF Reconfigure, locals
<1>3. BatchInv'
  BY <1>2 DEF IInv, BatchInv
<1>4. ASSUME NEW k \in Keys PROVE KeyInv(k)'
  <2>1. ~InFlight(k) /\ ~InFlight(k)'
    BY <1>2, KeyTypes DEF IInv, KeyInv, PlanInv, Reconfigure, AllIdle, InFlight
  <2>2. /\ tracking'[k].states = tracking[k].states
        /\ tracking[k].missing => tracking'[k].missing
    <3>1. tracking'[k] = [tracking[k] EXCEPT !.missing = @ \/ lossy]
      BY DEF Reconfigure
    <3>2. tracking[k] \in Entries
      BY DEF IInv, TypeOK
    <3> QED BY <3>1, <3>2 DEF Entries
  <2>3. PrevRecords(k)' = PrevRecords(k)
    BY <2>2 DEF PrevRecords
  <2>4. Settled(k)' => Settled(k)
    BY <2>2 DEF Settled, MayBeMissing, PrevRecords
  <2>5. RowsInv(k) /\ SettledInv(k) /\ PlanInv(k)
    BY DEF IInv, KeyInv
  <2>6. RowsInv(k)'
    BY <1>2, <2>3, <2>5 DEF RowsInv
  <2>7. Settled(k)' => \A r \in PrevRecords(k)' : Intact(k, r)'
    BY <1>2, <2>3, <2>4, <2>5 DEF SettledInv, Intact
  <2>8. SettledInv(k)'
    BY <1>2, <2>2, <2>3, <2>5, <2>7 DEF SettledInv
  <2>9. PlanInv(k)' /\ FlightInv(k)'
    BY <1>2, <2>1, <2>5 DEF PlanInv, FlightInv
  <2> QED BY <2>6, <2>8, <2>9 DEF KeyInv
<1> QED BY <1>1, <1>3, <1>4 DEF IInv

-----------------------------------------------------------------------------
(* The phases of a batch. *)

(* A key that is not settled has no promise to keep about its rows. *)
LEMMA UnsettledKept ==
    ASSUME IInv, NEW k \in Keys, tracking'[k] = tracking[k], ~Settled(k)
    PROVE  SettledInv(k)'
<1>1. SettledInv(k)
  BY DEF IInv, KeyInv
<1>2. ~Settled(k)' /\ PrevRecords(k)' = PrevRecords(k)
  BY DEF Settled, MayBeMissing, PrevRecords
<1>3. \A r \in PrevRecords(k) :
        ~(tracking[k].states = {r} /\ ~tracking[k].missing)
  BY SingletonSettled
<1> QED BY <1>1, <1>2, <1>3 DEF SettledInv

(* A row that keeps its weight, or goes, keeps its record. *)
LEMMA RowsKept ==
    ASSUME IInv, NEW k \in Keys, NEW i \in Identities, NEW row,
           tracking'[k] = tracking[k],
           store' = [store EXCEPT ![<<k, i>>] = row],
           \/ row = NoRow
           \/ store[<<k, i>>] # NoRow /\ row.weight = store[<<k, i>>].weight
           \/ \E r \in PrevRecords(k) :
                r.identity = i /\ r.weight = row.weight
    PROVE  RowsInv(k)'
<1>1. RowsInv(k) /\ PrevRecords(k)' = PrevRecords(k)
  BY DEF IInv, KeyInv, PrevRecords
<1>2. /\ store'[<<k, i>>] = row
      /\ \A j \in Identities : j # i => store'[<<k, j>>] = store[<<k, j>>]
  BY DEF IInv, TypeOK, DataIds
<1> QED BY <1>1, <1>2 DEF RowsInv

LEMMA DeleteDocumentInv ==
    ASSUME IInv, NEW w \in Workers, NEW d \in DataIds, DeleteDocument(w, d)
    PROVE  IInv'
<1>1. PICK k \in Keys, i \in Identities : d = <<k, i>>
  BY DEF DataIds
<1>2. TypeOK' /\ MutexInv'
  BY IInvType DEF Next, Progress
<1>3. /\ pc[w] = "applying" /\ <<k, i>> \in delete_ids[w]
      /\ store' = [store EXCEPT ![<<k, i>>] = NoRow]
      /\ delete_ids'[w] = delete_ids[w] \ {<<k, i>>}
      /\ \A v \in Workers : v # w => delete_ids'[v] = delete_ids[v]
      /\ UNCHANGED <<config, tracking, owner, plan, pc, purge_ids, payloads,
                     needs_cognify>>
  BY <1>1 DEF DeleteDocument, CanDelete, IInv, TypeOK
<1>4. /\ owner[k] = w /\ plan[k].op # "update_metadata" /\ InFlight(k)
  BY <1>3, SyncAssumption DEF IInv, BatchInv, InFlight
<1>5. ~Settled(k)
  BY <1>4 DEF IInv, KeyInv, PlanInv
<1>6. SettledInv(k)'
  BY <1>3, <1>5, UnsettledKept
<1>7. RowsInv(k)'
  BY <1>3, RowsKept
<1>8. /\ store'[<<k, i>>] = NoRow
      /\ \A j \in Identities : j # i => store'[<<k, j>>] = store[<<k, j>>]
  BY <1>3 DEF IInv, TypeOK, DataIds
<1>9. FlightInv(k)'
  <2>1. FlightInv(k)
    BY DEF IInv, KeyInv
  <2>2. OthersGoing(k)'
    BY <1>3, <1>4, <1>8, <2>1 DEF FlightInv, OthersGoing
  <2>3. ASSUME plan[k].op # "delete"
        PROVE  /\ WeightReady(k)' /\ NotStarted(k)' /\ BareBeforeAdd(k)'
               /\ WrittenAfterAdd(k)' /\ CognifyAhead(k)'
    <3>1. plan[k].target.identity \in Identities
      BY <1>4, <2>3, KeyTypes
    <3>2. /\ WeightReady(k) /\ BareBeforeAdd(k) /\ WrittenAfterAdd(k)
          /\ CognifyAhead(k)
      BY <1>4, <2>1, <2>3 DEF FlightInv
    <3>3. NotStarted(k)' /\ CognifyAhead(k)'
      BY <1>3, <1>4, <3>2 DEF NotStarted, CognifyAhead
    <3>4. WeightReady(k)'
      BY <1>3, <1>4, <1>8, <3>1, <3>2 DEF WeightReady, TargetId
    <3>5. BareBeforeAdd(k)'
      BY <1>3, <1>4, <1>8, <3>1, <3>2 DEF BareBeforeAdd, TargetId
    <3>6. WrittenAfterAdd(k)'
      BY <1>3, <1>4, <3>2 DEF WrittenAfterAdd, TargetId
    <3> QED BY <3>3, <3>4, <3>5, <3>6
  <2> QED BY <1>3, <2>2, <2>3 DEF FlightInv
<1> QED BY <1>2, <1>3, <1>6, <1>7, <1>9, RowStep

LEMMA PurgeDocumentInv ==
    ASSUME IInv, NEW w \in Workers, NEW d \in DataIds, PurgeDocument(w, d)
    PROVE  IInv'
<1>1. PICK k \in Keys, i \in Identities : d = <<k, i>>
  BY DEF DataIds
<1>2. TypeOK' /\ MutexInv'
  BY IInvType DEF Next, Progress
<1> DEFINE row == IF store[<<k, i>>] = NoRow THEN NoRow
                  ELSE PurgedRow(store[<<k, i>>])
<1>3. /\ pc[w] = "applying" /\ <<k, i>> \in purge_ids[w]
      /\ delete_ids[w] = {}
      /\ store' = [store EXCEPT ![<<k, i>>] = row]
      /\ purge_ids'[w] = purge_ids[w] \ {<<k, i>>}
      /\ \A v \in Workers : v # w => purge_ids'[v] = purge_ids[v]
      /\ UNCHANGED <<config, tracking, owner, plan, pc, delete_ids, payloads,
                     needs_cognify>>
  BY <1>1 DEF PurgeDocument, CanPurge, IInv, TypeOK
<1>4. row = NoRow <=> store[<<k, i>>] = NoRow
  BY PurgedFields, KeyTypes, NoRowAssumption
<1>5. store[<<k, i>>] # NoRow =>
        /\ row.weight = store[<<k, i>>].weight
        /\ row.complete = FALSE /\ row.derived = {}
  BY PurgedFields, KeyTypes
<1> HIDE DEF row
<1>6. /\ owner[k] = w /\ plan[k].op = "replace" /\ InFlight(k)
      /\ i = plan[k].target.identity
  BY <1>3, SyncAssumption DEF IInv, BatchInv, InFlight
<1>7. SettledInv(k)'
  <2>1. ~Settled(k)
    BY <1>6 DEF IInv, KeyInv, PlanInv
  <2> QED BY <1>3, <2>1, UnsettledKept
<1>8. RowsInv(k)'
  BY <1>3, <1>4, <1>5, RowsKept
<1>9. /\ store'[<<k, i>>] = row
      /\ \A j \in Identities : j # i => store'[<<k, j>>] = store[<<k, j>>]
  BY <1>3 DEF IInv, TypeOK, DataIds
<1>10. FlightInv(k)'
  <2>1. FlightInv(k)
    BY DEF IInv, KeyInv
  <2>2. OthersGoing(k)'
    BY <1>3, <1>6 , <1>9, <2>1 DEF FlightInv, OthersGoing
  <2>3. /\ WeightReady(k) /\ BareBeforeAdd(k) /\ WrittenAfterAdd(k)
        /\ CognifyAhead(k)
    BY <1>6, <2>1 DEF FlightInv
  <2>4. NotStarted(k)' /\ CognifyAhead(k)'
    BY <1>3, <1>6, <2>3 DEF NotStarted, CognifyAhead
  <2>5. WeightReady(k)'
    BY <1>3, <1>4, <1>5, <1>6, <1>9, <2>3 DEF WeightReady, TargetId
  <2>6. BareBeforeAdd(k)'
    BY <1>3, <1>4, <1>5, <1>6, <1>9 DEF BareBeforeAdd, TargetId
  <2>7. WrittenAfterAdd(k)'
    BY <1>3, <1>6, <2>3 DEF WrittenAfterAdd, TargetId
  <2> QED BY <1>3, <1>6, <2>2, <2>4, <2>5, <2>6, <2>7 DEF FlightInv
<1> QED BY <1>2, <1>3, <1>7, <1>8, <1>10, RowStep

LEMMA AddDocumentInv ==
    ASSUME IInv, NEW w \in Workers, NEW d \in DataIds, AddDocument(w, d)
    PROVE  IInv'
<1>1. PICK k \in Keys, i \in Identities : d = <<k, i>>
  BY DEF DataIds
<1>2. TypeOK' /\ MutexInv'
  BY IInvType DEF Next, Progress
<1> DEFINE r == plan[k].target
           old == store[<<k, i>>]
           row == AddedRow(old, r)
<1>3. /\ pc[w] = "applying" /\ <<k, i>> \in payloads[w]
      /\ delete_ids[w] = {} /\ purge_ids[w] = {}
      /\ store' = [store EXCEPT ![<<k, i>>] = row]
      /\ payloads'[w] = payloads[w] \ {<<k, i>>}
      /\ \A v \in Workers : v # w => payloads'[v] = payloads[v]
      /\ UNCHANGED <<config, tracking, owner, plan, pc, delete_ids,
                     purge_ids, needs_cognify>>
  BY <1>1 DEF AddDocument, CanAdd, IInv, TypeOK
<1>4. /\ owner[k] = w /\ plan[k].op # "delete" /\ InFlight(k)
      /\ i = r.identity
  BY <1>3, SyncAssumption DEF IInv, BatchInv, InFlight
<1>5. r \in DocumentRecord /\ r \in PrevRecords(k)
  BY <1>4, KeyTypes
<1>6. old = NoRow =>
        /\ row \in Rows /\ row.weight = r.weight
        /\ row.content = r.content /\ row.label = r.label
        /\ row.annotations = r.annotations
        /\ ~row.complete /\ row.derived = {}
  BY <1>5, NewFields DEF AddedRow
<1>7. old # NoRow =>
        /\ row \in Rows /\ row.weight = old.weight
        /\ row.content = r.content /\ row.label = r.label
        /\ row.annotations = r.annotations
        /\ row.complete = (old.complete /\ old.content = r.content)
        /\ row.derived = old.derived
  BY <1>5, KeyTypes, UpdatedFields DEF AddedRow
<1>8. row # NoRow
  BY <1>6, <1>7, NoRowAssumption
<1> HIDE DEF row
<1>9. /\ store'[<<k, i>>] = row
      /\ \A j \in Identities : j # i => store'[<<k, j>>] = store[<<k, j>>]
  BY <1>3 DEF IInv, TypeOK, DataIds
<1>10. RowsInv(k)'
  BY <1>3, <1>4, <1>5, <1>6, <1>7, RowsKept
<1>11. ASSUME Settled(k)
       PROVE  /\ old # NoRow /\ old.content = r.content
              /\ old.annotations = r.annotations /\ old.complete
              /\ old.derived = {Fragment(r, r.processing)}
  BY <1>4, <1>5, <1>11 DEF IInv, KeyInv, SettledInv, Intact
<1>12. SettledInv(k)'
  <2>1. CASE ~Settled(k)
    BY <1>3, <2>1, UnsettledKept
  <2>2. CASE Settled(k)
    <3>1. PrevRecords(k)' = PrevRecords(k) /\ SettledInv(k)
      BY <1>3 DEF PrevRecords, IInv, KeyInv
    <3>2. ASSUME NEW s \in PrevRecords(k) PROVE Intact(k, s)'
      <4>1. /\ s.identity = i /\ s.content = r.content
            /\ s.annotations = r.annotations /\ s.processing = r.processing
        BY <1>4, <1>5, <2>2, <3>2 DEF Settled, SameDerivatives
      <4>2. Fragment(s, s.processing) = Fragment(r, r.processing)
        BY <4>1 DEF Fragment
      <4> QED BY <1>7, <1>8, <1>9, <1>11, <2>2, <4>1, <4>2 DEF Intact
    <3>3. \A s \in PrevRecords(k) :
            (tracking'[k].states = {s} /\ ~tracking'[k].missing) =>
               store'[<<k, s.identity>>].label = s.label
      BY <1>3, <1>4, <1>5, <1>6, <1>7, <1>9 DEF PrevRecords
    <3> QED BY <1>3, <3>1, <3>2, <3>3 DEF SettledInv
  <2> QED BY <2>1, <2>2
<1>13. FlightInv(k)'
  <2>1. FlightInv(k)
    BY DEF IInv, KeyInv
  <2>2. OthersGoing(k)'
    BY <1>3, <1>4, <1>9, <2>1 DEF FlightInv, OthersGoing
  <2>3. /\ WeightReady(k) /\ BareBeforeAdd(k) /\ CognifyAhead(k)
    BY <1>4, <2>1 DEF FlightInv
  <2>4. NotStarted(k)' /\ CognifyAhead(k)'
    BY <1>3, <1>4, <2>3 DEF NotStarted, CognifyAhead
  <2>5. WeightReady(k)'
    BY <1>3, <1>4, <1>6, <1>7, <1>9, <2>3 DEF WeightReady, TargetId
  <2>6. BareBeforeAdd(k)'
    BY <1>3, <1>4, <1>9 DEF BareBeforeAdd, TargetId
  <2>7. row.derived = IF row.complete THEN {Fragment(r, r.processing)} ELSE {}
    <3>1. CASE Settled(k)
      BY <1>7, <1>11, <3>1
    <3>2. CASE ~Settled(k)
      <4>1. plan[k].op \in Rebuild
        BY <1>4, <3>2
           DEF IInv, KeyInv, PlanInv, TypeOK, Plans, WriteOps, Rebuild
      <4>2. old = NoRow \/ (old.derived = {} /\ ~old.complete)
        BY <1>3, <1>4, <2>3, <4>1 DEF BareBeforeAdd, TargetId
      <4> QED BY <1>6, <1>7, <4>2
    <3> QED BY <3>1, <3>2
  <2>8. WrittenAfterAdd(k)'
    BY <1>3, <1>4, <1>6, <1>7, <1>8, <1>9, <2>7 DEF WrittenAfterAdd, TargetId
  <2> QED BY <1>3, <2>2, <2>4, <2>5, <2>6, <2>8 DEF FlightInv
<1> QED BY <1>2, <1>3, <1>10, <1>12, <1>13, RowStep

(* cognify reaches a document of another batch: that batch has not begun to
   work on it, or would have finished it. *)
LEMMA BystanderFlight ==
    ASSUME IInv, NEW w \in Workers, NEW k \in Keys, NEW i \in Identities,
           CanCognify(w, <<k, i>>), owner[k] # w, NEW row,
           row # NoRow, row.weight = store[<<k, i>>].weight,
           store' = [store EXCEPT ![<<k, i>>] = row],
           config' = config, tracking'[k] = tracking[k],
           owner'[k] = owner[k], plan'[k] = plan[k],
           InFlight(k) =>
             /\ pc'[owner[k]] = pc[owner[k]]
             /\ needs_cognify'[owner[k]] = needs_cognify[owner[k]]
             /\ delete_ids'[owner[k]] = delete_ids[owner[k]]
             /\ purge_ids'[owner[k]] = purge_ids[owner[k]]
             /\ payloads'[owner[k]] = payloads[owner[k]]
    PROVE  FlightInv(k)'
<1> SUFFICES ASSUME InFlight(k) PROVE FlightInv(k)'
  BY DEF FlightInv, InFlight
<1>1. pc[w] = "applying" /\ store[<<k, i>>] # NoRow /\ ~store[<<k, i>>].complete
  BY DEF CanCognify, NeedsProcessing
<1>2. ~Settled(k)
  BY <1>1, SettledComplete
<1>3. PlanInv(k) /\ FlightInv(k) /\ owner[k] \in Workers
  BY KeyTypes DEF IInv, KeyInv
<1>4. pc[owner[k]] \in {"waiting", "applied"}
  <2>1. pc[owner[k]] # "idle"
    BY <1>3 DEF PlanInv
  <2>2. pc[owner[k]] # "applying"
    BY <1>1, <1>3 DEF IInv, MutexInv
  <2> QED BY <1>3, <2>1, <2>2 DEF IInv, TypeOK
<1>5. /\ store'[<<k, i>>] = row
      /\ \A j \in Identities : j # i => store'[<<k, j>>] = store[<<k, j>>]
  BY DEF IInv, TypeOK, DataIds
<1>6. OthersGoing(k)'
  BY <1>1, <1>3, <1>5 DEF FlightInv, OthersGoing
<1>7. ASSUME plan[k].op # "delete"
      PROVE  /\ WeightReady(k)' /\ NotStarted(k)' /\ BareBeforeAdd(k)'
             /\ WrittenAfterAdd(k)' /\ CognifyAhead(k)'
  <2>1. /\ plan[k].target.identity \in Identities
        /\ plan[k].op \in Rebuild
    BY <1>2, <1>3, <1>7, KeyTypes
       DEF PlanInv, IInv, TypeOK, Plans, WriteOps, Rebuild
  <2>2. /\ WeightReady(k) /\ NotStarted(k) /\ WrittenAfterAdd(k)
        /\ CognifyAhead(k) /\ BareBeforeAdd(k)
    BY <1>3, <1>7 DEF FlightInv
  <2>3. WeightReady(k)'
    BY <1>1, <1>5, <2>1, <2>2 DEF WeightReady, TargetId
  <2>4. CASE pc[owner[k]] = "waiting"
    <3>1. NotStarted(k)' /\ WrittenAfterAdd(k)'
      BY <1>1, <1>5, <2>1, <2>2, <2>4 DEF NotStarted, WrittenAfterAdd, TargetId
    <3>2. BareBeforeAdd(k)'
      BY <1>1, <1>5, <2>1, <2>2, <2>4
         DEF NotStarted, BareBeforeAdd, TargetId, Rebuild
    <3>3. CognifyAhead(k)'
      BY <2>2, <2>4 DEF CognifyAhead, TargetId
    <3> QED BY <2>3, <3>1, <3>2, <3>3
  <2>5. CASE pc[owner[k]] = "applied"
    <3>1. payloads[owner[k]] = {}
      BY <1>3, <2>5 DEF IInv, BatchInv
    <3>2. store'[TargetId(k)] = store[TargetId(k)]
      BY <1>1, <1>5, <2>1, <2>2, <2>5 DEF CognifyAhead, TargetId
    <3>3. NotStarted(k)' /\ BareBeforeAdd(k)'
      BY <2>5, <3>1 DEF NotStarted, BareBeforeAdd, TargetId
    <3>4. WrittenAfterAdd(k)' /\ CognifyAhead(k)'
      BY <2>2, <2>5, <3>2 DEF WrittenAfterAdd, CognifyAhead, TargetId
    <3> QED BY <2>3, <3>3, <3>4
  <2> QED BY <1>4, <2>4, <2>5
<1> QED BY <1>6, <1>7 DEF FlightInv

LEMMA CognifyDocumentInv ==
    ASSUME IInv, NEW w \in Workers, NEW d \in DataIds, CognifyDocument(w, d)
    PROVE  IInv'
<1>1. PICK k \in Keys, i \in Identities : d = <<k, i>>
  BY DEF DataIds
<1>2. TypeOK' /\ MutexInv'
  BY IInvType DEF Next, Progress
<1> DEFINE old == store[<<k, i>>]
           row == CognifiedRow(old)
<1>3. /\ CanCognify(w, <<k, i>>)
      /\ store' = [store EXCEPT ![<<k, i>>] = row]
      /\ UNCHANGED <<config, tracking, owner, plan, pc, delete_ids,
                     purge_ids, payloads, needs_cognify>>
  BY <1>1 DEF CognifyDocument, locals
<1>4. /\ delete_ids[w] = {} /\ purge_ids[w] = {} /\ payloads[w] = {}
      /\ old # NoRow /\ ~old.complete /\ pc[w] = "applying"
  BY <1>3 DEF CanCognify, NeedsProcessing
<1>5. config \in Config /\ old \in Rows
  BY <1>4, KeyTypes DEF IInv, TypeOK
<1>6. /\ row # NoRow
      /\ row.content = old.content /\ row.label = old.label
      /\ row.annotations = old.annotations /\ row.weight = old.weight
      /\ row.complete
      /\ row.derived = old.derived \cup {Fragment(old, config.processing)}
  BY <1>5, CognifiedFields, NoRowAssumption
<1> HIDE DEF row
<1>7. ~Settled(k)
  BY <1>4, SettledComplete
<1>8. SettledInv(k)'
  BY <1>3, <1>7, UnsettledKept
<1>9. RowsInv(k)'
  BY <1>3, <1>4, <1>6, RowsKept
<1>10. /\ store'[<<k, i>>] = row
       /\ \A j \in Identities : j # i => store'[<<k, j>>] = store[<<k, j>>]
  BY <1>3 DEF IInv, TypeOK, DataIds
<1>11. FlightInv(k)'
  <2>1. CASE owner[k] # w
    BY <1>3, <1>6, <2>1, BystanderFlight
  <2>2. CASE owner[k] = w
    <3> DEFINE r == plan[k].target
    <3>1. InFlight(k) /\ FlightInv(k) /\ PlanInv(k)
      BY <2>2, SyncAssumption DEF InFlight, IInv, KeyInv
    <3>2. plan[k].op # "delete" /\ i = r.identity
      BY <1>4, <2>2, <3>1 DEF FlightInv, OthersGoing
    <3>3. /\ WeightReady(k) /\ CognifyAhead(k) /\ WrittenAfterAdd(k)
      BY <3>1, <3>2 DEF FlightInv
    <3>4. OthersGoing(k)'
      BY <1>3, <1>4, <1>10, <3>1 DEF FlightInv, OthersGoing
    <3>5. WeightReady(k)'
      BY <1>3, <1>4, <1>6, <1>10, <3>2, <3>3 DEF WeightReady, TargetId
    <3>6. NotStarted(k)' /\ BareBeforeAdd(k)' /\ CognifyAhead(k)'
      BY <1>3, <1>4, <2>2, <3>3
         DEF NotStarted, BareBeforeAdd, CognifyAhead, TargetId
    <3>7. /\ old.content = r.content /\ old.label = r.label
          /\ old.annotations = r.annotations /\ old.derived = {}
      BY <1>4, <2>2, <3>2, <3>3 DEF WrittenAfterAdd, TargetId
    <3>8. Fragment(old, config.processing) = Fragment(r, r.processing)
      BY <3>1, <3>2, <3>7 DEF Fragment, PlanInv
    <3>9. WrittenAfterAdd(k)'
      <4>1. row.derived = {Fragment(r, r.processing)}
        BY <1>6, <3>7, <3>8
      <4>2. /\ row.content = r.content /\ row.label = r.label
            /\ row.annotations = r.annotations
        BY <1>6, <3>7
      <4>3. /\ store'[TargetId(k)] = row
            /\ TargetId(k)' = TargetId(k) /\ plan'[k].target = r
        BY <1>3, <1>10, <3>2 DEF TargetId
      <4> QED BY <1>3, <1>4, <1>6, <2>2, <4>1, <4>2, <4>3
              DEF WrittenAfterAdd
    <3> QED BY <1>3, <3>2, <3>4, <3>5, <3>6, <3>9 DEF FlightInv
  <2> QED BY <2>1, <2>2
<1> QED BY <1>2, <1>3, <1>8, <1>9, <1>11, RowStep

-----------------------------------------------------------------------------
(* Failures. *)

LEMMA AbandonInv ==
    ASSUME IInv, TypeOK', MutexInv', NEW w \in Workers, AbandonBatch(w),
           \A k \in Keys : RowsInv(k)' /\ SettledInv(k)',
           \A k \in Keys : owner[k] # w => FlightInv(k)'
    PROVE  IInv'
<1>1. /\ pc'[w] = "idle" /\ delete_ids'[w] = {} /\ purge_ids'[w] = {}
      /\ payloads'[w] = {}
      /\ \A v \in Workers : v # w =>
           /\ pc'[v] = pc[v] /\ delete_ids'[v] = delete_ids[v]
           /\ purge_ids'[v] = purge_ids[v] /\ payloads'[v] = payloads[v]
  BY DEF AbandonBatch, IInv, TypeOK
<1>2. \A k \in Keys :
        /\ owner[k] = w => owner'[k] = Nobody /\ plan'[k] = IdlePlan
        /\ owner[k] # w => owner'[k] = owner[k] /\ plan'[k] = plan[k]
  BY DEF AbandonBatch
<1>4. BatchInv'
  BY <1>1, <1>2 DEF IInv, BatchInv
<1>5. ASSUME NEW k \in Keys PROVE PlanInv(k)' /\ FlightInv(k)'
  <2>1. CASE owner[k] = w
    BY <1>2, <2>1 DEF PlanInv, FlightInv, InFlight
  <2>2. CASE owner[k] # w
    <3>1. PlanInv(k) /\ (InFlight(k) => owner[k] \in Workers)
      BY KeyTypes DEF IInv, KeyInv
    <3>2. config' = config /\ tracking' = tracking
      BY DEF AbandonBatch
    <3>3. PlanInv(k)'
      BY <1>1, <1>2, <2>2, <3>1, <3>2
         DEF PlanInv, InFlight, Settled, MayBeMissing, PrevRecords
    <3> QED BY <2>2, <3>3
  <2> QED BY <2>1, <2>2
<1> QED BY <1>4, <1>5 DEF IInv, KeyInv

(* The keys of the other batches whose rows the failure did not touch. *)
LEMMA AbandonFrame ==
    ASSUME IInv, NEW w \in Workers, AbandonBatch(w), NEW k \in Keys,
           \A i \in Identities : store'[<<k, i>>] = store[<<k, i>>]
    PROVE  /\ RowsInv(k)' /\ SettledInv(k)'
           /\ owner[k] # w => FlightInv(k)'
<1>1. tracking'[k] = tracking[k] /\ config' = config
  BY DEF AbandonBatch
<1>2. RowsInv(k)' /\ SettledInv(k)'
  BY <1>1, RowsFrame
<1>3. ASSUME owner[k] # w PROVE FlightInv(k)'
  <2>1. InFlight(k) => owner[k] \in Workers
    BY KeyTypes
  <2>2. \A v \in Workers : v # w =>
           /\ pc'[v] = pc[v] /\ delete_ids'[v] = delete_ids[v]
           /\ purge_ids'[v] = purge_ids[v] /\ payloads'[v] = payloads[v]
           /\ needs_cognify'[v] = needs_cognify[v]
    BY DEF AbandonBatch, IInv, TypeOK
  <2>3. owner'[k] = owner[k] /\ plan'[k] = plan[k]
    BY <1>3 DEF AbandonBatch
  <2>4. KeyInv(k)'
    BY <1>1, <1>3, <2>1, <2>2, <2>3, KeyFrame
  <2> QED BY <2>4 DEF KeyInv
<1> QED BY <1>2, <1>3

LEMMA FailureInv ==
    ASSUME IInv, NEW w \in Workers, Failure(w)
    PROVE  IInv'
<1>1. TypeOK' /\ MutexInv'
  BY IInvType DEF Next, Disturb
<1>2. CASE FailBatch(w)
  BY <1>1, <1>2, AbandonFrame, AbandonInv DEF FailBatch
<1>3. ASSUME NEW k \in Keys, NEW i \in Identities, NEW row,
             AbandonBatch(w), ~Settled(k), store[<<k, i>>] # NoRow,
             store' = [store EXCEPT ![<<k, i>>] = row],
             row.weight = store[<<k, i>>].weight,
             owner[k] # w => FlightInv(k)'
      PROVE  IInv'
  <2>1. tracking' = tracking
    BY <1>3 DEF AbandonBatch
  <2>2. RowsInv(k)' /\ SettledInv(k)'
    BY <1>3, <2>1, UnsettledKept, RowsKept
  <2>3. ASSUME NEW j \in Keys, j # k
        PROVE  /\ RowsInv(j)' /\ SettledInv(j)'
               /\ owner[j] # w => FlightInv(j)'
    <3>1. \A l \in Identities : store'[<<j, l>>] = store[<<j, l>>]
      BY <1>3, <2>3 DEF IInv, TypeOK, DataIds
    <3> QED BY <1>3, <3>1, AbandonFrame
  <2> QED BY <1>1, <1>3, <2>2, <2>3, AbandonInv
<1>4. ASSUME NEW d \in DataIds, TearRemoval(w, d) PROVE IInv'
  <2>1. PICK k \in Keys, i \in Identities : d = <<k, i>>
    BY DEF DataIds
  <2>2. /\ <<k, i>> \in delete_ids[w] \/ <<k, i>> \in purge_ids[w]
        /\ store[<<k, i>>] # NoRow /\ AbandonBatch(w)
        /\ store' = [store EXCEPT ![<<k, i>>] = TornRow(store[<<k, i>>])]
    BY <1>4, <2>1 DEF TearRemoval, CanDelete, CanPurge
  <2>3. owner[k] = w /\ plan[k].op # "update_metadata" /\ InFlight(k)
    BY <2>2, SyncAssumption DEF IInv, BatchInv, InFlight
  <2>4. ~Settled(k)
    BY <2>3 DEF IInv, KeyInv, PlanInv
  <2>5. TornRow(store[<<k, i>>]).weight = store[<<k, i>>].weight
    BY <2>2, KeyTypes, TornFields
  <2> QED BY <1>3, <2>2, <2>3, <2>4, <2>5
<1>5. ASSUME NEW d \in DataIds, TearCognify(w, d) PROVE IInv'
  <2>1. PICK k \in Keys, i \in Identities : d = <<k, i>>
    BY DEF DataIds
  <2>2. /\ CanCognify(w, <<k, i>>) /\ AbandonBatch(w)
        /\ store[<<k, i>>] # NoRow /\ ~store[<<k, i>>].complete
        /\ store' = [store EXCEPT ![<<k, i>>] = DerivedRow(store[<<k, i>>])]
    BY <1>5, <2>1 DEF TearCognify, CanCognify, NeedsProcessing
  <2>3. ~Settled(k)
    BY <2>2, SettledComplete
  <2>4. /\ DerivedRow(store[<<k, i>>]) # NoRow
        /\ DerivedRow(store[<<k, i>>]).weight = store[<<k, i>>].weight
    <3>1. store[<<k, i>>] \in Rows /\ config \in Config
      BY <2>2, KeyTypes DEF IInv, TypeOK
    <3> QED BY <3>1, DerivedFields, NoRowAssumption
  <2>5. ASSUME owner[k] # w PROVE FlightInv(k)'
    <3>1. InFlight(k) => owner[k] \in Workers
      BY KeyTypes
    <3>2. \A v \in Workers : v # w =>
             /\ pc'[v] = pc[v] /\ delete_ids'[v] = delete_ids[v]
             /\ purge_ids'[v] = purge_ids[v] /\ payloads'[v] = payloads[v]
             /\ needs_cognify'[v] = needs_cognify[v]
      BY <2>2 DEF AbandonBatch, IInv, TypeOK
    <3>3. /\ owner'[k] = owner[k] /\ plan'[k] = plan[k]
          /\ tracking' = tracking /\ config' = config
      BY <2>2, <2>5 DEF AbandonBatch
    <3> QED BY <2>2, <2>4, <2>5, <3>1, <3>2, <3>3, BystanderFlight
  <2> QED BY <1>3, <2>2, <2>3, <2>4, <2>5
<1> QED BY <1>2, <1>4, <1>5 DEF Failure

-----------------------------------------------------------------------------
(* Commit. *)

(* When the sink has returned, the key's rows are those of its target. *)
LEMMA AppliedExact ==
    ASSUME IInv, NEW w \in Workers, NEW k \in Keys,
           pc[w] = "applied", owner[k] = w
    PROVE  Holds(k, plan[k].target)
<1> DEFINE r == plan[k].target
<1>1. /\ InFlight(k) /\ FlightInv(k) /\ PlanInv(k)
      /\ delete_ids[w] = {} /\ payloads[w] = {}
  BY SyncAssumption DEF IInv, KeyInv, InFlight, BatchInv
<1>2. CASE plan[k].op = "delete"
  <2>1. r = NonExistence
    BY <1>1, <1>2 DEF PlanInv
  <2>2. \A i \in Identities : store[<<k, i>>] = NoRow
    BY <1>1, <1>2 DEF FlightInv, OthersGoing
  <2> QED BY <2>1, <2>2 DEF Holds, NoRows, document_data_id
<1>3. CASE plan[k].op # "delete"
  <2> DEFINE row == store[<<k, r.identity>>]
  <2>1. /\ r # NonExistence /\ r \in DocumentRecord
        /\ r \in PrevRecords(k) /\ r.identity \in Identities
    BY <1>1, <1>3, KeyTypes DEF PlanInv
  <2>2. /\ WeightReady(k) /\ WrittenAfterAdd(k) /\ CognifyAhead(k)
    BY <1>1, <1>3 DEF FlightInv
  <2>3. /\ row \in Rows /\ row.content = r.content /\ row.label = r.label
        /\ row.annotations = r.annotations /\ row.weight = r.weight
        /\ row.derived = IF row.complete THEN {Fragment(r, r.processing)}
                         ELSE {}
    BY <1>1, <2>1, <2>2, KeyTypes DEF WrittenAfterAdd, WeightReady, TargetId
  <2>4. row.complete
    <3>1. CASE plan[k].op \in Rebuild
      BY <2>2, <3>1 DEF CognifyAhead, TargetId
    <3>2. CASE plan[k].op \notin Rebuild
      <4>1. Settled(k)
        BY <1>1, <1>3, <3>2
           DEF PlanInv, IInv, TypeOK, Plans, WriteOps, Rebuild
      <4> QED BY <2>1, <4>1 DEF IInv, KeyInv, SettledInv, Intact
    <3> QED BY <3>1, <3>2
  <2>5. row = ConvergedRow(r)
    BY <2>3, <2>4 DEF Rows, ConvergedRow
  <2>6. \A i \in Identities : i # r.identity => store[<<k, i>>] = NoRow
    BY <1>1 DEF FlightInv, OthersGoing
  <2> QED BY <2>1, <2>5, <2>6 DEF Holds, document_data_id
<1> QED BY <1>2, <1>3

LEMMA ConvergedFields ==
    ASSUME NEW r \in DocumentRecord
    PROVE  /\ ConvergedRow(r).content = r.content
           /\ ConvergedRow(r).label = r.label
           /\ ConvergedRow(r).annotations = r.annotations
           /\ ConvergedRow(r).weight = r.weight
           /\ ConvergedRow(r).complete = TRUE
           /\ ConvergedRow(r).derived = {Fragment(r, r.processing)}
BY DEF ConvergedRow

LEMMA CommitKeyInv ==
    ASSUME IInv, NEW w \in Workers, NEW k \in Keys, CommitKey(w, k)
    PROVE  IInv'
<1>1. TypeOK' /\ MutexInv'
  BY IInvType DEF Next, Progress
<1>2. /\ pc[w] = "applied" /\ owner[k] = w
      /\ UNCHANGED <<config, store, delete_ids, purge_ids, payloads,
                     needs_cognify>>
      /\ owner'[k] = Nobody /\ plan'[k] = IdlePlan
  BY DEF CommitKey, locals, IInv, TypeOK
<1>3. \A j \in Keys : j # k => /\ tracking'[j] = tracking[j]
                               /\ owner'[j] = owner[j]
                               /\ plan'[j] = plan[j]
  BY DEF CommitKey, IInv, TypeOK
<1>4. /\ \A v \in Workers : v # w => pc'[v] = pc[v]
      /\ pc'[w] \in {"applied", "idle"}
      /\ \A j \in Keys : (j # k /\ owner[j] = w) => pc'[w] = "applied"
  BY <1>2 DEF CommitKey, IInv, TypeOK
<1>6. BatchInv'
  <2>1. delete_ids[w] = {} /\ purge_ids[w] = {} /\ payloads[w] = {}
    BY <1>2 DEF IInv, BatchInv
  <2> QED BY <1>2, <1>3, <1>4, <2>1 DEF IInv, BatchInv
<1>7. ASSUME NEW j \in Keys, j # k PROVE KeyInv(j)'
  <2>1. InFlight(j) => owner[j] \in Workers
    BY KeyTypes
  <2>2. InFlight(j) => pc'[owner[j]] = pc[owner[j]]
    BY <1>2, <1>4, <1>7, <2>1
  <2> QED BY <1>2, <1>3, <1>7, <2>2, KeyFrame
<1>8. KeyInv(k)'
  <2>0. PICK r : r = plan[k].target
    OBVIOUS
  <2>1. Holds(k, r)
    BY <1>2, <2>0, AppliedExact
  <2>2. ~InFlight(k)'
    BY <1>2 DEF InFlight
  <2>3. PlanInv(k)' /\ FlightInv(k)'
    BY <1>2, <2>2 DEF PlanInv, FlightInv
  <2>4. CASE r = NonExistence
    <3>1. tracking'[k] = Untracked
      BY <2>0, <2>4 DEF CommitKey, IInv, TypeOK
    <3>2. tracking'[k].states = {} /\ tracking'[k].missing
      BY <3>1 DEF Untracked
    <3>3. PrevRecords(k)' = {} /\ ~Settled(k)'
      BY <3>2 DEF PrevRecords, Settled, MayBeMissing
    <3>4. SettledInv(k)'
      BY <3>2, <3>3 DEF SettledInv
    <3>5. RowsInv(k)'
      BY <1>2, <2>1, <2>4 DEF RowsInv, Holds, NoRows, document_data_id
    <3> QED BY <2>3, <3>4, <3>5 DEF KeyInv
  <2>5. CASE r # NonExistence
    <3>1. tracking'[k] = [states |-> {r}, missing |-> FALSE]
      BY <2>0, <2>5 DEF CommitKey, IInv, TypeOK
    <3>2. tracking'[k].states = {r} /\ tracking'[k].missing = FALSE
      BY <3>1
    <3>3. PrevRecords(k)' = {r}
      BY <2>5, <3>2 DEF PrevRecords
    <3>4. r \in DocumentRecord /\ r.identity \in Identities
      <4>1. r \in DocumentRecord
        BY <2>0, <2>5 DEF IInv, TypeOK, Plans, TrackingState
      <4> QED BY <4>1 DEF DocumentRecord
    <3>5. \A i \in Identities :
            store'[<<k, i>>] = IF i = r.identity THEN ConvergedRow(r) ELSE NoRow
      BY <1>2, <2>1, <2>5 DEF Holds, document_data_id
    <3>6. store'[<<k, r.identity>>] = ConvergedRow(r)
      BY <3>4, <3>5
    <3>7. ConvergedRow(r) # NoRow
      <4>1. Fragment(r, r.processing) \in Fragments
        BY <3>4 DEF Fragment, Fragments, DocumentRecord
      <4>2. ConvergedRow(r) \in Rows
        BY <3>4, <4>1 DEF ConvergedRow, Rows, DocumentRecord
      <4> QED BY <4>2, NoRowAssumption
    <3>8. RowsInv(k)'
      <4>1. r.weight = store'[<<k, r.identity>>].weight
        BY <3>4, <3>6, ConvergedFields
      <4>2. \A i \in Identities : store'[<<k, i>>] # NoRow => i = r.identity
        BY <3>5
      <4>3. r \in PrevRecords(k)'
        BY <3>3
      <4> QED BY <4>1, <4>2, <4>3 DEF RowsInv
    <3>9. Intact(k, r)'
      <4>1. /\ store'[<<k, r.identity>>] # NoRow
            /\ store'[<<k, r.identity>>].content = r.content
            /\ store'[<<k, r.identity>>].annotations = r.annotations
            /\ store'[<<k, r.identity>>].complete
            /\ store'[<<k, r.identity>>].derived = {Fragment(r, r.processing)}
        BY <3>4, <3>6, <3>7, ConvergedFields
      <4> QED BY <4>1 DEF Intact
    <3>10. SettledInv(k)'
      <4>1. \A s \in PrevRecords(k)' : s = r
        BY <3>3
      <4>2. Settled(k)' => \A s \in PrevRecords(k)' : Intact(k, s)'
        BY <3>9, <4>1
      <4>3. store'[<<k, r.identity>>].label = r.label
        BY <3>4, <3>6, ConvergedFields
      <4> QED BY <3>2, <4>1, <4>2, <4>3 DEF SettledInv
    <3> QED BY <2>3, <3>8, <3>10 DEF KeyInv
  <2> QED BY <2>4, <2>5
<1> QED BY <1>1, <1>6, <1>7, <1>8 DEF IInv

-----------------------------------------------------------------------------
(* Reconcile and precommit. *)

(* What the op says of the previous records. *)
LEMMA OpMeaning ==
    ASSUME NEW desired, NEW prev, NEW missing \in BOOLEAN,
           desired # NonExistence
    PROVE  LET op == ReconcileOp(desired, prev, missing) IN
           /\ op = "none" => prev = {desired} /\ ~missing
           /\ op = "update_metadata" =>
                /\ prev # {} /\ ~missing
                /\ \A r \in prev :
                     SameDerivatives(r, desired) /\ r.weight = desired.weight
           /\ (/\ op # "none" /\ prev # {} /\ ~missing
               /\ \A r \in prev :
                    SameDerivatives(r, desired) /\ r.weight = desired.weight)
                => op = "update_metadata"
           /\ op = "upsert" => prev = {}
           /\ op \in {"upsert", "replace", "update_metadata"} =>
                \A r \in prev : r.weight = desired.weight
<1>1. CASE prev = {}
  BY <1>1 DEF ReconcileOp, StateDiff, ClassifyWrite
<1>2. CASE prev # {} /\ missing
  BY <1>2 DEF ReconcileOp, StateDiff, ClassifyWrite
<1>3. CASE prev = {desired} /\ ~missing
  BY <1>3 DEF ReconcileOp, StateDiff, ClassifyWrite
<1>4. CASE prev # {} /\ ~missing /\ prev # {desired}
  BY <1>4 DEF ReconcileOp, StateDiff, ClassifyWrite
<1> QED BY <1>1, <1>2, <1>3, <1>4

LEMMA DesiredRecord ==
    ASSUME TypeOK, NEW k \in Keys, Desired(k) # NonExistence
    PROVE  /\ Desired(k) \in DocumentRecord
           /\ Desired(k).identity = config.identity
           /\ Desired(k).processing = config.processing
<1>1. Desired(k) \in DocumentRecord
  BY DesiredType DEF TrackingState
<1>2. Desired(k) = document_record_for(declared[k], config.identity,
                                       config.processing)
  BY DEF Desired
<1> QED BY <1>1, <1>2 DEF document_record_for

(* A key of the batch after its precommit. *)
LEMMA SubmitKeyInv ==
    ASSUME IInv, NEW w \in Workers, NEW K \in SUBSET Keys, Submit(w, K),
           NEW k \in K
    PROVE  KeyInv(k)'
<1>1. PICK d : d = Desired(k)
  OBVIOUS
<1>2. PICK op : op = Op(k)
  OBVIOUS
<1>3. /\ owner'[k] = w /\ InFlight(k)'
      /\ plan'[k] = [op |-> op, target |-> d]
      /\ pc'[w] = "waiting"
      /\ delete_ids'[w] = DeleteIds(K) /\ purge_ids'[w] = PurgeIds(K)
      /\ payloads'[w] = PayloadIds(K) /\ needs_cognify'[w] = NeedsCognify(K)
      /\ config' = config /\ store' = store
  BY <1>1, <1>2, SyncAssumption DEF Submit, InFlight, IInv, TypeOK
<1>4. plan'[k].op = op /\ plan'[k].target = d
  BY <1>3
<1>5. op # "none" /\ op \in WriteOps \cup {"delete"}
  BY <1>2, OpRange DEF Submit, Op
<1>6. TypeOK /\ RowsInv(k) /\ SettledInv(k) /\ k \in Keys
  BY DEF IInv, KeyInv
<1>7. /\ tracking'[k].states = tracking[k].states \cup {d}
      /\ tracking'[k].missing = tracking[k].missing
  <2>1. tracking'[k] = Precommit(k)
    BY DEF Submit
  <2> QED BY <1>1, <1>6, <2>1, EntryTypes
<1>8. /\ op = "delete" <=> d = NonExistence
  BY <1>1, <1>2, <1>5, <1>6, OpTarget
<1>9. \A i \in Identities :
        /\ <<k, i>> \in PayloadIds(K) <=>
             i = config.identity /\ op \in WriteOps
        /\ <<k, i>> \in PurgeIds(K) <=>
             i = config.identity /\ op = "replace"
        /\ <<k, i>> \in DeleteIds(K) <=>
             \/ /\ i # config.identity
                /\ \E r \in PrevRecords(k) : r.identity = i
             \/ i = config.identity /\ op \in {"delete", "recreate"}
  BY <1>2, <1>6, BatchIds
<1>10. d # NonExistence =>
         /\ d \in DocumentRecord /\ d.identity = config.identity
         /\ d.processing = config.processing
  BY <1>1, <1>6, DesiredRecord
<1>11. MayBeMissing(k) \in BOOLEAN /\ (PrevRecords(k) = {} => MayBeMissing(k))
  BY <1>6 DEF MayBeMissing, PrevRecords, SettledInv, TypeOK, Entries
<1>12. d # NonExistence =>
         /\ op = "update_metadata" <=>
              /\ PrevRecords(k) # {} /\ ~MayBeMissing(k)
              /\ \A r \in PrevRecords(k) :
                   SameDerivatives(r, d) /\ r.weight = d.weight
         /\ op = "upsert" => PrevRecords(k) = {}
         /\ op \in {"upsert", "replace", "update_metadata"} =>
              \A r \in PrevRecords(k) : r.weight = d.weight
  BY <1>1, <1>2, <1>5, <1>11, OpMeaning DEF Op
<1>13. op = "update_metadata" <=> Settled(k)'
  <2>1. CASE d = NonExistence
    BY <1>7, <1>8, <2>1 DEF Settled, MayBeMissing
  <2>2. CASE d # NonExistence
    <3>1. PrevRecords(k)' = PrevRecords(k) \cup {d}
      BY <1>7, <2>2 DEF PrevRecords
    <3>2. MayBeMissing(k)' <=> MayBeMissing(k)
      BY <1>7, <2>2 DEF MayBeMissing
    <3>3. ASSUME op = "update_metadata" PROVE Settled(k)'
      BY <1>12, <2>2, <3>1, <3>2, <3>3 DEF Settled, SameDerivatives
    <3>4. ASSUME Settled(k)' PROVE op = "update_metadata"
      BY <1>11, <1>12, <2>2, <3>1, <3>2, <3>4 DEF Settled
    <3> QED BY <3>3, <3>4
  <2> QED BY <2>1, <2>2
<1>14. PlanInv(k)'
  BY <1>3, <1>4, <1>5, <1>7, <1>8, <1>10, <1>13 DEF PlanInv
<1>15. RowsInv(k)'
  <2>1. PrevRecords(k) \subseteq PrevRecords(k)'
    BY <1>7 DEF PrevRecords
  <2> QED BY <1>3, <1>6, <2>1 DEF RowsInv
<1>16. SettledInv(k)'
  <2>1. tracking'[k].states # {}
    BY <1>7
  <2>2. ASSUME Settled(k)', NEW r \in PrevRecords(k)' PROVE Intact(k, r)'
    <3>1. op = "update_metadata"
      BY <1>13, <2>2
    <3>2. d # NonExistence
      BY <1>8, <3>1
    <3>3. PrevRecords(k)' = PrevRecords(k) \cup {d}
      BY <1>7, <3>2 DEF PrevRecords
    <3>4. PICK s : s \in PrevRecords(k)
      BY <1>12, <3>1, <3>2
    <3>5. SameDerivatives(s, r)
      BY <2>2, <3>3, <3>4 DEF Settled
    <3>6. Settled(k)
      BY <1>12, <3>1, <3>2 DEF Settled, SameDerivatives
    <3>7. Intact(k, s)
      BY <1>6, <3>4, <3>6 DEF SettledInv
    <3>8. Fragment(s, s.processing) = Fragment(r, r.processing)
      BY <3>5 DEF Fragment, SameDerivatives
    <3> QED BY <1>3, <3>5, <3>7, <3>8 DEF Intact, SameDerivatives
  <2>3. ASSUME NEW r \in PrevRecords(k)',
               tracking'[k].states = {r}, ~tracking'[k].missing
        PROVE  FALSE
    <3>1. r = d /\ d # NonExistence
      BY <1>7, <2>3 DEF PrevRecords
    <3>2. tracking[k].states # {}
      BY <1>6, <1>7, <2>3 DEF SettledInv
    <3>3. tracking[k].states = {d}
      BY <1>7, <2>3, <3>1, <3>2
    <3>4. PrevRecords(k) = {d} /\ ~MayBeMissing(k)
      BY <1>7, <2>3, <3>1, <3>3 DEF PrevRecords, MayBeMissing
    <3>5. op = "none"
      BY <1>1, <1>2, <3>1, <3>4 DEF Op, ReconcileOp, StateDiff
    <3> QED BY <1>5, <3>5
  <2> QED BY <2>1, <2>2, <2>3 DEF SettledInv
<1>17. FlightInv(k)'
  <2>1. OthersGoing(k)'
    <3> SUFFICES ASSUME NEW i \in Identities, store[<<k, i>>] # NoRow
                 PROVE  \/ <<k, i>> \in DeleteIds(K)
                        \/ op # "delete" /\ i = d.identity
      BY <1>3, <1>4 DEF OthersGoing
    <3>1. \E r \in PrevRecords(k) : r.identity = i
      BY <1>6 DEF RowsInv
    <3> QED BY <1>8, <1>9, <1>10, <3>1
  <2>2. ASSUME op # "delete"
        PROVE  /\ WeightReady(k)' /\ NotStarted(k)' /\ BareBeforeAdd(k)'
               /\ WrittenAfterAdd(k)' /\ CognifyAhead(k)'
    <3>1. /\ d # NonExistence /\ TargetId(k)' = <<k, config.identity>>
          /\ config.identity \in Identities /\ op \in WriteOps
      BY <1>4, <1>5, <1>6, <1>8, <1>10, <2>2 DEF TargetId, TypeOK, Config
    <3>2. op = "upsert" => store[<<k, config.identity>>] = NoRow
      BY <1>6, <1>12, <3>1 DEF RowsInv
    <3>3. WeightReady(k)'
      <4>1. op # "recreate" => \A r \in PrevRecords(k) : r.weight = d.weight
        BY <1>12, <3>1 DEF WriteOps
      <4>2. (store[<<k, config.identity>>] # NoRow /\ op # "recreate") =>
              store[<<k, config.identity>>].weight = d.weight
        BY <1>6, <3>1, <4>1 DEF RowsInv
      <4> QED BY <1>3, <1>4, <1>9, <3>1, <4>2 DEF WeightReady
    <3>4. NotStarted(k)'
      BY <1>3, <1>4, <1>9, <3>1, <3>2 DEF NotStarted
    <3>5. BareBeforeAdd(k)'
      BY <1>3, <1>4, <1>9, <3>1, <3>2 DEF BareBeforeAdd, Rebuild
    <3>6. WrittenAfterAdd(k)'
      BY <1>3, <1>9, <3>1 DEF WrittenAfterAdd
    <3>7. CognifyAhead(k)'
      BY <1>2, <1>3, <1>4 DEF CognifyAhead, NeedsCognify, Rebuild
    <3> QED BY <3>3, <3>4, <3>5, <3>6, <3>7
  <2> QED BY <1>4, <2>1, <2>2 DEF FlightInv
<1> QED BY <1>14, <1>15, <1>16, <1>17 DEF KeyInv

LEMMA SubmitInv ==
    ASSUME IInv, NEW w \in Workers, NEW K \in SUBSET Keys, Submit(w, K)
    PROVE  IInv'
<1>1. TypeOK' /\ MutexInv'
  BY IInvType DEF Next, Progress
<1>2. /\ pc'[w] = "waiting" /\ pc[w] = "idle"
      /\ delete_ids'[w] = DeleteIds(K) /\ purge_ids'[w] = PurgeIds(K)
      /\ payloads'[w] = PayloadIds(K)
      /\ \A v \in Workers : v # w =>
           /\ pc'[v] = pc[v] /\ delete_ids'[v] = delete_ids[v]
           /\ purge_ids'[v] = purge_ids[v] /\ payloads'[v] = payloads[v]
           /\ needs_cognify'[v] = needs_cognify[v]
      /\ config' = config /\ store' = store
  BY DEF Submit, IInv, TypeOK
<1>3. \A k \in Keys : k \notin K =>
        /\ tracking'[k] = tracking[k] /\ owner'[k] = owner[k]
        /\ plan'[k] = plan[k]
  BY DEF Submit
<1>4. \A k \in K : owner'[k] = w /\ owner[k] = Nobody
  BY DEF Submit
<1>6. BatchInv'
  <2> SUFFICES ASSUME NEW v \in Workers, NEW k \in Keys, NEW i \in Identities
               PROVE  /\ <<k, i>> \in delete_ids'[v] =>
                           owner'[k] = v /\ plan'[k].op # "update_metadata"
                      /\ <<k, i>> \in purge_ids'[v] =>
                           /\ owner'[k] = v /\ plan'[k].op = "replace"
                           /\ i = plan'[k].target.identity
                      /\ <<k, i>> \in payloads'[v] =>
                           /\ owner'[k] = v /\ plan'[k].op # "delete"
                           /\ i = plan'[k].target.identity
    BY <1>2 DEF IInv, BatchInv
  <2>1. CASE v # w
    BY <1>2, <1>3, <1>4, <2>1, SyncAssumption DEF IInv, BatchInv
  <2>2. CASE v = w /\ k \in K
    <3>1. plan'[k].op = Op(k) /\ plan'[k].target = Desired(k) /\ owner'[k] = w
      <4>1. PICK op, target : op = Op(k) /\ target = Desired(k)
        OBVIOUS
      <4>2. plan'[k] = [op |-> op, target |-> target]
        BY <2>2, <4>1 DEF Submit
      <4> QED BY <1>4, <2>2, <4>1, <4>2
    <3>2. TypeOK
      BY DEF IInv
    <3>3. Op(k) \in WriteOps =>
            Desired(k) # NonExistence /\ Desired(k).identity = config.identity
      BY <3>2, OpTarget, DesiredRecord
    <3>4. <<k, i>> \in payloads'[v] =>
            Op(k) # "delete" /\ i = Desired(k).identity
      BY <1>2, <2>2, <3>2, <3>3, BatchIds DEF WriteOps
    <3>5. <<k, i>> \in purge_ids'[v] =>
            Op(k) = "replace" /\ i = Desired(k).identity
      BY <1>2, <2>2, <3>2, <3>3, BatchIds DEF WriteOps
    <3>6. ASSUME <<k, i>> \in delete_ids'[v], Op(k) = "update_metadata"
          PROVE  FALSE
      <4>1. PICK r \in PrevRecords(k) : r.identity = i /\ i # config.identity
        BY <1>2, <2>2, <3>2, <3>6, BatchIds
      <4>2. Desired(k).identity = config.identity /\ Desired(k) # NonExistence
        BY <3>3, <3>6 DEF WriteOps
      <4>3. MayBeMissing(k) \in BOOLEAN
        BY <3>2 DEF TypeOK, Entries, MayBeMissing
      <4>4. SameDerivatives(r, Desired(k))
        BY <3>6, <4>1, <4>2, <4>3, OpMeaning DEF Op
      <4> QED BY <4>1, <4>2, <4>4 DEF SameDerivatives
    <3> QED BY <2>2, <3>1, <3>4, <3>5, <3>6
  <2>3. CASE v = w /\ k \notin K
    <3>1. TypeOK
      BY DEF IInv
    <3> QED BY <1>2, <2>3, <3>1, BatchIds
  <2> QED BY <2>1, <2>2, <2>3
<1>7. ASSUME NEW k \in Keys PROVE KeyInv(k)'
  <2>1. CASE k \in K
    BY <2>1, SubmitKeyInv
  <2>2. CASE k \notin K
    <3>1. InFlight(k) => owner[k] \in Workers /\ owner[k] # w
      BY <1>2, KeyTypes DEF IInv, KeyInv, PlanInv
    <3> QED BY <1>2, <1>3, <2>2, <3>1, KeyFrame
  <2> QED BY <2>1, <2>2
<1> QED BY <1>1, <1>6, <1>7 DEF IInv

-----------------------------------------------------------------------------
(* The invariant and what it implies. *)

LEMMA InvInit == Init => IInv
<1> SUFFICES ASSUME Init PROVE IInv
  OBVIOUS
<1>1. TypeOK
  BY TypeInit
<1>2. MutexInv /\ BatchInv
  BY DEF Init, MutexInv, BatchInv
<1>3. ASSUME NEW k \in Keys PROVE KeyInv(k)
  <2>1. /\ tracking[k].states = {} /\ tracking[k].missing = TRUE
        /\ owner[k] = Nobody /\ plan[k] = IdlePlan
        /\ \A i \in Identities : store[<<k, i>>] = NoRow
    BY DEF Init, Untracked, DataIds
  <2>2. ~InFlight(k) /\ ~Settled(k) /\ PrevRecords(k) = {}
    BY <2>1 DEF InFlight, Settled, MayBeMissing, PrevRecords
  <2> QED BY <2>1, <2>2 DEF KeyInv, PlanInv, RowsInv, SettledInv, FlightInv
<1> QED BY <1>1, <1>2, <1>3 DEF IInv

LEMMA InvStutter == IInv /\ UNCHANGED vars => IInv'
<1> SUFFICES ASSUME IInv, UNCHANGED vars PROVE IInv'
  OBVIOUS
<1>1. TypeOK' /\ MutexInv' /\ BatchInv'
  BY IInvType DEF IInv, BatchInv, vars
<1>2. \A k \in Keys : KeyInv(k)'
  BY KeyFrame DEF vars
<1> QED BY <1>1, <1>2 DEF IInv

LEMMA InvStep == IInv /\ [Next]_vars => IInv'
<1> SUFFICES ASSUME IInv, [Next]_vars PROVE IInv'
  OBVIOUS
<1>1. ASSUME NEW w \in Workers, Progress(w) PROVE IInv'
  BY <1>1, SubmitInv, AcquireLockInv, DeleteDocumentInv, PurgeDocumentInv,
     AddDocumentInv, CognifyDocumentInv, FinishApplyInv, CommitKeyInv
     DEF Progress
<1>2. CASE Disturb
  BY <1>2, FailureInv, DeclareInv, ReconfigureInv DEF Disturb
<1> QED BY <1>1, <1>2, InvStutter DEF Next

(* Every reachable state satisfies the inductive invariant (the argument of
   _target.py 81-125 and 235-297). *)
THEOREM Inductive == Spec => []IInv
<1>1. IInv /\ [Next]_vars => IInv'
  BY InvStep
<1> QED BY <1>1, InvInit, PTL DEF Spec

LEMMA InvCommitted == IInv => CommittedIsExact
<1> SUFFICES ASSUME IInv, NEW k \in Keys, NEW r \in PrevRecords(k),
                    tracking[k].states = {r}, ~tracking[k].missing
             PROVE  Holds(k, r)
  BY DEF CommittedIsExact
<1> DEFINE row == store[<<k, r.identity>>]
<1>1. /\ r \in DocumentRecord /\ r.identity \in Identities
      /\ r # NonExistence /\ PrevRecords(k) = {r}
  BY KeyTypes DEF PrevRecords
<1>2. Intact(k, r) /\ row.label = r.label
  BY SingletonSettled DEF IInv, KeyInv, SettledInv
<1>3. row \in Rows
  BY <1>1, <1>2, KeyTypes DEF Intact
<1>4. row.weight = r.weight
  BY <1>1, <1>2 DEF IInv, KeyInv, RowsInv, Intact
<1>5. row = ConvergedRow(r)
  BY <1>2, <1>3, <1>4 DEF Intact, Rows, ConvergedRow
<1>6. \A i \in Identities : i # r.identity => store[<<k, i>>] = NoRow
  BY <1>1 DEF IInv, KeyInv, RowsInv
<1> QED BY <1>1, <1>5, <1>6 DEF Holds, document_data_id

LEMMA InvTracked == IInv => RowsAreTracked
BY DEF IInv, KeyInv, RowsInv, RowsAreTracked, document_data_id

LEMMA InvApplied == IInv => AppliedIsExact
BY AppliedExact DEF AppliedIsExact

LEMMA InvMetadata == IInv => MetadataUpdateKeepsDerivatives
<1> SUFFICES ASSUME IInv, NEW k \in Keys, plan[k].op = "update_metadata"
             PROVE  Intact(k, plan[k].target)
  BY DEF MetadataUpdateKeepsDerivatives, Intact, document_data_id
<1>1. InFlight(k) /\ Settled(k)
  BY DEF IInv, KeyInv, PlanInv, IdlePlan
<1>2. plan[k].target \in PrevRecords(k)
  BY <1>1, KeyTypes
<1> QED BY <1>1, <1>2 DEF IInv, KeyInv, SettledInv

LEMMA InvFixedPoint == IInv => FixedPointIsConverged
<1> SUFFICES ASSUME IInv, \A j \in Keys : Visited(j) => Op(j) = "none",
                    NEW k \in Keys
             PROVE  Holds(k, Desired(k))
  BY DEF FixedPointIsConverged, Converged
<1>1. TypeOK /\ RowsInv(k) /\ SettledInv(k)
  BY DEF IInv, KeyInv
<1>2. MayBeMissing(k) \in BOOLEAN
  BY <1>1 DEF TypeOK, Entries, MayBeMissing
<1>3. CASE Desired(k) = NonExistence
  <2>1. declared[k] = NonExistence
    BY <1>1, <1>3, RecordType, NonExistenceAssumption
       DEF Desired, TypeOK
  <2>2. PrevRecords(k) = {}
    <3>1. CASE tracking[k].states = {}
      BY <3>1 DEF PrevRecords
    <3>2. CASE tracking[k].states # {}
      <4>1. Op(k) = "none"
        BY <3>2 DEF Visited
      <4> QED BY <1>3, <4>1 DEF Op, ReconcileOp
    <3> QED BY <3>1, <3>2
  <2>3. \A i \in Identities : store[<<k, i>>] = NoRow
    BY <1>1, <2>2 DEF RowsInv
  <2> QED BY <1>3, <2>3 DEF Holds, NoRows, document_data_id
<1>4. CASE Desired(k) # NonExistence
  <2>1. Visited(k)
    BY <1>4 DEF Desired, Visited
  <2>2. ReconcileOp(Desired(k), PrevRecords(k), MayBeMissing(k)) = "none"
    BY <2>1 DEF Op
  <2>3. PrevRecords(k) = {Desired(k)} /\ ~MayBeMissing(k)
    BY <1>2, <1>4, <2>2, OpMeaning
  <2>4. tracking[k].states = {Desired(k)} /\ ~tracking[k].missing
    BY <2>3 DEF PrevRecords, MayBeMissing
  <2> QED BY <2>3, <2>4, InvCommitted DEF CommittedIsExact
<1> QED BY <1>3, <1>4

(* What the engine has committed is what Cognee holds (_target.py 215, 284),
   for any number of keys, workers and values, across failures, restarts and
   changes of configuration. *)
THEOREM CommittedExact == Spec => []CommittedIsExact
<1>1. Spec => []IInv
  BY Inductive
<1> QED BY <1>1, InvCommitted, PTL

(* No row of Cognee is ever out of reach of a later reconcile
   (_target.py 183-203). *)
THEOREM RowsTracked == Spec => []RowsAreTracked
<1>1. Spec => []IInv
  BY Inductive
<1> QED BY <1>1, InvTracked, PTL

(* A sink that returns without an error has brought every document of its
   batch to its target (_target.py 273-285). *)
THEOREM AppliedExactly == Spec => []AppliedIsExact
<1>1. Spec => []IInv
  BY Inductive
<1> QED BY <1>1, InvApplied, PTL

(* A label-only update is never chosen over a row with missing, partial or
   foreign derivatives (_target.py 89-93, 117-125). *)
THEOREM MetadataUpdateSafe ==
    Spec => []MetadataUpdateKeepsDerivatives
<1>1. Spec => []IInv
  BY Inductive
<1> QED BY <1>1, InvMetadata, PTL

(* Where reconcile has nothing left to do, Cognee holds exactly the declared
   documents (_target.py 190-216). *)
THEOREM FixedPointConverged ==
    Spec => []FixedPointIsConverged
<1>1. Spec => []IInv
  BY Inductive
<1> QED BY <1>1, InvFixedPoint, PTL

-----------------------------------------------------------------------------
(* The batches as clients of the dataset lock. *)

LEMMA LockUseStep ==
    ASSUME TypeOK, MutexInv, [Next]_vars
    PROVE  [LockUse!AccessNext]_<<LockStatus, store>>
<1> DEFINE Place(p) == IF p \in {"idle", "applied"} THEN "out"
                       ELSE IF p = "waiting" THEN "waiting" ELSE "in"
<1>1. \A w \in Workers : LockStatus[w] = Place(pc[w])
  BY DEF TypeOK, LockStatus
<1>2. pc' = pc => LockStatus' = LockStatus
  BY DEF LockStatus
<1>3. ASSUME NEW w \in Workers,
             NEW p \in {"idle", "waiting", "applying", "applied"},
             pc' = [pc EXCEPT ![w] = p]
      PROVE  LockStatus' = [LockStatus EXCEPT ![w] = Place(p)]
  BY <1>3 DEF TypeOK, LockStatus
<1>4. ASSUME NEW w \in Workers, LockStatus' = [LockStatus EXCEPT ![w] = LockStatus[w]]
      PROVE  LockStatus' = LockStatus
  BY <1>4 DEF LockStatus
<1>5. ASSUME NEW w \in Workers, NEW K \in SUBSET Keys, Submit(w, K)
      PROVE  LockUse!Request(w) /\ UNCHANGED store
  BY <1>1, <1>3, <1>5 DEF Submit, LockUse!Request
<1>6. ASSUME NEW w \in Workers, AcquireLock(w)
      PROVE  LockUse!Enter(w) /\ UNCHANGED store
  <2>1. \A v \in Workers : LockStatus[v] # "in"
    BY <1>1, <1>6 DEF AcquireLock, TypeOK, MutexInv
  <2>2. LockUse!Free
    BY <2>1 DEF LockUse!Free
  <2> QED BY <1>1, <1>3, <1>6, <2>2 DEF AcquireLock, LockUse!Enter
(* The rows change in the phases of the batch that is inside. *)
<1>7. ASSUME NEW w \in Workers, NEW d \in DataIds,
             \/ DeleteDocument(w, d) \/ PurgeDocument(w, d)
             \/ AddDocument(w, d) \/ CognifyDocument(w, d)
      PROVE  LockUse!Access(w)
  <2>1. pc[w] = "applying" /\ pc' = pc
    BY <1>7
       DEF DeleteDocument, PurgeDocument, AddDocument, CognifyDocument,
           CanDelete, CanPurge, CanAdd, CanCognify
  <2> QED BY <1>1, <1>2, <2>1 DEF LockUse!Access
<1>8. ASSUME NEW w \in Workers, FinishApply(w)
      PROVE  LockUse!Leave(w) /\ UNCHANGED store
  BY <1>1, <1>3, <1>8 DEF FinishApply, LockUse!Leave
<1>9. ASSUME NEW w \in Workers, NEW k \in Keys, CommitKey(w, k)
      PROVE  UNCHANGED <<LockStatus, store>>
  <2>1. PICK p \in {"idle", "applied"} : pc' = [pc EXCEPT ![w] = p]
    BY <1>9 DEF CommitKey
  <2>2. LockStatus' = [LockStatus EXCEPT ![w] = LockStatus[w]]
    BY <1>1, <1>3, <1>9, <2>1 DEF CommitKey
  <2> QED BY <1>4, <1>9, <2>2 DEF CommitKey
<1>10. ASSUME NEW w \in Workers, Failure(w)
       PROVE  \/ UNCHANGED <<LockStatus, store>>
              \/ LockUse!GiveUp(w) /\ UNCHANGED store
              \/ LockUse!Access(w)
  <2>1. pc' = [pc EXCEPT ![w] = "idle"]
    BY <1>10
       DEF Failure, FailBatch, TearRemoval, TearCognify, AbandonBatch
  <2>2. LockStatus' = [LockStatus EXCEPT ![w] = "out"]
    BY <1>3, <2>1
  <2>3. pc[w] # "applying" => UNCHANGED store
    BY <1>10
       DEF Failure, FailBatch, TearRemoval, TearCognify, CanDelete, CanPurge,
           CanCognify
  <2>4. CASE pc[w] \in {"idle", "applied"}
    BY <1>1, <1>4, <2>2, <2>3, <2>4
  <2>5. CASE pc[w] = "waiting"
    BY <1>1, <2>2, <2>3, <2>5 DEF LockUse!GiveUp
  <2>6. CASE pc[w] = "applying"
    BY <1>1, <2>2, <2>6 DEF LockUse!Access
  <2> QED BY <2>4, <2>5, <2>6 DEF TypeOK
<1>11. ASSUME NEW k \in Keys,
              NEW spec \in CogneeDocumentSpec \cup {NonExistence},
              Declare(k, spec)
       PROVE  UNCHANGED <<LockStatus, store>>
  BY <1>2, <1>11 DEF Declare
<1>12. ASSUME NEW c \in Config, NEW lossy \in BOOLEAN, Reconfigure(c, lossy)
       PROVE  UNCHANGED <<LockStatus, store>>
  BY <1>2, <1>12 DEF Reconfigure
<1>13. CASE UNCHANGED vars
  BY <1>2, <1>13 DEF vars
<1>14. ASSUME NEW w \in Workers, Progress(w)
       PROVE  [LockUse!AccessNext]_<<LockStatus, store>>
  BY <1>5, <1>6, <1>7, <1>8, <1>9, <1>14
     DEF Progress, LockUse!AccessNext, LockUse!LockNext
<1>15. CASE Disturb
  BY <1>10, <1>11, <1>12, <1>15
     DEF Disturb, LockUse!AccessNext, LockUse!LockNext
<1> QED BY <1>13, <1>14, <1>15 DEF Next

(* Cognee's rows change only at the hands of the one batch that has the
   dataset lock, for any number of batches, whatever fails, and however a
   batch ends (_target.py 273-285). *)
THEOREM LockUsed == Spec => UsesDatasetLock
<1>1. Init => LockUse!LockInit
  BY DEF Init, LockUse!LockInit, LockStatus
<1>2. IInv /\ [Next]_vars => [LockUse!AccessNext]_<<LockStatus, store>>
  BY LockUseStep DEF IInv
<1> QED BY <1>1, <1>2, Inductive, PTL
        DEF Spec, UsesDatasetLock, LockUse!AccessSpec

=============================================================================
