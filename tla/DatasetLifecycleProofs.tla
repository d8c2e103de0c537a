------------------------ MODULE DatasetLifecycleProofs ------------------------
(***************************************************************************)
(* For any keys, workers, dataset ids and configurations: the user's       *)
(* dataset is spared, rows never outlive the dataset's record, teardown    *)
(* and batches share one lock, a batch returns only when it is done, and   *)
(* a fixed point is the declared state.                                    *)
(***************************************************************************)
EXTENDS DatasetLifecycleInv, TLAPS

-----------------------------------------------------------------------------
(* Lemmas about the operators. *)

(* Each call leaves a row where it found or made one. *)
LEMMA RowTypes ==
    ASSUME NEW row \in Rows, NEW r \in DocumentRecord, NEW p \in Profiles
    PROVE  /\ PurgedRow(row) \in Rows
           /\ TornRow(row) \in Rows
           /\ AddedRow(row, r) \in Rows
           /\ AddedRow(NoRow, r) \in Rows
           /\ DerivedBy(row, p) \in Rows
           /\ [DerivedBy(row, p) EXCEPT !.complete = TRUE] \in Rows
<1>1. PurgedRow(row) \in Rows /\ TornRow(row) \in Rows
  BY DEF PurgedRow, TornRow, Rows
<1>2. NewRow(r) \in Rows
  BY DEF NewRow, Rows, DocumentRecord
<1>3. UpdatedRow(row, r) \in Rows
  BY DEF UpdatedRow, Rows, DocumentRecord
<1>4. Fragment(row, p) \in Fragments
  BY DEF Fragment, Fragments, Rows
<1>5. DerivedBy(row, p) \in Rows
  BY <1>4 DEF DerivedBy, Rows
<1>6. [DerivedBy(row, p) EXCEPT !.complete = TRUE] \in Rows
  BY <1>5 DEF Rows
<1> QED BY <1>1, <1>2, <1>3, <1>5, <1>6 DEF AddedRow

(* A handler's desired state is a tracking state, and its op fits it. *)
LEMMA DesiredTypes ==
    ASSUME TypeOK, NEW k \in Keys, NEW p \in Profiles
    PROVE  /\ DesiredBy(k, p) \in TrackingState
           /\ OpBy(k, p) \in WriteOps \cup {"delete", "none"}
           /\ OpBy(k, p) \in WriteOps => DesiredBy(k, p) \in DocumentRecord
<1>1. TheIdentity \in Identities
  BY LifecycleAssumption DEF TheIdentity
<1>2. declared[k] \in CogneeDocumentSpec =>
        document_record_for(declared[k], TheIdentity, p) \in DocumentRecord
  BY <1>1 DEF CogneeDocumentSpec, DocumentRecord, document_record_for
<1>3. DesiredBy(k, p) \in TrackingState
  BY <1>2 DEF TypeOK, DesiredBy, TrackingState
<1>4. /\ OpBy(k, p) \in WriteOps \cup {"delete", "none"}
      /\ OpBy(k, p) \in WriteOps => DesiredBy(k, p) # NonExistence
  BY DEF OpBy, ReconcileOp, ClassifyWrite, StateDiff, WriteOps
<1> QED BY <1>3, <1>4 DEF TrackingState

(* The dataset's action is a teardown exactly when it is undeclared and every
   record that may describe it is system-managed. *)
LEMMA MainTypes ==
    ASSUME NEW spec, NEW prev, NEW missing
    PROVE  /\ MainAction(spec, prev, missing)
                \in {"insert", "upsert", "replace", "delete", "none"}
           /\ MainAction(spec, prev, missing) = "delete" <=>
                /\ spec = NonExistence
                /\ prev # {} /\ "user" \notin Owners(prev)
           /\ spec = NonExistence =>
                MainAction(spec, prev, missing) \in {"delete", "none"}
BY DEF MainAction, StateDiff

-----------------------------------------------------------------------------
(* Types, the action in progress, and the batches. *)

LEMMA CoreInit == Init => Core
<1> SUFFICES ASSUME Init PROVE Core
  OBVIOUS
<1>1. TypeOK
  BY DEF Init, TypeOK, Entries, DatasetEntries, Untracked, IdleSink,
         SinkPhases, BatchPhases, Causes
<1>2. SinkInv /\ BatchInv
  BY DEF Init, SinkInv, BatchInv, IdleSink, InFlight
<1> QED BY <1>1, <1>2 DEF Core

LEMMA CoreReconcile == ASSUME Core, ReconcileDataset PROVE Core'
<1> DEFINE main(prev) == MainAction(wanted, prev, DatasetMayBeMissing)
<1>1. PICK prev \in Seen :
        /\ sink' = [phase |-> IF wanted = NonExistence /\ main(prev) = "none"
                              THEN "done" ELSE "resolving",
                    spec |-> wanted, main |-> main(prev), id |-> NoDataset]
        /\ tracking' = Invalidated(main(prev))
  BY DEF ReconcileDataset
<1> HIDE DEF main
<1>2. /\ dtrack' = [dtrack EXCEPT !.states = @ \cup {wanted}]
      /\ handler = Nothing /\ sink.phase = "idle"
      /\ UNCHANGED <<wanted, declared, dataset, store, handler, locked, phase,
                     work, causes>>
      /\ claimed' \in BOOLEAN
  BY DEF ReconcileDataset, Precommit, Core, TypeOK, batches
<1>3. /\ dtrack' \in DatasetEntries
      /\ dtrack'.states = dtrack.states \cup {wanted}
  BY <1>2 DEF Core, TypeOK, DatasetEntries
<1>4. tracking' \in [Keys -> Entries]
  <2>1. \A k \in Keys, b \in BOOLEAN :
          [tracking[k] EXCEPT !.missing = @ \/ b] \in Entries
    BY DEF Core, TypeOK, Entries
  <2>2. (main(prev) = "replace") \in BOOLEAN
    OBVIOUS
  <2> QED BY <1>1, <2>1, <2>2 DEF Invalidated
<1>5. /\ main(prev) \in {"insert", "upsert", "replace", "delete", "none"}
      /\ main(prev) = "delete" <=>
           wanted = NonExistence /\ prev # {} /\ "user" \notin Owners(prev)
      /\ wanted = NonExistence => main(prev) \in {"delete", "none"}
  BY MainTypes DEF main
<1>6. wanted = NonExistence =>
        /\ prev = DatasetRecords
        /\ DatasetRecords' = DatasetRecords
  BY <1>1, <1>3 DEF Seen, DatasetRecords
<1>7. wanted = NonExistence => (main(prev) = "delete" <=> TeardownDue')
  BY <1>5, <1>6 DEF TeardownDue, Owners
<1>8. sink'.phase \in {"done", "resolving"} /\ sink'.spec = wanted
      /\ sink'.main = main(prev)
      /\ (sink'.phase = "resolving" =>
            (wanted = NonExistence => main(prev) # "none"))
      /\ sink' \in [phase: SinkPhases, spec: DatasetRecord \cup {NonExistence},
                   main: {"insert", "upsert", "replace", "delete", "none"},
                   id: DatasetIds \cup {NoDataset}]
  BY <1>1, <1>5 DEF Core, TypeOK, SinkPhases
<1>9. TypeOK'
  BY <1>2, <1>3, <1>4, <1>8 DEF Core, TypeOK
<1>10. SinkInv'
  BY <1>2, <1>3, <1>5, <1>7, <1>8 DEF SinkInv
<1>11. BatchInv'
  BY <1>2 DEF Core, BatchInv, InFlight
<1> QED BY <1>9, <1>10, <1>11 DEF Core

LEMMA CoreSink ==
    ASSUME Core,
           \/ ResolveDataset \/ LockForTeardown \/ FinishTeardown
           \/ \E d \in DataIds : EraseRow(d)
    PROVE  Core'
<1>1. UNCHANGED <<wanted, declared, dtrack, tracking, phase, work, claimed,
                  causes>>
  BY DEF ResolveDataset, LockForTeardown, FinishTeardown, EraseRow, batches
<1>2. BatchInv' /\ (TeardownDue' <=> TeardownDue)
      /\ DatasetRecords' = DatasetRecords
  BY <1>1 DEF Core, BatchInv, InFlight, TeardownDue, DatasetRecords, Owners
<1>3. CASE ResolveDataset
  <2>1. CASE sink.main = "delete"
    BY <1>1, <1>2, <1>3, <2>1
       DEF Core, TypeOK, SinkInv, SinkPhases, ResolveDataset
  <2>2. CASE sink.main # "delete"
    <3>1. sink.spec # NonExistence /\ sink.spec \in DatasetRecord
      BY <1>3, <2>2 DEF Core, TypeOK, SinkInv, ResolveDataset
    <3>2. handler' \in Handlers
      BY <1>3, <2>2, <3>1
         DEF Core, TypeOK, Handlers, DatasetRecord, ResolveDataset
    <3>3. sink.spec \in DatasetRecords
      BY <1>3, <3>1 DEF Core, SinkInv, ResolveDataset, DatasetRecords
    <3> QED BY <1>1, <1>2, <1>3, <2>2, <3>1, <3>2, <3>3
            DEF Core, TypeOK, SinkInv, SinkPhases, ResolveDataset
  <2> QED BY <2>1, <2>2
<1>4. CASE LockForTeardown
  BY <1>1, <1>2, <1>4
     DEF Core, TypeOK, SinkInv, SinkPhases, LockForTeardown
<1>5. CASE FinishTeardown
  <2>1. dataset' = NoDataset => \A d \in DataIds : store'[d] = NoRow
    BY <1>5 DEF Core, TypeOK, FinishTeardown, RowsExist
  <2> QED BY <1>1, <1>2, <1>5, <2>1
          DEF Core, TypeOK, SinkInv, SinkPhases, FinishTeardown
<1>6. ASSUME NEW d \in DataIds, EraseRow(d) PROVE Core'
  BY <1>1, <1>2, <1>6 DEF Core, TypeOK, SinkInv, EraseRow
<1> QED BY <1>3, <1>4, <1>5, <1>6

LEMMA CoreCommit == ASSUME Core, CommitDataset PROVE Core'
<1>1. /\ UNCHANGED <<wanted, declared, dataset, store, handler, locked, phase,
                     work>>
      /\ sink' = IdleSink /\ sink.phase = "done"
      /\ claimed' \in BOOLEAN
      /\ causes' \subseteq Causes
  BY DEF CommitDataset, Core, TypeOK, batches, Causes, Overlap, Handoff
<1>2. /\ dtrack' \in DatasetEntries
      /\ tracking' \in [Keys -> Entries]
  <2>1. /\ Untracked \in DatasetEntries /\ Untracked \in Entries
        /\ [states |-> {sink.spec}, missing |-> FALSE] \in DatasetEntries
    BY DEF Core, TypeOK, DatasetEntries, Entries, Untracked
  <2>2. CASE sink.spec = NonExistence
    BY <2>1, <2>2 DEF CommitDataset
  <2>3. CASE sink.spec # NonExistence
    BY <2>1, <2>3 DEF CommitDataset, Core, TypeOK
  <2> QED BY <2>2, <2>3
<1>3. handler # Nothing => DatasetRecords' # {}
  BY <1>1, NonExistenceAssumption
     DEF CommitDataset, Core, SinkInv, DatasetRecords
<1>4. TypeOK'
  BY <1>1, <1>2 DEF Core, TypeOK, IdleSink, SinkPhases
<1>5. SinkInv'
  BY <1>1, <1>3 DEF SinkInv, IdleSink
<1>6. BatchInv'
  BY <1>1 DEF Core, BatchInv, InFlight
<1> QED BY <1>4, <1>5, <1>6 DEF Core

LEMMA CoreFailSink == ASSUME Core, FailSink PROVE Core'
<1>1. /\ UNCHANGED <<wanted, declared, dtrack, tracking, dataset, phase, work,
                     claimed>>
      /\ sink' = IdleSink /\ handler' = Nothing
      /\ causes' \subseteq Causes /\ locked' \in BOOLEAN
  BY DEF FailSink, TeardownReleases, Core, TypeOK, batches, Causes
<1>2. /\ store' \in [DataIds -> Rows \cup {NoRow}]
      /\ dataset = NoDataset => \A d \in DataIds : store'[d] = NoRow
  <2>1. CASE UNCHANGED store
    BY <2>1 DEF Core, TypeOK
  <2>2. ASSUME NEW d \in DataIds, store[d] # NoRow, Reaches(sink.id),
               store' = [store EXCEPT ![d] = TornRow(@)]
        PROVE  /\ store' \in [DataIds -> Rows \cup {NoRow}]
               /\ dataset # NoDataset
    <3>1. TornRow(store[d]) \in Rows /\ dataset # NoDataset
      BY <2>2 DEF Core, TypeOK, TornRow, Rows, Reaches
    <3> QED BY <2>2, <3>1 DEF Core, TypeOK
  <2> QED BY <1>1, <2>1, <2>2 DEF FailSink
<1>3. TypeOK'
  BY <1>1, <1>2 DEF Core, TypeOK, IdleSink, SinkPhases
<1>4. SinkInv' /\ BatchInv'
  BY <1>1 DEF Core, SinkInv, BatchInv, InFlight, IdleSink
<1> QED BY <1>3, <1>4 DEF Core

(* What no step of a batch touches, and what it may add to the causes. *)
LEMMA BatchFrame ==
    ASSUME NEW w \in Workers, BatchStep(w) \/ FailBatch(w)
    PROVE  /\ UNCHANGED <<wanted, declared, dtrack, handler, sink, claimed>>
           /\ causes' \in {causes, causes \cup {"overlap"}}
           /\ DatasetRecords' = DatasetRecords
           /\ TeardownDue' <=> TeardownDue
<1>1. /\ UNCHANGED <<wanted, declared, dtrack, handler, sink, claimed>>
      /\ causes' \in {causes, causes \cup {"overlap"}}
  BY DEF BatchStep, Submit, EnterLock, Remove, Add, Cognify, CommitDocument,
         FailBatch
<1> QED BY <1>1 DEF DatasetRecords, TeardownDue, Owners

(* A batch's own phase and work, and the rows. *)
LEMMA CoreBatchFrom ==
    ASSUME Core, NEW w \in Workers, BatchStep(w) \/ FailBatch(w),
           NEW p \in BatchPhases, NEW a \in Works \cup {Nothing},
           phase' = [phase EXCEPT ![w] = p], work' = [work EXCEPT ![w] = a],
           p # "idle" =>
             /\ a \in Works
             /\ a.op # "delete" => a.target \in DocumentRecord
             /\ p \in {"adding", "cognifying"} => a.op # "delete",
           tracking' \in [Keys -> Entries],
           dataset' \in DatasetIds \cup {NoDataset},
           store' \in [DataIds -> Rows \cup {NoRow}],
           dataset' = NoDataset => \A d \in DataIds : store'[d] = NoRow
    PROVE  Core'
<1>1. causes' \subseteq Causes /\ locked' \in BOOLEAN
  <2>1. causes' \subseteq Causes
    BY BatchFrame DEF Core, TypeOK, Causes
  <2>2. locked' \in BOOLEAN
    BY DEF BatchStep, Submit, EnterLock, Remove, Add, Cognify, CommitDocument,
           FailBatch, Core, TypeOK
  <2> QED BY <2>1, <2>2
<1>2. TypeOK' /\ SinkInv'
  <2>1. TypeOK'
    BY <1>1, BatchFrame DEF Core, TypeOK
  <2>2. SinkInv'
    BY BatchFrame DEF Core, SinkInv
  <2> QED BY <2>1, <2>2
<1>3. BatchInv'
  BY DEF Core, TypeOK, BatchInv, InFlight
<1> QED BY <1>2, <1>3 DEF Core

LEMMA CoreBatch ==
    ASSUME Core, NEW w \in Workers, BatchStep(w) \/ FailBatch(w)
    PROVE  Core'
<1> USE DEF Core
<1>1. ASSUME NEW k \in Keys, Submit(w, k) PROVE Core'
  <2> DEFINE a == [key |-> k, op |-> OpBy(k, handler.processing),
                   target |-> DesiredBy(k, handler.processing),
                   id |-> handler.id, processing |-> handler.processing]
  <2>1. /\ handler.processing \in Profiles
        /\ handler.id \in DatasetIds \cup {NoDataset}
    BY <1>1 DEF Submit, TypeOK, Handlers
  <2>2. a \in Works /\ (a.op # "delete" => a.target \in DocumentRecord)
    BY <1>1, <2>1, DesiredTypes DEF Submit, Works
  <2>3. tracking' \in [Keys -> Entries]
    <3>1. [tracking[k] EXCEPT !.states =
             @ \cup {DesiredBy(k, handler.processing)}] \in Entries
      BY <2>1, DesiredTypes DEF TypeOK, Entries
    <3> QED BY <1>1, <3>1 DEF Submit, TypeOK
  <2>4. /\ phase' = [phase EXCEPT ![w] = "waiting"]
        /\ work' = [work EXCEPT ![w] = a]
        /\ UNCHANGED <<dataset, store>>
        /\ "waiting" \in BatchPhases
    BY <1>1 DEF Submit, BatchPhases
  <2> HIDE DEF a
  <2> QED BY <2>2, <2>3, <2>4, CoreBatchFrom DEF TypeOK
<1>2. CASE EnterLock(w)
  <2>1. work' = [work EXCEPT ![w] = work[w]] /\ work[w] \in Works
        /\ (work[w].op # "delete" => work[w].target \in DocumentRecord)
    BY <1>2 DEF EnterLock, TypeOK, BatchInv, InFlight
  <2>2. /\ phase' = [phase EXCEPT ![w] = "removing"]
        /\ UNCHANGED <<tracking, dataset, store>>
        /\ "removing" \in BatchPhases
    BY <1>2 DEF EnterLock, BatchPhases
  <2> QED BY <2>1, <2>2, CoreBatchFrom DEF TypeOK
<1>3. CASE Remove(w)
  <2> DEFINE p == IF work[w].op = "delete" THEN "applied" ELSE "adding"
  <2>1. work' = [work EXCEPT ![w] = work[w]] /\ work[w] \in Works
        /\ (work[w].op # "delete" => work[w].target \in DocumentRecord)
    BY <1>3 DEF Remove, TypeOK, BatchInv, InFlight
  <2>2. /\ phase' = [phase EXCEPT ![w] = p]
        /\ UNCHANGED <<tracking, dataset>>
        /\ p \in BatchPhases
        /\ p \in {"adding", "cognifying"} => work[w].op # "delete"
    BY <1>3 DEF Remove, BatchPhases
  <2>3. PICK row : /\ store' = [store EXCEPT ![Target(w)] = row]
                   /\ row \in {store[Target(w)], NoRow,
                               PurgedRow(store[Target(w)])}
                   /\ row = PurgedRow(store[Target(w)]) =>
                        row = NoRow \/ row = store[Target(w)]
                          \/ (Reaches(work[w].id) /\ store[Target(w)] # NoRow)
    BY <1>3 DEF Remove
  <2>4. Target(w) \in DataIds =>
          /\ row \in Rows \cup {NoRow}
          /\ dataset = NoDataset => row = NoRow
    BY <2>3 DEF TypeOK, PurgedRow, Rows, Reaches
  <2>5. /\ store' \in [DataIds -> Rows \cup {NoRow}]
        /\ dataset = NoDataset => \A d \in DataIds : store'[d] = NoRow
    BY <2>3, <2>4 DEF TypeOK
  <2> HIDE DEF p
  <2> QED BY <1>3, <2>1, <2>2, <2>5, CoreBatchFrom DEF TypeOK
<1>4. CASE Add(w)
  <2> DEFINE p == IF work[w].op = "update_metadata" THEN "applied"
                  ELSE "cognifying"
             a == [work[w] EXCEPT !.id = dataset']
  <2>1. /\ work[w] \in Works /\ work[w].op # "delete"
        /\ work[w].target \in DocumentRecord
    BY <1>4 DEF Add, TypeOK, BatchInv, InFlight
  <2>2. dataset' \in DatasetIds
    BY <1>4, <2>1 DEF Add, TypeOK, Works
  <2>3. /\ a \in Works /\ a.op = work[w].op /\ a.target = work[w].target
        /\ work' = [work EXCEPT ![w] = a]
    BY <1>4, <2>1, <2>2 DEF Add, Works, TypeOK
  <2>4. /\ phase' = [phase EXCEPT ![w] = p]
        /\ UNCHANGED tracking
        /\ p \in BatchPhases
    BY <1>4 DEF Add, BatchPhases
  <2>5. store' \in [DataIds -> Rows \cup {NoRow}]
    <3>1. store[Target(w)] \in Rows \cup {NoRow} =>
            AddedRow(store[Target(w)], work[w].target) \in Rows
      <4>1. NewRow(work[w].target) \in Rows
        BY <2>1 DEF NewRow, Rows, DocumentRecord
      <4>2. store[Target(w)] \in Rows =>
              UpdatedRow(store[Target(w)], work[w].target) \in Rows
        BY <2>1 DEF UpdatedRow, Rows, DocumentRecord
      <4> QED BY <4>1, <4>2 DEF AddedRow
    <3> QED BY <1>4, <3>1 DEF Add, TypeOK
  <2> HIDE DEF p, a
  <2> QED BY <1>4, <2>1, <2>2, <2>3, <2>4, <2>5, LifecycleAssumption,
             CoreBatchFrom
          DEF TypeOK
<1>5. CASE Cognify(w)
  <2>1. /\ work' = [work EXCEPT ![w] = work[w]] /\ work[w] \in Works
        /\ work[w].op # "delete" /\ work[w].target \in DocumentRecord
        /\ work[w].processing \in Profiles
    BY <1>5 DEF Cognify, TypeOK, BatchInv, InFlight, Works
  <2>2. /\ phase' = [phase EXCEPT ![w] = "applied"]
        /\ UNCHANGED <<tracking, dataset>> /\ dataset # NoDataset
        /\ "applied" \in BatchPhases
    BY <1>5 DEF Cognify, BatchPhases, Reaches
  <2>3. \A d \in DataIds : Unprocessed(d) =>
          [DerivedBy(store[d], work[w].processing) EXCEPT !.complete = TRUE]
            \in Rows
    <3> TAKE d \in DataIds
    <3> HAVE Unprocessed(d)
    <3>1. store[d] \in Rows
      BY DEF Unprocessed, TypeOK
    <3>2. DerivedBy(store[d], work[w].processing) \in Rows
      <4>1. Fragment(store[d], work[w].processing) \in Fragments
        BY <2>1, <3>1 DEF Fragment, Fragments, Rows
      <4> QED BY <3>1, <4>1 DEF DerivedBy, Rows
    <3> QED BY <3>2 DEF Rows
  <2>4. store' \in [DataIds -> Rows \cup {NoRow}]
    BY <1>5, <2>3 DEF Cognify, TypeOK
  <2> QED BY <1>5, <2>1, <2>2, <2>4, CoreBatchFrom DEF TypeOK
<1>6. CASE CommitDocument(w)
  <2>1. tracking' \in [Keys -> Entries]
    <3>1. work[w] \in Works
      BY <1>6 DEF CommitDocument, TypeOK
    <3>2. /\ Untracked \in Entries
          /\ [states |-> {work[w].target}, missing |-> FALSE] \in Entries
      BY <3>1 DEF Untracked, Entries, Works
    <3> QED BY <1>6, <3>1, <3>2 DEF CommitDocument, TypeOK
  <2>2. /\ phase' = [phase EXCEPT ![w] = "idle"]
        /\ work' = [work EXCEPT ![w] = Nothing]
        /\ UNCHANGED <<dataset, store>> /\ "idle" \in BatchPhases
    BY <1>6 DEF CommitDocument, BatchPhases
  <2> QED BY <2>1, <2>2, CoreBatchFrom DEF TypeOK
<1>7. CASE FailBatch(w)
  <2>1. /\ phase' = [phase EXCEPT ![w] = "idle"]
        /\ work' = [work EXCEPT ![w] = Nothing]
        /\ UNCHANGED <<tracking, dataset>> /\ "idle" \in BatchPhases
        /\ work[w] \in Works
    BY <1>7 DEF FailBatch, BatchPhases, TypeOK, InFlight
  <2>2. /\ store' \in [DataIds -> Rows \cup {NoRow}]
        /\ dataset = NoDataset => \A d \in DataIds : store'[d] = NoRow
    <3>1. CASE UNCHANGED store
      BY <3>1 DEF TypeOK
    <3>2. CASE /\ Reaches(work[w].id) /\ store[Target(w)] # NoRow
               /\ store' = [store EXCEPT ![Target(w)] = TornRow(@)]
      <4>1. Target(w) \in DataIds => TornRow(store[Target(w)]) \in Rows
        BY <3>2 DEF TypeOK, TornRow, Rows
      <4> QED BY <3>2, <4>1 DEF TypeOK, Reaches
    <3>3. ASSUME NEW d \in DataIds, Unprocessed(d), Reaches(work[w].id),
                 store' = [store EXCEPT ![d] =
                             DerivedBy(@, work[w].processing)]
          PROVE  store' \in [DataIds -> Rows \cup {NoRow}] /\ dataset # NoDataset
      <4>1. store[d] \in Rows
        BY <3>3 DEF Unprocessed, TypeOK
      <4>2. Fragment(store[d], work[w].processing) \in Fragments
        BY <2>1, <4>1 DEF Fragment, Fragments, Rows, Works
      <4>3. DerivedBy(store[d], work[w].processing) \in Rows
        BY <4>1, <4>2 DEF DerivedBy, Rows
      <4> QED BY <3>3, <4>3 DEF TypeOK, Reaches
    <3> QED BY <1>7, <3>1, <3>2, <3>3 DEF FailBatch
  <2> QED BY <1>7, <2>1, <2>2, CoreBatchFrom DEF TypeOK
<1> QED BY <1>1, <1>2, <1>3, <1>4, <1>5, <1>6, <1>7 DEF BatchStep

LEMMA CoreOutside ==
    ASSUME Core,
           \/ \E spec \in DatasetRecord \cup {NonExistence} : Redeclare(spec)
           \/ \E k \in Keys, spec \in CogneeDocumentSpec \cup {NonExistence} :
                 Declare(k, spec)
           \/ UNCHANGED vars
    PROVE  Core'
<1> DEFINE Frame ==
             /\ UNCHANGED <<dtrack, tracking, dataset, store, sink, locked,
                            phase, work, claimed, causes>>
             /\ \/ UNCHANGED handler
                \/ sink.phase = "idle" /\ handler' = Nothing
             /\ wanted' \in DatasetRecord \cup {NonExistence}
             /\ declared' \in [Keys -> CogneeDocumentSpec \cup {NonExistence}]
<1>1. ASSUME NEW spec \in DatasetRecord \cup {NonExistence}, Redeclare(spec)
      PROVE  Frame
  BY <1>1 DEF Core, TypeOK, Redeclare, batches
<1>2. ASSUME NEW k \in Keys, NEW spec \in CogneeDocumentSpec \cup {NonExistence},
             Declare(k, spec)
      PROVE  Frame
  BY <1>2 DEF Core, TypeOK, Declare, batches
<1>3. ASSUME UNCHANGED vars PROVE Frame
  BY <1>3 DEF Core, TypeOK, vars
<1>4. Frame
  BY <1>1, <1>2, <1>3
<1>5. TypeOK'
  BY <1>4 DEF Core, TypeOK
<1>6. BatchInv' /\ DatasetRecords' = DatasetRecords
      /\ (TeardownDue' <=> TeardownDue)
  BY <1>4 DEF Core, BatchInv, InFlight, DatasetRecords, TeardownDue, Owners
<1>7. SinkInv'
  BY <1>4, <1>6 DEF Core, SinkInv
<1> QED BY <1>5, <1>6, <1>7 DEF Core

LEMMA CoreStep == Core /\ [Next]_vars => Core'
BY CoreReconcile, CoreSink, CoreCommit, CoreFailSink, CoreBatch, CoreOutside
   DEF Next, DatasetStep, Disturb

-----------------------------------------------------------------------------
(* The lock is taken by the one client that is inside. *)

LEMMA MutexInit == Init => MutexInv
BY DEF Init, MutexInv, Locked, IdleSink

(* Nobody comes in and nobody goes. *)
LEMMA MutexFrame ==
    ASSUME MutexInv, UNCHANGED locked,
           sink'.phase = "erasing" <=> sink.phase = "erasing",
           \A w \in Workers : phase'[w] \in Locked <=> phase[w] \in Locked
    PROVE  MutexInv'
BY DEF MutexInv, Locked

LEMMA MutexSink ==
    ASSUME Core, MutexInv, DatasetStep \/ FailSink
    PROVE  MutexInv'
<1>1. phase' = phase
  BY DEF DatasetStep, ReconcileDataset, ResolveDataset, LockForTeardown,
         EraseRow, FinishTeardown, CommitDataset, FailSink, batches
<1>2. CASE LockForTeardown
  BY <1>1, <1>2 DEF LockForTeardown, MutexInv, Locked, Core, TypeOK
<1>3. CASE FinishTeardown \/ (FailSink /\ sink.phase = "erasing")
  <2>1. sink.phase = "erasing" /\ sink'.phase # "erasing" /\ locked' = FALSE
    <3>1. CASE FinishTeardown
      BY <3>1 DEF FinishTeardown, Core, TypeOK
    <3>2. CASE FailSink /\ sink.phase = "erasing"
      BY <3>2 DEF FailSink, TeardownReleases, IdleSink
    <3> QED BY <1>3, <3>1, <3>2
  <2> QED BY <1>1, <2>1 DEF MutexInv, Locked
<1>4. CASE \/ ReconcileDataset \/ ResolveDataset \/ CommitDataset
           \/ \E d \in DataIds : EraseRow(d)
           \/ (FailSink /\ sink.phase # "erasing")
  <2>1. /\ locked' = locked
        /\ sink'.phase = "erasing" <=> sink.phase = "erasing"
    <3>1. CASE ReconcileDataset
      BY <3>1 DEF ReconcileDataset
    <3>2. CASE ResolveDataset
      BY <3>2 DEF ResolveDataset, Core, TypeOK
    <3>3. CASE CommitDataset
      BY <3>3 DEF CommitDataset, IdleSink
    <3>4. CASE FailSink /\ sink.phase # "erasing"
      BY <3>4 DEF FailSink, TeardownReleases, IdleSink
    <3>5. CASE \E d \in DataIds : EraseRow(d)
      BY <3>5 DEF EraseRow
    <3> QED BY <1>4, <3>1, <3>2, <3>3, <3>4, <3>5
  <2> QED BY <1>1, <2>1, MutexFrame
<1> QED BY <1>2, <1>3, <1>4 DEF DatasetStep

LEMMA MutexBatch ==
    ASSUME Core, MutexInv, NEW w \in Workers, BatchStep(w) \/ FailBatch(w)
    PROVE  MutexInv'
<1>1. sink' = sink /\ phase \in [Workers -> BatchPhases]
  BY BatchFrame DEF Core, TypeOK
<1>2. CASE EnterLock(w)
  BY <1>1, <1>2 DEF EnterLock, MutexInv, Locked
<1>3. ASSUME phase[w] \in Locked, NEW p, phase' = [phase EXCEPT ![w] = p],
             locked' <=> p \in Locked
      PROVE  MutexInv'
  BY <1>1, <1>3 DEF MutexInv, Locked
<1>4. ASSUME phase[w] \notin Locked, NEW p, phase' = [phase EXCEPT ![w] = p],
             p \notin Locked, locked' = locked
      PROVE  MutexInv'
  BY <1>1, <1>4, MutexFrame
<1>5. CASE Remove(w)
  BY <1>3, <1>5 DEF Remove, Locked
<1>6. CASE Add(w)
  BY <1>3, <1>6 DEF Add, Locked
<1>7. CASE Cognify(w)
  BY <1>3, <1>7 DEF Cognify, Locked
<1>8. CASE (\E k \in Keys : Submit(w, k)) \/ CommitDocument(w)
  BY <1>4, <1>8 DEF Submit, CommitDocument, InFlight, Locked
<1>9. CASE FailBatch(w)
  BY <1>3, <1>4, <1>9 DEF FailBatch, Locked
<1> QED BY <1>2, <1>5, <1>6, <1>7, <1>8, <1>9 DEF BatchStep

LEMMA MutexStep == Core /\ MutexInv /\ [Next]_vars => MutexInv'
<1> SUFFICES ASSUME Core, MutexInv, [Next]_vars PROVE MutexInv'
  OBVIOUS
<1>1. ASSUME NEW spec \in DatasetRecord \cup {NonExistence}, Redeclare(spec)
      PROVE  UNCHANGED <<sink, locked, phase>>
  BY <1>1 DEF Redeclare, batches
<1>2. ASSUME NEW k \in Keys,
             NEW spec \in CogneeDocumentSpec \cup {NonExistence},
             Declare(k, spec)
      PROVE  UNCHANGED <<sink, locked, phase>>
  BY <1>2 DEF Declare, batches
<1>3. ASSUME UNCHANGED vars PROVE UNCHANGED <<sink, locked, phase>>
  BY <1>3 DEF vars
<1>4. ASSUME UNCHANGED <<sink, locked, phase>> PROVE MutexInv'
  BY <1>4, MutexFrame
<1> QED BY <1>1, <1>2, <1>3, <1>4, MutexSink, MutexBatch DEF Next, Disturb

(* While the teardown has the lock, or waits for it, no other step gives the
   dataset another id. *)
LEMMA TeardownStep == Core /\ TeardownInv /\ [Next]_vars => TeardownInv'
<1> SUFFICES ASSUME Core, TeardownInv, [Next]_vars,
                    sink'.phase \in {"locking", "erasing"}
             PROVE  sink'.id \in {dataset', NoDataset}
  BY DEF TeardownInv
<1>1. CASE ReconcileDataset \/ CommitDataset \/ FailSink
  BY <1>1 DEF ReconcileDataset, CommitDataset, FailSink, IdleSink
<1>2. CASE ResolveDataset
  BY <1>2 DEF ResolveDataset, Core, TypeOK
<1>3. CASE LockForTeardown \/ \E d \in DataIds : EraseRow(d)
  BY <1>3 DEF LockForTeardown, EraseRow, TeardownInv, Core, TypeOK
<1>4. CASE FinishTeardown
  BY <1>4 DEF FinishTeardown, Core, TypeOK
<1>5. ASSUME NEW w \in Workers, BatchStep(w) \/ FailBatch(w)
      PROVE  sink'.id \in {dataset', NoDataset}
  <2>1. sink' = sink /\ sink.id \in {dataset, NoDataset}
    BY <1>5, BatchFrame DEF TeardownInv
  <2>2. dataset # NoDataset => dataset' = dataset
    BY <1>5 DEF BatchStep, Submit, EnterLock, Remove, Add, Cognify,
                CommitDocument, FailBatch
  <2> QED BY <2>1, <2>2
<1>6. ASSUME NEW spec \in DatasetRecord \cup {NonExistence}, Redeclare(spec)
      PROVE  UNCHANGED <<sink, dataset>>
  BY <1>6 DEF Redeclare
<1>7. ASSUME NEW k \in Keys,
             NEW spec \in CogneeDocumentSpec \cup {NonExistence},
             Declare(k, spec)
      PROVE  UNCHANGED <<sink, dataset>>
  BY <1>7 DEF Declare
<1>8. ASSUME UNCHANGED vars PROVE UNCHANGED <<sink, dataset>>
  BY <1>8 DEF vars
<1>9. ASSUME UNCHANGED <<sink, dataset>>
      PROVE  sink'.id \in {dataset', NoDataset}
  BY <1>9 DEF TeardownInv
<1> QED BY <1>1, <1>2, <1>3, <1>4, <1>5, <1>6, <1>7, <1>8, <1>9
        DEF Next, DatasetStep, Disturb

-----------------------------------------------------------------------------
(* The user's claim. *)

(* A step of the sink before its commit keeps the dataset's records. *)
LEMMA RecordsKept ==
    ASSUME [Next]_vars, ~ReconcileDataset, ~CommitDataset
    PROVE  UNCHANGED <<dtrack, claimed>>
BY DEF Next, DatasetStep, BatchStep, Disturb, vars, ResolveDataset,
       LockForTeardown, EraseRow, FinishTeardown, FailSink, Submit, EnterLock,
       Remove, Add, Cognify, CommitDocument, FailBatch, Redeclare, Declare

LEMMA ClaimStep == Core /\ ClaimInv /\ [Next]_vars => ClaimInv'
<1> SUFFICES ASSUME Core, ClaimInv, [Next]_vars PROVE ClaimInv'
  OBVIOUS
<1>1. CASE ReconcileDataset
  <2>1. DatasetRecords' = DatasetRecords \cup ({wanted} \ {NonExistence})
    BY <1>1 DEF ReconcileDataset, Precommit, DatasetRecords, Core, TypeOK,
                DatasetEntries
  <2> QED BY <1>1, <2>1 DEF ReconcileDataset, ClaimInv, Owners
<1>2. CASE CommitDataset
  <2>1. claimed' => sink.spec # NonExistence /\ sink.spec.managed_by = "user"
    BY <1>2 DEF CommitDataset
  <2>2. claimed' => DatasetRecords' = {sink.spec}
    BY <1>2, <2>1 DEF CommitDataset, DatasetRecords
  <2> QED BY <2>1, <2>2 DEF ClaimInv, Owners
<1>3. CASE ~ReconcileDataset /\ ~CommitDataset
  BY <1>3, RecordsKept DEF ClaimInv, DatasetRecords, Owners
<1> QED BY <1>1, <1>2, <1>3

-----------------------------------------------------------------------------
(* Rows and records. *)

(* A cause that hides rows from the record stays until a commit. *)
Recorded == causes \cap LosesRecord = {}

LEMMA RowsReconcile == ASSUME Core, RowsInv, ReconcileDataset PROVE RowsInv'
<1>1. /\ UNCHANGED <<store, phase, causes>>
      /\ sink'.phase = "done" => sink'.main = "none"
  BY DEF ReconcileDataset, batches
<1>2. DatasetRecords \subseteq DatasetRecords'
  BY DEF ReconcileDataset, Precommit, DatasetRecords, Core, TypeOK,
         DatasetEntries
<1>3. (Idle' <=> Idle) /\ (RowsExist' <=> RowsExist)
  BY <1>1 DEF Idle, InFlight, RowsExist
<1> QED BY <1>1, <1>2, <1>3 DEF RowsInv

LEMMA RowsSink ==
    ASSUME Core, MutexInv, TeardownInv, RowsInv,
           \/ ResolveDataset \/ LockForTeardown \/ FinishTeardown
           \/ \E d \in DataIds : EraseRow(d)
    PROVE  RowsInv'
<1>1. UNCHANGED <<dtrack, phase, causes>>
  BY DEF ResolveDataset, LockForTeardown, FinishTeardown, EraseRow, batches
<1>2. DatasetRecords' = DatasetRecords /\ (Idle' <=> Idle)
  BY <1>1 DEF DatasetRecords, Idle, InFlight
<1>3. CASE ResolveDataset
  <2>1. UNCHANGED store /\ (sink'.phase = "done" => sink'.main # "delete")
    BY <1>3 DEF ResolveDataset, Core, TypeOK
  <2> QED BY <1>1, <1>2, <2>1 DEF RowsInv, RowsExist
<1>4. CASE LockForTeardown
  <2>1. UNCHANGED store /\ sink'.phase # "done"
    BY <1>4 DEF LockForTeardown, Core, TypeOK
  <2> QED BY <1>1, <1>2, <2>1 DEF RowsInv, RowsExist
<1>5. CASE FinishTeardown
  <2>1. UNCHANGED store /\ sink.phase = "erasing"
        /\ (Reaches(sink.id) => ~RowsExist)
    BY <1>5 DEF FinishTeardown
  <2>2. ~RowsExist
    BY <2>1 DEF TeardownInv, Core, TypeOK, Reaches, RowsExist
  <2>3. \A w \in Workers : phase[w] \notin Locked
    BY <2>1 DEF MutexInv
  <2> QED BY <1>1, <1>2, <2>1, <2>2, <2>3 DEF RowsInv, RowsExist, Locked
<1>6. ASSUME NEW d \in DataIds, EraseRow(d) PROVE RowsInv'
  <2>1. sink.phase = "erasing" /\ store' = [store EXCEPT ![d] = NoRow]
        /\ UNCHANGED sink
    BY <1>6 DEF EraseRow
  <2>2. RowsExist' => RowsExist
    BY <2>1 DEF RowsExist, Core, TypeOK
  <2> QED BY <1>1, <1>2, <2>1, <2>2 DEF RowsInv
<1> QED BY <1>3, <1>4, <1>5, <1>6

LEMMA RowsCommit == ASSUME Core, RowsInv, CommitDataset PROVE RowsInv'
<1>1. /\ UNCHANGED <<store, phase>>
      /\ sink' = IdleSink /\ sink.phase = "done"
  BY DEF CommitDataset, batches
<1>2. (Idle' <=> Idle) /\ (RowsExist' <=> RowsExist)
  BY <1>1 DEF Idle, InFlight, RowsExist
<1>3. CASE sink.spec = NonExistence
  <2>1. causes' = Overlap \cup IF RowsExist THEN causes \cup Handoff ELSE {}
    BY <1>3 DEF CommitDataset
  <2>2. Recorded' => Idle
    BY <2>1 DEF Recorded, LosesRecord, Overlap, Idle
  <2>3. Recorded' => ~RowsExist
    <3> SUFFICES ASSUME Recorded', RowsExist PROVE FALSE
      OBVIOUS
    <3>1. Recorded /\ "user" \notin Owners(DatasetRecords)
      BY <2>1 DEF Handoff, Recorded, LosesRecord
    <3>2. DatasetRecords # {}
      BY <3>1 DEF RowsInv, Recorded
    <3>3. sink.main = "delete"
      BY <1>1, <1>3, <3>1, <3>2 DEF Core, SinkInv, TeardownDue
    <3> QED BY <1>1, <3>1, <3>3 DEF RowsInv, Recorded
  <2> QED BY <1>1, <1>2, <2>2, <2>3 DEF RowsInv, IdleSink, Recorded, LosesRecord
<1>4. CASE sink.spec # NonExistence
  <2>1. DatasetRecords' # {}
    BY <1>4 DEF CommitDataset, DatasetRecords
  <2> QED BY <1>1, <2>1 DEF RowsInv, IdleSink
<1> QED BY <1>3, <1>4

(* A teardown that fails leaves rows and record. *)
LEMMA RowsFailSink == ASSUME Core, RowsInv, FailSink PROVE RowsInv'
<1>1. /\ UNCHANGED <<dtrack, phase>> /\ sink' = IdleSink
      /\ causes' \in {causes, causes \cup {"teardown"}}
  BY DEF FailSink, batches
<1>2. DatasetRecords' = DatasetRecords /\ (Idle' <=> Idle)
  BY <1>1 DEF DatasetRecords, Idle, InFlight
<1>3. RowsExist' => RowsExist
  BY DEF FailSink, RowsExist, Core, TypeOK
<1>4. causes' \cap LosesRecord = causes \cap LosesRecord
  BY <1>1 DEF LosesRecord
<1> QED BY <1>1, <1>2, <1>3, <1>4 DEF RowsInv, IdleSink, LosesRecord

LEMMA RowsBatch ==
    ASSUME Core, RowsInv, NEW w \in Workers, BatchStep(w) \/ FailBatch(w)
    PROVE  RowsInv'
<1>1. /\ UNCHANGED sink /\ DatasetRecords' = DatasetRecords
      /\ Recorded' => Recorded
  BY BatchFrame DEF Recorded, LosesRecord
<1>2. CASE \E k \in Keys : Submit(w, k)
  <2>1. handler # Nothing
    BY <1>2 DEF Submit
  <2>2. DatasetRecords # {} /\ (sink.phase = "done" => sink.main # "delete")
    BY <2>1 DEF Core, SinkInv
  <2> QED BY <1>1, <2>2 DEF RowsInv
<1>3. CASE ~\E k \in Keys : Submit(w, k)
  <2>1. InFlight(w)
    BY <1>3 DEF BatchStep, EnterLock, Remove, Add, Cognify, CommitDocument,
                FailBatch, InFlight
  <2>2. Recorded => DatasetRecords # {}
    BY <2>1 DEF RowsInv, Recorded, Idle
  <2>3. ASSUME Recorded', sink.phase = "done", sink.main = "delete"
        PROVE  ~RowsExist' /\ \A v \in Workers : phase'[v] \notin Locked
    <3>1. ~RowsExist /\ \A v \in Workers : phase[v] \notin Locked
      BY <1>1, <2>3 DEF RowsInv, Recorded
    <3>2. ~EnterLock(w)
      BY <2>3 DEF EnterLock, Recorded, LosesRecord
    <3>3. CommitDocument(w) \/ FailBatch(w)
      BY <1>3, <3>1, <3>2 DEF BatchStep, Remove, Add, Cognify, Locked
    <3>4. UNCHANGED store /\ phase' = [phase EXCEPT ![w] = "idle"]
      BY <3>1, <3>3 DEF CommitDocument, FailBatch, Locked
    <3> QED BY <3>1, <3>4 DEF RowsExist, Locked, Core, TypeOK
  <2> QED BY <1>1, <2>2, <2>3 DEF RowsInv, Recorded, LosesRecord, Locked
<1> QED BY <1>2, <1>3

LEMMA RowsOutside ==
    ASSUME Core, RowsInv,
           \/ \E spec \in DatasetRecord \cup {NonExistence} : Redeclare(spec)
           \/ \E k \in Keys, spec \in CogneeDocumentSpec \cup {NonExistence} :
                 Declare(k, spec)
           \/ UNCHANGED vars
    PROVE  RowsInv'
<1>1. UNCHANGED <<dtrack, dataset, store, sink, phase, causes>>
  <2>1. ASSUME NEW spec \in DatasetRecord \cup {NonExistence}, Redeclare(spec)
        PROVE  UNCHANGED <<dtrack, dataset, store, sink, phase, causes>>
    BY <2>1 DEF Redeclare, batches
  <2>2. ASSUME NEW k \in Keys,
               NEW spec \in CogneeDocumentSpec \cup {NonExistence},
               Declare(k, spec)
        PROVE  UNCHANGED <<dtrack, dataset, store, sink, phase, causes>>
    BY <2>2 DEF Declare, batches
  <2>3. CASE UNCHANGED vars
    BY <2>3 DEF vars
  <2> QED BY <2>1, <2>2, <2>3
<1> QED BY <1>1 DEF RowsInv, DatasetRecords, Idle, InFlight, RowsExist

LEMMA RowsStep ==
    Core /\ MutexInv /\ TeardownInv /\ RowsInv /\ [Next]_vars => RowsInv'
BY RowsReconcile, RowsSink, RowsCommit, RowsFailSink, RowsBatch, RowsOutside
   DEF Next, DatasetStep, Disturb

-----------------------------------------------------------------------------
(* The theorems. *)

LEMMA LifecycleInit == Init => LifecycleInv
<1>1. Init => ClaimInv /\ TeardownInv /\ RowsInv
  BY DEF Init, ClaimInv, TeardownInv, RowsInv, IdleSink, Idle, InFlight,
         RowsExist
<1> QED BY <1>1, CoreInit, MutexInit DEF LifecycleInv

LEMMA LifecycleStep == LifecycleInv /\ [Next]_vars => LifecycleInv'
BY CoreStep, MutexStep, ClaimStep, TeardownStep, RowsStep DEF LifecycleInv

(* The invariant holds in every reachable state. *)
THEOREM LifecycleInductive == Spec => []LifecycleInv
BY LifecycleInit, LifecycleStep, PTL DEF Spec

(* Every variable keeps its type, and rows exist in an existing dataset only
   (_target.py 305-457). *)
THEOREM LifecycleTypeCorrect == Spec => []TypeOK
<1>1. LifecycleInv => TypeOK
  BY DEF LifecycleInv, Core
<1> QED BY <1>1, LifecycleInductive, PTL

(* A dataset that was declared as the user's is never torn down before a
   system-managed declaration of it, or its unmount, has been committed
   (_target.py 354-361). *)
THEOREM UserAlwaysSpared == Spec => []TeardownSparesUser
<1>1. LifecycleInv => TeardownSparesUser
  BY DEF LifecycleInv, Core, SinkInv, TeardownDue, ClaimInv, TeardownSparesUser
<1> QED BY <1>1, LifecycleInductive, PTL

(* Rows never outlive the tracking record of their dataset, however often
   updates and teardowns fail, also half way through the rows, and whatever is
   declared in between (_target.py 405-437). *)
THEOREM RowsAlwaysKeepDataset == Spec => []RowsKeepTheirDataset
<1>1. LifecycleInv => RowsKeepTheirDataset
  BY DEF LifecycleInv, RowsInv, RowsKeepTheirDataset
<1> QED BY <1>1, LifecycleInductive, PTL

-----------------------------------------------------------------------------
(* The lock. *)

LEMMA LockStep ==
    ASSUME Core, MutexInv, [Next]_vars
    PROVE  [LockUse!AccessNext]_<<LockStatus, <<dataset, store>>>>
<1> DEFINE SinkPlace(p) == IF p = "locking" THEN "waiting"
                           ELSE IF p = "erasing" THEN "in" ELSE "out"
           Place(p) == IF p = "waiting" THEN "waiting"
                       ELSE IF p \in Locked THEN "in" ELSE "out"
           Clients == Workers \cup {Nothing}
           Allowed == [LockUse!AccessNext]_<<LockStatus, <<dataset, store>>>>
           Untouched == UNCHANGED <<dataset, store>>
<1>1. /\ LockStatus = [t \in Clients |-> IF t = Nothing THEN SinkPlace(sink.phase)
                                         ELSE Place(phase[t])]
      /\ LockStatus' = [t \in Clients |->
                          IF t = Nothing THEN SinkPlace(sink'.phase)
                          ELSE Place(phase'[t])]
  BY DEF LockStatus, Locked
<1>2. Nothing \notin Workers
  BY LifecycleAssumption
<1>3. ASSUME phase' = phase
      PROVE  LockStatus' = [LockStatus EXCEPT ![Nothing] = SinkPlace(sink'.phase)]
  BY <1>1, <1>2, <1>3
<1>4. ASSUME NEW w \in Workers, NEW p \in BatchPhases,
             phase' = [phase EXCEPT ![w] = p], sink' = sink
      PROVE  LockStatus' = [LockStatus EXCEPT ![w] = Place(p)]
  BY <1>1, <1>2, <1>4 DEF Core, TypeOK
<1>5. ASSUME phase' = phase, SinkPlace(sink'.phase) = SinkPlace(sink.phase)
      PROVE  LockStatus' = LockStatus
  BY <1>1, <1>5
<1>6. ASSUME NEW w \in Workers, NEW p \in BatchPhases, Place(p) = Place(phase[w]),
             phase' = [phase EXCEPT ![w] = p], sink' = sink
      PROVE  LockStatus' = LockStatus
  BY <1>1, <1>2, <1>6 DEF Core, TypeOK
<1>7. /\ LockStatus[Nothing] = SinkPlace(sink.phase)
      /\ \A w \in Workers : LockStatus[w] = Place(phase[w])
  BY <1>1, <1>2
<1>8. ~locked => LockUse!Free
  <2>1. ~locked => /\ sink.phase # "erasing"
                   /\ \A v \in Workers : phase[v] \notin Locked
    BY DEF MutexInv
  <2> QED BY <1>7, <2>1 DEF LockUse!Free
<1>9. ASSUME LockUse!LockNext, Untouched PROVE Allowed
  BY <1>9 DEF LockUse!AccessNext
<1>10. ASSUME NEW t \in Clients, LockStatus[t] = "in",
              \/ LockStatus' = LockStatus
              \/ LockStatus' = [LockStatus EXCEPT ![t] = "out"]
       PROVE  Allowed
  BY <1>10 DEF LockUse!AccessNext, LockUse!Access
<1>11. ASSUME LockStatus' = LockStatus, Untouched PROVE Allowed
  BY <1>11
<1> SUFFICES Allowed
  OBVIOUS
<1> HIDE DEF Allowed
<1>12. CASE ReconcileDataset
  <2>1. phase' = phase /\ sink.phase = "idle" /\ Untouched
        /\ sink'.phase \in {"done", "resolving"}
    BY <1>12 DEF ReconcileDataset, batches
  <2> QED BY <1>5, <1>11, <2>1
<1>13. CASE ResolveDataset
  <2>1. /\ phase' = phase /\ sink.phase = "resolving" /\ Untouched
        /\ sink'.phase = "locking" \/ sink'.phase = "done"
    <3>1. sink' = [[sink EXCEPT !.phase = "locking"] EXCEPT !.id = dataset]
          \/ sink' = [[sink EXCEPT !.phase = "done"] EXCEPT !.id = dataset]
      BY <1>13 DEF ResolveDataset
    <3> QED BY <1>13, <3>1 DEF ResolveDataset, batches, Core, TypeOK
  <2>2. CASE sink'.phase = "done"
    BY <1>5, <1>11, <2>1, <2>2
  <2>3. CASE sink'.phase = "locking"
    <3>1. LockUse!Request(Nothing)
      BY <1>3, <1>7, <2>1, <2>3 DEF LockUse!Request
    <3> QED BY <1>9, <2>1, <3>1 DEF LockUse!LockNext
  <2> QED BY <2>1, <2>2, <2>3
<1>14. CASE LockForTeardown
  <2>1. /\ phase' = phase /\ sink.phase = "locking" /\ Untouched
        /\ sink'.phase = "erasing" /\ ~locked
    BY <1>14 DEF LockForTeardown, batches, Core, TypeOK
  <2>2. LockUse!Enter(Nothing)
    BY <1>3, <1>7, <1>8, <2>1 DEF LockUse!Enter
  <2> QED BY <1>9, <2>1, <2>2 DEF LockUse!LockNext
<1>15. CASE \E d \in DataIds : EraseRow(d)
  <2>1. phase' = phase /\ sink' = sink /\ sink.phase = "erasing"
    BY <1>15 DEF EraseRow, batches
  <2> QED BY <1>5, <1>7, <1>10, <2>1
<1>16. CASE FinishTeardown
  <2>1. phase' = phase /\ sink.phase = "erasing" /\ sink'.phase = "done"
    BY <1>16 DEF FinishTeardown, batches, Core, TypeOK
  <2> QED BY <1>3, <1>7, <1>10, <2>1
<1>17. CASE CommitDataset
  <2>1. phase' = phase /\ sink.phase = "done" /\ sink'.phase = "idle"
        /\ Untouched
    BY <1>17 DEF CommitDataset, batches, IdleSink
  <2> QED BY <1>5, <1>11, <2>1
<1>18. CASE FailSink
  <2>1. phase' = phase /\ sink'.phase = "idle"
        /\ (sink.phase = "erasing" \/ Untouched)
    BY <1>18 DEF FailSink, batches, IdleSink
  <2>2. CASE sink.phase = "locking"
    <3>1. LockUse!GiveUp(Nothing)
      BY <1>3, <1>7, <2>1, <2>2 DEF LockUse!GiveUp
    <3> QED BY <1>9, <2>1, <2>2, <3>1 DEF LockUse!LockNext
  <2>3. CASE sink.phase = "erasing"
    BY <1>3, <1>7, <1>10, <2>1, <2>3
  <2>4. CASE sink.phase \notin {"locking", "erasing"}
    BY <1>5, <1>11, <2>1, <2>4
  <2> QED BY <2>2, <2>3, <2>4
<1>19. ASSUME NEW w \in Workers, BatchStep(w) PROVE Allowed
  <2>1. sink' = sink
    BY <1>19, BatchFrame
  <2>2. ASSUME NEW k \in Keys, Submit(w, k) PROVE Allowed
    <3>1. phase[w] = "idle" /\ phase' = [phase EXCEPT ![w] = "waiting"]
          /\ Untouched
      BY <2>2 DEF Submit, InFlight
    <3>2. LockUse!Request(w)
      BY <1>4, <1>7, <2>1, <3>1 DEF LockUse!Request, BatchPhases, Locked
    <3> QED BY <1>9, <3>1, <3>2 DEF LockUse!LockNext
  <2>3. ASSUME EnterLock(w) PROVE Allowed
    <3>1. phase[w] = "waiting" /\ phase' = [phase EXCEPT ![w] = "removing"]
          /\ Untouched /\ LockUse!Free
      BY <1>8, <2>3 DEF EnterLock
    <3>2. LockUse!Enter(w)
      BY <1>4, <1>7, <2>1, <3>1 DEF LockUse!Enter, BatchPhases, Locked
    <3> QED BY <1>9, <3>1, <3>2 DEF LockUse!LockNext
  <2>4. ASSUME NEW p \in BatchPhases, phase[w] \in Locked,
               phase' = [phase EXCEPT ![w] = p], p \in Locked \/ p = "applied"
        PROVE  Allowed
    <3>1. CASE p \in Locked
      BY <1>6, <1>7, <1>10, <2>1, <2>4, <3>1 DEF Locked
    <3>2. CASE p = "applied"
      BY <1>4, <1>7, <1>10, <2>1, <2>4, <3>2 DEF Locked
    <3> QED BY <2>4, <3>1, <3>2
  <2>5. ASSUME Remove(w) \/ Add(w) \/ Cognify(w) PROVE Allowed
    <3>1. /\ phase[w] \in Locked
          /\ \E p \in BatchPhases : /\ phase' = [phase EXCEPT ![w] = p]
                                    /\ p \in Locked \/ p = "applied"
      BY <2>5 DEF Remove, Add, Cognify, Locked, BatchPhases
    <3> QED BY <2>4, <3>1
  <2>6. ASSUME CommitDocument(w) PROVE Allowed
    <3>1. phase[w] = "applied" /\ phase' = [phase EXCEPT ![w] = "idle"]
          /\ Untouched
      BY <2>6 DEF CommitDocument
    <3> QED BY <1>6, <1>11, <2>1, <3>1 DEF BatchPhases, Locked
  <2> QED BY <1>19, <2>2, <2>3, <2>5, <2>6 DEF BatchStep
<1>20. ASSUME NEW w \in Workers, FailBatch(w) PROVE Allowed
  <2>1. /\ sink' = sink /\ phase' = [phase EXCEPT ![w] = "idle"]
        /\ "idle" \in BatchPhases
        /\ phase[w] \in Locked \/ Untouched
    BY <1>20, BatchFrame DEF FailBatch, BatchPhases, Locked
  <2>2. LockStatus' = [LockStatus EXCEPT ![w] = "out"]
    BY <1>4, <2>1 DEF Locked
  <2>3. CASE Place(phase[w]) = "out"
    BY <1>6, <1>11, <2>1, <2>3 DEF Locked
  <2>4. CASE Place(phase[w]) = "waiting"
    <3>1. LockUse!GiveUp(w) /\ Untouched
      BY <1>7, <2>1, <2>2, <2>4 DEF LockUse!GiveUp, Locked
    <3> QED BY <1>9, <3>1 DEF LockUse!LockNext
  <2>5. CASE Place(phase[w]) = "in"
    BY <1>7, <1>10, <2>2, <2>5
  <2> QED BY <2>3, <2>4, <2>5
<1>21. ASSUME NEW spec \in DatasetRecord \cup {NonExistence}, Redeclare(spec)
       PROVE  Allowed
  BY <1>5, <1>11, <1>21 DEF Redeclare, batches
<1>22. ASSUME NEW k \in Keys,
              NEW spec \in CogneeDocumentSpec \cup {NonExistence},
              Declare(k, spec)
       PROVE  Allowed
  BY <1>5, <1>11, <1>22 DEF Declare, batches
<1>23. CASE UNCHANGED vars
  BY <1>5, <1>11, <1>23 DEF vars
<1> QED BY <1>12, <1>13, <1>14, <1>15, <1>16, <1>17, <1>18, <1>19, <1>20, <1>21,
           <1>22, <1>23
        DEF Next, DatasetStep, Disturb

(* The lock that teardown and batches share lets one in at a time, through
   every give-up and failure, and the dataset and its rows change at the hands
   of the one that is in, or not at all (_target.py 273, 430). *)
THEOREM LockShared == Spec => SharesDatasetLock
<1>1. Init => LockUse!LockInit
  BY DEF Init, LockUse!LockInit, LockStatus, IdleSink, Locked
<1>2. LifecycleInv => Core /\ MutexInv
  BY DEF LifecycleInv
<1> QED BY <1>1, <1>2, LifecycleInductive, LockStep, PTL
        DEF Spec, SharesDatasetLock, LockUse!AccessSpec

-----------------------------------------------------------------------------
(* What a batch has done when it returns. *)

(* A batch moves on by its own steps only. *)
LEMMA OthersKeepPhase ==
    ASSUME Core, [Next]_vars, NEW w \in Workers,
           ~(BatchStep(w) \/ FailBatch(w))
    PROVE  phase'[w] = phase[w]
<1>1. CASE DatasetStep \/ FailSink
  BY <1>1 DEF DatasetStep, ReconcileDataset, ResolveDataset, LockForTeardown,
              EraseRow, FinishTeardown, CommitDataset, FailSink, batches
<1>2. ASSUME NEW v \in Workers \ {w}, BatchStep(v) \/ FailBatch(v)
      PROVE  phase'[w] = phase[w]
  <2>1. PICK p : phase' = [phase EXCEPT ![v] = p]
    BY <1>2 DEF BatchStep, Submit, EnterLock, Remove, Add, Cognify,
                CommitDocument, FailBatch
  <2> QED BY <2>1 DEF Core, TypeOK
<1>3. ASSUME NEW spec \in DatasetRecord \cup {NonExistence}, Redeclare(spec)
      PROVE  phase' = phase
  BY <1>3 DEF Redeclare, batches
<1>4. ASSUME NEW k \in Keys,
             NEW spec \in CogneeDocumentSpec \cup {NonExistence},
             Declare(k, spec)
      PROVE  phase' = phase
  BY <1>4 DEF Declare, batches
<1>5. ASSUME UNCHANGED vars PROVE phase' = phase
  BY <1>5 DEF vars
<1> QED BY <1>1, <1>2, <1>3, <1>4, <1>5 DEF Next, Disturb

(* Under the lock of one batch nobody else changes rows or the dataset. *)
LEMMA OthersKeepAway ==
    ASSUME Core, MutexInv, [Next]_vars, NEW w \in Workers, phase[w] \in Locked,
           ~(BatchStep(w) \/ FailBatch(w))
    PROVE  UNCHANGED <<dataset, store>> /\ phase'[w] = phase[w]
           /\ work'[w] = work[w]
<1>1. sink.phase # "erasing" /\ \A v \in Workers \ {w} : phase[v] \notin Locked
  BY DEF MutexInv
<1>2. CASE DatasetStep \/ FailSink
  <2>1. UNCHANGED <<phase, work>>
    BY <1>2 DEF DatasetStep, ReconcileDataset, ResolveDataset, LockForTeardown,
                EraseRow, FinishTeardown, CommitDataset, FailSink, batches
  <2>2. UNCHANGED <<dataset, store>>
    BY <1>1, <1>2
       DEF DatasetStep, ReconcileDataset, ResolveDataset, LockForTeardown,
           EraseRow, FinishTeardown, CommitDataset, FailSink
  <2> QED BY <2>1, <2>2
<1>3. ASSUME NEW v \in Workers \ {w}, BatchStep(v) \/ FailBatch(v)
      PROVE  UNCHANGED <<dataset, store>> /\ phase'[w] = phase[w]
             /\ work'[w] = work[w]
  <2>1. phase[v] \notin Locked
    BY <1>1
  <2>2. /\ UNCHANGED <<dataset, store>>
        /\ \E p : phase' = [phase EXCEPT ![v] = p]
        /\ work' = work \/ \E a : work' = [work EXCEPT ![v] = a]
    BY <1>3, <2>1 DEF BatchStep, Submit, EnterLock, Remove, Add, Cognify,
                      CommitDocument, FailBatch, Locked
  <2> QED BY <2>2 DEF Core, TypeOK
<1>4. ASSUME NEW spec \in DatasetRecord \cup {NonExistence}, Redeclare(spec)
      PROVE  UNCHANGED <<dataset, store, phase, work>>
  BY <1>4 DEF Redeclare, batches
<1>5. ASSUME NEW k \in Keys,
             NEW spec \in CogneeDocumentSpec \cup {NonExistence},
             Declare(k, spec)
      PROVE  UNCHANGED <<dataset, store, phase, work>>
  BY <1>5 DEF Declare, batches
<1>6. ASSUME UNCHANGED vars PROVE UNCHANGED <<dataset, store, phase, work>>
  BY <1>6 DEF vars
<1> QED BY <1>2, <1>3, <1>4, <1>5, <1>6 DEF Next, Disturb

(* The row that add leaves holds what the batch was asked to write. *)
LEMMA AddWrites ==
    ASSUME Core, NEW w \in Workers, Add(w)
    PROVE  /\ dataset' # NoDataset /\ work'[w].id = dataset'
           /\ work'[w].target = work[w].target
           /\ work'[w].key = work[w].key
           /\ store'[Target(w)] \in Rows
           /\ store'[Target(w)].content = work[w].target.content
<1>1. /\ work[w] \in Works /\ work[w].target \in DocumentRecord
      /\ Target(w) \in DataIds
  <2>1. TheIdentity \in Identities
    BY LifecycleAssumption DEF TheIdentity
  <2> QED BY <2>1 DEF Add, Core, TypeOK, BatchInv, InFlight, Target, Works,
                      document_data_id, DataIds
<1>2. dataset' \in DatasetIds
  BY <1>1 DEF Add, Core, TypeOK, Works
<1>3. /\ AddedRow(store[Target(w)], work[w].target) \in Rows
      /\ AddedRow(store[Target(w)], work[w].target).content
           = work[w].target.content
  <2>1. /\ NewRow(work[w].target) \in Rows
        /\ NewRow(work[w].target).content = work[w].target.content
    BY <1>1 DEF NewRow, Rows, DocumentRecord
  <2>2. ASSUME store[Target(w)] \in Rows
        PROVE  /\ UpdatedRow(store[Target(w)], work[w].target) \in Rows
               /\ UpdatedRow(store[Target(w)], work[w].target).content
                    = work[w].target.content
    BY <1>1, <2>2 DEF UpdatedRow, Rows, DocumentRecord
  <2> QED BY <1>1, <2>1, <2>2 DEF AddedRow, Core, TypeOK
<1>4. store'[Target(w)] = AddedRow(store[Target(w)], work[w].target)
  BY <1>1 DEF Add, Core, TypeOK
<1>5. work'[w] = [work[w] EXCEPT !.id = dataset']
  BY DEF Add, Core, TypeOK
<1> QED BY <1>1, <1>2, <1>3, <1>4, <1>5, LifecycleAssumption DEF Works

LEMMA WrittenStep ==
    Core /\ MutexInv /\ WrittenInv /\ [Next]_vars => WrittenInv'
<1> SUFFICES ASSUME Core, MutexInv, WrittenInv, [Next]_vars,
                    NEW w \in Workers, phase'[w] = "cognifying"
             PROVE  /\ dataset' # NoDataset /\ work'[w].id = dataset'
                    /\ store'[Target(w)'] \in Rows
                    /\ store'[Target(w)'].content = work'[w].target.content
  BY DEF WrittenInv
<1>1. CASE Add(w)
  BY <1>1, AddWrites DEF Target
<1>2. CASE ~(BatchStep(w) \/ FailBatch(w))
  <2>1. phase[w] = "cognifying"
    BY <1>2, OthersKeepPhase
  <2>2. UNCHANGED <<dataset, store>> /\ work'[w] = work[w]
    BY <1>2, <2>1, OthersKeepAway DEF Locked
  <2> QED BY <2>1, <2>2 DEF WrittenInv, Target
<1>3. CASE (BatchStep(w) \/ FailBatch(w)) /\ ~Add(w)
  BY <1>3 DEF BatchStep, Submit, EnterLock, Remove, Cognify, CommitDocument,
              FailBatch, Core, TypeOK
<1> QED BY <1>1, <1>2, <1>3 DEF BatchStep

LEMMA ReturnStep ==
    ASSUME Core, MutexInv, WrittenInv, [Next]_vars, NEW w \in Workers,
           phase[w] # "applied", phase'[w] = "applied"
    PROVE  LET row == store'[Target(w)] IN
           CASE work[w].op = "delete" ->
                  work[w].id \in {dataset', NoDataset} => row = NoRow
             [] work[w].op = "update_metadata" -> row # NoRow
             [] OTHER -> /\ row # NoRow
                         /\ row.complete
                         /\ row.content = work[w].target.content
<1>1. Remove(w) \/ Add(w) \/ Cognify(w)
  <2>1. CASE BatchStep(w) \/ FailBatch(w)
    BY <2>1 DEF BatchStep, Submit, EnterLock, CommitDocument, FailBatch, Core,
                TypeOK
  <2>2. CASE ~(BatchStep(w) \/ FailBatch(w))
    BY <2>2, OthersKeepPhase
  <2> QED BY <2>1, <2>2
<1>2. Target(w) \in DataIds /\ work[w] \in Works
  <2>1. TheIdentity \in Identities
    BY LifecycleAssumption DEF TheIdentity
  <2> QED BY <1>1, <2>1 DEF Remove, Add, Cognify, Core, TypeOK, Target, Works,
                            document_data_id, DataIds
<1>3. CASE Remove(w)
  <2>1. work[w].op = "delete" /\ dataset' = dataset
    BY <1>3 DEF Remove, Core, TypeOK
  <2>2. CASE Reaches(work[w].id)
    BY <1>2, <1>3, <2>1, <2>2 DEF Remove, Core, TypeOK
  <2>3. CASE ~Reaches(work[w].id)
    <3>1. store'[Target(w)] = store[Target(w)]
      BY <1>2, <1>3, <2>3 DEF Remove, Core, TypeOK
    <3> QED BY <1>2, <2>1, <2>3, <3>1 DEF Reaches, Core, TypeOK
  <2> QED BY <2>2, <2>3
<1>4. CASE Add(w)
  <2>1. work[w].op = "update_metadata"
    BY <1>4 DEF Add, Core, TypeOK
  <2> QED BY <1>4, <2>1, AddWrites, NoRowAssumption
<1>5. CASE Cognify(w)
  <2>1. /\ work[w].op # "delete"
        /\ store[Target(w)] \in Rows
        /\ store[Target(w)].content = work[w].target.content
    BY <1>5 DEF Cognify, Core, BatchInv, InFlight, WrittenInv
  <2>2. store'[Target(w)] \in Rows /\ store'[Target(w)].complete
        /\ store'[Target(w)].content = store[Target(w)].content
    <3>1. CASE Unprocessed(Target(w))
      <4> DEFINE row == DerivedBy(store[Target(w)], work[w].processing)
      <4>1. Fragment(store[Target(w)], work[w].processing) \in Fragments
        BY <1>2, <2>1 DEF Fragment, Fragments, Rows, Works
      <4>2. row \in Rows /\ row.content = store[Target(w)].content
        BY <2>1, <4>1 DEF DerivedBy, Rows
      <4>3. store'[Target(w)] = [row EXCEPT !.complete = TRUE]
        BY <1>2, <1>5, <3>1 DEF Cognify
      <4> HIDE DEF row
      <4> QED BY <4>2, <4>3 DEF Rows
    <3>2. CASE ~Unprocessed(Target(w))
      <4>1. store[Target(w)] # NoRow
        BY <2>1, NoRowAssumption
      <4> QED BY <1>2, <1>5, <2>1, <3>2, <4>1 DEF Cognify, Unprocessed
    <3> QED BY <3>1, <3>2
  <2> QED BY <2>1, <2>2, NoRowAssumption
<1> QED BY <1>1, <1>3, <1>4, <1>5

(* A batch returns only when its document is written and complete, or gone,
   in the dataset that its handle names (_target.py 273-285, 430-433, 442). *)
THEOREM BatchAlwaysReturnsDone == Spec => BatchReturnsDone
<1>1. Init => MutexInv /\ WrittenInv
  BY MutexInit DEF Init, WrittenInv
<1>2. LifecycleInv => Core
  BY DEF LifecycleInv
<1>3. Spec => [](Core /\ MutexInv /\ WrittenInv)
  <2>1. Core /\ MutexInv /\ WrittenInv /\ [Next]_vars
          => Core' /\ MutexInv' /\ WrittenInv'
    BY CoreStep, MutexStep, WrittenStep
  <2> QED BY <1>1, <2>1, CoreInit, PTL DEF Spec
<1>4. ASSUME Core, MutexInv, WrittenInv, [Next]_vars
      PROVE  [\A w \in Workers :
                phase[w] # "applied" /\ phase'[w] = "applied" =>
                  LET row == store'[Target(w)] IN
                  CASE work[w].op = "delete" ->
                         work[w].id \in {dataset', NoDataset} => row = NoRow
                    [] work[w].op = "update_metadata" -> row # NoRow
                    [] OTHER -> /\ row # NoRow
                                /\ row.complete
                                /\ row.content = work[w].target.content]_vars
  BY <1>4, ReturnStep
<1> QED BY <1>3, <1>4, PTL DEF Spec, BatchReturnsDone

-----------------------------------------------------------------------------
(* A fixed point is the declared state: what calls do to a row, and what a
   decision says of an entry. *)

LEMMA TargetRow ==
    /\ TheIdentity \in Identities
    /\ \A k \in Keys : document_data_id(k, TheIdentity) \in DataIds
    /\ \A j, k \in Keys : document_data_id(j, TheIdentity)
                            = document_data_id(k, TheIdentity) => j = k
<1>1. TheIdentity \in Identities
  BY LifecycleAssumption DEF TheIdentity
<1> QED BY <1>1 DEF document_data_id, DataIds

(* A purge leaves a bare row. *)
LEMMA PurgeBares ==
    ASSUME NEW row \in Rows
    PROVE  /\ PurgedRow(row) # NoRow
           /\ PurgedRow(row).derived = {} /\ ~PurgedRow(row).complete
           /\ PurgedRow(row).weight = row.weight
           /\ TornRow(row) # NoRow /\ TornRow(row).weight = row.weight
<1>1. PurgedRow(row) \in Rows /\ TornRow(row) \in Rows
  BY DEF PurgedRow, TornRow, Rows
<1> QED BY <1>1, NoRowAssumption DEF PurgedRow, TornRow, Rows

(* The converged row of a record is what the record describes, and nothing
   else is but for the label. *)
LEMMA ConvergedHolds ==
    ASSUME NEW r \in DocumentRecord
    PROVE  /\ ConvergedRow(r) \in Rows /\ ConvergedRow(r) # NoRow
           /\ ConvergedRow(r).complete
           /\ Holds(ConvergedRow(r), r) /\ ConvergedRow(r).label = r.label
           /\ \A row \in Rows :
                Holds(row, r) /\ row.label = r.label => row = ConvergedRow(r)
<1>1. ConvergedRow(r) \in Rows
  <2>1. Fragment(r, r.processing) \in Fragments
    BY DEF Fragment, Fragments, DocumentRecord
  <2> QED BY <2>1 DEF ConvergedRow, Rows, DocumentRecord
<1>2. ConvergedRow(r) # NoRow
  BY <1>1, NoRowAssumption
<1>3. Holds(ConvergedRow(r), r) /\ ConvergedRow(r).label = r.label
      /\ ConvergedRow(r).complete
  BY <1>2 DEF Holds, ConvergedRow
<1>4. ASSUME NEW row \in Rows, Holds(row, r), row.label = r.label
      PROVE  row = ConvergedRow(r)
  BY <1>4 DEF Holds, ConvergedRow, Rows
<1> QED BY <1>1, <1>2, <1>3, <1>4

(* What add makes of no row, of a bare row and of a row that only gets
   another label, and what cognify makes of an added row. *)
LEMMA WritesConverge ==
    ASSUME NEW r \in DocumentRecord
    PROVE  /\ NewRow(r) \in Rows /\ NewRow(r) # NoRow
           /\ ~NewRow(r).complete /\ NewRow(r).weight = r.weight
           /\ AddedRow(NoRow, r) = NewRow(r)
           /\ \A row \in Rows :
                row.derived = {} /\ ~row.complete /\ row.weight = r.weight
                  => AddedRow(row, r) = NewRow(r)
           /\ \A row \in Rows : Holds(row, r) => AddedRow(row, r) = ConvergedRow(r)
           /\ [DerivedBy(NewRow(r), r.processing) EXCEPT !.complete = TRUE]
                = ConvergedRow(r)
<1>1. NewRow(r) \in Rows
  BY DEF NewRow, Rows, DocumentRecord
<1>2. NewRow(r) # NoRow /\ ~NewRow(r).complete /\ NewRow(r).weight = r.weight
  BY <1>1, NoRowAssumption DEF NewRow
<1>3. AddedRow(NoRow, r) = NewRow(r)
  BY DEF AddedRow
<1>4. ASSUME NEW row \in Rows, row.derived = {}, ~row.complete,
             row.weight = r.weight
      PROVE  AddedRow(row, r) = NewRow(r)
  BY <1>4, NoRowAssumption DEF AddedRow, UpdatedRow, NewRow, Rows
<1>5. ASSUME NEW row \in Rows, Holds(row, r)
      PROVE  AddedRow(row, r) = ConvergedRow(r)
  BY <1>5, NoRowAssumption DEF AddedRow, UpdatedRow, ConvergedRow, Rows, Holds
<1>6. [DerivedBy(NewRow(r), r.processing) EXCEPT !.complete = TRUE]
        = ConvergedRow(r)
  <2>1. Fragment(NewRow(r), r.processing) = Fragment(r, r.processing)
    BY DEF NewRow, Fragment
  <2>2. {} \cup {Fragment(r, r.processing)} = {Fragment(r, r.processing)}
    OBVIOUS
  <2> DEFINE row == DerivedBy(NewRow(r), r.processing)
             done == [row EXCEPT !.complete = TRUE]
  <2>3. r.processing \in Profiles
    BY DEF DocumentRecord
  <2>4. row \in Rows /\ done \in Rows
    BY <1>1, <2>3, RowTypes
  <2>5. /\ row.content = r.content /\ row.label = r.label
        /\ row.annotations = r.annotations /\ row.weight = r.weight
        /\ row.derived = {Fragment(r, r.processing)}
    BY <1>1, <2>1, <2>2 DEF DerivedBy, NewRow
  <2> HIDE DEF row
  <2>6. Holds(done, r) /\ done.label = r.label
    BY <2>4, <2>5, NoRowAssumption DEF Holds, Rows
  <2> HIDE DEF done
  <2>7. done = ConvergedRow(r)
    BY <2>4, <2>6, ConvergedHolds
  <2> QED BY <2>7 DEF done, row
<1> QED BY <1>1, <1>2, <1>3, <1>4, <1>5, <1>6

(* Records with the same derivatives and weight describe the same row. *)
LEMMA HoldsAlike ==
    ASSUME NEW row, NEW r, NEW s, Holds(row, r), SameDerivatives(r, s),
           r.weight = s.weight
    PROVE  Holds(row, s)
BY DEF Holds, SameDerivatives, Fragment

(* What reconcile's decision for a live document says of its entry. *)
LEMMA DecisionMeaning ==
    ASSUME NEW desired, NEW prev, NEW missing \in BOOLEAN,
           desired # NonExistence
    PROVE  LET op == ReconcileOp(desired, prev, missing) IN
           /\ op = "none" => prev = {desired} /\ ~missing
           /\ op = "update_metadata" =>
                /\ prev # {} /\ ~missing
                /\ \A r \in prev :
                     SameDerivatives(r, desired) /\ r.weight = desired.weight
           /\ (/\ op # "none" /\ prev # {} /\ ~missing
               /\ \A r \in prev :
                    SameDerivatives(r, desired) /\ r.weight = desired.weight)
                => op = "update_metadata"
           /\ op = "upsert" => prev = {}
           /\ op = "replace" => \A r \in prev : r.weight = desired.weight
           /\ op # "delete"
<1>1. CASE prev = {}
  BY <1>1 DEF ReconcileOp, StateDiff, ClassifyWrite
<1>2. CASE prev # {} /\ missing
  BY <1>2 DEF ReconcileOp, StateDiff, ClassifyWrite
<1>3. CASE prev = {desired} /\ ~missing
  BY <1>3 DEF ReconcileOp, StateDiff, ClassifyWrite
<1>4. CASE prev # {} /\ ~missing /\ prev # {desired}
  BY <1>4 DEF ReconcileOp, StateDiff, ClassifyWrite
<1> QED BY <1>1, <1>2, <1>3, <1>4

-----------------------------------------------------------------------------
(* What keeps an entry true. *)

(* A row is left alone, or is not complete and keeps its weight. *)
RowKept(k) ==
    \/ Row(k)' = Row(k)
    \/ /\ Row(k) # NoRow /\ ~Row(k).complete
       /\ Row(k)' # NoRow /\ Row(k)'.weight = Row(k).weight

(* An entry keeps its states, and may come to be doubted. *)
EntryKept(k) ==
    /\ tracking'[k].states = tracking[k].states
    /\ tracking[k].missing => tracking'[k].missing

LEMMA DoubtSettles ==
    ASSUME NEW k \in Keys, EntryKept(k)
    PROVE  PrevRecords(k)' = PrevRecords(k) /\ (Settled(k)' => Settled(k))
<1>1. PrevRecords(k)' = PrevRecords(k)
  BY DEF EntryKept, PrevRecords
<1>2. MayBeMissing(k) => MayBeMissing(k)'
  BY DEF EntryKept, MayBeMissing
<1> QED BY <1>1, <1>2 DEF Settled

(* A sole possible record that is not doubted is settled. *)
LEMMA SoleSettled ==
    ASSUME NEW k \in Keys, NEW r \in PrevRecords(k),
           tracking[k].states = {r}, ~tracking[k].missing
    PROVE  Settled(k)
BY DEF Settled, PrevRecords, MayBeMissing, SameDerivatives

LEMMA EntryFrame ==
    ASSUME NEW k \in Keys, EntryInv(k), EntryKept(k), RowKept(k)
    PROVE  EntryInv(k)'
<1>1. PrevRecords(k)' = PrevRecords(k) /\ (Settled(k)' => Settled(k))
  BY DoubtSettles
<1>2. ASSUME NEW r \in PrevRecords(k), Settled(k)
      PROVE  Row(k)' = Row(k) /\ Holds(Row(k), r)
  BY <1>2 DEF EntryInv, RowKept, Holds
<1>3. Row(k)' # NoRow => \E r \in PrevRecords(k) : r.weight = Row(k)'.weight
  BY DEF EntryInv, RowKept
<1>4. Settled(k)' => \A r \in PrevRecords(k) : Holds(Row(k)', r)
  BY <1>1, <1>2
<1>5. ASSUME NEW r \in PrevRecords(k), tracking'[k].states = {r},
             ~tracking'[k].missing
      PROVE  Row(k)'.label = r.label
  <2>1. tracking[k].states = {r} /\ ~tracking[k].missing
    BY <1>5 DEF EntryKept
  <2> QED BY <1>2, <2>1, SoleSettled DEF EntryInv
<1>6. tracking'[k].states = {} => tracking'[k].missing
  BY DEF EntryKept, EntryInv
<1> QED BY <1>1, <1>3, <1>4, <1>5, <1>6 DEF EntryInv, Holds

(* An unsettled entry promises the weight alone. *)
LEMMA UnsettledFrame ==
    ASSUME NEW k \in Keys, EntryInv(k), ~Settled(k), EntryKept(k),
           Row(k)' # NoRow =>
             \E r \in PrevRecords(k) : r.weight = Row(k)'.weight
    PROVE  EntryInv(k)'
<1>1. PrevRecords(k)' = PrevRecords(k) /\ ~Settled(k)'
  BY DoubtSettles
<1>2. ASSUME NEW r \in PrevRecords(k), tracking'[k].states = {r},
             ~tracking'[k].missing
      PROVE  FALSE
  <2>1. tracking[k].states = {r} /\ ~tracking[k].missing
    BY <1>2 DEF EntryKept
  <2> QED BY <2>1, SoleSettled
<1>3. tracking'[k].states = {} => tracking'[k].missing
  BY DEF EntryKept, EntryInv
<1> QED BY <1>1, <1>2, <1>3 DEF EntryInv

(* A row that has converged to a possible record makes any entry true. *)
LEMMA ConvergedEntry ==
    ASSUME NEW k \in Keys, NEW t \in DocumentRecord, t \in PrevRecords(k)',
           Row(k)' = ConvergedRow(t)
    PROVE  EntryInv(k)'
<1>1. Holds(Row(k)', t) /\ Row(k)'.label = t.label
  BY ConvergedHolds
<1>2. tracking'[k].states # {} /\ t \in tracking'[k].states
  BY DEF PrevRecords
<1>3. t.weight = Row(k)'.weight
  BY <1>1 DEF Holds
<1>4. ASSUME Settled(k)', NEW r \in PrevRecords(k)' PROVE Holds(Row(k)', r)
  <2>1. SameDerivatives(t, r) /\ t.weight = r.weight
    BY <1>4 DEF Settled
  <2> QED BY <1>1, <2>1, HoldsAlike
<1>5. \A r \in PrevRecords(k)' :
        tracking'[k].states = {r} => Row(k)'.label = r.label
  BY <1>1, <1>2
<1> QED BY <1>2, <1>3, <1>4, <1>5 DEF EntryInv, Holds

-----------------------------------------------------------------------------
(* The running update's declaration, one batch for each document, and when
   rows and records must agree. *)

LEMMA HandlerStep == Core /\ HandlerInv /\ [Next]_vars => HandlerInv'
<1> SUFFICES ASSUME Core, HandlerInv, [Next]_vars PROVE HandlerInv'
  OBVIOUS
<1>1. CASE ReconcileDataset
  BY <1>1 DEF ReconcileDataset, HandlerInv
<1>2. CASE ResolveDataset
  <2>1. /\ sink.phase = "resolving" /\ sink.spec = wanted
        /\ sink'.spec = wanted /\ wanted' = wanted
    BY <1>2 DEF ResolveDataset, HandlerInv, Core, TypeOK
  <2>2. CASE sink.main = "delete"
    BY <1>2, <2>1, <2>2 DEF ResolveDataset, HandlerInv
  <2>3. CASE sink.main # "delete"
    <3>1. wanted # NonExistence
      BY <2>1, <2>3 DEF Core, SinkInv
    <3> QED BY <1>2, <2>1, <2>3, <3>1 DEF ResolveDataset, HandlerInv
  <2> QED BY <2>2, <2>3
<1>3. CASE \/ LockForTeardown \/ FinishTeardown
           \/ \E d \in DataIds : EraseRow(d)
  BY <1>3 DEF LockForTeardown, FinishTeardown, EraseRow, HandlerInv, Core,
              TypeOK
<1>4. CASE CommitDataset \/ FailSink
  BY <1>4 DEF CommitDataset, FailSink, IdleSink, HandlerInv
<1>5. ASSUME NEW w \in Workers, BatchStep(w) \/ FailBatch(w) PROVE HandlerInv'
  BY <1>5, BatchFrame DEF HandlerInv
<1>6. ASSUME NEW spec \in DatasetRecord \cup {NonExistence}, Redeclare(spec)
      PROVE  HandlerInv'
  BY <1>6 DEF Redeclare, HandlerInv
<1>7. ASSUME NEW k \in Keys,
             NEW spec \in CogneeDocumentSpec \cup {NonExistence},
             Declare(k, spec)
      PROVE  HandlerInv'
  BY <1>7 DEF Declare, HandlerInv
<1>8. CASE UNCHANGED vars
  BY <1>8 DEF vars, HandlerInv
<1> QED BY <1>1, <1>2, <1>3, <1>4, <1>5, <1>6, <1>7, <1>8
        DEF Next, DatasetStep, Disturb

(* A batch keeps its document, and everybody else's. *)
LEMMA OthersKeepWork ==
    ASSUME Core, NEW w \in Workers, BatchStep(w) \/ FailBatch(w),
           NEW v \in Workers \ {w}
    PROVE  phase'[v] = phase[v] /\ work'[v] = work[v]
<1>1. /\ \E p : phase' = [phase EXCEPT ![w] = p]
      /\ work' = work \/ \E a : work' = [work EXCEPT ![w] = a]
  BY DEF BatchStep, Submit, EnterLock, Remove, Add, Cognify, CommitDocument,
         FailBatch
<1> QED BY <1>1 DEF Core, TypeOK

LEMMA OneBatchStep == Core /\ OneBatch /\ [Next]_vars => OneBatch'
<1> SUFFICES ASSUME Core, OneBatch, [Next]_vars PROVE OneBatch'
  OBVIOUS
<1>1. ASSUME NEW w \in Workers, BatchStep(w) \/ FailBatch(w) PROVE OneBatch'
  <2>1. ASSUME InFlight(w)', NEW v \in Workers \ {w}, InFlight(v)
        PROVE  work'[w].key # work[v].key
    <3>1. ASSUME NEW k \in Keys, Submit(w, k) PROVE work'[w].key # work[v].key
      <4>1. work'[w].key = k /\ ~HasBatch(k)
        BY <3>1 DEF Submit, Core, TypeOK
      <4> QED BY <2>1, <4>1 DEF HasBatch
    <3>2. CASE EnterLock(w) \/ Remove(w) \/ Add(w) \/ Cognify(w)
      <4>1. InFlight(w) /\ work[w] \in Works
        BY <3>2 DEF EnterLock, Remove, Add, Cognify, InFlight, Core, TypeOK
      <4>2. work'[w].key = work[w].key
        <5>1. CASE Add(w)
          BY <5>1, AddWrites
        <5>2. CASE EnterLock(w) \/ Remove(w) \/ Cognify(w)
          BY <5>2 DEF EnterLock, Remove, Cognify
        <5> QED BY <3>2, <5>1, <5>2
      <4> QED BY <2>1, <4>1, <4>2 DEF OneBatch
    <3>3. CASE CommitDocument(w) \/ FailBatch(w)
      BY <2>1, <3>3 DEF CommitDocument, FailBatch, InFlight, Core, TypeOK
    <3> QED BY <1>1, <3>1, <3>2, <3>3 DEF BatchStep
  <2>2. \A v \in Workers \ {w} : /\ phase'[v] = phase[v] /\ work'[v] = work[v]
                                 /\ InFlight(v)' <=> InFlight(v)
    BY <1>1, OthersKeepWork DEF InFlight
  <2> QED BY <2>1, <2>2 DEF OneBatch
<1>2. ASSUME UNCHANGED <<phase, work>> PROVE OneBatch'
  BY <1>2 DEF OneBatch, InFlight
<1>3. CASE DatasetStep \/ FailSink
  BY <1>2, <1>3
     DEF DatasetStep, ReconcileDataset, ResolveDataset, LockForTeardown,
         EraseRow, FinishTeardown, CommitDataset, FailSink, batches
<1>4. ASSUME NEW spec \in DatasetRecord \cup {NonExistence}, Redeclare(spec)
      PROVE  OneBatch'
  BY <1>2, <1>4 DEF Redeclare, batches
<1>5. ASSUME NEW k \in Keys,
             NEW spec \in CogneeDocumentSpec \cup {NonExistence},
             Declare(k, spec)
      PROVE  OneBatch'
  BY <1>2, <1>5 DEF Declare, batches
<1>6. CASE UNCHANGED vars
  BY <1>2, <1>6 DEF vars
<1> QED BY <1>1, <1>3, <1>4, <1>5, <1>6 DEF Next, Disturb

(* The commit of a dataset that is gone. *)
Ended == CommitDataset /\ sink.spec = NonExistence

(* Only that commit makes rows and records agree again. *)
LEMMA CleanBefore ==
    ASSUME Core, [Next]_vars, Clean', ~Ended
    PROVE  Clean
<1>1. ASSUME UNCHANGED <<sink, causes>> PROVE Clean
  BY <1>1 DEF Clean, Tearing
<1>2. CASE ReconcileDataset
  BY <1>2 DEF ReconcileDataset, Clean, Tearing
<1>3. CASE ResolveDataset
  BY <1>3 DEF ResolveDataset, Clean, Tearing
<1>4. CASE LockForTeardown \/ FinishTeardown
  <2>1. sink.main = "delete" /\ sink.phase \in {"locking", "erasing"}
    BY <1>4 DEF LockForTeardown, FinishTeardown, Core, SinkInv
  <2>2. sink'.main = "delete" /\ sink'.phase \in {"erasing", "done"}
    BY <1>4, <2>1 DEF LockForTeardown, FinishTeardown, Core, TypeOK
  <2> QED BY <2>2 DEF Clean, Tearing
<1>5. CASE \E d \in DataIds : EraseRow(d)
  BY <1>1, <1>5 DEF EraseRow
<1>6. CASE CommitDataset
  <2>1. sink.spec # NonExistence /\ sink.phase = "done"
    BY <1>6 DEF Ended, CommitDataset
  <2>2. sink.main # "delete" /\ causes' = causes
    BY <1>6, <2>1 DEF CommitDataset, Core, SinkInv
  <2> QED BY <2>2 DEF Clean, Tearing
<1>7. CASE FailSink
  BY <1>7 DEF FailSink, Clean, Tearing
<1>8. ASSUME NEW w \in Workers, BatchStep(w) \/ FailBatch(w) PROVE Clean
  <2>1. sink' = sink /\ causes' \in {causes, causes \cup {"overlap"}}
    BY <1>8, BatchFrame
  <2> QED BY <2>1 DEF Clean, Tearing
<1>9. ASSUME NEW spec \in DatasetRecord \cup {NonExistence}, Redeclare(spec)
      PROVE  Clean
  BY <1>1, <1>9 DEF Redeclare
<1>10. ASSUME NEW k \in Keys,
              NEW spec \in CogneeDocumentSpec \cup {NonExistence},
              Declare(k, spec)
       PROVE  Clean
  BY <1>1, <1>10 DEF Declare
<1>11. CASE UNCHANGED vars
  BY <1>1, <1>11 DEF vars
<1> QED BY <1>2, <1>3, <1>4, <1>5, <1>6, <1>7, <1>8, <1>9, <1>10, <1>11
        DEF Next, DatasetStep, Disturb

(* What an ended dataset leaves: no row, no entry and no batch. *)
LEMMA TruthEnded ==
    ASSUME Core, RowsInv, Ended, Clean'
    PROVE  TruthInv'
<1>1. /\ dtrack' = Untracked /\ tracking' = [k \in Keys |-> Untracked]
      /\ handler' = handler /\ sink.phase = "done" /\ causes' = {}
  BY DEF Ended, CommitDataset, Clean
<1>2. handler' = Nothing
  BY <1>1 DEF Ended, Core, SinkInv
<1>3. DatasetRecords' = {}
  BY <1>1 DEF DatasetRecords, Untracked
<1>4. RowsInv'
  BY RowsCommit DEF Ended
<1>5. Idle' /\ ~RowsExist'
  BY <1>1, <1>3, <1>4 DEF RowsInv
<1>6. ASSUME NEW k \in Keys PROVE EntryInv(k)'
  <2>1. Row(k)' = NoRow
    BY <1>5, TargetRow DEF RowsExist, Row
  <2>2. tracking'[k].states = {} /\ tracking'[k].missing
    BY <1>1 DEF Untracked
  <2>3. PrevRecords(k)' = {} /\ ~Settled(k)'
    BY <2>2 DEF PrevRecords, Settled, MayBeMissing
  <2> QED BY <2>1, <2>2, <2>3 DEF EntryInv
<1> QED BY <1>2, <1>5, <1>6 DEF TruthInv, HandleInv, Idle

-----------------------------------------------------------------------------
(* What keeps a batch in order. *)

(* The batch of a document whose row and entry are left alone. *)
LEMMA FlightFrame ==
    ASSUME Core, NEW w \in Workers, InFlight(w), WorkInv(w), ProgressInv(w),
           NEW k \in Keys, work[w].key = k, EntryKept(k), RowKept(k),
           phase[w] \in {"adding", "cognifying"} => Row(k)' = Row(k),
           phase'[w] = phase[w], work'[w] = work[w],
           dataset' = dataset \/ dataset = NoDataset
    PROVE  WorkInv(w)' /\ ProgressInv(w)'
<1> DEFINE target == work[w].target
           op == work[w].op
<1>1. WorkInv(w)'
  <2>1. Settled(k)' => Settled(k)
    BY DoubtSettles
  <2> QED BY <2>1 DEF WorkInv, EntryKept
<1>2. Progress(phase[w], op, target, Row(k))
  BY DEF ProgressInv
<1>3. Progress(phase[w], op, target, Row(k)') <=> ProgressInv(w)'
  BY DEF ProgressInv, Row
<1>4. CASE Row(k)' = Row(k)
  BY <1>1, <1>2, <1>3, <1>4
<1>5. CASE Row(k)' # Row(k)
  <2>1. /\ phase[w] \notin {"adding", "cognifying"}
        /\ Row(k) # NoRow /\ ~Row(k).complete
        /\ Row(k)' # NoRow /\ Row(k)'.weight = Row(k).weight
    BY <1>5 DEF RowKept
  <2>2. phase[w] # "applied"
    <3> SUFFICES ASSUME phase[w] = "applied" PROVE FALSE
      OBVIOUS
    <3>1. work[w] \in Works
      BY DEF Core, TypeOK, InFlight
    <3>2. target \in DocumentRecord /\ Row(k) = ConvergedRow(target)
      BY <1>2, <2>1, <3>1 DEF Progress, Works, TrackingState
    <3> QED BY <2>1, <3>2, ConvergedHolds
  <2>3. phase[w] \in {"waiting", "removing"}
    BY <2>1, <2>2 DEF InFlight, Core, TypeOK, BatchPhases
  <2>4. ~Holds(Row(k), target)
    BY <2>1 DEF Holds
  <2>5. Progress(phase[w], op, target, Row(k)')
    BY <1>2, <2>1, <2>3, <2>4 DEF Progress
  <2> QED BY <1>1, <1>3, <2>5
<1> QED BY <1>4, <1>5

(* A step that leaves rows and batches alone, and of the entries at most
   comes to doubt some. *)
LEMMA TruthFrame ==
    ASSUME Core, TruthInv, UNCHANGED <<dataset, store, phase, work>>,
           \A k \in Keys : EntryKept(k), HandleInv'
    PROVE  TruthInv'
<1>1. \A k \in Keys : Row(k)' = Row(k) /\ RowKept(k)
  BY DEF Row, RowKept
<1>2. \A k \in Keys : EntryInv(k)'
  BY <1>1, EntryFrame DEF TruthInv
<1>3. ASSUME NEW w \in Workers, InFlight(w)'
      PROVE  WorkInv(w)' /\ ProgressInv(w)'
  <2>1. InFlight(w) /\ work[w].key \in Keys
    BY <1>3 DEF InFlight, Core, TypeOK, Works
  <2> QED BY <1>1, <2>1, FlightFrame DEF TruthInv
<1> QED BY <1>2, <1>3 DEF TruthInv

(* The dataset's own steps. *)
LEMMA TruthDataset ==
    ASSUME Core, TruthInv, Clean, Clean', ~Ended, DatasetStep \/ FailSink
    PROVE  TruthInv'
<1>1. \A k \in Keys : tracking' = tracking => EntryKept(k)
  BY DEF EntryKept
<1>2. CASE ReconcileDataset
  <2>1. PICK b \in BOOLEAN :
          tracking' = [k \in Keys |-> [tracking[k] EXCEPT !.missing = @ \/ b]]
    <3>1. \A main : (main = "replace") \in BOOLEAN
      OBVIOUS
    <3> QED BY <1>2, <3>1 DEF ReconcileDataset, Invalidated
  <2>2. \A k \in Keys : EntryKept(k)
    BY <2>1 DEF EntryKept, Core, TypeOK, Entries
  <2> QED BY <1>2, <2>2, TruthFrame
          DEF ReconcileDataset, batches, TruthInv, HandleInv
<1>3. CASE ResolveDataset
  <2>1. handler' = handler \/ handler'.id = dataset
    BY <1>3 DEF ResolveDataset
  <2> QED BY <1>1, <1>3, <2>1, TruthFrame
          DEF ResolveDataset, batches, TruthInv, HandleInv
<1>4. CASE \/ LockForTeardown \/ FinishTeardown
           \/ \E d \in DataIds : EraseRow(d)
  <2>1. sink.main = "delete" /\ sink.phase \in {"locking", "erasing"}
    BY <1>4 DEF LockForTeardown, FinishTeardown, EraseRow, Core, SinkInv
  <2>2. sink'.main = "delete" /\ sink'.phase \in {"erasing", "done"}
    BY <1>4, <2>1
       DEF LockForTeardown, FinishTeardown, EraseRow, Core, TypeOK
  <2> QED BY <2>2 DEF Clean, Tearing
<1>5. CASE CommitDataset
  BY <1>1, <1>5, TruthFrame
     DEF Ended, CommitDataset, batches, TruthInv, HandleInv
<1>6. CASE FailSink
  <2>1. sink.phase = "erasing" => Tearing
    BY DEF Core, SinkInv, Tearing
  <2>2. UNCHANGED <<tracking, dataset, store, phase, work>> /\ handler' = Nothing
    BY <1>6, <2>1 DEF FailSink, Clean, batches
  <2> QED BY <1>1, <2>2, TruthFrame DEF HandleInv
<1> QED BY <1>2, <1>3, <1>4, <1>5, <1>6 DEF DatasetStep

LEMMA TruthOutside ==
    ASSUME Core, TruthInv,
           \/ \E spec \in DatasetRecord \cup {NonExistence} : Redeclare(spec)
           \/ \E k \in Keys, spec \in CogneeDocumentSpec \cup {NonExistence} :
                 Declare(k, spec)
           \/ UNCHANGED vars
    PROVE  TruthInv'
<1>1. ASSUME UNCHANGED <<tracking, dataset, store, phase, work>>,
             handler' \in {handler, Nothing}
      PROVE  TruthInv'
  <2>1. \A k \in Keys : EntryKept(k)
    BY <1>1 DEF EntryKept
  <2>2. HandleInv'
    BY <1>1 DEF HandleInv, TruthInv
  <2> QED BY <1>1, <2>1, <2>2, TruthFrame
<1>2. ASSUME NEW spec \in DatasetRecord \cup {NonExistence}, Redeclare(spec)
      PROVE  TruthInv'
  BY <1>1, <1>2 DEF Redeclare, batches
<1>3. ASSUME NEW k \in Keys,
             NEW spec \in CogneeDocumentSpec \cup {NonExistence},
             Declare(k, spec)
      PROVE  TruthInv'
  BY <1>1, <1>3 DEF Declare, batches
<1>4. CASE UNCHANGED vars
  BY <1>1, <1>4 DEF vars
<1> QED BY <1>2, <1>3, <1>4

(* A step of a batch over document k: what it has to show is its own entry
   and its own progress. *)
LEMMA TruthFrom ==
    ASSUME Core, TruthInv, NEW w \in Workers, BatchStep(w) \/ FailBatch(w),
           NEW k \in Keys, EntryInv(k)',
           InFlight(w)' => WorkInv(w)' /\ ProgressInv(w)',
           \A j \in Keys \ {k} : EntryKept(j) /\ RowKept(j),
           \A v \in Workers \ {w} :
             InFlight(v) =>
               /\ work[v].key # k
               /\ phase[v] \in {"adding", "cognifying"} => UNCHANGED store,
           dataset' = dataset \/ dataset = NoDataset
    PROVE  TruthInv'
<1>1. \A j \in Keys : EntryInv(j)'
  BY EntryFrame DEF TruthInv
<1>2. ASSUME NEW v \in Workers \ {w}, InFlight(v)'
      PROVE  WorkInv(v)' /\ ProgressInv(v)'
  <2>1. phase'[v] = phase[v] /\ work'[v] = work[v] /\ InFlight(v)
    BY <1>2, OthersKeepWork DEF InFlight
  <2>2. work[v].key \in Keys \ {k}
    BY <2>1 DEF Core, TypeOK, InFlight, Works
  <2>3. ASSUME NEW j \in Keys, UNCHANGED store PROVE Row(j)' = Row(j)
    BY <2>3 DEF Row
  <2> QED BY <2>1, <2>2, <2>3, FlightFrame DEF TruthInv
<1>3. HandleInv'
  BY BatchFrame DEF TruthInv, HandleInv
<1> QED BY <1>1, <1>2, <1>3 DEF TruthInv

(* What is known of a batch in flight. *)
LEMMA FlightFacts ==
    ASSUME Core, TruthInv, NEW w \in Workers, InFlight(w)
    PROVE  /\ work[w] \in Works /\ work[w].key \in Keys
           /\ Target(w) \in DataIds /\ Row(work[w].key) = store[Target(w)]
           /\ Row(work[w].key) \in Rows \cup {NoRow}
           /\ dataset = NoDataset => Row(work[w].key) = NoRow
           /\ EntryInv(work[w].key) /\ WorkInv(w)
           /\ Progress(phase[w], work[w].op, work[w].target, Row(work[w].key))
           /\ work[w].op # "delete" =>
                /\ work[w].target \in DocumentRecord
                /\ work[w].target \in PrevRecords(work[w].key)
<1>1. work[w] \in Works /\ work[w].key \in Keys
  BY DEF Core, TypeOK, InFlight, Works
<1>2. Target(w) \in DataIds /\ Row(work[w].key) = store[Target(w)]
  BY <1>1, TargetRow DEF Target, Row
<1>3. /\ store[Target(w)] \in Rows \cup {NoRow}
      /\ dataset = NoDataset => store[Target(w)] = NoRow
  BY <1>2 DEF Core, TypeOK
<1>4. EntryInv(work[w].key) /\ WorkInv(w) /\ ProgressInv(w)
  BY <1>1 DEF TruthInv
<1>5. work[w].op # "delete" => /\ work[w].target \in DocumentRecord
                               /\ work[w].target \in PrevRecords(work[w].key)
  BY <1>4, NonExistenceAssumption DEF Core, BatchInv, WorkInv, PrevRecords
<1> QED BY <1>1, <1>2, <1>3, <1>4, <1>5 DEF ProgressInv

(* The rows of the other documents, and their batches, while w has the lock
   or changes no row. *)
LEMMA TruthFlight ==
    ASSUME Core, OneBatch, MutexInv, TruthInv,
           NEW w \in Workers, BatchStep(w) \/ FailBatch(w), InFlight(w),
           NEW k \in Keys, k = work[w].key, EntryInv(k)',
           InFlight(w)' => WorkInv(w)' /\ ProgressInv(w)',
           \A j \in Keys \ {k} : EntryKept(j) /\ RowKept(j),
           UNCHANGED store \/ phase[w] \in Locked,
           dataset' = dataset \/ dataset = NoDataset
    PROVE  TruthInv'
<1>1. ASSUME NEW v \in Workers \ {w}, InFlight(v)
      PROVE  /\ work[v].key # k
             /\ phase[v] \in {"adding", "cognifying"} => UNCHANGED store
  BY <1>1 DEF OneBatch, MutexInv, Locked
<1> QED BY <1>1, TruthFrom

LEMMA TruthSubmit ==
    ASSUME Core, HandlerInv, TruthInv, NEW w \in Workers, NEW k \in Keys,
           Submit(w, k)
    PROVE  TruthInv'
<1> DEFINE d == DesiredBy(k, handler.processing)
           op == OpBy(k, handler.processing)
<1>1. /\ handler # Nothing /\ op # "none" /\ ~HasBatch(k) /\ ~InFlight(w)
      /\ UNCHANGED <<dataset, store, handler, sink>>
      /\ handler \in Handlers /\ handler.id \in {dataset, NoDataset}
  BY DEF Submit, Core, TypeOK, TruthInv, HandleInv
<1>2. /\ phase'[w] = "waiting"
      /\ work'[w] = [key |-> k, op |-> op, target |-> d, id |-> handler.id,
                     processing |-> handler.processing]
  BY DEF Submit, Core, TypeOK
<1>3. /\ tracking'[k].states = tracking[k].states \cup {d}
      /\ tracking'[k].missing = tracking[k].missing
      /\ \A j \in Keys \ {k} : tracking'[j] = tracking[j]
  BY DEF Submit, Core, TypeOK, Entries
<1>4. /\ handler.processing \in Profiles
      /\ d \in TrackingState /\ op \in WriteOps \cup {"delete"}
      /\ MayBeMissing(k) \in BOOLEAN
  BY <1>1, DesiredTypes DEF Handlers, MayBeMissing, Core, TypeOK, Entries
<1>5. d # NonExistence => d.processing = handler.processing
  BY DEF DesiredBy, document_record_for
<1>6. op = ReconcileOp(d, PrevRecords(k), MayBeMissing(k))
  BY DEF OpBy
<1> HIDE DEF d, op
<1>7. (op = "delete") <=> (d = NonExistence)
  <2>1. CASE d = NonExistence
    BY <1>1, <1>6, <2>1 DEF ReconcileOp
  <2>2. CASE d # NonExistence
    BY <1>4, <1>6, <2>2, DecisionMeaning
  <2> QED BY <2>1, <2>2
<1>8. EntryInv(k)
  BY DEF TruthInv
<1>9. op = "update_metadata" => Settled(k) /\ Holds(Row(k), d)
  <2> HAVE op = "update_metadata"
  <2>1. /\ PrevRecords(k) # {} /\ ~MayBeMissing(k)
        /\ \A r \in PrevRecords(k) : SameDerivatives(r, d) /\ r.weight = d.weight
    BY <1>4, <1>6, <1>7, DecisionMeaning
  <2>2. Settled(k)
    BY <2>1 DEF Settled, SameDerivatives
  <2> QED BY <1>8, <2>1, <2>2, HoldsAlike DEF EntryInv
<1>10. Settled(k)' => op = "update_metadata"
  <2> HAVE Settled(k)'
  <2>1. d # NonExistence /\ NonExistence \notin tracking[k].states
        /\ ~tracking[k].missing
    BY <1>3 DEF Settled, MayBeMissing
  <2>2. PrevRecords(k)' = PrevRecords(k) \cup {d}
    BY <1>3, <2>1 DEF PrevRecords
  <2>3. PrevRecords(k) # {} /\ ~MayBeMissing(k)
    BY <1>8, <2>1 DEF EntryInv, PrevRecords, MayBeMissing
  <2>4. \A r \in PrevRecords(k) : SameDerivatives(r, d) /\ r.weight = d.weight
    BY <2>2 DEF Settled
  <2> QED BY <1>1, <1>4, <1>6, <2>1, <2>3, <2>4, DecisionMeaning
<1>11. Row(k)' = Row(k)
  BY <1>1 DEF Row
<1>12. EntryInv(k)'
  <2>1. PrevRecords(k) \subseteq PrevRecords(k)'
        /\ PrevRecords(k)' \subseteq PrevRecords(k) \cup {d}
    BY <1>3 DEF PrevRecords
  <2>2. Row(k)' # NoRow => \E r \in PrevRecords(k)' : r.weight = Row(k)'.weight
    BY <1>8, <1>11, <2>1 DEF EntryInv
  <2>3. Settled(k)' => \A r \in PrevRecords(k)' : Holds(Row(k)', r)
    BY <1>8, <1>9, <1>10, <1>11, <2>1 DEF EntryInv
  <2>4. ASSUME NEW r \in PrevRecords(k)', tracking'[k].states = {r},
               ~tracking'[k].missing
        PROVE  Row(k)'.label = r.label
    <3>1. tracking[k].states = {r} /\ ~tracking[k].missing
      BY <1>3, <1>8, <2>4 DEF EntryInv
    <3>2. r \in PrevRecords(k)
      BY <2>4, <3>1 DEF PrevRecords
    <3> QED BY <1>8, <1>11, <3>1, <3>2 DEF EntryInv
  <2>5. tracking'[k].states # {}
    BY <1>3
  <2> QED BY <2>2, <2>3, <2>4, <2>5 DEF EntryInv, Holds
<1>13. WorkInv(w)'
  BY <1>1, <1>2, <1>3, <1>5, <1>7, <1>10 DEF WorkInv
<1>14. Progress("waiting", op, d, Row(k))
  <2>1. op = "upsert" => Row(k) = NoRow
    BY <1>4, <1>6, <1>7, <1>8, DecisionMeaning DEF EntryInv
  <2>2. ASSUME op = "replace", NEW r \in PrevRecords(k)
        PROVE  r.weight = d.weight
    <3>1. d # NonExistence
      BY <1>7, <2>2
    <3>2. ReconcileOp(d, PrevRecords(k), MayBeMissing(k)) = "replace" =>
            \A s \in PrevRecords(k) : s.weight = d.weight
      BY <1>4, <3>1, DecisionMeaning
    <3> QED BY <1>6, <2>2, <3>2
  <2>3. op = "replace" /\ Row(k) # NoRow => Row(k).weight = d.weight
    BY <1>8, <2>2 DEF EntryInv
  <2> QED BY <1>9, <2>1, <2>3 DEF Progress
<1>15. ProgressInv(w)'
  BY <1>1, <1>2, <1>14 DEF ProgressInv, Row
<1>16. \A j \in Keys \ {k} : EntryKept(j) /\ RowKept(j)
  BY <1>1, <1>3 DEF EntryKept, RowKept, Row
<1>17. \A v \in Workers \ {w} : InFlight(v) => work[v].key # k
  BY <1>1 DEF HasBatch
<1> QED BY <1>1, <1>12, <1>13, <1>15, <1>16, <1>17, TruthFrom DEF BatchStep

LEMMA TruthEnter ==
    ASSUME Core, OneBatch, MutexInv, TruthInv, NEW w \in Workers, EnterLock(w)
    PROVE  TruthInv'
<1>1. /\ InFlight(w) /\ phase[w] = "waiting" /\ phase'[w] = "removing"
      /\ UNCHANGED <<tracking, dataset, store, work>>
  BY DEF EnterLock, InFlight, Core, TypeOK
<1>2. PICK k \in Keys : k = work[w].key
  BY <1>1, FlightFacts
<1>3. \A j \in Keys : EntryKept(j) /\ RowKept(j)
  BY <1>1 DEF EntryKept, RowKept, Row
<1>4. EntryInv(k) /\ WorkInv(w)
      /\ Progress("waiting", work[w].op, work[w].target, Row(k))
  BY <1>1, <1>2, FlightFacts
<1>5. EntryInv(k)'
  BY <1>3, <1>4, EntryFrame
<1>6. WorkInv(w)'
  BY <1>1, <1>4 DEF WorkInv, Settled, PrevRecords, MayBeMissing
<1>7. Progress("removing", work[w].op, work[w].target, Row(k))
  BY <1>4 DEF Progress
<1>8. ProgressInv(w)'
  BY <1>1, <1>2, <1>7 DEF ProgressInv, Row
<1> QED BY <1>1, <1>2, <1>3, <1>5, <1>6, <1>8, TruthFlight DEF BatchStep

(* A batch moves on over a row that is its own. *)
LEMMA OwnRow ==
    ASSUME Core, NEW w \in Workers, NEW k \in Keys, k = work[w].key,
           NEW row, store' = [store EXCEPT ![Target(w)] = row]
    PROVE  Row(k)' = row /\ \A j \in Keys \ {k} : RowKept(j)
<1>1. document_data_id(k, TheIdentity) = Target(w)
  BY DEF Target
<1>2. Row(k)' = row
  BY <1>1, TargetRow DEF Row, Core, TypeOK
<1>3. ASSUME NEW j \in Keys \ {k} PROVE Row(j)' = Row(j)
  BY <1>1, TargetRow DEF Row, Core, TypeOK
<1> QED BY <1>2, <1>3 DEF RowKept

LEMMA TruthRemove ==
    ASSUME Core, OneBatch, MutexInv, TruthInv, NEW w \in Workers, Remove(w)
    PROVE  TruthInv'
<1> DEFINE op == work[w].op
           target == work[w].target
           p == IF op = "delete" THEN "applied" ELSE "adding"
           row == CASE ~Reaches(work[w].id) -> store[Target(w)]
                    [] /\ Reaches(work[w].id)
                       /\ op \in {"delete", "recreate"} -> NoRow
                    [] /\ Reaches(work[w].id)
                       /\ op = "replace" /\ store[Target(w)] # NoRow
                         -> PurgedRow(store[Target(w)])
                    [] OTHER -> store[Target(w)]
<1>1. /\ InFlight(w) /\ phase[w] = "removing" /\ phase'[w] = p
      /\ UNCHANGED <<tracking, dataset, work>>
      /\ store' = [store EXCEPT ![Target(w)] = row]
  BY DEF Remove, InFlight, Core, TypeOK
<1>2. PICK k \in Keys : k = work[w].key
  BY <1>1, FlightFacts
<1>3. /\ EntryInv(k) /\ WorkInv(w) /\ Row(k) = store[Target(w)]
      /\ Row(k) \in Rows \cup {NoRow}
      /\ dataset = NoDataset => Row(k) = NoRow
      /\ Progress("removing", op, target, Row(k))
      /\ work[w] \in Works
  BY <1>1, <1>2, FlightFacts
<1>4. ~Reaches(work[w].id) => Row(k) = NoRow
  BY <1>3 DEF WorkInv, Reaches
<1>5. /\ op \in {"delete", "recreate"} => row = NoRow
      /\ op = "replace" =>
           row = NoRow \/ (Row(k) # NoRow /\ row = PurgedRow(Row(k)))
      /\ op \in {"upsert", "update_metadata"} => row = Row(k)
  BY <1>3, <1>4
<1> HIDE DEF row
<1>6. Row(k)' = row /\ \A j \in Keys \ {k} : RowKept(j)
  BY <1>1, <1>2, OwnRow
<1>7. \A j \in Keys : EntryKept(j)
  BY <1>1 DEF EntryKept
<1>8. op \in {"delete", "recreate", "replace", "upsert", "update_metadata"}
  BY <1>3 DEF Works, WriteOps
<1>9. op = "replace" /\ row # NoRow =>
        /\ row.derived = {} /\ ~row.complete /\ row.weight = Row(k).weight
  BY <1>3, <1>5, PurgeBares
<1>10. EntryInv(k)'
  <2>1. CASE op \in {"upsert", "update_metadata"}
    BY <1>3, <1>5, <1>6, <1>7, <2>1, EntryFrame DEF RowKept
  <2>2. CASE op \in {"delete", "recreate", "replace"}
    <3>1. ~Settled(k)
      BY <1>2, <1>3, <2>2 DEF WorkInv
    <3>2. row # NoRow => Row(k) # NoRow /\ row.weight = Row(k).weight
      BY <1>5, <1>9, <2>2
    <3> QED BY <1>3, <1>6, <1>7, <3>1, <3>2, UnsettledFrame DEF EntryInv
  <2> QED BY <1>8, <2>1, <2>2
<1>11. WorkInv(w)'
  BY <1>1, <1>3 DEF WorkInv, Settled, PrevRecords, MayBeMissing
<1>12. Progress(p, op, target, row)
  <2>1. CASE op = "delete"
    BY <1>3, <1>5, <2>1 DEF Progress, WorkInv
  <2>2. CASE op = "recreate"
    BY <1>5, <2>2 DEF Progress
  <2>3. CASE op = "replace"
    BY <1>3, <1>5, <1>9, <2>3 DEF Progress
  <2>4. CASE op \in {"upsert", "update_metadata"}
    BY <1>3, <1>5, <2>4 DEF Progress
  <2> QED BY <1>8, <2>1, <2>2, <2>3, <2>4
<1>13. ProgressInv(w)' <=> Progress(phase'[w], op, target, Row(k)')
  BY <1>1, <1>2 DEF ProgressInv, Row
<1>14. ProgressInv(w)'
  BY <1>1, <1>6, <1>12, <1>13
<1>15. phase[w] \in Locked
  BY <1>1 DEF Locked
<1> HIDE DEF p
<1> QED BY <1>1, <1>2, <1>6, <1>7, <1>10, <1>11, <1>14, <1>15, TruthFlight
        DEF BatchStep

LEMMA TruthAdd ==
    ASSUME Core, OneBatch, MutexInv, TruthInv, NEW w \in Workers, Add(w)
    PROVE  TruthInv'
<1> DEFINE op == work[w].op
           target == work[w].target
           p == IF op = "update_metadata" THEN "applied" ELSE "cognifying"
           row == AddedRow(store[Target(w)], target)
<1>1. /\ InFlight(w) /\ phase[w] = "adding" /\ phase'[w] = p
      /\ UNCHANGED tracking
      /\ store' = [store EXCEPT ![Target(w)] = row]
      /\ dataset' = dataset \/ dataset = NoDataset
  BY DEF Add, InFlight, Core, TypeOK
<1>2. PICK k \in Keys : k = work[w].key
  BY <1>1, FlightFacts
<1>3. /\ EntryInv(k) /\ WorkInv(w) /\ Row(k) = store[Target(w)]
      /\ Row(k) \in Rows \cup {NoRow}
      /\ Progress("adding", op, target, Row(k))
      /\ work[w] \in Works
  BY <1>1, <1>2, FlightFacts
<1>4. op # "delete"
  BY <1>1 DEF Core, BatchInv
<1>5. target \in DocumentRecord /\ target \in PrevRecords(k)
  BY <1>1, <1>2, <1>4, FlightFacts
<1>6. work'[w] = [work[w] EXCEPT !.id = dataset']
  BY DEF Add, Core, TypeOK
<1>7. /\ work'[w].key = k /\ work'[w].op = op /\ work'[w].target = target
      /\ work'[w].processing = work[w].processing /\ work'[w].id = dataset'
  BY <1>2, <1>3, <1>6 DEF Works
<1>8. row = IF op = "update_metadata" THEN ConvergedRow(target)
            ELSE NewRow(target)
  <2>1. CASE op = "update_metadata"
    <3>1. Holds(Row(k), target) /\ Row(k) \in Rows
      BY <1>3, <2>1 DEF Progress, Holds
    <3> QED BY <1>3, <1>5, <2>1, <3>1, WritesConverge
  <2>2. CASE op # "update_metadata"
    <3>1. Row(k) = NoRow \/ /\ Row(k) \in Rows /\ Row(k).derived = {}
                            /\ ~Row(k).complete /\ Row(k).weight = target.weight
      BY <1>3, <2>2 DEF Progress
    <3> QED BY <1>3, <1>5, <2>2, <3>1, WritesConverge
  <2> QED BY <2>1, <2>2
<1> HIDE DEF row
<1>9. Row(k)' = row /\ \A j \in Keys \ {k} : RowKept(j)
  BY <1>1, <1>2, OwnRow
<1>10. \A j \in Keys : EntryKept(j)
  BY <1>1 DEF EntryKept
<1>11. EntryInv(k)'
  <2>1. CASE op = "update_metadata"
    <3>1. target \in PrevRecords(k)'
      BY <1>1, <1>5 DEF PrevRecords
    <3> QED BY <1>5, <1>8, <1>9, <2>1, <3>1, ConvergedEntry
  <2>2. CASE op # "update_metadata"
    <3>1. ~Settled(k)
      BY <1>2, <1>3, <2>2 DEF WorkInv
    <3>2. Row(k)'.weight = target.weight
      BY <1>5, <1>8, <1>9, <2>2, WritesConverge
    <3> QED BY <1>3, <1>5, <1>10, <3>1, <3>2, UnsettledFrame
  <2> QED BY <2>1, <2>2
<1>12. WorkInv(w)'
  <2>1. Settled(k)' => Settled(k)
    BY <1>10, DoubtSettles
  <2> QED BY <1>1, <1>2, <1>3, <1>7, <2>1 DEF WorkInv
<1>13. Progress(p, op, target, row)
  BY <1>4, <1>5, <1>8, NonExistenceAssumption DEF Progress
<1>14. ProgressInv(w)' <=> Progress(phase'[w], op, target, Row(k)')
  BY <1>7 DEF ProgressInv, Row
<1>15. ProgressInv(w)'
  BY <1>1, <1>9, <1>13, <1>14
<1>16. phase[w] \in Locked
  BY <1>1 DEF Locked
<1> HIDE DEF p
<1> QED BY <1>1, <1>2, <1>9, <1>10, <1>11, <1>12, <1>15, <1>16, TruthFlight
        DEF BatchStep

(* What a batch does to the rows that are not complete changes no weight. *)
LEMMA DeriveKeeps ==
    ASSUME Core, NEW k \in Keys, NEW q \in Profiles,
           Unprocessed(document_data_id(k, TheIdentity)),
           \/ Row(k)' = DerivedBy(Row(k), q)
           \/ Row(k)' = [DerivedBy(Row(k), q) EXCEPT !.complete = TRUE]
    PROVE  RowKept(k)
<1>1. /\ Row(k) \in Rows /\ Row(k) # NoRow /\ ~Row(k).complete
  BY TargetRow DEF Unprocessed, Row, Core, TypeOK
<1>2. Fragment(Row(k), q) \in Fragments
  BY <1>1 DEF Fragment, Fragments, Rows
<1>3. DerivedBy(Row(k), q) \in Rows /\ DerivedBy(Row(k), q).weight = Row(k).weight
  BY <1>1, <1>2 DEF DerivedBy, Rows
<1>4. /\ [DerivedBy(Row(k), q) EXCEPT !.complete = TRUE] \in Rows
      /\ [DerivedBy(Row(k), q) EXCEPT !.complete = TRUE].weight = Row(k).weight
  BY <1>3 DEF Rows
<1>5. Row(k)' \in Rows /\ Row(k)'.weight = Row(k).weight
  BY <1>3, <1>4
<1> QED BY <1>1, <1>5, NoRowAssumption DEF RowKept

LEMMA TruthCognify ==
    ASSUME Core, OneBatch, MutexInv, TruthInv, NEW w \in Workers, Cognify(w)
    PROVE  TruthInv'
<1> DEFINE op == work[w].op
           target == work[w].target
           Done(row) == [DerivedBy(row, work[w].processing)
                           EXCEPT !.complete = TRUE]
<1>1. /\ InFlight(w) /\ phase[w] = "cognifying" /\ phase'[w] = "applied"
      /\ UNCHANGED <<tracking, dataset, work>>
      /\ store' = [d \in DataIds |-> IF Unprocessed(d) THEN Done(store[d])
                                     ELSE store[d]]
  BY DEF Cognify, InFlight, Core, TypeOK
<1>2. PICK k \in Keys : k = work[w].key
  BY <1>1, FlightFacts
<1>3. /\ EntryInv(k) /\ WorkInv(w) /\ Row(k) = store[Target(w)]
      /\ Progress("cognifying", op, target, Row(k))
      /\ work[w] \in Works /\ Target(w) \in DataIds
  BY <1>1, <1>2, FlightFacts
<1>4. op # "delete"
  BY <1>1 DEF Core, BatchInv
<1>5. /\ target \in DocumentRecord /\ target \in PrevRecords(k)
      /\ target.processing = work[w].processing
      /\ work[w].processing \in Profiles
  BY <1>1, <1>2, <1>3, <1>4, FlightFacts DEF WorkInv, Works
<1>6. Row(k) = NewRow(target)
  BY <1>3 DEF Progress
<1>7. \A j \in Keys :
        Row(j)' = IF Unprocessed(document_data_id(j, TheIdentity))
                  THEN Done(Row(j)) ELSE Row(j)
  BY <1>1, TargetRow DEF Row
<1>8. Row(k)' = ConvergedRow(target)
  <2>1. Unprocessed(document_data_id(k, TheIdentity))
    BY <1>5, <1>6, WritesConverge DEF Unprocessed, Row
  <2> QED BY <1>5, <1>6, <1>7, <2>1, WritesConverge
<1>9. \A j \in Keys : RowKept(j)
  <2> TAKE j \in Keys
  <2>1. CASE Unprocessed(document_data_id(j, TheIdentity))
    <3>1. Row(j)' = Done(Row(j))
      BY <1>7, <2>1
    <3> QED BY <1>5, <2>1, <3>1, DeriveKeeps
  <2>2. CASE ~Unprocessed(document_data_id(j, TheIdentity))
    BY <1>7, <2>2 DEF RowKept
  <2> QED BY <2>1, <2>2
<1> HIDE DEF Done
<1>10. \A j \in Keys : EntryKept(j)
  BY <1>1 DEF EntryKept
<1>11. EntryInv(k)'
  <2>1. target \in PrevRecords(k)'
    BY <1>1, <1>5 DEF PrevRecords
  <2> QED BY <1>5, <1>8, <2>1, ConvergedEntry
<1>12. WorkInv(w)'
  BY <1>1, <1>3 DEF WorkInv, Settled, PrevRecords, MayBeMissing
<1>13. Progress("applied", op, target, Row(k)')
  BY <1>5, <1>8, NonExistenceAssumption DEF Progress
<1>14. ProgressInv(w)'
  BY <1>1, <1>2, <1>13 DEF ProgressInv, Row
<1>15. phase[w] \in Locked
  BY <1>1 DEF Locked
<1> QED BY <1>1, <1>2, <1>9, <1>10, <1>11, <1>12, <1>14, <1>15, TruthFlight
        DEF BatchStep

(* The commit of a batch that has returned makes its target the only possible
   record, and the row is the target's. *)
LEMMA TruthCommit ==
    ASSUME Core, OneBatch, MutexInv, TruthInv, NEW w \in Workers,
           CommitDocument(w)
    PROVE  TruthInv'
<1> DEFINE target == work[w].target
<1>1. /\ InFlight(w) /\ phase[w] = "applied" /\ ~InFlight(w)'
      /\ UNCHANGED <<dataset, store>>
  BY DEF CommitDocument, InFlight, Core, TypeOK
<1>2. PICK k \in Keys : k = work[w].key
  BY <1>1, FlightFacts
<1>3. /\ WorkInv(w) /\ Progress("applied", work[w].op, target, Row(k))
      /\ work[w] \in Works
  BY <1>1, <1>2, FlightFacts
<1>4. /\ tracking'[k] = IF target = NonExistence THEN Untracked
                        ELSE [states |-> {target}, missing |-> FALSE]
      /\ \A j \in Keys \ {k} : tracking'[j] = tracking[j]
  BY <1>2 DEF CommitDocument, Core, TypeOK
<1>5. \A j \in Keys : Row(j)' = Row(j)
  BY <1>1 DEF Row
<1>6. EntryInv(k)'
  <2>1. CASE target = NonExistence
    <3>1. Row(k)' = NoRow
      BY <1>3, <1>5, <2>1 DEF Progress
    <3>2. tracking'[k].states = {} /\ tracking'[k].missing
      BY <1>4, <2>1 DEF Untracked
    <3>3. PrevRecords(k)' = {} /\ ~Settled(k)'
      BY <3>2 DEF PrevRecords, Settled, MayBeMissing
    <3> QED BY <3>1, <3>2, <3>3 DEF EntryInv
  <2>2. CASE target # NonExistence
    <3>1. target \in DocumentRecord /\ Row(k)' = ConvergedRow(target)
      BY <1>3, <1>5, <2>2 DEF Progress, Works, TrackingState
    <3>2. target \in PrevRecords(k)'
      BY <1>4, <2>2 DEF PrevRecords
    <3> QED BY <3>1, <3>2, ConvergedEntry
  <2> QED BY <2>1, <2>2
<1>7. \A j \in Keys \ {k} : EntryKept(j) /\ RowKept(j)
  BY <1>4, <1>5 DEF EntryKept, RowKept
<1> QED BY <1>1, <1>2, <1>6, <1>7, TruthFlight DEF BatchStep

(* A batch that fails leaves an entry that nobody trusts. *)
LEMMA TruthFail ==
    ASSUME Core, OneBatch, MutexInv, TruthInv, NEW w \in Workers, FailBatch(w)
    PROVE  TruthInv'
<1>1. /\ InFlight(w) /\ ~InFlight(w)' /\ UNCHANGED <<tracking, dataset>>
  BY DEF FailBatch, InFlight, Core, TypeOK
<1>2. PICK k \in Keys : k = work[w].key
  BY <1>1, FlightFacts
<1>3. /\ EntryInv(k) /\ WorkInv(w) /\ Row(k) = store[Target(w)]
      /\ Row(k) \in Rows \cup {NoRow}
      /\ work[w] \in Works
  BY <1>1, <1>2, FlightFacts
<1>4. \A j \in Keys : EntryKept(j)
  BY <1>1 DEF EntryKept
<1>5. ASSUME \A j \in Keys : RowKept(j), UNCHANGED store \/ phase[w] \in Locked
      PROVE  TruthInv'
  <2>1. EntryInv(k)'
    BY <1>3, <1>4, <1>5, EntryFrame
  <2> QED BY <1>1, <1>2, <1>4, <1>5, <2>1, TruthFlight
<1>6. CASE UNCHANGED store
  BY <1>5, <1>6 DEF RowKept, Row
<1>7. CASE /\ phase[w] = "removing"
           /\ work[w].op \in {"delete", "recreate", "replace"}
           /\ store[Target(w)] # NoRow
           /\ store' = [store EXCEPT ![Target(w)] = TornRow(@)]
  <2>1. Row(k)' = TornRow(Row(k)) /\ \A j \in Keys \ {k} : RowKept(j)
    BY <1>2, <1>3, <1>7, OwnRow
  <2>2. Row(k)'.weight = Row(k).weight /\ Row(k) # NoRow
    BY <1>3, <1>7, <2>1, PurgeBares
  <2>3. ~Settled(k)
    BY <1>2, <1>3, <1>7 DEF WorkInv
  <2>4. EntryInv(k)'
    BY <1>3, <1>4, <2>2, <2>3, UnsettledFrame DEF EntryInv
  <2> QED BY <1>1, <1>2, <1>4, <1>7, <2>1, <2>4, TruthFlight DEF Locked
<1>8. ASSUME phase[w] = "cognifying", NEW d \in DataIds, Unprocessed(d),
             store' = [store EXCEPT ![d] = DerivedBy(@, work[w].processing)]
      PROVE  TruthInv'
  <2>1. work[w].processing \in Profiles
    BY <1>3 DEF Works
  <2>2. ASSUME NEW j \in Keys PROVE RowKept(j)
    <3>1. CASE d = document_data_id(j, TheIdentity)
      <4>1. Row(j)' = DerivedBy(Row(j), work[w].processing)
        BY <1>8, <3>1 DEF Row, Core, TypeOK
      <4> QED BY <1>8, <2>1, <3>1, <4>1, DeriveKeeps
    <3>2. CASE d # document_data_id(j, TheIdentity)
      BY <1>8, <3>2, TargetRow DEF Row, RowKept, Core, TypeOK
    <3> QED BY <3>1, <3>2
  <2> QED BY <1>5, <1>8, <2>2 DEF Locked
<1> QED BY <1>6, <1>7, <1>8 DEF FailBatch

-----------------------------------------------------------------------------
(* The invariant and what it says of a fixed point. *)

LEMMA TruthStep ==
    ASSUME Core, RowsInv, HandlerInv, OneBatch, MutexInv, Clean => TruthInv,
           [Next]_vars, Clean'
    PROVE  TruthInv'
<1>1. CASE Ended
  BY <1>1, TruthEnded
<1>2. CASE ~Ended
  <2>1. Clean /\ TruthInv
    BY <1>2, CleanBefore
  <2>2. CASE DatasetStep \/ FailSink
    BY <1>2, <2>1, <2>2, TruthDataset
  <2>3. ASSUME NEW w \in Workers, BatchStep(w) PROVE TruthInv'
    BY <2>1, <2>3, TruthSubmit, TruthEnter, TruthRemove, TruthAdd,
       TruthCognify, TruthCommit DEF BatchStep
  <2>4. ASSUME NEW w \in Workers, FailBatch(w) PROVE TruthInv'
    BY <2>1, <2>4, TruthFail
  <2>5. CASE \/ \E spec \in DatasetRecord \cup {NonExistence} : Redeclare(spec)
             \/ \E k \in Keys, spec \in CogneeDocumentSpec \cup {NonExistence} :
                   Declare(k, spec)
             \/ UNCHANGED vars
    BY <2>1, <2>5, TruthOutside
  <2> QED BY <2>2, <2>3, <2>4, <2>5 DEF Next, Disturb
<1> QED BY <1>1, <1>2

LEMMA FixedPointInit == Init => FixedPointInv
<1> SUFFICES ASSUME Init PROVE FixedPointInv
  OBVIOUS
<1>1. /\ handler = Nothing /\ sink = IdleSink
      /\ \A w \in Workers : ~InFlight(w)
  BY DEF Init, InFlight
<1>2. LifecycleInv
  BY LifecycleInit
<1>3. HandlerInv /\ OneBatch
  BY <1>1 DEF HandlerInv, OneBatch, IdleSink
<1>4. ASSUME NEW k \in Keys PROVE EntryInv(k)
  <2>1. /\ Row(k) = NoRow
        /\ tracking[k].states = {} /\ tracking[k].missing
    BY TargetRow DEF Init, Row, Untracked
  <2>2. PrevRecords(k) = {} /\ ~Settled(k)
    BY <2>1 DEF PrevRecords, Settled, MayBeMissing
  <2> QED BY <2>1, <2>2 DEF EntryInv
<1>5. TruthInv
  BY <1>1, <1>4 DEF TruthInv, HandleInv
<1> QED BY <1>2, <1>3, <1>5 DEF FixedPointInv

(* Where rows and records agree, a fixed point is the declared state. *)
LEMMA TruthConverges ==
    ASSUME FixedPointInv, NothingToDo, causes = {}
    PROVE  Converged
<1>1. /\ Core /\ RowsInv /\ HandlerInv /\ TruthInv /\ sink.phase = "idle"
  BY DEF FixedPointInv, LifecycleInv, Clean, Tearing, NothingToDo
<1>2. CASE wanted = NonExistence
  <2>1. DatasetRecords = {}
    BY <1>2 DEF NothingToDo, DatasetRecords
  <2>2. ~RowsExist
    BY <1>1, <2>1 DEF RowsInv
  <2> QED BY <1>2, <2>2, TargetRow DEF RowsExist, Converged
<1>3. CASE wanted # NonExistence
  <2>1. /\ handler # Nothing /\ handler.processing = wanted.processing
        /\ \A k \in Keys : Visited(k) => OpBy(k, wanted.processing) = "none"
    BY <1>1, <1>3 DEF NothingToDo, HandlerInv
  <2>2. wanted.processing \in Profiles
    BY <1>1, <1>3 DEF Core, TypeOK, DatasetRecord
  <2>3. ASSUME NEW k \in Keys
        PROVE  Row(k) = IF declared[k] = NonExistence THEN NoRow
                        ELSE ConvergedRow(DesiredBy(k, wanted.processing))
    <3> DEFINE d == DesiredBy(k, wanted.processing)
    <3>1. EntryInv(k) /\ MayBeMissing(k) \in BOOLEAN
      BY <1>1 DEF TruthInv, MayBeMissing, Core, TypeOK, Entries
    <3>2. Row(k) \in Rows \cup {NoRow}
      BY <1>1, TargetRow DEF Row, Core, TypeOK
    <3>3. Visited(k) => ReconcileOp(d, PrevRecords(k), MayBeMissing(k)) = "none"
      BY <2>1 DEF OpBy
    <3>4. d \in TrackingState
      BY <1>1, <2>2, DesiredTypes DEF Core
    <3>5. CASE declared[k] = NonExistence
      <4>1. d = NonExistence
        BY <3>5 DEF DesiredBy
      <4>2. Visited(k) => PrevRecords(k) = {} /\ ~MayBeMissing(k)
        BY <3>3, <4>1 DEF ReconcileOp
      <4>3. tracking[k].states = {}
        BY <3>1, <3>5, <4>2 DEF Visited, PrevRecords, MayBeMissing
      <4> QED BY <3>1, <3>5, <4>3 DEF EntryInv, PrevRecords
    <3>6. CASE declared[k] # NonExistence
      <4>1. d \in DocumentRecord /\ d # NonExistence
        <5>1. d # NonExistence
          BY <1>1, <2>2, <3>6, TargetRow, NonExistenceAssumption
             DEF DesiredBy, document_record_for, DocumentRecord, Core, TypeOK,
                 CogneeDocumentSpec
        <5> QED BY <3>4, <5>1 DEF TrackingState
      <4> HIDE DEF d
      <4>2. PrevRecords(k) = {d} /\ ~MayBeMissing(k)
        <5>1. ReconcileOp(d, PrevRecords(k), MayBeMissing(k)) = "none"
          BY <3>3, <3>6 DEF Visited
        <5> QED BY <3>1, <4>1, <5>1, DecisionMeaning
      <4>3. tracking[k].states = {d} /\ ~tracking[k].missing
        BY <4>2 DEF PrevRecords, MayBeMissing
      <4>4. Settled(k)
        BY <4>2, <4>3, SoleSettled
      <4>5. Holds(Row(k), d) /\ Row(k).label = d.label
        BY <3>1, <4>2, <4>3, <4>4 DEF EntryInv
      <4>6. Row(k) = ConvergedRow(d)
        BY <3>2, <4>1, <4>5, ConvergedHolds DEF Holds
      <4> QED BY <3>6, <4>6 DEF d
    <3> QED BY <3>5, <3>6
  <2> QED BY <1>3, <2>3 DEF Converged, Row
<1> QED BY <1>2, <1>3

(* Rows, records, handlers and batches agree as long as there is no cause and
   no teardown is at its rows. *)
THEOREM FixedPointInductive == Spec => []FixedPointInv
<1>1. FixedPointInv /\ [Next]_vars => FixedPointInv'
  <2> SUFFICES ASSUME FixedPointInv, [Next]_vars PROVE FixedPointInv'
    OBVIOUS
  <2>1. /\ LifecycleInv /\ Core /\ MutexInv /\ RowsInv
        /\ HandlerInv /\ OneBatch
        /\ Clean => TruthInv
    BY DEF FixedPointInv, LifecycleInv
  <2>2. LifecycleInv'
    BY <2>1, LifecycleStep
  <2>3. HandlerInv' /\ OneBatch'
    BY <2>1, HandlerStep, OneBatchStep
  <2>4. Clean' => TruthInv'
    BY <2>1, TruthStep
  <2> QED BY <2>2, <2>3, <2>4 DEF FixedPointInv
<1> QED BY <1>1, FixedPointInit, PTL DEF Spec

(* When no update has anything left to do, the rows are the declared state:
   over changes of owner, of configuration and of declarations, failed
   batches, handlers older than the dataset, remounts and complete teardowns
   (_target.py 374-378, 442-453, ADR-0003). *)
THEOREM FixedPointAlwaysConverged == Spec => []FixedPointIsConverged
<1>1. FixedPointInv => FixedPointIsConverged
  BY TruthConverges DEF FixedPointIsConverged
<1> QED BY <1>1, FixedPointInductive, PTL

(* What the tracking store remembers is true of Cognee's rows, at every step
   and not only at the end of an update, whatever failed on the way
   (_target.py 380-399, 442-453). *)
THEOREM RecordsAlwaysTellRows == Spec => []RecordsTellRows
<1>1. FixedPointInv => RecordsTellRows
  <2> SUFFICES ASSUME FixedPointInv, Clean, NEW k \in Keys
               PROVE  /\ PrevRecords(k) = {} => Row(k) = NoRow
                      /\ \A r \in PrevRecords(k) :
                           tracking[k].states = {r} /\ ~tracking[k].missing =>
                               Row(k) = ConvergedRow(r)
    BY DEF RecordsTellRows
  <2>1. TypeOK /\ EntryInv(k)
    BY DEF FixedPointInv, LifecycleInv, Core, TruthInv
  <2>2. PrevRecords(k) = {} => Row(k) = NoRow
    BY <2>1 DEF EntryInv
  <2>3. ASSUME NEW r \in PrevRecords(k),
               tracking[k].states = {r}, ~tracking[k].missing
        PROVE  Row(k) = ConvergedRow(r)
    <3>1. r \in DocumentRecord
      BY <2>1 DEF PrevRecords, TypeOK, Entries, TrackingState
    <3>2. Holds(Row(k), r) /\ Row(k).label = r.label
      BY <2>1, <2>3, SoleSettled DEF EntryInv
    <3>3. Row(k) \in Rows
      BY <2>1, <3>2, TargetRow DEF Holds, Row, TypeOK
    <3> QED BY <3>1, <3>2, <3>3, ConvergedHolds
  <2> QED BY <2>2, <2>3
<1> QED BY <1>1, FixedPointInductive, PTL

===============================================================================
