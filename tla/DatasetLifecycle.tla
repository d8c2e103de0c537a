--------------------------- MODULE DatasetLifecycle ---------------------------
(***************************************************************************)
(* The life of one dataset: it is declared, handed to a document handler,  *)
(* filled by document batches, given over to the user or back, undeclared  *)
(* and torn down, with document batches still in flight.                   *)
(*                                                                         *)
(* DatasetHandler.reconcile decides, _apply_dataset_actions acts, and the  *)
(* engine commits.  A handler keeps the dataset handle and the processing  *)
(* configuration it was built with.  A batch has one document here: what   *)
(* the documents of a batch do to each other is DocumentSync's subject.    *)
(***************************************************************************)
EXTENDS CogneeRows, Naturals, FiniteSets

CONSTANTS
    Workers,      \* document batches that may be in flight together
    DatasetIds,   \* ids that Cognee may give the dataset
    MaxRecords,   \* bound: possible records of the dataset that pile up
    NoDataset,    \* the dataset does not exist, or the handle has no id
    Nothing       \* no handler, no work

(* How a dataset is managed. *)
ManagedBy == {"system", "user"}

(* A dataset's specification and, with the fingerprint for the processing
   configuration, the record the engine keeps of it. *)
DatasetRecord == [processing: Profiles, managed_by: ManagedBy]

(* A DocumentHandler: the handle's dataset_id and the configuration. *)
Handlers == [id: DatasetIds \cup {NoDataset}, processing: Profiles]

ASSUME LifecycleAssumption ==
    /\ NoDataset \notin DatasetIds
    /\ NonExistence \notin DatasetRecord
    /\ Nothing \notin Handlers \cup Workers
    /\ Identities # {}

VARIABLES
    wanted,    \* the dataset's declaration, or NonExistence
    declared,  \* the documents' declarations
    dtrack,    \* the engine's entry of the dataset
    tracking,  \* the engine's entry of each document
    dataset,   \* the id under which Cognee has the dataset, or NoDataset
    store,     \* the rows of the dataset
    handler,   \* the handler that the running update was given, or Nothing
    sink,      \* the dataset action in progress
    locked,    \* the dataset lock is taken
    phase,     \* where each worker's batch is
    work,      \* the batch: its key, op, target and handler, or Nothing
    claimed,   \* declared the user's, and neither given back nor let go since
    causes     \* what may have made the engine lose sight of rows

vars == <<wanted, declared, dtrack, tracking, dataset, store, handler, sink,
          locked, phase, work, claimed, causes>>

Entries == [states: SUBSET TrackingState, missing: BOOLEAN]

DatasetEntries ==
    [states: SUBSET (DatasetRecord \cup {NonExistence}), missing: BOOLEAN]

(* A target without an entry reconciles as one that may be missing. *)
Untracked == [states |-> {}, missing |-> TRUE]

SinkPhases == {"idle", "resolving", "locking", "erasing", "done"}

IdleSink == [phase |-> "idle", spec |-> NonExistence, main |-> "none",
             id |-> NoDataset]

BatchPhases == {"idle", "waiting", "removing", "adding", "cognifying",
                "applied"}

(* The phases of a batch under the dataset lock. *)
Locked == {"removing", "adding", "cognifying"}

Works == [key: Keys, op: WriteOps \cup {"delete"}, target: TrackingState,
          id: DatasetIds \cup {NoDataset}, processing: Profiles]

(* Why rows and records may disagree: rows stayed behind a dataset that was
   let go, a teardown failed while it erased, or a batch was still in flight
   when the teardown of its dataset was over. *)
Causes == {"handoff", "teardown", "overlap"}

(* The types: rows exist in an existing dataset only, and a batch in flight
   has its work (_target.py 305-457). *)
TypeOK ==
    /\ wanted \in DatasetRecord \cup {NonExistence}
    /\ declared \in [Keys -> CogneeDocumentSpec \cup {NonExistence}]
    /\ dtrack \in DatasetEntries
    /\ tracking \in [Keys -> Entries]
    /\ dataset \in DatasetIds \cup {NoDataset}
    /\ store \in [DataIds -> Rows \cup {NoRow}]
    /\ handler \in Handlers \cup {Nothing}
    /\ sink \in [phase: SinkPhases, spec: DatasetRecord \cup {NonExistence},
                 main: {"insert", "upsert", "replace", "delete", "none"},
                 id: DatasetIds \cup {NoDataset}]
    /\ locked \in BOOLEAN
    /\ phase \in [Workers -> BatchPhases]
    /\ work \in [Workers -> Works \cup {Nothing}]
    /\ \A w \in Workers : phase[w] # "idle" => work[w] \in Works
    /\ dataset = NoDataset => \A d \in DataIds : store[d] = NoRow
    /\ claimed \in BOOLEAN
    /\ causes \subseteq Causes

Init ==
    /\ wanted = NonExistence
    /\ declared = [k \in Keys |-> NonExistence]
    /\ dtrack = Untracked
    /\ tracking = [k \in Keys |-> Untracked]
    /\ dataset = NoDataset
    /\ store = [d \in DataIds |-> NoRow]
    /\ handler = Nothing
    /\ sink = IdleSink
    /\ locked = FALSE
    /\ phase = [w \in Workers |-> "idle"]
    /\ work = [w \in Workers |-> Nothing]
    /\ claimed = FALSE
    /\ causes = {}

batches == <<phase, work>>

RowsExist == \E d \in DataIds : store[d] # NoRow

InFlight(w) == phase[w] # "idle"

Overlap == IF \E w \in Workers : InFlight(w) THEN {"overlap"} ELSE {}

-----------------------------------------------------------------------------
(* The dataset's own reconcile. *)

DatasetRecords == dtrack.states \ {NonExistence}

DatasetMayBeMissing == dtrack.missing \/ NonExistence \in dtrack.states

Owners(R) == {r.managed_by : r \in R}

(* Faulty variant: the user must own every possible state to be spared. *)
MainActionOfSystem(spec, prev, missing) ==
    CASE spec = NonExistence -> IF "system" \in Owners(prev) THEN "delete"
                                ELSE "none"
      [] spec # NonExistence /\ spec.managed_by = "user" -> "none"
      [] OTHER -> StateDiff(spec.processing, {r.processing : r \in prev},
                            missing)

(* Faulty variant: a dataset that may be missing is not torn down again. *)
MainActionUnlessMissing(spec, prev, missing) ==
    CASE spec = NonExistence -> IF /\ prev # {} /\ "user" \notin Owners(prev)
                                   /\ ~missing
                                THEN "delete" ELSE "none"
      [] spec # NonExistence /\ spec.managed_by = "user" -> "none"
      [] OTHER -> StateDiff(spec.processing, {r.processing : r \in prev},
                            missing)

(* statediff.resolve_system_transition and diff: a dataset that the user may
   own is left alone. *)
MainAction(spec, prev, missing) ==
    CASE spec = NonExistence -> IF prev # {} /\ "user" \notin Owners(prev)
                                THEN "delete" ELSE "none"
      [] spec # NonExistence /\ spec.managed_by = "user" -> "none"
      [] OTHER -> StateDiff(spec.processing, {r.processing : r \in prev},
                            missing)

(* Whether the earlier records of the other owner count for a system-managed
   specification is the library's choice. *)
Seen ==
    {DatasetRecords,
     IF wanted = NonExistence THEN DatasetRecords
     ELSE {r \in DatasetRecords : r.managed_by = "system"}}

(* A changed configuration invalidates the children, not their rows. *)
Invalidated(main) ==
    [k \in Keys |-> [tracking[k] EXCEPT !.missing = @ \/ main = "replace"]]

(* Faulty variant: the earlier states are overwritten. *)
PrecommitOverwriting == [dtrack EXCEPT !.states = {wanted}]

Precommit == [dtrack EXCEPT !.states = @ \cup {wanted}]

(* reconcile and precommit of the dataset; an update starts with it.  A
   dataset that is gone and needs no teardown asks nothing of a runtime. *)
ReconcileDataset ==
    /\ sink.phase = "idle"
    /\ handler = Nothing
    /\ wanted # NonExistence \/ dtrack.states # {}
    /\ \E prev \in Seen :
         LET main == MainAction(wanted, prev, DatasetMayBeMissing) IN
         /\ sink' = [phase |-> IF wanted = NonExistence /\ main = "none"
                               THEN "done" ELSE "resolving",
                     spec  |-> wanted,
                     main  |-> main,
                     id    |-> NoDataset]
         /\ tracking' = Invalidated(main)
    /\ dtrack' = Precommit
    /\ claimed' = (claimed \/ (wanted # NonExistence
                                 /\ wanted.managed_by = "user"))
    /\ UNCHANGED <<wanted, declared, dataset, store, handler, locked, batches,
                   causes>>

(* The dataset is looked up by name.  A live declaration gets a handler with
   what was found; a teardown asks for the dataset lock. *)
ResolveDataset ==
    /\ sink.phase = "resolving"
    /\ IF sink.main = "delete"
       THEN /\ sink' = [sink EXCEPT !.phase = "locking", !.id = dataset]
            /\ UNCHANGED handler
       ELSE /\ sink' = [sink EXCEPT !.phase = "done", !.id = dataset]
            /\ handler' = [id |-> dataset, processing |-> sink.spec.processing]
    /\ UNCHANGED <<wanted, declared, dtrack, tracking, dataset, store,
                   locked, batches, claimed, causes>>

(* The teardown waits for its turn like a batch.  Batches of the last update
   may be waiting too, or have returned and not be committed yet. *)
LockForTeardown ==
    /\ sink.phase = "locking"
    /\ ~locked
    /\ locked' = TRUE
    /\ sink' = [sink EXCEPT !.phase = "erasing"]
    /\ UNCHANGED <<wanted, declared, dtrack, tracking, dataset, store,
                   handler, batches, claimed, causes>>

(* Faulty variant: a handle without an id is not resolved again. *)
ReachesById(id) == dataset # NoDataset /\ id = dataset

(* The call reaches the dataset that Cognee has now: the handle has its id,
   or none and is resolved again (_ensure_resolved). *)
Reaches(id) == dataset # NoDataset /\ id \in {dataset, NoDataset}

(* forget works through the rows ... *)
EraseRow(d) ==
    /\ sink.phase = "erasing"
    /\ Reaches(sink.id)
    /\ store[d] # NoRow
    /\ store' = [store EXCEPT ![d] = NoRow]
    /\ UNCHANGED <<wanted, declared, dtrack, tracking, dataset, handler, sink,
                   locked, batches, claimed, causes>>

(* Faulty variant: the dataset's row goes first. *)
FinishTeardownFirst ==
    /\ sink.phase = "erasing"
    /\ dataset' = IF Reaches(sink.id) THEN NoDataset ELSE dataset
    /\ sink' = [sink EXCEPT !.phase = "done"]
    /\ locked' = FALSE
    /\ UNCHANGED <<wanted, declared, dtrack, tracking, store, handler,
                   batches, claimed, causes>>

(* ... and removes the dataset last.  A dataset that is not there is no error. *)
FinishTeardown ==
    /\ sink.phase = "erasing"
    /\ IF Reaches(sink.id)
       THEN /\ ~RowsExist
            /\ dataset' = NoDataset
       ELSE UNCHANGED dataset
    /\ sink' = [sink EXCEPT !.phase = "done"]
    /\ locked' = FALSE
    /\ UNCHANGED <<wanted, declared, dtrack, tracking, store, handler,
                   batches, claimed, causes>>

Handoff == IF "user" \in Owners(DatasetRecords) THEN {"handoff"} ELSE {}

(* The engine commits the dataset.  With a dataset that is gone it drops the
   tracking of its documents, and deletes none of them itself. *)
CommitDataset ==
    /\ sink.phase = "done"
    /\ IF sink.spec = NonExistence
       THEN /\ dtrack' = Untracked
            /\ tracking' = [k \in Keys |-> Untracked]
            /\ causes' = Overlap \cup IF RowsExist THEN causes \cup Handoff
                                     ELSE {}
       ELSE /\ dtrack' = [states |-> {sink.spec}, missing |-> FALSE]
            /\ UNCHANGED <<tracking, causes>>
    /\ claimed' = (claimed /\ sink.spec # NonExistence
                        /\ sink.spec.managed_by = "user")
    /\ sink' = IdleSink
    /\ UNCHANGED <<wanted, declared, dataset, store, handler, locked, batches>>

(* Faulty variant: a teardown that gives up its wait releases the lock. *)
TeardownReleasesAnyway == FALSE

(* A teardown that fails gives back the lock that it holds, and no other. *)
TeardownReleases == IF sink.phase = "erasing" THEN FALSE ELSE locked

(* The sink or the commit fails: the entry keeps every possible state.  The
   teardown may stop half way, with a row torn. *)
FailSink ==
    /\ sink.phase # "idle"
    /\ \/ UNCHANGED store
       \/ /\ sink.phase = "erasing" /\ Reaches(sink.id)
          /\ \E d \in DataIds : /\ store[d] # NoRow
                                /\ store' = [store EXCEPT ![d] = TornRow(@)]
    /\ causes' =
         causes \cup IF sink.main = "delete" /\ sink.phase \in {"erasing", "done"}
                    THEN {"teardown"} ELSE {}
    /\ locked' = TeardownReleases
    /\ sink' = IdleSink
    /\ handler' = Nothing
    /\ UNCHANGED <<wanted, declared, dtrack, tracking, dataset, batches, claimed>>

-----------------------------------------------------------------------------
(* Document batches, under the handler of their update. *)

PrevRecords(k) == tracking[k].states \ {NonExistence}

MayBeMissing(k) == tracking[k].missing \/ NonExistence \in tracking[k].states

TheIdentity == CHOOSE i \in Identities : TRUE

DesiredBy(k, processing) ==
    IF declared[k] = NonExistence THEN NonExistence
    ELSE document_record_for(declared[k], TheIdentity, processing)

OpBy(k, processing) ==
    ReconcileOp(DesiredBy(k, processing), PrevRecords(k), MayBeMissing(k))

Visited(k) == declared[k] # NonExistence \/ tracking[k].states # {}

HasBatch(k) == \E w \in Workers : InFlight(w) /\ work[w].key = k

Submit(w, k) ==
    /\ handler # Nothing
    /\ ~InFlight(w) /\ ~HasBatch(k)
    /\ Visited(k)
    /\ OpBy(k, handler.processing) # "none"
    /\ work' = [work EXCEPT ![w] =
                  [key |-> k, op |-> OpBy(k, handler.processing),
                   target |-> DesiredBy(k, handler.processing),
                   id |-> handler.id, processing |-> handler.processing]]
    /\ phase' = [phase EXCEPT ![w] = "waiting"]
    /\ tracking' = [tracking EXCEPT ![k].states =
                      @ \cup {DesiredBy(k, handler.processing)}]
    /\ UNCHANGED <<wanted, declared, dtrack, dataset, store, handler, sink,
                   locked, claimed, causes>>

(* A batch that has waited for the lock behind the teardown of its dataset
   goes on; operators are told not to let that happen. *)
EnterLock(w) ==
    /\ phase[w] = "waiting"
    /\ ~locked
    /\ locked' = TRUE
    /\ phase' = [phase EXCEPT ![w] = "removing"]
    /\ causes' = causes \cup IF sink.main = "delete" /\ sink.phase = "done"
                            THEN {"overlap"} ELSE {}
    /\ UNCHANGED <<wanted, declared, dtrack, tracking, dataset, store,
                   handler, sink, work, claimed>>

Target(w) == document_data_id(work[w].key, TheIdentity)

(* Delete or purge.  In a dataset that is not there they have nothing to do;
   a handle with the id of an earlier dataset finds it absent. *)
Remove(w) ==
    /\ phase[w] = "removing"
    /\ store' =
         [store EXCEPT ![Target(w)] =
            CASE ~Reaches(work[w].id)                  -> @
              [] /\ Reaches(work[w].id)
                 /\ work[w].op \in {"delete", "recreate"} -> NoRow
              [] /\ Reaches(work[w].id)
                 /\ work[w].op = "replace" /\ @ # NoRow   -> PurgedRow(@)
              [] OTHER                                 -> @]
    /\ phase' = [phase EXCEPT ![w] = IF work[w].op = "delete" THEN "applied"
                                     ELSE "adding"]
    /\ locked' = (work[w].op # "delete")
    /\ UNCHANGED <<wanted, declared, dtrack, tracking, dataset, handler, sink,
                   work, claimed, causes>>

(* add creates the dataset it does not find, under the id that the handle
   asks for or under any; an id of an earlier dataset beside the present one
   is refused.  The handle has the id from here on. *)
Add(w) ==
    /\ phase[w] = "adding"
    /\ dataset' \in IF dataset # NoDataset THEN {dataset}
                    ELSE IF work[w].id # NoDataset THEN {work[w].id}
                    ELSE DatasetIds
    /\ work[w].id \in {dataset', NoDataset}
    /\ store' = [store EXCEPT ![Target(w)] = AddedRow(@, work[w].target)]
    /\ work' = [work EXCEPT ![w].id = dataset']
    /\ phase' = [phase EXCEPT ![w] = IF work[w].op = "update_metadata"
                                     THEN "applied" ELSE "cognifying"]
    /\ locked' = (work[w].op # "update_metadata")
    /\ UNCHANGED <<wanted, declared, dtrack, tracking, handler, sink, claimed,
                   causes>>

DerivedBy(row, processing) ==
    [row EXCEPT !.derived = @ \cup {Fragment(row, processing)}]

Unprocessed(d) == store[d] # NoRow /\ ~store[d].complete

(* Every row of the dataset that is not complete is processed. *)
Cognify(w) ==
    /\ phase[w] = "cognifying"
    /\ Reaches(work[w].id)
    /\ store' = [d \in DataIds |->
                   IF Unprocessed(d)
                   THEN [DerivedBy(store[d], work[w].processing)
                           EXCEPT !.complete = TRUE]
                   ELSE store[d]]
    /\ phase' = [phase EXCEPT ![w] = "applied"]
    /\ locked' = FALSE
    /\ UNCHANGED <<wanted, declared, dtrack, tracking, dataset, handler, sink,
                   work, claimed, causes>>

CommitDocument(w) ==
    /\ phase[w] = "applied"
    /\ tracking' = [tracking EXCEPT ![work[w].key] =
                      IF work[w].target = NonExistence THEN Untracked
                      ELSE [states |-> {work[w].target}, missing |-> FALSE]]
    /\ phase' = [phase EXCEPT ![w] = "idle"]
    /\ work' = [work EXCEPT ![w] = Nothing]
    /\ UNCHANGED <<wanted, declared, dtrack, dataset, store, handler, sink,
                   locked, claimed, causes>>

(* A batch fails at any point; a hard delete or a purge may stop after the
   derivatives, cognify before the status. *)
FailBatch(w) ==
    /\ InFlight(w)
    /\ \/ UNCHANGED store
       \/ /\ phase[w] = "removing" /\ Reaches(work[w].id)
          /\ work[w].op \in {"delete", "recreate", "replace"}
          /\ store[Target(w)] # NoRow
          /\ store' = [store EXCEPT ![Target(w)] = TornRow(@)]
       \/ /\ phase[w] = "cognifying" /\ Reaches(work[w].id)
          /\ \E d \in DataIds :
               /\ Unprocessed(d)
               /\ store' = [store EXCEPT ![d] =
                              DerivedBy(@, work[w].processing)]
    /\ locked' = IF phase[w] \in Locked THEN FALSE ELSE locked
    /\ phase' = [phase EXCEPT ![w] = "idle"]
    /\ work' = [work EXCEPT ![w] = Nothing]
    /\ UNCHANGED <<wanted, declared, dtrack, tracking, dataset, handler, sink,
                   claimed, causes>>

-----------------------------------------------------------------------------
(* The outside world. *)

(* The next update runs under another declaration of the dataset, or under
   the same one.  A declaration that no update has seen is none. *)
Redeclare(spec) ==
    /\ sink.phase = "idle"
    /\ \/ wanted \in dtrack.states
       \/ wanted = NonExistence /\ dtrack.states = {}
    /\ spec # wanted \/ handler # Nothing
    /\ Cardinality(DatasetRecords \cup ({spec} \ {NonExistence})) <= MaxRecords
    /\ wanted' = spec
    /\ handler' = Nothing
    /\ UNCHANGED <<declared, dtrack, tracking, dataset, store, sink, locked,
                   batches, claimed, causes>>

Declare(k, spec) ==
    /\ declared[k] # spec
    /\ declared' = [declared EXCEPT ![k] = spec]
    /\ UNCHANGED <<wanted, dtrack, tracking, dataset, store, handler, sink,
                   locked, batches, claimed, causes>>

DatasetStep ==
    \/ ReconcileDataset \/ ResolveDataset \/ LockForTeardown
    \/ \E d \in DataIds : EraseRow(d)
    \/ FinishTeardown \/ CommitDataset

BatchStep(w) ==
    \/ \E k \in Keys : Submit(w, k)
    \/ EnterLock(w) \/ Remove(w) \/ Add(w) \/ Cognify(w) \/ CommitDocument(w)

Disturb ==
    \/ FailSink
    \/ \E w \in Workers : FailBatch(w)
    \/ \E spec \in DatasetRecord \cup {NonExistence} : Redeclare(spec)
    \/ \E k \in Keys, spec \in CogneeDocumentSpec \cup {NonExistence} :
          Declare(k, spec)

Next == DatasetStep \/ (\E w \in Workers : BatchStep(w)) \/ Disturb

Spec == Init /\ [][Next]_vars

(* The engine runs an update to its end and retries what failed. *)
Fairness == WF_vars(DatasetStep) /\ \A w \in Workers : WF_vars(BatchStep(w))

LiveSpec == Spec /\ Fairness

-----------------------------------------------------------------------------
(* What the life of the dataset must keep. *)

(* A dataset that was declared as the user's, even by an update that failed,
   is not torn down before a system-managed declaration of it has been
   committed, or its unmount (_target.py 354-361, ADR-0004). *)
TeardownSparesUser ==
    sink.main = "delete" /\ sink.phase # "idle" => ~claimed

(* Why rows may have lost their dataset's record: a teardown that failed, as
   often as it may, is no reason. *)
LosesRecord == {"handoff", "overlap"}

(* Rows never outlive the dataset's tracking record, through failed and
   repeated teardowns and declarations in between: a later unmount still
   finds what it has to remove (_target.py 405-437). *)
RowsKeepTheirDataset ==
    RowsExist /\ causes \cap LosesRecord = {} => DatasetRecords # {}

(* A batch returns only when its document is really written or really gone,
   also when the dataset is torn down or created between its reconcile and
   its lock, and when its handler was built before the dataset existed
   (_target.py 273-285, 430-433, 442).  A deletion through the id of a
   dataset that was replaced in the meantime is the one exception. *)
BatchReturnsDone ==
    [][\A w \in Workers :
         phase[w] # "applied" /\ phase'[w] = "applied" =>
           LET row == store'[Target(w)] IN
           CASE work[w].op = "delete" ->
                  work[w].id \in {dataset', NoDataset} => row = NoRow
             [] work[w].op = "update_metadata" -> row # NoRow
             [] OTHER -> /\ row # NoRow
                         /\ row.complete
                         /\ row.content = work[w].target.content]_vars

(* What the declarations ask of the rows. *)
Converged ==
    \A k \in Keys :
        store[document_data_id(k, TheIdentity)] =
            IF wanted = NonExistence \/ declared[k] = NonExistence THEN NoRow
            ELSE ConvergedRow(DesiredBy(k, wanted.processing))

(* No update has anything left to do. *)
NothingToDo ==
    /\ sink.phase = "idle"
    /\ IF wanted = NonExistence
       THEN dtrack.states = {}
       ELSE /\ handler # Nothing
            /\ \A k \in Keys : Visited(k) => OpBy(k, handler.processing) = "none"

(* A fixed point is the declared state (ADR-0003), except after a cause: in
   particular over changes of owner and of configuration, remounts, handlers
   older than the dataset, and every failure but that of a teardown under way
   (_target.py 374-378, 442-453). *)
FixedPointIsConverged == NothingToDo /\ causes = {} => Converged

(* ADR-0003's promise for a retained tracking store, over a remount: when a
   dataset that is declared has nothing left to do, no stale document and no
   orphaned derivative is in it.  A user-managed unmount breaks it. *)
RemountConverges ==
    NothingToDo /\ wanted # NonExistence /\ causes \subseteq {"handoff"}
        => Converged

(* The teardown and the batches as clients of one dataset lock. *)
LockStatus ==
    [t \in Workers \cup {Nothing} |->
        IF t = Nothing
        THEN CASE sink.phase = "locking" -> "waiting"
               [] sink.phase = "erasing" -> "in"
               [] OTHER                  -> "out"
        ELSE CASE phase[t] = "waiting"   -> "waiting"
               [] phase[t] \in Locked    -> "in"
               [] OTHER                  -> "out"]

LockUse ==
    INSTANCE DatasetAccess WITH Tasks <- Workers \cup {Nothing},
                                status <- LockStatus,
                                rows <- <<dataset, store>>

(* The dataset and its rows are created, changed and erased only by the one
   batch or teardown that is inside, and the lock that it takes and gives
   back, however it ends, never lets a second one in (_target.py 273, 430). *)
SharesDatasetLock == LockUse!AccessSpec

(* What a failed teardown may leave behind for good is a matter of a dataset
   that is declared again; one that stays undeclared is torn down again. *)
Excuses == IF wanted = NonExistence THEN LosesRecord ELSE Causes

(* Once failures and changes stop, the engine has nothing left to do for
   good, and has reached the declared state: in particular an undeclared
   system-managed dataset is gone, although its lock was busy and however
   often its teardown failed (ADR-0003, ADR-0004). *)
EventuallySettled ==
    <>[][~Disturb]_vars =>
        <>[](NothingToDo /\ (causes \cap Excuses = {} => Converged))

=============================================================================
