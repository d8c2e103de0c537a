-------------------------- MODULE DatasetLifecycleInv --------------------------
(***************************************************************************)
(* The inductive invariants behind DatasetLifecycle's properties, in named *)
(* parts.                                                                  *)
(***************************************************************************)
EXTENDS DatasetLifecycle

-----------------------------------------------------------------------------
(* The dataset's action, and what the dataset's record stands for. *)

(* What reconcile has to decide for an undeclared dataset. *)
TeardownDue == DatasetRecords # {} /\ "user" \notin Owners(DatasetRecords)

(* The action in progress belongs to a possible state; while a teardown is
   under way the update has no handler, and no new batch can start. *)
SinkInv ==
    /\ sink.phase # "idle" =>
         /\ sink.spec \in dtrack.states
         /\ sink.main = "delete" => sink.spec = NonExistence
         /\ sink.spec = NonExistence =>
              /\ handler = Nothing
              /\ sink.main = "delete" <=> TeardownDue
    /\ sink.phase = "resolving" =>
         handler = Nothing /\ (sink.spec = NonExistence => sink.main = "delete")
    /\ sink.phase \in {"locking", "erasing"} => sink.main = "delete"
    /\ handler # Nothing => DatasetRecords # {}

(* A batch writes only what is a record. *)
BatchInv ==
    \A w \in Workers :
        InFlight(w) =>
            /\ work[w].op # "delete" => work[w].target \in DocumentRecord
            /\ phase[w] \in {"adding", "cognifying"} => work[w].op # "delete"

(* A claim of the user's is among the dataset's possible records. *)
ClaimInv == claimed => "user" \in Owners(DatasetRecords)

Idle == \A w \in Workers : ~InFlight(w)

(* The teardown knows the dataset's id, or has none and resolves it again. *)
TeardownInv ==
    sink.phase \in {"locking", "erasing"} => sink.id \in {dataset, NoDataset}

(* What works on rows or has left some is recorded; and a teardown leaves no
   row behind, and nobody at work, when it is over. *)
RowsInv ==
    causes \cap LosesRecord = {} =>
        /\ ~Idle \/ RowsExist => DatasetRecords # {}
        /\ sink.phase = "done" /\ sink.main = "delete" =>
             /\ ~RowsExist
             /\ \A w \in Workers : phase[w] \notin Locked

Core == TypeOK /\ SinkInv /\ BatchInv

-----------------------------------------------------------------------------
(* The lock, and the row of the batch that has it. *)

(* One at a time is between its removals and its cognify, or erases, and the
   lock is taken just then. *)
MutexInv ==
    /\ \A v, w \in Workers : phase[v] \in Locked /\ phase[w] \in Locked => v = w
    /\ sink.phase = "erasing" => \A w \in Workers : phase[w] \notin Locked
    /\ locked <=> \/ sink.phase = "erasing"
                  \/ \E w \in Workers : phase[w] \in Locked

LifecycleInv == Core /\ MutexInv /\ ClaimInv /\ TeardownInv /\ RowsInv

(* A batch about to cognify has its row in the dataset of its handle. *)
WrittenInv ==
    \A w \in Workers :
        phase[w] = "cognifying" =>
            /\ dataset # NoDataset /\ work[w].id = dataset
            /\ store[Target(w)] \in Rows
            /\ store[Target(w)].content = work[w].target.content

-----------------------------------------------------------------------------
(* Rows, records and batches, as long as there is no cause and no teardown
   is at its rows. *)

(* The running update has the declaration that is wanted, and so has its
   handler. *)
HandlerInv ==
    /\ sink.phase # "idle" => sink.spec = wanted
    /\ handler # Nothing =>
         wanted # NonExistence /\ handler.processing = wanted.processing

(* A document is in one batch at a time. *)
OneBatch ==
    \A v, w \in Workers :
        InFlight(v) /\ InFlight(w) /\ work[v].key = work[w].key => v = w

Row(k) == store[document_data_id(k, TheIdentity)]

(* The row is what record r describes, the label left out. *)
Holds(row, r) ==
    /\ row # NoRow
    /\ row.content = r.content
    /\ row.annotations = r.annotations
    /\ row.weight = r.weight
    /\ row.complete
    /\ row.derived = {Fragment(r, r.processing)}

(* The possible records differ in the label alone, and none may be missing:
   the only entries over which reconcile does nothing or picks
   update_metadata. *)
Settled(k) ==
    /\ ~MayBeMissing(k)
    /\ \A r, s \in PrevRecords(k) : SameDerivatives(r, s) /\ r.weight = s.weight

(* The entry tells the truth: a row has the weight of a possible record, the
   records of a settled entry describe the row, and the only possible record
   has the row's label too. *)
EntryInv(k) ==
    /\ tracking[k].states = {} => tracking[k].missing
    /\ Row(k) # NoRow => \E r \in PrevRecords(k) : r.weight = Row(k).weight
    /\ Settled(k) => \A r \in PrevRecords(k) : Holds(Row(k), r)
    /\ \A r \in PrevRecords(k) :
         tracking[k].states = {r} /\ ~tracking[k].missing =>
             Row(k).label = r.label

(* A batch works for a possible state of its document, in the dataset that is
   there, and unless it only updates metadata its entry is unsettled, so that
   its failure is noticed. *)
WorkInv(w) ==
    /\ work[w].id \in {dataset, NoDataset}
    /\ work[w].target \in tracking[work[w].key].states
    /\ work[w].op = "delete" <=> work[w].target = NonExistence
    /\ work[w].op # "delete" => work[w].target.processing = work[w].processing
    /\ Settled(work[w].key) => work[w].op = "update_metadata"

(* The row on its way to what a batch in phase p is to write. *)
Progress(p, op, target, row) ==
    /\ p \in {"waiting", "removing", "adding"} /\ op = "update_metadata" =>
         Holds(row, target)
    /\ p \in {"waiting", "removing"} =>
         /\ op = "upsert" => row = NoRow
         /\ op = "replace" /\ row # NoRow => row.weight = target.weight
    /\ p = "adding" /\ op # "update_metadata" /\ row # NoRow =>
         row.derived = {} /\ ~row.complete /\ row.weight = target.weight
    /\ p = "cognifying" => row = NewRow(target)
    /\ p = "applied" =>
         row = IF target = NonExistence THEN NoRow ELSE ConvergedRow(target)

ProgressInv(w) ==
    Progress(phase[w], work[w].op, work[w].target, Row(work[w].key))

(* A teardown that has begun to erase. *)
Tearing == sink.main = "delete" /\ sink.phase \in {"erasing", "done"}

HandleInv == handler # Nothing => handler.id \in {dataset, NoDataset}

Clean == causes = {} /\ ~Tearing

TruthInv ==
    /\ HandleInv
    /\ \A k \in Keys : EntryInv(k)
    /\ \A w \in Workers : InFlight(w) => WorkInv(w) /\ ProgressInv(w)

(* The inductive invariant from which FixedPointIsConverged follows. *)
FixedPointInv ==
    /\ LifecycleInv /\ HandlerInv /\ OneBatch
    /\ Clean => TruthInv

(* What the engine remembers is true of Cognee: where its entry holds one
   record and no doubt, the row is exactly what that record describes; where it
   holds none, there is no row. *)
RecordsTellRows ==
    Clean =>
        \A k \in Keys :
            /\ PrevRecords(k) = {} => Row(k) = NoRow
            /\ \A r \in PrevRecords(k) :
                 tracking[k].states = {r} /\ ~tracking[k].missing =>
                     Row(k) = ConvergedRow(r)

=============================================================================
