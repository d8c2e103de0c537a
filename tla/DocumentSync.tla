---------------------------- MODULE DocumentSync ----------------------------
(***************************************************************************)
(* One dataset: the documents its source declares, the tracking store that *)
(* CocoIndex keeps about them, the rows Cognee holds, and the batches that *)
(* DocumentHandler._apply runs to bring the rows in line.                  *)
(*                                                                         *)
(* A batch goes through reconcile and precommit (Submit), waits for the    *)
(* dataset lock, deletes, purges, adds and cognifies under it, and is then *)
(* committed key by key.  It may fail at every point, with the document it *)
(* was working on half done; the crash of the process is the failure of    *)
(* every batch.  Declarations change at any time.                          *)
(***************************************************************************)
EXTENDS CogneeRows

CONSTANTS
    Workers,      \* sink invocations that may be in flight together
    Nobody        \* not a worker: the key is in no batch

ASSUME SyncAssumption == Nobody \notin Workers

VARIABLES
    declared, \* what the source declares: key -> spec or NonExistence
    config,   \* processing profile and identity derivation in force
    tracking, \* the engine's entry of each key
    store,    \* Cognee's rows: data_id -> row or NoRow
    owner,    \* the worker whose batch holds the key, or Nobody
    plan,     \* the op and the intended tracking state of each key in flight
    pc,       \* where each worker's batch is
    locked,   \* the dataset lock is taken
    delete_ids, purge_ids, payloads, needs_cognify  \* locals of _apply

vars == <<declared, config, tracking, store, owner, plan, pc, locked,
          delete_ids, purge_ids, payloads, needs_cognify>>

locals == <<delete_ids, purge_ids, payloads, needs_cognify>>

Config == [processing: Profiles, identity: Identities]

Entries == [states: SUBSET TrackingState, missing: BOOLEAN]

(* A key without an entry reconciles as a key that may be missing. *)
Untracked == [states |-> {}, missing |-> TRUE]

Plans == [op: WriteOps \cup {"delete", "none"}, target: TrackingState]

IdlePlan == [op |-> "none", target |-> NonExistence]

(* The types: in particular every possible state is a record or the deletion
   marker, and a batch's locals are sets of data_ids (_target.py 245-249). *)
TypeOK ==
    /\ declared \in [Keys -> CogneeDocumentSpec \cup {NonExistence}]
    /\ config \in Config
    /\ tracking \in [Keys -> Entries]
    /\ store \in [DataIds -> Rows \cup {NoRow}]
    /\ owner \in [Keys -> Workers \cup {Nobody}]
    /\ plan \in [Keys -> Plans]
    /\ pc \in [Workers -> {"idle", "waiting", "applying", "applied"}]
    /\ locked \in BOOLEAN
    /\ delete_ids \in [Workers -> SUBSET DataIds]
    /\ purge_ids \in [Workers -> SUBSET DataIds]
    /\ payloads \in [Workers -> SUBSET DataIds]
    /\ needs_cognify \in [Workers -> BOOLEAN]

Init ==
    /\ declared = [k \in Keys |-> NonExistence]
    /\ config \in Config
    /\ tracking = [k \in Keys |-> Untracked]
    /\ store = [d \in DataIds |-> NoRow]
    /\ owner = [k \in Keys |-> Nobody]
    /\ plan = [k \in Keys |-> IdlePlan]
    /\ pc = [w \in Workers |-> "idle"]
    /\ locked = FALSE
    /\ delete_ids = [w \in Workers |-> {}]
    /\ purge_ids = [w \in Workers |-> {}]
    /\ payloads = [w \in Workers |-> {}]
    /\ needs_cognify = [w \in Workers |-> FALSE]

-----------------------------------------------------------------------------
(* What reconcile sees of a key. *)

PrevRecords(k) == tracking[k].states \ {NonExistence}

MayBeMissing(k) == tracking[k].missing \/ NonExistence \in tracking[k].states

Desired(k) ==
    IF declared[k] = NonExistence THEN NonExistence
    ELSE document_record_for(declared[k], config.identity, config.processing)

Op(k) == ReconcileOp(Desired(k), PrevRecords(k), MayBeMissing(k))

(* The engine reconciles the keys that are declared or tracked. *)
Visited(k) == declared[k] # NonExistence \/ tracking[k].states # {}

DataId(k) == document_data_id(k, config.identity)

-----------------------------------------------------------------------------
(* The locals that _apply computes from a batch's actions before it takes
   the lock. *)

PayloadIds(K) == {DataId(k) : k \in {j \in K : Op(j) \in WriteOps}}

RecreateIds(K) == {DataId(k) : k \in {j \in K : Op(j) = "recreate"}}

(* Faulty variant: the payloads are taken out of the deletes last. *)
DeleteIdsButPayloads(K) ==
    LET stale == UNION {StaleDataIds(k, config.identity, PrevRecords(k)) :
                            k \in K}
        gone  == {DataId(k) : k \in {j \in K : Op(j) = "delete"}}
    IN  (stale \cup gone \cup RecreateIds(K)) \ PayloadIds(K)

DeleteIds(K) ==
    LET stale == UNION {StaleDataIds(k, config.identity, PrevRecords(k)) :
                            k \in K}
        gone  == {DataId(k) : k \in {j \in K : Op(j) = "delete"}}
    IN  ((stale \cup gone) \ PayloadIds(K)) \cup RecreateIds(K)

PurgeIds(K) ==
    {DataId(k) : k \in {j \in K : Op(j) = "replace"}} \ RecreateIds(K)

(* Faulty variant: only new rows are processed. *)
NeedsCognifyNewRows(K) == \E k \in K : Op(k) \in {"upsert", "recreate"}

NeedsCognify(K) == \E k \in K : Op(k) \in {"upsert", "replace", "recreate"}

(* Faulty variant: the earlier states are overwritten. *)
PrecommitOverwriting(k) == [tracking[k] EXCEPT !.states = {Desired(k)}]

(* Precommit makes the intended state durable next to the earlier ones. *)
Precommit(k) ==
    [tracking[k] EXCEPT !.states = @ \cup {Desired(k)}]

(* Reconcile and precommit the keys of one batch; the actions go to the
   sink, which prepares its phases and asks for the dataset lock. *)
Submit(w, K) ==
    /\ pc[w] = "idle"
    /\ K # {}
    /\ \A k \in K : owner[k] = Nobody /\ Visited(k) /\ Op(k) # "none"
    /\ tracking' = [k \in Keys |-> IF k \in K THEN Precommit(k)
                                   ELSE tracking[k]]
    /\ owner' = [k \in Keys |-> IF k \in K THEN w ELSE owner[k]]
    /\ plan' = [k \in Keys |->
                  IF k \in K THEN [op |-> Op(k), target |-> Desired(k)]
                  ELSE plan[k]]
    /\ pc' = [pc EXCEPT ![w] = "waiting"]
    /\ delete_ids' = [delete_ids EXCEPT ![w] = DeleteIds(K)]
    /\ purge_ids' = [purge_ids EXCEPT ![w] = PurgeIds(K)]
    /\ payloads' = [payloads EXCEPT ![w] = PayloadIds(K)]
    /\ needs_cognify' = [needs_cognify EXCEPT ![w] = NeedsCognify(K)]
    /\ UNCHANGED <<declared, config, store, locked>>

AcquireLock(w) ==
    /\ pc[w] = "waiting"
    /\ ~locked
    /\ locked' = TRUE
    /\ pc' = [pc EXCEPT ![w] = "applying"]
    /\ UNCHANGED <<declared, config, tracking, store, owner, plan, locals>>

-----------------------------------------------------------------------------
(* What cognify does to one row. *)

DerivedRow(row) ==
    [row EXCEPT !.derived = @ \cup {Fragment(row, config.processing)}]

CognifiedRow(row) == [DerivedRow(row) EXCEPT !.complete = TRUE]

NeedsProcessing(d) == store[d] # NoRow /\ ~store[d].complete

-----------------------------------------------------------------------------
(* The phases of _apply under the lock, one document at a time. *)

CanDelete(w, d) == pc[w] = "applying" /\ d \in delete_ids[w]

CanPurge(w, d) ==
    /\ pc[w] = "applying"
    /\ delete_ids[w] = {}
    /\ d \in purge_ids[w]

CanAdd(w, d) ==
    /\ pc[w] = "applying"
    /\ delete_ids[w] = {} /\ purge_ids[w] = {}
    /\ d \in payloads[w]

(* cognify runs over the whole dataset, rows of other batches included. *)
CanCognify(w, d) ==
    /\ pc[w] = "applying"
    /\ delete_ids[w] = {} /\ purge_ids[w] = {} /\ payloads[w] = {}
    /\ needs_cognify[w]
    /\ NeedsProcessing(d)

DeleteDocument(w, d) ==
    /\ CanDelete(w, d)
    /\ store' = [store EXCEPT ![d] = NoRow]
    /\ delete_ids' = [delete_ids EXCEPT ![w] = @ \ {d}]
    /\ UNCHANGED <<declared, config, tracking, owner, plan, pc, locked,
                   purge_ids, payloads, needs_cognify>>

PurgeDocument(w, d) ==
    /\ CanPurge(w, d)
    /\ store' = [store EXCEPT ![d] = IF @ = NoRow THEN NoRow
                                     ELSE PurgedRow(@)]
    /\ purge_ids' = [purge_ids EXCEPT ![w] = @ \ {d}]
    /\ UNCHANGED <<declared, config, tracking, owner, plan, pc, locked,
                   delete_ids, payloads, needs_cognify>>

AddDocument(w, d) ==
    /\ CanAdd(w, d)
    /\ store' = [store EXCEPT ![d] = AddedRow(@, plan[d[1]].target)]
    /\ payloads' = [payloads EXCEPT ![w] = @ \ {d}]
    /\ UNCHANGED <<declared, config, tracking, owner, plan, pc, locked,
                   delete_ids, purge_ids, needs_cognify>>

CognifyDocument(w, d) ==
    /\ CanCognify(w, d)
    /\ store' = [store EXCEPT ![d] = CognifiedRow(@)]
    /\ UNCHANGED <<declared, config, tracking, owner, plan, pc, locked, locals>>

(* Every phase is done: the lock is released and the sink returns. *)
FinishApply(w) ==
    /\ pc[w] = "applying"
    /\ delete_ids[w] = {} /\ purge_ids[w] = {} /\ payloads[w] = {}
    /\ needs_cognify[w] => \A d \in DataIds : ~NeedsProcessing(d)
    /\ pc' = [pc EXCEPT ![w] = "applied"]
    /\ locked' = FALSE
    /\ needs_cognify' = [needs_cognify EXCEPT ![w] = FALSE]
    /\ UNCHANGED <<declared, config, tracking, store, owner, plan,
                   delete_ids, purge_ids, payloads>>

(* The engine commits one component of the batch. *)
CommitKey(w, k) ==
    /\ pc[w] = "applied"
    /\ owner[k] = w
    /\ tracking' = [tracking EXCEPT ![k] =
                      IF plan[k].target = NonExistence THEN Untracked
                      ELSE [states |-> {plan[k].target}, missing |-> FALSE]]
    /\ owner' = [owner EXCEPT ![k] = Nobody]
    /\ plan' = [plan EXCEPT ![k] = IdlePlan]
    /\ pc' = [pc EXCEPT ![w] =
                IF \E j \in Keys \ {k} : owner[j] = w THEN "applied"
                ELSE "idle"]
    /\ UNCHANGED <<declared, config, store, locked, locals>>

-----------------------------------------------------------------------------
(* Failure: the batch is gone and its keys keep every possible state. *)

(* Faulty variant: a batch that gives up its wait releases the lock, too. *)
ReleaseAnyway(w) == FALSE

(* The context manager gives back what the batch holds: a batch that waits,
   or that has returned, holds nothing. *)
ReleaseBy(w) == IF pc[w] = "applying" THEN FALSE ELSE locked

AbandonBatch(w) ==
    /\ owner' = [k \in Keys |-> IF owner[k] = w THEN Nobody ELSE owner[k]]
    /\ plan' = [k \in Keys |-> IF owner[k] = w THEN IdlePlan ELSE plan[k]]
    /\ pc' = [pc EXCEPT ![w] = "idle"]
    /\ locked' = ReleaseBy(w)
    /\ delete_ids' = [delete_ids EXCEPT ![w] = {}]
    /\ purge_ids' = [purge_ids EXCEPT ![w] = {}]
    /\ payloads' = [payloads EXCEPT ![w] = {}]
    /\ needs_cognify' = [needs_cognify EXCEPT ![w] = FALSE]
    /\ UNCHANGED <<declared, config, tracking>>

(* A lock timeout, an error between two documents, or an exit after the
   sink returned and before the engine committed. *)
FailBatch(w) ==
    /\ pc[w] # "idle"
    /\ AbandonBatch(w)
    /\ UNCHANGED store

(* A hard delete or a purge stops after the derivatives are gone. *)
TearRemoval(w, d) ==
    /\ CanDelete(w, d) \/ CanPurge(w, d)
    /\ store[d] # NoRow
    /\ store' = [store EXCEPT ![d] = TornRow(@)]
    /\ AbandonBatch(w)

(* cognify stops between the derivatives and the completion status. *)
TearCognify(w, d) ==
    /\ CanCognify(w, d)
    /\ store' = [store EXCEPT ![d] = DerivedRow(@)]
    /\ AbandonBatch(w)

-----------------------------------------------------------------------------
(* The outside world. *)

Declare(k, spec) ==
    /\ declared[k] # spec
    /\ declared' = [declared EXCEPT ![k] = spec]
    /\ UNCHANGED <<config, tracking, store, owner, plan, pc, locked, locals>>

AllIdle == \A w \in Workers : pc[w] = "idle"

(* A restart under another configuration.  The dataset's own reconcile asks
   for lossy invalidation of its children when its record was replaced, and
   not when its previous state may have been missing. *)
Reconfigure(c, lossy) ==
    /\ AllIdle
    /\ config' = c
    /\ tracking' = [k \in Keys |->
                      [tracking[k] EXCEPT !.missing = @ \/ lossy]]
    /\ UNCHANGED <<declared, store, owner, plan, pc, locked, locals>>

Progress(w) ==
    \/ \E K \in SUBSET Keys : Submit(w, K)
    \/ AcquireLock(w)
    \/ \E d \in DataIds : \/ DeleteDocument(w, d)
                          \/ PurgeDocument(w, d)
                          \/ AddDocument(w, d)
                          \/ CognifyDocument(w, d)
    \/ FinishApply(w)
    \/ \E k \in Keys : CommitKey(w, k)

Failure(w) ==
    \/ FailBatch(w)
    \/ \E d \in DataIds : TearRemoval(w, d) \/ TearCognify(w, d)

Disturb ==
    \/ \E w \in Workers : Failure(w)
    \/ \E k \in Keys, spec \in CogneeDocumentSpec \cup {NonExistence} :
          Declare(k, spec)
    \/ \E c \in Config, lossy \in BOOLEAN : Reconfigure(c, lossy)

Next == (\E w \in Workers : Progress(w)) \/ Disturb

Spec == Init /\ [][Next]_vars

(* The scheduler runs every batch on, and a later update revisits every key
   that still has work: the engine retries a failed component. *)
Fairness == \A w \in Workers : WF_vars(Progress(w))

LiveSpec == Spec /\ Fairness

-----------------------------------------------------------------------------
(* What a tracking record promises about the store. *)

NoRows(k) == \A i \in Identities : store[document_data_id(k, i)] = NoRow

(* The key has exactly the row its record describes, under no other id. *)
Holds(k, target) ==
    IF target = NonExistence THEN NoRows(k)
    ELSE \A i \in Identities :
            store[document_data_id(k, i)] =
                IF i = target.identity THEN ConvergedRow(target) ELSE NoRow

(* A key whose entry was collapsed by a commit and not touched since: the
   next reconcile of the same spec will answer None, so whatever is wrong in
   Cognee now stays wrong.  The row must be the record's row, with the
   record's weight and with derivatives of that content alone, built under
   the record's configuration (_target.py 215, 284). *)
CommittedIsExact ==
    \A k \in Keys : \A r \in PrevRecords(k) :
        (tracking[k].states = {r} /\ ~tracking[k].missing) => Holds(k, r)

(* No orphans: Cognee never holds a row that no possible record of its key
   names, so a later reconcile can always find and delete it, under an
   earlier identity too (_target.py 183-203). *)
RowsAreTracked ==
    \A k \in Keys, i \in Identities :
        store[document_data_id(k, i)] # NoRow =>
            \E r \in PrevRecords(k) : r.identity = i

(* When the sink returns, every document of the batch is in the state that
   the engine is about to commit, whatever other batches did meanwhile
   (_target.py 273-285). *)
AppliedIsExact ==
    \A w \in Workers, k \in Keys :
        (pc[w] = "applied" /\ owner[k] = w) => Holds(k, plan[k].target)

(* A label-only re-add, which neither purges nor cognifies, is chosen only
   over a row whose derivatives are already those of the desired record
   (_target.py 89-93, 117-125). *)
MetadataUpdateKeepsDerivatives ==
    \A k \in Keys : plan[k].op = "update_metadata" =>
        LET r   == plan[k].target
            row == store[document_data_id(k, r.identity)]
        IN  /\ row # NoRow
            /\ row.complete
            /\ row.derived = {Fragment(r, r.processing)}

Converged == \A k \in Keys : Holds(k, Desired(k))

(* The fixed point of reconcile is the desired state: once no key has work
   left, the store holds exactly the declared documents. *)
FixedPointIsConverged ==
    (\A k \in Keys : Visited(k) => Op(k) = "none") => Converged

(* The batches are clients of the dataset lock: Cognee's rows change only at
   the hands of the one batch that is inside, and the lock that a batch
   takes, keeps through its phases and gives back, however it ends, never
   lets a second one in (_target.py 273-285, _runtime.py 134-139). *)
LockStatus == [w \in Workers |-> CASE pc[w] \in {"idle", "applied"} -> "out"
                                  [] pc[w] = "waiting"            -> "waiting"
                                  [] pc[w] = "applying"           -> "in"]

LockUse == INSTANCE DatasetAccess WITH Tasks <- Workers, status <- LockStatus,
                                       rows <- store

UsesDatasetLock == LockUse!AccessSpec

(* Once failures and changes of declaration or configuration stop, the store
   converges and stays converged (ADR-0003/0004). *)
EventuallyConverged == <>[][~Disturb]_vars => <>[]Converged

=============================================================================
