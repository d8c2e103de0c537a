# cogindex in TLA+

cogindex lets CocoIndex, an incremental data engine, keep the documents of a
Cognee dataset in step with a source.  The engine decides which documents to
look at, cogindex decides what has to be done to each of them, and Cognee
stores the rows and derives a graph and vectors from them.  None of the three
shares a transaction with the others, so everything rests on a protocol: what
is recorded before a write, in which order a batch writes, which earlier
records a decision may trust, and which lock is held meanwhile.  This directory
models that protocol, checks it with TLC and proves the core of it with TLAPS.

Line references are to `src/cogindex/` unless another path is given.

## 1. Inventory

| part | state | operations | speaks to |
| --- | --- | --- | --- |
| Document reconcile (`_target.py` 68-233, `_records.py`, `_spec.py` 200-290) | none; reads the possible tracking records of a key | `DocumentHandler.reconcile`, `_classify_write`, `document_record_for` | called by the engine, answers with an action and the record to store |
| Document batches (`_target.py` 235-297) | locals of `_apply`: ids to delete, to purge, to write; whether to cognify | `_apply`: delete, purge, add, cognify under the dataset lock | Cognee runtime, lock provider |
| Engine tracking store (CocoIndex; emulated in `tests/common/engine_model.py`) | per key: the possible states and "may be missing" | reconcile round, precommit, commit, lossy invalidation | calls the handlers |
| Cognee rows (`testing.py`, `_runtime_local.py`) | per `data_id`: content, label, annotations, weight, completion status, derivatives | add, purge, hard delete, cognify, teardown | called under the lock |
| Dataset lifecycle (`_target.py` 305-463) | dataset tracking record | mount, configuration change, handoff, teardown; makes document handlers | engine, runtime, lock |
| Lock contract (`_locks.py` 21-25, `_runtime.py` 134-139) | who is inside a scope | `lock(scope)` | batches, teardown, verification |
| In-process lock (`_locks.py` 37-92) | scope -> entry with an `asyncio.Lock` and a user count | `_lock` | event loop |
| PostgreSQL lock (`_locks_postgres.py`) | one connection per call; advisory lock on the server | `_lock`, `_acquire` | PostgreSQL |
| Local runtime (`_runtime_local.py`) | storage roots, pinned physical scope, set of live runtimes, default lock provider | the eight operations of `CogneeRuntime` | Cognee SDK |
| Pipeline result guard (`_runtime_local.py` 579-692) | none | `_raise_on_errored_runs` | results of Cognee |
| Identity (`_identity.py`) | none | `canonical_join`, `document_data_id`, fingerprints | reconcile, locks |
| Verification (`_verify.py`) | none | `verify_dataset` | runtime, lock |
| Processing inputs (`_compat.py` 564-853, `_spec.py` 128-189) | none of its own; reads Cognee's settings and the live embedding width | fingerprint of a target, check of the width | Cognee's configuration, local runtime |
| Rest of the compatibility layer, doctor, public surface | settings of the installed library | probing, parsing, reports | Cognee SDK |

What is hard here, and what would be right:

* **Failure between three stores.**  A process may end after any call, a call
  may stop half way, and a torn hard delete leaves a row that says COMPLETE
  over derivatives that are gone.  Right means: whatever the engine has
  committed is exactly what Cognee holds; nothing Cognee holds is out of reach
  of a later reconcile; where reconcile has nothing to do, the store is the
  declared state; and once failures stop, that point is reached.
* **Several possible pasts.**  Failed attempts pile up as possible records.  A
  decision has to be right for every one of them.
* **Batches that overlap.**  A batch computes its sets before it waits for the
  lock, and cognify works on the whole dataset, other batches' rows included.
* **Locks under timeouts.**  A timeout may race the handoff, an answer may
  come after its caller has gone, a session may outlive its process or end
  before it.
* **A dataset that comes and goes.**  It is torn down, given to the user, taken
  back and declared anew, while batches hold handles of an earlier generation.
  Right means: what may be the user's is never erased, no row outlives the
  record by which it would be found again, and a batch that returns has done
  its work in the dataset that is there now.
* **Settings read twice.**  A fingerprint is taken when a target is constructed,
  the settings are used when its batch runs, and Cognee itself may rewrite one of
  them in between.  Right means: derivatives that count as current were made with
  the inputs recorded for them, and are not rebuilt for inputs that Cognee ignores.

`PROJECT.json` lists the hazards at their lines, with the properties that cover
them and, for the one that none covers, why.

## 2. Modules

| module | models | extends or instances |
| --- | --- | --- |
| `Reconcile` | records, the diff verdict, `_classify_write`, `reconcile`, stale ids | |
| `CogneeRows` | Cognee's rows and the effect of one call on one row | `Reconcile` |
| `DocumentSync` | one dataset: declarations, tracking store, rows, overlapping batches, failures | `CogneeRows`; instances `DatasetAccess` |
| `DocumentSyncInv` | the inductive invariant in named parts | `DocumentSync` |
| `DocumentSyncProofs` | lemmas and theorems about `DocumentSync` | `DocumentSyncInv` |
| `DatasetLifecycle` | the life of a dataset: mount, owner and configuration changes, teardown, with batches in flight | `CogneeRows`; instances `DatasetAccess` |
| `DatasetLifecycleInv` | its inductive invariants in named parts | `DatasetLifecycle` |
| `DatasetLifecycleProofs` | lemmas and theorems about `DatasetLifecycle` | `DatasetLifecycleInv` |
| `ProcessingInputs` | the processing fingerprint beside the settings it is taken of | |
| `ProcessingInputsProofs` | theorems about `ProcessingInputs` | `ProcessingInputs` |
| `DatasetLock` | the abstract lock contract | |
| `DatasetAccess` | what the callers of a dataset lock promise: the contract, and that the dataset changes inside the lock alone | `DatasetLock` |
| `InProcessLock` | `InProcessLockProvider` over `asyncio.Lock` | instances `DatasetLock` |
| `InProcessLockProofs` | lemmas about its queue, theorems about `InProcessLock` | `InProcessLock` |
| `PgAdvisoryLock` | `PostgresAdvisoryLockProvider` over sessions | instances `DatasetLock` |
| `PgAdvisoryLockProofs` | theorems about `PgAdvisoryLock` | `PgAdvisoryLock` |
| `LocalRuntime` | the shared state of the `LocalCogneeRuntime`s of a process | instances `DatasetLock`, once per scope |
| `LocalRuntimeProofs` | theorems about `LocalRuntime` | `LocalRuntime` |
| `Ingest` | `add_documents`, `cognify_dataset` and the guard on their results | |
| `IngestProofs` | theorems about `Ingest` | `Ingest` |
| `Verify` | `verify_dataset` beside the writers of the dataset | instances `DatasetLock` |
| `VerifyProofs` | theorems about `Verify` | `Verify` |
| `MCDocumentSync`, `MCDatasetLifecycle`, `MCProcessingInputs`, `MCPgAdvisoryLock`, `MCLocalRuntime`, `MCIngest`, `MCVerify` | instances for TLC | |

The pieces compose through the contract.  Both providers are shown to implement
`DatasetLock`, and the callers are shown to be its clients: `Verify` asks, enters
when free, and leaves; the batches of `DocumentSync` and the batches and the
teardown of `DatasetLifecycle` moreover change Cognee's rows inside the lock alone,
and give back nothing but what they took (`DatasetAccess`).  No client therefore
needs to know which provider is configured.  `LocalRuntime` closes the gap between
one provider and one process: over all runtimes with the default provider each scope
has one such lock.  `DatasetLifecycle` supplies what `DocumentSync` starts from: a
handler, and the invalidation of the children that comes with a changed
configuration.  The other modules justify what `DocumentSync` takes for granted of
its calls: that they reach the dataset of their handle (`LocalRuntime`), that a call
which returns has done its work (`Ingest`), that equal processing fingerprints mean
equal inputs and a width that held throughout the batch (`ProcessingInputs`), and
that a snapshot taken under the lock shows no batch half done (`Verify`).

### Reconcile

A fingerprint stands for the value it was taken of: BLAKE2b is assumed not to
collide.  A `data_id` is the pair of key and identity derivation; the runtime
key, scope, tenant and dataset name are fixed for one dataset, and the schema
version of a record moves with the derivation, so `identity` stands for both
versions.  The engine hands over a list of possible records; the code asks only
"any", "all" and "empty" of it, so it is a set.  `StateDiff` is the library
function `statediff.diff` for a desired record that exists.  The `missing` test
in `ClassifyWrite`'s last case is redundant after that verdict (a "replace"
verdict implies it is false); it is kept because the code has it.  Records from
before weights were recorded have an empty weight fingerprint, which differs
from every weight; that legacy value is not a member of `Weights`.

### DocumentSync

| variable | code |
| --- | --- |
| `declared` | what the source declares with `declare_document` |
| `config` | the processing fingerprint of the handler and the identity version |
| `tracking` | `EmulatedEngine.tracking`: possible states and may-be-missing |
| `store` | `FakeDataset.documents`; `derived` is `derived_fragments` with the annotations and profile each was built from |
| `owner`, `plan` | which batch has the key in flight, and the action and record that reconcile answered |
| `pc` | where `_apply` and the commit after it are |
| `locked` | whether the dataset lock is taken; the code's `async with` sets and clears it |
| `delete_ids`, `purge_ids`, `payloads`, `needs_cognify` | the locals of `_apply` |

`Submit` is reconcile and precommit of a batch and the preparation of its sets: the
engine does the first two in one transaction of its own store, and the third has no
await.  `AcquireLock` is line 273.  `DeleteDocument`, `PurgeDocument`, `AddDocument`
and `CognifyDocument` are the four phases, one document at a time in any order
inside a phase, so that a failure finds every partial state.  `FinishApply` leaves
the lock, `CommitKey` commits one key. `FailBatch`, `TearRemoval` and `TearCognify`
end a batch at any point, between two documents or inside one; each of them releases
the lock if the batch has it (`ReleaseBy`).  `locked` is a variable of its own,
which the steps set as the code does and nothing reads off `pc`: that it is taken
just while a batch is in its phases, that every write falls into that time, and that
a batch which gives up its wait does not release another's lock, is what
`UsesDatasetLock` checks.  The crash of a process is the failure of each of its
batches.  `Declare` changes a declaration at any time, also while its key is in
flight.  `Reconfigure` is a new run under another configuration or identity
derivation, so it waits until no batch is in flight; whether the invalidation of the
children is sent with it is left open, because ADR-0005 claims that either of its
two signals is enough.

The effects of one call on one row are in `CogneeRows`.  They follow the runtime the
repository keeps as its upstream-faithful emulation (`testing.py`): a re-add keeps
the weight and the derivatives and resets the status only when the content changed;
cognify skips rows that are complete; removal takes derivatives first and the row,
which carries the status, last.

### DatasetLifecycle

| variable | code |
| --- | --- |
| `wanted`, `declared` | the declarations of the dataset and of its documents |
| `dtrack`, `tracking` | the engine's entries of the dataset and of each document |
| `dataset`, `store` | the id under which Cognee has the dataset, and its rows |
| `handler` | the `DocumentHandler` the running update was given: its handle's id and its configuration |
| `sink` | the dataset action in progress and the handle it resolved |
| `locked` | whether the dataset lock, which batches and teardown share, is taken |
| `phase`, `work` | a batch, with the handle and configuration of the handler it came from |
| `claimed`, `causes` | history: whether the user owns the dataset; why rows and records may disagree |

`ReconcileDataset` is `DatasetHandler.reconcile` with the precommit, and raises the
lossy invalidation of the children.  `ResolveDataset` is the lookup in
`_apply_dataset_actions`; for a live declaration it makes the handler, for a
teardown it goes on to `LockForTeardown`, `EraseRow` and `FinishTeardown`.
`CommitDataset` is the engine, which drops the children of a target that is gone
and sends no deletion for them.  `Submit` to `CommitDocument` are a batch of one
document under whatever handler it was submitted with; `Reaches` says when the id
in its handle is that of the present dataset.  `FailSink` and `FailBatch` end
either at any point.  An update ends when `Redeclare` takes its handler away, and
batches may still be in flight then, or at a teardown.

`statediff` lets an owner see the records of the other owner or not, depending on
the transition; the model leaves that choice open (`Seen`) for a system-managed
declaration.

The engine's loss of sight is recorded in `causes`: rows stayed behind a dataset that
was let go (`handoff`); a batch was still in flight when the teardown of its dataset
was over, or got the lock behind it (`overlap`); or a teardown failed after it may
have erased something (`teardown`).  For the first two the code promises nothing:
ADR-0004 leaves a user's rows in place, and ADR-0006 asks operators not to run two
generations of a dataset's desired state at once.  They alone are in `LosesRecord`, the
excuses of `RowsKeepTheirDataset` and of `EventuallySettled` for a dataset that stays
undeclared: a teardown that fails, as often as it may, is no excuse there, so its record
must survive and the teardown be tried again until the dataset is gone.  The third
counts only for a dataset that is declared again after a half-done teardown.
Convergence depends then on whether CocoIndex reports the children's records as
possibly missing, which this repository does not say; `FixedPointIsConverged` and
`EventuallySettled` leave that case open.

### ProcessingInputs

| variable | code |
| --- | --- |
| `model`, `registry` | the width the embedding model has, and the one registered for it |
| `settings` | environment, `.env` file, completion ceilings, and the versions of every other input |
| `live` | `EmbeddingConfig.embedding_dimensions` of the process |
| `mode` | the profile: defaults, a custom graph prompt, or the temporal pipeline |
| `target` | the fingerprint of the constructed target |
| `record`, `built` | the committed fingerprint, and the inputs the derivatives were made with |

`Declare` is `configured_processing_inputs` under `dataset_target`, which raises
without a verified width.  `Purge` to `Commit` are a batch as far as its inputs
matter, with the width checked before and after add and before and after cognify;
`Build` makes derivatives at the width of the moment.  `Probe` is Cognee's
connection test, which takes the length of the first vector for the width unless the
environment names one.  `Restart` is a process under changed settings.  The inputs
come in four classes by who reads them: every mode, the extraction and summarization
of the graph pipelines, the default graph prompt, and the temporal prompts.  Code of
the application that writes a width into the configuration by itself is left out.

### The locks

`InProcessLock` steps from await to await, as the event loop does; the only
await is inside `Lock.acquire`.  The queue and the wakeup of `asyncio.Lock` are
external definitions, translated from what the class documents and does.
`future` distinguishes a waiter that is pending, resolved, cancelled, or
cancelled after it was resolved.

`PgAdvisoryLock` sends, executes and answers each statement in separate steps.
A client may give up, fail to close or die in any place (`GiveUp`, `Vanish`);
its session stays on the server until it is reaped.  `SessionsMayDrop` adds the
loss of a session under a living client, who may still read an answer sent before.
In `Status`, by which the provider implements `DatasetLock`, a task is inside while
its body runs and its session lasts: a lost session takes it out of the scope.

### LocalRuntime

| variable | code |
| --- | --- |
| `effective`, `remote`, `defaultUser`, `tenantOf`, `databases` | Cognee's global state: storage roots, remote client, users, created databases |
| `runtime`, `setupDone`, `pin` | per object: the constructor's arguments, `_setup_done`, `_resolved_identity_scope` |
| `defaultProvider` | `_DEFAULT_LOCAL_LOCK_PROVIDER`; `Live` is `_LIVE_LOCAL_RUNTIMES` |
| `pc`, `rt`, `handle`, `user`, `call` | where a coroutine is, and its locals |
| `lock`, `held` | the dataset locks asked for and held |
| `estranged` | history: the live runtimes whose roots other code has replaced |

Every operation goes the same way: it validates its handle and the roots (`Operate`,
or `Resolve`, which has no handle yet), awaits the set-up (`SetUp`), awaits the
acting user (`Answer`), compares the answer with the configured user, the handle and
the pin, and starts its first SDK call; `CallAgain` is each further one.  A handle
is of any scope, since any runtime of the process may have resolved it at some time.
The comparison is `Bind` in `resolve_dataset` and `add_documents`, which call
`_bind_user` alone, and `BindResolved` in the five operations that call
`_ensure_resolved`: that validates the handle, and with it the roots, once more
behind the awaits (430-431, 470).  None of them looks at the mode again. In the call
Cognee reads the user once more, before it selects the storage of the tenant
(`SelectStorage`; `docs/upstream-audit/cognee/findings.md` 65-68, ADR-0007 79-83),
so the scope that a call works in is not the one that was checked but the one that
is read then. `Fail` is an exception or a cancellation at any await.  `AskLock`,
`Enter` and `Leave` are `dataset_lock`.  `SwitchUser`, another default user, may
happen at any time.  `SwitchTenants`, and `ChangeRoots` and `SwitchRemote` of other
code that reconfigures the process, happen while no operation runs, which ADR-0007
asks of the callers for tenants, or at any time when `ChangesMidOperation`.  A user
with its tenant is a scope, and because one dataset is modelled, a handle is its
scope.  The provider that a lock is taken from is abstract: one task at a time is
let in, as `InProcessLock` shows.  What `LocalRuntime` adds to it is the choice of
the provider, which `LockStatus(s)` and `OneLockPerScope` are about.  What the calls
do to the dataset is `DocumentSync`'s subject.

### Ingest

A batch is added group by group (node set and weight), each result is accepted or
refused, the dataset's id is looked up when it was not known, and cognify runs.  The
handle may be older than the dataset and have no id (`known`), at the start of a
batch also beside a dataset that exists, since a handler keeps the handle that it
was made with; `_raise_on_errored_runs` compares ids only when the handle has one
(645-648), and names always.  A report is a tree of runs; the model enumerates every
report of two items, with missing runs, ids and names that need not agree, wrong
counts and an error inside a completed run, three levels deep; results of other
types than the code's branches know are refused by shape and left out.  What is
assumed of Cognee is only that it does not claim more successes than it has
documents (`HonestAdd`), nor a completed cognify while a document is left
(`HonestCognify`).  Asked by name alone it speaks of its one dataset of that name;
asked by id, a run with another id says nothing of the dataset asked for.  Nothing
that is checked would hold of a Cognee that lies, and the code does not defend
against one.

### Verify

Verification resolves the dataset for its scope, waits for the lock, resolves
again, lists, leaves the lock and compares.  The writers are one abstract holder
of the lock, who adds, completes and deletes rows and tears the dataset down; a
row is its label and whether it is complete.  `settled` and `observed` are
history: the rows the last writer left, and what they were at the listing.
`LockStatus` tells from where the verifier's code is, not from `holder`, whether it
is inside the lock.
Annotations are compared as labels are, and are left out.

## 3. Runs

| run | instance | shows |
| --- | --- | --- |
| `fields` | 1 key, 2 contents, labels, weights, configurations and derivations, 1 batch | `CommittedIsExact`, `MetadataUpdateKeepsDerivatives`, `RowsAreTracked`, `FixedPointIsConverged`, `IInv` |
| `live` | 2 keys, 2 batches, fair | `AppliedIsExact`, `EventuallyConverged`, `UsesDatasetLock` |
| `lifecycle` | 1 key, 1 batch, 1 dataset id, 2 owners, fair | `TypeOK`, `TeardownSparesUser`, `RowsKeepTheirDataset`, `FixedPointIsConverged`, `BatchReturnsDone`, `SharesDatasetLock`, `EventuallySettled` |
| `handoff` | as `lifecycle`, 2 contents | violates `RemountConverges` |
| `inputs` | 2 widths, ceilings and versions, 2 classes of prompts, 3 modes, fair | `TypeOK`, `DerivativesAreCurrent`, `NoNeedlessRebuild`, `EventuallyBuilt` |
| `inprocess` | 5 tasks, fair | `TypeOK`, `OneEntry`, `NoLostWakeup`, `ImplementsContract`, `InOrder`, `WaitersServed` |
| `pglock` | 2 tasks, 3 sessions, sessions may drop, fair | `TypeOK`, `HeldThroughout`, `ImplementsContract`, `NothingStranded` |
| `pgdrop` | 2 tasks, 2 sessions, sessions may drop | violates `OneInside` |
| `runtime` | 2 runtimes, 2 tasks, 2 pairs of roots, 2 users, 2 tenants | `TypeOK`, `ActsForHandle`, `LandsInOwnStorage`, `OneLockPerScope`, `MutationDetected` |
| `outside` | as `runtime` with 1 user and 1 tenant; remote mode and roots change at any time | violates `StaysLocal` |
| `ingest` | 2 payloads, 2 groups, handle with or without an id | `TypeOK`, `NoFalseSuccess`, `NoFalseFailure` |
| `verify` | 2 keys, 2 labels, 2 dataset ids | `TypeOK`, `ReportIsExact`, `SharesDatasetLock` |

**Bounds.**  No run bounds the number of steps: failures, retries, changes of
declaration and restarts may be repeated without limit, and the state spaces are
finite because the data is.  Two values of a field are enough for "same" and
"different", and a value may come back, which is the third generation of a document.
`fields` varies every field with a path of its own in one document: contents reset
the status, labels alone allow a re-add, weights need a new row, derivations a new
id, and a configuration invalidates what is unchanged.  Annotations only count as
one more input of the derivatives and have one value.  Its constraint
`FewPossibleStates` stops at three possible states of a document
(`MaxPossibleStates`): one committed, one failed and one in flight, so that a
decision meets records that agree in one field and differ in another.  `live` has
two keys and two batches: a bystander cognify, a mixed batch, a batch of one key
while the other is in flight, and every overlap that the lock and disjoint keys
allow.  Overlapping batches over several contents are covered by the theorems, which
are about all fields, keys and batches at once.

In `lifecycle` the possible records of the dataset stop at two
(`MaxRecords`), which is one of each owner.  One id means that a dataset declared
again may get its old one; a handle without an id, which is older than the dataset,
occurs as well.  Instances with two ids and two configurations (2.2 million states)
and with two ids and two batches (about a million) satisfy the same invariants;
they take too long for the listed runs.  In `inputs` two widths tell the model's
from a wrong one, and one class of prompts for each pipeline tells an input that is
read from one that is not; `common` and `staged` behave like them.

Five tasks give the in-process lock a holder, a woken waiter, a
cancelled waiter, a pending waiter and a newcomer together.  One more session
than tasks leaves room for a session whose client has gone.  In `LocalRuntime`
two runtimes and two tasks give a task that calls through one runtime while the
other is constructed, collected and constructed anew, and two providers tell
one generation of locks from the next.  Two users of two tenants tell the default
user from the one passed and the tenant checked from the one read again.  Providers
passed to the constructor take no part in the default lock; they are left to
the proofs.  Two payloads in
`Ingest` make one group of two and two groups of one.  Two dataset ids in `Verify`
tell the dataset that was resolved first from the one that replaced it.

**Symmetry** is used in safety runs only: the members of the sets it permutes
(keys, workers, runtimes, tasks, roots, users, tenants, providers, payloads,
groups, dataset ids, the values of a document's fields and those named in
`MCVerify`) are never ordered.

**Fairness.**  `DocumentSync` assumes that the scheduler runs every batch on and
that the engine comes back to a key that has work left, which is what its retry and
the next update do (`Fairness`: weak fairness of `Progress(w)`).  It is not assumed
that failures stop; `EventuallyConverged` speaks of behaviours in which they do.
`DatasetLifecycle` assumes the same of the dataset's action and of each batch (weak
fairness of `DatasetStep` and of `BatchStep(w)`), and `ProcessingInputs` of the
batch (`Batch`), where a probe may strike for ever.  `InProcessLock` assumes that
ready tasks run and bodies end, not that anybody calls.  `PgAdvisoryLock` assumes
that a client in its cleanup goes on and that the server reaps sessions without a
client; it does not assume fairness among pollers, and the polling loop gives none,
so there is no counterpart of `WaitersServed` for it.

**Mutants.**  Each property of a passing run has a mutant: a faulty variant of a
definition, defined next to it, under which the run fails.

## 4. Findings

* `handoff`.  The unmount of a user-managed dataset has no action (`_target.py`
  396-407), so the engine commits it and drops the tracking of the documents under
  it, while their rows stay.  ADR-0003 (15) promises that with a retained tracking
  store a later complete synchronization leaves no stale managed document;
  ADR-0004 (107) says of the unmount only that documents cogindex added remain.  When the
  dataset is mounted again as system-managed without one of its documents,
  nothing ever deletes that document's row.
* `pgdrop`.  ADR-0006 (45) says that "locks are held for the duration of one
  document batch or one teardown".  With the PostgreSQL provider the lock goes with
  its session, and the body does not look at the connection between acquisition
  and unlock (`_locks_postgres.py` 105-114), so a lost session lets a second worker
  in while the first still writes.  `HeldThroughout` and `ImplementsContract` are
  therefore about bodies whose session lasts; `PgOneInside`, which is about all
  bodies, is proved under `~SessionsMayDrop`.
* `outside`.  ADR-0007 (58) says of the remote mode, in which Cognee's add drops
  `data_id`, that `LocalCogneeRuntime` "checks that state before every SDK
  operation".  The mode is looked at in `_ensure_ready` alone (`_runtime_local.py`
  114-115), before the set-up and the acting user are awaited; the SDK calls come
  after those awaits, and `add_documents` makes one per payload group.  Five of the
  operations check handle and roots again in between (431), but not the mode.  When
  other code calls `cognee.serve()` during one of the awaits, the SDK call goes to the
  remote service and nothing is raised.  `LandsInOwnStorageAlways`, of which
  `StaysLocal` is a part, is therefore proved under `~ChangesMidOperation`.
  `ActsForHandleAlways` is too, for tenants; there the documents ask as
  much of the callers (ADR-0007 79-83).

## 5. Proofs

`DocumentSyncProofs` proves the type invariant for all constants.  It is not
free: the row that an add leaves is a row only if the key is not planned for
deletion, so `PayloadInv` is carried along.

Its second part proves `Inductive`: `Spec` implies `[]IInv`.  The safety properties
are not inductive by themselves.  That a committed entry is exact depends on what
every batch does before the commit, on what other batches' cognify does to its rows,
and on what a failed batch leaves for the next.  `IInv` says so per key:

* `SettledInv`: an entry whose possible records differ in the label alone, and
  none of which may be missing, has an intact row.  These are the only entries
  over which reconcile chooses `update_metadata` or nothing.
* `FlightInv`: a key in flight has the rows its remaining phases expect: bare
  before the add, the target's after it, complete after the batch.
* `RowsInv`: each row is named by a possible record with the row's weight.
* `PlanInv`: a plan is chosen for the entry it will be committed to, and it is
  `update_metadata` exactly when the entry is settled.
* `BatchInv`, `MutexInv`: batches touch their own keys, one at a time, and the lock
  is taken just while one of them is in its phases.

A failed batch needs no clause of its own: precommit has made the entry
unsettled before the first write, so `SettledInv` promises nothing, and only
`RowsInv` has to survive.  From `IInv` follow `CommittedExact`, `RowsTracked`,
`AppliedExactly`, `MetadataUpdateSafe` and `FixedPointConverged`.  `LockUsed`
shows that each step of `DocumentSync` is a step or a stutter of `DatasetAccess`,
with Cognee's rows for what the lock protects: that rests on `MutexInv`, because the
model's guard asks for `locked` alone, and the contract for everybody's whereabouts.

`InProcessLockProofs` proves every safety property of the in-process lock for any
number of tasks.  The invariant `LockInv` has four parts besides the types.
`RefsInv`: every task between its call and its end refers to the entry that the
table names, and the counts are the numbers of those tasks, so an entry is dropped
exactly when the last one leaves.  `QueueInv`: an entry's queue holds the tasks that
wait at it, each once.  `HeldInv`: the lock is marked as held exactly while
somebody is inside, and a task that was promised the lock heads the queue of a
lock that is still free; that is why a newcomer cannot overtake it.
`NoLostWakeup` itself: a task that is cancelled after it was promised the lock
passes the promise on.  `RemovedAt` and `Removed` say what removing a waiter leaves of the
queue, from the library's theorems about `SubSeq` and without an induction; the
rest of the proof sees the queue through them alone.  `OneEntry`, `InOrder` (an
action property) and the refinement of `DatasetLock` follow, and `OneInsideAlways`
is the contract's mutual exclusion.

`PgAdvisoryLockProofs` proves the types, that a task in the body holds the lock
through its own session while that lasts, and that the provider refines
`DatasetLock`, for any number of tasks and sessions and with lost sessions.  The
invariant `LockInv` adds that tasks have sessions of their own and that a grant
nobody has read yet is already the server's.  `PgOneInside` needs `~SessionsMayDrop`.

`LocalRuntimeProofs` proves the types, `ActsForHandle` and `LandsInOwnStorage` (both
under `~ChangesMidOperation`), `OneHolder`, `OneLockPerScope` and `MutationDetected`
for any number of runtimes, tasks, users, tenants and roots.  The invariant comes in
layers, each preserved given the ones before: `Refs` (a task at work keeps its
runtime alive, so that no new object takes its place), `ScopesBound` (a call's user
is the pinned one, and pins do not move while the runtime lives), `ScopesSelected`
(a user keeps the tenant it was answered with to the end of the operation, so that
what Cognee reads again is what was checked), `StorageAgrees` (all live runtimes
have the same roots, the databases of a runtime that is set up exist, and a task
past its checks finds Cognee in them) and `LocksAgree` (a live runtime with a
default provider has the current one, so that two default locks of one scope are one
lock, `DefaultLocksByScope`).  With the last layer each step is, for every scope, a
step of that scope's `DatasetLock` or none (`OneLockAlways`).  `MutationDetected`
rests on `Estranged` instead, which holds also when the roots change at any time: a
runtime whose roots were replaced lives, so no constructor configures Cognee again,
and the roots stay foreign to it until other code restores them.

`DatasetLifecycleProofs` proves `LifecycleInductive` for any number of documents,
batches, configurations and dataset ids.  `SinkInv` says what a teardown under way
implies about the dataset's entry; `ClaimInv`, that a user's claim is among the
possible records; `RowsInv`, that unless the record was lost (`LosesRecord`) rows
and batches at work have one, and that a teardown leaves neither behind, however
many have failed before it.  From it follow `TeardownSparesUser` and
`RowsKeepTheirDataset`.  `LockShared` shows that the teardown and the batches refine
`DatasetAccess`: the dataset and its rows change at the hands of the one that is in,
and only its own end frees the lock.  `BatchReturnsDone` is an action property;
`MutexInv` and `WrittenInv` carry the facts between the phases of a batch: nobody
else touches the dataset between its add and its return, and its row has its content
from the add on.

The fixed point of `DatasetLifecycle` (`FixedPointAlwaysConverged`) needs to know what
the rows, the records and the batches have to do with each other, as in
`DocumentSync`, but here the configuration, the handler and the dataset itself may
have changed under a batch.  `FixedPointInv` adds to the invariants above:

* `HandlerInv`: the running update has the declaration that is wanted, so a
  handler that is still in use has the wanted configuration.
* `OneBatch`: a document is in one batch at a time.
* `TruthInv`, as long as the behaviour is `Clean`: no cause is on file, and no teardown
  has begun to erase.  Then for each document (`EntryInv`) the row has the weight of a
  possible record, the records of a settled entry describe the row, and a record
  that is the only possible one has the row's label too; and for each batch
  (`WorkInv`, `ProgressInv`) its target is among the possible records, its handle is that
  of the present dataset or older than any, its entry is settled only if it updates metadata
  alone, and its row is as far as its phase says.  `HandleInv` says of the handler
  what `WorkInv` says of the batches.

The step that is not local is the end of a teardown: the erased rows contradict the
records until `CommitDataset` drops the records with the dataset's own.  Cleanness
begins again there, and what holds then is not what held before but follows from
`RowsInv`: without a record of the dataset there are no rows.  A batch in flight
across that point is the cause `overlap`.  A failed batch again needs no clause of
its own, because its entry is unsettled.  `RecordsAlwaysTellRows` is the consequence
for every state, not only the fixed points: an entry with one record and no doubt
has exactly that record's row, and an entry without records has none.
`FixedPointInv` held in every state that TLC reached before it was proved: on the
instance of `lifecycle`, with two configurations and two ids, with two contents, and
with two documents (all exhausted), and in the first ten million states with two
documents and two batches.

`ProcessingInputsProofs` proves that settled derivatives are current
(`DerivativesAlwaysCurrent`) and that none is thrown away needlessly.  `WidthInv`:
the live width is the contract's or the model's.  Hence a check that passes means
that either no probe has changed the width since the batch began or the two are
equal, and `BatchInv` keeps what was built at the recorded width.  `TargetInv` and
`RecordInv` tie the fingerprints to the settings and to what was built.  The lemmas
`LimitIsClients` and `InputsAreRead` are the exactness of the fingerprint.

`VerifyProofs` proves the invariants of `Verify` (`ListsPresentDataset`, that the list is
read through the present id, among them) with `LockInv`: without a writer the rows
are settled, and a verification that resolves or lists is the holder.
`CompareIsExact` is about the comparison alone.  `VerifySharesLock` makes
verification and the writers clients of `DatasetLock`.
`IngestProofs` proves `NoFalseSuccess` and `NoFalseFailure` for any finite set of
payloads.  `AcceptedIsHeld` is its core: a result that the guard accepts names as many
successes as there are payloads, an honest Cognee claims none it does not have, and a
finite set has no proper subset of its own size.

Assumptions on constants: the markers are not values they stand beside
(`NonExistenceAssumption`, `NoRowAssumption`, `SyncAssumption`,
`LifecycleAssumption`, `InputsAssumption`, `VerifyAssumption`, `PgAssumption`,
`NoneIsNothing`, `IngestAssumption`), a provider that the constructor creates is none
that was passed to it (`ProvidersDiffer`), there is an identity derivation
(`LifecycleAssumption`), ceilings are numbers (`InputsAssumption`), and the
payloads of one call are finitely many (`IngestAssumption`).  Two of
`LocalRuntimeProofs`' theorems assume `~ChangesMidOperation`, and `PgOneInside`
`~SessionsMayDrop`; both are named in the theorem.  The in-process lock has finitely
many tasks, and at least as many lock objects to take from as tasks, since Python
can always make another (`EntriesAssumption`).  Nothing else is assumed to be
finite in the modules with theorems.

Every invariant and every action property of a passing run is stated by a theorem,
and so is each refinement of `DatasetLock` and of `DatasetAccess`.  Model-checked
only are the liveness properties (`EventuallyConverged`, `EventuallySettled`,
`EventuallyBuilt`, `WaitersServed`, `NothingStranded`), which need fairness and
`ENABLED` and are out of the prover's reach.

## 6. Not modelled, and what is left

Not modelled:

* loss of the tracking store, which the repository puts out of scope, and third
  parties that write to Cognee, against which it claims nothing;
* of `_compat.py`, the probing of the installed library's signatures, the parsing
  of single settings and the redaction of model arguments: sequential code without
  state, whose result is either a value of `settings` or an error at construction;
* an explicit `ProcessingConfig` of a caller, which replaces the one derived from
  Cognee's settings and is the caller's promise; argument validation; wording and logging;
* the choice among several of Cognee's datasets of one name: one dataset is modelled;
* the outcome of a half-done teardown that is declared again, which depends on CocoIndex
  (see `DatasetLifecycle`);
* the doctor and the public surface, which keep no state.

What could follow:

1. `Identity`: the injectivity of `canonical_join`, against a bounded reference.
2. `ConvergentTarget`: an abstract target that `DocumentSync` implements.
3. `DocumentSync` beside a provider without exclusion, against which the words of
   ADR-0006 (66-69) on replay with a no-op lock can be weighed.
