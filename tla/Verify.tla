------------------------------- MODULE Verify -------------------------------
(***************************************************************************)
(* verify_dataset of _verify.py beside the writers of the dataset: document*)
(* batches and teardown (_target.py), which hold the dataset lock while    *)
(* they work.                                                              *)
(*                                                                         *)
(* Verification resolves the dataset, waits for the lock of its scope,     *)
(* resolves again, lists the documents and compares them with what its     *)
(* caller expects.  While it waits, batches come and go, and the dataset   *)
(* may be deleted and materialize again under another id.  A row is here   *)
(* its label and its completion status.                                    *)
(***************************************************************************)
EXTENDS Naturals, FiniteSets

CONSTANTS
  Keys,          \* external keys; their data_ids are in one-to-one relation
  Labels,
  Generations,   \* ids that the dataset has from one materialization to the next
  NoDataset,
  NoRow,
  Nobody

Writer == "writer"
Verifier == "verifier"

Rows == [label : Labels, complete : BOOLEAN]
Snapshots == [Keys -> Rows \union {NoRow}]
Empty == [k \in Keys |-> NoRow]

ASSUME VerifyAssumption ==
  /\ NoRow \notin Rows \union Labels
  /\ NoDataset \notin Generations
  /\ Nobody \notin {Writer, Verifier}

VARIABLES
  dataset,    \* the dataset's present id, NoDataset before the first add
  rows,       \* what Cognee holds under it
  holder,     \* who is in the dataset lock
  settled,    \* the rows as they were when the lock was last free
  expected,   \* the caller's expectation: a label per key, or no document
  handle,     \* the dataset id that list_documents is called with
  issues,     \* the issues of the last report
  observed,   \* what the rows were when that report was made (history)
  pc          \* where verification is

vars == <<dataset, rows, holder, settled, expected, handle, issues, observed, pc>>
verification == <<expected, handle, issues, observed, pc>>

Issues == [kind : {"missing", "unexpected", "incomplete", "label_mismatch"},
           key : Keys]

\* The type of every variable; without a dataset there are no rows.
TypeOK ==
  /\ dataset \in Generations \union {NoDataset}
  /\ rows \in Snapshots
  /\ dataset = NoDataset => rows = Empty
  /\ holder \in {Writer, Verifier, Nobody}
  /\ settled \in Snapshots
  /\ expected \in [Keys -> Labels \union {NoRow}]
  /\ handle \in Generations \union {NoDataset}
  /\ issues \subseteq Issues
  /\ observed \in Snapshots
  /\ pc \in {"out", "waiting", "resolving", "listing", "done"}

Init ==
  /\ dataset = NoDataset
  /\ rows = Empty /\ settled = Empty /\ observed = Empty
  /\ holder = Nobody
  /\ expected = [k \in Keys |-> NoRow]
  /\ handle = NoDataset
  /\ issues = {}
  /\ pc = "out"

-----------------------------------------------------------------------------
(* The writers                                                             *)

Lock(who) == holder = Nobody /\ holder' = who
Unlock(who) == holder = who /\ holder' = Nobody

BeginWrite ==
  /\ Lock(Writer)
  /\ UNCHANGED <<dataset, rows, settled, verification>>

\* A batch adds, completes or deletes documents.  The first add materializes
\* the dataset under a new id; a re-add of the same content keeps the status.
AddRow(k, label) ==
  /\ holder = Writer
  /\ IF dataset = NoDataset THEN dataset' \in Generations \ {handle}
                            ELSE UNCHANGED dataset
  /\ \E complete \in {FALSE, rows[k] # NoRow /\ rows[k].complete} :
       rows' = [rows EXCEPT ![k] = [label |-> label, complete |-> complete]]
  /\ UNCHANGED <<holder, settled, verification>>

CompleteRows ==
  /\ holder = Writer
  /\ rows' = [k \in Keys |->
       IF rows[k] = NoRow THEN NoRow ELSE [rows[k] EXCEPT !.complete = TRUE]]
  /\ UNCHANGED <<dataset, holder, settled, verification>>

DeleteRow(k) ==
  /\ holder = Writer
  /\ rows' = [rows EXCEPT ![k] = NoRow]
  /\ UNCHANGED <<dataset, holder, settled, verification>>

\* Faulty variant: the dataset goes, its rows stay.
TeardownKeepingRows ==
  /\ holder = Writer
  /\ dataset' = NoDataset
  /\ UNCHANGED <<rows, holder, settled, verification>>

\* teardown_dataset removes the rows and the dataset's id.
Teardown ==
  /\ holder = Writer
  /\ dataset' = NoDataset
  /\ rows' = Empty
  /\ UNCHANGED <<holder, settled, verification>>

EndWrite ==
  /\ Unlock(Writer)
  /\ settled' = rows
  /\ UNCHANGED <<dataset, rows, verification>>

-----------------------------------------------------------------------------
(* verify_dataset                                                          *)

\* The first resolution gives the scope of the identities and of the lock.
Call ==
  /\ pc \in {"out", "done"}
  /\ expected' \in [Keys -> Labels \union {NoRow}]
  /\ handle' = dataset
  /\ issues' = {} /\ observed' = Empty
  /\ pc' = "waiting"
  /\ UNCHANGED <<dataset, rows, holder, settled>>

\* Faulty variant: the list is read without the lock.
EnterLockUnlocked ==
  /\ pc = "waiting"
  /\ pc' = "resolving"
  /\ UNCHANGED <<dataset, rows, holder, settled, expected, handle, issues,
                 observed>>

EnterLock ==
  /\ pc = "waiting"
  /\ Lock(Verifier)
  /\ pc' = "resolving"
  /\ UNCHANGED <<dataset, rows, settled, expected, handle, issues, observed>>

\* Faulty variant: the handle from before the wait is used.
ResolveOnce ==
  /\ pc = "resolving"
  /\ pc' = "listing"
  /\ UNCHANGED <<dataset, rows, holder, settled, expected, handle, issues,
                 observed>>

\* The dataset is resolved again under the lock.
ResolveAgain ==
  /\ pc = "resolving"
  /\ handle' = dataset
  /\ pc' = "listing"
  /\ UNCHANGED <<dataset, rows, holder, settled, expected, issues, observed>>

\* A handle without dataset lists nothing; one of an earlier dataset fails.
Listed == IF handle = NoDataset THEN Empty ELSE rows

Issue(kind, k) == [kind |-> kind, key |-> k]

\* The comparison after the lock is left.
Compare(stored) ==
  LET missing == {k \in Keys : expected[k] # NoRow /\ stored[k] = NoRow}
      unexpected == {k \in Keys : expected[k] = NoRow /\ stored[k] # NoRow}
      both == {k \in Keys : expected[k] # NoRow /\ stored[k] # NoRow}
  IN  {Issue("missing", k) : k \in missing}
      \union {Issue("unexpected", k) : k \in unexpected}
      \union {Issue("incomplete", k) :
                k \in {j \in both : ~stored[j].complete}}
      \union {Issue("label_mismatch", k) :
                k \in {j \in both : stored[j].label # expected[j]}}

List ==
  /\ pc = "listing"
  /\ handle \in {dataset, NoDataset}
  /\ issues' = Compare(Listed)
  /\ observed' = settled
  /\ holder' = IF holder = Verifier THEN Nobody ELSE holder
  /\ pc' = "done"
  /\ UNCHANGED <<dataset, rows, settled, expected, handle>>

\* A call fails or is cancelled; the lock is left.
Fail ==
  /\ pc \in {"waiting", "resolving", "listing"}
  /\ holder' = IF holder = Verifier THEN Nobody ELSE holder
  /\ pc' = "out"
  /\ UNCHANGED <<dataset, rows, settled, expected, handle, issues, observed>>

Next ==
  \/ BeginWrite \/ CompleteRows \/ Teardown \/ EndWrite
  \/ \E k \in Keys : DeleteRow(k) \/ \E label \in Labels : AddRow(k, label)
  \/ Call \/ EnterLock \/ ResolveAgain \/ List \/ Fail

Spec == Init /\ [][Next]_vars

-----------------------------------------------------------------------------
(* Properties                                                              *)

\* What a document looks like that meets its expectation.
Wanted(k) == IF expected[k] = NoRow
             THEN NoRow ELSE [label |-> expected[k], complete |-> TRUE]

\* A report has an issue for exactly the documents that are not as expected in
\* the rows the last writer left: never for the state of a batch under way,
\* and never for a dataset that is gone.
ReportIsExact ==
  pc = "done" =>
    \A k \in Keys :
      (\E issue \in issues : issue.key = k) <=> observed[k] # Wanted(k)

\* Under the lock the list is read through the dataset's present id, however
\* often it was deleted and created while verification waited.
ListsPresentDataset == pc = "listing" => handle = dataset

\* Where the writers and verification are with respect to the dataset lock:
\* where their code is, whatever the lock's owner is said to be.
LockStatus == [t \in {Writer, Verifier} |->
  IF t = Writer
  THEN IF holder = Writer THEN "in" ELSE "out"
  ELSE IF pc = "waiting" THEN "waiting"
  ELSE IF pc \in {"resolving", "listing"} THEN "in" ELSE "out"]

LockUse ==
  INSTANCE DatasetLock WITH Tasks <- {Writer, Verifier}, status <- LockStatus

\* Verification is one more client of the lock that batches and teardowns
\* share: it resolves and lists inside its contract, it may give up the wait,
\* and no writer comes in between the second resolution and the list.
SharesDatasetLock == LockUse!LockSpec
=============================================================================
