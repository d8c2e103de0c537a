------------------------------- MODULE Ingest -------------------------------
(***************************************************************************)
(* add_documents and cognify_dataset of _runtime_local.py: when may the    *)
(* runtime believe that Cognee did what it was asked?                      *)
(*                                                                         *)
(* Cognee does not raise for a document that it could not ingest; it lists *)
(* the failure somewhere in the value it returns.  The runtime ingests the *)
(* payloads group by group and accepts a group only if the returned value  *)
(* is an explicit success for every one of them in the dataset it asked    *)
(* for (_raise_on_errored_runs).                                           *)
(*                                                                         *)
(* A report is a tree: the run of a group lists runs of items, and each of *)
(* these may list runs of its own.  A run tells the id and the name of a   *)
(* dataset, each modelled by the dataset it belongs to; the two need not   *)
(* agree.  The handle may have been resolved before the dataset existed;   *)
(* then it has no id, and add names the dataset alone.  Cognee may fail    *)
(* any item, report it in any of these shapes, and ingest without          *)
(* reporting; it is assumed only to claim no success for what it has not   *)
(* done (HonestAdd, HonestCognify).                                        *)
(***************************************************************************)
EXTENDS Naturals, Sequences, FiniteSets

CONSTANTS
  Items,        \* the documents of a batch
  Groups,       \* values of (node_set, importance_weight)
  Requested,    \* the dataset that the handle names
  Other,        \* a dataset that it does not name
  Nothing       \* no dataset, no list, no value

VARIABLES
  groupOf,      \* the node set and weight of each payload
  todo,         \* the groups that are not added yet
  known,        \* has the handle a dataset_id?
  materialized, \* does the dataset exist in Cognee?
  stored,       \* the items whose current payload Cognee holds
  processed,    \* the items that cognify completed
  result,       \* what the last SDK call returned
  pc

vars == <<groupOf, todo, known, materialized, stored, processed, result, pc>>

-----------------------------------------------------------------------------
(* Reports                                                                 *)

Success == {"Completed", "AlreadyCompleted"}        \* _PIPELINE_SUCCESS_NAMES
Types == Success \union {"Errored", "Started"}
Datasets == {Requested, Other}
Ids == Datasets \union {Nothing}

Run(type, id, name, info) ==
  [type |-> type, id |-> id, name |-> name, info |-> info]

\* A run of the requested dataset.
OwnRun(type, info) == Run(type, Requested, Requested, info)

\* Runs of one item: plain ones, and completed ones that list a run inside.
ItemRuns ==
  {Run(type, id, name, Nothing) :
     type \in Types, id \in Ids, name \in Datasets}
  \union {OwnRun("Completed", <<OwnRun(type, Nothing)>>) :
            type \in {"Completed", "Errored"}}

\* data_ingestion_info: absent, or a list of item runs, some without run_info.
Infos(bound) ==
  {Nothing} \union
  UNION {[1..n -> ItemRuns \union {Nothing}] : n \in 0..bound}

\* There are finitely many payloads; Nothing is no dataset, no run and no list.
ASSUME IngestAssumption ==
  /\ IsFiniteSet(Items)
  /\ Nothing \notin Datasets
  /\ Nothing \notin [type : Types, id : Ids, name : Datasets,
                      info : Infos(Cardinality(Items))]
  /\ \A n \in 0..Cardinality(Items) :
       Nothing \notin [1..n -> ItemRuns \union {Nothing}]

Reports(bound) ==
  {Nothing} \union
  {Run(type, id, name, info) : type \in Types, id \in Ids, name \in Datasets,
                               info \in Infos(bound)}

Entries(run) ==
  IF run = Nothing \/ run.info = Nothing
  THEN {} ELSE {run.info[i] : i \in DOMAIN run.info}

\* collect: every run of a report, however deep.
AllRuns(run) ==
  LET inside(S) == UNION {Entries(r) : r \in S}
  IN  ({run} \union inside({run}) \union inside(inside({run}))) \ {Nothing}

Errored(run) == \E r \in AllRuns(run) : r.type = "Errored"

Succeeded(run) == run # Nothing /\ run.type \in Success

\* Faulty variant: the name of the dataset is enough.
TerminalByName(run, hasId) ==
  Succeeded(run) /\ run.id # Nothing /\ run.name = Requested

\* The top-level run is a success in a dataset of the name that was asked for,
\* and, when the handle has an id, in the dataset of that id.
Terminal(run, hasId) ==
  /\ Succeeded(run)
  /\ run.id # Nothing /\ (hasId => run.id = Requested)
  /\ run.name = Requested

\* Each listed run is a success in the same dataset.
EntriesSucceed(run) ==
  \A entry \in Entries(run) :
    Succeeded(entry) /\ entry.id = run.id /\ entry.name = Requested

\* Faulty variant: failures are looked for in the listed runs alone.
AcceptsAddShallow(run, count, hasId) ==
  /\ Terminal(run, hasId)
  /\ run.info # Nothing /\ Len(run.info) = count
  /\ EntriesSucceed(run)

\* Faulty variant: an item that was there already is no success.
AcceptsAddCompletedOnly(run, count, hasId) ==
  /\ ~Errored(run)
  /\ Terminal(run, hasId)
  /\ run.info # Nothing /\ Len(run.info) = count
  /\ EntriesSucceed(run)
  /\ \A entry \in Entries(run) : entry.type = "Completed"

\* _raise_on_errored_runs for add: one successful run per payload.
AcceptsAdd(run, count, hasId) ==
  /\ ~Errored(run)
  /\ Terminal(run, hasId)
  /\ run.info # Nothing /\ Len(run.info) = count
  /\ EntriesSucceed(run)

\* The same for cognify, whose handle has an id: one report, filed under it; it
\* may list items.
AcceptsCognify(reports) ==
  /\ \A d \in DOMAIN reports : ~Errored(reports[d])
  /\ DOMAIN reports = {Requested}
  /\ Terminal(reports[Requested], TRUE)
  /\ EntriesSucceed(reports[Requested])

Claims(run) == Succeeded(run) /\ run.name = Requested /\ ~Errored(run)

\* What Cognee may say of add: no more successful items than it holds.  Asked by
\* name alone it speaks of its one dataset of that name, whatever id that has;
\* asked by id, a run with another id says nothing of the dataset.
HonestAdd(run, held, hasId) ==
  Claims(run) /\ (hasId => run.id = Requested) /\ run.info # Nothing =>
    Cardinality({i \in DOMAIN run.info :
                   Claims(run.info[i]) /\ run.info[i].id = run.id})
      <= Cardinality(held)

\* And of cognify: that it is complete only if no item is left.
HonestCognify(reports, all) ==
  /\ Requested \in DOMAIN reports
  /\ Claims(reports[Requested]) /\ reports[Requested].id = Requested
  => all

\* Values that cognify may return: a report for each of some datasets.
CognifyResults ==
  {[d \in D |-> IF d = Requested THEN run
                                 ELSE Run("Completed", d, d, Nothing)] :
     D \in SUBSET Datasets, run \in Reports(1)}

-----------------------------------------------------------------------------
(* The operations                                                          *)

Members(g) == {i \in Items : groupOf[i] = g}

\* The type of every variable; the completed items are among the stored ones.
TypeOK ==
  /\ groupOf \in [Items -> Groups]
  /\ todo \subseteq Groups
  /\ known \in BOOLEAN /\ materialized \in BOOLEAN
  /\ stored \subseteq Items /\ processed \subseteq stored
  /\ pc \in {"idle", "adding", "added", "resolving", "returned", "cognified",
             "complete", "failed"}

Init ==
  /\ groupOf \in [Items -> Groups]
  /\ todo = {}
  /\ known = FALSE /\ materialized = FALSE
  /\ stored = {} /\ processed = {}
  /\ result = Nothing
  /\ pc = "idle"

\* Faulty variant: a document's new content keeps the old completion status.
BeginKeepingStatus ==
  /\ pc \in {"idle", "failed", "complete"}
  /\ \/ /\ groupOf' \in [Items -> Groups]
        /\ stored' = {} /\ UNCHANGED processed
     \/ UNCHANGED <<groupOf, stored, processed>>
  /\ known' \in {FALSE, materialized}
  /\ todo' = {groupOf'[i] : i \in Items}
  /\ result' = Nothing
  /\ pc' = "adding"
  /\ UNCHANGED materialized

\* A batch brings new payloads, or the last one is tried again, under a handle
\* that may have been resolved before the dataset existed.
Begin ==
  /\ pc \in {"idle", "failed", "complete"}
  /\ \/ /\ groupOf' \in [Items -> Groups]
        /\ stored' = {} /\ processed' = {}
     \/ UNCHANGED <<groupOf, stored, processed>>
  /\ known' \in {FALSE, materialized}
  /\ todo' = {groupOf'[i] : i \in Items}
  /\ result' = Nothing
  /\ pc' = "adding"
  /\ UNCHANGED materialized

\* cognee.add for one group ingests some of its items and answers.
Add(g) ==
  /\ pc = "adding" /\ g \in todo
  /\ \E done \in SUBSET Members(g), run \in Reports(Cardinality(Items)) :
       /\ stored' = stored \union done
       /\ HonestAdd(run, stored' \intersect Members(g), known)
       /\ materialized' \in {TRUE, materialized \/ done # {}}
       /\ result' = [group |-> g, run |-> run]
  /\ pc' = "added"
  /\ UNCHANGED <<groupOf, todo, known, processed>>

AcceptGroup ==
  /\ pc = "added"
  /\ AcceptsAdd(result.run, Cardinality(Members(result.group)), known)
  /\ todo' = todo \ {result.group}
  /\ result' = Nothing
  /\ pc' = IF todo' # {} THEN "adding"
           ELSE IF known THEN "returned" ELSE "resolving"
  /\ UNCHANGED <<groupOf, known, materialized, stored, processed>>

\* The dataset materialized on the first add; its id is looked up.
LearnDataset ==
  /\ pc = "resolving"
  /\ known' = materialized
  /\ pc' = IF materialized THEN "returned" ELSE "failed"
  /\ UNCHANGED <<groupOf, todo, materialized, stored, processed, result>>

\* cognee.cognify processes some of the stored items and answers.
Cognify ==
  /\ pc = "returned"
  /\ \E done \in SUBSET stored, reports \in CognifyResults :
       /\ HonestCognify(reports, processed \union done = stored)
       /\ processed' = processed \union done
       /\ result' = reports
  /\ pc' = "cognified"
  /\ UNCHANGED <<groupOf, todo, known, materialized, stored>>

AcceptCognify ==
  /\ pc = "cognified"
  /\ AcceptsCognify(result)
  /\ result' = Nothing
  /\ pc' = "complete"
  /\ UNCHANGED <<groupOf, todo, known, materialized, stored, processed>>

\* A value that is not accepted is an error of the batch.
RejectResult ==
  /\ \/ /\ pc = "added"
        /\ ~AcceptsAdd(result.run, Cardinality(Members(result.group)), known)
     \/ pc = "cognified" /\ ~AcceptsCognify(result)
  /\ pc' = "failed"
  /\ UNCHANGED <<groupOf, todo, known, materialized, stored, processed, result>>

\* An SDK call may also raise, before or after it did its work.
Fail ==
  /\ pc \in {"adding", "added", "resolving", "returned", "cognified"}
  /\ pc' = "failed"
  /\ result' = Nothing
  /\ UNCHANGED <<groupOf, todo, known, materialized, stored, processed>>

Next ==
  \/ Begin \/ \E g \in Groups : Add(g)
  \/ AcceptGroup \/ LearnDataset \/ Cognify \/ AcceptCognify
  \/ RejectResult \/ Fail

Spec == Init /\ [][Next]_vars

-----------------------------------------------------------------------------
(* Properties                                                              *)

\* add_documents passes a group, and returns, only when Cognee holds all its
\* payloads in a dataset whose id the handle now has; cognify_dataset returns
\* only when all of them are processed: no false success (ADR-0003).
NoFalseSuccess ==
  /\ pc \in {"adding", "added", "resolving"} =>
       \A i \in Items : groupOf[i] \notin todo => i \in stored
  /\ pc \in {"returned", "cognified", "complete"} => stored = Items /\ known
  /\ pc = "complete" => processed = Items

\* Cognee's regular answers to add and to cognify.
RegularAdd ==
  LET n == Cardinality(Members(result.group))
      plain == {OwnRun(type, Nothing) : type \in Success}
  IN  result.run \in {OwnRun(type, info) :
                        type \in Success, info \in [1..n -> plain]}

RegularCognify ==
  result \in {[d \in {Requested} |-> OwnRun(type, Nothing)] : type \in Success}

\* A regular answer is never rejected, or the documents it tells of would be
\* retried for ever.
NoFalseFailure ==
  [][RejectResult => CASE pc = "added" -> ~RegularAdd
                       [] pc = "cognified" -> ~RegularCognify]_vars
=============================================================================
