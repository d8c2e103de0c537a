--------------------------- MODULE DocumentSyncInv ---------------------------
(***************************************************************************)
(* The inductive invariant behind DocumentSync's safety properties, in     *)
(* named parts.  The idea: a key's entry is either settled, and then its   *)
(* row is intact, or unsettled, and then reconcile will never trust it and *)
(* every batch over it leaves it unsettled until the commit.               *)
(***************************************************************************)
EXTENDS DocumentSync

InFlight(k) == owner[k] # Nobody

(* The possible records differ in nothing but the label, and none of them
   may be missing: the only entries over which reconcile picks
   update_metadata or does nothing. *)
Settled(k) ==
    /\ ~MayBeMissing(k)
    /\ \A r, s \in PrevRecords(k) : SameDerivatives(r, s) /\ r.weight = s.weight

(* The row of record r, processed under r's configuration; the label and the
   weight are left out. *)
Intact(k, r) ==
    /\ store[<<k, r.identity>>] # NoRow
    /\ store[<<k, r.identity>>].content = r.content
    /\ store[<<k, r.identity>>].annotations = r.annotations
    /\ store[<<k, r.identity>>].complete
    /\ store[<<k, r.identity>>].derived = {Fragment(r, r.processing)}

TargetId(k) == <<k, plan[k].target.identity>>

Rebuild == {"upsert", "replace", "recreate"}

(* What the type of an added row rests on: only writes carry a payload. *)
PayloadInv ==
    \A w \in Workers :
        /\ \A k \in Keys, i \in Identities :
             <<k, i>> \in payloads[w] =>
                 owner[k] = w /\ plan[k].target # NonExistence
        /\ pc[w] \in {"idle", "applied"} => payloads[w] = {}

(* One batch at a time is in its phases, and the lock is taken just then. *)
MutexInv ==
    /\ \A v, w \in Workers : (pc[v] = "applying" /\ pc[w] = "applying") => v = w
    /\ locked <=> \E w \in Workers : pc[w] = "applying"

(* A key's plan, its owner and its entry agree. *)
PlanInv(k) ==
    /\ ~InFlight(k) => plan[k] = IdlePlan
    /\ InFlight(k) =>
         /\ pc[owner[k]] # "idle"
         /\ plan[k].op # "none"
         /\ plan[k].target \in tracking[k].states
         /\ (plan[k].op = "delete") <=> (plan[k].target = NonExistence)
         /\ plan[k].op # "delete" =>
              /\ plan[k].target.identity = config.identity
              /\ plan[k].target.processing = config.processing
         /\ (plan[k].op = "update_metadata") <=> Settled(k)

(* A batch works on ids of its own keys, and on nothing once it is over. *)
BatchInv ==
    \A w \in Workers :
        /\ \A k \in Keys, i \in Identities :
             /\ <<k, i>> \in delete_ids[w] => owner[k] = w
             /\ <<k, i>> \in delete_ids[w] => plan[k].op # "update_metadata"
             /\ <<k, i>> \in purge_ids[w] =>
                  /\ owner[k] = w
                  /\ plan[k].op = "replace"
                  /\ i = plan[k].target.identity
             /\ <<k, i>> \in payloads[w] =>
                  /\ owner[k] = w
                  /\ plan[k].op # "delete"
                  /\ i = plan[k].target.identity
        /\ pc[w] \in {"idle", "applied"} =>
             /\ delete_ids[w] = {} /\ purge_ids[w] = {} /\ payloads[w] = {}

(* Every row is named by a possible record that has the row's weight. *)
RowsInv(k) ==
    \A i \in Identities :
        store[<<k, i>>] # NoRow =>
            \E r \in PrevRecords(k) :
                r.identity = i /\ r.weight = store[<<k, i>>].weight

(* What an entry that is settled promises. *)
SettledInv(k) ==
    /\ tracking[k].states = {} => tracking[k].missing
    /\ Settled(k) => \A r \in PrevRecords(k) : Intact(k, r)
    /\ \A r \in PrevRecords(k) :
         (tracking[k].states = {r} /\ ~tracking[k].missing) =>
             store[<<k, r.identity>>].label = r.label

(* Rows under ids other than the target are waiting to be deleted. *)
OthersGoing(k) ==
    \A i \in Identities :
        store[<<k, i>>] # NoRow =>
            \/ <<k, i>> \in delete_ids[owner[k]]
            \/ plan[k].op # "delete" /\ i = plan[k].target.identity

(* The target row, if it survives the deletes, has the intended weight. *)
WeightReady(k) ==
    (store[TargetId(k)] # NoRow /\ TargetId(k) \notin delete_ids[owner[k]]) =>
        store[TargetId(k)].weight = plan[k].target.weight

(* Before the lock is held, the phases that the op needs are all ahead. *)
NotStarted(k) ==
    pc[owner[k]] = "waiting" =>
        /\ TargetId(k) \in payloads[owner[k]]
        /\ plan[k].op = "recreate" => TargetId(k) \in delete_ids[owner[k]]
        /\ plan[k].op = "replace" => TargetId(k) \in purge_ids[owner[k]]
        /\ plan[k].op = "upsert" => store[TargetId(k)] = NoRow

(* A rebuilt row past its purge or delete, and before its add, is bare. *)
BareBeforeAdd(k) ==
    (/\ plan[k].op \in Rebuild
     /\ TargetId(k) \in payloads[owner[k]]
     /\ TargetId(k) \notin delete_ids[owner[k]]
     /\ TargetId(k) \notin purge_ids[owner[k]]) =>
        \/ store[TargetId(k)] = NoRow
        \/ /\ store[TargetId(k)].derived = {}
           /\ ~store[TargetId(k)].complete

(* Once added, the row is the target's, and has no derivative but its own. *)
WrittenAfterAdd(k) ==
    TargetId(k) \notin payloads[owner[k]] =>
        /\ delete_ids[owner[k]] = {} /\ purge_ids[owner[k]] = {}
        /\ store[TargetId(k)] # NoRow
        /\ store[TargetId(k)].content = plan[k].target.content
        /\ store[TargetId(k)].label = plan[k].target.label
        /\ store[TargetId(k)].annotations = plan[k].target.annotations
        /\ store[TargetId(k)].derived =
             IF store[TargetId(k)].complete
             THEN {Fragment(plan[k].target, plan[k].target.processing)}
             ELSE {}

(* The batch will not end before its rebuilt rows are processed. *)
CognifyAhead(k) ==
    plan[k].op \in Rebuild =>
        IF pc[owner[k]] = "applied" THEN store[TargetId(k)].complete
        ELSE needs_cognify[owner[k]]

FlightInv(k) ==
    InFlight(k) =>
        /\ OthersGoing(k)
        /\ plan[k].op # "delete" =>
             /\ WeightReady(k)
             /\ NotStarted(k)
             /\ BareBeforeAdd(k)
             /\ WrittenAfterAdd(k)
             /\ CognifyAhead(k)

KeyInv(k) == PlanInv(k) /\ RowsInv(k) /\ SettledInv(k) /\ FlightInv(k)

(* The inductive invariant of DocumentSync.  It implies
   CommittedIsExact, RowsAreTracked, AppliedIsExact,
   MetadataUpdateKeepsDerivatives and FixedPointIsConverged. *)
IInv ==
    /\ TypeOK
    /\ MutexInv
    /\ BatchInv
    /\ \A k \in Keys : KeyInv(k)

=============================================================================
