----------------------------- MODULE DatasetLock -----------------------------
(***************************************************************************)
(* What a LockProvider promises for one scope (the LockProvider protocol   *)
(* and CogneeRuntime.dataset_lock): tasks ask for the lock, may give       *)
(* up while they wait, and at most one is inside at a time.                *)
(***************************************************************************)
CONSTANT Tasks

VARIABLE status  \* task -> "out", "waiting" or "in"

LockInit == status = [t \in Tasks |-> "out"]

Free == \A t \in Tasks : status[t] # "in"

Request(t) ==
    /\ status[t] = "out"
    /\ status' = [status EXCEPT ![t] = "waiting"]

Enter(t) ==
    /\ status[t] = "waiting"
    /\ Free
    /\ status' = [status EXCEPT ![t] = "in"]

(* asyncio.Lock grants a free lock to a caller without suspending it. *)
RequestAndEnter(t) ==
    /\ status[t] = "out"
    /\ Free
    /\ status' = [status EXCEPT ![t] = "in"]

(* A timeout, a cancellation or a crash. *)
GiveUp(t) ==
    /\ status[t] = "waiting"
    /\ status' = [status EXCEPT ![t] = "out"]

Leave(t) ==
    /\ status[t] = "in"
    /\ status' = [status EXCEPT ![t] = "out"]

LockNext ==
    \E t \in Tasks :
        Request(t) \/ Enter(t) \/ RequestAndEnter(t) \/ GiveUp(t) \/ Leave(t)

LockSpec == LockInit /\ [][LockNext]_status

(* At most one task is inside. *)
MutualExclusion ==
    \A t, u \in Tasks : (status[t] = "in" /\ status[u] = "in") => t = u

=============================================================================
