---------------------------- MODULE DatasetAccess ----------------------------
(***************************************************************************)
(* What the callers of a dataset lock promise: DatasetLock's protocol, and *)
(* the dataset itself.  A task changes the dataset inside the lock or not  *)
(* at all; it may leave in the step of its last change.                    *)
(***************************************************************************)
EXTENDS DatasetLock

VARIABLE rows  \* what the lock protects

Access(t) ==
    /\ status[t] = "in"
    /\ status' \in {status, [status EXCEPT ![t] = "out"]}

AccessNext ==
    \/ LockNext /\ UNCHANGED rows
    \/ \E t \in Tasks : Access(t)

AccessSpec == LockInit /\ [][AccessNext]_<<status, rows>>

=============================================================================
