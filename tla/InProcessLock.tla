---------------------------- MODULE InProcessLock ----------------------------
(***************************************************************************)
(* InProcessLockProvider for one scope: the dictionary entry that tasks    *)
(* share, its count of users, and the asyncio.Lock inside it.              *)
(*                                                                         *)
(* A task runs without interruption from one await to the next, and the    *)
(* only await is the one on the waiter's future inside Lock.acquire.  A    *)
(* timeout or a cancellation may come before or after that future is       *)
(* resolved; the task finds out when it runs again.                        *)
(***************************************************************************)
EXTENDS Naturals, FiniteSets, SequencesExt

CONSTANTS
    Tasks,   \* callers of lock(scope)
    Entries, \* _LockEntry objects
    NoEntry  \* the scope has no entry

ASSUME EntriesAssumption ==
    /\ NoEntry \notin Entries
    /\ IsFiniteSet(Tasks) /\ IsFiniteSet(Entries)
    /\ Cardinality(Entries) >= Cardinality(Tasks)

VARIABLES
    mapped,  \* self._locks.get(scope)
    users,   \* entry -> entry.users
    locked,  \* entry -> asyncio.Lock._locked
    waiters, \* entry -> asyncio.Lock._waiters, as the tasks that wait
    pc,      \* task -> "out", "queued" (in acquire) or "in" (the body)
    entry,   \* task -> the entry it refers to
    future   \* task -> its waiter: "pending", "resolved", "cancelled" or,
             \* when the cancellation came after the wakeup, "both"

vars == <<mapped, users, locked, waiters, pc, entry, future>>

(* The types: in particular an entry never counts more users than there are
   tasks, nor fewer than none (_locks.py 63, 80). *)
TypeOK ==
    /\ mapped \in Entries \cup {NoEntry}
    /\ users \in [Entries -> 0 .. Cardinality(Tasks)]
    /\ locked \in [Entries -> BOOLEAN]
    /\ waiters \in [Entries -> Seq(Tasks)]
    /\ pc \in [Tasks -> {"out", "queued", "in"}]
    /\ entry \in [Tasks -> Entries \cup {NoEntry}]
    /\ future \in [Tasks -> {"pending", "resolved", "cancelled", "both"}]

Init ==
    /\ mapped = NoEntry
    /\ users = [e \in Entries |-> 0]
    /\ locked = [e \in Entries |-> FALSE]
    /\ waiters = [e \in Entries |-> <<>>]
    /\ pc = [t \in Tasks |-> "out"]
    /\ entry = [t \in Tasks |-> NoEntry]
    /\ future = [t \in Tasks |-> "pending"]

-----------------------------------------------------------------------------
(* asyncio.Lock *)

(* Faulty variant: a newcomer overtakes the waiter that was just woken. *)
CanTakeUnlocked(e) == ~locked[e]

(* The fast path of acquire: free, and nobody alive in the queue. *)
CanTake(e) ==
    /\ ~locked[e]
    /\ \A t \in Range(waiters[e]) : future[t] = "cancelled"

(* _wake_up_first over the queue q: resolve the head, unless it is done. *)
WakeUpFirst(q) ==
    IF q # <<>> /\ future[Head(q)] = "pending"
    THEN [future EXCEPT ![Head(q)] = "resolved"]
    ELSE future

-----------------------------------------------------------------------------
(* _lock *)

(* The references that a task still has to an entry, itself left out. *)
Referring(t, e) == {u \in Tasks \ {t} : entry[u] = e}

(* setdefault: the scope's entry, or a fresh one that nothing refers to. *)
EntryFor(t, e) ==
    IF mapped # NoEntry THEN e = mapped ELSE Referring(t, e) = {}

(* Faulty variant: the entry goes as soon as nobody holds its lock. *)
DropEntryWhenFree(t) ==
    /\ users' = [users EXCEPT ![entry[t]] = @ - 1]
    /\ mapped' = IF ~locked'[entry[t]] /\ mapped = entry[t]
                 THEN NoEntry ELSE mapped
    /\ entry' = [entry EXCEPT ![t] = NoEntry]
    /\ pc' = [pc EXCEPT ![t] = "out"]

(* Faulty variant: the count is not taken back. *)
DropEntryKeepingCount(t) ==
    /\ users' = users
    /\ mapped' = mapped
    /\ entry' = [entry EXCEPT ![t] = NoEntry]
    /\ pc' = [pc EXCEPT ![t] = "out"]

(* The outer finally: one user less; the last one removes the entry. *)
DropEntry(t) ==
    /\ users' = [users EXCEPT ![entry[t]] = @ - 1]
    /\ mapped' = IF users[entry[t]] = 1 /\ mapped = entry[t]
                 THEN NoEntry ELSE mapped
    /\ entry' = [entry EXCEPT ![t] = NoEntry]
    /\ pc' = [pc EXCEPT ![t] = "out"]

(* Up to the first await: the lock is taken at once, or the task queues. *)
Call(t) ==
    /\ pc[t] = "out"
    /\ \E e \in Entries :
         /\ EntryFor(t, e)
         /\ mapped' = e
         /\ entry' = [entry EXCEPT ![t] = e]
         /\ users' = [users EXCEPT ![e] = @ + 1]
         /\ IF CanTake(e)
            THEN /\ locked' = [locked EXCEPT ![e] = TRUE]
                 /\ pc' = [pc EXCEPT ![t] = "in"]
                 /\ UNCHANGED <<waiters, future>>
            ELSE /\ waiters' = [waiters EXCEPT ![e] = Append(@, t)]
                 /\ future' = [future EXCEPT ![t] = "pending"]
                 /\ pc' = [pc EXCEPT ![t] = "queued"]
                 /\ UNCHANGED locked

(* asyncio.timeout expires, or somebody cancels the task. *)
Cancel(t) ==
    /\ pc[t] = "queued"
    /\ future[t] \in {"pending", "resolved"}
    /\ future' = [future EXCEPT ![t] =
                    IF @ = "pending" THEN "cancelled" ELSE "both"]
    /\ UNCHANGED <<mapped, users, locked, waiters, pc, entry>>

(* The awaited future gave a result: the task takes the lock. *)
Acquired(t) ==
    /\ pc[t] = "queued"
    /\ future[t] = "resolved"
    /\ waiters' = [waiters EXCEPT ![entry[t]] = RemoveFirst(@, t)]
    /\ locked' = [locked EXCEPT ![entry[t]] = TRUE]
    /\ pc' = [pc EXCEPT ![t] = "in"]
    /\ UNCHANGED <<mapped, users, entry, future>>

(* Faulty variant: a cancelled waiter keeps the wakeup it was given. *)
GiveUpSilently(t) ==
    /\ pc[t] = "queued"
    /\ future[t] \in {"cancelled", "both"}
    /\ waiters' = [waiters EXCEPT ![entry[t]] = RemoveFirst(@, t)]
    /\ future' = [future EXCEPT ![t] = "pending"]
    /\ UNCHANGED locked
    /\ DropEntry(t)

(* The await raised: pass the wakeup on if the lock is free, and leave. *)
GiveUp(t) ==
    /\ pc[t] = "queued"
    /\ future[t] \in {"cancelled", "both"}
    /\ LET q == RemoveFirst(waiters[entry[t]], t) IN
         /\ waiters' = [waiters EXCEPT ![entry[t]] = q]
         /\ future' = [IF locked[entry[t]] THEN future ELSE WakeUpFirst(q)
                         EXCEPT ![t] = "pending"]
    /\ UNCHANGED locked
    /\ DropEntry(t)

(* The body ends, in whatever way: release and drop the entry. *)
Exit(t) ==
    /\ pc[t] = "in"
    /\ locked' = [locked EXCEPT ![entry[t]] = FALSE]
    /\ future' = [WakeUpFirst(waiters[entry[t]]) EXCEPT ![t] = "pending"]
    /\ UNCHANGED waiters
    /\ DropEntry(t)

Next == \E t \in Tasks :
    Call(t) \/ Cancel(t) \/ Acquired(t) \/ GiveUp(t) \/ Exit(t)

Spec == Init /\ [][Next]_vars

(* The event loop runs every task that is ready, and a body ends. *)
Fairness ==
    \A t \in Tasks : WF_vars(Acquired(t) \/ GiveUp(t)) /\ WF_vars(Exit(t))

LiveSpec == Spec /\ Fairness

-----------------------------------------------------------------------------
Status == [t \in Tasks |-> CASE pc[t] = "out"    -> "out"
                             [] pc[t] = "queued" -> "waiting"
                             [] pc[t] = "in"     -> "in"]

Contract == INSTANCE DatasetLock WITH status <- Status

(* The provider implements the lock contract: whatever entries are created
   and dropped meanwhile, two tasks are never inside (_locks.py 61-82). *)
ImplementsContract == Contract!LockSpec

(* The tasks of a scope share one entry, its count is the number of tasks
   that use it, and the dictionary keeps no entry that nobody uses
   (_locks.py 62, 80-82). *)
OneEntry ==
    /\ \A t \in Tasks : pc[t] # "out" => entry[t] = mapped
    /\ \A e \in Entries : users[e] = Cardinality({t \in Tasks : entry[t] = e})
    /\ mapped # NoEntry => users[mapped] > 0

(* No lost wakeup: while the lock is free and somebody waits, some waiter is
   about to run, although timeouts race with the handoff (_locks.py 66-74). *)
NoLostWakeup ==
    \A e \in Entries : (~locked[e] /\ waiters[e] # <<>>) =>
        \E t \in Range(waiters[e]) : future[t] # "pending"

(* First come, first served: a task that gets in leaves behind no earlier
   waiter that is still interested. *)
InOrder ==
    [][\A t \in Tasks : (pc[t] # "in" /\ pc'[t] = "in") =>
         \A u \in Tasks \ {t} :
           (/\ pc[u] = "queued" /\ future[u] \in {"pending", "resolved"}
            /\ entry[u] = mapped) =>
              /\ pc[t] = "queued"
              /\ \E i, j \in 1 .. Len(waiters[mapped]) :
                   /\ i < j
                   /\ waiters[mapped][i] = t /\ waiters[mapped][j] = u]_vars

(* Every waiter gets the lock, or its timeout (_locks.py 65-74). *)
WaitersServed == \A t \in Tasks : (pc[t] = "queued") ~> (pc[t] # "queued")

=============================================================================
