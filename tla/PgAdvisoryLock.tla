---------------------------- MODULE PgAdvisoryLock ----------------------------
(***************************************************************************)
(* PostgresAdvisoryLockProvider for one advisory key: tasks of any number  *)
(* of processes, the sessions they open, and the server that holds the     *)
(* lock for a session.                                                     *)
(*                                                                         *)
(* A statement is sent, executed and answered in three steps, so that a    *)
(* timeout, a cancellation or a crash of the client finds it anywhere.  A  *)
(* session outlives its client until the server notices.                   *)
(***************************************************************************)
CONSTANTS
    Tasks,           \* callers of lock(scope)
    Sessions,        \* server sessions
    NoSession,       \* no session
    SessionsMayDrop  \* TRUE: a session may end while its client lives

ASSUME PgAssumption ==
    /\ NoSession \notin Sessions
    /\ SessionsMayDrop \in BOOLEAN

VARIABLES
    pc,        \* task -> where it is in _lock
    conn,      \* task -> the session of its connection
    alive,     \* the sessions the server knows
    statement, \* session -> the statement sent or answered
    holder     \* the session that holds the advisory lock

vars == <<pc, conn, alive, statement, holder>>

Places == {"out", "connecting", "polling", "trying", "in", "unlocking",
           "closing"}

(* A statement and what became of it. *)
Statements == {"none", "try", "granted", "refused", "unlock", "unlocked"}

(* The types: in particular no lock outlives its session. *)
TypeOK ==
    /\ pc \in [Tasks -> Places]
    /\ conn \in [Tasks -> Sessions \cup {NoSession}]
    /\ alive \subseteq Sessions
    /\ statement \in [Sessions -> Statements]
    /\ holder \in alive \cup {NoSession}

Init ==
    /\ pc = [t \in Tasks |-> "out"]
    /\ conn = [t \in Tasks |-> NoSession]
    /\ alive = {}
    /\ statement = [s \in Sessions |-> "none"]
    /\ holder = NoSession

Go(t, from, to) ==
    /\ pc[t] \in from
    /\ pc' = [pc EXCEPT ![t] = to]

-----------------------------------------------------------------------------
(* The client: _lock and _acquire. *)

Call(t) ==
    /\ Go(t, {"out"}, "connecting")
    /\ UNCHANGED <<conn, alive, statement, holder>>

(* asyncpg.connect returns a connection with a session of its own. *)
Connect(t) ==
    /\ Go(t, {"connecting"}, "polling")
    /\ \E s \in Sessions \ alive :
         /\ \A u \in Tasks : conn[u] # s
         /\ conn' = [conn EXCEPT ![t] = s]
         /\ alive' = alive \cup {s}
         /\ statement' = [statement EXCEPT ![s] = "none"]
    /\ UNCHANGED holder

(* The deadline or an error ends the connection attempt. *)
ConnectFails(t) ==
    /\ Go(t, {"connecting"}, "out")
    /\ UNCHANGED <<conn, alive, statement, holder>>

(* SELECT pg_try_advisory_lock *)
SendTry(t) ==
    /\ Go(t, {"polling"}, "trying")
    /\ conn[t] \in alive
    /\ statement' = [statement EXCEPT ![conn[t]] = "try"]
    /\ UNCHANGED <<conn, alive, holder>>

(* Faulty variant: the answer is not looked at. *)
ReceiveAnything(t) ==
    /\ Go(t, {"trying"}, "in")
    /\ statement[conn[t]] \in {"granted", "refused"}
    /\ statement' = [statement EXCEPT ![conn[t]] = "none"]
    /\ UNCHANGED <<conn, alive, holder>>

ReceiveGrant(t) ==
    /\ Go(t, {"trying"}, "in")
    /\ statement[conn[t]] = "granted"
    /\ statement' = [statement EXCEPT ![conn[t]] = "none"]
    /\ UNCHANGED <<conn, alive, holder>>

(* Sleep for the poll interval and try again. *)
ReceiveRefusal(t) ==
    /\ Go(t, {"trying"}, "polling")
    /\ statement[conn[t]] = "refused"
    /\ statement' = [statement EXCEPT ![conn[t]] = "none"]
    /\ UNCHANGED <<conn, alive, holder>>

(* The deadline, a cancellation or an error while polling: lock_acquired is
   FALSE, whatever the server is about to answer, so nothing is unlocked. *)
GiveUp(t) ==
    /\ Go(t, {"polling", "trying"}, "closing")
    /\ UNCHANGED <<conn, alive, statement, holder>>

(* The body ends in whatever way, and the finally clause unlocks. *)
EndBody(t) ==
    /\ Go(t, {"in"}, "unlocking")
    /\ statement' = IF conn[t] \in alive
                    THEN [statement EXCEPT ![conn[t]] = "unlock"]
                    ELSE statement
    /\ UNCHANGED <<conn, alive, holder>>

(* The unlock returned, failed, or was cancelled: the error is kept. *)
EndUnlock(t) ==
    /\ Go(t, {"unlocking"}, "closing")
    /\ UNCHANGED <<conn, alive, statement, holder>>

(* Faulty variant: the lock outlives its session. *)
EndSessionKeepingLock(s, answer) ==
    /\ alive' = alive \ {s}
    /\ statement' = [statement EXCEPT ![s] = answer]
    /\ holder' = holder

(* What the end of session s leaves: no lock, and an answer on its way. *)
EndSession(s, answer) ==
    /\ alive' = alive \ {s}
    /\ statement' = [statement EXCEPT ![s] = answer]
    /\ holder' = IF holder = s THEN NoSession ELSE holder

(* Faulty variant: the connection is kept open for a later call. *)
KeepConnection(t) ==
    /\ Go(t, {"closing"}, "out")
    /\ UNCHANGED <<conn, alive, statement, holder>>

(* conn.close() ends the session. *)
Close(t) ==
    /\ Go(t, {"closing"}, "out")
    /\ conn' = [conn EXCEPT ![t] = NoSession]
    /\ EndSession(conn[t], "none")

(* conn.close() failed, or the process died: the session is left behind. *)
Vanish(t) ==
    /\ Go(t, Places \ {"out"}, "out")
    /\ conn' = [conn EXCEPT ![t] = NoSession]
    /\ UNCHANGED <<alive, statement, holder>>

-----------------------------------------------------------------------------
(* The server. *)

ExecuteTry(s) ==
    /\ s \in alive
    /\ statement[s] = "try"
    /\ \/ /\ holder \in {NoSession, s}
          /\ statement' = [statement EXCEPT ![s] = "granted"]
          /\ holder' = s
       \/ /\ holder \notin {NoSession, s}
          /\ statement' = [statement EXCEPT ![s] = "refused"]
          /\ UNCHANGED holder
    /\ UNCHANGED <<pc, conn, alive>>

ExecuteUnlock(s) ==
    /\ s \in alive
    /\ statement[s] = "unlock"
    /\ statement' = [statement EXCEPT ![s] = "unlocked"]
    /\ holder' = IF holder = s THEN NoSession ELSE holder
    /\ UNCHANGED <<pc, conn, alive>>

(* The server notices that the client of a session is gone. *)
Reap(s) ==
    /\ s \in alive
    /\ \A t \in Tasks : conn[t] # s
    /\ EndSession(s, "none")
    /\ UNCHANGED <<pc, conn>>

(* The session ends under a living client: a lost connection, a restart of
   the server, pg_terminate_backend.  The client may still read an answer
   that was sent before. *)
Drop(s) ==
    /\ SessionsMayDrop
    /\ s \in alive
    /\ EndSession(s, statement[s])
    /\ UNCHANGED <<pc, conn>>

Next ==
    \/ \E t \in Tasks :
         \/ Call(t) \/ Connect(t) \/ ConnectFails(t)
         \/ SendTry(t) \/ ReceiveGrant(t) \/ ReceiveRefusal(t) \/ GiveUp(t)
         \/ EndBody(t) \/ EndUnlock(t) \/ Close(t) \/ Vanish(t)
    \/ \E s \in Sessions :
         ExecuteTry(s) \/ ExecuteUnlock(s) \/ Reap(s) \/ Drop(s)

Spec == Init /\ [][Next]_vars

(* An answer is read, a body ends, cleanup runs on, and the server notices
   the clients it has lost.  Nothing is assumed of calls, of retries or of
   the order in which the server serves its sessions. *)
Fairness ==
    /\ \A t \in Tasks :
         WF_vars(ReceiveGrant(t) \/ EndBody(t) \/ EndUnlock(t) \/ Close(t))
    /\ \A s \in Sessions : WF_vars(Reap(s))

LiveSpec == Spec /\ Fairness

-----------------------------------------------------------------------------
(* A task is inside while its body runs and its session is there. *)
Status == [t \in Tasks |->
             CASE pc[t] \in {"connecting", "polling", "trying"} -> "waiting"
               [] pc[t] = "in" /\ conn[t] \in alive             -> "in"
               [] OTHER                                         -> "out"]

Contract == INSTANCE DatasetLock WITH status <- Status

(* The provider implements the lock contract, wherever a timeout, a
   cancellation, a crash or the end of a session finds a statement: a session
   that ends takes its task out of the scope (_locks_postgres.py 75-137). *)
ImplementsContract == Contract!LockSpec

(* A task in the body holds the lock through its own session for as long as
   the session lasts: no late grant, cleanup or crash of another task takes it
   away (_locks_postgres.py 92-117). *)
HeldThroughout ==
    \A t \in Tasks : pc[t] = "in" /\ conn[t] \in alive => holder = conn[t]

(* Every grant is given back, also the one that comes after its caller has
   timed out and will not unlock (_locks_postgres.py 106-119). *)
NothingStranded == \A s \in Sessions : (holder = s) ~> (holder # s)

(* Two bodies never run in the same scope: "locks are held for the duration of
   one document batch or one teardown" (docs/adr/0006 46). *)
OneInside == \A t, u \in Tasks : pc[t] = "in" /\ pc[u] = "in" => t = u

=============================================================================
