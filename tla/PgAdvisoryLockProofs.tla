------------------------- MODULE PgAdvisoryLockProofs -------------------------
(***************************************************************************)
(* PgAdvisoryLock implements the lock contract for any number of tasks and *)
(* sessions; and as long as no session ends under a living client, no two  *)
(* bodies run together.                                                    *)
(***************************************************************************)
EXTENDS PgAdvisoryLock, TLAPS

(* The tasks that have a connection. *)
Connected(t) == pc[t] \in Places \ {"out", "connecting"}

(* A grant that nobody has read yet is already the server's grant, and a
   body runs over a session with no statement under way. *)
LockInv ==
    /\ \A t \in Tasks : Connected(t) <=> conn[t] # NoSession
    /\ \A t, u \in Tasks : (conn[t] = conn[u] /\ conn[t] # NoSession) => t = u
    /\ \A t \in Tasks : pc[t] = "in" /\ conn[t] \in alive =>
         holder = conn[t] /\ statement[conn[t]] = "none"
    /\ \A s \in alive : statement[s] = "granted" => holder = s

LEMMA PgTypeInit == Init => TypeOK
BY DEF Init, TypeOK, Places, Statements

LEMMA PgTypeStep == TypeOK /\ [Next]_vars => TypeOK'
<1> SUFFICES ASSUME TypeOK, [Next]_vars PROVE TypeOK'
  OBVIOUS
<1> USE DEF TypeOK, Go, Places, Statements
<1>1. ASSUME NEW t \in Tasks,
             \/ Call(t) \/ Connect(t) \/ ConnectFails(t)
             \/ SendTry(t) \/ ReceiveGrant(t) \/ ReceiveRefusal(t)
      PROVE  TypeOK'
  BY <1>1 DEF Call, Connect, ConnectFails, SendTry, ReceiveGrant,
              ReceiveRefusal
<1>2. ASSUME NEW t \in Tasks,
             \/ GiveUp(t) \/ EndBody(t) \/ EndUnlock(t) \/ Vanish(t)
      PROVE  TypeOK'
  BY <1>2 DEF GiveUp, EndBody, EndUnlock, Vanish
<1>3. ASSUME NEW t \in Tasks, Close(t) PROVE TypeOK'
  BY <1>3 DEF Close, EndSession
<1>4. ASSUME NEW s \in Sessions,
             ExecuteTry(s) \/ ExecuteUnlock(s) \/ Reap(s) \/ Drop(s)
      PROVE  TypeOK'
  BY <1>4 DEF ExecuteTry, ExecuteUnlock, Reap, Drop, EndSession
<1>5. CASE UNCHANGED vars
  BY <1>5 DEF vars
<1> QED BY <1>1, <1>2, <1>3, <1>4, <1>5 DEF Next

(* Sessions end under living clients or not: the types hold, and with them
   "no lock outlives its session" (docs/adr/0006). *)
THEOREM PgTypeCorrect == Spec => []TypeOK
BY PgTypeInit, PgTypeStep, PTL DEF Spec

LEMMA LockInvStep ==
    ASSUME TypeOK, LockInv, [Next]_vars
    PROVE  LockInv'
<1> USE PgAssumption DEF TypeOK, Go, Places, Statements, Connected, LockInv
<1>1. ASSUME NEW t \in Tasks, Call(t) PROVE LockInv'
  BY <1>1 DEF Call
<1>2. ASSUME NEW t \in Tasks, Connect(t) PROVE LockInv'
  BY <1>2 DEF Connect
<1>3. ASSUME NEW t \in Tasks, ConnectFails(t) PROVE LockInv'
  BY <1>3 DEF ConnectFails
<1>4. ASSUME NEW t \in Tasks, SendTry(t) PROVE LockInv'
  BY <1>4 DEF SendTry
<1>5. ASSUME NEW t \in Tasks, ReceiveGrant(t) \/ ReceiveRefusal(t)
      PROVE  LockInv'
  BY <1>5 DEF ReceiveGrant, ReceiveRefusal
<1>6. ASSUME NEW t \in Tasks, GiveUp(t) \/ EndUnlock(t) \/ Vanish(t)
      PROVE  LockInv'
  BY <1>6 DEF GiveUp, EndUnlock, Vanish
<1>7. ASSUME NEW t \in Tasks, EndBody(t) PROVE LockInv'
  BY <1>7 DEF EndBody
<1>8. ASSUME NEW t \in Tasks, Close(t) PROVE LockInv'
  BY <1>8 DEF Close, EndSession
<1>9. ASSUME NEW s \in Sessions, ExecuteTry(s) PROVE LockInv'
  BY <1>9 DEF ExecuteTry
<1>10. ASSUME NEW s \in Sessions, ExecuteUnlock(s) PROVE LockInv'
  BY <1>10 DEF ExecuteUnlock
<1>11. ASSUME NEW s \in Sessions, Reap(s) PROVE LockInv'
  BY <1>11 DEF Reap, EndSession
<1>12. ASSUME NEW s \in Sessions, Drop(s) PROVE LockInv'
  BY <1>12 DEF Drop, EndSession
<1>13. CASE UNCHANGED vars
  BY <1>13 DEF vars
<1> QED
  BY <1>1, <1>2, <1>3, <1>4, <1>5, <1>6, <1>7, <1>8, <1>9, <1>10, <1>11,
     <1>12, <1>13 DEF Next

LEMMA LockInvHolds == Spec => [](TypeOK /\ LockInv)
<1>1. Init => TypeOK /\ LockInv
  BY PgTypeInit DEF Init, LockInv, Connected, Places
<1>2. TypeOK /\ LockInv /\ [Next]_vars => (TypeOK /\ LockInv)'
  BY PgTypeStep, LockInvStep
<1> QED BY <1>1, <1>2, PTL DEF Spec

(* A task in the body holds the lock through its own session, whatever
   becomes of the other tasks' calls (_locks_postgres.py 92-117). *)
THEOREM PgHeld == Spec => []HeldThroughout
<1>1. LockInv => HeldThroughout
  BY DEF LockInv, HeldThroughout
<1> QED BY <1>1, LockInvHolds, PTL

(* No two bodies run together, as long as sessions do not end under them
   (_locks_postgres.py 1-6, 105-114). *)
THEOREM PgOneInside ==
    ASSUME ~SessionsMayDrop
    PROVE  Spec => []OneInside
<1> DEFINE Lasts == \A t \in Tasks : conn[t] # NoSession => conn[t] \in alive
<1> DEFINE Inv == TypeOK /\ LockInv /\ Lasts
<1>1. Init => Inv
  BY PgTypeInit DEF Init, LockInv, Connected, Places
<1>2. Inv /\ [Next]_vars => Inv'
  <2> SUFFICES ASSUME Inv, [Next]_vars PROVE Inv'
    OBVIOUS
  <2>1. TypeOK' /\ LockInv'
    BY PgTypeStep, LockInvStep
  <2>2. ASSUME NEW t \in Tasks, Close(t) PROVE Lasts'
    BY <2>2, PgAssumption DEF Close, EndSession, LockInv, Connected, Go,
       Places, TypeOK
  <2>3. ASSUME NEW t \in Tasks, Connect(t) \/ Vanish(t) PROVE Lasts'
    BY <2>3 DEF Connect, Vanish, TypeOK
  <2>4. ASSUME NEW s \in Sessions, Reap(s) PROVE Lasts'
    BY <2>4 DEF Reap, EndSession
  <2>5. ASSUME UNCHANGED <<conn, alive>> PROVE Lasts'
    BY <2>5
  <2>6. ASSUME NEW t \in Tasks,
               \/ Call(t) \/ ConnectFails(t) \/ SendTry(t) \/ ReceiveGrant(t)
               \/ ReceiveRefusal(t) \/ GiveUp(t) \/ EndBody(t) \/ EndUnlock(t)
        PROVE  UNCHANGED <<conn, alive>>
    BY <2>6 DEF Call, ConnectFails, SendTry, ReceiveGrant, ReceiveRefusal,
       GiveUp, EndBody, EndUnlock
  <2>7. ASSUME NEW s \in Sessions, ExecuteTry(s) \/ ExecuteUnlock(s) \/ Drop(s)
        PROVE  UNCHANGED <<conn, alive>>
    BY <2>7 DEF ExecuteTry, ExecuteUnlock, Drop
  <2>8. ASSUME UNCHANGED vars PROVE Lasts'
    BY <2>5, <2>8 DEF vars
  <2> HIDE DEF Lasts
  <2>9. Lasts'
    BY <2>2, <2>3, <2>4, <2>5, <2>6, <2>7, <2>8 DEF Next
  <2> QED BY <2>1, <2>9
<1>3. Inv => OneInside
  BY DEF OneInside, LockInv, Connected, Places
<1> QED BY <1>1, <1>2, <1>3, PTL DEF Spec

-----------------------------------------------------------------------------
(* Refinement. *)

(* Only the status of task t changes, and it becomes what. *)
Moves(t, what) == Status' = [Status EXCEPT ![t] = what]

LEMMA MovesOne ==
    ASSUME NEW t \in Tasks, NEW what, Status'[t] = what,
           \A u \in Tasks \ {t} : Status'[u] = Status[u]
    PROVE  Moves(t, what)
BY DEF Moves, Status

LEMMA StatusOf ==
    ASSUME NEW t \in Tasks
    PROVE  Status[t] = IF pc[t] \in {"connecting", "polling", "trying"}
                       THEN "waiting"
                       ELSE IF pc[t] = "in" /\ conn[t] \in alive
                            THEN "in" ELSE "out"
BY DEF Status

LEMMA StatusNext ==
    ASSUME NEW t \in Tasks
    PROVE  Status'[t] = IF pc'[t] \in {"connecting", "polling", "trying"}
                        THEN "waiting"
                        ELSE IF pc'[t] = "in" /\ conn'[t] \in alive'
                             THEN "in" ELSE "out"
BY DEF Status

(* What is left alone keeps its status. *)
LEMMA StatusKept ==
    ASSUME NEW t \in Tasks, pc'[t] = pc[t],
           pc[t] = "in" => (conn'[t] \in alive' <=> conn[t] \in alive)
    PROVE  Status'[t] = Status[t]
BY StatusOf, StatusNext

(* A step of one task between places of the same status is a stutter; the
   others are steps of the contract. *)
LEMMA ContractStep ==
    ASSUME TypeOK, LockInv, [Next]_vars
    PROVE  [Contract!LockNext]_Status
<1>1. ASSUME \A t \in Tasks : Status'[t] = Status[t] PROVE Status' = Status
  BY <1>1 DEF Status
<1>2. ASSUME NEW t \in Tasks, NEW from, NEW to, Go(t, from, to)
      PROVE  /\ pc[t] \in from /\ pc'[t] = to
             /\ \A u \in Tasks \ {t} : pc'[u] = pc[u]
  BY <1>2 DEF Go, TypeOK
<1>3. ASSUME NEW t \in Tasks, Moves(t, Status[t]) PROVE Status' = Status
  BY <1>3 DEF Moves, Status
<1>4. ASSUME NEW t \in Tasks, Call(t) PROVE Contract!Request(t)
  <2>1. pc[t] = "out" /\ pc'[t] = "connecting"
    BY <1>2, <1>4 DEF Call
  <2>2. \A u \in Tasks \ {t} : Status'[u] = Status[u]
    BY <1>2, <1>4, StatusKept DEF Call
  <2>3. Moves(t, "waiting")
    BY <2>1, <2>2, StatusNext, MovesOne
  <2> QED BY <2>1, <2>3, StatusOf DEF Moves, Contract!Request
<1>5. ASSUME NEW t \in Tasks, Connect(t) PROVE Status' = Status
  <2>1. pc[t] = "connecting" /\ pc'[t] = "polling"
    BY <1>2, <1>5 DEF Connect
  <2>2. PICK s \in Sessions \ alive :
             /\ \A u \in Tasks : conn[u] # s
             /\ conn' = [conn EXCEPT ![t] = s]
             /\ alive' = alive \cup {s}
    BY <1>5 DEF Connect
  <2>3. \A u \in Tasks \ {t} : Status'[u] = Status[u]
    BY <1>2, <1>5, <2>2, StatusKept DEF Connect, TypeOK
  <2> QED BY <1>1, <2>1, <2>3, StatusOf, StatusNext
<1>6. ASSUME NEW t \in Tasks, SendTry(t) \/ ReceiveRefusal(t)
      PROVE  Status' = Status
  <2>1. /\ pc[t] \in {"polling", "trying"} /\ pc'[t] \in {"polling", "trying"}
        /\ \A u \in Tasks \ {t} : pc'[u] = pc[u]
    BY <1>2, <1>6 DEF SendTry, ReceiveRefusal
  <2>2. \A u \in Tasks \ {t} : Status'[u] = Status[u]
    BY <1>6, <2>1, StatusKept DEF SendTry, ReceiveRefusal
  <2> QED BY <1>1, <2>1, <2>2, StatusOf, StatusNext
<1>7. ASSUME NEW t \in Tasks, ConnectFails(t) \/ GiveUp(t)
      PROVE  Contract!GiveUp(t)
  <2>1. /\ pc[t] \in {"connecting", "polling", "trying"}
        /\ pc'[t] \in {"out", "closing"}
        /\ \A u \in Tasks \ {t} : pc'[u] = pc[u]
    BY <1>2, <1>7 DEF ConnectFails, GiveUp
  <2>2. \A u \in Tasks \ {t} : Status'[u] = Status[u]
    BY <1>7, <2>1, StatusKept DEF ConnectFails, GiveUp
  <2>3. Moves(t, "out")
    BY <2>1, <2>2, StatusNext, MovesOne
  <2> QED BY <2>1, <2>3, StatusOf DEF Moves, Contract!GiveUp
<1>8. ASSUME NEW t \in Tasks, ReceiveGrant(t)
      PROVE  Contract!Enter(t) \/ Contract!GiveUp(t)
  <2>1. /\ pc[t] = "trying" /\ pc'[t] = "in"
        /\ statement[conn[t]] = "granted"
        /\ UNCHANGED <<conn, alive>>
    BY <1>2, <1>8 DEF ReceiveGrant
  <2>2. \A u \in Tasks \ {t} : Status'[u] = Status[u]
    BY <1>2, <1>8, <2>1, StatusKept DEF ReceiveGrant
  <2>3. CASE conn[t] \in alive
    <3>1. holder = conn[t]
      BY <2>1, <2>3 DEF LockInv
    <3>2. \A u \in Tasks : ~(pc[u] = "in" /\ conn[u] \in alive)
      BY <2>1, <2>3, <3>1, PgAssumption DEF LockInv, TypeOK
    <3>3. Contract!Free
      BY <3>2, StatusOf DEF Contract!Free
    <3>4. Moves(t, "in")
      BY <2>1, <2>2, <2>3, StatusNext, MovesOne
    <3> QED BY <2>1, <3>3, <3>4, StatusOf DEF Moves, Contract!Enter
  <2>4. CASE conn[t] \notin alive
    <3>1. Moves(t, "out")
      BY <2>1, <2>2, <2>4, StatusNext, MovesOne
    <3> QED BY <2>1, <3>1, StatusOf DEF Moves, Contract!GiveUp
  <2> QED BY <2>3, <2>4
<1>9. ASSUME NEW t \in Tasks, EndBody(t)
      PROVE  Status' = Status \/ Contract!Leave(t)
  <2>1. pc[t] = "in" /\ pc'[t] = "unlocking"
    BY <1>2, <1>9 DEF EndBody
  <2>2. \A u \in Tasks \ {t} : Status'[u] = Status[u]
    BY <1>2, <1>9, StatusKept DEF EndBody
  <2>3. Moves(t, "out")
    BY <2>1, <2>2, StatusNext, MovesOne
  <2>4. Status[t] \in {"in", "out"}
    BY <2>1, StatusOf
  <2> QED BY <1>3, <2>3, <2>4 DEF Moves, Contract!Leave
<1>10. ASSUME NEW t \in Tasks, EndUnlock(t) \/ Close(t)
       PROVE  Status' = Status
  <2>1. /\ pc[t] \in {"unlocking", "closing"} /\ pc'[t] \in {"closing", "out"}
        /\ \A u \in Tasks \ {t} : pc'[u] = pc[u]
    BY <1>2, <1>10 DEF EndUnlock, Close
  <2>2. ASSUME NEW u \in Tasks \ {t}
        PROVE  conn'[u] \in alive' <=> conn[u] \in alive
    <3>1. conn[t] # NoSession
      BY <2>1 DEF LockInv, Connected, Places
    <3>2. conn'[u] = conn[u] /\ conn[u] # conn[t]
      BY <1>10, <3>1 DEF EndUnlock, Close, LockInv, TypeOK
    <3>3. alive' = alive \/ alive' = alive \ {conn[t]}
      BY <1>10 DEF EndUnlock, Close, EndSession
    <3> QED BY <3>2, <3>3
  <2>3. \A u \in Tasks \ {t} : Status'[u] = Status[u]
    BY <2>1, <2>2, StatusKept
  <2> QED BY <1>1, <2>1, <2>3, StatusOf, StatusNext
<1>11. ASSUME NEW t \in Tasks, Vanish(t)
       PROVE  Status' = Status \/ Contract!GiveUp(t) \/ Contract!Leave(t)
  <2>1. pc'[t] = "out"
    BY <1>2, <1>11 DEF Vanish
  <2>2. \A u \in Tasks \ {t} : Status'[u] = Status[u]
    BY <1>2, <1>11, StatusKept DEF Vanish, TypeOK
  <2>3. Moves(t, "out")
    BY <2>1, <2>2, StatusNext, MovesOne
  <2>4. Status[t] \in {"waiting", "in", "out"}
    BY StatusOf
  <2> QED BY <1>3, <2>3, <2>4 DEF Moves, Contract!GiveUp, Contract!Leave
<1>12. ASSUME NEW s \in Sessions,
              ExecuteTry(s) \/ ExecuteUnlock(s) \/ Reap(s)
       PROVE  Status' = Status
  BY <1>1, <1>12, StatusKept
     DEF ExecuteTry, ExecuteUnlock, Reap, EndSession
<1>13. ASSUME NEW s \in Sessions, Drop(s)
       PROVE  Status' = Status \/ \E t \in Tasks : Contract!Leave(t)
  <2>1. UNCHANGED <<pc, conn>> /\ alive' = alive \ {s}
    BY <1>13 DEF Drop, EndSession
  <2>2. CASE \A t \in Tasks : pc[t] = "in" => conn[t] # s
    <3>1. \A t \in Tasks : Status'[t] = Status[t]
      BY <2>1, <2>2, StatusKept
    <3> QED BY <1>1, <3>1
  <2>3. ASSUME NEW t \in Tasks, pc[t] = "in", conn[t] = s
        PROVE  Contract!Leave(t)
    <3>1. \A u \in Tasks \ {t} : conn[u] # s
      BY <2>3, PgAssumption DEF LockInv
    <3>2. \A u \in Tasks \ {t} : Status'[u] = Status[u]
      BY <2>1, <3>1, StatusKept
    <3>3. Moves(t, "out")
      BY <2>1, <2>3, <3>2, StatusNext, MovesOne
    <3>4. Status[t] = "in"
      BY <1>13, <2>3, StatusOf DEF Drop
    <3> QED BY <3>3, <3>4 DEF Moves, Contract!Leave
  <2> QED BY <2>2, <2>3
<1>14. CASE UNCHANGED vars
  BY <1>1, <1>14, StatusKept DEF vars
<1> QED
  BY <1>4, <1>5, <1>6, <1>7, <1>8, <1>9, <1>10, <1>11, <1>12, <1>13, <1>14
     DEF Next, Contract!LockNext

(* The provider implements the lock contract, with any number of workers,
   under timeouts, cancellations, crashes and lost sessions
   (_locks_postgres.py 75-137). *)
THEOREM PgImplementsContract == Spec => ImplementsContract
<1>1. Init => Contract!LockInit
  BY DEF Init, Contract!LockInit, Status
<1> QED BY <1>1, LockInvHolds, ContractStep, PTL
        DEF Spec, ImplementsContract, Contract!LockSpec

=============================================================================
