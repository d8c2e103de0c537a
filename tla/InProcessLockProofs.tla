------------------------- MODULE InProcessLockProofs -------------------------
(***************************************************************************)
(* The in-process lock is correct for any number of tasks.  The queue of   *)
(* an entry holds exactly the tasks that wait for it, each once; a task    *)
(* that has been woken heads the queue of a free lock.                     *)
(***************************************************************************)
EXTENDS InProcessLock, FiniteSetTheorems, SequenceTheorems, TLAPS

(* The tasks that hold a reference to entry e. *)
UsersOf(e) == {t \in Tasks : entry[t] = e}

Woken(t) == pc[t] = "queued" /\ future[t] \in {"resolved", "both"}

(* A task refers to the scope's entry from its call until it leaves. *)
RefsInv ==
    /\ \A t \in Tasks : IF pc[t] = "out" THEN entry[t] = NoEntry
                        ELSE mapped # NoEntry /\ entry[t] = mapped
    /\ mapped # NoEntry => \E t \in Tasks : entry[t] = mapped
    /\ \A e \in Entries : users[e] = Cardinality(UsersOf(e))

(* Who waits in the queue of an entry, and that nobody waits twice. *)
QueueInv ==
    \A e \in Entries :
        /\ \A t \in Tasks : (\E i \in 1 .. Len(waiters[e]) : waiters[e][i] = t)
                              <=> (pc[t] = "queued" /\ entry[t] = e)
        /\ \A i, j \in 1 .. Len(waiters[e]) : waiters[e][i] = waiters[e][j] => i = j

(* Who holds the lock, and who has been promised it. *)
HeldInv ==
    /\ \A e \in Entries : locked[e] <=> \E t \in Tasks : pc[t] = "in" /\ entry[t] = e
    /\ \A t, u \in Tasks : pc[t] = "in" /\ pc[u] = "in" => t = u
    /\ \A t \in Tasks : Woken(t) =>
         ~locked[entry[t]] /\ waiters[entry[t]][1] = t

LockInv == TypeOK /\ RefsInv /\ QueueInv /\ HeldInv /\ NoLostWakeup

-----------------------------------------------------------------------------
(* Lemmas about the queue. *)

(* Whom RemoveFirst leaves, and where, in a queue without repetitions. *)
LEMMA RemovedAt ==
    ASSUME NEW S, NEW q \in Seq(S), NEW i \in 1 .. Len(q),
           \A j, k \in 1 .. Len(q) : q[j] = q[k] => j = k
    PROVE  /\ RemoveFirst(q, q[i]) \in Seq(S)
           /\ Len(RemoveFirst(q, q[i])) = Len(q) - 1
           /\ \A j \in 1 .. Len(q) - 1 :
                RemoveFirst(q, q[i])[j] = IF j < i THEN q[j] ELSE q[j + 1]
<1>1. {j \in 1 .. Len(q) : q[j] = q[i]} = {i}
  OBVIOUS
<1>2. SelectInSeq(q, LAMBDA v : v = q[i]) = i
  BY <1>1 DEF SelectInSeq, Min
<1>3. RemoveFirst(q, q[i]) = SubSeq(q, 1, i - 1) \o SubSeq(q, i + 1, Len(q))
  BY <1>2 DEF RemoveFirst, RemoveAt
<1> DEFINE before == SubSeq(q, 1, i - 1)
           after == SubSeq(q, i + 1, Len(q))
<1>4. /\ before \in Seq(S) /\ Len(before) = i - 1
      /\ \A j \in 1 .. i - 1 : before[j] = q[j]
  <2>1. /\ SubSeq(q, 1, i - 1) \in Seq(S)
        /\ Len(SubSeq(q, 1, i - 1)) = IF 1 <= i - 1 THEN i - 1 - 1 + 1 ELSE 0
        /\ \A j \in 1 .. i - 1 - 1 + 1 : SubSeq(q, 1, i - 1)[j] = q[1 + j - 1]
    <3>1. \A j \in 1 .. i - 1 : q[j] \in S
      OBVIOUS
    <3> QED BY <3>1, SubSeqProperties
  <2> QED BY <2>1
<1>5. /\ after \in Seq(S) /\ Len(after) = Len(q) - i
      /\ \A j \in 1 .. Len(q) - i : after[j] = q[i + j]
  <2>1. /\ SubSeq(q, i + 1, Len(q)) \in Seq(S)
        /\ Len(SubSeq(q, i + 1, Len(q))) =
             IF i + 1 <= Len(q) THEN Len(q) - (i + 1) + 1 ELSE 0
        /\ \A j \in 1 .. Len(q) - (i + 1) + 1 :
             SubSeq(q, i + 1, Len(q))[j] = q[i + 1 + j - 1]
    <3>1. \A j \in i + 1 .. Len(q) : q[j] \in S
      OBVIOUS
    <3> QED BY <3>1, SubSeqProperties
  <2> QED BY <2>1
<1> DEFINE r == before \o after
<1>6. /\ r \in Seq(S)
      /\ Len(r) = Len(before) + Len(after)
      /\ \A j \in 1 .. Len(before) + Len(after) :
           r[j] = IF j <= Len(before) THEN before[j] ELSE after[j - Len(before)]
  <2> HIDE DEF before, after
  <2>1. before \in Seq(S) /\ after \in Seq(S)
    BY <1>4, <1>5
  <2> QED BY <2>1, ConcatProperties
<1>7. RemoveFirst(q, q[i]) = r
  BY <1>3
<1> HIDE DEF before, after, r
<1>8. ASSUME NEW j \in 1 .. Len(q) - 1
      PROVE  r[j] = IF j < i THEN q[j] ELSE q[j + 1]
  <2>1. CASE j < i
    BY <2>1, <1>4, <1>5, <1>6
  <2>2. CASE ~(j < i)
    <3>1. j - (i - 1) \in 1 .. Len(q) - i /\ i + (j - (i - 1)) = j + 1
      BY <2>2
    <3>2. after[j - (i - 1)] = q[j + 1]
      BY <3>1, <1>5
    <3>3. r[j] = after[j - (i - 1)]
      BY <2>2, <1>4, <1>5, <1>6
    <3> QED BY <2>2, <3>2, <3>3
  <2> QED BY <2>1, <2>2
<1>9. Len(r) = Len(q) - 1
  BY <1>4, <1>5, <1>6
<1> QED BY <1>6, <1>7, <1>8, <1>9

(* It leaves everybody else, each still once. *)
LEMMA Removed ==
    ASSUME NEW S, NEW q \in Seq(S), NEW x \in S,
           \E i \in 1 .. Len(q) : q[i] = x,
           \A j, k \in 1 .. Len(q) : q[j] = q[k] => j = k
    PROVE  /\ RemoveFirst(q, x) \in Seq(S)
           /\ \A y : (\E j \in 1 .. Len(RemoveFirst(q, x)) : RemoveFirst(q, x)[j] = y)
                      <=> y # x /\ \E i \in 1 .. Len(q) : q[i] = y
           /\ \A j, k \in 1 .. Len(RemoveFirst(q, x)) :
                RemoveFirst(q, x)[j] = RemoveFirst(q, x)[k] => j = k
           /\ q[1] # x => RemoveFirst(q, x)[1] = q[1]
<1>1. PICK i \in 1 .. Len(q) : q[i] = x
  OBVIOUS
<1> DEFINE r == RemoveFirst(q, x)
<1>2. /\ r \in Seq(S)
      /\ Len(r) = Len(q) - 1
      /\ \A j \in 1 .. Len(q) - 1 : r[j] = IF j < i THEN q[j] ELSE q[j + 1]
  BY <1>1, RemovedAt
<1> HIDE DEF r
<1>3. ASSUME NEW y PROVE (\E j \in 1 .. Len(r) : r[j] = y)
                            <=> y # x /\ \E k \in 1 .. Len(q) : q[k] = y
  <2>1. ASSUME NEW j \in 1 .. Len(r), r[j] = y
        PROVE  y # x /\ \E k \in 1 .. Len(q) : q[k] = y
    BY <1>1, <1>2, <2>1
  <2>2. ASSUME y # x, NEW k \in 1 .. Len(q), q[k] = y
        PROVE  \E j \in 1 .. Len(r) : r[j] = y
    <3>1. CASE k < i
      BY <1>2, <2>2, <3>1
    <3>2. CASE k > i
      <4>1. k - 1 \in 1 .. Len(r) /\ ~(k - 1 < i) /\ r[k - 1] = q[k - 1 + 1]
        BY <1>2, <3>2
      <4> QED BY <4>1, <2>2
    <3> QED BY <1>1, <2>2, <3>1, <3>2
  <2> QED BY <2>1, <2>2
<1>4. ASSUME NEW j \in 1 .. Len(r), NEW k \in 1 .. Len(r), r[j] = r[k]
      PROVE  j = k
  <2> DEFINE at(n) == IF n < i THEN n ELSE n + 1
  <2>1. q[at(j)] = r[j] /\ q[at(k)] = r[k]
    BY <1>2
  <2>2. at(j) \in 1 .. Len(q) /\ at(k) \in 1 .. Len(q)
    BY <1>2
  <2>3. at(j) = at(k)
    BY <2>1, <2>2, <1>4
  <2> QED BY <2>3
<1>5. q[1] # x => r[1] = q[1]
  BY <1>1, <1>2
<1> QED BY <1>2, <1>3, <1>4, <1>5 DEF r

(* A queue is empty if nobody is in it. *)
LEMMA NobodyIsEmpty ==
    ASSUME NEW S, NEW q \in Seq(S), ~ \E i \in 1 .. Len(q) : TRUE
    PROVE  q = <<>>
OBVIOUS

LEMMA RangeIsPositions ==
    ASSUME NEW S, NEW q \in Seq(S), NEW x
    PROVE  x \in Range(q) <=> \E i \in 1 .. Len(q) : q[i] = x
BY DEF Range

(* _wake_up_first touches nobody but a pending head. *)
LEMMA Woke ==
    ASSUME TypeOK, NEW q \in Seq(Tasks)
    PROVE  /\ WakeUpFirst(q) \in [Tasks -> {"pending", "resolved", "cancelled", "both"}]
           /\ \A u \in Tasks : WakeUpFirst(q)[u] # future[u] =>
                /\ q # <<>> /\ u = q[1]
                /\ future[u] = "pending" /\ WakeUpFirst(q)[u] = "resolved"
           /\ q # <<>> => q[1] \in Tasks /\ WakeUpFirst(q)[q[1]] # "pending"
<1>1. q # <<>> => Head(q) = q[1] /\ q[1] \in Tasks
  OBVIOUS
<1> QED BY <1>1 DEF WakeUpFirst, TypeOK

-----------------------------------------------------------------------------
(* The references and their count. *)

LEMMA UsersFinite ==
    ASSUME NEW e
    PROVE  /\ IsFiniteSet(UsersOf(e))
           /\ Cardinality(UsersOf(e)) \in 0 .. Cardinality(Tasks)
<1>1. UsersOf(e) \in SUBSET Tasks /\ IsFiniteSet(Tasks)
  BY EntriesAssumption DEF UsersOf
<1> QED BY <1>1, FS_Subset, FS_CardinalityType

(* An entry that is not the scope's has no user, no queue and no holder. *)
LEMMA OthersUnused ==
    ASSUME TypeOK, RefsInv, QueueInv, HeldInv, NEW e \in Entries, e # mapped
    PROVE  UsersOf(e) = {} /\ waiters[e] = <<>> /\ ~locked[e]
<1>1. \A t \in Tasks : entry[t] # e
  BY EntriesAssumption DEF RefsInv
<1>2. waiters[e] \in Seq(Tasks)
  BY DEF TypeOK
<1>3. ~ \E i \in 1 .. Len(waiters[e]) : TRUE
  BY <1>1, <1>2 DEF QueueInv
<1>4. waiters[e] = <<>>
  BY <1>2, <1>3, NobodyIsEmpty
<1> QED BY <1>1, <1>4 DEF UsersOf, HeldInv

(* setdefault and the count of one more user. *)
LEMMA CallRefs ==
    ASSUME TypeOK, RefsInv, NEW t \in Tasks, Call(t)
    PROVE  /\ RefsInv'
           /\ mapped' \in Entries /\ entry' \in [Tasks -> Entries \cup {NoEntry}]
           /\ users' \in [Entries -> 0 .. Cardinality(Tasks)]
           /\ entry' = [entry EXCEPT ![t] = mapped']
           /\ mapped # NoEntry => mapped' = mapped
<1>1. PICK e \in Entries :
        /\ EntryFor(t, e)
        /\ mapped' = e
        /\ entry' = [entry EXCEPT ![t] = e]
        /\ users' = [users EXCEPT ![e] = @ + 1]
        /\ pc' \in {[pc EXCEPT ![t] = "in"], [pc EXCEPT ![t] = "queued"]}
  BY DEF Call
<1>2. pc[t] = "out" /\ entry[t] = NoEntry /\ NoEntry \notin Entries
  BY EntriesAssumption DEF Call, RefsInv
<1>3. mapped # NoEntry => e = mapped
  BY <1>1 DEF EntryFor
<1>4. entry'[t] = e /\ \A u \in Tasks \ {t} : entry'[u] = entry[u]
  BY <1>1 DEF TypeOK
<1>5. \A x \in Entries : UsersOf(x)' = IF x = e THEN UsersOf(e) \cup {t} ELSE UsersOf(x)
  BY <1>2, <1>4 DEF UsersOf
<1>6. Cardinality(UsersOf(e) \cup {t}) = Cardinality(UsersOf(e)) + 1
  <2>1. t \notin UsersOf(e)
    BY <1>2 DEF UsersOf
  <2> QED BY <2>1, UsersFinite, FS_AddElement
<1>7. \A x \in Entries : users'[x] = Cardinality(UsersOf(x)')
  BY <1>1, <1>5, <1>6 DEF TypeOK, RefsInv
<1>8. users' \in [Entries -> 0 .. Cardinality(Tasks)]
  <2>1. ASSUME NEW x \in Entries PROVE Cardinality(UsersOf(x)') \in 0 .. Cardinality(Tasks)
    <3>1. UsersOf(x)' \in SUBSET Tasks /\ IsFiniteSet(Tasks)
      BY EntriesAssumption DEF UsersOf
    <3> QED BY <3>1, FS_Subset, FS_CardinalityType
  <2>2. users' = [x \in Entries |-> users'[x]]
    BY <1>1 DEF TypeOK
  <2> QED BY <1>7, <2>1, <2>2
<1>9. /\ \A u \in Tasks : IF pc'[u] = "out" THEN entry'[u] = NoEntry
                           ELSE mapped' # NoEntry /\ entry'[u] = mapped'
      /\ \E u \in Tasks : entry'[u] = mapped'
  BY <1>1, <1>2, <1>3, <1>4 DEF RefsInv, TypeOK
<1> QED BY <1>1, <1>3, <1>7, <1>8, <1>9 DEF RefsInv, TypeOK

(* The outer finally: the entry goes with its last user. *)
LEMMA DropRefs ==
    ASSUME TypeOK, RefsInv, NEW t \in Tasks, pc[t] # "out", DropEntry(t)
    PROVE  /\ RefsInv'
           /\ mapped' \in Entries \cup {NoEntry}
           /\ entry' \in [Tasks -> Entries \cup {NoEntry}]
           /\ users' \in [Entries -> 0 .. Cardinality(Tasks)]
<1> DEFINE e == entry[t]
<1>1. e \in Entries /\ e = mapped /\ e # NoEntry
  BY EntriesAssumption DEF RefsInv, TypeOK
<1>2. /\ entry'[t] = NoEntry /\ pc'[t] = "out"
      /\ \A u \in Tasks \ {t} : entry'[u] = entry[u] /\ pc'[u] = pc[u]
  BY DEF DropEntry, TypeOK
<1>3. \A x \in Entries : UsersOf(x)' = IF x = e THEN UsersOf(e) \ {t} ELSE UsersOf(x)
  BY <1>1, <1>2, EntriesAssumption DEF UsersOf
<1>4. Cardinality(UsersOf(e) \ {t}) = Cardinality(UsersOf(e)) - 1
  <2>1. t \in UsersOf(e)
    BY DEF UsersOf
  <2> QED BY <2>1, UsersFinite, FS_RemoveElement
<1>5. \A x \in Entries : users'[x] = Cardinality(UsersOf(x)')
  BY <1>1, <1>3, <1>4 DEF TypeOK, RefsInv, DropEntry
<1>6. users' \in [Entries -> 0 .. Cardinality(Tasks)]
  <2>1. ASSUME NEW x \in Entries PROVE Cardinality(UsersOf(x)') \in 0 .. Cardinality(Tasks)
    <3>1. UsersOf(x)' \in SUBSET Tasks /\ IsFiniteSet(Tasks)
      BY EntriesAssumption DEF UsersOf
    <3> QED BY <3>1, FS_Subset, FS_CardinalityType
  <2>2. users' = [x \in Entries |-> users'[x]]
    BY DEF TypeOK, DropEntry
  <2> QED BY <1>5, <2>1, <2>2
<1>7. users[e] = 1 <=> UsersOf(e) \ {t} = {}
  <2>1. IsFiniteSet(UsersOf(e) \ {t})
    BY UsersFinite, FS_RemoveElement
  <2>2. Cardinality(UsersOf(e) \ {t}) = 0 <=> UsersOf(e) \ {t} = {}
    BY <2>1, FS_EmptySet
  <2>3. users[e] = Cardinality(UsersOf(e)) /\ Cardinality(UsersOf(e)) \in Nat
    BY <1>1, UsersFinite, FS_CardinalityType DEF RefsInv
  <2> QED BY <1>4, <2>2, <2>3
<1>8. mapped' = IF UsersOf(e) \ {t} = {} THEN NoEntry ELSE mapped
  BY <1>1, <1>7 DEF DropEntry
<1>9. \A u \in Tasks : IF pc'[u] = "out" THEN entry'[u] = NoEntry
                       ELSE mapped' # NoEntry /\ entry'[u] = mapped'
  BY <1>1, <1>2, <1>8 DEF RefsInv, UsersOf
<1>10. mapped' # NoEntry => \E u \in Tasks : entry'[u] = mapped'
  BY <1>1, <1>2, <1>8 DEF UsersOf
<1> QED BY <1>1, <1>5, <1>6, <1>8, <1>9, <1>10 DEF RefsInv, DropEntry, TypeOK

-----------------------------------------------------------------------------
(* The queue. *)

(* append and the task that now waits. *)
LEMMA QueueGrows ==
    ASSUME TypeOK, RefsInv, QueueInv, NEW t \in Tasks, NEW e \in Entries,
           pc[t] = "out",
           waiters' = [waiters EXCEPT ![e] = Append(@, t)],
           pc' = [pc EXCEPT ![t] = "queued"],
           entry' = [entry EXCEPT ![t] = e]
    PROVE  /\ QueueInv'
           /\ waiters' \in [Entries -> Seq(Tasks)]
           /\ \A x \in Entries : waiters[x] # <<>> => /\ waiters'[x] # <<>>
                                                    /\ waiters'[x][1] = waiters[x][1]
<1>1. \A x \in Entries : waiters[x] \in Seq(Tasks)
  BY DEF TypeOK
<1>2. waiters' \in [Entries -> Seq(Tasks)]
  BY <1>1 DEF TypeOK
<1>3. ASSUME NEW x \in Entries, x # e
      PROVE  /\ waiters'[x] = waiters[x]
             /\ \A u \in Tasks : (pc'[u] = "queued" /\ entry'[u] = x)
                                  <=> (pc[u] = "queued" /\ entry[u] = x)
  BY <1>3 DEF TypeOK
<1>4. /\ waiters'[e] = Append(waiters[e], t)
      /\ Len(waiters'[e]) = Len(waiters[e]) + 1
      /\ waiters'[e][Len(waiters[e]) + 1] = t
      /\ \A i \in 1 .. Len(waiters[e]) : waiters'[e][i] = waiters[e][i]
  BY <1>1 DEF TypeOK
<1>5. \A i \in 1 .. Len(waiters[e]) : waiters[e][i] # t
  BY DEF QueueInv
<1>6. Len(waiters[e]) \in Nat
  BY <1>1
<1>7. \A u \in Tasks : (\E i \in 1 .. Len(waiters'[e]) : waiters'[e][i] = u)
                         <=> u = t \/ (\E i \in 1 .. Len(waiters[e]) : waiters[e][i] = u)
  BY <1>4, <1>6
<1>8. \A u \in Tasks : (pc'[u] = "queued" /\ entry'[u] = e)
                         <=> u = t \/ (pc[u] = "queued" /\ entry[u] = e)
  BY DEF TypeOK
<1>9. \A i, j \in 1 .. Len(waiters'[e]) : waiters'[e][i] = waiters'[e][j] => i = j
  BY <1>4, <1>5, <1>6 DEF QueueInv
<1>10. QueueInv'
  <2> SUFFICES ASSUME NEW x \in Entries
      PROVE /\ \A u \in Tasks : (\E i \in 1 .. Len(waiters'[x]) : waiters'[x][i] = u)
                                  <=> (pc'[u] = "queued" /\ entry'[u] = x)
            /\ \A i, j \in 1 .. Len(waiters'[x]) :
                  waiters'[x][i] = waiters'[x][j] => i = j
    BY DEF QueueInv
  <2>1. CASE x = e
    BY <2>1, <1>7, <1>8, <1>9 DEF QueueInv
  <2>2. CASE x # e
    BY <2>2, <1>3 DEF QueueInv
  <2> QED BY <2>1, <2>2
<1>11. \A x \in Entries : waiters[x] # <<>> => /\ waiters'[x] # <<>>
                                              /\ waiters'[x][1] = waiters[x][1]
  BY <1>1, <1>3, <1>4
<1> QED BY <1>2, <1>10, <1>11

(* deque.remove and the task that waits no more. *)
LEMMA QueueShrinks ==
    ASSUME TypeOK, RefsInv, QueueInv, NEW t \in Tasks, pc[t] = "queued",
           waiters' = [waiters EXCEPT ![entry[t]] = RemoveFirst(@, t)],
           pc'[t] # "queued",
           \A u \in Tasks \ {t} : pc'[u] = pc[u] /\ entry'[u] = entry[u]
    PROVE  /\ QueueInv'
           /\ waiters' \in [Entries -> Seq(Tasks)]
           /\ waiters'[entry[t]] = RemoveFirst(waiters[entry[t]], t)
           /\ \A x \in Entries \ {entry[t]} : waiters'[x] = waiters[x]
           /\ waiters[entry[t]][1] # t => waiters'[entry[t]][1] = waiters[entry[t]][1]
<1> DEFINE e == entry[t]
           q == waiters[e]
           r == RemoveFirst(q, t)
<1>1. e \in Entries /\ e = mapped
  BY DEF RefsInv, TypeOK
<1>2. /\ q \in Seq(Tasks)
      /\ \E i \in 1 .. Len(q) : q[i] = t
      /\ \A j, k \in 1 .. Len(q) : q[j] = q[k] => j = k
  BY <1>1 DEF TypeOK, QueueInv
<1>3. /\ r \in Seq(Tasks)
      /\ \A y : (\E j \in 1 .. Len(r) : r[j] = y)
                 <=> y # t /\ \E i \in 1 .. Len(q) : q[i] = y
      /\ \A j, k \in 1 .. Len(r) : r[j] = r[k] => j = k
      /\ q[1] # t => r[1] = q[1]
  <2> HIDE DEF q
  <2> QED BY <1>2, Removed
<1>4. waiters'[e] = r /\ \A x \in Entries \ {e} : waiters'[x] = waiters[x]
  BY <1>1 DEF TypeOK
<1> HIDE DEF r
<1>5. waiters' \in [Entries -> Seq(Tasks)]
  BY <1>1, <1>3 DEF TypeOK, r
<1>6. QueueInv'
  <2> SUFFICES ASSUME NEW x \in Entries
      PROVE /\ \A u \in Tasks : (\E i \in 1 .. Len(waiters'[x]) : waiters'[x][i] = u)
                                  <=> (pc'[u] = "queued" /\ entry'[u] = x)
            /\ \A i, j \in 1 .. Len(waiters'[x]) :
                  waiters'[x][i] = waiters'[x][j] => i = j
    BY DEF QueueInv
  <2>1. CASE x = e
    <3>1. \A u \in Tasks : (\E i \in 1 .. Len(q) : q[i] = u)
                              <=> (pc[u] = "queued" /\ entry[u] = e)
      BY <1>1 DEF QueueInv
    <3>2. \A u \in Tasks : (\E i \in 1 .. Len(r) : r[i] = u)
                              <=> (pc'[u] = "queued" /\ entry'[u] = e)
      <4> HIDE DEF q, e
      <4> QED BY <1>3, <3>1
    <3> QED BY <2>1, <1>3, <1>4, <3>2
  <2>2. CASE x # e
    BY <2>2, <1>4 DEF QueueInv
  <2> QED BY <2>1, <2>2
<1> QED BY <1>3, <1>4, <1>5, <1>6 DEF r

(* When only the futures, or tasks that do not queue, change. *)
LEMMA QueueStays ==
    ASSUME TypeOK, QueueInv, waiters' = waiters,
           \A u \in Tasks : (pc'[u] = "queued" <=> pc[u] = "queued"),
           \A u \in Tasks : pc[u] = "queued" => entry'[u] = entry[u]
    PROVE  QueueInv'
BY DEF QueueInv

(* What the queue says of a task that waits. *)
LEMMA WaiterIsQueued ==
    ASSUME TypeOK, RefsInv, QueueInv, NEW t \in Tasks, pc[t] = "queued"
    PROVE  /\ entry[t] = mapped /\ mapped \in Entries
           /\ t \in Range(waiters[mapped])
           /\ waiters[mapped] # <<>>
<1>1. entry[t] = mapped /\ mapped \in Entries
  BY DEF RefsInv, TypeOK
<1>2. waiters[mapped] \in Seq(Tasks)
  BY <1>1 DEF TypeOK
<1>3. \E i \in 1 .. Len(waiters[mapped]) : waiters[mapped][i] = t
  BY <1>1 DEF QueueInv
<1> QED BY <1>1, <1>2, <1>3, RangeIsPositions

-----------------------------------------------------------------------------
(* The steps. *)

LEMMA StepInit == Init => LockInv
<1> SUFFICES ASSUME Init PROVE LockInv
  OBVIOUS
<1>1. TypeOK
  BY EntriesAssumption, FS_CardinalityType DEF Init, TypeOK
<1>2. RefsInv
  <2>1. \A e \in Entries : UsersOf(e) = {}
    BY EntriesAssumption DEF Init, UsersOf
  <2> QED BY <2>1, FS_EmptySet DEF Init, RefsInv
<1>3. QueueInv /\ HeldInv /\ NoLostWakeup
  BY DEF Init, QueueInv, HeldInv, NoLostWakeup, Woken
<1> QED BY <1>1, <1>2, <1>3 DEF LockInv

LEMMA StepCancel == ASSUME LockInv, NEW t \in Tasks, Cancel(t) PROVE LockInv'
<1>1. /\ pc' = pc /\ entry' = entry /\ waiters' = waiters
      /\ locked' = locked /\ mapped' = mapped /\ users' = users
      /\ pc[t] = "queued"
  BY DEF Cancel
<1>2. /\ \A u \in Tasks \ {t} : future'[u] = future[u]
      /\ IF future[t] = "pending" THEN future'[t] = "cancelled"
         ELSE future[t] = "resolved" /\ future'[t] = "both"
      /\ future' \in [Tasks -> {"pending", "resolved", "cancelled", "both"}]
  BY DEF Cancel, LockInv, TypeOK
<1>3. TypeOK'
  BY <1>1, <1>2 DEF LockInv, TypeOK
<1>4. RefsInv' /\ QueueInv'
  BY <1>1 DEF LockInv, RefsInv, QueueInv, UsersOf
<1>5. HeldInv'
  <2>1. \A u \in Tasks : Woken(u)' => Woken(u)
    BY <1>1, <1>2 DEF Woken
  <2> QED BY <1>1, <2>1 DEF LockInv, HeldInv
<1>6. NoLostWakeup'
  <2>1. \A u \in Tasks : future[u] # "pending" => future'[u] # "pending"
    BY <1>2
  <2>2. \A e \in Entries : Range(waiters[e]) \subseteq Tasks
    BY RangeIsPositions DEF LockInv, TypeOK
  <2> QED BY <1>1, <2>1, <2>2 DEF LockInv, NoLostWakeup
<1> QED BY <1>3, <1>4, <1>5, <1>6 DEF LockInv

LEMMA StepCall == ASSUME LockInv, NEW t \in Tasks, Call(t) PROVE LockInv'
<1> USE DEF LockInv
<1>1. PICK e \in Entries :
        /\ mapped' = e
        /\ IF CanTake(e)
           THEN /\ locked' = [locked EXCEPT ![e] = TRUE]
                /\ pc' = [pc EXCEPT ![t] = "in"]
                /\ UNCHANGED <<waiters, future>>
           ELSE /\ waiters' = [waiters EXCEPT ![e] = Append(@, t)]
                /\ future' = [future EXCEPT ![t] = "pending"]
                /\ pc' = [pc EXCEPT ![t] = "queued"]
                /\ UNCHANGED locked
  BY DEF Call
<1>2. /\ RefsInv'
      /\ mapped' \in Entries /\ entry' \in [Tasks -> Entries \cup {NoEntry}]
      /\ users' \in [Entries -> 0 .. Cardinality(Tasks)]
      /\ entry' = [entry EXCEPT ![t] = e]
      /\ mapped # NoEntry => mapped = e
  BY <1>1, CallRefs
<1>3. /\ pc[t] = "out" /\ entry'[t] = e
      /\ \A u \in Tasks \ {t} : entry'[u] = entry[u] /\ pc'[u] = pc[u]
      /\ \A u \in Tasks : pc[u] # "out" => entry[u] = e /\ u # t
  BY <1>1, <1>2 DEF Call, TypeOK, RefsInv
<1>4. \A x \in Entries : x # e => ~locked[x] /\ waiters[x] = <<>>
  <2>1. CASE mapped = NoEntry
    BY <2>1, EntriesAssumption, OthersUnused
  <2>2. CASE mapped # NoEntry
    BY <2>2, <1>2, OthersUnused
  <2> QED BY <2>1, <2>2
<1>5. CASE CanTake(e)
  <2>1. /\ locked' = [locked EXCEPT ![e] = TRUE]
        /\ pc' = [pc EXCEPT ![t] = "in"]
        /\ waiters' = waiters /\ future' = future
    BY <1>1, <1>5
  <2>2. TypeOK'
    BY <1>2, <2>1 DEF TypeOK
  <2>3. QueueInv'
    <3>1. \A u \in Tasks : pc'[u] = "queued" <=> pc[u] = "queued"
      BY <1>3, <2>1 DEF TypeOK
    <3>2. \A u \in Tasks : pc[u] = "queued" => entry'[u] = entry[u]
      BY <1>3
    <3> QED BY <2>1, <3>1, <3>2, QueueStays
  <2>4. \A u \in Tasks : pc[u] # "in" /\ ~Woken(u)
    <3>1. ASSUME NEW u \in Tasks, pc[u] = "in" PROVE FALSE
      BY <3>1, <1>3, <1>5 DEF HeldInv, CanTake
    <3>2. ASSUME NEW u \in Tasks, Woken(u) PROVE FALSE
      <4>1. u \in Range(waiters[e])
        BY <3>2, <1>3, WaiterIsQueued DEF Woken
      <4> QED BY <4>1, <3>2, <1>5 DEF CanTake, Woken
    <3> QED BY <3>1, <3>2
  <2>5. HeldInv'
    <3>1. \A u \in Tasks : /\ pc'[u] = "in" <=> u = t
                           /\ ~Woken(u)'
      BY <1>3, <2>1, <2>4 DEF Woken, TypeOK
    <3>2. \A x \in Entries : locked'[x] <=> x = e
      BY <1>4, <2>1 DEF TypeOK
    <3> QED BY <1>3, <3>1, <3>2 DEF HeldInv
  <2>6. NoLostWakeup'
    BY <1>4, <2>1 DEF NoLostWakeup, TypeOK
  <2> QED BY <1>2, <2>2, <2>3, <2>5, <2>6
<1>6. CASE ~CanTake(e)
  <2>1. /\ waiters' = [waiters EXCEPT ![e] = Append(@, t)]
        /\ future' = [future EXCEPT ![t] = "pending"]
        /\ pc' = [pc EXCEPT ![t] = "queued"]
        /\ locked' = locked
    BY <1>1, <1>6
  <2>2. /\ QueueInv'
        /\ waiters' \in [Entries -> Seq(Tasks)]
        /\ \A x \in Entries : waiters[x] # <<>> => /\ waiters'[x] # <<>>
                                                 /\ waiters'[x][1] = waiters[x][1]
    BY <1>2, <1>3, <2>1, QueueGrows
  <2>3. TypeOK'
    BY <1>2, <2>1, <2>2 DEF TypeOK
  <2>4. \A u \in Tasks \ {t} : future'[u] = future[u]
    BY <2>1 DEF TypeOK
  <2>5. HeldInv'
    <3>1. \A u \in Tasks : pc'[u] = "in" <=> pc[u] = "in"
      BY <1>3, <2>1 DEF TypeOK
    <3>2. ASSUME NEW u \in Tasks, Woken(u)'
          PROVE  ~locked'[entry'[u]] /\ waiters'[entry'[u]][1] = u
      <4>1. u # t /\ Woken(u)
        BY <3>2, <1>3, <2>1, <2>4 DEF Woken, TypeOK
      <4>2. entry'[u] = e /\ entry[u] = e /\ e = mapped
        BY <4>1, <1>3, WaiterIsQueued DEF Woken
      <4>3. waiters[e] # <<>>
        BY <4>1, <4>2, WaiterIsQueued DEF Woken
      <4> QED BY <4>1, <4>2, <4>3, <2>1, <2>2 DEF HeldInv
    <3> QED BY <1>3, <2>1, <3>1, <3>2 DEF HeldInv
  <2>6. NoLostWakeup'
    <3> SUFFICES ASSUME NEW x \in Entries, ~locked'[x], waiters'[x] # <<>>
        PROVE  \E u \in Range(waiters'[x]) : future'[u] # "pending"
      BY DEF NoLostWakeup
    <3>1. x = e
      BY <1>4, <2>1 DEF TypeOK
    <3>2. PICK u \in Range(waiters[e]) : future[u] # "cancelled"
      BY <3>1, <2>1, <1>6 DEF CanTake
    <3>3. waiters[e] # <<>> /\ waiters[e] \in Seq(Tasks)
      BY <3>2 DEF Range, TypeOK
    <3>4. PICK v \in Range(waiters[e]) : future[v] # "pending"
      BY <3>1, <3>3, <2>1 DEF NoLostWakeup
    <3>5. v \in Tasks /\ pc[v] = "queued" /\ entry[v] = e
      BY <3>3, RangeIsPositions DEF QueueInv
    <3>6. v # t /\ future'[v] # "pending"
      BY <3>4, <3>5, <1>3, <2>4
    <3>7. pc'[v] = "queued" /\ entry'[v] = e
      BY <3>5, <3>6, <1>3
    <3>8. v \in Range(waiters'[e])
      BY <3>5, <3>7, <2>2, RangeIsPositions DEF QueueInv
    <3> QED BY <3>1, <3>6, <3>8
  <2> QED BY <1>2, <2>2, <2>3, <2>5, <2>6
<1> QED BY <1>5, <1>6

LEMMA StepAcquired == ASSUME LockInv, NEW t \in Tasks, Acquired(t) PROVE LockInv'
<1> USE DEF LockInv
<1> DEFINE e == entry[t]
<1>1. /\ pc[t] = "queued" /\ future[t] = "resolved"
      /\ waiters' = [waiters EXCEPT ![e] = RemoveFirst(@, t)]
      /\ locked' = [locked EXCEPT ![e] = TRUE]
      /\ pc' = [pc EXCEPT ![t] = "in"]
      /\ mapped' = mapped /\ users' = users /\ entry' = entry /\ future' = future
  BY DEF Acquired
<1>2. /\ e = mapped /\ e \in Entries
      /\ ~locked[e] /\ waiters[e][1] = t
  BY <1>1, WaiterIsQueued DEF HeldInv, Woken
<1>3. pc'[t] = "in" /\ \A u \in Tasks \ {t} : pc'[u] = pc[u]
  BY <1>1 DEF TypeOK
<1>4. /\ QueueInv'
      /\ waiters' \in [Entries -> Seq(Tasks)]
      /\ \A x \in Entries \ {e} : waiters'[x] = waiters[x]
  BY <1>1, <1>3, QueueShrinks
<1>5. TypeOK'
  BY <1>1, <1>4 DEF TypeOK
<1>6. RefsInv'
  BY <1>1, <1>3 DEF RefsInv, UsersOf
<1>7. \A x \in Entries \ {e} : ~locked[x] /\ waiters[x] = <<>>
  BY <1>2, OthersUnused
<1>8. HeldInv'
  <2>1. \A u \in Tasks : pc[u] # "in"
    BY <1>2 DEF HeldInv, RefsInv
  <2>2. ASSUME NEW u \in Tasks, Woken(u)' PROVE FALSE
    <3>1. Woken(u) /\ u # t
      BY <2>2, <1>1, <1>3 DEF Woken
    <3>2. entry[u] = e
      BY <3>1, <1>2, WaiterIsQueued DEF Woken
    <3> QED BY <3>1, <3>2, <1>2 DEF HeldInv
  <2>3. \A x \in Entries : locked'[x] <=> x = e
    BY <1>1, <1>2, <1>7 DEF TypeOK
  <2> QED BY <1>1, <1>2, <1>3, <2>1, <2>2, <2>3 DEF HeldInv
<1>9. NoLostWakeup'
  BY <1>1, <1>2, <1>4, <1>7 DEF NoLostWakeup, TypeOK
<1> QED BY <1>4, <1>5, <1>6, <1>8, <1>9

(* The wakeup that goes with a free lock: what Exit and GiveUp share. *)
LEMMA WokenHead ==
    ASSUME LockInv, NEW t \in Tasks, NEW e \in Entries, e = entry[t], pc[t] # "out",
           pc' = [pc EXCEPT ![t] = "out"],
           \A u \in Tasks \ {t} : entry'[u] = entry[u],
           QueueInv', waiters' \in [Entries -> Seq(Tasks)],
           \A x \in Entries \ {e} : waiters'[x] = waiters[x],
           ~locked'[e], \A x \in Entries \ {e} : locked'[x] = locked[x],
           future' = [WakeUpFirst(waiters'[e]) EXCEPT ![t] = "pending"],
           \A u \in Tasks : pc[u] = "in" => u = t,
           \A u \in Tasks \ {t} : Woken(u) => waiters'[e][1] = u
    PROVE  HeldInv' /\ NoLostWakeup'
<1> DEFINE q == waiters'[e]
<1>1. e = mapped /\ q \in Seq(Tasks)
  BY DEF LockInv, RefsInv
<1>2. \A x \in Entries \ {e} : ~locked'[x] /\ waiters'[x] = <<>>
  BY <1>1, OthersUnused DEF LockInv
<1>3. pc'[t] = "out" /\ \A u \in Tasks \ {t} : pc'[u] = pc[u]
  BY DEF LockInv, TypeOK
<1>4. /\ \A u \in Tasks \ {t} : future'[u] # future[u] => q # <<>> /\ u = q[1]
      /\ q # <<>> => q[1] \in Tasks /\ WakeUpFirst(q)[q[1]] # "pending"
      /\ \A u \in Tasks \ {t} : future'[u] = WakeUpFirst(q)[u]
  <2>1. /\ WakeUpFirst(q) \in [Tasks -> {"pending", "resolved", "cancelled", "both"}]
        /\ \A u \in Tasks : WakeUpFirst(q)[u] # future[u] => q # <<>> /\ u = q[1]
        /\ q # <<>> => q[1] \in Tasks /\ WakeUpFirst(q)[q[1]] # "pending"
    BY <1>1, Woke DEF LockInv
  <2>2. \A u \in Tasks \ {t} : future'[u] = WakeUpFirst(q)[u]
    BY <2>1
  <2> QED BY <2>1, <2>2
<1> HIDE DEF q
<1>5. HeldInv'
  <2>1. \A u \in Tasks : pc'[u] # "in"
    BY <1>3
  <2>2. \A x \in Entries : ~locked'[x]
    BY <1>2
  <2>3. ASSUME NEW u \in Tasks, Woken(u)'
        PROVE  ~locked'[entry'[u]] /\ waiters'[entry'[u]][1] = u
    <3>1. u # t /\ pc[u] = "queued"
      BY <2>3, <1>3 DEF Woken
    <3>2. entry'[u] = e
      BY <3>1, <1>1, WaiterIsQueued DEF LockInv
    <3>3. q[1] = u
      BY <2>3, <3>1, <1>4 DEF Woken, q
    <3> QED BY <3>2, <3>3 DEF q
  <2> QED BY <2>1, <2>2, <2>3 DEF HeldInv
<1>6. NoLostWakeup'
  <2>1. ASSUME q # <<>> PROVE q[1] \in Range(q) /\ future'[q[1]] # "pending"
    <3>1. q[1] \in Range(q)
      BY <1>1, <2>1 DEF Range, q
    <3>2. pc'[q[1]] = "queued"
      <4>1. 1 \in 1 .. Len(q) /\ q[1] \in Tasks
        BY <1>1, <1>4, <2>1 DEF q
      <4> QED BY <4>1 DEF QueueInv, q
    <3> QED BY <3>1, <3>2, <2>1, <1>3, <1>4
  <2> QED BY <1>2, <2>1 DEF NoLostWakeup, q
<1> QED BY <1>5, <1>6

LEMMA StepExit == ASSUME LockInv, NEW t \in Tasks, Exit(t) PROVE LockInv'
<1> USE DEF LockInv
<1> DEFINE e == entry[t]
<1>1. /\ pc[t] = "in" /\ waiters' = waiters
      /\ locked' = [locked EXCEPT ![e] = FALSE]
      /\ future' = [WakeUpFirst(waiters[e]) EXCEPT ![t] = "pending"]
      /\ DropEntry(t)
  BY DEF Exit
<1>2. e \in Entries /\ locked[e]
  BY <1>1 DEF RefsInv, HeldInv, TypeOK
<1>3. /\ pc' = [pc EXCEPT ![t] = "out"]
      /\ \A u \in Tasks \ {t} : entry'[u] = entry[u] /\ pc'[u] = pc[u]
  BY <1>1 DEF DropEntry, TypeOK
<1>4. /\ RefsInv'
      /\ mapped' \in Entries \cup {NoEntry}
      /\ entry' \in [Tasks -> Entries \cup {NoEntry}]
      /\ users' \in [Entries -> 0 .. Cardinality(Tasks)]
  BY <1>1, DropRefs
<1>5. WakeUpFirst(waiters[e]) \in [Tasks -> {"pending", "resolved", "cancelled", "both"}]
  BY <1>2, Woke DEF TypeOK
<1>6. TypeOK'
  BY <1>1, <1>3, <1>4, <1>5 DEF TypeOK
<1>7. QueueInv'
  <2>1. \A u \in Tasks : pc'[u] = "queued" <=> pc[u] = "queued"
    BY <1>1, <1>3 DEF TypeOK
  <2>2. \A u \in Tasks : pc[u] = "queued" => entry'[u] = entry[u]
    BY <1>1, <1>3
  <2> QED BY <1>1, <2>1, <2>2, QueueStays
<1>8. \A u \in Tasks : /\ pc[u] = "in" => u = t
                       /\ ~Woken(u)
  BY <1>1, <1>2, WaiterIsQueued DEF HeldInv, RefsInv, Woken
<1>9. ~locked'[e] /\ \A x \in Entries \ {e} : locked'[x] = locked[x]
  BY <1>1, <1>2 DEF TypeOK
<1>10. waiters' \in [Entries -> Seq(Tasks)]
  BY <1>1 DEF TypeOK
<1>11. future' = [WakeUpFirst(waiters'[e]) EXCEPT ![t] = "pending"]
  BY <1>1
<1>12. HeldInv' /\ NoLostWakeup'
  <2>1. pc[t] # "out" /\ e = entry[t] /\ \A x \in Entries \ {e} : waiters'[x] = waiters[x]
    BY <1>1
  <2>2. /\ \A u \in Tasks \ {t} : entry'[u] = entry[u]
        /\ \A u \in Tasks : pc[u] = "in" => u = t
        /\ \A u \in Tasks \ {t} : Woken(u) => waiters'[e][1] = u
    BY <1>3, <1>8
  <2> HIDE DEF e
  <2> QED BY <1>2, <1>3, <1>7, <1>9, <1>10, <1>11, <2>1, <2>2, WokenHead
<1> QED BY <1>4, <1>6, <1>7, <1>12

LEMMA StepGiveUp == ASSUME LockInv, NEW t \in Tasks, GiveUp(t) PROVE LockInv'
<1> USE DEF LockInv
<1> DEFINE e == entry[t]
<1>1. /\ pc[t] = "queued" /\ future[t] \in {"cancelled", "both"}
      /\ waiters' = [waiters EXCEPT ![e] = RemoveFirst(@, t)]
      /\ future' = [IF locked[e] THEN future
                    ELSE WakeUpFirst(RemoveFirst(waiters[e], t)) EXCEPT ![t] = "pending"]
      /\ locked' = locked
      /\ DropEntry(t)
  BY DEF GiveUp
<1>2. e \in Entries /\ e = mapped
  BY <1>1, WaiterIsQueued
<1>3. /\ pc' = [pc EXCEPT ![t] = "out"] /\ pc'[t] = "out"
      /\ \A u \in Tasks \ {t} : entry'[u] = entry[u] /\ pc'[u] = pc[u]
  BY <1>1 DEF DropEntry, TypeOK
<1>4. /\ RefsInv'
      /\ mapped' \in Entries \cup {NoEntry}
      /\ entry' \in [Tasks -> Entries \cup {NoEntry}]
      /\ users' \in [Entries -> 0 .. Cardinality(Tasks)]
  BY <1>1, DropRefs
<1>5. /\ QueueInv'
      /\ waiters' \in [Entries -> Seq(Tasks)]
      /\ waiters'[e] = RemoveFirst(waiters[e], t)
      /\ \A x \in Entries \ {e} : waiters'[x] = waiters[x]
      /\ waiters[e][1] # t => waiters'[e][1] = waiters[e][1]
  BY <1>1, <1>3, QueueShrinks
<1>6. WakeUpFirst(waiters'[e]) \in [Tasks -> {"pending", "resolved", "cancelled", "both"}]
  BY <1>2, <1>5, Woke DEF TypeOK
<1>7. TypeOK'
  BY <1>1, <1>3, <1>4, <1>5, <1>6 DEF TypeOK
<1>8. \A u \in Tasks \ {t} : Woken(u) => ~locked[e] /\ waiters'[e][1] = u
  <2> SUFFICES ASSUME NEW u \in Tasks \ {t}, Woken(u)
      PROVE ~locked[e] /\ waiters'[e][1] = u
    OBVIOUS
  <2>1. entry[u] = e
    BY <1>2, WaiterIsQueued DEF Woken
  <2> QED BY <2>1, <1>5 DEF HeldInv
<1>9. CASE locked[e]
  <2>1. \A u \in Tasks \ {t} : future'[u] = future[u]
    BY <1>1, <1>9 DEF TypeOK
  <2>2. \A u \in Tasks : ~Woken(u)'
    BY <1>3, <1>8, <1>9, <2>1 DEF Woken
  <2>3. \A u \in Tasks : pc'[u] = "in" <=> pc[u] = "in"
    BY <1>1, <1>3
  <2>4. HeldInv'
    <3>1. \A x \in Entries :
            (\E u \in Tasks : pc'[u] = "in" /\ entry'[u] = x)
              <=> (\E u \in Tasks : pc[u] = "in" /\ entry[u] = x)
      BY <1>1, <1>3, <2>3
    <3> QED BY <1>1, <2>2, <2>3, <3>1 DEF HeldInv
  <2>5. NoLostWakeup'
    <3>1. \A x \in Entries \ {e} : waiters[x] = <<>>
      BY <1>2, OthersUnused
    <3> QED BY <1>1, <1>5, <1>9, <3>1 DEF NoLostWakeup
  <2> QED BY <1>4, <1>5, <1>7, <2>4, <2>5
<1>10. CASE ~locked[e]
  <2>1. \A u \in Tasks : pc[u] # "in"
    BY <1>2, <1>10 DEF HeldInv, RefsInv
  <2>2. future' = [WakeUpFirst(waiters'[e]) EXCEPT ![t] = "pending"]
    BY <1>1, <1>5, <1>10
  <2>3. HeldInv' /\ NoLostWakeup'
    BY <1>1, <1>2, <1>3, <1>5, <1>8, <1>10, <2>1, <2>2, WokenHead
  <2> QED BY <1>4, <1>5, <1>7, <2>3
<1> QED BY <1>9, <1>10

LEMMA LockStep == LockInv /\ [Next]_vars => LockInv'
<1> SUFFICES ASSUME LockInv, [Next]_vars PROVE LockInv'
  OBVIOUS
<1>1. CASE UNCHANGED vars
  BY <1>1 DEF LockInv, TypeOK, RefsInv, UsersOf, QueueInv, HeldInv, Woken,
              NoLostWakeup, vars
<1> QED BY <1>1, StepCall, StepCancel, StepAcquired, StepGiveUp, StepExit DEF Next

-----------------------------------------------------------------------------
(* What every reachable state satisfies. *)

(* The inductive invariant: every queue holds its waiters, each once, a woken
   task heads the queue of a free lock, and the scope has one entry
   (_locks.py 61-82). *)
THEOREM LockInductive == Spec => []LockInv
BY StepInit, LockStep, PTL DEF Spec

(* The types: the count of users stays within the number of tasks
   (_locks.py 63, 80). *)
THEOREM LockTypeCorrect == Spec => []TypeOK
<1>1. LockInv => TypeOK
  BY DEF LockInv
<1> QED BY <1>1, LockInductive, PTL

(* All tasks of a scope share one entry, counted exactly, and it is dropped
   with its last user, for any number of tasks (_locks.py 62, 80-82). *)
THEOREM OneEntryAlways == Spec => []OneEntry
<1>1. LockInv => OneEntry
  <2> SUFFICES ASSUME LockInv PROVE OneEntry
    OBVIOUS
  <2>1. ASSUME mapped # NoEntry PROVE users[mapped] > 0
    <3>1. PICK t \in Tasks : entry[t] = mapped
      BY <2>1 DEF LockInv, RefsInv
    <3>2. mapped \in Entries /\ users[mapped] = Cardinality(UsersOf(mapped))
      BY <2>1 DEF LockInv, RefsInv, TypeOK
    <3>3. UsersOf(mapped) # {} /\ IsFiniteSet(UsersOf(mapped))
      BY <3>1, UsersFinite DEF UsersOf
    <3> QED BY <3>2, <3>3, FS_EmptySet, FS_CardinalityType
  <2> QED BY <2>1 DEF LockInv, RefsInv, OneEntry, UsersOf
<1> QED BY <1>1, LockInductive, PTL

(* A free lock with waiters has one that is about to run, however timeouts
   and cancellations fall (_locks.py 66-74). *)
THEOREM NeverLostWakeup == Spec => []NoLostWakeup
<1>1. LockInv => NoLostWakeup
  BY DEF LockInv
<1> QED BY <1>1, LockInductive, PTL

(* Nobody who still waits is overtaken (_locks.py 66). *)
LEMMA OrderStep ==
    ASSUME LockInv, [Next]_vars, NEW t \in Tasks, pc[t] # "in", pc'[t] = "in",
           NEW u \in Tasks \ {t}, pc[u] = "queued",
           future[u] \in {"pending", "resolved"}, entry[u] = mapped
    PROVE  /\ pc[t] = "queued"
           /\ \E i, j \in 1 .. Len(waiters[mapped]) :
                /\ i < j
                /\ waiters[mapped][i] = t /\ waiters[mapped][j] = u
<1>1. Call(t) \/ Acquired(t)
  <2>1. ASSUME NEW x \in Tasks, Cancel(x) \/ GiveUp(x) \/ Exit(x) PROVE FALSE
    BY <2>1 DEF Cancel, GiveUp, Exit, DropEntry, LockInv, TypeOK
  <2>2. ASSUME NEW x \in Tasks \ {t}, Call(x) \/ Acquired(x) PROVE FALSE
    BY <2>2 DEF Call, Acquired, LockInv, TypeOK
  <2> QED BY <2>1, <2>2 DEF Next, vars
<1>2. /\ mapped \in Entries
      /\ u \in Range(waiters[mapped])
      /\ waiters[mapped] \in Seq(Tasks)
  BY WaiterIsQueued DEF LockInv, TypeOK
<1>3. CASE Call(t)
  <2>1. CanTake(mapped)
    <3>1. PICK e \in Entries : EntryFor(t, e) /\ CanTake(e)
      BY <1>3 DEF Call, LockInv, TypeOK
    <3> QED BY <3>1, <1>2, EntriesAssumption DEF EntryFor
  <2> QED BY <1>2, <2>1 DEF CanTake
<1>4. CASE Acquired(t)
  <2>1. pc[t] = "queued" /\ waiters[mapped][1] = t
    BY <1>4, WaiterIsQueued DEF Acquired, LockInv, HeldInv, Woken
  <2>2. PICK j \in 1 .. Len(waiters[mapped]) : waiters[mapped][j] = u
    BY <1>2, RangeIsPositions
  <2>3. 1 < j /\ 1 \in 1 .. Len(waiters[mapped])
    BY <2>1, <2>2, <1>2
  <2> QED BY <2>1, <2>2, <2>3
<1> QED BY <1>1, <1>3, <1>4

(* First come, first served, for any number of tasks: whoever gets in leaves
   behind no earlier waiter that is still interested (_locks.py 66). *)
THEOREM AlwaysInOrder == Spec => InOrder
<1>1. LockInv /\ [Next]_vars =>
        [\A t \in Tasks : (pc[t] # "in" /\ pc'[t] = "in") =>
           \A u \in Tasks \ {t} :
             (/\ pc[u] = "queued" /\ future[u] \in {"pending", "resolved"}
              /\ entry[u] = mapped) =>
                /\ pc[t] = "queued"
                /\ \E i, j \in 1 .. Len(waiters[mapped]) :
                     /\ i < j
                     /\ waiters[mapped][i] = t /\ waiters[mapped][j] = u]_vars
  BY OrderStep
<1> QED BY <1>1, LockInductive, PTL DEF Spec, InOrder

(* Each step is one of the contract's, or none. *)
LEMMA ContractStep == LockInv /\ [Next]_vars => [Contract!LockNext]_Status
<1> SUFFICES ASSUME LockInv, [Next]_vars PROVE [Contract!LockNext]_Status
  OBVIOUS
<1> USE DEF Status, LockInv, TypeOK
<1>1. ASSUME NEW t \in Tasks, Call(t) PROVE Contract!LockNext
  <2>1. CASE pc' = [pc EXCEPT ![t] = "queued"]
    <3>1. Contract!Request(t)
      BY <1>1, <2>1 DEF Call, Contract!Request
    <3> QED BY <3>1 DEF Contract!LockNext
  <2>2. CASE pc' = [pc EXCEPT ![t] = "in"]
    <3>1. PICK e \in Entries : EntryFor(t, e) /\ CanTake(e)
      BY <1>1, <2>2 DEF Call
    <3>2. \A u \in Tasks : pc[u] # "in"
      BY <3>1 DEF EntryFor, CanTake, HeldInv, RefsInv
    <3>3. Contract!RequestAndEnter(t)
      BY <1>1, <2>2, <3>2 DEF Call, Contract!RequestAndEnter, Contract!Free
    <3> QED BY <3>3 DEF Contract!LockNext
  <2> QED BY <1>1, <2>1, <2>2 DEF Call
<1>2. ASSUME NEW t \in Tasks, Cancel(t) PROVE UNCHANGED Status
  BY <1>2 DEF Cancel
<1>3. ASSUME NEW t \in Tasks, Acquired(t) PROVE Contract!LockNext
  <2>1. ~locked[mapped] /\ mapped \in Entries
    BY <1>3, WaiterIsQueued DEF Acquired, HeldInv, Woken
  <2>2. \A u \in Tasks : pc[u] # "in"
    BY <2>1 DEF HeldInv, RefsInv
  <2>3. Contract!Enter(t)
    BY <1>3, <2>2 DEF Acquired, Contract!Enter, Contract!Free
  <2> QED BY <2>3 DEF Contract!LockNext
<1>4. ASSUME NEW t \in Tasks, GiveUp(t) PROVE Contract!LockNext
  <2>1. Contract!GiveUp(t)
    BY <1>4 DEF GiveUp, DropEntry, Contract!GiveUp
  <2> QED BY <2>1 DEF Contract!LockNext
<1>5. ASSUME NEW t \in Tasks, Exit(t) PROVE Contract!LockNext
  <2>1. Contract!Leave(t)
    BY <1>5 DEF Exit, DropEntry, Contract!Leave
  <2> QED BY <2>1 DEF Contract!LockNext
<1>6. CASE UNCHANGED vars
  BY <1>6 DEF vars
<1> QED BY <1>1, <1>2, <1>3, <1>4, <1>5, <1>6 DEF Next

(* The provider implements the lock contract for any number of tasks and
   entries: no two are ever inside one scope (_locks.py 61-82). *)
THEOREM InProcessImplementsContract == Spec => ImplementsContract
<1>1. Init => Contract!LockInit
  BY DEF Init, Status, Contract!LockInit
<1> QED BY <1>1, ContractStep, LockInductive, PTL
        DEF Spec, ImplementsContract, Contract!LockSpec

(* In particular at most one task is in the body of lock(scope) at a time,
   across entries that were dropped and created anew (_locks.py 61-82). *)
THEOREM OneInsideAlways == Spec => []Contract!MutualExclusion
<1>1. LockInv => Contract!MutualExclusion
  BY DEF LockInv, HeldInv, TypeOK, Contract!MutualExclusion, Status
<1> QED BY <1>1, LockInductive, PTL

=============================================================================
