---------------------------- MODULE VerifyProofs ----------------------------
(***************************************************************************)
(* For any keys, labels and dataset ids: a report of verify_dataset is      *)
(* exact for the rows that the last writer left.                            *)
(***************************************************************************)
EXTENDS Verify, TLAPS

\* What the lock gives: without a writer the rows are settled, and
\* verification that resolves or lists is the holder.
LockInv ==
  /\ holder # Writer => settled = rows
  /\ pc \in {"resolving", "listing"} => holder = Verifier

Inv == TypeOK /\ LockInv /\ ListsPresentDataset /\ ReportIsExact

-----------------------------------------------------------------------------

\* The comparison finds an issue for exactly the documents that are not as
\* expected (_verify.py 140-188).
LEMMA CompareIsExact ==
  ASSUME NEW stored \in Snapshots,
         expected \in [Keys -> Labels \union {NoRow}]
  PROVE  /\ Compare(stored) \subseteq Issues
         /\ \A k \in Keys :
              (\E issue \in Compare(stored) : issue.key = k)
                <=> stored[k] # Wanted(k)
<1>1. Compare(stored) \subseteq Issues
  BY DEF Compare, Issue, Issues
<1>2. ASSUME NEW k \in Keys
      PROVE  (\E issue \in Compare(stored) : issue.key = k)
               <=> stored[k] # Wanted(k)
  <2>1. stored[k] \in Rows \union {NoRow} /\ expected[k] \in Labels \union {NoRow}
    BY DEF Snapshots
  <2>2. (\E issue \in Compare(stored) : issue.key = k)
          <=> \/ expected[k] # NoRow /\ stored[k] = NoRow
              \/ expected[k] = NoRow /\ stored[k] # NoRow
              \/ /\ expected[k] # NoRow /\ stored[k] # NoRow
                 /\ ~stored[k].complete \/ stored[k].label # expected[k]
    <3> DEFINE missing == {j \in Keys : expected[j] # NoRow /\ stored[j] = NoRow}
               unexpected == {j \in Keys : expected[j] = NoRow /\ stored[j] # NoRow}
               both == {j \in Keys : expected[j] # NoRow /\ stored[j] # NoRow}
               incomplete == {j \in both : ~stored[j].complete}
               mislabelled == {j \in both : stored[j].label # expected[j]}
               found == {Issue("missing", j) : j \in missing}
                        \union {Issue("unexpected", j) : j \in unexpected}
                        \union {Issue("incomplete", j) : j \in incomplete}
                        \union {Issue("label_mismatch", j) : j \in mislabelled}
    <3>1. Compare(stored) = found
      BY DEF Compare
    <3>2. \A kind, j : Issue(kind, j).key = j
      BY DEF Issue
    <3>3. (\E issue \in found : issue.key = k)
            <=> k \in missing \union unexpected \union incomplete \union mislabelled
      <4> HIDE DEF missing, unexpected, incomplete, mislabelled
      <4> QED
        BY <3>2
    <3> QED
      BY <3>1, <3>3
  <2>3. CASE stored[k] = NoRow
    <3>1. expected[k] # NoRow => Wanted(k) \in Rows
      BY <2>1 DEF Wanted, Rows
    <3>2. Wanted(k) = NoRow <=> expected[k] = NoRow
      BY <3>1, VerifyAssumption DEF Wanted
    <3> QED
      BY <2>2, <2>3, <3>2
  <2>4. CASE stored[k] \in Rows
    <3>1. stored[k] # NoRow
      BY <2>4, VerifyAssumption
    <3>2. stored[k].complete \in BOOLEAN
          /\ stored[k] = [label |-> stored[k].label, complete |-> stored[k].complete]
      BY <2>4 DEF Rows
    <3>3. CASE expected[k] = NoRow
      BY <2>2, <3>1, <3>3 DEF Wanted
    <3>4. CASE expected[k] # NoRow
      <4>1. Wanted(k) = [label |-> expected[k], complete |-> TRUE]
        BY <3>4 DEF Wanted
      <4>2. stored[k] = Wanted(k)
              <=> stored[k].label = expected[k] /\ stored[k].complete
        <5>1. stored[k] = Wanted(k)
                => stored[k].label = expected[k] /\ stored[k].complete
          BY <4>1
        <5>2. ASSUME stored[k].label = expected[k], stored[k].complete
              PROVE  stored[k] = Wanted(k)
          <6>1. stored[k].complete = TRUE
            BY <3>2, <5>2
          <6> QED
            BY <3>2, <4>1, <5>2, <6>1
        <5> QED
          BY <5>1, <5>2
      <4> QED
        BY <2>2, <3>1, <3>4, <4>2
    <3> QED
      BY <3>3, <3>4
  <2> QED
    BY <2>1, <2>3, <2>4
<1> QED
  BY <1>1, <1>2

LEMMA InitInv == Init => Inv
  BY DEF Init, Inv, TypeOK, LockInv, ListsPresentDataset, ReportIsExact, Empty,
         Snapshots

\* Writers work under the lock, and none of their steps touches verification.
LEMMA WriterStep ==
  ASSUME Inv,
         \/ BeginWrite \/ CompleteRows \/ Teardown \/ EndWrite
         \/ \E k \in Keys : DeleteRow(k) \/ \E label \in Labels : AddRow(k, label)
  PROVE  Inv'
<1> USE DEF Inv, TypeOK, LockInv, ListsPresentDataset
<1> DEFINE WriterFrame ==
             /\ UNCHANGED <<expected, handle, issues, observed, pc>>
             /\ holder' \in {Writer, Nobody}
             /\ holder' # Writer => settled' = rows'
             /\ settled' \in Snapshots
             /\ pc \notin {"resolving", "listing"}
<1>1. WriterFrame
  <2>1. CASE BeginWrite
    BY <2>1, VerifyAssumption DEF BeginWrite, Lock, verification, Writer, Verifier
  <2>2. CASE CompleteRows
    BY <2>2, VerifyAssumption DEF CompleteRows, verification, Writer, Verifier
  <2>3. CASE Teardown
    BY <2>3, VerifyAssumption DEF Teardown, verification, Writer, Verifier
  <2>4. CASE EndWrite
    BY <2>4, VerifyAssumption DEF EndWrite, Unlock, verification, Writer, Verifier
  <2>5. ASSUME NEW k \in Keys, DeleteRow(k)
        PROVE  WriterFrame
    BY <2>5, VerifyAssumption DEF DeleteRow, verification, Writer, Verifier
  <2>6. ASSUME NEW k \in Keys, NEW label \in Labels, AddRow(k, label)
        PROVE  WriterFrame
    BY <2>6, VerifyAssumption DEF AddRow, verification, Writer, Verifier
  <2> QED
    BY <2>1, <2>2, <2>3, <2>4, <2>5, <2>6
<1>2. dataset' \in Generations \union {NoDataset} /\ rows' \in Snapshots
  <2>1. CASE BeginWrite \/ EndWrite
    BY <2>1 DEF BeginWrite, EndWrite
  <2>2. CASE CompleteRows
    BY <2>2 DEF CompleteRows, Snapshots, Rows
  <2>3. CASE Teardown
    BY <2>3 DEF Teardown, Empty, Snapshots
  <2>4. ASSUME NEW k \in Keys, DeleteRow(k)
        PROVE  dataset' \in Generations \union {NoDataset} /\ rows' \in Snapshots
    BY <2>4 DEF DeleteRow, Snapshots
  <2>5. ASSUME NEW k \in Keys, NEW label \in Labels, AddRow(k, label)
        PROVE  dataset' \in Generations \union {NoDataset} /\ rows' \in Snapshots
    <3>1. PICK complete \in {FALSE, rows[k] # NoRow /\ rows[k].complete} :
            rows' = [rows EXCEPT ![k] = [label |-> label, complete |-> complete]]
      BY <2>5 DEF AddRow
    <3>2. complete \in BOOLEAN
      BY VerifyAssumption DEF Snapshots, Rows
    <3> QED
      BY <2>5, <3>1, <3>2 DEF AddRow, Snapshots, Rows
  <2> QED
    BY <2>1, <2>2, <2>3, <2>4, <2>5
<1>3. dataset' = NoDataset => rows' = Empty
  <2>1. CASE BeginWrite \/ EndWrite
    BY <2>1 DEF BeginWrite, EndWrite
  <2>2. CASE CompleteRows
    BY <2>2 DEF CompleteRows, Empty
  <2>3. CASE Teardown
    BY <2>3 DEF Teardown
  <2>4. ASSUME NEW k \in Keys, DeleteRow(k), dataset' = NoDataset
        PROVE  rows' = Empty
    <3>1. rows = Empty /\ rows' = [rows EXCEPT ![k] = NoRow]
      BY <2>4 DEF DeleteRow
    <3>2. [Empty EXCEPT ![k] = NoRow] = Empty
      BY DEF Empty
    <3> QED
      BY <3>1, <3>2
  <2>5. ASSUME NEW k \in Keys, NEW label \in Labels, AddRow(k, label)
        PROVE  dataset' # NoDataset
    BY <2>5, VerifyAssumption DEF AddRow
  <2> QED
    BY <2>1, <2>2, <2>3, <2>4, <2>5
<1>4. ReportIsExact'
  BY <1>1 DEF ReportIsExact, Wanted
<1> QED
  BY <1>1, <1>2, <1>3, <1>4

LEMMA VerifierStep ==
  ASSUME Inv, Call \/ EnterLock \/ ResolveAgain \/ List \/ Fail
  PROVE  Inv'
<1> USE DEF Inv, TypeOK, LockInv, ListsPresentDataset
<1>1. CASE Call
  BY <1>1 DEF Call, ReportIsExact, Snapshots, Empty
<1>2. CASE EnterLock
  BY <1>2, VerifyAssumption DEF EnterLock, Lock, ReportIsExact
<1>3. CASE ResolveAgain
  BY <1>3 DEF ResolveAgain, ReportIsExact
<1>4. CASE List
  <2>1. holder = Verifier /\ handle = dataset /\ settled = rows
    BY <1>4 DEF List, Writer, Verifier
  <2>2. Listed = rows
    BY <2>1 DEF Listed
  <2>3. ReportIsExact' /\ issues' \subseteq Issues
    <3>1. issues' = Compare(rows) /\ observed' = rows /\ expected' = expected
      BY <1>4, <2>1, <2>2 DEF List
    <3>2. \A k : Wanted(k)' = Wanted(k)
      BY <3>1 DEF Wanted
    <3> QED
      BY <3>1, <3>2, CompareIsExact DEF ReportIsExact
  <2> QED
    BY <1>4, <2>1, <2>3 DEF List
<1>5. CASE Fail
  BY <1>5, VerifyAssumption DEF Fail, ReportIsExact, Writer, Verifier
<1> QED
  BY <1>1, <1>2, <1>3, <1>4, <1>5

LEMMA StutterStep == ASSUME Inv, UNCHANGED vars PROVE Inv'
  BY DEF vars, Inv, TypeOK, LockInv, ListsPresentDataset, ReportIsExact, Wanted

\* All of it holds in every reachable state.
THEOREM VerifyInductive == Spec => []Inv
<1>1. Inv /\ [Next]_vars => Inv'
  BY WriterStep, VerifierStep, StutterStep DEF Next
<1> QED
  BY <1>1, InitInv, PTL DEF Spec

\* Every variable of Verify keeps its type, and without a dataset there are no
\* rows (_verify.py 88-195).
THEOREM VerifyTypeCorrect == Spec => []TypeOK
<1>1. Inv => TypeOK
  BY DEF Inv
<1> QED
  BY <1>1, VerifyInductive, PTL

\* A report has an issue for exactly the documents that differ from what is
\* expected in the rows that the last writer left (_verify.py 126-188).
THEOREM ReportAlwaysExact == Spec => []ReportIsExact
<1>1. Inv => ReportIsExact
  BY DEF Inv
<1> QED
  BY <1>1, VerifyInductive, PTL

\* The list is read through the present id of the dataset, however often it was
\* deleted and created while verification waited (_verify.py 128-131).
THEOREM PresentDatasetListed == Spec => []ListsPresentDataset
<1>1. Inv => ListsPresentDataset
  BY DEF Inv
<1> QED
  BY <1>1, VerifyInductive, PTL
-----------------------------------------------------------------------------
(* The lock's contract                                                     *)

\* Every step keeps the contract or leaves the place of both clients alone.
LEMMA LockUseStep ==
  ASSUME Inv, [Next]_vars
  PROVE  [LockUse!LockNext]_LockStatus
<1> USE DEF LockStatus, LockUse!LockNext, LockUse!Request, LockUse!Enter,
            LockUse!RequestAndEnter, LockUse!GiveUp, LockUse!Leave,
            LockUse!Free, Writer, Verifier
<1>1. CASE BeginWrite
  <2>1. LockUse!RequestAndEnter(Writer)
    BY <1>1, VerifyAssumption DEF Inv, LockInv, BeginWrite, Lock, verification
  <2> QED BY <2>1
<1>2. CASE EndWrite
  <2>1. LockUse!Leave(Writer)
    BY <1>2, VerifyAssumption DEF EndWrite, Unlock, verification
  <2> QED BY <2>1
<1>3. CASE Call
  <2>1. LockUse!Request(Verifier)
    BY <1>3 DEF Call
  <2> QED BY <2>1
<1>4. CASE EnterLock
  <2>1. LockUse!Enter(Verifier)
    BY <1>4, VerifyAssumption DEF EnterLock, Lock
  <2> QED BY <2>1
<1>5. CASE ResolveAgain
  BY <1>5 DEF ResolveAgain
<1>6. CASE List
  <2>1. LockUse!Leave(Verifier)
    BY <1>6, VerifyAssumption DEF Inv, LockInv, List
  <2> QED BY <2>1
<1>7. CASE Fail
  <2>1. CASE pc = "waiting"
    <3>1. LockUse!GiveUp(Verifier)
      BY <1>7, <2>1, VerifyAssumption DEF Fail, Inv, LockInv
    <3> QED BY <3>1
  <2>2. CASE pc # "waiting"
    <3>1. LockUse!Leave(Verifier)
      BY <1>7, <2>2, VerifyAssumption DEF Inv, LockInv, Fail
    <3> QED BY <3>1
  <2> QED BY <2>1, <2>2
<1>8. CASE UNCHANGED <<holder, pc>>
  BY <1>8
<1>9. CompleteRows \/ Teardown \/ UNCHANGED vars
      \/ (\E k \in Keys : DeleteRow(k) \/ \E label \in Labels : AddRow(k, label))
        => UNCHANGED <<holder, pc>>
  BY DEF CompleteRows, Teardown, DeleteRow, AddRow, verification, vars
<1> QED
  BY <1>1, <1>2, <1>3, <1>4, <1>5, <1>6, <1>7, <1>8, <1>9 DEF Next

\* verify_dataset and the writers are clients of one dataset lock
\* (_verify.py 127-137, _target.py 273, 430).
THEOREM VerifySharesLock == Spec => SharesDatasetLock
<1>1. Init => LockUse!LockInit
  BY VerifyAssumption DEF Init, LockUse!LockInit, LockStatus, Writer, Verifier
<1>2. Inv /\ [Next]_vars => [LockUse!LockNext]_LockStatus
  BY LockUseStep
<1> QED
  BY <1>1, <1>2, VerifyInductive, PTL
     DEF Spec, SharesDatasetLock, LockUse!LockSpec
=============================================================================
