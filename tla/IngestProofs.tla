----------------------------- MODULE IngestProofs -----------------------------
(***************************************************************************)
(* For any payloads and groups: add_documents and cognify_dataset return   *)
(* only when the work is done, and do not refuse a regular answer.         *)
(***************************************************************************)
EXTENDS Ingest, FiniteSetTheorems, TLAPS

\* What the reports under examination can be.
ResultInv ==
  /\ pc = "added" =>
       /\ result.group \in todo
       /\ result.run \in Reports(Cardinality(Items))
       /\ HonestAdd(result.run, stored \intersect Members(result.group), known)
  /\ pc = "cognified" =>
       /\ result \in CognifyResults
       /\ HonestCognify(result, processed = stored)

\* The id of the dataset is looked up when no group is left.
TodoInv == pc = "resolving" => todo = {}

Inv ==
  TypeOK /\ ResultInv /\ TodoInv /\ NoFalseSuccess /\ stored \subseteq Items

-----------------------------------------------------------------------------
(* The guard.                                                              *)

\* An item's run has no error, however deep, when its report has none.
LEMMA EntriesNotErrored ==
  ASSUME NEW run, ~Errored(run), run # Nothing, run.info # Nothing,
         NEW i \in DOMAIN run.info, run.info[i] \in ItemRuns
  PROVE  ~Errored(run.info[i])
<1> DEFINE entry == run.info[i]
           children == Entries(entry)
<1>1. entry \in Entries(run)
  BY DEF Entries
<1>2. \A c \in children : Entries(c) = {}
  <2> SUFFICES ASSUME NEW c \in children, c # Nothing PROVE c.info = Nothing
    BY DEF Entries
  <2>1. PICK j \in DOMAIN entry.info : c = entry.info[j]
    BY DEF Entries
  <2>2. entry.info # Nothing
    BY DEF Entries
  <2>3. PICK type : entry.info = <<OwnRun(type, Nothing)>>
    <3>1. \/ \E t, d, n : entry = Run(t, d, n, Nothing)
          \/ \E t : entry = Run("Completed", Requested, Requested,
                               <<OwnRun(t, Nothing)>>)
      BY DEF ItemRuns, OwnRun
    <3>2. \A t, d, n, x : Run(t, d, n, x).info = x
      BY DEF Run
    <3> HIDE DEF entry
    <3>3. PICK t : entry = Run("Completed", Requested, Requested,
                               <<OwnRun(t, Nothing)>>)
      BY <2>2, <3>1, <3>2
    <3>4. entry.info = <<OwnRun(t, Nothing)>>
      BY <3>2, <3>3
    <3> QED
      BY <3>4
  <2>4. c = OwnRun(type, Nothing)
    BY <2>1, <2>3
  <2> QED
    BY <2>4 DEF OwnRun, Run
<1>3. AllRuns(entry) \subseteq {entry} \union children
  BY <1>2 DEF AllRuns
<1>4. ({entry} \union children) \ {Nothing} \subseteq AllRuns(run)
  BY <1>1 DEF AllRuns
<1>5. AllRuns(entry) \subseteq AllRuns(run)
  BY <1>3, <1>4 DEF AllRuns
<1> QED
  BY <1>5 DEF Errored

\* A report that passes for a group is backed by every payload of the group.
LEMMA AcceptedIsHeld ==
  ASSUME NEW S, IsFiniteSet(S), NEW held \in SUBSET S,
         NEW run \in Reports(Cardinality(Items)), NEW hasId,
         AcceptsAdd(run, Cardinality(S), hasId), HonestAdd(run, held, hasId)
  PROVE  held = S
<1> DEFINE n == Cardinality(S)
<1>1. /\ run # Nothing /\ run.info # Nothing
      /\ Claims(run) /\ (hasId => run.id = Requested)
  BY DEF AcceptsAdd, Terminal, Succeeded, Claims
<1>2. PICK m \in 0..Cardinality(Items) :
        run.info \in [1..m -> ItemRuns \union {Nothing}]
  BY <1>1 DEF Reports, Infos, Run
<1>3. m = n /\ DOMAIN run.info = 1..n
  BY <1>2 DEF AcceptsAdd
<1>4. \A i \in DOMAIN run.info : Claims(run.info[i]) /\ run.info[i].id = run.id
  <2> SUFFICES ASSUME NEW i \in DOMAIN run.info
               PROVE  Claims(run.info[i]) /\ run.info[i].id = run.id
    OBVIOUS
  <2>1. run.info[i] \in Entries(run)
    BY <1>1 DEF Entries
  <2>2. /\ Succeeded(run.info[i])
        /\ run.info[i].name = Requested /\ run.info[i].id = run.id
    BY <2>1 DEF AcceptsAdd, EntriesSucceed
  <2>3. run.info[i] \in ItemRuns
    BY <1>2, <2>2 DEF Succeeded
  <2> QED
    BY <1>1, <2>2, <2>3, EntriesNotErrored DEF Claims, AcceptsAdd
<1>5. {i \in DOMAIN run.info :
          Claims(run.info[i]) /\ run.info[i].id = run.id} = 1..n
  BY <1>3, <1>4
<1>6. n \in Nat /\ Cardinality(1..n) = n
  BY FS_CardinalityType, FS_Interval
<1>7. n <= Cardinality(held)
  BY <1>1, <1>5, <1>6 DEF HonestAdd
<1>8. Cardinality(held) \in Nat /\ Cardinality(held) <= n
  BY FS_Subset, FS_CardinalityType
<1> QED
  BY <1>6, <1>7, <1>8, FS_Subset

LEMMA MembersFinite ==
  ASSUME TypeOK, NEW g \in Groups
  PROVE  IsFiniteSet(Members(g)) /\ Members(g) \subseteq Items
BY FS_Subset, IngestAssumption DEF Members

-----------------------------------------------------------------------------
(* The steps.                                                              *)

LEMMA InitInv == Init => Inv
BY DEF Init, Inv, TypeOK, ResultInv, TodoInv, NoFalseSuccess

LEMMA AddStep == ASSUME Inv, NEW g \in Groups, Add(g) PROVE Inv'
<1>1. PICK done \in SUBSET Members(g), run \in Reports(Cardinality(Items)) :
        /\ stored' = stored \union done
        /\ HonestAdd(run, stored' \intersect Members(g), known)
        /\ materialized' \in {TRUE, materialized \/ done # {}}
        /\ result' = [group |-> g, run |-> run]
  BY DEF Add
<1>2. /\ UNCHANGED <<groupOf, todo, known, processed>>
      /\ pc = "adding" /\ pc' = "added" /\ g \in todo
  BY DEF Add
<1>3. Members(g)' = Members(g) /\ Members(g) \subseteq Items
  BY <1>2 DEF Members
<1>4. TypeOK' /\ stored' \subseteq Items
  BY <1>1, <1>2, <1>3 DEF Inv, TypeOK
<1>5. ResultInv'
  <2>1. HonestAdd(run, stored' \intersect Members(g)', known')
    BY <1>1, <1>2, <1>3
  <2> QED
    BY <1>1, <1>2, <2>1 DEF ResultInv, HonestAdd
<1>6. NoFalseSuccess' /\ TodoInv'
  BY <1>1, <1>2 DEF Inv, NoFalseSuccess, TodoInv
<1> QED
  BY <1>4, <1>5, <1>6 DEF Inv

LEMMA AcceptGroupStep == ASSUME Inv, AcceptGroup PROVE Inv'
<1> DEFINE g == result.group
<1>1. /\ pc = "added" /\ g \in todo /\ g \in Groups
      /\ result.run \in Reports(Cardinality(Items))
      /\ HonestAdd(result.run, stored \intersect Members(g), known)
      /\ AcceptsAdd(result.run, Cardinality(Members(g)), known)
  BY DEF AcceptGroup, Inv, ResultInv, TypeOK
<1>2. Members(g) \subseteq stored
  <2>1. IsFiniteSet(Members(g))
    BY <1>1, MembersFinite DEF Inv
  <2>2. stored \intersect Members(g) = Members(g)
    BY <1>1, <2>1, AcceptedIsHeld
  <2> QED
    BY <2>2
<1>3. /\ UNCHANGED <<groupOf, known, materialized, stored, processed>>
      /\ todo' = todo \ {g}
      /\ pc' = IF todo' # {} THEN "adding"
               ELSE IF known THEN "returned" ELSE "resolving"
  BY DEF AcceptGroup
<1>4. \A i \in Items : groupOf[i] \notin todo' => i \in stored
  BY <1>1, <1>2, <1>3 DEF Inv, NoFalseSuccess, Members
<1>5. todo' = {} => stored = Items
  BY <1>4 DEF Inv
<1> HIDE DEF g
<1>6. TypeOK' /\ ResultInv' /\ TodoInv'
  BY <1>3 DEF Inv, TypeOK, ResultInv, TodoInv
<1>7. NoFalseSuccess'
  BY <1>3, <1>4, <1>5 DEF NoFalseSuccess
<1> QED
  BY <1>3, <1>6, <1>7 DEF Inv

LEMMA CognifyStep == ASSUME Inv, Cognify PROVE Inv'
<1>1. PICK done \in SUBSET stored, reports \in CognifyResults :
        /\ HonestCognify(reports, processed \union done = stored)
        /\ processed' = processed \union done
        /\ result' = reports
  BY DEF Cognify
<1>2. /\ UNCHANGED <<groupOf, todo, known, materialized, stored>>
      /\ pc = "returned" /\ pc' = "cognified"
  BY DEF Cognify
<1> QED
  BY <1>1, <1>2
  DEF Inv, TypeOK, ResultInv, TodoInv, NoFalseSuccess, HonestCognify

LEMMA AcceptCognifyStep == ASSUME Inv, AcceptCognify PROVE Inv'
<1>1. processed = stored
  <2>1. /\ Requested \in DOMAIN result /\ Claims(result[Requested])
        /\ result[Requested].id = Requested
    BY DEF AcceptCognify, AcceptsCognify, Terminal, Claims
  <2> QED
    BY <2>1 DEF AcceptCognify, Inv, ResultInv, HonestCognify
<1> QED
  BY <1>1 DEF AcceptCognify, Inv, TypeOK, ResultInv, TodoInv, NoFalseSuccess

LEMMA OtherSteps ==
  ASSUME Inv, Begin \/ LearnDataset \/ RejectResult \/ Fail \/ UNCHANGED vars
  PROVE  Inv'
<1> USE DEF Inv, TypeOK, ResultInv, TodoInv, NoFalseSuccess
<1>1. CASE Begin
  <2>1. known' \in BOOLEAN
    BY <1>1 DEF Begin
  <2>2. /\ groupOf' \in [Items -> Groups]
        /\ stored' \subseteq Items /\ processed' \subseteq stored'
    BY <1>1 DEF Begin
  <2>3. /\ todo' = {groupOf'[i] : i \in Items}
        /\ pc' = "adding" /\ UNCHANGED materialized
    BY <1>1 DEF Begin
  <2> QED BY <2>1, <2>2, <2>3
<1>2. CASE LearnDataset
  BY <1>2 DEF LearnDataset
<1>3. CASE RejectResult \/ Fail
  BY <1>3 DEF RejectResult, Fail
<1>4. CASE UNCHANGED vars
  BY <1>4 DEF vars, Members
<1> QED
  BY <1>1, <1>2, <1>3, <1>4

LEMMA StepInv == Inv /\ [Next]_vars => Inv'
BY AddStep, AcceptGroupStep, CognifyStep, AcceptCognifyStep, OtherSteps DEF Next

-----------------------------------------------------------------------------
(* The theorems.                                                           *)

\* The invariant holds in every reachable state.
THEOREM IngestInductive == Spec => []Inv
BY InitInv, StepInv, PTL DEF Spec

\* Every variable keeps its type; only stored items are processed
\* (_runtime_local.py 173-296).
THEOREM IngestTypeCorrect == Spec => []TypeOK
<1>1. Inv => TypeOK
  BY DEF Inv
<1> QED
  BY <1>1, IngestInductive, PTL

\* add_documents and cognify_dataset return only when every payload is stored
\* and processed, however Cognee's reports are shaped (_runtime_local.py
\* 579-692).
THEOREM NeverFalseSuccess == Spec => []NoFalseSuccess
<1>1. Inv => NoFalseSuccess
  BY DEF Inv
<1> QED
  BY <1>1, IngestInductive, PTL

\* A run that lists no run but plain successes has no error.
LEMMA RegularNotErrored ==
  ASSUME NEW type \in Success, NEW info,
         NEW run, run = OwnRun(type, info),
         \A e \in Entries(run) : \E t \in Success : e = OwnRun(t, Nothing)
  PROVE  ~Errored(run)
<1>1. \A e \in Entries(run) : Entries(e) = {}
  BY DEF Entries, OwnRun, Run
<1>2. AllRuns(run) \subseteq {run} \union Entries(run)
  BY <1>1 DEF AllRuns
<1>3. \A t \in Success : \A i : OwnRun(t, i).type # "Errored"
  BY DEF Success, OwnRun, Run
<1> QED
  BY <1>2, <1>3 DEF Errored

\* Regular answers are accepted: documents that Cognee took are not retried
\* for ever (_runtime_local.py 641-685).
THEOREM NeverFalseFailure == Spec => NoFalseFailure
<1>1. ASSUME Inv, RejectResult, pc = "added", RegularAdd PROVE FALSE
  <2> DEFINE n == Cardinality(Members(result.group))
             plain == {OwnRun(type, Nothing) : type \in Success}
  <2>1. PICK type \in Success, info \in [1..n -> plain] :
          result.run = OwnRun(type, info)
    BY <1>1 DEF RegularAdd
  <2>2. /\ n \in Nat /\ n <= Cardinality(Items)
        /\ Cardinality(Items) \in Nat
    <3>1. result.group \in Groups
      BY <1>1 DEF Inv, ResultInv, TypeOK
    <3>2. /\ IsFiniteSet(Members(result.group))
          /\ Members(result.group) \subseteq Items
      BY <1>1, <3>1, MembersFinite DEF Inv
    <3> QED
      BY <3>2, FS_Subset, FS_CardinalityType, IngestAssumption
  <2>3. plain \subseteq ItemRuns
    BY DEF ItemRuns, Types, Datasets, Ids, OwnRun, Run
  <2>4. info # Nothing /\ Len(info) = n
    BY <2>2, <2>3, IngestAssumption
  <2>5. result.run # Nothing
    <3>1. /\ info \in Infos(Cardinality(Items)) /\ type \in Types
          /\ Requested \in Ids /\ Requested \in Datasets
      BY <2>2, <2>3 DEF Infos, Types, Datasets, Ids
    <3>2. OwnRun(type, info)
            \in [type : Types, id : Ids, name : Datasets,
                 info : Infos(Cardinality(Items))]
      BY <3>1 DEF OwnRun, Run
    <3> QED
      BY <2>1, <3>2, IngestAssumption
  <2>6. \A e \in plain : e # Nothing
    <3>1. \A e \in plain : e \in [type : Types,
                                  id : Ids, name : Datasets,
                                  info : Infos(Cardinality(Items))]
      BY DEF OwnRun, Run, Types, Datasets, Ids, Infos
    <3> QED
      BY <3>1, IngestAssumption
  <2>7. result.run.type = type /\ result.run.id = Requested
        /\ result.run.name = Requested
        /\ result.run.info = info
    BY <2>1 DEF OwnRun, Run
  <2>8. Entries(result.run) \subseteq plain
    BY <2>2, <2>7 DEF Entries
  <2>9. ~Errored(result.run)
    BY <2>1, <2>8, RegularNotErrored
  <2>10. Terminal(result.run, known) /\ EntriesSucceed(result.run)
    BY <2>5, <2>6, <2>7, <2>8, IngestAssumption
    DEF Terminal, EntriesSucceed, Succeeded, OwnRun, Run, Datasets
  <2>11. AcceptsAdd(result.run, n, known)
    BY <2>4, <2>7, <2>9, <2>10 DEF AcceptsAdd
  <2> QED
    BY <1>1, <2>11 DEF RejectResult
<1>2. ASSUME RejectResult, pc = "cognified", RegularCognify PROVE FALSE
  <2>1. PICK type \in Success :
          result = [d \in {Requested} |-> OwnRun(type, Nothing)]
    BY <1>2 DEF RegularCognify
  <2> DEFINE run == OwnRun(type, Nothing)
  <2>2. DOMAIN result = {Requested} /\ result[Requested] = run
    BY <2>1
  <2>3. run \in [type : Types, id : Ids, name : Datasets,
                 info : Infos(Cardinality(Items))]
    BY DEF OwnRun, Run, Types, Datasets, Ids, Infos
  <2>4. run # Nothing /\ Entries(run) = {}
    BY <2>3, IngestAssumption DEF Entries, OwnRun, Run
  <2>5. ~Errored(run)
    BY <2>4, RegularNotErrored
  <2>6. Terminal(run, TRUE) /\ EntriesSucceed(run)
    BY <2>4, IngestAssumption
    DEF Terminal, EntriesSucceed, Succeeded, OwnRun, Run, Datasets
  <2>7. AcceptsCognify(result)
    BY <2>2, <2>5, <2>6 DEF AcceptsCognify
  <2> QED
    BY <1>2, <2>7 DEF RejectResult
<1>3. Inv /\ [Next]_vars
        => [RejectResult => CASE pc = "added" -> ~RegularAdd
                              [] pc = "cognified" -> ~RegularCognify]_vars
  BY <1>1, <1>2 DEF RejectResult
<1> QED
  BY <1>3, IngestInductive, PTL DEF Spec, NoFalseFailure
=============================================================================
