----------------------- MODULE ProcessingInputsProofs -----------------------
(***************************************************************************)
(* For all widths, limits, versions and names: a settled dataset was made   *)
(* with what Cognee reads now, and is not rebuilt for anything else.        *)
(***************************************************************************)
EXTENDS ProcessingInputs, TLAPS

(* Until the process is restarted the live width is the contract's or, once
   it was probed, the model's. *)
WidthInv == Contract # Unset => live \in {Contract, model}

(* A target has the fingerprint of the settings of its process. *)
TargetInv == target # Unset => Contract # Unset /\ target = Fingerprint(Contract)

(* A committed fingerprint tells what the derivatives were made with. *)
RecordInv == record # Unset => built = {record}

(* What a batch has made so far is good if the width still is. *)
BatchInv ==
    /\ pc \in {"purged", "adding", "added"} => built = {}
    /\ pc = "cognified" => built # {}
    /\ pc \in {"cognifying", "cognified"} /\ live = Contract =>
         built \subseteq {Used(Contract)}

Inv == TypeOK /\ WidthInv /\ TargetInv /\ RecordInv /\ BatchInv

-----------------------------------------------------------------------------

(* The effective limit is a limit, and the one that the client asks for
   (_compat.py 709-728). *)
LEMMA LimitIsClients ==
    ASSUME TypeOK
    PROVE  EffectiveLimit(settings) \in Limits /\ EffectiveLimit(settings) = ClientLimit
<1> DEFINE C == {settings.limit, settings.cap} \ {Unset}
<1>1. settings.limit \in Limits /\ settings.cap \in Limits \cup {Unset}
  BY DEF TypeOK, Settings
<1>2. settings.limit \in Int /\ settings.limit # Unset
  BY <1>1, InputsAssumption
<1>3. settings.cap # Unset => settings.cap \in Int
  BY <1>1, InputsAssumption
<1>4. EffectiveLimit(settings) \in C /\ \A c \in C : EffectiveLimit(settings) <= c
  BY <1>2, <1>3 DEF EffectiveLimit
<1>5. \A l, m \in C : (\A c \in C : l <= c) /\ (\A c \in C : m <= c) => l = m
  BY <1>2, <1>3
<1>6. ClientLimit \in C /\ \A c \in C : ClientLimit <= c
  BY <1>4 DEF ClientLimit
<1> QED
  BY <1>1, <1>4, <1>5, <1>6

(* The inputs collected for a profile are those that its pipeline reads
   (_compat.py 602-691). *)
LEMMA InputsAreRead == ASSUME NEW m \in Modes PROVE Inputs(m) = Reads(m)
  BY DEF Modes, Inputs, Reads

(* Hence a fingerprint is what derivatives made at its width depend on. *)
LEMMA PrintIsUse ==
    ASSUME TypeOK, NEW w \in Widths
    PROVE  Fingerprint(w) = Used(w) /\ Used(w) \in Prints
<1>1. mode \in Modes
  BY DEF TypeOK
<1>2. Inputs(mode) = Reads(mode)
  BY <1>1, InputsAreRead
<1>3. EffectiveLimit(settings) = ClientLimit /\ ClientLimit \in Limits
  BY LimitIsClients
<1>4. Fingerprint(w) = Used(w)
  BY <1>2, <1>3 DEF Fingerprint, Used
<1>5. settings.version \in [Names -> Versions]
  BY DEF TypeOK, Settings
<1> DEFINE N == Reads(mode) \cap Names
<1>6. Restrict(settings.version, N) \in [N -> Versions] /\ N \in SUBSET Names
  BY <1>5 DEF Restrict
<1>7. Restrict(settings.version, N) \in UNION {[M -> Versions] : M \in SUBSET Names}
  BY <1>6
<1>8. Used(w) \in Prints
  BY <1>1, <1>3, <1>7 DEF Used, Prints
<1> QED
  BY <1>4, <1>8

(* The fingerprint and the use are the same after a step that changes neither
   settings nor profile. *)
LEMMA SameInputs ==
    ASSUME UNCHANGED <<registry, settings, mode>>
    PROVE  /\ Contract' = Contract
           /\ Fingerprint(Contract)' = Fingerprint(Contract)
           /\ Used(Contract)' = Used(Contract)
  BY DEF Contract, Explicit, Fingerprint, Used, EffectiveLimit, ClientLimit

(* Changed settings are settings. *)
LEMMA ChangedIsSettings == TypeOK /\ ChangeSetting => settings' \in Settings
<1> SUFFICES ASSUME TypeOK, ChangeSetting PROVE settings' \in Settings
  OBVIOUS
<1>1. settings \in Settings
  BY DEF TypeOK
<1>2. CASE \E w \in Widths \cup {Unset} :
             \/ settings' = [settings EXCEPT !.env = w]
             \/ settings' = [settings EXCEPT !.dotenv = w]
  BY <1>1, <1>2 DEF Settings
<1>3. CASE \E l \in Limits : settings' = [settings EXCEPT !.limit = l]
  BY <1>1, <1>3 DEF Settings
<1>4. CASE \E l \in Limits \cup {Unset} : settings' = [settings EXCEPT !.cap = l]
  BY <1>1, <1>4 DEF Settings
<1>5. CASE \E n \in Names, v \in Versions :
             settings' = [settings EXCEPT !.version[n] = v]
  BY <1>1, <1>5 DEF Settings
<1> QED
  BY <1>2, <1>3, <1>4, <1>5 DEF ChangeSetting

(* A process starts with a width, and with the contract's if there is one. *)
LEMMA StartOK ==
    ASSUME registry \in Widths \cup {Unset}, settings \in Settings,
           live \in StartWidths
    PROVE  live \in Widths /\ WidthInv
<1>1. settings.env \in Widths \cup {Unset} /\ settings.dotenv \in Widths \cup {Unset}
  BY DEF Settings
<1> QED
  BY <1>1 DEF StartWidths, WidthInv, Contract, Explicit

-----------------------------------------------------------------------------

LEMMA TypeStep == TypeOK /\ [Next]_vars => TypeOK'
<1> SUFFICES ASSUME TypeOK, [Next]_vars PROVE TypeOK'
  OBVIOUS
<1>1. live \in Widths /\ Fingerprint(live) \in Prints /\ Used(live) \in Prints
  BY PrintIsUse DEF TypeOK
<1>2. CASE Declare
  BY <1>1, <1>2 DEF Declare, TypeOK
<1>3. CASE Purge
  BY <1>3 DEF Purge, TypeOK, Phases
<1>4. ASSUME NEW from \in Phases \ {"idle"}, NEW to \in Phases, Continue(from, to)
      PROVE  TypeOK'
  BY <1>4 DEF Continue, TypeOK
<1>5. CASE StartAdd \/ EndAdd \/ StartCognify
  BY <1>4, <1>5 DEF StartAdd, EndAdd, StartCognify, Phases
<1>6. CASE Build
  BY <1>1, <1>6 DEF Build, TypeOK, Phases
<1>7. CASE Commit
  BY <1>7 DEF Commit, TypeOK, Phases
<1>8. CASE Reject \/ Fail \/ Probe
  BY <1>8 DEF Reject, Fail, Probe, TypeOK, Phases
<1>9. CASE Restart
  <2>1. settings' \in Settings /\ mode' \in Modes
    BY <1>9, ChangedIsSettings DEF Restart, TypeOK
  <2>2. registry' \in Widths \cup {Unset} /\ live' \in StartWidths'
    BY <1>9 DEF Restart, TypeOK
  <2>3. live' \in Widths
    <3>1. settings'.env \in Widths \cup {Unset} /\ settings'.dotenv \in Widths \cup {Unset}
      BY <2>1 DEF Settings
    <3> QED
      BY <2>2, <3>1 DEF StartWidths
  <2> QED
    BY <1>9, <2>1, <2>3 DEF Restart, TypeOK, Phases
<1>10. CASE UNCHANGED vars
  BY <1>10 DEF vars, TypeOK
<1> QED
  BY <1>2, <1>3, <1>5, <1>6, <1>7, <1>8, <1>9, <1>10 DEF Next, Batch, Disturb

(* Every variable of ProcessingInputs keeps its type; a batch runs for a
   declared target, and with no record (_compat.py 746-790). *)
THEOREM InputsTypeCorrect == Spec => []TypeOK
<1>1. Init => TypeOK
  BY StartOK DEF Init, TypeOK, Phases
<1> QED
  BY <1>1, TypeStep, PTL DEF Spec

LEMMA InvInit == Init => Inv
<1> SUFFICES ASSUME Init PROVE Inv
  OBVIOUS
<1>1. TypeOK
  BY StartOK DEF Init, TypeOK, Phases
<1> QED
  BY <1>1, StartOK DEF Init, Inv, TargetInv, RecordInv, BatchInv

(* Every step keeps the invariant.  The one that Cognee takes by itself is
   Probe: under a batch it can only take the width away from the contract. *)
LEMMA InvStep == Inv /\ [Next]_vars => Inv'
<1> SUFFICES ASSUME Inv, [Next]_vars PROVE Inv'
  OBVIOUS
<1>1. TypeOK /\ WidthInv /\ TargetInv /\ RecordInv /\ BatchInv /\ TypeOK'
  BY TypeStep DEF Inv
<1>2. pc # "idle" => /\ target # Unset /\ record = Unset
                     /\ Contract \in Widths /\ target = Fingerprint(Contract)
  BY <1>1 DEF TypeOK, TargetInv, Contract, Explicit, Settings
<1>3. ASSUME UNCHANGED <<registry, settings, mode>>
      PROVE  /\ Contract' = Contract
             /\ Fingerprint(Contract)' = Fingerprint(Contract)
             /\ Used(Contract)' = Used(Contract)
  BY <1>3, SameInputs
<1>4. CASE Declare
  <2>1. Contract' = Contract /\ Fingerprint(Contract)' = Fingerprint(Contract)
    BY <1>3, <1>4 DEF Declare
  <2>2. TargetInv'
    BY <1>4, <2>1 DEF Declare, WidthVerified, TargetInv
  <2> QED
    BY <1>1, <1>4, <2>1, <2>2
    DEF Declare, Inv, WidthInv, RecordInv, BatchInv
<1>5. CASE Purge
  <2>1. Contract' = Contract /\ Fingerprint(Contract)' = Fingerprint(Contract)
    BY <1>3, <1>5 DEF Purge
  <2> QED
    BY <1>1, <1>5, <2>1 DEF Purge, Inv, WidthInv, TargetInv, RecordInv, BatchInv
<1>6. CASE StartAdd \/ EndAdd \/ StartCognify
  <2>1. /\ UNCHANGED <<model, registry, settings, live, mode, target, record, built>>
        /\ \/ pc = "purged" /\ pc' = "adding"
           \/ pc = "adding" /\ pc' = "added"
           \/ pc = "added" /\ pc' = "cognifying"
    BY <1>6 DEF StartAdd, EndAdd, StartCognify, Continue
  <2>2. Contract' = Contract /\ Fingerprint(Contract)' = Fingerprint(Contract)
    BY <1>3, <2>1
  <2> QED
    BY <1>1, <2>1, <2>2 DEF Inv, WidthInv, TargetInv, RecordInv, BatchInv
<1>7. CASE Build
  <2>1. /\ Contract' = Contract /\ Fingerprint(Contract)' = Fingerprint(Contract)
        /\ Used(Contract)' = Used(Contract)
    BY <1>3, <1>7 DEF Build
  <2>2. live' = live /\ built' = built \cup {Used(live)}
    BY <1>7 DEF Build
  <2>3. BatchInv'
    BY <1>1, <1>7, <2>1, <2>2 DEF Build, BatchInv
  <2>4. RecordInv'
    BY <1>2, <1>7 DEF Build, RecordInv
  <2> QED
    BY <1>1, <1>7, <2>1, <2>3, <2>4 DEF Build, Inv, WidthInv, TargetInv
<1>8. CASE Commit
  <2>1. Contract' = Contract /\ Fingerprint(Contract)' = Fingerprint(Contract)
    BY <1>3, <1>8 DEF Commit
  <2>2. built = {Used(Contract)}
    BY <1>1, <1>8 DEF Commit, WidthVerified, BatchInv
  <2>3. target = Used(Contract)
    BY <1>1, <1>2, <1>8, PrintIsUse DEF Commit
  <2>4. RecordInv'
    BY <1>8, <2>2, <2>3 DEF Commit, RecordInv
  <2> QED
    BY <1>1, <1>8, <2>1, <2>4 DEF Commit, Inv, WidthInv, TargetInv, BatchInv
<1>9. CASE Reject \/ Fail
  <2>1. Contract' = Contract /\ Fingerprint(Contract)' = Fingerprint(Contract)
    BY <1>3, <1>9 DEF Reject, Fail
  <2> QED
    BY <1>1, <1>9, <2>1
    DEF Reject, Fail, Inv, WidthInv, TargetInv, RecordInv, BatchInv
<1>10. CASE Probe
  <2>1. /\ Contract' = Contract /\ Fingerprint(Contract)' = Fingerprint(Contract)
        /\ Used(Contract)' = Used(Contract)
    BY <1>3, <1>10 DEF Probe
  <2>2. live' = model /\ live # model /\ model' = model
    BY <1>10 DEF Probe
  <2>3. pc # "idle" => live' # Contract'
    BY <1>1, <1>2, <2>1, <2>2 DEF WidthInv, TargetInv
  <2> QED
    BY <1>1, <1>10, <2>1, <2>2, <2>3
    DEF Probe, Inv, WidthInv, TargetInv, RecordInv, BatchInv
<1>11. CASE Restart
  <2>1. registry' \in Widths \cup {Unset} /\ settings' \in Settings /\ live' \in StartWidths'
    BY <1>1, <1>11 DEF TypeOK, Restart
  <2>2. WidthInv'
    <3>1. settings'.env \in Widths \cup {Unset} /\ settings'.dotenv \in Widths \cup {Unset}
      BY <2>1 DEF Settings
    <3> QED
      BY <2>1, <3>1 DEF StartWidths, WidthInv, Contract, Explicit
  <2> QED
    BY <1>1, <1>11, <2>2 DEF Restart, Inv, TargetInv, RecordInv, BatchInv
<1>12. CASE UNCHANGED vars
  <2>1. /\ Contract' = Contract /\ Fingerprint(Contract)' = Fingerprint(Contract)
        /\ Used(Contract)' = Used(Contract)
    BY <1>3, <1>12 DEF vars
  <2> QED
    BY <1>1, <1>12, <2>1 DEF vars, Inv, WidthInv, TargetInv, RecordInv, BatchInv
<1> QED
  BY <1>4, <1>5, <1>6, <1>7, <1>8, <1>9, <1>10, <1>11, <1>12
  DEF Next, Batch, Disturb

THEOREM InputsInductive == Spec => []Inv
  BY InvInit, InvStep, PTL DEF Spec

(* A settled dataset was made with the inputs that Cognee reads now, at the
   declared width, for all settings, widths and registries
   (_runtime_local.py 230-242 and 288-296, _compat.py 746-853). *)
THEOREM DerivativesAlwaysCurrent == Spec => []DerivativesAreCurrent
<1>1. Inv => DerivativesAreCurrent
  <2> SUFFICES ASSUME Inv, Settled PROVE built = {Used(Contract)}
    BY DEF DerivativesAreCurrent
  <2>1. built = {record} /\ record = Fingerprint(Contract) /\ Contract # Unset
    BY DEF Inv, Settled, RecordInv, TargetInv
  <2>2. Contract \in Widths
    BY <2>1 DEF Inv, TypeOK, Contract, Explicit, Settings
  <2> QED
    BY <2>1, <2>2, PrintIsUse DEF Inv
<1> QED
  BY <1>1, InputsInductive, PTL

(* Derivatives that are still good are never thrown away
   (_compat.py 683-705 and 709-728). *)
THEOREM NeverRebuiltNeedlessly == Spec => NoNeedlessRebuild
<1>1. Inv /\ [Next]_vars => [Purge /\ record # Unset => built # {Used(Contract)}]_vars
  <2> SUFFICES ASSUME Inv, Purge, record # Unset PROVE built # {Used(Contract)}
    OBVIOUS
  <2>1. built = {record} /\ target = Fingerprint(Contract) /\ Contract # Unset
    BY DEF Inv, Purge, RecordInv, TargetInv
  <2>2. Contract \in Widths
    BY <2>1 DEF Inv, TypeOK, Contract, Explicit, Settings
  <2>3. record # Used(Contract)
    BY <2>1, <2>2, PrintIsUse DEF Inv, Purge
  <2> QED
    BY <2>1, <2>3
<1> QED
  BY <1>1, InputsInductive, PTL DEF Spec, NoNeedlessRebuild
=============================================================================
