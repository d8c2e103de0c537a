-------------------------- MODULE ProcessingInputs --------------------------
(***************************************************************************)
(* The Cognee settings that shape a dataset's derivatives, and the          *)
(* fingerprint that a target takes of them when it is constructed           *)
(* (configured_processing_inputs and validate_embedding_dimensions of       *)
(* _compat.py, processing_config_from_profile of _spec.py).                 *)
(*                                                                          *)
(* Callers change settings between flow runs only, here with a new process. *)
(* One input is changed by Cognee itself: a connection probe, of any        *)
(* pipeline in the process and at any time, may rewrite the embedding width *)
(* that a target has already recorded.  The local runtime therefore checks  *)
(* the width again before and after its calls of add and cognify.           *)
(*                                                                          *)
(* The dataset is rebuilt as a whole; what its documents do to each other   *)
(* is DocumentSync's subject.                                               *)
(***************************************************************************)
EXTENDS Integers, Functions

CONSTANTS
    Widths,     \* embedding widths
    Limits,     \* completion-token ceilings
    Versions,   \* values of every other input
    Names,      \* the inputs among Classes that settings tell apart
    Unset       \* not set, not registered, not declared

(* What is read in every mode; by extraction and summarization; the default
   graph prompt; the prompts of the temporal pipeline. *)
Classes == {"common", "staged", "graph", "temporal"}

(* Profiles: the defaults, a custom graph prompt, the temporal pipeline. *)
Modes == {"default", "custom", "temporal"}

ASSUME InputsAssumption ==
    /\ Names \subseteq Classes
    /\ Limits \subseteq Int
    /\ Unset \notin Widths \cup Limits

Settings == [env     : Widths \cup {Unset},   \* EMBEDDING_DIMENSIONS
             dotenv  : Widths \cup {Unset},   \* the same in Cognee's .env
             limit   : Limits,                \* llm_max_completion_tokens
             cap     : Limits \cup {Unset},   \* the LLM registry's limit
             version : [Names -> Versions]]

VARIABLES
    model,     \* the embedding model's actual width
    registry,  \* the width registered for it, or Unset
    settings,  \* what the process started with
    live,      \* embedding_dimensions of the process's EmbeddingConfig
    mode,      \* the profile of the declaration
    target,    \* the fingerprint of the constructed target, or Unset
    record,    \* the fingerprint committed for the dataset, or Unset
    built,     \* what the dataset's derivatives were made with
    pc

vars == <<model, registry, settings, live, mode, target, record, built, pc>>

-----------------------------------------------------------------------------
(* The fingerprint. *)

(* _explicit_embedding_dimensions: the environment goes before the file. *)
Explicit(s) == IF s.env # Unset THEN s.env ELSE s.dotenv

(* Faulty variant: the registry is trusted before the operator. *)
ContractOfRegistry == IF registry # Unset THEN registry ELSE Explicit(settings)

(* The width that cogindex may rely on: set explicitly or registered. *)
Contract == IF Explicit(settings) # Unset THEN Explicit(settings) ELSE registry

(* _resolved_embedding_dimensions: the live width is the contract's. *)
WidthVerified == Contract # Unset /\ live = Contract

(* Faulty variant: the configured ceiling alone. *)
ConfiguredLimit(s) == s.limit

(* _llm_derivative_inputs: the smaller of the configured and the registered
   ceiling. *)
EffectiveLimit(s) ==
    IF s.cap # Unset /\ s.cap < s.limit THEN s.cap ELSE s.limit

(* The inputs that configured_processing_inputs collects for a profile. *)
Inputs(m) ==
    {"common"} \cup
    CASE m = "temporal" -> {"temporal"}
      [] m = "custom"   -> {"staged"}
      [] m = "default"  -> {"staged", "graph"}

Fingerprint(width) ==
    [mode |-> mode, width |-> width, limit |-> EffectiveLimit(settings),
     inputs |-> Restrict(settings.version, Inputs(mode) \cap Names)]

-----------------------------------------------------------------------------
(* Cognee. *)

(* The prompts and settings that a pipeline reads.  The temporal one has its
   own prompts, and a custom prompt takes the default one's place. *)
Reads(m) ==
    IF m = "temporal" THEN {"common", "temporal"}
    ELSE {"common", "staged"} \cup IF m = "custom" THEN {} ELSE {"graph"}

(* The client asks for no more tokens than either ceiling allows. *)
ClientLimit ==
    LET ceilings == {settings.limit, settings.cap} \ {Unset}
    IN  CHOOSE l \in ceilings : \A c \in ceilings : l <= c

(* What derivatives that are made at a width depend on. *)
Used(width) ==
    [mode |-> mode, width |-> width, limit |-> ClientLimit,
     inputs |-> Restrict(settings.version, Reads(mode) \cap Names)]

(* EmbeddingConfig at the start of a process: the settings, else what the
   registry knows, else some fallback. *)
StartWidths ==
    CASE settings.env # Unset                                -> {settings.env}
      [] settings.env = Unset /\ settings.dotenv # Unset     -> {settings.dotenv}
      [] {settings.env, settings.dotenv} = {Unset}
            /\ registry # Unset                              -> {registry}
      [] OTHER                                               -> Widths

-----------------------------------------------------------------------------

Phases == {"idle", "purged", "adding", "added", "cognifying", "cognified"}

Prints == [mode: Modes, width: Widths, limit: Limits,
           inputs: UNION {[N -> Versions] : N \in SUBSET Names}]

(* The types; a target is never constructed without a verified width, and a
   batch runs for a target (_compat.py 746-790). *)
TypeOK ==
    /\ model \in Widths /\ registry \in Widths \cup {Unset}
    /\ settings \in Settings
    /\ live \in Widths
    /\ mode \in Modes
    /\ target \in Prints \cup {Unset}
    /\ record \in Prints \cup {Unset}
    /\ built \subseteq Prints
    /\ pc \in Phases
    /\ pc # "idle" => target # Unset /\ record = Unset

Init ==
    /\ model \in Widths /\ registry \in Widths \cup {Unset}
    /\ settings \in Settings
    /\ live \in StartWidths
    /\ mode \in Modes
    /\ target = Unset
    /\ record = Unset
    /\ built = {}
    /\ pc = "idle"

(* dataset_target takes the fingerprint, or raises. *)
Declare ==
    /\ pc = "idle" /\ target = Unset
    /\ WidthVerified
    /\ target' = Fingerprint(live)
    /\ UNCHANGED <<model, registry, settings, live, mode, record, built, pc>>

(* Faulty variant: the earlier record stays while its derivatives go. *)
PurgeKeepingRecord ==
    /\ pc = "idle" /\ target # Unset
    /\ record # target
    /\ built' = {}
    /\ pc' = "purged"
    /\ UNCHANGED <<model, registry, settings, live, mode, target, record>>

(* Reconcile finds another fingerprint or an unfinished attempt; the batch
   removes the derivatives first. *)
Purge ==
    /\ pc = "idle" /\ target # Unset
    /\ record # target
    /\ record' = Unset
    /\ built' = {}
    /\ pc' = "purged"
    /\ UNCHANGED <<model, registry, settings, live, mode, target>>

Continue(from, to) ==
    /\ pc = from
    /\ WidthVerified
    /\ pc' = to
    /\ UNCHANGED <<model, registry, settings, live, mode, target, record, built>>

StartAdd == Continue("purged", "adding")

EndAdd == Continue("adding", "added")

StartCognify == Continue("added", "cognifying")

(* cognify makes derivatives piece by piece, each at the width of the moment. *)
Build ==
    /\ pc = "cognifying"
    /\ built' = built \cup {Used(live)}
    /\ pc' \in {"cognifying", "cognified"}
    /\ UNCHANGED <<model, registry, settings, live, mode, target, record>>

(* Faulty variant: the width is not checked after cognify. *)
CommitUnchecked ==
    /\ pc = "cognified"
    /\ record' = target
    /\ pc' = "idle"
    /\ UNCHANGED <<model, registry, settings, live, mode, target, built>>

(* The width is checked again, the batch returns and is committed. *)
Commit ==
    /\ pc = "cognified"
    /\ WidthVerified
    /\ record' = target
    /\ pc' = "idle"
    /\ UNCHANGED <<model, registry, settings, live, mode, target, built>>

(* One of the four checks raises. *)
Reject ==
    /\ pc \in Phases \ {"idle", "cognifying"}
    /\ ~WidthVerified
    /\ pc' = "idle"
    /\ UNCHANGED <<model, registry, settings, live, mode, target, record, built>>

(* The batch fails for another reason, also half way through cognify. *)
Fail ==
    /\ pc # "idle"
    /\ pc' = "idle"
    /\ UNCHANGED <<model, registry, settings, live, mode, target, record, built>>

(* Cognee's probe takes the length of the first vector for the width, unless
   the environment has one; it does not look into the file. *)
Probe ==
    /\ settings.env = Unset
    /\ live # model
    /\ live' = model
    /\ UNCHANGED <<model, registry, settings, mode, target, record, built, pc>>

(* One setting has another value; several runs may change several. *)
ChangeSetting ==
    \/ \E w \in Widths \cup {Unset} :
          \/ settings' = [settings EXCEPT !.env = w]
          \/ settings' = [settings EXCEPT !.dotenv = w]
    \/ \E l \in Limits : settings' = [settings EXCEPT !.limit = l]
    \/ \E l \in Limits \cup {Unset} : settings' = [settings EXCEPT !.cap = l]
    \/ \E n \in Names, v \in Versions :
          settings' = [settings EXCEPT !.version[n] = v]

(* A new flow run, after a crash or by intention: under the same settings and
   profile, or others. *)
Restart ==
    /\ UNCHANGED <<model, registry, record, built>>
    /\ \/ ChangeSetting /\ UNCHANGED mode
       \/ mode' \in Modes /\ UNCHANGED settings
    /\ live' \in StartWidths'
    /\ target' = Unset
    /\ pc' = "idle"

Batch ==
    \/ Declare \/ Purge
    \/ StartAdd \/ EndAdd \/ StartCognify
    \/ (Build /\ pc' = "cognified")
    \/ Commit \/ Reject

Disturb == Fail \/ Restart

Next == Batch \/ Build \/ Probe \/ Disturb

Spec == Init /\ [][Next]_vars

(* The engine constructs the target, runs the batch to its end and retries. *)
LiveSpec == Spec /\ WF_vars(Batch)

-----------------------------------------------------------------------------

(* Reconcile has nothing to do. *)
Settled == pc = "idle" /\ target # Unset /\ record = target

(* No stale derivatives (ADR-0005): when reconcile has nothing to do, the
   whole dataset was made with the inputs that Cognee reads now, at the
   declared width, whatever was probed, failed and restarted before
   (_compat.py 564-706 and 746-853, _runtime_local.py 230-242 and 288-296). *)
DerivativesAreCurrent == Settled => built = {Used(Contract)}

(* No needless rebuild: derivatives of a committed dataset are thrown away
   only when an input that Cognee reads has changed; a ceiling or a prompt
   that has no effect does not count (_compat.py 683-705 and 709-728). *)
NoNeedlessRebuild ==
    [][Purge /\ record # Unset => built # {Used(Contract)}]_vars

(* The width can be relied on: from the environment, or true of the model. *)
Reliable ==
    \/ settings.env # Unset
    \/ settings.dotenv = model
    \/ settings.dotenv = Unset /\ registry = model

(* A width that is right, or that the environment fixes, is never in the way:
   once failures and restarts stop, the dataset is built and stays so
   (_compat.py 746-790: the explicit width goes before the registry). *)
EventuallyBuilt == <>[][~Disturb]_vars => <>[](Reliable => Settled)
=============================================================================
