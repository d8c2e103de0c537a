---------------------------- MODULE LocalRuntime ----------------------------
(***************************************************************************)
(* The in-process runtime of _runtime_local.py: what it does with the      *)
(* state that every LocalCogneeRuntime of a process shares.                *)
(*                                                                         *)
(* Cognee's storage roots, its default user and each user's active tenant  *)
(* are global, and anyone may change them.  The runtimes alive at a time   *)
(* share one pair of roots and, unless they are given another, one lock    *)
(* provider.  Every operation is a coroutine: it validates its handle and  *)
(* the roots, awaits the set-up of the databases, awaits the acting user,  *)
(* compares the user with what it is pinned to, and only then calls the    *)
(* SDK, which reads the user's tenant again.  Each await is a place where  *)
(* other tasks and Cognee's own state move on.                             *)
(*                                                                         *)
(* A scope is the pair of user and active tenant.  One connector dataset   *)
(* is modelled, so a handle is the scope it was resolved in.  What the SDK *)
(* calls do to the dataset is the subject of DocumentSync.                 *)
(***************************************************************************)
EXTENDS Naturals

CONSTANTS
  Runtimes,          \* the LocalCogneeRuntime objects a process may construct
  Tasks,             \* the coroutines that use them
  Roots,             \* the (data_root, system_root) pairs
  Users, Tenants,    \* Cognee's users and tenants
  OwnProviders,      \* InProcessLockProviders that the constructor creates
  GivenProviders,    \* providers passed to the constructor
  None,
  ChangesMidOperation \* may other code change roots, mode or tenants at any
                      \* time, or only while no operation runs?

Scopes == Users \X Tenants

ASSUME ProvidersDiffer == OwnProviders \cap GivenProviders = {}

VARIABLES
  effective,         \* storage_roots(): the roots Cognee uses now
  remote,            \* is a process-global remote client installed?
  defaultUser,       \* the user get_default_user() returns
  tenantOf,          \* each user's active tenant
  databases,         \* the roots whose databases exist
  defaultProvider,   \* _DEFAULT_LOCAL_LOCK_PROVIDER
  runtime,           \* what each live runtime was constructed with, else None
  setupDone,         \* the runtimes whose _setup_done is set
  pin,               \* _resolved_identity_scope
  pc,                \* where each coroutine is
  rt,                \* the runtime it refers to
  handle,            \* the handle its operation was given, None to resolve
  user,              \* the user that Cognee answered it
  call,              \* the SDK call it waits for
  lock,              \* the dataset lock it asked for or holds
  held,              \* the tasks that hold their lock
  estranged          \* live runtimes whose roots other code has replaced

globals == <<effective, remote, defaultUser, tenantOf, databases>>
runtimes == <<defaultProvider, runtime, setupDone, pin>>
operation == <<pc, handle, user, call>>
locks == <<lock, held>>
vars == <<globals, runtimes, operation, rt, locks, estranged>>

Live == {r \in Runtimes : runtime[r] # None}        \* _LIVE_LOCAL_RUNTIMES

Providers == OwnProviders \union GivenProviders
Arguments ==
  [roots : Roots, user : Scopes \union {None}, provider : Providers]

\* What an SDK call finds when it starts: Cognee's roots, whether they hold
\* databases, whether it goes to a remote service, and the user it is given;
\* and the scope whose storage Cognee has selected for it, None before.
Calls == [roots : Roots, ready : BOOLEAN, remote : BOOLEAN, user : Scopes,
          scope : Scopes \union {None}]
Locks == [provider : Providers, scope : Scopes]

ASSUME NoneIsNothing ==
  None \notin Runtimes \union Scopes \union Providers \union Arguments
              \union Locks

\* The type of every variable; every lock is one of a known provider.
TypeOK ==
  /\ effective \in Roots
  /\ remote \in BOOLEAN
  /\ defaultUser \in Users
  /\ tenantOf \in [Users -> Tenants]
  /\ databases \subseteq Roots
  /\ defaultProvider \in OwnProviders
  /\ runtime \in [Runtimes -> Arguments \union {None}]
  /\ setupDone \subseteq Runtimes
  /\ pin \in [Runtimes -> Scopes \union {None}]
  /\ pc \in [Tasks ->
               {"idle", "setup", "asking", "answered", "calling", "locking"}]
  /\ rt \in [Tasks -> Runtimes \union {None}]
  /\ handle \in [Tasks -> Scopes \union {None}]
  /\ user \in [Tasks -> Scopes \union {None}]
  /\ call \in [Tasks -> Calls \union {None}]
  /\ lock \in [Tasks -> Locks \union {None}]
  /\ held \subseteq Tasks
  /\ estranged \subseteq Runtimes

Init ==
  /\ effective \in Roots
  /\ remote = FALSE
  /\ defaultUser \in Users
  /\ tenantOf \in [Users -> Tenants]
  /\ databases \in SUBSET Roots
  /\ defaultProvider \in OwnProviders
  /\ runtime = [r \in Runtimes |-> None]
  /\ setupDone = {}
  /\ pin = [r \in Runtimes |-> None]
  /\ pc = [t \in Tasks |-> "idle"]
  /\ rt = [t \in Tasks |-> None]
  /\ handle = [t \in Tasks |-> None]
  /\ user = [t \in Tasks |-> None]
  /\ call = [t \in Tasks |-> None]
  /\ lock = [t \in Tasks |-> None]
  /\ held = {}
  /\ estranged = {}

Go(t, place) == pc' = [pc EXCEPT ![t] = place]

-----------------------------------------------------------------------------
(* Construction and collection                                             *)

\* A new runtime without set-up and pin; own is the provider it gets by default.
Register(r, roots, actor, given, own) ==
  /\ runtime' = [runtime EXCEPT ![r] =
       [roots |-> roots, user |-> actor,
        provider |-> IF given # None THEN given ELSE own]]
  /\ UNCHANGED <<remote, defaultUser, tenantOf, databases, setupDone, pin,
                 operation, rt, locks, estranged>>

\* Live runtimes have the roots that a new one asks for.
NoConflict(roots) == \A other \in Live : runtime[other].roots = roots

\* Faulty variant: every constructor starts a provider of its own.
ConstructOwnProvider(r, roots, actor, given) ==
  /\ r \notin Live /\ NoConflict(roots)
  /\ effective' = IF Live = {} THEN roots ELSE effective
  /\ defaultProvider' \in OwnProviders \ {defaultProvider}
  /\ Register(r, roots, actor, given, defaultProvider')

\* Faulty variant: every constructor configures Cognee's roots.
ConstructReconfiguring(r, roots, actor, given) ==
  /\ r \notin Live /\ NoConflict(roots)
  /\ effective' = roots
  /\ defaultProvider' \in OwnProviders
  /\ (defaultProvider' = defaultProvider) <=> (Live # {})
  /\ Register(r, roots, actor, given, defaultProvider')

\* The constructor refuses other roots than a live runtime's; only the first
\* of a generation configures Cognee and starts a new lock provider.
Construct(r, roots, actor, given) ==
  /\ r \notin Live /\ NoConflict(roots)
  /\ effective' = IF Live = {} THEN roots ELSE effective
  /\ defaultProvider' \in OwnProviders
  /\ (defaultProvider' = defaultProvider) <=> (Live # {})
  /\ Register(r, roots, actor, given, defaultProvider')

\* The live set holds weak references: a runtime no task refers to may go.
Collect(r) ==
  /\ r \in Live
  /\ \A t \in Tasks : rt[t] # r
  /\ runtime' = [runtime EXCEPT ![r] = None]
  /\ setupDone' = setupDone \ {r}
  /\ pin' = [pin EXCEPT ![r] = None]
  /\ estranged' = estranged \ {r}
  /\ UNCHANGED <<globals, defaultProvider, operation, rt, locks>>

\* A coroutine takes or drops its reference to a runtime.
Refer(t, r) ==
  /\ pc[t] = "idle" /\ rt[t] = None
  /\ r \in Live
  /\ rt' = [rt EXCEPT ![t] = r]
  /\ UNCHANGED <<globals, runtimes, operation, locks, estranged>>

Drop(t) ==
  /\ pc[t] = "idle" /\ rt[t] # None /\ lock[t] = None
  /\ rt' = [rt EXCEPT ![t] = None]
  /\ UNCHANGED <<globals, runtimes, operation, locks, estranged>>

-----------------------------------------------------------------------------
(* Operations                                                              *)

\* _ensure_ready up to its await: local mode and the runtime's own roots.
MayStart(r) == ~remote /\ effective = runtime[r].roots

\* _validate_handle.
ValidHandle(r, h) ==
  /\ pin[r] # None /\ h = pin[r]
  /\ effective = runtime[r].roots

\* Faulty variant: the databases count as ready when their set-up begins.
StartMarkingReady(t, h) ==
  /\ pc[t] = "idle" /\ rt[t] # None
  /\ MayStart(rt[t])
  /\ setupDone' = setupDone \union {rt[t]}
  /\ Go(t, IF rt[t] \in setupDone THEN "asking" ELSE "setup")
  /\ handle' = [handle EXCEPT ![t] = h]
  /\ UNCHANGED <<globals, defaultProvider, runtime, pin, user, call,
                 rt, locks, estranged>>

\* Every operation begins like this; its first await is the set-up, if any.
Start(t, h) ==
  /\ pc[t] = "idle" /\ rt[t] # None
  /\ MayStart(rt[t])
  /\ Go(t, IF rt[t] \in setupDone THEN "asking" ELSE "setup")
  /\ handle' = [handle EXCEPT ![t] = h]
  /\ UNCHANGED <<globals, runtimes, user, call, rt, locks, estranged>>

\* resolve_dataset has no handle yet; the other operations bring one, of any
\* scope that a runtime of the process may have resolved at some time.
Resolve(t) == Start(t, None)
Operate(t, h) == rt[t] # None /\ ValidHandle(rt[t], h) /\ Start(t, h)

\* ensure_databases_ready returns; the flag is set after the await.
SetUp(t) ==
  /\ pc[t] = "setup"
  /\ databases' = databases \union {effective}
  /\ setupDone' = setupDone \union {rt[t]}
  /\ Go(t, "asking")
  /\ UNCHANGED <<effective, remote, defaultUser, tenantOf, defaultProvider,
                 runtime, pin, handle, user, call, rt,
                 locks, estranged>>

\* Faulty variant: a scope that leaves the active tenant out.
ActingUserAlone(r) ==
  IF runtime[r].user = None THEN defaultUser ELSE runtime[r].user[1]

\* _resolve_acting_user: the configured or the default user, with its tenant.
ActingUser(r) ==
  LET u == IF runtime[r].user = None THEN defaultUser
                                     ELSE runtime[r].user[1]
  IN  <<u, tenantOf[u]>>

\* Cognee's answer, taken before the task runs on.
Answer(t) ==
  /\ pc[t] = "asking"
  /\ Go(t, "answered")
  /\ user' = [user EXCEPT ![t] = ActingUser(rt[t])]
  /\ UNCHANGED <<globals, runtimes, handle, call, rt, locks,
                 estranged>>

\* The end of an operation, by return or exception.
End(t) ==
  /\ Go(t, "idle")
  /\ handle' = [handle EXCEPT ![t] = None]
  /\ user' = [user EXCEPT ![t] = None]
  /\ call' = [call EXCEPT ![t] = None]
  /\ UNCHANGED <<globals, rt, locks, estranged>>

\* Faulty variant: no user is passed, and Cognee takes its default.
SdkCallForDefault(t) ==
  call' = [call EXCEPT ![t] =
    [roots |-> effective, ready |-> effective \in databases, remote |-> remote,
     user |-> <<defaultUser, tenantOf[defaultUser]>>, scope |-> None]]

\* The very User that was checked is passed on.
SdkCall(t) ==
  call' = [call EXCEPT ![t] =
    [roots |-> effective, ready |-> effective \in databases, remote |-> remote,
     user |-> user[t], scope |-> None]]

\* The configured user still has its tenant, and the pin agrees or is unset.
ScopeAgrees(r, scope) ==
  /\ runtime[r].user \in {None, scope}
  /\ pin[r] \in {None, scope}

\* resolve_dataset and add_documents: the acting user is checked and pinned;
\* then the first SDK call starts.  Neither roots nor mode are checked again.
Bind(t) ==
  /\ pc[t] = "answered"
  /\ ScopeAgrees(rt[t], user[t])
  /\ handle[t] \in {None, user[t]}
  /\ pin' = [pin EXCEPT ![rt[t]] = user[t]]
  /\ Go(t, "calling")
  /\ SdkCall(t)
  /\ UNCHANGED <<globals, defaultProvider, runtime, setupDone, handle, user, rt,
                 locks, estranged>>

\* The other operations, which do not differ before: _ensure_resolved validates
\* the handle, and with it the roots, once more; the mode is not checked again.
BindResolved(t) ==
  /\ handle[t] # None
  /\ ValidHandle(rt[t], handle[t])
  /\ Bind(t)

\* Cognee reads the user again before it selects the tenant's storage; a call
\* that needs no such storage never does.
SelectStorage(t) ==
  /\ pc[t] = "calling" /\ call[t].scope = None
  /\ LET u == call[t].user[1]
     IN  call' = [call EXCEPT ![t].scope = <<u, tenantOf[u]>>]
  /\ UNCHANGED <<globals, runtimes, pc, handle, user, rt, locks,
                 estranged>>

\* An operation calls the SDK once per payload group or document, or after it
\* looked the dataset up; nothing is checked again in between.
CallAgain(t) ==
  /\ pc[t] = "calling" /\ handle[t] # None
  /\ SdkCall(t)
  /\ UNCHANGED <<globals, runtimes, pc, handle, user, rt, locks,
                 estranged>>

Return(t) ==
  /\ pc[t] = "calling"
  /\ End(t)
  /\ UNCHANGED runtimes

\* Whatever a coroutine awaits may fail or be cancelled, and a scope that does
\* not agree is refused.
Fail(t) ==
  /\ pc[t] \in {"setup", "asking", "answered", "calling"}
  /\ End(t)
  /\ UNCHANGED runtimes

-----------------------------------------------------------------------------
(* The dataset lock                                                        *)

\* dataset_lock: the scope comes from the handle, the provider from the runtime.
AskLock(t, h) ==
  /\ pc[t] = "idle" /\ rt[t] # None /\ lock[t] = None
  /\ ValidHandle(rt[t], h)
  /\ Go(t, "locking")
  /\ lock' = [lock EXCEPT ![t] =
       [provider |-> runtime[rt[t]].provider, scope |-> h]]
  /\ UNCHANGED <<globals, runtimes, handle, user, call, rt, held,
                 estranged>>

\* A provider lets one task at a time into a scope.
Enter(t) ==
  /\ pc[t] = "locking"
  /\ \A other \in held : lock[other] # lock[t]
  /\ Go(t, "idle")
  /\ held' = held \union {t}
  /\ UNCHANGED <<globals, runtimes, handle, user, call, rt, lock,
                 estranged>>

\* The end of the critical section, or of the wait for it.
Leave(t) ==
  /\ pc[t] = "locking" \/ (pc[t] = "idle" /\ t \in held)
  /\ Go(t, "idle")
  /\ lock' = [lock EXCEPT ![t] = None]
  /\ held' = held \ {t}
  /\ UNCHANGED <<globals, runtimes, handle, user, call, rt, estranged>>

-----------------------------------------------------------------------------
(* Cognee's global state                                                   *)

MayChange ==
  ChangesMidOperation \/ \A t \in Tasks : pc[t] \in {"idle", "locking"}

\* Another default user.
SwitchUser ==
  /\ defaultUser' \in Users
  /\ UNCHANGED <<effective, remote, tenantOf, databases, runtimes, operation,
                 rt, locks, estranged>>

\* Other active tenants; "callers must not switch it concurrently with a
\* running sync" (docs/adr/0007).
SwitchTenants ==
  /\ MayChange
  /\ tenantOf' \in [Users -> Tenants]
  /\ UNCHANGED <<effective, remote, defaultUser, databases, runtimes, operation,
                 rt, locks, estranged>>

\* Other code of the process reconfigures Cognee or calls serve, disconnect.
ChangeRoots(roots) ==
  /\ MayChange
  /\ effective' = roots
  /\ estranged' = {r \in Live : runtime[r].roots # roots}
  /\ UNCHANGED <<remote, defaultUser, tenantOf, databases, runtimes, operation,
                 rt, locks>>

SwitchRemote ==
  /\ MayChange
  /\ remote' = ~remote
  /\ UNCHANGED <<effective, defaultUser, tenantOf, databases, runtimes,
                 operation, rt, locks, estranged>>

-----------------------------------------------------------------------------
TaskStep(t) ==
  \/ \E r \in Runtimes : Refer(t, r)
  \/ \E h \in Scopes : Operate(t, h) \/ AskLock(t, h)
  \/ Drop(t) \/ Resolve(t) \/ SetUp(t) \/ Answer(t) \/ Bind(t)
  \/ BindResolved(t) \/ SelectStorage(t) \/ CallAgain(t) \/ Return(t) \/ Fail(t)
  \/ Enter(t) \/ Leave(t)

RuntimeStep(r) ==
  \/ \E roots \in Roots, actor \in Scopes \union {None},
        given \in GivenProviders \union {None} :
       Construct(r, roots, actor, given)
  \/ Collect(r)

Outside ==
  \/ SwitchUser \/ SwitchTenants
  \/ \E roots \in Roots : ChangeRoots(roots)
  \/ SwitchRemote

Next ==
  \/ \E t \in Tasks : TaskStep(t)
  \/ \E r \in Runtimes : RuntimeStep(r)
  \/ Outside

Spec == Init /\ [][Next]_vars

-----------------------------------------------------------------------------
(* Properties                                                              *)

Calling(t) == pc[t] = "calling"

\* The storage that Cognee selects in an SDK call, when it reads the user
\* again, is that of the scope the runtime is pinned to, the handle's and the
\* configured user's, and so one for all calls through a runtime: although the
\* default user changes under the awaits and tenants between operations, and
\* tasks share a runtime that one of them pins (_runtime_local.py 404-440).
ActsForHandle ==
  \A t \in Tasks : Calling(t) /\ call[t].scope # None =>
    LET scope == call[t].scope
    IN  /\ pin[rt[t]] = scope
        /\ handle[t] \in {None, scope}
        /\ runtime[rt[t]].user \in {None, scope}

\* No SDK call goes to a remote service: LocalCogneeRuntime "checks that state
\* before every SDK operation" (docs/adr/0007).
StaysLocal == \A t \in Tasks : Calling(t) => ~call[t].remote

\* Every SDK call finds its runtime's roots, with their databases, in local
\* mode: among first operations that overlap, runtimes that come and go, and
\* other code that reconfigures Cognee between operations.
LandsInOwnStorage ==
  /\ StaysLocal
  /\ \A t \in Tasks : Calling(t) =>
       /\ call[t].roots = runtime[rt[t]].roots
       /\ call[t].ready

\* Two tasks whose runtimes use the default provider never hold the lock of
\* one scope together, whichever runtimes those are.
OneHolder ==
  \A t, u \in held :
    /\ t # u
    /\ lock[t].provider \in OwnProviders
    /\ lock[u].provider \in OwnProviders
    => lock[t].scope # lock[u].scope

\* How tasks stand to the default lock of scope s.  A task whose runtime was
\* given a provider of its own does not take part.
LockStatus(s) == [t \in Tasks |->
  IF lock[t] = None \/ lock[t].provider \notin OwnProviders
                    \/ lock[t].scope # s
  THEN "out" ELSE IF t \in held THEN "in" ELSE "waiting"]

ScopeLock(s) == INSTANCE DatasetLock WITH status <- LockStatus(s)

\* Each scope has one dataset lock in the process: the tasks of all runtimes
\* with the default provider, whichever generation of runtimes they come from,
\* take part in the contract of one lock of their scope.
OneLockPerScope ==
  [][\A s \in Scopes :
       ScopeLock(s)!LockNext \/ UNCHANGED LockStatus(s)]_vars

\* Once other code has replaced a live runtime's roots, the runtime refuses its
\* next operation or lock, whatever other runtimes are constructed and
\* collected in between: "every live runtime must detect" an external mutation
\* "before its next Cognee operation" (_runtime_local.py 100-104).
MutationDetected ==
  [][\A t \in Tasks : pc[t] = "idle" /\ pc'[t] # "idle" =>
       rt[t] \notin estranged]_vars
=============================================================================
