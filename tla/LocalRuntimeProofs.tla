------------------------- MODULE LocalRuntimeProofs -------------------------
(***************************************************************************)
(* For any number of runtimes, tasks, users and roots: unless other code   *)
(* reconfigures Cognee or switches tenants while an operation runs, every  *)
(* SDK call lands in its runtime's own storage and selects that of its     *)
(* handle's scope.  A runtime whose roots were replaced refuses its next   *)
(* operation, and the default locks of one scope are one lock, whatever    *)
(* other code does.                                                        *)
(*                                                                         *)
(* The invariant comes in layers: types, references, scopes, storage and   *)
(* locks.  Each layer is preserved by every step, given the ones before.   *)
(***************************************************************************)
EXTENDS LocalRuntime, TLAPS

\* A task that runs or locks refers to a runtime, and that keeps it alive.
Refs ==
  \A t \in Tasks :
    /\ rt[t] # None => rt[t] \in Live
    /\ pc[t] # "idle" \/ lock[t] # None => rt[t] # None

\* From the answer on a task has a user; once bound, it is the pinned one.
ScopesBound ==
  \A t \in Tasks :
    /\ pc[t] \in {"answered", "calling"} => user[t] \in Scopes
    /\ Calling(t) => /\ call[t] \in Calls
                     /\ call[t].user = user[t]
                     /\ pin[rt[t]] = user[t]
                     /\ handle[t] \in {None, user[t]}
                     /\ runtime[rt[t]].user \in {None, user[t]}

\* All live runtimes have the same roots.  Those that are set up have databases
\* there.  A task past the checks of its operation finds Cognee in them and in
\* local mode.
StorageAgrees ==
  /\ \A q, r \in Live : runtime[q].roots = runtime[r].roots
  /\ \A r \in setupDone : r \in Live /\ runtime[r].roots \in databases
  /\ \A t \in Tasks :
       /\ pc[t] \notin {"idle", "locking"} =>
            effective = runtime[rt[t]].roots /\ ~remote
       /\ pc[t] \in {"asking", "answered", "calling"} => effective \in databases
       /\ Calling(t) => /\ call[t].roots = effective
                        /\ call[t].ready
                        /\ ~call[t].remote

\* A runtime's own provider is the current default, a lock is its runtime's,
\* nobody waits for a lock while it holds one, and no lock has two holders.
LocksAgree ==
  /\ \A r \in Live : runtime[r].provider \in OwnProviders
                       => runtime[r].provider = defaultProvider
  /\ \A t \in Tasks :
       t \in held \/ pc[t] = "locking" =>
         /\ lock[t] \in Locks
         /\ lock[t].provider = runtime[rt[t]].provider
  /\ \A t \in held : pc[t] # "locking"
  /\ \A t, u \in held : t # u => lock[t] # lock[u]

-----------------------------------------------------------------------------
(* Types                                                                   *)

LEMMA ActingUserIsScope ==
  ASSUME TypeOK, NEW r \in Live
  PROVE  ActingUser(r) \in Scopes
<1>1. runtime[r] \in Arguments
  BY DEF TypeOK, Live
<1>2. CASE runtime[r].user = None
  BY <1>2 DEF TypeOK, ActingUser, Scopes
<1>3. CASE runtime[r].user # None
  <2>1. runtime[r].user \in Users \X Tenants
    BY <1>1, <1>3 DEF Arguments, Scopes
  <2>2. runtime[r].user[1] \in Users
    BY <2>1
  <2> QED BY <2>2, <1>3 DEF TypeOK, ActingUser, Scopes
<1> QED BY <1>2, <1>3

\* The new call of a task that has a user, and the untouched rest.
LEMMA SdkCallEffect ==
  ASSUME TypeOK, NEW t \in Tasks, SdkCall(t), user[t] \in Scopes
  PROVE  /\ call' \in [Tasks -> Calls \union {None}]
         /\ call'[t] \in Calls
         /\ call'[t].roots = effective
         /\ call'[t].user = user[t]
         /\ call'[t].remote = remote
         /\ call'[t].scope = None
         /\ effective \in databases => call'[t].ready
         /\ \A u \in Tasks \ {t} : call'[u] = call[u]
<1> DEFINE new == [roots |-> effective, ready |-> effective \in databases,
                   remote |-> remote, user |-> user[t], scope |-> None]
<1>1. new \in Calls
  BY DEF TypeOK, Calls
<1>2. call' = [call EXCEPT ![t] = new]
  BY DEF SdkCall
<1>3. call'[t] = new /\ \A u \in Tasks \ {t} : call'[u] = call[u]
  BY <1>2 DEF TypeOK
<1>4. call' \in [Tasks -> Calls \union {None}]
  BY <1>1, <1>2 DEF TypeOK
<1>5. /\ new.roots = effective
      /\ new.user = user[t]
      /\ new.remote = remote
      /\ new.scope = None
      /\ effective \in databases => new.ready
  OBVIOUS
<1> HIDE DEF new
<1> QED BY <1>1, <1>3, <1>4, <1>5

\* The scope that a call acts in is that of its user, with the tenant of now.
LEMMA SelectEffect ==
  ASSUME TypeOK, NEW t \in Tasks, SelectStorage(t), call[t] \in Calls
  PROVE  /\ call' \in [Tasks -> Calls \union {None}]
         /\ call'[t] \in Calls
         /\ call'[t].roots = call[t].roots
         /\ call'[t].ready = call[t].ready
         /\ call'[t].remote = call[t].remote
         /\ call'[t].user = call[t].user
         /\ call'[t].scope = <<call[t].user[1], tenantOf[call[t].user[1]]>>
         /\ \A u \in Tasks \ {t} : call'[u] = call[u]
<1> DEFINE selected == <<call[t].user[1], tenantOf[call[t].user[1]]>>
           new == [call[t] EXCEPT !.scope = selected]
<1>1. call[t].user \in Users \X Tenants
  BY DEF Calls, Scopes
<1>2. selected \in Scopes
  BY <1>1 DEF TypeOK, Scopes
<1> HIDE DEF selected
<1>3. new \in Calls
  BY <1>2 DEF Calls
<1>4. /\ new.roots = call[t].roots
      /\ new.ready = call[t].ready
      /\ new.remote = call[t].remote
      /\ new.user = call[t].user
      /\ new.scope = selected
  BY DEF Calls
<1>5. call' = [call EXCEPT ![t] = new]
  BY DEF SelectStorage, selected
<1> HIDE DEF new
<1>6. call'[t] = new /\ \A u \in Tasks \ {t} : call'[u] = call[u]
  BY <1>5 DEF TypeOK
<1>7. call' \in [Tasks -> Calls \union {None}]
  BY <1>3, <1>5 DEF TypeOK
<1> QED BY <1>3, <1>4, <1>6, <1>7 DEF selected

LEMMA RegisterEffect ==
  ASSUME TypeOK, NEW r \in Runtimes, NEW roots \in Roots,
         NEW actor \in Scopes \union {None},
         NEW given \in GivenProviders \union {None},
         NEW own \in OwnProviders, Register(r, roots, actor, given, own)
  PROVE  /\ runtime' \in [Runtimes -> Arguments \union {None}]
         /\ runtime'[r] \in Arguments
         /\ runtime'[r].roots = roots
         /\ runtime'[r].provider \in OwnProviders => runtime'[r].provider = own
         /\ \A q \in Runtimes \ {r} : runtime'[q] = runtime[q]
<1> DEFINE new == [roots |-> roots, user |-> actor,
                   provider |-> IF given # None THEN given ELSE own]
<1>1. new \in Arguments
  BY DEF Arguments, Providers
<1>2. runtime' = [runtime EXCEPT ![r] = new]
  BY DEF Register
<1>3. runtime'[r] = new /\ \A q \in Runtimes \ {r} : runtime'[q] = runtime[q]
  BY <1>2 DEF TypeOK
<1>4. runtime' \in [Runtimes -> Arguments \union {None}]
  BY <1>1, <1>2 DEF TypeOK
<1>5. new.roots = roots /\ (new.provider \in OwnProviders => new.provider = own)
  BY ProvidersDiffer
<1> HIDE DEF new
<1> QED BY <1>1, <1>3, <1>4, <1>5

LEMMA TypeInit == Init => TypeOK
BY DEF Init, TypeOK

LEMMA TypeStep ==
  ASSUME TypeOK, Refs, ScopesBound, [Next]_vars
  PROVE  TypeOK'
<1> USE DEF TypeOK, globals, runtimes, operation, locks, Go
<1>1. ASSUME NEW r \in Runtimes, NEW roots \in Roots,
             NEW actor \in Scopes \union {None},
             NEW given \in GivenProviders \union {None},
             Construct(r, roots, actor, given)
      PROVE  TypeOK'
  <2>1. Register(r, roots, actor, given, defaultProvider')
        /\ defaultProvider' \in OwnProviders
    BY <1>1 DEF Construct
  <2>2. runtime' \in [Runtimes -> Arguments \union {None}]
    BY <2>1, RegisterEffect
  <2> QED BY <1>1, <2>1, <2>2 DEF Construct, Register
<1>2. ASSUME NEW r \in Runtimes, Collect(r) PROVE TypeOK'
  BY <1>2 DEF Collect
<1>3. ASSUME NEW t \in Tasks, TaskStep(t) PROVE TypeOK'
  <2>1. ASSUME NEW r \in Runtimes, Refer(t, r) PROVE TypeOK'
    BY <2>1 DEF Refer
  <2>2. ASSUME NEW h \in Scopes \union {None}, Start(t, h) PROVE TypeOK'
    BY <2>2 DEF Start
  <2>3. ASSUME NEW h \in Scopes, AskLock(t, h) PROVE TypeOK'
    <3>1. runtime[rt[t]] \in Arguments
      BY <2>3 DEF AskLock, Refs, Live
    <3>2. [provider |-> runtime[rt[t]].provider, scope |-> h] \in Locks
      BY <3>1 DEF Arguments, Locks
    <3> QED BY <2>3, <3>2 DEF AskLock
  <2>4. ASSUME SetUp(t) PROVE TypeOK'
    BY <2>4 DEF SetUp, Refs, Live
  <2>5. ASSUME Answer(t) PROVE TypeOK'
    <3>1. ActingUser(rt[t]) \in Scopes
      BY <2>5, ActingUserIsScope DEF Answer, Refs
    <3> QED BY <2>5, <3>1 DEF Answer
  <2>6. ASSUME Bind(t) PROVE TypeOK'
    <3>1. rt[t] \in Runtimes /\ user[t] \in Scopes
      BY <2>6 DEF Bind, Refs, Live, ScopesBound
    <3>2. call' \in [Tasks -> Calls \union {None}]
      BY <2>6, <3>1, SdkCallEffect DEF Bind
    <3> QED BY <2>6, <3>1, <3>2 DEF Bind
  <2>7. ASSUME CallAgain(t) PROVE TypeOK'
    <3>1. call' \in [Tasks -> Calls \union {None}]
      BY <2>7, SdkCallEffect DEF CallAgain, ScopesBound
    <3> QED BY <2>7, <3>1 DEF CallAgain
  <2>8. ASSUME Return(t) PROVE TypeOK'
    BY <2>8 DEF Return, End, ScopesBound
  <2>9. ASSUME Fail(t) PROVE TypeOK'
    BY <2>9 DEF Fail, End
  <2>10. ASSUME Drop(t) \/ Enter(t) \/ Leave(t) PROVE TypeOK'
    BY <2>10 DEF Drop, Enter, Leave
  <2>11. ASSUME SelectStorage(t) PROVE TypeOK'
    <3>1. call' \in [Tasks -> Calls \union {None}]
      BY <2>11, SelectEffect DEF SelectStorage, ScopesBound, Calling
    <3> QED BY <2>11, <3>1 DEF SelectStorage
  <2> QED BY <1>3, <2>1, <2>2, <2>3, <2>4, <2>5, <2>6, <2>7, <2>8, <2>9,
             <2>10, <2>11 DEF TaskStep, Operate, Resolve, BindResolved
<1>4. ASSUME Outside PROVE TypeOK'
  BY <1>4 DEF Outside, SwitchUser, SwitchTenants, ChangeRoots, SwitchRemote,
          Live
<1>5. CASE UNCHANGED vars
  BY <1>5 DEF vars
<1> QED BY <1>1, <1>2, <1>3, <1>4, <1>5 DEF Next, RuntimeStep

-----------------------------------------------------------------------------
(* References and scopes: whatever other code does                         *)

LEMMA RefsStep ==
  ASSUME TypeOK, Refs, [Next]_vars
  PROVE  Refs'
<1> USE DEF TypeOK, Refs, Live, globals, runtimes, operation, locks, Go
<1>1. ASSUME NEW r \in Runtimes, NEW roots \in Roots,
             NEW actor \in Scopes \union {None},
             NEW given \in GivenProviders \union {None},
             Construct(r, roots, actor, given)
      PROVE  Refs'
  <2>1. Register(r, roots, actor, given, defaultProvider')
        /\ defaultProvider' \in OwnProviders
    BY <1>1 DEF Construct
  <2>2. \A q \in Runtimes \ {r} : runtime'[q] = runtime[q]
    BY <2>1, RegisterEffect
  <2>3. \A t \in Tasks : rt[t] # r
    BY <1>1, NoneIsNothing DEF Construct
  <2> QED BY <2>1, <2>2, <2>3 DEF Register
<1>2. ASSUME NEW r \in Runtimes, Collect(r) PROVE Refs'
  BY <1>2 DEF Collect
<1>3. ASSUME NEW t \in Tasks, NEW h, Start(t, h) PROVE Refs'
  BY <1>3 DEF Start
<1>4. ASSUME NEW t \in Tasks, NEW h, AskLock(t, h) PROVE Refs'
  BY <1>4 DEF AskLock
<1>5. ASSUME NEW t \in Tasks, NEW r \in Runtimes, Refer(t, r) PROVE Refs'
  BY <1>5, NoneIsNothing DEF Refer
<1>6. ASSUME NEW t \in Tasks,
             \/ SetUp(t) \/ Answer(t) \/ Bind(t)
             \/ SelectStorage(t) \/ CallAgain(t)
      PROVE  Refs'
  BY <1>6 DEF SetUp, Answer, Bind, SelectStorage, CallAgain, SdkCall
<1>7. ASSUME NEW t \in Tasks, Return(t) \/ Fail(t) PROVE Refs'
  BY <1>7 DEF Return, Fail, End
<1>8. ASSUME NEW t \in Tasks, Drop(t) \/ Enter(t) \/ Leave(t) PROVE Refs'
  BY <1>8 DEF Drop, Enter, Leave
<1>9. ASSUME Outside PROVE Refs'
  BY <1>9 DEF Outside, SwitchUser, SwitchTenants, ChangeRoots, SwitchRemote
<1>10. CASE UNCHANGED vars
  BY <1>10 DEF vars
<1> QED BY <1>1, <1>2, <1>3, <1>4, <1>5, <1>6, <1>7, <1>8, <1>9, <1>10
        DEF Next, RuntimeStep, TaskStep, Operate, Resolve, BindResolved

\* A runtime is unpinned or has the scope of the task that binds, so the tasks
\* that already call on it keep theirs.
LEMMA ScopesStep ==
  ASSUME TypeOK, Refs, ScopesBound, [Next]_vars
  PROVE  ScopesBound'
<1> USE DEF TypeOK, ScopesBound, Calling, globals, runtimes, operation, locks,
            Go
<1>1. ASSUME NEW r \in Runtimes, NEW roots \in Roots,
             NEW actor \in Scopes \union {None},
             NEW given \in GivenProviders \union {None},
             Construct(r, roots, actor, given)
      PROVE  ScopesBound'
  <2>1. Register(r, roots, actor, given, defaultProvider')
        /\ defaultProvider' \in OwnProviders
    BY <1>1 DEF Construct
  <2>2. \A q \in Runtimes \ {r} : runtime'[q] = runtime[q]
    BY <2>1, RegisterEffect
  <2>3. \A t \in Tasks : Calling(t) => rt[t] \in Runtimes \ {r}
    BY <1>1 DEF Construct, Refs, Live
  <2> QED BY <2>1, <2>2, <2>3 DEF Register
<1>2. ASSUME NEW r \in Runtimes, Collect(r) PROVE ScopesBound'
  <2>1. \A t \in Tasks : Calling(t) => rt[t] \in Runtimes \ {r}
    BY <1>2 DEF Collect, Refs, Live
  <2> QED BY <1>2, <2>1 DEF Collect
<1>3. ASSUME NEW t \in Tasks, NEW h, Start(t, h) PROVE ScopesBound'
  BY <1>3 DEF Start
<1>4. ASSUME NEW t \in Tasks, NEW h, AskLock(t, h) PROVE ScopesBound'
  BY <1>4 DEF AskLock
<1>5. ASSUME NEW t \in Tasks, NEW r \in Runtimes, Refer(t, r)
      PROVE  ScopesBound'
  BY <1>5 DEF Refer
<1>6. ASSUME NEW t \in Tasks, SetUp(t) PROVE ScopesBound'
  BY <1>6 DEF SetUp
<1>7. ASSUME NEW t \in Tasks, Answer(t) PROVE ScopesBound'
  <2>1. ActingUser(rt[t]) \in Scopes
    BY <1>7, ActingUserIsScope DEF Answer, Refs
  <2> QED BY <1>7, <2>1 DEF Answer
<1>8. ASSUME NEW t \in Tasks, Bind(t) PROVE ScopesBound'
  <2>1. rt[t] \in Runtimes /\ user[t] \in Scopes
    BY <1>8 DEF Bind, Refs, Live
  <2>2. /\ call'[t] \in Calls /\ call'[t].user = user[t]
        /\ \A u \in Tasks \ {t} : call'[u] = call[u]
    BY <1>8, <2>1, SdkCallEffect DEF Bind
  <2>3. ASSUME NEW u \in Tasks \ {t}, Calling(u)
        PROVE  pin'[rt[u]] = user[u]
    BY <1>8, <2>1, <2>3, NoneIsNothing DEF Bind, ScopeAgrees
  <2> QED BY <1>8, <2>1, <2>2, <2>3 DEF Bind, ScopeAgrees
<1>9. ASSUME NEW t \in Tasks, CallAgain(t) PROVE ScopesBound'
  <2>1. /\ call'[t] \in Calls /\ call'[t].user = user[t]
        /\ \A u \in Tasks \ {t} : call'[u] = call[u]
    BY <1>9, SdkCallEffect DEF CallAgain
  <2> QED BY <1>9, <2>1 DEF CallAgain
<1>10. ASSUME NEW t \in Tasks, Return(t) \/ Fail(t) PROVE ScopesBound'
  BY <1>10 DEF Return, Fail, End
<1>11. ASSUME NEW t \in Tasks, Enter(t) \/ Leave(t) PROVE ScopesBound'
  BY <1>11 DEF Enter, Leave
<1>12. ASSUME NEW t \in Tasks, Drop(t) PROVE ScopesBound'
  BY <1>12 DEF Drop
<1>13. ASSUME Outside PROVE ScopesBound'
  BY <1>13 DEF Outside, SwitchUser, SwitchTenants, ChangeRoots, SwitchRemote
<1>14. ASSUME NEW t \in Tasks, SelectStorage(t) PROVE ScopesBound'
  <2>1. /\ call'[t] \in Calls /\ call'[t].user = call[t].user
        /\ \A u \in Tasks \ {t} : call'[u] = call[u]
    BY <1>14, SelectEffect DEF SelectStorage
  <2> QED BY <1>14, <2>1 DEF SelectStorage
<1>15. CASE UNCHANGED vars
  BY <1>15 DEF vars
<1> QED BY <1>1, <1>2, <1>3, <1>4, <1>5, <1>6, <1>7, <1>8, <1>9, <1>10, <1>11,
           <1>12, <1>13, <1>14, <1>15
        DEF Next, RuntimeStep, TaskStep, Operate, Resolve, BindResolved

LEMMA ScopesAlways == Spec => [](TypeOK /\ Refs /\ ScopesBound)
<1>1. Init => TypeOK /\ Refs /\ ScopesBound
  BY TypeInit DEF Init, Refs, ScopesBound, Calling
<1>2. TypeOK /\ Refs /\ ScopesBound /\ [Next]_vars
        => (TypeOK /\ Refs /\ ScopesBound)'
  BY TypeStep, RefsStep, ScopesStep
<1> QED BY <1>1, <1>2, PTL DEF Spec

\* The variables of the shared runtimes keep their types (src/cogindex/
\* _runtime_local.py, LocalCogneeRuntime).
THEOREM LocalTypeCorrect == Spec => []TypeOK
BY ScopesAlways, PTL

-----------------------------------------------------------------------------
(* The selected storage: tenants stay while an operation runs               *)

\* The user of an operation keeps the tenant it was answered with, and what a
\* call selected is the user's scope.
ScopesSelected ==
  \A t \in Tasks :
    /\ pc[t] \in {"answered", "calling"} =>
         user[t] = <<user[t][1], tenantOf[user[t][1]]>>
    /\ Calling(t) => call[t].scope \in {None, user[t]}

LEMMA ActingUserTenant ==
  ASSUME NEW r
  PROVE  ActingUser(r) = <<ActingUser(r)[1], tenantOf[ActingUser(r)[1]]>>
BY DEF ActingUser

\* Cognee reads the tenant again, and finds the one that was checked.
LEMMA SelectedStep ==
  ASSUME TypeOK, Refs, ScopesBound, ScopesSelected, ~ChangesMidOperation,
         [Next]_vars
  PROVE  ScopesSelected'
<1> USE DEF TypeOK, ScopesSelected, Calling, globals, runtimes, operation,
            locks, Go
<1>1. ASSUME NEW r \in Runtimes, NEW roots \in Roots,
             NEW actor \in Scopes \union {None},
             NEW given \in GivenProviders \union {None},
             Construct(r, roots, actor, given)
      PROVE  ScopesSelected'
  BY <1>1 DEF Construct, Register
<1>2. ASSUME NEW r \in Runtimes, Collect(r) PROVE ScopesSelected'
  BY <1>2 DEF Collect
<1>3. ASSUME NEW t \in Tasks, NEW h, Start(t, h) \/ AskLock(t, h)
      PROVE  ScopesSelected'
  BY <1>3 DEF Start, AskLock
<1>4. ASSUME NEW t \in Tasks,
             \/ \E r \in Runtimes : Refer(t, r)
             \/ Drop(t) \/ SetUp(t) \/ Enter(t) \/ Leave(t)
      PROVE  ScopesSelected'
  BY <1>4 DEF Refer, Drop, SetUp, Enter, Leave
<1>5. ASSUME NEW t \in Tasks, Answer(t) PROVE ScopesSelected'
  BY <1>5, ActingUserTenant DEF Answer
<1>6. ASSUME NEW t \in Tasks, Bind(t) \/ CallAgain(t) PROVE ScopesSelected'
  <2>1. user[t] \in Scopes
    BY <1>6 DEF Bind, CallAgain, ScopesBound
  <2>2. /\ call'[t].scope = None
        /\ \A u \in Tasks \ {t} : call'[u] = call[u]
    BY <1>6, <2>1, SdkCallEffect DEF Bind, CallAgain
  <2> QED BY <1>6, <2>2 DEF Bind, CallAgain
<1>7. ASSUME NEW t \in Tasks, SelectStorage(t) PROVE ScopesSelected'
  <2>1. call[t] \in Calls /\ call[t].user = user[t]
    BY <1>7 DEF SelectStorage, ScopesBound
  <2>2. /\ call'[t].scope = <<user[t][1], tenantOf[user[t][1]]>>
        /\ \A u \in Tasks \ {t} : call'[u] = call[u]
    BY <1>7, <2>1, SelectEffect
  <2>3. call'[t].scope = user[t]
    BY <1>7, <2>2 DEF SelectStorage
  <2> QED BY <1>7, <2>2, <2>3 DEF SelectStorage
<1>8. ASSUME NEW t \in Tasks, Return(t) \/ Fail(t) PROVE ScopesSelected'
  BY <1>8 DEF Return, Fail, End
<1>9. ASSUME Outside PROVE ScopesSelected'
  BY <1>9 DEF Outside, SwitchUser, SwitchTenants, ChangeRoots, SwitchRemote,
          MayChange
<1>10. CASE UNCHANGED vars
  BY <1>10 DEF vars
<1> QED BY <1>1, <1>2, <1>3, <1>4, <1>5, <1>6, <1>7, <1>8, <1>9, <1>10
        DEF Next, RuntimeStep, TaskStep, Operate, Resolve, BindResolved

\* _bind_user: as long as nobody switches tenants in an operation, Cognee
\* selects the storage of the handle's scope, the runtime's pin and the
\* configured user, although it reads the user again when it is called.
THEOREM ActsForHandleAlways ==
  ASSUME ~ChangesMidOperation
  PROVE  Spec => []ActsForHandle
<1> DEFINE Inv == TypeOK /\ Refs /\ ScopesBound /\ ScopesSelected
<1>1. Init => Inv
  BY TypeInit DEF Init, Refs, ScopesBound, ScopesSelected, Calling
<1>2. Inv /\ [Next]_vars => Inv'
  BY TypeStep, RefsStep, ScopesStep, SelectedStep
<1>3. Inv => ActsForHandle
  BY DEF ScopesBound, ScopesSelected, ActsForHandle, Calling
<1> QED BY <1>1, <1>2, <1>3, PTL DEF Spec

-----------------------------------------------------------------------------
(* Storage: as long as nobody else reconfigures Cognee in an operation      *)

\* The constructor changes the roots only when no runtime, hence no task in an
\* operation, is there to notice.
LEMMA StorageStep ==
  ASSUME TypeOK, Refs, ScopesBound, StorageAgrees, ~ChangesMidOperation,
         [Next]_vars
  PROVE  StorageAgrees'
<1> USE DEF TypeOK, StorageAgrees, Calling, Live, globals, runtimes, operation,
            locks, Go
<1>1. ASSUME NEW r \in Runtimes, NEW roots \in Roots,
             NEW actor \in Scopes \union {None},
             NEW given \in GivenProviders \union {None},
             Construct(r, roots, actor, given)
      PROVE  StorageAgrees'
  <2>1. Register(r, roots, actor, given, defaultProvider')
        /\ defaultProvider' \in OwnProviders
    BY <1>1 DEF Construct
  <2>2. /\ runtime'[r] \in Arguments /\ runtime'[r].roots = roots
        /\ \A q \in Runtimes \ {r} : runtime'[q] = runtime[q]
    BY <2>1, RegisterEffect
  <2>3. CASE Live = {}
    <3>1. \A t \in Tasks : pc[t] = "idle"
      BY <2>3 DEF Refs
    <3>2. setupDone = {}
      BY <2>3
    <3>3. effective' = roots
      BY <1>1, <2>3 DEF Construct
    <3> QED BY <2>1, <2>2, <2>3, <3>1, <3>2, <3>3 DEF Register
  <2>4. CASE Live # {}
    <3>1. /\ \A q \in Live : q # r /\ runtime[q].roots = roots
          /\ effective' = effective
      BY <1>1, <2>4 DEF Construct, NoConflict
    <3>2. \A q \in setupDone : q # r /\ runtime'[q] # None
      BY <2>2, <3>1
    <3>3. \A t \in Tasks : pc[t] # "idle" => rt[t] \in Live
      BY DEF Refs
    <3> QED BY <2>1, <2>2, <3>1, <3>2, <3>3 DEF Register
  <2> QED BY <2>3, <2>4
<1>2. ASSUME NEW r \in Runtimes, Collect(r) PROVE StorageAgrees'
  BY <1>2 DEF Collect, Refs
<1>3. ASSUME NEW t \in Tasks, NEW h, Start(t, h) PROVE StorageAgrees'
  BY <1>3 DEF Start, MayStart, Refs
<1>4. ASSUME NEW t \in Tasks, NEW h, AskLock(t, h) PROVE StorageAgrees'
  BY <1>4 DEF AskLock
<1>5. ASSUME NEW t \in Tasks, NEW r \in Runtimes, Refer(t, r)
      PROVE  StorageAgrees'
  BY <1>5 DEF Refer
<1>6. ASSUME NEW t \in Tasks, SetUp(t) PROVE StorageAgrees'
  BY <1>6 DEF SetUp, Refs
<1>7. ASSUME NEW t \in Tasks, Answer(t) PROVE StorageAgrees'
  BY <1>7 DEF Answer
<1>8. ASSUME NEW t \in Tasks, Bind(t) \/ CallAgain(t) PROVE StorageAgrees'
  <2>1. user[t] \in Scopes /\ effective \in databases
    BY <1>8 DEF Bind, CallAgain, ScopesBound
  <2>2. /\ call'[t].roots = effective
        /\ call'[t].remote = remote
        /\ call'[t].ready
        /\ \A u \in Tasks \ {t} : call'[u] = call[u]
    BY <1>8, <2>1, SdkCallEffect DEF Bind, CallAgain
  <2>3. UNCHANGED <<effective, remote, databases, runtime, setupDone, rt>>
    BY <1>8 DEF Bind, CallAgain
  <2>4. \A u \in Tasks \ {t} : pc'[u] = pc[u]
    BY <1>8 DEF Bind, CallAgain
  <2>5. effective = runtime[rt[t]].roots /\ ~remote
    BY <1>8 DEF Bind, CallAgain
  <2>6. \A q, r \in Runtimes : runtime'[q] # None /\ runtime'[r] # None
                                => runtime'[q].roots = runtime'[r].roots
    BY <2>3
  <2>7. \A r \in setupDone' : r \in Runtimes /\ runtime'[r] # None
                               /\ runtime'[r].roots \in databases'
    BY <2>3
  <2> QED BY <2>1, <2>2, <2>3, <2>4, <2>5, <2>6, <2>7
<1>9. ASSUME NEW t \in Tasks, Return(t) \/ Fail(t) PROVE StorageAgrees'
  BY <1>9 DEF Return, Fail, End
<1>10. ASSUME NEW t \in Tasks, Drop(t) \/ Enter(t) \/ Leave(t)
       PROVE  StorageAgrees'
  BY <1>10 DEF Drop, Enter, Leave
<1>11. ASSUME Outside PROVE StorageAgrees'
  BY <1>11 DEF Outside, SwitchUser, SwitchTenants, ChangeRoots, SwitchRemote,
           MayChange
<1>12. ASSUME NEW t \in Tasks, SelectStorage(t) PROVE StorageAgrees'
  <2>1. /\ call'[t].roots = call[t].roots
        /\ call'[t].ready = call[t].ready
        /\ call'[t].remote = call[t].remote
        /\ \A u \in Tasks \ {t} : call'[u] = call[u]
    BY <1>12, SelectEffect DEF SelectStorage, ScopesBound
  <2> QED BY <1>12, <2>1 DEF SelectStorage
<1>13. CASE UNCHANGED vars
  BY <1>13 DEF vars
<1> QED BY <1>1, <1>2, <1>3, <1>4, <1>5, <1>6, <1>7, <1>8, <1>9, <1>10, <1>11,
           <1>12, <1>13
        DEF Next, RuntimeStep, TaskStep, Operate, Resolve, BindResolved

\* docs/adr/0007: when nobody reconfigures Cognee while an operation
\* runs, a call finds the roots of
\* its runtime, with their databases, and stays in the process.
THEOREM LandsInOwnStorageAlways ==
  ASSUME ~ChangesMidOperation
  PROVE  Spec => []LandsInOwnStorage
<1> DEFINE Inv == TypeOK /\ Refs /\ ScopesBound /\ StorageAgrees
<1>1. Init => Inv
  BY TypeInit DEF Init, Refs, ScopesBound, StorageAgrees, Calling, Live
<1>2. Inv /\ [Next]_vars => Inv'
  BY TypeStep, RefsStep, ScopesStep, StorageStep
<1>3. Inv => LandsInOwnStorage
  BY DEF StorageAgrees, LandsInOwnStorage, StaysLocal, Calling
<1> QED BY <1>1, <1>2, <1>3, PTL DEF Spec

-----------------------------------------------------------------------------
(* Replaced roots                                                          *)

\* The roots of an estranged runtime, which lives, are not Cognee's.
Estranged ==
  \A r \in estranged : r \in Live /\ effective # runtime[r].roots

\* Only other code brings replaced roots back: a constructor configures Cognee
\* when no runtime is alive.
LEMMA EstrangedStep ==
  ASSUME TypeOK, Estranged, [Next]_vars
  PROVE  Estranged'
<1> USE DEF TypeOK, Estranged, Live, globals, runtimes, operation, locks
<1>1. ASSUME NEW r \in Runtimes, NEW roots \in Roots,
             NEW actor \in Scopes \union {None},
             NEW given \in GivenProviders \union {None},
             Construct(r, roots, actor, given)
      PROVE  Estranged'
  <2>1. Register(r, roots, actor, given, defaultProvider')
        /\ defaultProvider' \in OwnProviders
    BY <1>1 DEF Construct
  <2>2. \A q \in Runtimes \ {r} : runtime'[q] = runtime[q]
    BY <2>1, RegisterEffect
  <2>3. \A q \in estranged : q # r /\ effective' = effective
    BY <1>1 DEF Construct
  <2> QED BY <2>1, <2>2, <2>3 DEF Register
<1>2. ASSUME NEW r \in Runtimes, Collect(r) PROVE Estranged'
  BY <1>2 DEF Collect
<1>3. ASSUME NEW t \in Tasks, TaskStep(t) PROVE Estranged'
  <2>1. UNCHANGED <<effective, runtime, estranged>>
    BY <1>3 DEF TaskStep, Refer, Operate, Resolve, Start, AskLock, Drop, SetUp,
         Answer, Bind, BindResolved, SelectStorage, CallAgain, Return, Fail,
         End, Enter, Leave
  <2> QED BY <2>1
<1>4. ASSUME Outside PROVE Estranged'
  BY <1>4 DEF Outside, SwitchUser, SwitchTenants, ChangeRoots, SwitchRemote
<1>5. CASE UNCHANGED vars
  BY <1>5 DEF vars
<1> QED BY <1>1, <1>2, <1>3, <1>4, <1>5 DEF Next, RuntimeStep

\* _runtime_local.py 100-104: a live runtime whose roots other code replaced
\* starts no operation and asks for no lock, whatever is constructed or
\* collected after the change.
THEOREM MutationDetectedAlways == Spec => MutationDetected
<1> DEFINE Refused == \A t \in Tasks : pc[t] = "idle" /\ pc'[t] # "idle" =>
                        rt[t] \notin estranged
<1>1. ASSUME TypeOK, Estranged, Next PROVE Refused
  <2> SUFFICES ASSUME NEW t \in Tasks, pc[t] = "idle", pc'[t] # "idle"
               PROVE  rt[t] \notin estranged
    OBVIOUS
  <2> USE DEF TypeOK, globals, runtimes, operation, locks, Go
  <2>1. ASSUME NEW r \in Runtimes, RuntimeStep(r) PROVE FALSE
    BY <2>1 DEF RuntimeStep, Construct, Register, Collect
  <2>2. ASSUME Outside PROVE FALSE
    BY <2>2 DEF Outside, SwitchUser, SwitchTenants, ChangeRoots, SwitchRemote
  <2>3. ASSUME NEW u \in Tasks, NEW h,
               Start(u, h) \/ AskLock(u, h)
        PROVE  rt[t] # None /\ effective = runtime[rt[t]].roots
    BY <1>1, <2>3 DEF Start, MayStart, AskLock, ValidHandle
  <2>4. ASSUME NEW u \in Tasks,
               \/ SetUp(u) \/ Answer(u) \/ Bind(u)
               \/ SelectStorage(u) \/ CallAgain(u) \/ Return(u) \/ Fail(u)
        PROVE  FALSE
    BY <1>1, <2>4
       DEF SetUp, Answer, Bind, SelectStorage, CallAgain, Return, Fail, End
  <2>5. ASSUME NEW u \in Tasks,
               \/ \E r \in Runtimes : Refer(u, r)
               \/ Drop(u) \/ Enter(u) \/ Leave(u)
        PROVE  FALSE
    BY <1>1, <2>5 DEF Refer, Drop, Enter, Leave
  <2> QED BY <1>1, <2>1, <2>2, <2>3, <2>4, <2>5
          DEF Next, TaskStep, Operate, Resolve, BindResolved, Estranged
<1>2. Init => Estranged
  BY DEF Init, Estranged
<1>3. TypeOK /\ Refs /\ ScopesBound /\ Estranged /\ [Next]_vars
        => Estranged'
  BY EstrangedStep
<1>4. TypeOK /\ Refs /\ ScopesBound /\ Estranged /\ [Next]_vars
        => [Refused]_vars
  BY <1>1
<1> QED BY <1>2, <1>3, <1>4, ScopesAlways, PTL DEF Spec, MutationDetected

-----------------------------------------------------------------------------
(* Locks                                                                   *)

LEMMA LocksStep ==
  ASSUME TypeOK, Refs, LocksAgree, [Next]_vars
  PROVE  LocksAgree'
<1> USE NoneIsNothing
        DEF TypeOK, LocksAgree, Live, globals, runtimes, operation, locks, Go
<1>1. ASSUME NEW r \in Runtimes, NEW roots \in Roots,
             NEW actor \in Scopes \union {None},
             NEW given \in GivenProviders \union {None},
             Construct(r, roots, actor, given)
      PROVE  LocksAgree'
  <2>1. Register(r, roots, actor, given, defaultProvider')
        /\ defaultProvider' \in OwnProviders
    BY <1>1 DEF Construct
  <2>2. /\ runtime'[r].provider \in OwnProviders
             => runtime'[r].provider = defaultProvider'
        /\ \A q \in Runtimes \ {r} : runtime'[q] = runtime[q]
    BY <2>1, RegisterEffect
  <2>3. \A q \in Live : /\ q # r
                        /\ defaultProvider' = defaultProvider
    BY <1>1 DEF Construct
  <2>4. \A t \in Tasks : t \in held \/ pc[t] = "locking"
                           => rt[t] \in Runtimes \ {r}
    BY <2>3 DEF Refs
  <2> QED BY <2>1, <2>2, <2>3, <2>4 DEF Register
<1>2. ASSUME NEW r \in Runtimes, Collect(r) PROVE LocksAgree'
  <2>1. \A t \in Tasks : t \in held \/ pc[t] = "locking"
                           => rt[t] \in Runtimes \ {r}
    BY <1>2 DEF Collect, Refs
  <2> QED BY <1>2, <2>1 DEF Collect
<1>3. ASSUME NEW t \in Tasks, NEW h, Start(t, h) PROVE LocksAgree'
  BY <1>3 DEF Start
<1>4. ASSUME NEW t \in Tasks, NEW h \in Scopes, AskLock(t, h)
      PROVE  LocksAgree'
  <2>1. runtime[rt[t]] \in Arguments
    BY <1>4 DEF AskLock, Refs
  <2> DEFINE new == [provider |-> runtime[rt[t]].provider, scope |-> h]
  <2>2. new \in Locks /\ new.provider = runtime[rt[t]].provider
    BY <2>1 DEF Arguments, Locks
  <2>3. t \notin held
    BY <1>4 DEF AskLock
  <2>4. lock' = [lock EXCEPT ![t] = new]
    BY <1>4 DEF AskLock
  <2> HIDE DEF new
  <2> QED BY <1>4, <2>2, <2>3, <2>4 DEF AskLock
<1>5. ASSUME NEW t \in Tasks, NEW r \in Runtimes, Refer(t, r)
      PROVE  LocksAgree'
  <2>1. t \notin held
    BY <1>5 DEF Refer, Refs
  <2> QED BY <1>5, <2>1 DEF Refer
<1>6. ASSUME NEW t \in Tasks,
             \/ SetUp(t) \/ Answer(t) \/ Bind(t)
             \/ SelectStorage(t) \/ CallAgain(t)
      PROVE  LocksAgree'
  BY <1>6 DEF SetUp, Answer, Bind, SelectStorage, CallAgain
<1>7. ASSUME NEW t \in Tasks, Return(t) \/ Fail(t) PROVE LocksAgree'
  BY <1>7 DEF Return, Fail, End
<1>8. ASSUME NEW t \in Tasks, Drop(t) PROVE LocksAgree'
  BY <1>8 DEF Drop
<1>9. ASSUME NEW t \in Tasks, Enter(t) PROVE LocksAgree'
  BY <1>9 DEF Enter
<1>10. ASSUME NEW t \in Tasks, Leave(t) PROVE LocksAgree'
  BY <1>10 DEF Leave
<1>11. ASSUME Outside PROVE LocksAgree'
  BY <1>11 DEF Outside, SwitchUser, SwitchTenants, ChangeRoots, SwitchRemote
<1>12. CASE UNCHANGED vars
  BY <1>12 DEF vars
<1> QED BY <1>1, <1>2, <1>3, <1>4, <1>5, <1>6, <1>7, <1>8, <1>9, <1>10, <1>11,
           <1>12
        DEF Next, RuntimeStep, TaskStep, Operate, Resolve, BindResolved

\* The default runtimes of a process share one provider per generation of
\* storage roots, and no holder of a lock outlives its generation.
THEOREM OneHolderAlways == Spec => []OneHolder
<1> DEFINE Inv == TypeOK /\ Refs /\ ScopesBound /\ LocksAgree
<1>1. Init => Inv
  BY TypeInit DEF Init, Refs, ScopesBound, LocksAgree, Calling, Live
<1>2. Inv /\ [Next]_vars => Inv'
  BY TypeStep, RefsStep, ScopesStep, LocksStep
<1>3. Inv => OneHolder
  <2> SUFFICES ASSUME Inv, NEW t \in held, NEW u \in held, t # u,
                      lock[t].provider \in OwnProviders,
                      lock[u].provider \in OwnProviders,
                      lock[t].scope = lock[u].scope
               PROVE  FALSE
    BY DEF OneHolder
  <2>1. /\ lock[t] \in Locks /\ lock[u] \in Locks
        /\ rt[t] \in Live /\ rt[u] \in Live
    BY NoneIsNothing DEF LocksAgree, Refs, TypeOK
  <2>2. lock[t].provider = lock[u].provider
    BY <2>1 DEF LocksAgree, TypeOK
  <2>3. lock[t] = lock[u]
    BY <2>1, <2>2 DEF Locks
  <2> QED BY <2>3 DEF LocksAgree
<1> QED BY <1>1, <1>2, <1>3, PTL DEF Spec
-----------------------------------------------------------------------------
(* One lock per scope                                                      *)

\* Locks of default providers are told apart by their scope alone.
LEMMA DefaultLocksByScope ==
  ASSUME TypeOK, Refs, LocksAgree,
         NEW t \in Tasks, t \in held \/ pc[t] = "locking",
         NEW u \in Tasks, u \in held \/ pc[u] = "locking",
         lock[t].provider \in OwnProviders,
         lock[u].provider \in OwnProviders,
         lock[t].scope = lock[u].scope
  PROVE  lock[t] = lock[u]
<1>1. /\ lock[t] \in Locks /\ lock[u] \in Locks
      /\ rt[t] \in Live /\ rt[u] \in Live
  BY NoneIsNothing DEF LocksAgree, Refs, TypeOK
<1>2. lock[t].provider = lock[u].provider
  BY <1>1 DEF LocksAgree, TypeOK
<1> QED BY <1>1, <1>2 DEF Locks

\* A step of the process is a step of each scope's lock, or none of it.
LEMMA ScopeLockStep ==
  ASSUME TypeOK, Refs, LocksAgree, Next, NEW s \in Scopes
  PROVE  ScopeLock(s)!LockNext \/ UNCHANGED LockStatus(s)
<1> DEFINE Mine(t) == /\ lock[t].provider \in OwnProviders
                      /\ lock[t].scope = s
<1> USE NoneIsNothing
        DEF ScopeLock!LockNext, ScopeLock!Request, ScopeLock!Enter,
            ScopeLock!Leave, ScopeLock!GiveUp, ScopeLock!Free
<1>1. CASE UNCHANGED locks
  BY <1>1 DEF locks, LockStatus
<1>2. ASSUME NEW t \in Tasks, NEW h \in Scopes, AskLock(t, h)
      PROVE  ScopeLock(s)!LockNext \/ UNCHANGED LockStatus(s)
  <2> DEFINE new == [provider |-> runtime[rt[t]].provider, scope |-> h]
  <2>1. /\ lock[t] = None /\ t \notin held /\ held' = held
        /\ lock' = [lock EXCEPT ![t] = new]
    BY <1>2 DEF AskLock, LocksAgree
  <2>2. new # None
    <3>1. runtime[rt[t]] \in Arguments
      BY <1>2 DEF AskLock, Refs, TypeOK, Live
    <3>2. new \in Locks
      BY <1>2, <3>1 DEF Arguments, Locks, TypeOK
    <3> QED BY <3>2
  <2> HIDE DEF new
  <2>3. CASE new.provider \in OwnProviders /\ new.scope = s
    <3>1. LockStatus(s)[t] = "out"
          /\ LockStatus(s)' = [LockStatus(s) EXCEPT ![t] = "waiting"]
      <4>1. lock'[t] = new /\ \A u \in Tasks \ {t} : lock'[u] = lock[u]
        BY <2>1 DEF TypeOK
      <4>2. t \notin held' /\ held' = held
        BY <2>1
      <4> QED BY <2>1, <2>2, <2>3, <4>1, <4>2 DEF LockStatus
    <3>2. ScopeLock(s)!Request(t)
      BY <3>1
    <3> QED BY <3>2
  <2>4. CASE ~(new.provider \in OwnProviders /\ new.scope = s)
    BY <2>1, <2>4 DEF LockStatus, TypeOK
  <2> QED BY <2>3, <2>4
<1>3. ASSUME NEW t \in Tasks, Enter(t)
      PROVE  ScopeLock(s)!LockNext \/ UNCHANGED LockStatus(s)
  <2>1. /\ lock[t] # None /\ t \notin held /\ pc[t] = "locking"
        /\ held' = held \union {t} /\ lock' = lock
    BY <1>3 DEF Enter, LocksAgree
  <2>2. CASE Mine(t)
    <3>1. /\ LockStatus(s)[t] = "waiting"
          /\ LockStatus(s)' = [LockStatus(s) EXCEPT ![t] = "in"]
      BY <2>1, <2>2 DEF LockStatus
    <3>2. \A u \in Tasks : LockStatus(s)[u] # "in"
      <4> SUFFICES ASSUME NEW u \in Tasks, LockStatus(s)[u] = "in"
                   PROVE  FALSE
        OBVIOUS
      <4>1. u \in held /\ Mine(u)
        BY DEF LockStatus
      <4>2. lock[u] = lock[t]
        BY <2>1, <2>2, <4>1, DefaultLocksByScope
      <4> QED BY <1>3, <4>1, <4>2 DEF Enter
    <3>3. ScopeLock(s)!Enter(t)
      BY <3>1, <3>2
    <3> QED BY <3>3
  <2>3. CASE ~Mine(t)
    BY <2>1, <2>3 DEF LockStatus
  <2> QED BY <2>2, <2>3
<1>4. ASSUME NEW t \in Tasks, Leave(t)
      PROVE  ScopeLock(s)!LockNext \/ UNCHANGED LockStatus(s)
  <2>1. /\ lock[t] # None
        /\ held' = held \ {t} /\ lock' = [lock EXCEPT ![t] = None]
    BY <1>4 DEF Leave, LocksAgree
  <2>2. CASE Mine(t)
    <3>1. /\ LockStatus(s)[t] = (IF t \in held THEN "in" ELSE "waiting")
          /\ LockStatus(s)' = [LockStatus(s) EXCEPT ![t] = "out"]
      BY <2>1, <2>2 DEF LockStatus, TypeOK
    <3>2. ScopeLock(s)!Leave(t) \/ ScopeLock(s)!GiveUp(t)
      BY <3>1
    <3> QED BY <3>2
  <2>3. CASE ~Mine(t)
    BY <2>1, <2>3 DEF LockStatus, TypeOK
  <2> QED BY <2>2, <2>3
<1>5. UNCHANGED locks
      \/ \E t \in Tasks : Enter(t) \/ Leave(t)
                           \/ \E h \in Scopes : AskLock(t, h)
  BY DEF Next, TaskStep, RuntimeStep, Outside, Refer, Operate, Resolve, Start,
         Drop, SetUp, Answer, Bind, BindResolved, SelectStorage, CallAgain,
         Return, Fail, End, Construct, Register, Collect, SwitchUser,
         SwitchTenants, ChangeRoots, SwitchRemote, locks
<1> QED BY <1>1, <1>2, <1>3, <1>4, <1>5

\* dataset_lock (_runtime_local.py 108-112, 346-355): however many runtimes a
\* process constructs and drops, and whatever their roots were, the tasks of
\* those with the default provider take part in one lock per scope.
THEOREM OneLockAlways == Spec => OneLockPerScope
<1> DEFINE Inv == TypeOK /\ Refs /\ ScopesBound /\ LocksAgree
<1>1. Init => Inv
  BY TypeInit DEF Init, Refs, ScopesBound, LocksAgree, Calling, Live
<1>2. Inv /\ [Next]_vars => Inv'
  BY TypeStep, RefsStep, ScopesStep, LocksStep
<1>3. Inv /\ [Next]_vars =>
        [\A s \in Scopes :
           ScopeLock(s)!LockNext \/ UNCHANGED LockStatus(s)]_vars
  BY ScopeLockStep
<1> QED BY <1>1, <1>2, <1>3, PTL DEF Spec, OneLockPerScope
=============================================================================
