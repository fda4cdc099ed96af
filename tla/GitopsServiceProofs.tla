-------------------------- MODULE GitopsServiceProofs --------------------------
(***************************************************************************)
(* Proofs about GitopsService, for every setting, every set of objects     *)
(* that others may touch (each theorem says which it must not contain) and *)
(* every bound.                                                            *)
(***************************************************************************)
EXTENDS GitopsService, TLAPS

USE DEF bounds, process

-----------------------------------------------------------------------------
(* The plan of a reconciliation: which step is which.  The plugin's steps    *)
(* come after those of the default install.                                  *)

Base == IF disabled THEN 8 ELSE 10

LEMMA PlanLength == Len(Plan) = Base + (IF PluginSupported THEN 5 ELSE 0)
BY DEF Plan, RemovePlan, InstallPlan, PluginPlan, Base

LEMMA CleanSteps ==
    /\ At("kam") <=> step = 1
    /\ At("oldPlugin") <=> step = 2
<1>1. CASE disabled /\ PluginSupported
  BY <1>1 DEF At, Plan, RemovePlan, InstallPlan, PluginPlan
<1>2. CASE disabled /\ ~PluginSupported
  BY <1>2 DEF At, Plan, RemovePlan, InstallPlan, PluginPlan
<1>3. CASE ~disabled /\ PluginSupported
  BY <1>3 DEF At, Plan, RemovePlan, InstallPlan, PluginPlan
<1>4. CASE ~disabled /\ ~PluginSupported
  BY <1>4 DEF At, Plan, RemovePlan, InstallPlan, PluginPlan
<1> QED
  BY <1>1, <1>2, <1>3, <1>4

LEMMA InstallSteps ==
    /\ At("ns")       <=> ~disabled /\ step = 3
    /\ At("argocdNS") <=> ~disabled /\ step = 4
    /\ At("argocd")   <=> ~disabled /\ step = 5
    /\ At("sa")       <=> ~disabled /\ step = 6
    /\ At("role")     <=> ~disabled /\ step = 7
    /\ At("binding")  <=> ~disabled /\ step = 8
    /\ At("deploy")   <=> ~disabled /\ step = 9
    /\ At("svc")      <=> ~disabled /\ step = 10
<1>1. CASE disabled /\ PluginSupported
  BY <1>1 DEF At, Plan, RemovePlan, InstallPlan, PluginPlan
<1>2. CASE disabled /\ ~PluginSupported
  BY <1>2 DEF At, Plan, RemovePlan, InstallPlan, PluginPlan
<1>3. CASE ~disabled /\ PluginSupported
  BY <1>3 DEF At, Plan, RemovePlan, InstallPlan, PluginPlan
<1>4. CASE ~disabled /\ ~PluginSupported
  BY <1>4 DEF At, Plan, RemovePlan, InstallPlan, PluginPlan
<1> QED
  BY <1>1, <1>2, <1>3, <1>4

LEMMA RemoveSteps ==
    /\ At("noArgocd")  <=> disabled /\ step = 3
    /\ At("noDeploy")  <=> disabled /\ step = 4
    /\ At("noSvc")     <=> disabled /\ step = 5
    /\ At("noBinding") <=> disabled /\ step = 6
    /\ At("noRole")    <=> disabled /\ step = 7
    /\ At("noSa")      <=> disabled /\ step = 8
<1>1. CASE disabled /\ PluginSupported
  BY <1>1 DEF At, Plan, RemovePlan, InstallPlan, PluginPlan
<1>2. CASE disabled /\ ~PluginSupported
  BY <1>2 DEF At, Plan, RemovePlan, InstallPlan, PluginPlan
<1>3. CASE ~disabled /\ PluginSupported
  BY <1>3 DEF At, Plan, RemovePlan, InstallPlan, PluginPlan
<1>4. CASE ~disabled /\ ~PluginSupported
  BY <1>4 DEF At, Plan, RemovePlan, InstallPlan, PluginPlan
<1> QED
  BY <1>1, <1>2, <1>3, <1>4

LEMMA PluginSteps ==
    /\ At("pluginNS") <=> PluginSupported /\ step = Base + 1
    /\ At("psvc")     <=> PluginSupported /\ step = Base + 2
    /\ At("pcm")      <=> PluginSupported /\ step = Base + 3
    /\ At("pdep")     <=> PluginSupported /\ step = Base + 4
    /\ At("cplugin")  <=> PluginSupported /\ step = Base + 5
<1>1. CASE disabled /\ PluginSupported
  BY <1>1 DEF At, Plan, RemovePlan, InstallPlan, PluginPlan, Base
<1>2. CASE disabled /\ ~PluginSupported
  BY <1>2 DEF At, Plan, RemovePlan, InstallPlan, PluginPlan, Base
<1>3. CASE ~disabled /\ PluginSupported
  BY <1>3 DEF At, Plan, RemovePlan, InstallPlan, PluginPlan, Base
<1>4. CASE ~disabled /\ ~PluginSupported
  BY <1>4 DEF At, Plan, RemovePlan, InstallPlan, PluginPlan, Base
<1> QED
  BY <1>1, <1>2, <1>3, <1>4

-----------------------------------------------------------------------------
(* Objects and their contents *)

LEMMA PairsAreThere == \A a, b : <<a, b>> # Absent
BY DEF Absent

LEMMA DesiredIsThere == \A o \in Objects : Desired(o) # Absent
BY PairsAreThere DEF Desired, NewRestrictedNamespace, NewArgoCD,
   NewBackendDeployment, PluginConfigMap, PluginDeployment, Fixed

ObjectTypes == /\ api \in [Objects -> Content] /\ cached \in [Objects -> Content]
               /\ pending \in [Objects -> {"none", "quiet", "loud"}]
WorkTypes   == /\ queued \in BOOLEAN /\ terminating \in BOOLEAN
               /\ disabled \in BOOLEAN /\ unread \in BOOLEAN
StepTypes   == step \in 0..Len(Plan)
SpecTypes   == /\ spec \in Version /\ cachedSpec \in Version /\ inst \in Version
               /\ tls \in Tls
BoundTypes  == /\ tampers \in 0..MaxTampers /\ faults \in 0..MaxFaults
               /\ restarts \in 0..MaxRestarts

LEMMA TypeParts ==
    TypeOK <=> ObjectTypes /\ WorkTypes /\ StepTypes /\ SpecTypes /\ BoundTypes
BY DEF TypeOK, ObjectTypes, WorkTypes, StepTypes, SpecTypes, BoundTypes

LEMMA NewTypes ==
    ASSUME SpecTypes
    PROVE  /\ Absent \in Content /\ Drifted \in Content /\ Fixed \in Content
           /\ NewRestrictedNamespace \in Content /\ NewArgoCD \in Content
           /\ NewBackendDeployment \in Content /\ PluginConfigMap \in Content
           /\ PluginDeployment \in Content
<1>1. 0 \in Version /\ 0 \in Tls /\ inst \in Version /\ tls \in Tls
  BY ConstantAssumption DEF SpecTypes, Version, Tls
<1>2. PluginConfigMap[2] = tls
  BY DEF PluginConfigMap
<1> QED
  BY <1>1, <1>2 DEF Content, Fixed, NewRestrictedNamespace, NewArgoCD,
     NewBackendDeployment, PluginConfigMap, PluginDeployment

LEMMA StoreTypes ==
    ASSUME ObjectTypes, NEW new \in [Objects -> Content], Store(new),
           cached' = cached
    PROVE  ObjectTypes'
BY DEF ObjectTypes, Store

LEMMA PutTypes ==
    ASSUME ObjectTypes, NEW o \in Objects, NEW v \in Content, Put(o, v),
           cached' = cached
    PROVE  ObjectTypes'
<1>1. [api EXCEPT ![o] = v] \in [Objects -> Content]
  BY DEF ObjectTypes
<1> QED
  BY <1>1, StoreTypes DEF Put

\* What a step of the plan may do to the worker.
LEMMA ProceedTypes ==
    ASSUME StepTypes, WorkTypes, step # 0, Proceed \/ Fail,
           UNCHANGED <<disabled, terminating>>
    PROVE  StepTypes' /\ WorkTypes'
<1>1. Plan' = Plan /\ Len(Plan) \in Nat
  BY PlanLength DEF Plan, Base
<1>2. StepTypes'
  BY <1>1 DEF StepTypes, Proceed, Fail
<1>3. WorkTypes'
  BY DEF WorkTypes, Proceed, Fail
<1> QED
  BY <1>2, <1>3

LEMMA CreateOrUpdateTypes ==
    ASSUME ObjectTypes, NEW o \in Objects, NEW v \in Content, NEW always,
           CreateOrUpdate(o, v, always), cached' = cached
    PROVE  ObjectTypes' /\ (Proceed \/ Fail)
<1>1. CASE Put(o, v)
  BY <1>1, PutTypes DEF CreateOrUpdate
<1>2. CASE Keep
  BY <1>2 DEF CreateOrUpdate, Keep, ObjectTypes
<1> QED
  BY <1>1, <1>2 DEF CreateOrUpdate

LEMMA AtIsRunning == \A name : At(name) => step # 0
BY DEF At

\* A step that keeps the types of the objects keeps them all.
LEMMA StepKeepsTypes ==
    ASSUME TypeOK, NEW name, At(name), ObjectTypes', Proceed \/ Fail,
           UNCHANGED StepVars
    PROVE  TypeOK'
<1>1. StepTypes' /\ WorkTypes'
  BY ProceedTypes, AtIsRunning, TypeParts DEF StepVars
<1>2. SpecTypes' /\ BoundTypes'
  BY TypeParts DEF StepVars, SpecTypes, BoundTypes
<1> QED
  BY <1>1, <1>2 DEF TypeOK, ObjectTypes, WorkTypes, StepTypes, SpecTypes, BoundTypes

LEMMA UpdateStepTypes ==
    ASSUME TypeOK, NEW name, At(name), NEW o \in Objects, NEW v \in Content,
           NEW always, CreateOrUpdate(o, v, always), UNCHANGED StepVars
    PROVE  TypeOK'
BY CreateOrUpdateTypes, StepKeepsTypes, TypeParts DEF StepVars

LEMMA CreateStepTypes ==
    ASSUME TypeOK, NEW name, At(name), NEW o \in Objects, NEW v \in Content,
           CreateIfAbsent(o, v), UNCHANGED StepVars
    PROVE  TypeOK'
<1> DEFINE w == IF cached[o] = Absent THEN v ELSE cached[o]
<1>1. w \in Content
  BY TypeParts DEF ObjectTypes
<1>2. CreateOrUpdate(o, w, FALSE)
  BY DEF CreateIfAbsent
<1> HIDE DEF w
<1> QED
  BY <1>1, <1>2, UpdateStepTypes

LEMMA PutOrKeepTypes ==
    ASSUME TypeOK, NEW name, At(name), NEW o \in Objects, NEW v \in Content,
           Put(o, v) \/ Keep, Proceed, UNCHANGED StepVars
    PROVE  TypeOK'
<1>1. CASE Put(o, v)
  BY <1>1, PutTypes, StepKeepsTypes, TypeParts DEF StepVars
<1>2. CASE Keep
  <2>1. ObjectTypes'
    BY <1>2, TypeParts DEF Keep, ObjectTypes, StepVars
  <2> QED
    BY <2>1, StepKeepsTypes
<1> QED
  BY <1>1, <1>2

LEMMA BackendTypes == TypeOK /\ BackendStep => TypeOK'
<1> SUFFICES ASSUME TypeOK, BackendStep PROVE TypeOK'
  OBVIOUS
<1> USE NewTypes, TypeParts, UpdateStepTypes, CreateStepTypes DEF Objects, Backend
<1>1. CASE ReconcileServiceAccount
  BY <1>1 DEF ReconcileServiceAccount
<1>2. CASE ReconcileClusterRole
  BY <1>2 DEF ReconcileClusterRole
<1>3. CASE ReconcileClusterRoleBinding
  BY <1>3 DEF ReconcileClusterRoleBinding
<1>4. CASE ReconcileBackendDeployment
  BY <1>4 DEF ReconcileBackendDeployment
<1>5. CASE ReconcileBackendService
  BY <1>5 DEF ReconcileBackendService
<1> QED
  BY <1>1, <1>2, <1>3, <1>4, <1>5 DEF BackendStep

LEMMA PluginTypes == TypeOK /\ PluginStep => TypeOK'
<1> SUFFICES ASSUME TypeOK, PluginStep PROVE TypeOK'
  OBVIOUS
<1> USE NewTypes, TypeParts, UpdateStepTypes DEF Objects, Plugin
<1>1. CASE EnsurePluginNamespace
  <2>1. PluginNS \in Objects
    BY DEF PluginNS
  <2>2. Put(PluginNS, Drifted) \/ Keep
    BY <1>1 DEF EnsurePluginNamespace
  <2> QED
    BY <1>1, <2>1, <2>2, PutOrKeepTypes DEF EnsurePluginNamespace
<1>2. CASE ReconcileService
  BY <1>2 DEF ReconcileService
<1>3. CASE ReconcileConfigMap
  BY <1>3 DEF ReconcileConfigMap
<1>4. CASE ReconcileDeployment
  BY <1>4 DEF ReconcileDeployment
<1>5. CASE ReconcileConsolePlugin
  BY <1>5 DEF ReconcileConsolePlugin
<1> QED
  BY <1>1, <1>2, <1>3, <1>4, <1>5 DEF PluginStep

LEMMA ReconcileTypes == TypeOK /\ ReconcileStep => TypeOK'
<1> SUFFICES ASSUME TypeOK, ReconcileStep PROVE TypeOK'
  OBVIOUS
<1> USE NewTypes, TypeParts
<1>1. CASE Begin
  <2>1. Len(Plan) \in Nat /\ Len(Plan) >= 1 /\ Plan' = Plan
    BY <1>1, PlanLength DEF Begin, Base, Plan
  <2>2. StepTypes'
    BY <1>1, <2>1 DEF Begin, StepTypes
  <2>3. ObjectTypes' /\ SpecTypes' /\ BoundTypes'
    BY <1>1 DEF Begin, ObjectTypes, SpecTypes, BoundTypes
  <2>4. WorkTypes'
    BY <1>1 DEF Begin, WorkTypes
  <2> QED
    BY <2>2, <2>3, <2>4
       DEF TypeOK, ObjectTypes, WorkTypes, StepTypes, SpecTypes, BoundTypes
<1>2. CASE CleanKAMResources
  BY <1>2, PutOrKeepTypes DEF CleanKAMResources, Objects, Legacy
<1>3. CASE CleanupOldPluginResources
  BY <1>3, PutOrKeepTypes DEF CleanupOldPluginResources, Objects, Legacy
<1>4. CASE ReconcileNamespace
  BY <1>4, UpdateStepTypes DEF ReconcileNamespace, Objects
<1>5. CASE EnsureArgoCDNamespace
  BY <1>5, UpdateStepTypes DEF EnsureArgoCDNamespace, Objects
<1>6. CASE ReconcileDefaultArgoCD
  BY <1>6, UpdateStepTypes DEF ReconcileDefaultArgoCD, Objects
<1>7. CASE EnsureNoArgoCD
  <2>1. step # 0 /\ (Proceed \/ Fail) /\ disabled' = disabled
    BY <1>7, AtIsRunning DEF EnsureNoArgoCD
  <2>2. Plan' = Plan /\ Len(Plan) \in Nat
    BY <2>1, PlanLength DEF Plan, Base
  <2>3. StepTypes'
    BY <2>1, <2>2 DEF StepTypes, Proceed, Fail
  <2>4. WorkTypes'
    <3>1. UNCHANGED disabled /\ terminating' \in BOOLEAN
      BY <1>7 DEF EnsureNoArgoCD, WorkTypes
    <3>2. queued' \in BOOLEAN /\ unread' \in BOOLEAN
      BY <2>1 DEF WorkTypes, Proceed, Fail
    <3> QED
      BY <3>1, <3>2 DEF WorkTypes
  <2>5. ObjectTypes' /\ SpecTypes' /\ BoundTypes'
    BY <1>7 DEF EnsureNoArgoCD, ObjectTypes, SpecTypes, BoundTypes
  <2> QED
    BY <2>3, <2>4, <2>5
       DEF TypeOK, ObjectTypes, WorkTypes, StepTypes, SpecTypes, BoundTypes
<1>8. ASSUME NEW o \in Backend, Remove(o)
      PROVE  TypeOK'
  BY <1>8, PutOrKeepTypes DEF Remove, Objects
<1> QED
  BY <1>1, <1>2, <1>3, <1>4, <1>5, <1>6, <1>7, <1>8, BackendTypes, PluginTypes
     DEF ReconcileStep

\* TypeOK is not inductive by itself: the profile changes only at restarts.
TlsCount == tls <= restarts

\* What others do: the informers, the ArgoCD controller, users, failures.
OtherStep ==
    \/ SyncSpec \/ InstanceGone \/ Fault \/ EditSpec
    \/ \E o \in Objects : Sync(o)
    \/ \E o \in Tamperable, v \in {Absent, Drifted} : Tamper(o, v)
    \/ \E d \in Settings : Restart(d)

LEMMA NextParts == Next <=> ReconcileStep \/ OtherStep
BY Zenon DEF Next, OtherStep

LEMMA OtherTypes ==
    ASSUME TypeOK, TlsCount, OtherStep
    PROVE  TypeOK' /\ TlsCount'
<1> USE NewTypes, TypeParts
<1> DEFINE AllTypes == /\ ObjectTypes' /\ WorkTypes' /\ StepTypes' /\ SpecTypes'
                    /\ BoundTypes' /\ TlsCount'
<1> SUFFICES AllTypes
  BY DEF TypeOK, ObjectTypes, WorkTypes, StepTypes, SpecTypes, BoundTypes
<1>1. CASE SyncSpec
  <2>1. ObjectTypes' /\ SpecTypes' /\ BoundTypes'
    BY <1>1 DEF SyncSpec, ObjectTypes, SpecTypes, BoundTypes
  <2> QED
    BY <1>1, <2>1 DEF SyncSpec, WorkTypes, StepTypes, Plan, TlsCount
<1>2. CASE InstanceGone
  <2>1. ObjectTypes'
    BY <1>2, PutTypes DEF InstanceGone, Objects
  <2> QED
    BY <1>2, <2>1
       DEF InstanceGone, SpecTypes, BoundTypes, WorkTypes, StepTypes, Plan,
       TlsCount
<1>3. ASSUME NEW o \in Objects, Sync(o)
      PROVE  AllTypes
  <2>1. ObjectTypes'
    BY <1>3 DEF Sync, ObjectTypes
  <2>2. (queued \/ pending[o] = "loud") \in BOOLEAN
    OBVIOUS
  <2>3. WorkTypes'
    BY <1>3, <2>2 DEF Sync, WorkTypes
  <2> QED
    BY <1>3, <2>1, <2>3 DEF Sync, SpecTypes, BoundTypes, StepTypes, Plan,
       TlsCount
<1>4. CASE Fault
  <2>1. Proceed \/ Fail \/ GiveUpPlugin
    BY <1>4 DEF Fault
  <2>2. StepTypes' /\ WorkTypes'
    <3>1. CASE GiveUpPlugin
      <4>1. Plan' = Plan /\ Len(Plan) \in Nat
        BY <1>4, PlanLength DEF Fault, Plan, Base
      <4> QED
        BY <1>4, <3>1, <4>1 DEF Fault, GiveUpPlugin, StepTypes, WorkTypes
    <3> QED
      BY <1>4, <2>1, <3>1, ProceedTypes DEF Fault
  <2>3. BoundTypes'
    BY <1>4, ConstantAssumption DEF Fault, BoundTypes
  <2> QED
    BY <1>4, <2>2, <2>3 DEF Fault, ObjectTypes, SpecTypes, TlsCount
<1>5. CASE EditSpec
  <2>1. SpecTypes'
    BY <1>5, ConstantAssumption DEF EditSpec, SpecTypes, Version
  <2> QED
    BY <1>5, <2>1 DEF EditSpec, ObjectTypes, BoundTypes, WorkTypes, StepTypes,
       Plan, TlsCount
<1>6. ASSUME NEW o \in Tamperable, NEW v \in {Absent, Drifted}, Tamper(o, v)
      PROVE  AllTypes
  <2> DEFINE new == [x \in Objects |->
                       IF x = o \/ (v = Absent /\ o \in NamespaceOf(x))
                         THEN v ELSE api[x]]
  <2>1. new \in [Objects -> Content]
    BY DEF ObjectTypes
  <2>2. Store(new)
    BY <1>6 DEF Tamper
  <2> HIDE DEF new
  <2>3. ObjectTypes'
    BY <1>6, <2>1, <2>2, StoreTypes DEF Tamper
  <2>4. (terminating /\ api'["argocd"] # Absent) \in BOOLEAN
    OBVIOUS
  <2>5. WorkTypes'
    BY <1>6, <2>4 DEF Tamper, WorkTypes
  <2>6. BoundTypes'
    BY <1>6, ConstantAssumption DEF Tamper, BoundTypes
  <2> QED
    BY <1>6, <2>3, <2>5, <2>6 DEF Tamper, SpecTypes, StepTypes, Plan, TlsCount
<1>7. ASSUME NEW d \in Settings, Restart(d)
      PROVE  AllTypes
  <2>1. d \in BOOLEAN
    BY ConstantAssumption
  <2>2. WorkTypes'
    BY <1>7, <2>1 DEF Restart, WorkTypes
  <2>3. BoundTypes'
    BY <1>7, ConstantAssumption DEF Restart, BoundTypes
  <2>4. ObjectTypes'
    BY <1>7 DEF Restart, ObjectTypes
  <2>5. Len(Plan)' \in Nat
    BY DEF Plan, RemovePlan, InstallPlan, PluginPlan
  <2>6. StepTypes'
    BY <1>7, <2>5 DEF Restart, StepTypes
  <2>7. SpecTypes'
    BY <1>7, ConstantAssumption
       DEF Restart, SpecTypes, BoundTypes, TlsCount, Tls
  <2>8. TlsCount'
    BY <1>7 DEF Restart, TlsCount, SpecTypes, BoundTypes, Tls
  <2> QED
    BY <1>7, <2>2, <2>3, <2>4, <2>6, <2>7, <2>8
<1> QED
  BY <1>1, <1>2, <1>3, <1>4, <1>5, <1>6, <1>7 DEF OtherStep

LEMMA TypeInit == Init => TypeOK /\ TlsCount
<1> SUFFICES ASSUME Init
             PROVE  ObjectTypes /\ WorkTypes /\ StepTypes /\ SpecTypes
                    /\ BoundTypes /\ TlsCount
  BY TypeParts
<1>1. SpecTypes /\ BoundTypes /\ TlsCount
  BY ConstantAssumption DEF Init, SpecTypes, BoundTypes, TlsCount, Version, Tls
<1>2. ObjectTypes
  <2>1. <<0, 0>> \in Content /\ Absent \in Content
    BY <1>1, NewTypes DEF Fixed
  <2> QED
    BY <2>1 DEF Init, ObjectTypes
<1>3. WorkTypes
  BY ConstantAssumption DEF Init, WorkTypes
<1>4. StepTypes
  BY PlanLength DEF Init, StepTypes, Base
<1> QED
  BY <1>1, <1>2, <1>3, <1>4

LEMMA TypeNext == TypeOK /\ TlsCount /\ [Next]_vars => TypeOK' /\ TlsCount'
<1> SUFFICES ASSUME TypeOK, TlsCount, [Next]_vars PROVE TypeOK' /\ TlsCount'
  OBVIOUS
<1>1. CASE ReconcileStep
  <2>1. UNCHANGED <<tls, restarts>>
    BY <1>1 DEF ReconcileStep, Begin, BackendStep, PluginStep, CleanKAMResources,
       CleanupOldPluginResources, ReconcileNamespace, EnsureArgoCDNamespace,
       ReconcileDefaultArgoCD, EnsureNoArgoCD, Remove, ReconcileServiceAccount,
       ReconcileClusterRole, ReconcileClusterRoleBinding,
       ReconcileBackendDeployment, ReconcileBackendService,
       EnsurePluginNamespace, ReconcileService, ReconcileConfigMap,
       ReconcileDeployment, ReconcileConsolePlugin, StepVars
  <2> QED
    BY <1>1, <2>1, ReconcileTypes DEF TlsCount
<1>2. CASE UNCHANGED vars
  BY <1>2, TypeParts DEF vars, TypeOK, TlsCount, Plan
<1> QED
  BY <1>1, <1>2, OtherTypes, NextParts

\* The state is well typed; in particular no reconciliation runs past its plan,
\* whichever of the two plans it is, and the TLS profile is never newer than
\* the restarts account for.
THEOREM TypeCorrect == Spec => []TypeOK
BY TypeInit, TypeNext, PTL DEF Spec

-----------------------------------------------------------------------------
(* What a step does to the objects *)

LEMMA CreateOrUpdateEffect ==
    ASSUME NEW o \in Objects, NEW v, NEW always, CreateOrUpdate(o, v, always)
    PROVE  \/ Fail /\ Keep
           \/ Proceed /\ Put(o, v) /\ cached[o] = Absent /\ Creatable(o)
           \/ Proceed /\ Put(o, v) /\ cached[o] # Absent /\ Updatable(o)
           \/ Proceed /\ Keep /\ cached[o] # Absent /\ ~always /\ cached[o] = v
BY Zenon DEF CreateOrUpdate

LEMMA PutEffect ==
    ASSUME ObjectTypes, NEW o \in Objects, NEW v, Put(o, v)
    PROVE  api'[o] = v /\ \A x \in Objects \ {o} : api'[x] = api[x]
BY DEF ObjectTypes, Put, Store

LEMMA KeepEffect == Keep => api' = api /\ pending' = pending
BY DEF Keep

\* A step that creates or updates an object changes no other and removes none.
\* If the reconciliation goes on, an object that the cache does not have is
\* there.
Touches(o) ==
    /\ \A x \in Objects \ {o} : api'[x] = api[x]
    /\ api[o] # Absent => api'[o] # Absent
    /\ \/ step' = 0
       \/ step' = step + 1 /\ (cached[o] = Absent => api'[o] # Absent)

LEMMA UpdateTouches ==
    ASSUME ObjectTypes, NEW o \in Objects, NEW v, v # Absent, NEW always,
           CreateOrUpdate(o, v, always)
    PROVE  Touches(o)
<1>1. CASE Put(o, v)
  BY <1>1, PutEffect, CreateOrUpdateEffect DEF Touches, Proceed, Fail
<1>2. CASE ~Put(o, v)
  BY <1>2, KeepEffect, CreateOrUpdateEffect DEF Touches, Proceed, Fail
<1> QED
  BY <1>1, <1>2

LEMMA CreateTouches ==
    ASSUME ObjectTypes, NEW o \in Objects, NEW v, v # Absent, CreateIfAbsent(o, v)
    PROVE  Touches(o)
<1> DEFINE w == IF cached[o] = Absent THEN v ELSE cached[o]
<1>1. w # Absent
  OBVIOUS
<1>2. CreateOrUpdate(o, w, FALSE)
  BY DEF CreateIfAbsent
<1> HIDE DEF w
<1> QED
  BY <1>1, <1>2, UpdateTouches

LEMMA ProceedOrFail ==
    ASSUME TypeOK, NEW name, At(name), Proceed \/ Fail
    PROVE  step' = 0 \/ step' = step + 1
BY DEF Proceed, Fail

-----------------------------------------------------------------------------
(* The backend and its permissions *)

RBAC == {"sa", "role", "binding"}

\* Nobody but the operator removes the permissions or their namespace.
RBACUntouched == Tamperable \cap ({"ns"} \cup RBAC) = {}

\* In a process that installs, what is cached is still there, and a
\* reconciliation has what it is past.  In one that removes, a reconciliation
\* that gets to the permissions has removed the deployment.
InstallOrder ==
    ~disabled => /\ \A o \in RBAC : cached[o] # Absent => api[o] # Absent
                 /\ step > 6 => api["sa"] # Absent
                 /\ step > 7 => api["role"] # Absent
                 /\ step > 8 => api["binding"] # Absent
RemovalOrder == disabled /\ step > 4 => api["deploy"] = Absent

BackendInv == BackendHasRBAC /\ InstallOrder /\ RemovalOrder

LEMMA BackendInvInit == Init => BackendInv
<1> SUFFICES ASSUME Init PROVE BackendInv
  OBVIOUS
<1>1. \A o \in RBAC \cup {"deploy"} : api[o] = Absent /\ cached[o] = Absent
  BY ConstantAssumption DEF Init, RBAC, Objects, Backend, Legacy
<1> QED
  BY <1>1 DEF Init, BackendInv, BackendHasRBAC, InstallOrder, RemovalOrder, RBAC

\* Steps about other objects.
LEMMA BackendFrame ==
    ASSUME TypeOK, BackendInv, UNCHANGED <<cached, disabled>>,
           \A o \in RBAC \cup {"deploy"} : api'[o] = api[o],
           \/ step' = 0 \/ step' = step
           \/ /\ step' = step + 1
              /\ ~disabled => step \notin {6, 7, 8}
              /\ disabled => step # 4
    PROVE  BackendInv'
<1>1. step \in Nat
  BY TypeParts, PlanLength DEF StepTypes, Base
<1> QED
  BY <1>1 DEF BackendInv, BackendHasRBAC, InstallOrder, RemovalOrder, RBAC

LEMMA BackendTouchFrame ==
    ASSUME TypeOK, BackendInv, UNCHANGED StepVars,
           NEW o \in Objects \ (RBAC \cup {"deploy"}), Touches(o),
           ~disabled => step \notin {6, 7, 8}, disabled => step # 4
    PROVE  BackendInv'
<1>1. RBAC \cup {"deploy"} \subseteq Objects
  BY DEF RBAC, Objects, Backend
<1> QED
  BY <1>1, BackendFrame DEF Touches, StepVars

LEMMA BackendPutFrame ==
    ASSUME TypeOK, BackendInv, NEW name, At(name), UNCHANGED StepVars,
           NEW o \in Objects \ (RBAC \cup {"deploy"}), NEW v, Put(o, v) \/ Keep,
           Proceed, ~disabled => step \notin {6, 7, 8}, disabled => step # 4
    PROVE  BackendInv'
<1>1. RBAC \cup {"deploy"} \subseteq Objects
  BY DEF RBAC, Objects, Backend
<1>2. \A x \in RBAC \cup {"deploy"} : api'[x] = api[x]
  BY <1>1, PutEffect, KeepEffect, TypeParts
<1>3. step' = 0 \/ step' = step + 1
  BY ProceedOrFail
<1> QED
  BY <1>2, <1>3, BackendFrame DEF StepVars

\* The values that the operator writes are there.
LEMMA NewIsThere ==
    /\ NewRestrictedNamespace # Absent /\ NewArgoCD # Absent /\ Fixed # Absent
    /\ NewBackendDeployment # Absent /\ PluginConfigMap # Absent
    /\ PluginDeployment # Absent /\ Drifted # Absent
BY PairsAreThere DEF NewRestrictedNamespace, NewArgoCD, NewBackendDeployment,
   PluginConfigMap, PluginDeployment, Fixed, Drifted

LEMMA BackendInvBackend == TypeOK /\ BackendInv /\ BackendStep => BackendInv'
<1> SUFFICES ASSUME TypeOK, BackendInv, BackendStep PROVE BackendInv'
  OBVIOUS
<1>0. /\ ObjectTypes
      /\ "sa" \in Objects /\ "role" \in Objects /\ "binding" \in Objects
      /\ "deploy" \in Objects /\ "svc" \in Objects
  BY TypeParts DEF Objects, Backend
<1>1. CASE ReconcileServiceAccount
  <2>1. step = 6 /\ ~disabled /\ UNCHANGED StepVars
    BY <1>1, InstallSteps DEF ReconcileServiceAccount
  <2>2. Touches("sa")
    BY <1>0, <1>1, NewIsThere, CreateTouches DEF ReconcileServiceAccount
  <2> QED
    BY <1>0, <2>1, <2>2 DEF Touches, BackendInv, BackendHasRBAC, InstallOrder,
       RemovalOrder, RBAC, StepVars
<1>2. CASE ReconcileClusterRole
  <2>1. step = 7 /\ ~disabled /\ UNCHANGED StepVars
    BY <1>2, InstallSteps DEF ReconcileClusterRole
  <2>2. Touches("role")
    BY <1>0, <1>2, NewIsThere, UpdateTouches DEF ReconcileClusterRole
  <2> QED
    BY <1>0, <2>1, <2>2 DEF Touches, BackendInv, BackendHasRBAC, InstallOrder,
       RemovalOrder, RBAC, StepVars
<1>3. CASE ReconcileClusterRoleBinding
  <2>1. step = 8 /\ ~disabled /\ UNCHANGED StepVars
    BY <1>3, InstallSteps DEF ReconcileClusterRoleBinding
  <2>2. Touches("binding")
    BY <1>0, <1>3, NewIsThere, CreateTouches DEF ReconcileClusterRoleBinding
  <2> QED
    BY <1>0, <2>1, <2>2 DEF Touches, BackendInv, BackendHasRBAC, InstallOrder,
       RemovalOrder, RBAC, StepVars
<1>4. CASE ReconcileBackendDeployment
  <2>1. step = 9 /\ ~disabled /\ UNCHANGED StepVars
    BY <1>4, InstallSteps DEF ReconcileBackendDeployment
  <2>2. Touches("deploy")
    BY <1>0, <1>4, NewIsThere, UpdateTouches DEF ReconcileBackendDeployment
  <2> QED
    BY <1>0, <2>1, <2>2 DEF Touches, BackendInv, BackendHasRBAC, InstallOrder,
       RemovalOrder, RBAC, StepVars
<1>5. CASE ReconcileBackendService
  <2>1. step = 10 /\ ~disabled /\ UNCHANGED StepVars
    BY <1>5, InstallSteps DEF ReconcileBackendService
  <2>2. Touches("svc")
    BY <1>0, <1>5, NewIsThere, CreateTouches DEF ReconcileBackendService
  <2> QED
    BY <1>0, <2>1, <2>2, BackendTouchFrame DEF RBAC
<1> QED
  BY <1>1, <1>2, <1>3, <1>4, <1>5 DEF BackendStep

\* The steps of the plugin, and those that only ever touch other objects.
LEMMA BackendInvRest ==
    ASSUME TypeOK, BackendInv,
           \/ PluginStep \/ CleanKAMResources \/ CleanupOldPluginResources
           \/ ReconcileNamespace \/ EnsureArgoCDNamespace
           \/ ReconcileDefaultArgoCD
    PROVE  BackendInv'
<1> DEFINE Rest == Objects \ (RBAC \cup {"deploy"})
           Elsewhere == /\ ~disabled => step \notin {6, 7, 8}
                        /\ disabled => step # 4
<1>0. /\ ObjectTypes /\ PluginNS \in Rest /\ "kam" \in Rest /\ "oldPlugin" \in Rest
      /\ "ns" \in Rest /\ "argocd" \in Rest /\ "psvc" \in Rest /\ "pcm" \in Rest
      /\ "pdep" \in Rest /\ "cplugin" \in Rest
  BY TypeParts DEF Objects, RBAC, Backend, Plugin, Legacy, PluginNS
<1> HIDE DEF Rest
<1>1. ASSUME NEW o \in Rest, Touches(o), UNCHANGED StepVars, Elsewhere
      PROVE  BackendInv'
  BY <1>1, BackendTouchFrame DEF Rest
<1>2. ASSUME NEW o \in Rest, NEW v, v # Absent, NEW always,
             CreateOrUpdate(o, v, always)
      PROVE  Touches(o)
  BY <1>0, <1>2, UpdateTouches DEF Rest
<1>3. CASE EnsurePluginNamespace
  <2>1. Elsewhere
    BY <1>3, PluginSteps DEF EnsurePluginNamespace, Base
  <2>2. Put(PluginNS, Drifted) \/ Keep
    BY <1>3 DEF EnsurePluginNamespace
  <2> QED
    BY <1>0, <1>3, <2>1, <2>2, BackendPutFrame DEF EnsurePluginNamespace, Rest
<1>4. CASE ReconcileService
  <2>1. Elsewhere /\ UNCHANGED StepVars
    BY <1>4, PluginSteps DEF ReconcileService, Base
  <2>2. Touches("psvc")
    BY <1>0, <1>2, <1>4, NewIsThere DEF ReconcileService
  <2> QED
    BY <1>0, <1>1, <2>1, <2>2
<1>5. CASE ReconcileConfigMap
  <2>1. Elsewhere /\ UNCHANGED StepVars
    BY <1>5, PluginSteps DEF ReconcileConfigMap, Base
  <2>2. Touches("pcm")
    BY <1>0, <1>2, <1>5, NewIsThere DEF ReconcileConfigMap
  <2> QED
    BY <1>0, <1>1, <2>1, <2>2
<1>6. CASE ReconcileDeployment
  <2>1. Elsewhere /\ UNCHANGED StepVars
    BY <1>6, PluginSteps DEF ReconcileDeployment, Base
  <2>2. Touches("pdep")
    BY <1>0, <1>2, <1>6, NewIsThere DEF ReconcileDeployment
  <2> QED
    BY <1>0, <1>1, <2>1, <2>2
<1>7. CASE ReconcileConsolePlugin
  <2>1. Elsewhere /\ UNCHANGED StepVars
    BY <1>7, PluginSteps DEF ReconcileConsolePlugin, Base
  <2>2. Touches("cplugin")
    BY <1>0, <1>2, <1>7, NewIsThere DEF ReconcileConsolePlugin
  <2> QED
    BY <1>0, <1>1, <2>1, <2>2
<1>8. CASE CleanKAMResources
  <2>1. Elsewhere /\ (Put("kam", Absent) \/ Keep)
    BY <1>8, CleanSteps DEF CleanKAMResources
  <2> QED
    BY <1>0, <1>8, <2>1, BackendPutFrame DEF CleanKAMResources, Rest
<1>9. CASE CleanupOldPluginResources
  <2>1. Elsewhere /\ (Put("oldPlugin", Absent) \/ Keep)
    BY <1>9, CleanSteps DEF CleanupOldPluginResources
  <2> QED
    BY <1>0, <1>9, <2>1, BackendPutFrame DEF CleanupOldPluginResources, Rest
<1>10. CASE ReconcileNamespace
  <2>1. Elsewhere /\ UNCHANGED StepVars
    BY <1>10, InstallSteps DEF ReconcileNamespace
  <2>2. Touches("ns")
    BY <1>0, <1>2, <1>10, NewIsThere DEF ReconcileNamespace
  <2> QED
    BY <1>0, <1>1, <2>1, <2>2
<1>11. CASE EnsureArgoCDNamespace
  <2>1. Elsewhere /\ UNCHANGED StepVars
    BY <1>11, InstallSteps DEF EnsureArgoCDNamespace
  <2>2. Touches("ns")
    BY <1>0, <1>2, <1>11, NewIsThere DEF EnsureArgoCDNamespace
  <2> QED
    BY <1>0, <1>1, <2>1, <2>2
<1>12. CASE ReconcileDefaultArgoCD
  <2>1. Elsewhere /\ UNCHANGED StepVars
    BY <1>12, InstallSteps DEF ReconcileDefaultArgoCD
  <2>2. Touches("argocd")
    BY <1>0, <1>2, <1>12, NewIsThere DEF ReconcileDefaultArgoCD
  <2> QED
    BY <1>0, <1>1, <2>1, <2>2
<1> QED
  BY <1>3, <1>4, <1>5, <1>6, <1>7, <1>8, <1>9, <1>10, <1>11, <1>12 DEF PluginStep

\* The removal: the deployment goes before the permissions.
LEMMA BackendInvRemove ==
    ASSUME TypeOK, BackendInv, NEW o \in Backend, Remove(o)
    PROVE  BackendInv'
<1>1. /\ o = "deploy" => disabled /\ step = 4
      /\ o = "svc" => disabled /\ step = 5
      /\ o = "binding" => disabled /\ step = 6
      /\ o = "role" => disabled /\ step = 7
      /\ o = "sa" => disabled /\ step = 8
  BY RemoveSteps DEF Remove, RemoveName
<1>2. disabled /\ (o # "deploy" => step > 4)
  BY <1>1 DEF Backend
<1>3. api'[o] = Absent /\ \A x \in Objects \ {o} : api'[x] = api[x]
  BY PutEffect, TypeParts DEF Remove, Objects
<1>4. (step' = 0 \/ step' = step + 1) /\ UNCHANGED <<cached, disabled>>
  BY DEF Remove, Proceed, StepVars
<1>5. api'["deploy"] = Absent
  BY <1>2, <1>3 DEF BackendInv, RemovalOrder, Objects, Backend
<1> QED
  BY <1>2, <1>4, <1>5 DEF BackendInv, BackendHasRBAC, InstallOrder, RemovalOrder

LEMMA BackendInvReconcile ==
    TypeOK /\ BackendInv /\ ReconcileStep => BackendInv'
<1> SUFFICES ASSUME TypeOK, BackendInv, ReconcileStep PROVE BackendInv'
  OBVIOUS
<1>1. CASE Begin
  BY <1>1, BackendFrame DEF Begin
<1>2. CASE EnsureNoArgoCD
  <2>1. disabled /\ step = 3 /\ (step' = 0 \/ step' = step + 1)
    BY <1>2, RemoveSteps DEF EnsureNoArgoCD, Proceed, Fail
  <2> QED
    BY <1>2, <2>1, BackendFrame DEF EnsureNoArgoCD
<1> QED
  BY <1>1, <1>2, BackendInvBackend, BackendInvRest, BackendInvRemove
     DEF ReconcileStep

LEMMA BackendInvOther ==
    ASSUME TypeOK, BackendInv, RBACUntouched, OtherStep
    PROVE  BackendInv'
<1>0. RBAC \cup {"deploy"} \subseteq Objects \ {"argocd"} /\ ObjectTypes
  BY TypeParts DEF RBAC, Objects, Backend
<1>1. CASE SyncSpec \/ EditSpec
  BY <1>1, BackendFrame DEF SyncSpec, EditSpec
<1>2. CASE InstanceGone
  <2>1. \A x \in RBAC \cup {"deploy"} : api'[x] = api[x]
    BY <1>0, <1>2, PutEffect DEF InstanceGone, Objects
  <2> QED
    BY <1>2, <2>1, BackendFrame DEF InstanceGone
<1>3. CASE Fault
  <2>1. step' = 0 \/ (step' = step + 1 /\ step \in {1, 2})
    BY <1>3, CleanSteps DEF Fault, GiveUpPlugin, Proceed, Fail, Legacy
  <2> QED
    BY <1>3, <2>1, BackendFrame DEF Fault
<1>4. ASSUME NEW o \in Objects, Sync(o)
      PROVE  BackendInv'
  BY <1>0, <1>4 DEF Sync, ObjectTypes, BackendInv, BackendHasRBAC, InstallOrder,
     RemovalOrder, RBAC
<1>5. ASSUME NEW o \in Tamperable, NEW v \in {Absent, Drifted}, Tamper(o, v)
      PROVE  BackendInv'
  <2>1. o \notin RBAC \cup {"ns"}
    BY DEF RBACUntouched
  <2>2. \A x \in RBAC \cup {"deploy"} : o \notin NamespaceOf(x)
    BY <2>1 DEF NamespaceOf, RBAC, Legacy
  <2>3. \A x \in RBAC \cup {"deploy"} : api'[x] = IF x = o THEN v ELSE api[x]
    BY <1>0, <1>5, <2>2 DEF Tamper, Store
  <2>4. \A x \in RBAC : api'[x] = api[x]
    BY <2>1, <2>3
  <2>5. api["deploy"] = Absent => api'["deploy"] = Absent
    BY <1>5, <2>3 DEF Tamper
  <2> QED
    BY <1>5, <2>4, <2>5 DEF Tamper, BackendInv, BackendHasRBAC, InstallOrder,
       RemovalOrder, RBAC
<1>6. ASSUME NEW d \in Settings, Restart(d)
      PROVE  BackendInv'
  BY <1>6 DEF Restart, BackendInv, BackendHasRBAC, InstallOrder, RemovalOrder
<1> QED
  BY <1>1, <1>2, <1>3, <1>4, <1>5, <1>6 DEF OtherStep

\* reconcileBackend creates the backend's service account, role and binding
\* before the deployment and cleanupBackendResources removes them after it, so
\* the backend never runs without them: also when a reconciliation stops half
\* way, and when a restart turns the installation into a removal or back.  The
\* one thing assumed is that nobody else removes them or their namespace.
THEOREM BackendIsAuthorized == RBACUntouched /\ Spec => []BackendHasRBAC
<1> SUFFICES ASSUME RBACUntouched PROVE Spec => []BackendHasRBAC
  OBVIOUS
<1>1. TypeOK /\ BackendInv /\ [Next]_vars => BackendInv'
  <2>1. CASE UNCHANGED vars
    BY <2>1, BackendFrame DEF vars
  <2> QED
    BY <2>1, BackendInvReconcile, BackendInvOther, NextParts
<1>2. BackendInv => BackendHasRBAC
  BY DEF BackendInv
<1> QED
  BY TypeCorrect, BackendInvInit, <1>1, <1>2, PTL DEF Spec

-----------------------------------------------------------------------------
(* The plugin's configuration and its rollout *)

\* No deployment carries the hash of a configuration that is still to come.
NoFutureHash == api["pdep"] # Absent => api["pdep"][2] <= tls

\* What the cache does not know of the ConfigMap is the work of this process,
\* or of others.
CachedConfig == api["pcm"] \in {cached["pcm"], Absent, Drifted, <<0, tls>>}

\* A reconciliation that gets to the deployment has written the ConfigMap.
ConfigFirst ==
    PluginSupported /\ step = Base + 4
      => api["pcm"] = Absent \/ api["pcm"][2] >= tls

RolloutInv == NoFutureHash /\ CachedConfig /\ ConfigFirst /\ RolloutMountsItsConfig

LEMMA RolloutInvInit == Init => RolloutInv
<1> SUFFICES ASSUME Init PROVE RolloutInv
  OBVIOUS
<1>1. api["pcm"] = Absent /\ api["pdep"] = Absent
  BY ConstantAssumption DEF Init, Objects, Plugin, Legacy
<1> QED
  BY <1>1 DEF Init, RolloutInv, NoFutureHash, CachedConfig, ConfigFirst, Base,
     RolloutMountsItsConfig

LEMMA RolloutFrame ==
    ASSUME TypeOK, RolloutInv, UNCHANGED <<cached, tls, disabled>>,
           api'["pcm"] = api["pcm"], api'["pdep"] = api["pdep"],
           \/ step' = 0 \/ step' = step
           \/ step' = step + 1 /\ ~At("pcm")
    PROVE  RolloutInv'
<1>1. step \in Nat
  BY TypeParts, PlanLength DEF StepTypes, Base
<1> QED
  BY <1>1, PluginSteps DEF RolloutInv, NoFutureHash, CachedConfig, ConfigFirst,
     Base, RolloutMountsItsConfig

LEMMA RolloutTouchFrame ==
    ASSUME TypeOK, RolloutInv, UNCHANGED StepVars, NEW name, At(name),
           name # "pcm", NEW o \in Objects \ {"pcm", "pdep"}, Touches(o)
    PROVE  RolloutInv'
<1>1. "pcm" \in Objects /\ "pdep" \in Objects
  BY DEF Objects, Plugin
<1>2. ~At("pcm")
  BY DEF At
<1> QED
  BY <1>1, <1>2, RolloutFrame DEF Touches, StepVars

LEMMA RolloutPutFrame ==
    ASSUME TypeOK, RolloutInv, UNCHANGED StepVars, NEW name, At(name),
           name # "pcm", NEW o \in Objects \ {"pcm", "pdep"}, NEW v,
           Put(o, v) \/ Keep, Proceed
    PROVE  RolloutInv'
<1>1. "pcm" \in Objects /\ "pdep" \in Objects
  BY DEF Objects, Plugin
<1>2. ~At("pcm")
  BY DEF At
<1>3. api'["pcm"] = api["pcm"] /\ api'["pdep"] = api["pdep"]
  BY <1>1, PutEffect, KeepEffect, TypeParts
<1>4. step' = 0 \/ step' = step + 1
  BY ProceedOrFail
<1> QED
  BY <1>2, <1>3, <1>4, RolloutFrame DEF StepVars

LEMMA ContentProfile ==
    ASSUME TypeOK
    PROVE  /\ tls \in Int /\ tls <= MaxRestarts /\ MaxRestarts \in Int
           /\ \A c \in Content \ {Absent} : c[2] \in Int
           /\ Drifted[2] = MaxRestarts + 1
BY TypeParts, ConstantAssumption DEF SpecTypes, Tls, Content, Version, Drifted

LEMMA RolloutInvPlugin ==
    ASSUME TypeOK, RolloutInv, ReconcileConfigMap \/ ReconcileDeployment
    PROVE  RolloutInv'
<1>0. /\ ObjectTypes /\ "pcm" \in Objects /\ "pdep" \in Objects
      /\ step \in Nat /\ api["pcm"] \in Content /\ api["pdep"] \in Content
  BY TypeParts, PlanLength DEF Objects, Plugin, StepTypes, Base, ObjectTypes
<1>1. CASE ReconcileConfigMap
  <2>1. /\ PluginSupported /\ step = Base + 3 /\ Base' = Base
        /\ UNCHANGED <<cached, tls, disabled>>
    BY <1>1, PluginSteps DEF ReconcileConfigMap, StepVars, Base
  <2>2. CreateOrUpdate("pcm", PluginConfigMap, FALSE)
    BY <1>1 DEF ReconcileConfigMap
  <2>3. CASE Put("pcm", PluginConfigMap)
    <3>1. api'["pcm"] = <<0, tls>> /\ api'["pdep"] = api["pdep"]
      BY <1>0, <2>3, PutEffect DEF PluginConfigMap
    <3>2. api'["pcm"][2] = tls
      BY <3>1
    <3> QED
      BY <2>1, <3>1, <3>2, ContentProfile DEF RolloutInv, NoFutureHash, CachedConfig,
         ConfigFirst, RolloutMountsItsConfig
  <2>4. CASE Fail /\ Keep
    BY <2>1, <2>4, RolloutFrame DEF Fail, Keep
  <2>5. CASE Keep /\ cached["pcm"] = PluginConfigMap
    <3>1. api["pcm"] = Absent \/ api["pcm"][2] >= tls
      BY <2>5, ContentProfile
         DEF RolloutInv, CachedConfig, PluginConfigMap
    <3> QED
      BY <2>1, <2>5, <3>1 DEF Keep, RolloutInv, NoFutureHash, CachedConfig,
         ConfigFirst, RolloutMountsItsConfig
  <2> QED
    BY <1>0, <2>2, <2>3, <2>4, <2>5, CreateOrUpdateEffect
<1>2. CASE ReconcileDeployment
  <2>1. /\ PluginSupported /\ step = Base + 4 /\ Base' = Base
        /\ UNCHANGED <<cached, tls, disabled>>
    BY <1>2, PluginSteps DEF ReconcileDeployment, StepVars, Base
  <2>2. /\ CreateOrUpdate("pdep", PluginDeployment, FALSE)
        /\ PluginDeployment[2] = tls /\ PluginDeployment # Absent
    BY <1>2, NewIsThere DEF ReconcileDeployment, PluginDeployment, PluginConfigMap
  <2>3. (step' = 0 \/ step' = step + 1) /\ ~At("pcm")
    <3>1. Touches("pdep")
      BY <1>0, <2>2, UpdateTouches
    <3>2. ~At("pcm")
      BY <2>1, PluginSteps DEF Base
    <3> QED
      BY <3>1, <3>2 DEF Touches
  <2>4. CASE Put("pdep", PluginDeployment)
    <3>1. api'["pdep"] = PluginDeployment /\ api'["pcm"] = api["pcm"]
      BY <1>0, <2>4, PutEffect
    <3>2. api["pcm"] = Absent \/ api["pcm"][2] >= tls
      BY <2>1 DEF RolloutInv, ConfigFirst
    <3> QED
      BY <2>1, <2>2, <2>3, <3>1, <3>2, ContentProfile DEF RolloutInv, NoFutureHash,
         CachedConfig, ConfigFirst, RolloutMountsItsConfig, Base
  <2>5. CASE Keep
    BY <2>1, <2>3, <2>5, RolloutFrame DEF Keep
  <2> QED
    BY <1>0, <2>2, <2>4, <2>5, CreateOrUpdateEffect
<1> QED
  BY <1>1, <1>2

LEMMA RolloutInvReconcile ==
    TypeOK /\ RolloutInv /\ ReconcileStep => RolloutInv'
<1> SUFFICES ASSUME TypeOK, RolloutInv, ReconcileStep PROVE RolloutInv'
  OBVIOUS
<1> DEFINE Rest == Objects \ {"pcm", "pdep"}
<1>0. /\ ObjectTypes /\ PluginNS \in Rest /\ Backend \cup Legacy \subseteq Rest
      /\ "ns" \in Rest /\ "argocd" \in Rest /\ "psvc" \in Rest /\ "cplugin" \in Rest
  BY TypeParts DEF Objects, Backend, Plugin, Legacy, PluginNS
<1>1. /\ "kam" \in Rest /\ "oldPlugin" \in Rest /\ "sa" \in Rest
      /\ "role" \in Rest /\ "binding" \in Rest /\ "deploy" \in Rest /\ "svc" \in Rest
  BY <1>0 DEF Backend, Legacy
<1> HIDE DEF Rest
<1>2. ASSUME NEW name, At(name), name # "pcm", NEW o \in Rest, UNCHANGED StepVars,
             NEW v, v # Absent, NEW always, CreateOrUpdate(o, v, always)
      PROVE  RolloutInv'
  BY <1>0, <1>2, UpdateTouches, RolloutTouchFrame DEF Rest
<1>3. ASSUME NEW name, At(name), name # "pcm", NEW o \in Rest, UNCHANGED StepVars,
             NEW v, v # Absent, CreateIfAbsent(o, v)
      PROVE  RolloutInv'
  BY <1>0, <1>3, CreateTouches, RolloutTouchFrame DEF Rest
<1>4. ASSUME NEW name, At(name), name # "pcm", NEW o \in Rest, UNCHANGED StepVars,
             NEW v, Put(o, v) \/ Keep, Proceed
      PROVE  RolloutInv'
  BY <1>4, RolloutPutFrame DEF Rest
<1>5. CASE Begin
  BY <1>5, RolloutFrame, PluginSteps, TypeParts DEF Begin, Base
<1>6. CASE EnsureNoArgoCD
  <2>1. ~At("pcm") /\ (step' = 0 \/ step' = step + 1)
    BY <1>6 DEF EnsureNoArgoCD, At, Proceed, Fail
  <2> QED
    BY <1>6, <2>1, RolloutFrame DEF EnsureNoArgoCD
<1>7. ASSUME NEW o \in Backend, Remove(o)
      PROVE  RolloutInv'
  <2>1. RemoveName[o] # "pcm" /\ o \in Rest
    BY <1>0 DEF Backend, RemoveName
  <2> QED
    BY <1>4, <1>7, <2>1 DEF Remove
<1>8. CASE BackendStep
  <2> USE NewIsThere, <1>0, <1>1
  <2>1. CASE ReconcileServiceAccount
    BY <1>3, <2>1 DEF ReconcileServiceAccount
  <2>2. CASE ReconcileClusterRole
    BY <1>2, <2>2 DEF ReconcileClusterRole
  <2>3. CASE ReconcileClusterRoleBinding
    BY <1>3, <2>3 DEF ReconcileClusterRoleBinding
  <2>4. CASE ReconcileBackendDeployment
    BY <1>2, <2>4 DEF ReconcileBackendDeployment
  <2>5. CASE ReconcileBackendService
    BY <1>3, <2>5 DEF ReconcileBackendService
  <2> QED
    BY <1>8, <2>1, <2>2, <2>3, <2>4, <2>5 DEF BackendStep
<1>9. CASE PluginStep
  <2> USE NewIsThere, <1>0
  <2>1. CASE EnsurePluginNamespace
    <3>1. Put(PluginNS, Drifted) \/ Keep
      BY <2>1 DEF EnsurePluginNamespace
    <3> QED
      BY <1>4, <2>1, <3>1 DEF EnsurePluginNamespace
  <2>2. CASE ReconcileService
    BY <1>2, <2>2 DEF ReconcileService
  <2>3. CASE ReconcileConsolePlugin
    BY <1>2, <2>3 DEF ReconcileConsolePlugin
  <2> QED
    BY <1>9, <2>1, <2>2, <2>3, RolloutInvPlugin DEF PluginStep
<1>10. CASE CleanKAMResources
  <2>1. Put("kam", Absent) \/ Keep
    BY <1>10 DEF CleanKAMResources
  <2> QED
    BY <1>1, <1>4, <1>10, <2>1 DEF CleanKAMResources
<1>11. CASE CleanupOldPluginResources
  <2>1. Put("oldPlugin", Absent) \/ Keep
    BY <1>11 DEF CleanupOldPluginResources
  <2> QED
    BY <1>1, <1>4, <1>11, <2>1 DEF CleanupOldPluginResources
<1>12. CASE ReconcileNamespace
  BY <1>0, <1>2, <1>12, NewIsThere DEF ReconcileNamespace
<1>13. CASE EnsureArgoCDNamespace
  BY <1>0, <1>2, <1>13, NewIsThere DEF EnsureArgoCDNamespace
<1>14. CASE ReconcileDefaultArgoCD
  BY <1>0, <1>2, <1>14, NewIsThere DEF ReconcileDefaultArgoCD
<1> QED
  BY <1>5, <1>6, <1>7, <1>8, <1>9, <1>10, <1>11, <1>12, <1>13, <1>14
     DEF ReconcileStep

\* Nobody but the operator changes the plugin's deployment.
RolloutUntouched == "pdep" \notin Tamperable

LEMMA RolloutInvOther ==
    ASSUME TypeOK, RolloutInv, RolloutUntouched, OtherStep
    PROVE  RolloutInv'
<1>0. /\ "pcm" \in Objects /\ "pdep" \in Objects /\ "argocd" \in Objects
      /\ ObjectTypes /\ step \in Nat
  BY TypeParts, PlanLength DEF Objects, Plugin, StepTypes, Base
<1>1. CASE SyncSpec \/ EditSpec
  BY <1>1, RolloutFrame DEF SyncSpec, EditSpec
<1>2. CASE InstanceGone
  <2>1. api'["pcm"] = api["pcm"] /\ api'["pdep"] = api["pdep"]
    BY <1>0, <1>2, PutEffect DEF InstanceGone
  <2> QED
    BY <1>2, <2>1, RolloutFrame DEF InstanceGone
<1>3. CASE Fault
  <2>1. step' = 0 \/ (step' = step + 1 /\ ~At("pcm"))
    BY <1>3 DEF Fault, GiveUpPlugin, Proceed, Fail, Legacy, At
  <2> QED
    BY <1>3, <2>1, RolloutFrame DEF Fault
<1>4. ASSUME NEW o \in Objects, Sync(o)
      PROVE  RolloutInv'
  <2>1. cached'["pcm"] \in {cached["pcm"], api["pcm"]}
    BY <1>0, <1>4 DEF Sync, ObjectTypes
  <2> QED
    BY <1>0, <1>4, <2>1 DEF Sync, RolloutInv, NoFutureHash,
       CachedConfig, ConfigFirst, RolloutMountsItsConfig, Base
<1>5. ASSUME NEW o \in Tamperable, NEW v \in {Absent, Drifted}, Tamper(o, v)
      PROVE  RolloutInv'
  <2>1. UNCHANGED <<cached, tls, disabled, step>>
    BY <1>5 DEF Tamper
  <2>2. api'["pdep"] = api["pdep"] \/ api'["pdep"] = Absent
    BY <1>0, <1>5 DEF RolloutUntouched, Tamper, Store
  <2>3. api'["pcm"] \in {api["pcm"], Absent, Drifted}
    BY <1>0, <1>5 DEF Tamper, Store
  <2> QED
    <3>1. api["pdep"] # Absent => api["pdep"][2] \in Int
      BY <1>0, ContentProfile DEF ObjectTypes
    <3>2. NoFutureHash' /\ CachedConfig'
      BY <2>1, <2>2, <2>3 DEF RolloutInv, NoFutureHash, CachedConfig
    <3>3. ConfigFirst'
      BY <2>1, <2>3, ContentProfile DEF RolloutInv, ConfigFirst, Base
    <3>4. RolloutMountsItsConfig'
      BY <2>2, <2>3, <3>1, ContentProfile
         DEF RolloutInv, NoFutureHash, RolloutMountsItsConfig
    <3> QED
      BY <3>2, <3>3, <3>4 DEF RolloutInv
<1>6. ASSUME NEW d \in Settings, Restart(d)
      PROVE  RolloutInv'
  <2>1. api["pdep"] # Absent => api["pdep"][2] \in Int
    BY <1>0, ContentProfile DEF ObjectTypes
  <2>2. step' = 0 /\ tls' \in {tls, tls + 1} /\ api' = api /\ cached' = api
    BY <1>6 DEF Restart
  <2> QED
    BY <2>1, <2>2, ContentProfile DEF RolloutInv, NoFutureHash, CachedConfig,
       ConfigFirst, RolloutMountsItsConfig, Base
<1> QED
  BY <1>1, <1>2, <1>3, <1>4, <1>5, <1>6 DEF OtherStep

\* reconcilePlugin writes the httpd configuration before the deployment that
\* carries its hash, from one reading of the TLS profile: whatever restarts,
\* errors and stale reads come between the two, and whatever others do to the
\* ConfigMap or the namespace, the rollout the hash starts never mounts a
\* configuration older than the hash.
THEOREM RolloutIsCurrent == RolloutUntouched /\ Spec => []RolloutMountsItsConfig
<1> SUFFICES ASSUME RolloutUntouched PROVE Spec => []RolloutMountsItsConfig
  OBVIOUS
<1>1. TypeOK /\ RolloutInv /\ [Next]_vars => RolloutInv'
  <2>1. CASE UNCHANGED vars
    BY <2>1, RolloutFrame DEF vars
  <2> QED
    BY <2>1, RolloutInvReconcile, RolloutInvOther, NextParts
<1>2. RolloutInv => RolloutMountsItsConfig
  BY DEF RolloutInv
<1> QED
  BY TypeCorrect, RolloutInvInit, <1>1, <1>2, PTL DEF Spec
=============================================================================
