----------------------------- MODULE GitopsService -----------------------------
(***************************************************************************)
(* The GitopsService controller                                            *)
(* (src/controllers/gitopsservice_controller.go, consoleplugin.go): the    *)
(* default Argo CD instance, the backend and the console plugin.           *)
(*                                                                         *)
(* A reconciliation is a fixed list of steps, one object each.  A step     *)
(* reads the object from the informer cache, creates it or brings it up to *)
(* date in the API server, and the first error ends the reconciliation and *)
(* queues it again.  Whether the default instance is wanted is part of the *)
(* operator's environment and so changes only when the operator restarts.  *)
(*                                                                         *)
(* What an object says is a pair: the version of the GitopsService         *)
(* specification (node placement, resources, runOnInfra) and the version   *)
(* of the cluster TLS profile it was made from; 0 where it depends on      *)
(* neither.  An absent object is the empty tuple.                          *)
(***************************************************************************)
EXTENDS Integers, Sequences, FiniteSets

CONSTANTS
    SamePluginNamespace,    \* the plugin lives in openshift-gitops too
    PluginSupported,        \* the cluster has the Console API, and is new enough
    Dex,                    \* the default instance signs in through Dex
    Settings,               \* values DISABLE_DEFAULT_ARGOCD_INSTANCE may have
    Leftovers,              \* what older versions may have left behind
    Tamperable,             \* objects that others may delete or change
    MaxSpec,                \* edits of the GitopsService resource
    MaxTampers,             \* changes by others
    MaxFaults,              \* transient API errors
    MaxRestarts             \* restarts of the operator

Backend == {"sa", "role", "binding", "deploy", "svc"}
Plugin  == {"psvc", "pcm", "pdep", "cplugin"}
Legacy  == {"kam", "oldPlugin"}
Objects == {"ns", "pns", "argocd"} \cup Backend \cup Plugin \cup Legacy

ASSUME ConstantAssumption ==
    /\ SamePluginNamespace \in BOOLEAN /\ PluginSupported \in BOOLEAN
    /\ Dex \in BOOLEAN /\ Settings \subseteq BOOLEAN
    /\ Leftovers \subseteq Legacy /\ Tamperable \subseteq Objects
    /\ MaxSpec \in Nat /\ MaxTampers \in Nat /\ MaxFaults \in Nat
    /\ MaxRestarts \in Nat

VARIABLES
    spec,           \* version of the GitopsService resource
    cachedSpec,     \* the version the informer has
    api,            \* the objects in the API server
    cached,         \* the objects in the informer caches
    pending,        \* events the caches have not seen: "none", "quiet" ones,
                    \* or "loud" ones, which request a reconcile
    terminating,    \* the default instance waits for its finalizer
    queued,         \* a reconcile request is in the work queue
    step,           \* the step of the plan the worker is at; 0: idle
    inst,           \* the version the reconciliation works from
    unread,         \* the last one to get to the plugin could not read the
                    \* cluster's version
    disabled,       \* DisableDefaultInstall of this operator process
    tls,            \* CentralTLSProfile of this operator process
    tampers, faults, restarts

bounds == <<tampers, faults, restarts>>
process == <<disabled, tls>>
vars == <<spec, cachedSpec, api, cached, pending, terminating, queued, step,
          inst, unread, process, bounds>>

-----------------------------------------------------------------------------
Absent  == <<>>
Version == 0..MaxSpec
Tls     == 0..MaxRestarts
Drifted == <<MaxSpec + 1, MaxRestarts + 1>>
Content == {Absent, Drifted} \cup (Version \X Tls)

PluginNS == IF SamePluginNamespace THEN "ns" ELSE "pns"

\* The namespace an object lives in; cluster-scoped ones live nowhere.
NamespaceOf(o) ==
    CASE o \in {"argocd", "sa", "deploy", "svc"} \cup Legacy -> {"ns"}
      [] o \in {"psvc", "pcm", "pdep"}                       -> {PluginNS}
      [] OTHER                                               -> {}

\* What the operator creates: from the resource, from the TLS profile, from
\* both (a deployment carries the profile in its arguments, or the hash of a
\* configuration that does), or always the same.
NewRestrictedNamespace == <<inst, 0>>
NewArgoCD              == <<inst, 0>>
NewBackendDeployment   == <<inst, tls>>
PluginConfigMap        == <<0, tls>>
PluginDeployment       == <<inst, PluginConfigMap[2]>>
Fixed                  == <<0, 0>>

Desired(o) ==
    CASE o = "ns"     -> NewRestrictedNamespace
      [] o = "argocd" -> NewArgoCD
      [] o = "deploy" -> NewBackendDeployment
      [] o = "pcm"    -> PluginConfigMap
      [] o = "pdep"   -> PluginDeployment
      [] OTHER        -> Fixed

\* Mutant of Watched: Owns(&corev1.ServiceAccount{}) is missing.
WatchedButAccounts == (Objects \ {"cplugin", "pns", "sa"}) \ Legacy

\* Which changes of an object request a reconcile: its appearance and
\* disappearance if it is owned or watched, and updates unless the predicate
\* compares the generation of an object that has none.
Watched   == (Objects \ {"cplugin", "pns"}) \ Legacy
Unversioned == {"svc", "psvc"}
Notices(o, old, new) ==
    o \in Watched /\ (old = Absent \/ new = Absent \/ o \notin Unversioned)

\* Mutant of RemovePlan: permissions first.
RevokeFirst == <<"noArgocd", "noSa", "noRole", "noBinding", "noDeploy", "noSvc">>

\* Mutant of RemovePlan: the cluster role is forgotten.
LeaveRole == <<"noArgocd", "noDeploy", "noSvc", "noBinding", "noSa">>

\* Mutant of PluginPlan: the deployment before its configuration.
DeployFirst == IF PluginSupported
                 THEN <<"pluginNS", "psvc", "pdep", "pcm", "cplugin">> ELSE <<>>

\* The steps of Reconcile, in order.
InstallPlan == <<"ns", "argocdNS", "argocd", "sa", "role", "binding", "deploy",
                 "svc">>
RemovePlan  == <<"noArgocd", "noDeploy", "noSvc", "noBinding", "noRole", "noSa">>
PluginPlan  == IF PluginSupported
                 THEN <<"pluginNS", "psvc", "pcm", "pdep", "cplugin">> ELSE <<>>
Plan == <<"kam", "oldPlugin">>
        \o (IF disabled THEN RemovePlan ELSE InstallPlan) \o PluginPlan

At(name) == step \in 1..Len(Plan) /\ Plan[step] = name

\* Mutant of Proceed: the end of the plan is missed.
ProceedPast == step' = step + 1 /\ UNCHANGED <<queued, unread>>

Proceed == /\ step' = IF step = Len(Plan) THEN 0 ELSE step + 1
           /\ IF At("pluginNS") THEN unread' = FALSE ELSE UNCHANGED unread
           /\ UNCHANGED queued
Fail    == step' = 0 /\ queued' = TRUE /\ UNCHANGED unread

-----------------------------------------------------------------------------
(* Steps *)

\* Reconcile begins: the resource is read once.
Begin ==
    /\ step = 0 /\ queued
    /\ step' = 1 /\ queued' = FALSE /\ inst' = cachedSpec
    /\ UNCHANGED <<spec, cachedSpec, api, cached, pending, terminating, unread, process,
                   bounds>>

\* The objects change to `new'; an Update that changes nothing is no event.
Store(new) ==
    /\ api' = new
    /\ pending' = [o \in Objects |->
                     IF new[o] = api[o] THEN pending[o]
                     ELSE IF pending[o] = "loud" \/ Notices(o, api[o], new[o])
                            THEN "loud" ELSE "quiet"]

Put(o, v)    == Store([api EXCEPT ![o] = v])
Keep         == UNCHANGED <<api, pending>>
Updatable(o) == api[o] # Absent /\ pending[o] = "none"
Creatable(o) == api[o] = Absent /\ \A n \in NamespaceOf(o) : api[n] # Absent

\* Get; Create if it is not there; Update if it is there and differs.
CreateOrUpdate(o, v, always) ==
    \/ /\ cached[o] = Absent
       /\ \/ Creatable(o) /\ Put(o, v) /\ Proceed
          \/ ~Creatable(o) /\ Fail /\ Keep
    \/ /\ cached[o] # Absent /\ (always \/ cached[o] # v)
       /\ \/ Updatable(o) /\ Put(o, v) /\ Proceed
          \/ ~Updatable(o) /\ Fail /\ Keep
    \/ /\ cached[o] # Absent /\ ~always /\ cached[o] = v
       /\ Proceed /\ Keep

\* An object that is there is left as it is.
CreateIfAbsent(o, v) ==
    CreateOrUpdate(o, IF cached[o] = Absent THEN v ELSE cached[o], FALSE)

StepVars == <<spec, cachedSpec, cached, terminating, inst, process, bounds>>

ReconcileNamespace ==
    /\ At("ns") /\ CreateOrUpdate("ns", NewRestrictedNamespace, FALSE)
    /\ UNCHANGED StepVars

\* reconcileDefaultArgoCDInstance looks at the namespace once more.
EnsureArgoCDNamespace ==
    /\ At("argocdNS") /\ CreateOrUpdate("ns", NewRestrictedNamespace, FALSE)
    /\ UNCHANGED StepVars

\* An instance that uses Dex counts as changed every time.
ReconcileDefaultArgoCD ==
    /\ At("argocd") /\ CreateOrUpdate("argocd", NewArgoCD, Dex)
    /\ UNCHANGED StepVars

\* reconcileBackend, one resource after the other.
ReconcileServiceAccount ==
    /\ At("sa") /\ CreateIfAbsent("sa", Fixed) /\ UNCHANGED StepVars
ReconcileClusterRole ==
    /\ At("role") /\ CreateOrUpdate("role", Fixed, FALSE) /\ UNCHANGED StepVars
ReconcileClusterRoleBinding ==
    /\ At("binding") /\ CreateIfAbsent("binding", Fixed) /\ UNCHANGED StepVars
ReconcileBackendDeployment ==
    /\ At("deploy") /\ CreateOrUpdate("deploy", NewBackendDeployment, FALSE)
    /\ UNCHANGED StepVars
ReconcileBackendService ==
    /\ At("svc") /\ CreateIfAbsent("svc", Fixed) /\ UNCHANGED StepVars

\* The resources of the plugin, in the order of reconcilePlugin.
ReconcileService ==
    /\ At("psvc") /\ CreateOrUpdate("psvc", Fixed, FALSE) /\ UNCHANGED StepVars
\* Mutant of ReconcileConfigMap: the plugin's ConfigMap is only created.
CreateConfigMap ==
    /\ At("pcm") /\ CreateIfAbsent("pcm", PluginConfigMap) /\ UNCHANGED StepVars
ReconcileConfigMap ==
    /\ At("pcm") /\ CreateOrUpdate("pcm", PluginConfigMap, FALSE)
    /\ UNCHANGED StepVars
ReconcileDeployment ==
    /\ At("pdep") /\ CreateOrUpdate("pdep", PluginDeployment, FALSE)
    /\ UNCHANGED StepVars
ReconcileConsolePlugin ==
    /\ At("cplugin") /\ CreateOrUpdate("cplugin", Fixed, FALSE)
    /\ UNCHANGED StepVars

\* Mutant of EnsurePluginNamespace: the namespace is left to the default install.
AssumePluginNamespace ==
    /\ At("pluginNS") /\ Keep /\ Proceed
    /\ UNCHANGED StepVars

\* ensurePluginNamespace: created without the labels a namespace of
\* the default install has, AlreadyExists tolerated, never updated.
EnsurePluginNamespace ==
    /\ At("pluginNS")
    /\ IF cached[PluginNS] = Absent /\ api[PluginNS] = Absent
         THEN Put(PluginNS, Drifted) ELSE Keep
    /\ Proceed
    /\ UNCHANGED StepVars

\* ensureDefaultArgoCDInstanceDoesntExist: nothing to do when the cache has no
\* namespace or no instance; a Delete that finds nothing is an error.
EnsureNoArgoCD ==
    /\ At("noArgocd")
    /\ \/ /\ cached["ns"] = Absent \/ cached["argocd"] = Absent
          /\ Proceed /\ UNCHANGED terminating
       \/ /\ cached["ns"] # Absent /\ cached["argocd"] # Absent
          /\ \/ api["argocd"] # Absent /\ terminating' = TRUE /\ Proceed
             \/ api["argocd"] = Absent /\ UNCHANGED terminating /\ Fail
    /\ UNCHANGED <<spec, cachedSpec, api, cached, pending, inst, process, bounds>>

\* cleanupBackendResources: deleted by name, NotFound tolerated.
RemoveName == [sa |-> "noSa", role |-> "noRole", binding |-> "noBinding",
               deploy |-> "noDeploy", svc |-> "noSvc"]
Remove(o) ==
    /\ At(RemoveName[o])
    /\ Put(o, Absent) /\ Proceed
    /\ UNCHANGED StepVars

\* cleanKAMResources and cleanupOldPluginResources delete what the cache shows,
\* NotFound tolerated, and never stop the reconciliation; the latter has
\* something to do only if the plugin has moved.
CleanKAMResources ==
    /\ At("kam")
    /\ IF cached["kam"] # Absent THEN Put("kam", Absent) ELSE Keep
    /\ Proceed /\ UNCHANGED StepVars

CleanupOldPluginResources ==
    /\ At("oldPlugin")
    /\ IF cached["oldPlugin"] # Absent /\ ~SamePluginNamespace
         THEN Put("oldPlugin", Absent) ELSE Keep
    /\ Proceed /\ UNCHANGED StepVars

\* If the version of the cluster, which decides about the plugin, cannot be read,
\* that is logged, and the reconciliation ends as if it had succeeded.
GiveUpPlugin ==
    /\ At("pluginNS")
    /\ step' = 0 /\ unread' = TRUE /\ UNCHANGED queued
Fault ==
    /\ step # 0 /\ faults < MaxFaults
    /\ faults' = faults + 1
    /\ \/ IF \E o \in Legacy : At(o) THEN Proceed ELSE Fail
       \/ GiveUpPlugin
    /\ UNCHANGED <<spec, cachedSpec, api, cached, pending, terminating, inst, process,
                   tampers, restarts>>

-----------------------------------------------------------------------------
(* Informers and other actors *)

Sync(o) ==
    /\ pending[o] # "none"
    /\ cached' = [cached EXCEPT ![o] = api[o]]
    /\ pending' = [pending EXCEPT ![o] = "none"]
    /\ queued' = (queued \/ pending[o] = "loud")
    /\ UNCHANGED <<spec, cachedSpec, api, terminating, step, inst,
                   unread, process, bounds>>

SyncSpec ==
    /\ cachedSpec # spec
    /\ cachedSpec' = spec /\ queued' = TRUE
    /\ UNCHANGED <<spec, api, cached, pending, terminating, step, inst,
                   unread, process, bounds>>

\* The ArgoCD controller has cleaned up and removed its finalizer.
InstanceGone ==
    /\ terminating
    /\ terminating' = FALSE
    /\ Put("argocd", Absent)
    /\ UNCHANGED <<spec, cachedSpec, cached, queued, step, inst, unread, process, bounds>>

EditSpec ==
    /\ spec < MaxSpec
    /\ spec' = spec + 1
    /\ UNCHANGED <<cachedSpec, api, cached, pending, terminating, queued, step,
                   inst, unread, process, bounds>>

\* Somebody deletes an object, with all that is in it if it is a namespace, or
\* changes it.
Tamper(o, v) ==
    /\ tampers < MaxTampers /\ api[o] # Absent
    /\ tampers' = tampers + 1
    /\ Store([x \in Objects |->
                 IF x = o \/ (v = Absent /\ o \in NamespaceOf(x))
                   THEN v ELSE api[x]])
    /\ terminating' = (terminating /\ api'["argocd"] # Absent)
    /\ UNCHANGED <<spec, cachedSpec, cached, queued, step, inst, unread, process, faults,
                   restarts>>

\* The operator restarts, perhaps with another setting or TLS profile, and
\* with its caches filled.
Restart(d) ==
    /\ restarts < MaxRestarts
    /\ restarts' = restarts + 1
    /\ disabled' = d /\ tls' \in {tls, tls + 1}
    /\ step' = 0 /\ queued' = TRUE
    /\ cachedSpec' = spec /\ cached' = api
    /\ pending' = [o \in Objects |-> "none"]
    /\ UNCHANGED <<spec, api, terminating, inst, unread, tampers, faults>>

-----------------------------------------------------------------------------
\* The operator starts on a cluster where an older version may have left
\* resources of KAM and of the plugin behind.
Init ==
    /\ spec = 0 /\ cachedSpec = 0 /\ inst = 0
    /\ \E left \in SUBSET Leftovers :
         api = [o \in Objects |-> IF o \in left \/ (o = "ns" /\ left # {})
                                    THEN <<0, 0>> ELSE Absent]
    /\ cached = api /\ pending = [o \in Objects |-> "none"]
    /\ terminating = FALSE /\ queued = TRUE /\ step = 0 /\ unread = FALSE
    /\ disabled \in Settings /\ tls = 0
    /\ tampers = 0 /\ faults = 0 /\ restarts = 0

BackendStep ==
    \/ ReconcileServiceAccount \/ ReconcileClusterRole
    \/ ReconcileClusterRoleBinding \/ ReconcileBackendDeployment
    \/ ReconcileBackendService

PluginStep ==
    \/ EnsurePluginNamespace \/ ReconcileService \/ ReconcileConfigMap
    \/ ReconcileDeployment \/ ReconcileConsolePlugin

ReconcileStep ==
    \/ Begin \/ CleanKAMResources \/ CleanupOldPluginResources
    \/ ReconcileNamespace \/ EnsureArgoCDNamespace \/ ReconcileDefaultArgoCD
    \/ BackendStep \/ EnsureNoArgoCD \/ PluginStep
    \/ \E o \in Backend : Remove(o)

Next ==
    \/ ReconcileStep \/ SyncSpec \/ InstanceGone
    \/ \E o \in Objects : Sync(o)
    \/ Fault \/ EditSpec
    \/ \E o \in Tamperable, v \in {Absent, Drifted} : Tamper(o, v)
    \/ \E d \in Settings : Restart(d)

Spec == Init /\ [][Next]_vars

\* The worker and every informer keep going, and the ArgoCD controller finishes
\* deletions; edits, tampering, faults and restarts may never happen.
FairSpec == /\ Spec /\ WF_vars(ReconcileStep) /\ WF_vars(SyncSpec)
            /\ WF_vars(InstanceGone)
            /\ \A o \in Objects : WF_vars(Sync(o))

-----------------------------------------------------------------------------
(* Properties *)

\* Type invariant.
TypeOK ==
    /\ spec \in Version /\ cachedSpec \in Version /\ inst \in Version
    /\ api \in [Objects -> Content] /\ cached \in [Objects -> Content]
    /\ pending \in [Objects -> {"none", "quiet", "loud"}]
    /\ terminating \in BOOLEAN /\ queued \in BOOLEAN /\ unread \in BOOLEAN
    /\ step \in 0..Len(Plan)
    /\ disabled \in BOOLEAN /\ tls \in Tls
    /\ tampers \in 0..MaxTampers /\ faults \in 0..MaxFaults
    /\ restarts \in 0..MaxRestarts

Settled == /\ step = 0 /\ ~queued /\ ~terminating
           /\ cachedSpec = spec /\ \A o \in Objects : pending[o] = "none"

\* The objects whose differences are repaired; the others are only created.
Repaired == {"ns", "argocd", "role", "deploy", "psvc", "pcm", "pdep", "cplugin"}

Good(o) == api[o] # Absent /\ (o \in Repaired => api[o] = Desired(o))

\* When nothing is left to do, the cluster is what the specification and the
\* environment ask for, however stale the reads on the way were: everything of
\* the default install is there or nothing of it is, and the plugin is there
\* in either case, unless the last reconciliation could not read the cluster's
\* version.
SettledIsConverged ==
    Settled =>
        /\ inst = spec
        /\ IF disabled
             THEN \A o \in {"argocd"} \cup Backend : api[o] = Absent
             ELSE \A o \in {"ns", "argocd"} \cup Backend : Good(o)
        /\ PluginSupported /\ ~unread => api[PluginNS] # Absent /\ \A o \in Plugin : Good(o)

\* The backend never runs without its service account and RBAC, unless others
\* removed them: they are created before it and, as the comment in
\* cleanupBackendResources says, revoked after it; a crash or an error in the
\* middle of either, followed by the other, keeps it so.
BackendHasRBAC ==
    api["deploy"] # Absent
      => \A o \in {"sa", "role", "binding"} : api[o] # Absent

\* The plugin's httpd configuration is written before the deployment that
\* carries its hash, so the rollout the hash starts mounts the new one.
RolloutMountsItsConfig ==
    api["pdep"] # Absent /\ api["pcm"] # Absent => api["pdep"][2] <= api["pcm"][2]

\* Under FairSpec no error repeats itself forever: the reconciliations die
\* down.  ensurePluginNamespace is there so that they do.
Quiesces == <>[]Settled

=============================================================================
