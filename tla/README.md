# A TLA+ model of the GitOps operator

The operator in `src/` keeps Argo CD installed on an OpenShift or Kubernetes
cluster. It is one process that runs several controllers over a shared informer
cache (`src/cmd/main.go`). Every controller works the same way: an event puts a
request in its work queue, one worker takes it, reads objects *from the cache*,
and writes objects *to the API server*; an error puts the request back.

That split is what makes the code hard to test. Between a write and the arrival
of its watch event the cache is wrong, unit tests run with a fake client that
has no cache, and the end-to-end tests never hit the window. The modules here
keep what is stored and what is cached apart, for every object that a controller
reads and writes, and ask what the controllers do in between, with API
errors, restarts, other writers and renewal timers at any moment. Where a controller
goes by an outdated copy and nothing corrects it, the properties except that, and
"Known departures" says so.

## Contents

| File | What it is |
| --- | --- |
| `LocalUsers.tla` | tokens of local users: controller, renewal goroutines, timers, two Secrets |
| `LocalUsersProofs.tla`, `LocalUsersSettled.tla` | theorems about it, checked by TLAPS: types, caches and tokens; what is true once it has settled |
| `MCLocalUsers.tla`, `MCLocalUsers*.cfg`, `LocalUsers*.cfg` | its instances for TLC |
| `GitopsService.tla` | the GitopsService controller: default instance, backend, console plugin |
| `GitopsServiceProofs.tla`, `GitopsConvergence.tla` | theorems about it: types, permissions and rollouts; that it has converged when it rests |
| `MCGitopsService.tla`, `MCGitops*.cfg` | its instances |
| `ConsoleLink.tla`, `MCConsoleLink.tla`, `MCConsoleLink.cfg` | the Argo CD route controller |
| `ConsoleLinkProofs.tla` | theorems about it |
| `CoreObjects.tla`, `AccessObjects.tla`, `AddonObjects.tla`, `RightsObjects.tla`, `AgentObjects.tla`, `OtherObjects.tla` | the catalogue: a record per reconciler of an object, each module extending the one before |
| `Instance.tla` | what becomes of an object under its reconciler, the queue, the watches and disturbances |
| `InstanceProofs.tla` | theorems about `Instance`: the refinement, and what has settled |
| `ManagedObject.tla` | abstract specification: what a reconciler promises; `Instance` implements it |
| `MCInstance.tla`, `MCInstance.cfg` | the whole catalogue for TLC, and the known departures |
| `Namespaces.tla`, `MCNamespaces.tla`, `MCNamespaces.cfg`, `NamespacesDeletion.cfg`, `NamespacesHandover.cfg` | managed and source namespaces of two instances |
| `NamespacesProofs.tla` | theorems about them, for any number of instances |
| `PROJECT.json` | components, runs, mutants, map of definitions to source lines, findings, hazards, theorems |

A run is `tlc -workers 2 -config X.cfg M`; the proofs of a module are checked by `tlapm M.tla`.

## Inventory of the system

Paths are under `src/`; `AO` is `src/argocd-operator`.

### Process (`cmd/main.go`, `controllers/util/util.go`)
State: the environment (`DISABLE_DEFAULT_ARGOCD_INSTANCE`,
`DISABLE_DEFAULT_ARGOCD_CONSOLELINK`), the APIs the cluster has and the
cluster's TLS profile, all read at start. A changed TLS profile cancels the
manager's context, which restarts the process. So a setting changes only
together with a restart, and a restart can cut any reconciliation short. The
caches are full before a controller runs, and every existing object produces an
event. Leader election is off by default; one replica runs.

### Client (`AO/pkg/clientwrapper`, `AO/pkg/cacheutils`)
Secrets and ConfigMaps without a tracking label are stripped of their data in the
cache; `Get` then reads them live and adds the label. Everything the controllers
below create carries the label, so their reads of it come from the cache. Hard:
a label added by a best-effort patch while the object is being reconciled.

### GitopsService controller (`controllers/gitopsservice_controller.go`)
State: the objects of the default install: namespace `openshift-gitops`, an
ArgoCD resource, and the backend's ServiceAccount, ClusterRole,
ClusterRoleBinding, Deployment and Service. Operations: `Reconcile`, which cleans
up after older versions, installs (`reconcileDefaultArgoCDInstance`,
`reconcileBackend`) or removes (`ensureDefaultArgoCDInstanceDoesntExist`,
`cleanupBackendResources`) and then reconciles the plugin. Interactions: it
creates and deletes the instance the ArgoCD controller works on; the metrics
controller writes the same namespace. Hard: one step of many fails; a restart with
the opposite setting halfway; the instance is deleted in two phases, behind a
finalizer; an instance with Dex is written back by every reconciliation. Correct
if it settles on what was asked for, whatever happened on the way, if the errors
die down, and if the backend never runs without its permissions.

### Console plugin (`controllers/consoleplugin.go`)
State: Service, ConfigMap, Deployment and ConsolePlugin, in the operator's own
namespace or in `openshift-gitops`. Operations: `ensurePluginNamespace`, the four
`reconcile...` functions in order, `cleanupOldPluginResources`. Hard: the Deployment
carries a hash of the ConfigMap, so their order matters; with the default
install disabled nobody else creates the namespace. Correct if a rollout mounts
the configuration whose hash started it.

### Argo CD route controller (`controllers/argocd_controller.go`)
State: one ConsoleLink. Operation: `Reconcile`, which creates, updates or deletes
the link according to the route's host and the setting. It watches only the
route. Correct if the link follows the route and goes away when disabled.

### Metrics controller (`controllers/argocd_metrics_controller.go`)
State: for every ArgoCD resource a label on its namespace, a read Role and
RoleBinding, ServiceMonitors, PrometheusRules and dashboards. It hears of ArgoCD
resources only. Hard: whether there is something to delete is decided by a cached
label; the names are those of the namespace, so two instances in one share them.
Correct if the objects are there exactly while metrics are on.

### ArgoCD controller (`AO/controllers/argocd`)
The largest part: from one ArgoCD resource to more than a hundred objects. Its parts:
- *lifecycle* (`argocd_controller.go`, `util.go`): finalizer, deletion, the gauges
  of active instances, status and phase (`status.go`). Hard: a deletion is
  reconciled more than once when a clean-up fails.
- *local users* (`localusers.go`): tokens in two Secrets, renewal timers in the
  process, goroutines that work beside the controller. The only real concurrency
  of the operator.
- *workloads* (`deployment.go`, `statefulset.go`, `repo_server.go`, `service.go`,
  `configmap.go`, `route.go`, `ingress.go`, ...): create, update or delete by flags.
- *Secrets* (`secret.go`): `argocd-secret`, TLS and cluster Secrets, which several
  parts write whole.
- *namespaces and RBAC* (`role.go`, `rolebinding.go`, `namespaceManagement.go`,
  `custommapper.go`): labels on namespaces decide which instance manages them, roles
  in them follow. Hard: two instances claim one namespace; rights are
  deleted through a client that reads live, and made by passes that read the caches; what a
  deleted instance leaves behind.
- *ApplicationSet, notifications, image updater, Dex*: workloads of their own; Dex
  waits for a token with a timed requeue.

### Other controllers and libraries
NotificationsConfiguration (`AO/controllers/notificationsconfiguration`), ArgoCDExport
(`AO/controllers/argocdexport`), agent and principal (`AO/controllers/argocdagent`), promoter
(`AO/controllers/gitopspromoter`), the TLS profile mapping (`AO/pkg/tlsprofile`), the
conversion of v1alpha1 to v1beta1, the OpenShift hooks
(`controllers/argocd/openshift`), the Argo Rollouts manager (another repository). `PROJECT.json`
lists each with its status.

## How the modules correspond to the code

### API server and caches
A write is accepted or refused by what the API server does with it: an Update
carries the resourceVersion that was read, so it conflicts when the object has
changed since it was cached; a Create of an existing object is AlreadyExists; a
Delete of an absent one is NotFound. No version numbers are needed: a cached copy
is out of date exactly when an event about it is still on its way.

- In `LocalUsers` there is one informer for Secrets, and its events arrive in
  order. `watch` is the sequence of events to come, each with the state of the
  Secrets after it; `DeliverSecret` applies the first. The order matters there,
  because two Secrets are compared with each other.
- In `GitopsService` and `ConsoleLink` each kind of object has an informer of its own,
  so caches catch up in any order. Whatever is pending for one object is
  delivered at once (`Sync`), and `pending` remembers whether it would request a
  reconcile ("loud") or not ("quiet": kinds that are not watched, and updates of
  Services, which have no generation for the predicate to compare).
- In `Instance` there is one object, and `versions` is its history from the version the
  informer shows to the one that is stored; `Observe` drops the first. A write goes by the first
  and is accepted or refused by the last (`Accepted`).
- In `Namespaces` the namespace has `cached` and `behind`, with the updates on their way to the predicate
  in `notices`; Roles, RoleBindings and cluster Secrets have a cached copy each (`cachedRole`, ...), refreshed
  by `ShowRoles`, `ShowBindings` and `ShowSecrets` in any order. The predicate works on what is stored, the
  passes on what is cached.

### `LocalUsers`
| State | Code |
| --- | --- |
| `cr`, `cachedCR`, `crWatch` | the ArgoCD resource: users, what `extraConfig` says of them, deletion |
| `store.user[u]` | Secret `(user)-local-user`: token, expiry, lifetime text, autoRenew |
| `store.argo` | `argocd-secret`: whether it exists, and `accounts.(user).tokens` |
| `timer`, `zombies` | `LocalUsersInfo.tokenRenewalTimers`; callbacks of stopped timers still waiting |
| `timer[u].stale` | not in the code: the timer was set from an outdated copy of the token, or its token was renewed without an answer |
| `pass` | who holds `LocalUsersInfo.lock`, and where in `reconcileLocalUsers` it is |
| `renewals` | goroutines started by timers, waiting for the lock |
| `ctl`, `queued` | the controller's worker and its queue |

A pass is cut where it writes: `ReconcileLocalUser` decides, `IssueTokenSecret` and
`IssueTokenArgo` are the two writes of `issueToken`, `CleanupToken` and `CleanupSecret`
the two of `cleanupLocalUser`. Between any two of them everybody else may move. The lock
keeps passes apart, but not informers, administrators, Argo CD, or the deletion of
the instance, which takes the lock only to remove the timers.

Abstractions: a token is its identifier, taken from a counter in place of
`uuid.NewRandom`; time is in whole seconds, as `expAt` is, and a token has expired
when the clock has reached `expAt`; `enabled: false` and `apiKey: false` are one flag,
since the code always asks for both at once; users are taken in any order, where the
code follows the list; `ParseDuration` is the function `Duration`, so that several texts
with one duration stay different texts. A failing call is an error before its effect, or
(`LostAnswers`) after it.

### `GitopsService`
A reconciliation is a `Plan`: a sequence of names, one per object, in the order of
`Reconcile`; `step` is the position and each name has its action. `CreateOrUpdate`
and `CreateIfAbsent` are the two shapes the code has. Contents are pairs of
versions (GitopsService specification, TLS profile), which is what tells the
objects the operator builds apart. `Restart` may change the settings. Whether the plugin is
reconciled at all depends on the version of the cluster; an error on reading it is logged, and
the reconciliation ends as if it had succeeded (`GiveUpPlugin`, remembered in `unread`).

Left out: the ResourceQuota an old version created, the status of the resource,
the namespace used on OpenShift 4.6, and deletion of the GitopsService resource.
The instance's finalizer is taken to be there, so a Delete makes it `terminating`
and `InstanceGone`, the ArgoCD controller, ends it.

### `ConsoleLink`
One reconciliation has two reads: `ReadRoute`, then one of three actions that read the
link and write it. Events of ConsoleLinks (`SyncLink`) request nothing.

### The catalogue, `Instance` and `ManagedObject`
Every `reconcile...` function of the ArgoCD controller has one outline: build the
desired object; look for the existing one; delete it, compare it field by field and
update it, or create it. They differ in their conditions and in the fields they
fill in and compare, and that is where mistakes are: the condition for creating is not
the negation of the condition for deleting, a field is filled in but not compared, an
object is neither owned nor watched, an error is logged and dropped. So a
reconciler is a *record* (`Reconciler` in `CoreObjects`) of just that, as a function of
the set `on` of switches that are on, in the resource or in the cluster (`Platform`).
An entry such as `RedisDeployment` stands for the whole function: its inputs are the
`follows` of the record, its comparisons the `repairs`, its early returns
`keep`, `make` and `visited`. The contents of a field are one of two versions, or
`Drift`.

`Instance` picks one object and one field (`focus`) and runs its reconciler: `Begin` takes
the request with the resource as the informer last delivered it, `Reconcile` finds, deletes,
repairs or creates, `Fail` stops anywhere before, between or after, `Refused` is an error
that will be there again next time, `Deliver` is the update event with the predicates that
delete things by themselves. Objects are reconciled one after another and do not look at each
other, so one at a time is enough; fields that a record treats alike are represented by one
(`Samples`).

| State | Code |
| --- | --- |
| `cr`, `told` | the resource, and as the informer last delivered it |
| `versions` | the object: `shown` is the first, which the pass finds (`IsObjectFound` through the manager's client), `cluster` the last, which is stored |
| `mark` | the monitoring label of the namespace, likewise; only the metrics objects look at it (`gated`) |
| `queued`, `pass` | the queue and the worker, with the resource it read |
| `unnoticed` | not in the code: something is left to do and nobody will hear of it |

So a pass can find what is gone, or miss what is there. Its creation is then AlreadyExists, its
update a Conflict, its deletion NotFound (`Accepted`, `Rejected`): an error, and the request comes back. The
metrics controller deletes without looking and does not mind NotFound (`blind`, `tolerant`), but only if
it sees the label (`Idle`). What is left is the pass that sees an object as it should be, and writes
nothing: if the object is watched, the event that is on its way brings another pass (`Observe`); if
it is not (ServiceAccounts, autoscalers, PrometheusRules, roles in managed namespaces, everything of the
metrics controller; `Watched`), nothing does, and `Misled` sets `unnoticed`.

What `unnoticed` is for: the code relies on a later pass for many things and on an event that
is seen once for others. A foreign change nobody will hear of (of an object that is
not watched, or of the label), a pass misled by an outdated copy of such an object, an event missed by a
restart, and an error that is logged leave the object wrong until the next pass happens to come, which
clears `unnoticed` if its copies are up to date. `Settled` excepts them, and nothing else: for an
object that is watched no exception is made for what a pass saw.

`ManagedObject` states the promise without any of that: whenever it acts, the
operator leaves the object alone or brings it one step nearer to the request it works
on, going by the version it sees; it never touches what it sees to be right, never makes what is not
wanted, overwrites nothing it has not seen, and deletes what is wanted only if it cannot be mended. `KeepsPromise` is that specification under the
mapping `asked <- cr, heard <- told, working <- pass`, its history being `versions`. `Nearer` is defined from what is *wanted*, so a reconciler that deletes on
one condition and creates on another fails it.

### `Namespaces`
| State | Code |
| --- | --- |
| `label`, `cached`, `behind` | the labels `managed-by` (set by users), `managed-by-cluster-argocd` (set by the operator) and that for ApplicationSets (`SetAppset`, set by passes of a cluster-wide instance for reasons of their own); the cache; whether a write is on its way to it |
| `notices`, `handler` | update events for `namespaceFilterPredicate`, and where it is in its deletions |
| `role`, `binding`, `sourceRole`, `sourceBinding` | RBAC in the namespace, by the *name* of the instance, which two may share |
| `listed`, `changed` | the namespaces in the cluster Secret; whose Secret was written since it was cached |
| `cachedRole`, `cachedBinding`, `cachedSourceRole`, `cachedSourceBinding`, `cachedListed` | the same in the informer caches, which the passes read |
| `pass`, `queue` | the worker: one pass, cut at every call that reads or writes |
| `held` | `r.ManagedSourceNamespaces`, one map for all instances |
| `missed` | not in the code: a manager's rights stay, as the purge failed, was never heard of, or was over when the pass granted them |
| `unwritten` | not in the code: an instance's label on the namespace could not be written or removed |
| `outdated` | not in the code: whose last pass took a right in the cache for granted that was deleted already |

The predicate runs on the informer's goroutine, so its three deletions interleave with
the calls of a pass. A label write is refused if the copy is old (`behind`), which the
code logs. `Mapped` is the mapper: the manager if there is one, otherwise the instance named by the label
for ApplicationSets, otherwise whoever matches *as a glob*, while passes also match regular expressions.

A pass reads Roles, RoleBindings and its cluster Secret from the caches. One it finds is left alone, one it
does not find is created, and if it is there after all, that is AlreadyExists and the pass starts over. The
cluster Secret goes back with the resourceVersion it was read with, so a write since is a conflict. In a clean-up a
role or binding the cache does not show is skipped (`Unrole`, `Unbind`), one that it shows and that is gone ends the
clean-up. Outside the instance's own namespace Roles and RoleBindings have no owner
reference, so `ShowRoles` and `ShowBindings` wake nobody; cluster Secrets do, through their own mapper. `Allowed`
is the sweep of instances that are not cluster-wide, `Sweep` the one inside a pass, `FinalSweep` that of a deletion.

## Runs

Every passing run has mutants: for each of its properties a definition is replaced
by one with a plausible mistake (marked "Mutant" in the modules), and TLC then finds
the property violated.

| Run | Bounds | Shows |
| --- | --- | --- |
| `local_users` | 1 user, tokens of 2 seconds, 1 edit, 1 trouble, time 0..2 | type, `TokenNeverAhead`, `CurrentTokenHasTimer`, `InactiveIsRevoked`, `NoTimerWithoutRenewal` |
| `local_users_two` | 2 users, time 0..1 | `OneUserAtATime` |
| `local_users_liveness` | 1 user, 1 trouble, time 0..1, fairness | `ActiveGetsToken`, `NobodyWaitsForever` |
| `gitops_service` | no plugin; 1 edit, 1 tampering, 1 error, 1 restart | type, `SettledIsConverged` |
| `gitops_plugin` | plugin in the same namespace; 2 restarts, both settings | `SettledIsConverged`, `BackendHasRBAC`, `RolloutMountsItsConfig` |
| `gitops_liveness` | plugin in its own namespace, default install off; 1 tampering, 1 error, leftovers, fairness | `SettledIsConverged`, `Quiesces` |
| `console_link` | 2 hosts, 4 edits, 1 error, 2 restarts, fairness | type, `DisabledHasNoLink`, `Quiesces` |
| `instance` | the whole catalogue, all switches of each reconciler; 2 disturbances for nine sorts of reconcilers, 1 for the others; fairness | type, `SettledPresence`, `SettledContent`, `KeepsPromise`, `Quiesces` |
| `namespaces` | 2 instances; managers with one name or two (2 edits), or 1 edit and 1 fault beside a cluster-wide instance, with and without a manager from the start, or 1 edit of a source namespace with or without a rival; fairness | type, `ManagerHasRights`, `SourceHasRights`, `NoRightsLeft`, `Quiesces` |
| `local_users_orphan`, `namespaces_deletion`, `namespaces_handover` | smaller still | violations, see Findings |

A "trouble" is an API error, a restart, a write of a Secret by somebody else, or an
event of an unrelated object; an edit is any change of the resource, deletion included.

Why the bounds are enough to be interesting: a token lives one or two seconds, so the clock
reaches an expiry and a renewal within the bound; the user's tokens are issued
at least twice, once per pass of the controller and of a goroutine. In `local_users` they live two
seconds, so that a token can be replaced by a newer one while it is still good. One edit and one
trouble already interleave with every step of a pass, of the informers and of the
timers; two edits with the same trouble (10 million states, checked once) satisfy the invariants too, and
theorems take over from there. Two users are what `OneUserAtATime` compares. In `GitopsService` two restarts are needed for install, remove,
install with a cut in each; with one, the mutants of the order are already caught.
In `Instance` the switches are exhausted, since mistakes hide in combinations of them; one
disturbance then suffices to have each reconciler meet each state of its object, and
two are tried on one object of each sort (service, workload, autoscaler, purged,
dropped, replaced, refused, ...). In `Namespaces` taking the namespace away and giving it to
another are two edits; one scenario starts with a labelled namespace, so that one edit
purges the rights and the fault can hit the purge (`PurgeFails`) as well as a pass. The
predicate, the worker and three informers already interleave at every step; the
largest state spaces that were checked once without liveness (two edits and one fault for managers, 22.3 million states; one
edit and one fault for claimers, 1.5 million) satisfy the invariants too, and the theorems hold for every number. In
the run itself a clean-up fails only at the writing of the mark; its other failures are in those larger checks and in the theorems.

A system with nothing left to do may stop, so deadlock is not checked: `Settled` is
the goal, and the properties say what is true there. That an operator does not
stop early is what the liveness properties are for.

### Fairness
- The worker, the informers and the garbage collector are weakly fair: controller-runtime
  never drops a queued request, and a watch is re-established.
- Whoever waits for the lock is strongly fair: `sync.Mutex` hands over to a
  waiter that has starved for a millisecond. Weak fairness would not do, as the lock is
  free again and again without being free for good.
- A running timer elapses and its callback is started by the Go runtime.
- The clock advances up to its bound.
- `Instance` and `Namespaces`: the informers deliver, of the resource as of each kind of object and of the labels, the
  handler goes on, the worker runs, and no request waits in the queue forever.
- Nothing is assumed of administrators, errors, restarts, tampering, Argo CD or events
  of other objects: they may or may not happen.

### Findings
Where a comment promises more than the code does, a run is expected to be violated:

- `NoOrphanToken`: `localusers.go:548` argues from the order of two writes that a removed
  user leaves no token behind; the first is skipped when the cache does not show the
  token yet, and the second is not.
- `GoneLeavesNothing`: `util.go:1263` says that the resources in source namespaces are cleaned up;
  the pass over a deleted instance goes by a map that the last pass over *any* instance
  filled, so a deletion right after a pass over another one leaves label and Role behind. The RoleBinding
  goes with `deleteClusterResources` (`util.go:696`), which finds it by its label `managed-by`, if the cache shows
  it by then.
- `RightsAreMadeAgain`: `util.go:986` says that the rights of the old manager are deleted first and that the
  reconciler then creates the appropriate ones. The predicate deletes through the live client, everything of Argo CD's
  in the namespace; a pass that had already made the rights of the new manager, or of the same one again, is followed
  by one that can still see them in the cache (`role.go:140`, `rolebinding.go:145`) and leaves them alone. Nobody hears of
  their deletion, so the manager stays without role or binding until something else causes a pass.

### Known departures
Things the code does not do, which the properties therefore except. They are
written down so that nobody takes the properties for more than they say.

*Local users.* The two Secrets can settle on different tokens: only the key is looked for
in `argocd-secret` (`localusers.go:296`), so if its update is refused after the user Secret was
written, the old token stays. A lifetime changed to `0h` leaves the old timer
(`localusers.go:169` knows only the empty text and `0`). A goroutine that waits for the lock
while an instance is deleted starts a timer again (`localusers.go:81`). If the answer to the
write of `argocd-secret` is lost (`IssueTokenAnswerLost`, `LostAnswers`), the retry finds a
current token and keeps the timer of the old one; the token is renewed only when
something else causes a pass. A pass also starts a timer from the *cached* token
(`localusers.go:337`). If a token has been replaced before it expired (a pass that does not see its own
entry in `argocd-secret` yet does so) and `autoRenewToken` is turned off and on again before the informer
shows the new token, then the timer is that of the old one: it elapses early, finds nothing to renew and
is not started again. TLC finds this with two edits and tokens of two seconds, and likewise with a
lifetime that is changed to another and back. `timer[u].stale` marks both kinds of timers, and
`CurrentTokenHasTimer` excepts them.

*GitopsService.* If the version of the cluster cannot be read (`gitopsservice_controller.go:328`), the plugin is not
reconciled and the request does not come back: it stays as it is until something else causes a
reconciliation. `SettledIsConverged` excepts the plugin then (`unread`).

*Console link.* A route deleted before the cache has seen its new link leaves the link
(`controllers/argocd_controller.go:192`).

*Objects* (`Departures` and `CreatedOnly` in `MCInstance`):
- an object that is not watched, left wrong by a pass that saw an outdated copy of it (`Misled`): a ServiceAccount, an
  autoscaler, a role in a managed namespace, ... that is deleted after the cache showed it, or made and
  unmade faster than the cache follows;
- metrics switched off right after on: the pass does not see the label yet, and leaves everything
  (`argocd_metrics_controller.go:193`; `Misled` too);
- the announce services of Redis HA: the loop returns at the first that it finds, or with HA off as soon as it
  does not find the first, so it never gets to the others (`service.go:151`);
- the promoter's generated ClusterRoles stay when custom ones are asked for: `gitopspromoter/role.go:48` and `role.go:73` look for
  them under a name without the namespace, and they were made under one with it (`policyrules.go:40`);
- a remote repository server with Redis disabled: the Deployment is deleted and created in turn;
- the Redis HA StatefulSet stays when Redis becomes remote;
- Grafana's objects, which are never made any more, are not deleted while it is enabled;
- the metrics service and monitor of notifications, and its cluster roles when the section
  becomes empty, are not deleted;
- RBAC of ApplicationSet and notifications in a source namespace stays when the namespace
  gets a manager;
- dashboards, export volumes, Jobs and CronJobs are never deleted; a change of the schedule leaves
  the other kind behind;
- fields set at creation only: node placement of the commit server and of notifications,
  the known hosts and certificates, the ingress of gRPC and ApplicationSet, `roleRef` where it is
  updated in place, selectors, the template of export Jobs.

*Replicas.* `getApplicationControllerReplicaCount` rounds down (`statefulset.go:654`), so a shard can have
more clusters than `clustersPerShard`, "the maximum number of clusters managed by each argocd
shard" (`argocd_types.go:164`); a failed list of the clusters scales to one (`statefulset.go:648`).
`ReplicasAssumption` in `MCInstance` compares the function with a reference definition.

*Namespaces.* Two instances that list one source namespace can take its label from each other
forever (so `Quiesces` speaks of one claimer); an instance of the same name can restore the
label for itself; a pass that restores a label does not see it in the cache and then does not
give it up, although the resource no longer lists the namespace; the roles and bindings of an instance that
has the namespace as a source no longer stay if the clean-up failed, or did not see them in the cache yet. A
manager's rights made by a pass after the predicate had purged them stay (`missed`), and those that a pass
still saw in the cache when they were purged are not made again (`outdated`, see Findings).

## Proofs

The theorems hold for every value of the constants that satisfies the modules' `ASSUME`s, which TLC
evaluates in the runs: any finite set of users, instances or objects, any catalogue, any bound.

| Module | Theorem | Statement |
| --- | --- | --- |
| `LocalUsersProofs` | `TypeCorrect` | `Spec => []TypeOK` |
| | `FreshIsCurrentCorrect` | an object with no pending event is cached as it is stored |
| | `TokenNeverAheadCorrect` | `Spec => []TokenNeverAhead` |
| | `OneUserAtATimeCorrect` | `Spec => OneUserAtATime` |
| `LocalUsersSettled` | `NoTimerLeft` | `Spec => []NoTimerWithoutRenewal` |
| | `DisabledLosesToken` | `Spec => []InactiveIsRevoked` |
| | `RenewalIsScheduled` | `Spec => []CurrentTokenHasTimer` |
| `ConsoleLinkProofs` | `TypeCorrect` | `Spec => []TypeOK` |
| | `DisabledLinkIsRemoved` | `Spec => []DisabledHasNoLink` |
| `GitopsServiceProofs` | `TypeCorrect` | `Spec => []TypeOK` |
| | `BackendIsAuthorized` | `RBACUntouched /\ Spec => []BackendHasRBAC` |
| | `RolloutIsCurrent` | `RolloutUntouched /\ Spec => []RolloutMountsItsConfig` |
| `GitopsConvergence` | `ConvergesAtRest` | `NoticeableOnly /\ Spec => []SettledIsConverged` |
| `InstanceProofs` | `TypeCorrect` | `Spec => []TypeOK` |
| | `ImplementsPromise` | `HonestCatalogue /\ Spec => KeepsPromise` |
| | `PresentAtRest` | `ThoroughCatalogue /\ Spec => []SettledPresence` |
| | `CurrentAtRest` | `ThoroughCatalogue /\ Spec => []SettledContent` |
| `NamespacesProofs` | `TypeCorrect` | `Spec => []TypeOK` |
| | `ManagersHaveTheirRights` | `Spec => []ManagerHasRights` |
| | `LosersHaveNoRights` | `Spec => []NoRightsLeft` |
| | `OwnersHaveTheirRights` | `Spec => []SourceHasRights` |

### Hypotheses
Some theorems assume something of the constants, apart from the modules' own assumptions:

- `RBACUntouched`, `RolloutUntouched`, `NoticeableOnly` say whom `Tamperable` leaves alone. Without the first two the
  statements are false for reasons outside the operator: whoever deletes a role while the backend runs
  violates `BackendHasRBAC` in that very step. The third names the two objects whose changes the
  operator cannot notice: updates of the plugin's Service are hidden by the predicate, and the
  ConsolePlugin is not watched. `gitops_plugin` has nobody tamper, and the other two runs leave these
  objects alone too.
- `HonestCatalogue` and `ThoroughCatalogue` are conditions on the records of the reconcilers, without any
  state: an object that is wanted is kept, one that is not is never made, nothing wanted is deleted by
  an event; keeping and making have the condition of wanting; a pass that leaves work undone is
  followed by another; every field that is filled in from the resource is compared. The known
  departures are excepted. `CatalogueAssumption` in `MCInstance` has TLC evaluate both for every object and all its
  switches, so the theorems apply to the catalogue of this operator, with any number of disturbances.

### Local users
*Types.* `TypeOK` is inductive; its conjunct on `pass.user` (between two writes the pass
holds a user) is what the later proofs use to index `store.user`. One lemma per
group of actions, one step per action, and lemmas for the helpers
(`WriteTypes`, `ReleaseTypes`, `TakeLockTypes`, ...).

*Caches.* `FreshIsCurrent` says why an Update accepted by the API server overwrites exactly
what was read. It is not inductive, since a delivery makes a snapshot from the
queue the cache. `CaughtUp` strengthens it: in the cache *and in each snapshot on its
way*, an object that no later event is about is as stored. Every step is one of four
kinds (`SecretStep`: nothing, one write, one delivery, a refill), proved once per action, and
`CaughtUp` is proved over those four.

*Tokens.* `TokenNeverAhead` is not inductive either: between the two writes of `issueToken`
the pass carries an identifier that is not yet anywhere. `TokenInv` adds that every
identifier is below `nextId`, and that the one being carried is not ahead of the user
Secret unless that was deleted. With `CaughtUp`, the write of `argocd-secret` changes one
entry only, although it writes the whole cached copy back.

*One user at a time.* From the same fact: a write of `argocd-secret` is accepted only when its
cached copy is the stored one, so it differs from it in one user's entry.

*Settled.* `NoTimerWithoutRenewal`, `InactiveIsRevoked` and `CurrentTokenHasTimer` speak of states in which nothing is left
to do. What makes them true happens earlier: some pass saw the resource as it is now. So the
proofs follow the resource to the pass that sees it.

- `KnowledgeInv` is what a pass knows: the last version on its way is the resource (`LastVersion`), no
  deletion is seen of a resource that lives (`VersionsLive`, `NotFinalizing`), the worker's pass is the one
  that holds the lock (`PassOwner`), and if no reconciliation of the worker is to come, the copy a pass works on is
  the cached one (`PassKnows`).
- `Heard` says that no version is on its way and no reconciliation is to come. The lemma `HeardStep` shows that a step leads there
  only by the worker's taking the lock, with every user ahead of it; `AheadStep` that a user stops being
  ahead only in the step that decides about him.
- So each of `TimersInv`, `RevocationInv` and `RenewalsInv` has one form: if `Heard`, then for each user either the worker's pass
  has not come to him yet (`Ahead`), or it is in the middle of him (`Revoking`, `Issuing`), or what is claimed holds
  already and nobody takes it back. Nobody does, because a goroutine's pass knows the same resource.
- `CurrentTokenHasTimer` also needs the times. `ScheduleInv` says that between the two writes of
  `issueToken` the new token expires no later than the timer to be started will elapse (the clock only moves on), that a timer elapses only when
  due, that a token of lifetime zero has no expiry, and that a timer whose token both Secrets agree on is not early unless it is `stale`.

The attempt to prove `NotEarly` is what led to the timers set from outdated copies (Known departures):
with tokens of one second, as the run had them before, a token is never replaced while it is good.

### Console link
`LinkInv`: in a process that has the link disabled, a link that is there has been there since the
process started and the cache shows it (`CacheShowsLink`), and with a route to ask for it a
reconciliation is under way or will be (`RemovalPending`). The first is what stops the
controller from overlooking the link because of a stale read.

### GitopsService
*Permissions.* `BackendHasRBAC` says nothing of what comes before the Deployment. `BackendInv` adds what a
position in the plan means: past the account, role and binding they are there
(`InstallOrder`, which rests on the cache never showing something an installing process does
not have), and a removing reconciliation that has got to the permissions has removed the
Deployment (`RemovalOrder`).

*Rollout.* `RolloutInv` adds that no Deployment carries a hash from the future, that the reconciliation
that has got to the Deployment has written the ConfigMap (`ConfigFirst`), and that a cache that is
wrong about the ConfigMap is wrong because of this process or of others (`CachedConfig`).

*Convergence.* `SettledIsConverged` speaks of rest only. `ConvergenceInv` says what is true on the way: a cache without
news is right (`CacheInv`); nothing outlives its namespace; a reconciliation of an
older specification has a successor (`InstInv`); and an object whose step the reconciliation has
passed is as desired, or there is loud news of it (`PassedIsGood`, `PassedIsGone`). Each action has one
lemma about its object and one about all the others.

The attempt to prove types found an ambiguity in the model: guards of a `CASE` in `Store` and in
`CustomisableRole` overlapped, so that the value was TLC's choice of the first; they are nested conditions now.

### Instance
*The refinement.* One lemma (`PromiseStep`) takes each action of `Instance` to an action of `ManagedObject` or to a stutter, for
any number of copies: what `Reconcile` and `Fail` do to a copy is `Nearer` (`MovesAreNearer`), because the condition
for deleting and the one for creating exclude each other under `HonestCatalogue`, and because a write that goes by
an outdated copy is refused (`ResultMoves`). The history of `ManagedObject` is `versions`, one by one (`HistoryGrows`,
`HistoryIsSeen`).

*What has settled.* `SettledInv`: the last pass has worked on what was last delivered (`LastHeard`), and has done its work if nobody has
undone it unnoticed, or an event is on its way that brings another pass (`DoneIsAsAsked`); an object no pass looks at is not there, or is known to be a
leftover (`LeftAloneIsGone`); and everybody knows the same cluster (`SameCluster`), as what is watched does not
change under a request; and without the label there is nothing left that it gates (`GateHolds`). `LeftAloneIsGone` and `SameCluster` are
what the switches of the addons need: a section that is removed is cleaned up
by the event, never by a pass.

### Namespaces
*Losers.* `RightsInv` follows the notice of a loss: of whoever has a role, a binding or a place in the list, the
cache still says that it is the manager, or a notice that purges it waits in the queue of the
predicate, or the predicate has not got that far yet (`Covered`). Rights are given to one the
cache names, or to one that a purge is still to reach (`Ahead`), or `missed` is set (`Overtaken`). A pass is compared with
the *cache* of namespaces and not with the label: if the label comes back before the pass writes, the cache, and with it the
purge, is still to do both changes. What the passes see of roles and bindings does not matter here, as the predicate
deletes what is stored. `NoRightsLeft` is about a manager's rights; those of source namespaces are the subject of
`SourceHasRights` and of the violated `GoneLeavesNothing`.

*Managers.* `ManagerInv`: whenever the informer and the predicate have nothing to do, of a manager with no pass
to come, the pass under way is its own and knows it, and has done what it is past, or it has everything
(`Served`), and no other pass thinks it manages the namespace. The crux is that any change of the
label passes through the predicate, which queues the manager only *after* its deletions
(`NewsKnows`: what it will hear last is what the cache says), so a purge is always followed by a pass. That pass reads
the caches: what it finds in them and is gone makes its instance `outdated`, which is the exception; what it does not
find and is there ends the pass, and the instance is queued again; and a cluster Secret about which no
event is pending is cached as it is stored (`SecretsKnow`), while one that is pending queues the instance. Where
a deleted instance of the same name takes the binding with it, it queues the namesake
(`ServedPassing`).

*Owners of source namespaces.* `SourcesKept` is of the same form (`Taking`, `Kept`). What a rival's pass can do to the owner is
take its label, role and binding away in a clean-up. That writes the label first; if it was the owner's, the write is
an update that the mapper answers by queueing the owner *behind* that pass, and a write that is refused
means that an update is on its way anyhow. So with nothing on its way no pass has got beyond the label (`Safe`). That
the pass skips or stumbles over what the caches show of role and binding only makes it do less.
Writing this down showed that two conditions of the property, that no other instance claims the
namespace or is being deleted, were not needed; it has been stated without them since.

### Only model-checked
- Liveness (`ActiveGetsToken`, `NobodyWaitsForever`, `Quiesces`), which TLAPS does not reach (no fairness, no
  `ENABLED`).
- The three properties that the code violates (Findings): TLC shows a behaviour for each.
- `ReplicasAssumption` and `CatalogueAssumption`, which TLC evaluates over bounded and complete inputs respectively.

## Not modelled
- An ArgoCD resource created again under the same name after its deletion, and the deletion of
  a namespace.
- The NamespaceManagement resource (`AO/controllers/argocd/namespaceManagement.go`, `util.go:1849`), a third
  way to name a manager.
- The status and phase of an instance: computed anew in every pass and read by nobody in
  the operator. The gauges of instances: written only.
- Contents: certificates, passwords, policy rules, pod templates; they are the versions of a
  field. The rollouts that changed TLS Secrets and keys trigger, and Dex's token on its timed
  requeue, are left out with them.
- What else two controllers write to one namespace: the monitoring label is modelled as `mark` in `Instance`, with
  whoever else removes it, but not together with the GitopsService controller's own labels (an update with an old copy
  is refused and tried again). The operator's own ServiceMonitor.
- An error in the resource that stops every pass (both sides of the agent enabled, a source
  namespace in two modes, an ambiguous CA) is modelled for the objects behind it in the same function,
  not for all those that come later in a pass.
- Client wrapper, TLS profile tables, conversion of v1alpha1, OpenShift hooks: no state of their own.
  API types and generated code are data. The Rollouts manager is code of another
  repository.

## Plan
Every invariant and action property of the passing runs has its theorem. What could follow, in this order:
the NamespaceManagement resource as a third way to claim a namespace in `Namespaces`, with its theorems; the
status of an instance; a condition on the environment under which no timer is ever `stale`, as a theorem.
