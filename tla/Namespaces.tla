----------------------------- MODULE Namespaces -----------------------------
(***************************************************************************)
(* One namespace that Argo CD instances may work in: as its manager, named *)
(* by the label managed-by that users set, or as the owner of one of their *)
(* source namespaces, named by the label managed-by-cluster-argocd that    *)
(* the operator sets.  What an instance may do there is a Role and a       *)
(* RoleBinding; a manager that is not cluster-wide also has the namespace  *)
(* in its cluster Secret.                                                  *)
(*                                                                         *)
(* The single worker of the ArgoCD controller runs one pass at a time, but *)
(* the predicate of the namespace watch deletes rights too, on the         *)
(* goroutine of the informer and between any two calls of the pass.  The   *)
(* predicate works on the stored objects; the pass reads everything from   *)
(* the caches of the informers, each of which lags behind on its own.  Of  *)
(* the objects only the cluster Secret wakes the worker when it changes:   *)
(* a Role or a RoleBinding outside the instance's own namespace has no     *)
(* owner reference.                                                        *)
(***************************************************************************)
EXTENDS Integers, Sequences, FiniteSets

CONSTANTS
    Instances,
    Scenarios,     \* where to start: which instances are in namespaces for
                   \* cluster-wide ones, which list the namespace among their
                   \* sources, whether they have one name, which manager the
                   \* namespace has, and how many edits and faults there may be
    RemoveLabel,   \* REMOVE_MANAGED_BY_LABEL_ON_ARGOCD_DELETION
    MaxEdits, MaxFaults, MaxNotices, \* bounds
    None

ASSUME NamespacesAssumption ==
    /\ IsFiniteSet(Instances) /\ Instances # {} /\ None \notin Instances
    /\ Scenarios \subseteq [cluster : SUBSET Instances, claims : SUBSET Instances,
                             sameName : BOOLEAN, manager : Instances \cup {None},
                             edits : 0..MaxEdits, faults : 0..MaxFaults]
    /\ RemoveLabel \in BOOLEAN /\ MaxEdits \in Nat /\ MaxFaults \in Nat
    /\ MaxNotices \in Nat \ {0}

VARIABLES
    cluster,     \* the instances in namespaces set aside for cluster-wide ones
    sameName,    \* the instances have one name, in different namespaces
    life,        \* of each instance: up, deleting or gone
    lists,       \* how its sourceNamespaces match: no, as a glob, as a regex
    label,       \* the namespace's labels
    behind,      \* they were written since the cache read them
    cached,      \* the labels in the cache of the operator
    notices,     \* updates of the cache the predicate has yet to look at
    handler,     \* what the predicate is doing
    role, binding,           \* a manager's rights; a binding names an instance
    sourceRole, sourceBinding,
    listed,      \* whose cluster Secret has the namespace
    cachedRole, cachedBinding, cachedSourceRole, cachedSourceBinding, cachedListed,
                 \* the same in the caches
    changed,     \* whose cluster Secret was written since the cache read it
    queue, pass, \* the worker
    held,        \* ManagedSourceNamespaces has it: one map for all instances
    missed,      \* rights of a manager that stay: the purge failed, was never
                 \* heard of, or was over when the pass granted them
    unwritten,   \* an instance's mark on the namespace that could not be written
    outdated,    \* whose last pass took a right in the cache for granted that
                 \* was deleted already
    edits, faults  \* how many more there may be

installation == <<cluster, sameName>>
stored  == <<label, behind>>
rights == <<role, binding, sourceRole, sourceBinding>>
seen   == <<cachedRole, cachedBinding, cachedSourceRole, cachedSourceBinding>>
secrets == <<listed, cachedListed, changed>>
objects == <<rights, seen, secrets>>
gaps    == <<missed, unwritten, outdated>>
vars == <<installation, life, lists, stored, cached, notices, handler, objects,
          queue, pass, held, gaps, edits, faults>>

Owners == Instances \cup {None}
Labels == [manager : Owners, source : Owners, appset : Owners]
Stages == {"restore", "snapshot", "allowed", "roles", "sourceRole", "label", "sweep",
           "unlabel", "unrole", "unbind", "rolesAgain", "bindings", "sourceBinding",
           "secretRead", "secretWrite",
           "clusterResources", "managerLabel", "finalSweep", "finalizer"}
Passes == [instance : Instances, stage : Stages, lists : BOOLEAN, manages : BOOLEAN,
           writes : BOOLEAN, after : Stages]
Idle == [stage |-> "idle", old |-> None, new |-> None]
ASSUME NoneAssumption == None \notin Passes

\* Objects go by the name of their instance, not by its namespace.
Key(i)     == IF sameName THEN CHOOSE j \in Instances : TRUE ELSE i
Namesakes(i) == {j \in Instances \ {i} : Key(j) = Key(i)}
Alive      == {i \in Instances : life[i] # "gone"}

TypeOK ==
    /\ cluster \subseteq Instances /\ sameName \in BOOLEAN
    /\ life \in [Instances -> {"up", "deleting", "gone"}]
    /\ lists \in [Instances -> {"no", "glob", "regex"}]
    /\ label \in Labels /\ cached \in Labels /\ behind \in BOOLEAN
    /\ notices \in Seq([old : Labels, new : Labels])
    /\ handler.stage \in {"idle", "roles", "bindings", "secret", "enqueue"}
    /\ handler.stage # "idle" => handler.old \in Labels /\ handler.new \in Labels
    /\ role \in [Instances -> BOOLEAN] /\ binding \in [Instances -> Owners]
    /\ sourceRole \in [Instances -> BOOLEAN] /\ sourceBinding \in [Instances -> Owners]
    /\ cachedRole \in [Instances -> BOOLEAN] /\ cachedBinding \in [Instances -> Owners]
    /\ cachedSourceRole \in [Instances -> BOOLEAN]
    /\ cachedSourceBinding \in [Instances -> Owners]
    /\ listed \subseteq Instances /\ cachedListed \subseteq Instances
    /\ changed \subseteq Instances /\ queue \subseteq Instances
    /\ pass \in Passes \cup {None}
    /\ held \in BOOLEAN /\ missed \in BOOLEAN /\ unwritten \in BOOLEAN
    /\ outdated \subseteq Instances
    /\ edits \in 0..MaxEdits /\ faults \in 0..MaxFaults

\* Fresh instances in one of the scenarios, and a namespace that its user may have
\* labelled already.
Init ==
    /\ \E s \in Scenarios :
          /\ cluster = s.cluster /\ sameName = s.sameName
          /\ edits = s.edits /\ faults = s.faults
          /\ lists = [i \in Instances |-> IF i \in s.claims THEN "glob" ELSE "no"]
          /\ label = [manager |-> s.manager, source |-> None, appset |-> None]
    /\ life = [i \in Instances |-> "up"]
    /\ cached = label /\ behind = FALSE
    /\ notices = <<>> /\ handler = Idle
    /\ role = [i \in Instances |-> FALSE] /\ binding = [i \in Instances |-> None]
    /\ sourceRole = [i \in Instances |-> FALSE]
    /\ sourceBinding = [i \in Instances |-> None]
    /\ listed = {} /\ cachedListed = {} /\ changed = {}
    /\ cachedRole = role /\ cachedBinding = binding
    /\ cachedSourceRole = sourceRole /\ cachedSourceBinding = sourceBinding
    /\ queue = Instances /\ pass = None
    /\ held = FALSE /\ missed = FALSE /\ unwritten = FALSE /\ outdated = {}

-----------------------------------------------------------------------------
(* Users, and the other parts of the operator *)

Edit  == edits > 0 /\ edits' = edits - 1
Fault == faults > 0 /\ faults' = faults - 1

SetManager(i) ==
    /\ Edit
    /\ i # label.manager /\ i \in Alive \cup {None}
    /\ label' = [label EXCEPT !.manager = i] /\ behind' = TRUE
    /\ UNCHANGED <<installation, life, lists, cached, notices, handler, objects,
                   queue, pass, held, gaps, faults>>

\* The label for ApplicationSets is written by the passes of a cluster-wide instance,
\* for reasons of their own.
SetAppset(i) ==
    /\ Edit
    /\ i # label.appset /\ i \in (Alive \cap cluster) \cup {None}
    /\ label' = [label EXCEPT !.appset = i] /\ behind' = TRUE
    /\ UNCHANGED <<installation, life, lists, cached, notices, handler, objects,
                   queue, pass, held, gaps, faults>>

EditSources(i, how) ==
    /\ Edit
    /\ life[i] = "up" /\ how # lists[i]
    /\ lists' = [lists EXCEPT ![i] = how]
    /\ queue' = queue \cup {i}
    /\ UNCHANGED <<installation, life, stored, cached, notices, handler, objects,
                   pass, held, gaps, faults>>

Delete(i) ==
    /\ Edit
    /\ life[i] = "up"
    /\ life' = [life EXCEPT ![i] = "deleting"]
    /\ queue' = queue \cup {i}
    /\ UNCHANGED <<installation, lists, stored, cached, notices, handler, objects,
                   pass, held, gaps, faults>>

-----------------------------------------------------------------------------
(* The watch of namespaces: the cache, then the predicate, then the mapper. *)

CacheUpdate ==
    /\ behind /\ Len(notices) < MaxNotices
    /\ cached' = label /\ behind' = FALSE
    /\ notices' = Append(notices, [old |-> cached, new |-> label])
    /\ UNCHANGED <<installation, life, lists, label, handler, objects, queue, pass,
                   held, gaps, edits, faults>>

\* Mutant: rights are deleted only when the label goes.
PurgesRemoved(n) == n.old.manager # None /\ n.new.manager = None
\* Rights are deleted when the manager is another one, or there is none any more.
Purges(n) == n.old.manager # None /\ n.old.manager # n.new.manager
Take ==
    /\ handler.stage = "idle" /\ notices # <<>>
    /\ handler' = [stage |-> IF Purges(Head(notices)) THEN "roles" ELSE "enqueue",
                   old |-> Head(notices).old, new |-> Head(notices).new]
    /\ notices' = Tail(notices)
    /\ UNCHANGED <<installation, life, lists, stored, cached, objects, queue, pass,
                   held, gaps, edits, faults>>

\* deleteRBACsForNamespace: everything of Argo CD's in the namespace.
PurgeRoles ==
    /\ handler.stage = "roles"
    /\ role' = [i \in Instances |-> FALSE]
    /\ sourceRole' = [i \in Instances |-> FALSE]
    /\ handler' = [handler EXCEPT !.stage = "bindings"]
    /\ UNCHANGED <<installation, life, lists, stored, cached, notices, binding, sourceBinding,
                   seen, secrets, queue, pass, held, gaps, edits, faults>>
PurgeBindings ==
    /\ handler.stage = "bindings"
    /\ binding' = [i \in Instances |-> None]
    /\ sourceBinding' = [i \in Instances |-> None]
    /\ handler' = [handler EXCEPT !.stage = "secret"]
    /\ UNCHANGED <<installation, life, lists, stored, cached, notices, role, sourceRole,
                   seen, secrets, queue, pass, held, gaps, edits, faults>>
\* deleteManagedNamespaceFromClusterSecret
PurgeSecret ==
    /\ handler.stage = "secret"
    /\ listed' = listed \ {handler.old.manager}
    /\ changed' = changed \cup (listed \cap {handler.old.manager})
    /\ handler' = [handler EXCEPT !.stage = "enqueue"]
    /\ UNCHANGED <<installation, life, lists, stored, cached, notices, rights, seen,
                   cachedListed, queue, pass, held, gaps, edits, faults>>
\* An error is logged, no more.  The Secret is tried in any case.
PurgeFails ==
    /\ Fault
    /\ handler.stage \in {"roles", "bindings", "secret"}
    /\ handler' = [handler EXCEPT !.stage = IF @ = "secret" THEN "enqueue" ELSE "secret"]
    /\ missed' = TRUE
    /\ UNCHANGED <<installation, life, lists, stored, cached, notices, objects, queue,
                   pass, held, unwritten, outdated, edits>>

\* Mutants: the label is not looked at; the resource is not looked for; the
\* source namespaces are not looked at.
MappedSources(l) == {i \in Alive : lists[i] = "glob"}
MappedBlindly(l) == {l.manager}
MappedManager(l) == {l.manager} \cap Alive
\* namespaceResourceMapper: the manager if there is one, otherwise the instance that
\* has its ApplicationSets there, otherwise those whose sourceNamespaces match as
\* globs (and regular expressions do not).
Mapped(l) == IF l.manager # None THEN {l.manager} \cap Alive
             ELSE IF l.appset # None THEN {l.appset} \cap Alive
             ELSE {i \in Alive : lists[i] = "glob"}
Enqueue ==
    /\ handler.stage = "enqueue"
    /\ queue' = queue \cup Mapped(handler.new)
    /\ handler' = Idle
    /\ UNCHANGED <<installation, life, lists, stored, cached, notices, objects, pass,
                   held, gaps, edits, faults>>

-----------------------------------------------------------------------------
(* The informers of Roles, RoleBindings and Secrets *)

ShowRoles ==
    /\ role # cachedRole \/ sourceRole # cachedSourceRole
    /\ cachedRole' = role /\ cachedSourceRole' = sourceRole
    /\ UNCHANGED <<installation, life, lists, stored, cached, notices, handler, rights,
                   cachedBinding, cachedSourceBinding, secrets, queue, pass, held, gaps,
                   edits, faults>>
ShowBindings ==
    /\ binding # cachedBinding \/ sourceBinding # cachedSourceBinding
    /\ cachedBinding' = binding /\ cachedSourceBinding' = sourceBinding
    /\ UNCHANGED <<installation, life, lists, stored, cached, notices, handler, rights,
                   cachedRole, cachedSourceRole, secrets, queue, pass, held, gaps,
                   edits, faults>>
\* clusterSecretResourceMapper
ShowSecrets ==
    /\ changed # {}
    /\ cachedListed' = listed /\ changed' = {}
    /\ queue' = queue \cup (changed \cap Alive)
    /\ UNCHANGED <<installation, life, lists, stored, cached, notices, handler, rights, seen,
                   listed, pass, held, gaps, edits, faults>>

-----------------------------------------------------------------------------
(* A pass.  A read of a cache and the write that follows are one step: had *)
(* the cache moved in between, it might as well have moved after it.       *)

Me      == pass.instance
At(s)   == pass # None /\ pass.stage = s
Goto(s) == pass' = [pass EXCEPT !.stage = s]
CleanUp(after) == pass' = [pass EXCEPT !.stage = "unlabel", !.after = after]
watch   == <<cached, notices, handler>>
users   == <<installation, life, lists, edits>>

Begin(i) ==
    /\ pass = None /\ i \in queue
    /\ queue' = queue \ {i}
    /\ outdated' = outdated \ {i}
    /\ pass' = IF life[i] = "gone" THEN None
               ELSE [instance |-> i, lists |-> lists[i] # "no", manages |-> FALSE,
                     writes |-> FALSE, after |-> "sweep",
                     stage |-> IF life[i] = "up" THEN "restore" ELSE "clusterResources"]
    /\ UNCHANGED <<users, stored, watch, objects, held, missed, unwritten, faults>>

\* Mutant: a pass asks for the next one.
DoneAndAgain == pass' = None /\ queue' = queue \cup {Me}
Done == pass' = None /\ UNCHANGED queue
\* An error ends the pass; the instance is queued again.
Abort == pass' = None /\ queue' = queue \cup {Me}
\* A write of the namespace as it was just read from the cache: refused if that
\* is old, which is logged, no more.
WriteLabel(l) ==
    /\ label' = IF behind THEN label ELSE l
    /\ behind' = (label # l \/ behind)

\* restoreTrackingLabelsForOrphanedNamespaces: a role, and no label.
Restore ==
    /\ At("restore")
    /\ IF cachedSourceRole[Key(Me)] /\ cached.source = None
         THEN /\ WriteLabel([label EXCEPT !.source = Me])
              /\ IF behind THEN Abort ELSE Goto("snapshot") /\ UNCHANGED queue
         ELSE Goto("snapshot") /\ UNCHANGED <<stored, queue>>
    /\ UNCHANGED <<users, watch, objects, held, gaps, faults>>

\* setManagedNamespaces and setManagedSourceNamespaces, from the cache.
Snapshot ==
    /\ At("snapshot")
    /\ pass' = [pass EXCEPT !.manages = cached.manager = Me, !.stage = "allowed"]
    /\ held' = (cached.source = Me)
    /\ UNCHANGED <<users, stored, watch, objects, queue, gaps, faults>>

\* ensureSourceNamespacesAllowed: only a cluster-wide instance may have any.
Allowed ==
    /\ At("allowed")
    /\ IF held /\ Me \notin cluster THEN CleanUp("roles") ELSE Goto("roles")
    /\ UNCHANGED <<users, stored, watch, objects, queue, held, gaps, faults>>

\* A purge of the rights of one of these managers is to come, or has not got there.
Ahead(stages, whose) ==
    \/ handler.stage \in stages /\ handler.old.manager \in whose
    \/ \E k \in DOMAIN notices : Purges(notices[k]) /\ notices[k].old.manager \in whose
\* The cache of namespaces has moved on since the pass read it, and the purge that
\* this brought is over: what is made now stays.
Overtaken(stages, whose) == cached.manager # Me /\ ~Ahead(stages, whose)

\* reconcileRole, which is called again before the binding is made.  An object that is
\* in the cache is left alone; one that is not is created, which is refused if it is
\* there.
Roles ==
    /\ At("roles") \/ At("rolesAgain")
    /\ LET k    == Key(Me)
           done == Goto(IF At("roles") THEN "sourceRole" ELSE "bindings")
       IN  \/ /\ ~pass.manages \/ cachedRole[k]
              /\ outdated' = IF pass.manages /\ At("rolesAgain") /\ ~role[k]
                               THEN outdated \cup {Me} ELSE outdated
              /\ done /\ UNCHANGED <<role, missed, queue>>
           \/ /\ pass.manages /\ ~cachedRole[k] /\ role[k]
              /\ Abort /\ UNCHANGED <<role, missed, outdated>>
           \/ /\ pass.manages /\ ~cachedRole[k] /\ ~role[k]
              /\ role' = [role EXCEPT ![k] = TRUE]
              /\ missed' = (missed \/ Overtaken({"roles"}, Owners))
              /\ done /\ UNCHANGED <<outdated, queue>>
    /\ UNCHANGED <<users, stored, watch, binding, sourceRole, sourceBinding, seen, secrets,
                   held, unwritten, faults>>

\* reconcileRoleForApplicationSourceNamespaces
SourceRole ==
    /\ At("sourceRole")
    /\ LET k      == Key(Me)
           claims == Me \in cluster /\ pass.lists
           takes  == claims /\ cached.manager = None /\ cached.source \in {None, Me}
       IN  \/ /\ claims /\ cached.manager # None /\ cached.source = Me
              /\ held' = FALSE /\ CleanUp("sweep") /\ UNCHANGED <<sourceRole, outdated, queue>>
           \/ /\ takes /\ cachedSourceRole[k]
              /\ outdated' = IF sourceRole[k] THEN outdated ELSE outdated \cup {Me}
              /\ Goto("label") /\ UNCHANGED <<sourceRole, held, queue>>
           \/ /\ takes /\ ~cachedSourceRole[k] /\ sourceRole[k]
              /\ Abort /\ UNCHANGED <<sourceRole, held, outdated>>
           \/ /\ takes /\ ~cachedSourceRole[k] /\ ~sourceRole[k]
              /\ sourceRole' = [sourceRole EXCEPT ![k] = TRUE]
              /\ Goto("label") /\ UNCHANGED <<held, outdated, queue>>
           \/ /\ ~takes /\ ~(claims /\ cached.manager # None /\ cached.source = Me)
              /\ Goto("sweep") /\ UNCHANGED <<held, sourceRole, outdated, queue>>
    /\ UNCHANGED <<users, stored, watch, role, binding, sourceBinding, seen, secrets, missed,
                   unwritten, faults>>
\* The label that says so.  The namespace is read again first, and whose it is
\* by then is not looked at.
SetSource ==
    /\ At("label")
    /\ WriteLabel([label EXCEPT !.source = Me])
    /\ held' = TRUE
    /\ Goto("sweep")
    /\ UNCHANGED <<users, watch, objects, queue, gaps, faults>>

\* removeUnmanagedSourceNamespaceResources
Sweep ==
    /\ At("sweep")
    /\ IF held /\ (~pass.lists \/ Me \notin cluster)
         THEN CleanUp("rolesAgain") ELSE Goto("rolesAgain")
    /\ UNCHANGED <<users, stored, watch, objects, queue, held, gaps, faults>>

\* cleanupUnmanagedSourceNamespaceResources: the label, whoever's it is, then the
\* role, then the binding.  One that the cache does not show is left alone; one that
\* the cache shows and that is not there ends the clean-up.
Unlabel ==
    /\ At("unlabel")
    /\ WriteLabel([label EXCEPT !.source = None])
    /\ Goto("unrole")
    /\ UNCHANGED <<users, watch, objects, queue, held, gaps, faults>>
Unrole ==
    /\ At("unrole")
    /\ LET k == Key(Me) IN
       /\ sourceRole' = IF cachedSourceRole[k] THEN [sourceRole EXCEPT ![k] = FALSE]
                                               ELSE sourceRole
       /\ Goto(IF cachedSourceRole[k] /\ ~sourceRole[k] THEN pass.after ELSE "unbind")
    /\ UNCHANGED <<users, stored, watch, role, binding, sourceBinding, seen, secrets, queue,
                   held, gaps, faults>>
Unbind ==
    /\ At("unbind")
    /\ LET k    == Key(Me)
           gone == cachedSourceBinding[k] # None /\ sourceBinding[k] = None
       IN  /\ sourceBinding' = IF cachedSourceBinding[k] # None
                                 THEN [sourceBinding EXCEPT ![k] = None] ELSE sourceBinding
           /\ held' = (held /\ gone)
    /\ Goto(pass.after)
    /\ UNCHANGED <<users, stored, watch, role, binding, sourceRole, seen, secrets, queue,
                   gaps, faults>>
\* An error on the way is logged, and the pass goes on.
CleanUpFails ==
    /\ Fault
    /\ \/ /\ At("unrole") \/ At("unbind") \/ At("unlabel")
          /\ Goto(pass.after) /\ UNCHANGED <<held, unwritten>>
       \/ At("unlabel") /\ Goto("unrole") /\ unwritten' = TRUE /\ UNCHANGED held
       \/ At("label") /\ Goto("sweep") /\ unwritten' = TRUE /\ held' = TRUE
    /\ UNCHANGED <<users, stored, watch, objects, queue, missed, outdated>>

\* reconcileRoleBinding: a binding of another instance with the same name is taken
\* over.  A write of what is no longer as the cache shows it is refused.
Bindings ==
    /\ At("bindings")
    /\ LET k     == Key(Me)
           write == pass.manages /\ cachedBinding[k] # Me
       IN  \/ /\ ~write
              /\ outdated' = IF pass.manages /\ binding[k] # Me THEN outdated \cup {Me}
                                                                ELSE outdated
              /\ Goto("sourceBinding") /\ UNCHANGED <<binding, missed, queue>>
           \/ /\ write /\ binding[k] # cachedBinding[k]
              /\ Abort /\ UNCHANGED <<binding, missed, outdated>>
           \/ /\ write /\ binding[k] = cachedBinding[k]
              /\ binding' = [binding EXCEPT ![k] = Me]
              /\ missed' = (missed \/ Overtaken({"roles", "bindings"}, Owners))
              /\ Goto("sourceBinding") /\ UNCHANGED <<outdated, queue>>
    /\ UNCHANGED <<users, stored, watch, role, sourceRole, sourceBinding, seen, secrets, held,
                   unwritten, faults>>
\* The binding for a source namespace is made even if another instance owns the
\* namespace, and brought up to date only if this one does.
SourceBinding ==
    /\ At("sourceBinding")
    /\ LET k     == Key(Me)
           wants == Me \in cluster /\ pass.lists /\ cached.manager = None
           write == /\ wants /\ cachedSourceBinding[k] # Me
                    /\ cachedSourceBinding[k] = None \/ cached.source = Me
       IN  \/ /\ ~write
              /\ outdated' = IF wants /\ cachedSourceBinding[k] = Me /\ sourceBinding[k] # Me
                               THEN outdated \cup {Me} ELSE outdated
              /\ Goto("secretRead") /\ UNCHANGED <<sourceBinding, queue>>
           \/ /\ write /\ sourceBinding[k] # cachedSourceBinding[k]
              /\ Abort /\ UNCHANGED <<sourceBinding, outdated>>
           \/ /\ write /\ sourceBinding[k] = cachedSourceBinding[k]
              /\ sourceBinding' = [sourceBinding EXCEPT ![k] = Me]
              /\ Goto("secretRead") /\ UNCHANGED <<outdated, queue>>
    /\ UNCHANGED <<users, stored, watch, role, binding, sourceRole, seen, secrets, held,
                   missed, unwritten, faults>>

\* reconcileClusterPermissionsSecret adds namespaces and never takes one away.
SecretRead ==
    /\ At("secretRead")
    /\ pass' = [pass EXCEPT !.writes = Me \notin cluster /\ cached.manager = Me,
                            !.stage = "secretWrite"]
    /\ UNCHANGED <<users, stored, watch, objects, queue, held, gaps, faults>>
\* The Secret goes back with the resourceVersion that the cache had: if it was written
\* since, that is a conflict.
SecretWrite ==
    /\ At("secretWrite")
    /\ LET write == pass.writes /\ Me \notin cachedListed IN
       \/ ~write /\ Done /\ UNCHANGED <<listed, changed, missed>>
       \/ write /\ Me \in changed /\ Abort /\ UNCHANGED <<listed, changed, missed>>
       \/ /\ write /\ Me \notin changed
          /\ listed' = listed \cup {Me} /\ changed' = changed \cup {Me}
          /\ missed' = (missed \/ Overtaken({"roles", "bindings", "secret"}, {Me}))
          /\ Done
    /\ UNCHANGED <<users, stored, watch, rights, seen, cachedListed, held, unwritten,
                   outdated, faults>>

PassFails ==
    /\ Fault
    /\ pass # None /\ pass.stage \notin {"unlabel", "unrole", "unbind"}
    /\ Abort
    /\ UNCHANGED <<users, stored, watch, objects, held, gaps>>

-----------------------------------------------------------------------------
(* The deletion of an instance *)

\* deleteClusterResources: by the instance's name, in all namespaces, those that the
\* cache shows; if one of them is gone, that is an error, and the others may have been
\* deleted before it.  Those of another instance with that name wake it up: it owns
\* some of them.
ClusterResources ==
    /\ At("clusterResources")
    /\ LET k    == Key(Me)
           lost == \/ cachedBinding[k] # None /\ binding[k] = None
                   \/ cachedSourceBinding[k] # None /\ sourceBinding[k] = None
           clear == /\ binding' = IF cachedBinding[k] = None THEN binding
                                  ELSE [binding EXCEPT ![k] = None]
                    /\ sourceBinding' = IF cachedSourceBinding[k] = None THEN sourceBinding
                                        ELSE [sourceBinding EXCEPT ![k] = None]
           awake == queue \cup (Namesakes(Me) \cap Alive)
       IN  \/ ~lost /\ clear /\ Goto("managerLabel") /\ queue' = awake
           \/ /\ lost /\ (clear \/ UNCHANGED <<binding, sourceBinding>>)
              /\ pass' = None /\ queue' = awake \cup {Me}
    /\ UNCHANGED <<users, stored, watch, role, sourceRole, seen, secrets, held, gaps, faults>>
\* removeManagedByLabelFromNamespaces, if the operator is told to.
ManagerLabel ==
    /\ At("managerLabel")
    /\ IF RemoveLabel /\ cached.manager = Me
         THEN WriteLabel([label EXCEPT !.manager = None]) ELSE UNCHANGED stored
    /\ Goto("finalSweep")
    /\ UNCHANGED <<users, watch, objects, queue, held, gaps, faults>>
\* The map of source namespaces is that of the last pass, whoever's it was.
FinalSweep ==
    /\ At("finalSweep")
    /\ IF held THEN CleanUp("finalizer") ELSE Goto("finalizer")
    /\ UNCHANGED <<users, stored, watch, objects, queue, held, gaps, faults>>
\* The cluster Secret goes with its owner.
Finalizer ==
    /\ At("finalizer")
    /\ life' = [life EXCEPT ![Me] = "gone"]
    /\ listed' = listed \ {Me} /\ changed' = changed \cup (listed \cap {Me})
    /\ Done
    /\ UNCHANGED <<installation, lists, edits, stored, watch, rights, seen, cachedListed,
                   held, gaps, faults>>

-----------------------------------------------------------------------------
\* The new process lists everything and has seen nothing change.
Restart ==
    /\ Fault
    /\ pass' = None /\ handler' = Idle /\ notices' = <<>>
    /\ cached' = label /\ behind' = FALSE /\ held' = FALSE /\ queue' = Alive
    /\ cachedRole' = role /\ cachedBinding' = binding
    /\ cachedSourceRole' = sourceRole /\ cachedSourceBinding' = sourceBinding
    /\ cachedListed' = listed /\ changed' = {}
    /\ missed' = (missed \/ Ahead({"roles", "bindings", "secret"}, Owners)
                         \/ Purges([old |-> cached, new |-> label]))
    /\ UNCHANGED <<users, label, rights, listed, unwritten, outdated>>

PassStep ==
    \/ Restore \/ Snapshot \/ Allowed \/ Roles \/ SourceRole \/ SetSource \/ Sweep
    \/ Unlabel \/ Unrole \/ Unbind \/ Bindings \/ SourceBinding \/ SecretRead \/ SecretWrite
    \/ ClusterResources \/ ManagerLabel \/ FinalSweep \/ Finalizer
HandlerStep == Take \/ PurgeRoles \/ PurgeBindings \/ PurgeSecret \/ Enqueue
Next ==
    \/ \E i \in Owners : SetManager(i) \/ SetAppset(i)
    \/ \E i \in Instances : Delete(i) \/ Begin(i)
    \/ \E i \in Instances, how \in {"no", "glob", "regex"} : EditSources(i, how)
    \/ CacheUpdate \/ HandlerStep \/ ShowRoles \/ ShowBindings \/ ShowSecrets \/ PassStep
    \/ PurgeFails \/ CleanUpFails \/ PassFails \/ Restart

Spec == Init /\ [][Next]_vars
\* The informers, the handler and the worker each go on; the queue is fair.
Fairness ==
    /\ WF_vars(CacheUpdate) /\ WF_vars(HandlerStep) /\ WF_vars(PassStep)
    /\ WF_vars(ShowRoles) /\ WF_vars(ShowBindings) /\ WF_vars(ShowSecrets)
    /\ \A i \in Instances : WF_vars(Begin(i))
FairSpec == Spec /\ Fairness

-----------------------------------------------------------------------------
Settled == /\ pass = None /\ queue = {} /\ handler = Idle /\ notices = <<>> /\ ~behind
           /\ rights = seen /\ changed = {}

\* The manager that the label names ends up with its rights in the namespace,
\* and with the namespace in its list, whatever the predicate deleted meanwhile
\* and whatever failed: the purge of the last manager never wins over the next,
\* unless that one's last pass still saw in the cache what the purge had deleted.
ManagerHasRights ==
    \A i \in Instances :
        Settled /\ life[i] = "up" /\ label.manager = i /\ i \notin outdated
        => /\ role[Key(i)] /\ binding[Key(i)] = i
           /\ i \in listed <=> i \notin cluster

\* A cluster-wide instance that claims the namespace, by a glob, ends up with it,
\* unless a mark could not be written, its last pass saw what was deleted already, the
\* namespace has a manager or is for another instance's ApplicationSets, or another
\* instance's label is on it (that of a rival that came first, or one stuck to it:
\* restored by a namesake, or by a pass that gave the namespace up but could not see
\* the label it had restored).
SourceHasRights ==
    \A i \in cluster :
        /\ Settled /\ ~unwritten /\ i \notin outdated
        /\ life[i] = "up" /\ lists[i] = "glob"
        /\ label.manager = None /\ label.appset \in {None, i} /\ label.source \in {None, i}
        => label.source = i /\ sourceRole[Key(i)] /\ sourceBinding[Key(i)] = i

\* An instance that lost the namespace has no rights in it and does not list it,
\* unless the pass granted them after the purge, or the purge failed, or was never
\* heard of.
NoRightsLeft ==
    \A i \in Instances :
        Settled /\ ~missed /\ life[i] = "up" /\ label.manager # i
        => /\ i \notin listed
           /\ (\A j \in Namesakes(i) : label.manager # j)
                => ~role[Key(i)] /\ binding[Key(i)] = None

\* The operator's own labels wake it up again, and that comes to an end, if in
\* the end at most one instance claims the namespace.  (Two can go on taking it
\* from each other.)
Claimers == {i \in cluster : life[i] = "up" /\ lists[i] # "no"}
Quiesces == <>[](Cardinality(Claimers) <= 1)
            => <>[](pass = None /\ queue = {} /\ handler = Idle)

\* The manager ends up with its rights: the handler of the watch deletes those of the
\* old one, and the event then goes to the reconciler, which makes the new ones.
RightsAreMadeAgain ==
    \A i \in Instances :
        Settled /\ life[i] = "up" /\ label.manager = i => role[Key(i)] /\ binding[Key(i)] = i

\* When an instance is gone, so is its mark on its source namespace, and unless
\* another one goes by its name, its role and binding there.
GoneLeavesNothing ==
    \A i \in Instances :
        Settled /\ life[i] = "gone" /\ Namesakes(i) = {}
        => label.source # i /\ ~sourceRole[Key(i)] /\ sourceBinding[Key(i)] = None
=============================================================================
