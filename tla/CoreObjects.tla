----------------------------- MODULE CoreObjects -----------------------------
(***************************************************************************)
(* The Kubernetes objects of the core of an Argo CD instance: Redis, the   *)
(* repository server, the API server, the application controller and the   *)
(* commit server.                                                          *)
(*                                                                         *)
(* Every reconciler of the operator has the same outline: build the        *)
(* desired object, look for the existing one, and then delete it, compare  *)
(* it field by field and update it, or create it.  What differs, and where *)
(* the mistakes are, is which conditions and which fields each one looks   *)
(* at.  So a reconciler is a record of exactly that, for the set `on' of   *)
(* the switches that are on (in the ArgoCD resource or in the cluster).    *)
(***************************************************************************)
EXTENDS Integers, FiniteSets

\* kind     the kind of the object, which decides whether it is watched
\* reads    the switches its conditions depend on
\* wanted   the object should be there
\* visited  the reconciler is called at all
\* keep     an existing object is kept; otherwise it is deleted
\* make     a missing object is created
\* follows  fields whose desired value comes from the resource or the cluster
\* repairs  fields that are compared, and overwritten when they differ
\* sticky   fields overwritten only with what the resource sets, not with nothing
\* later    versions of fields that the creation gets wrong
\* early    fields whose repair returns before `keep' is looked at
\* drops    fields that differ: the object is deleted, to be created again
\* replaces the same, and created again at once
\* trips    fields that, if they differ, make the pass fail after a deletion
\* refused  fields written on every update but immutable in the API
\* owned    the object names the ArgoCD resource, as its controller or in annotations
\* swallowed   an error is logged and nothing more
\* blocked  an error in the resource ends the pass before the object is reached
\* unmade   a missing object that is wanted cannot be created: an error
\* purged   switches: deleted by the update event that turns one of them off
\* live     that deletion asks the API server, not the cache
\* tolerant that it is gone already is no error of a deletion
\* blind    it is deleted without a look whether it is there
\* gated    made after the label of the namespace, deleted only if that is there
\* parts    how many copies with the same reconciler
Reconciler(kind, reads, wanted, follows, repairs) ==
    [kind |-> kind, reads |-> reads, wanted |-> wanted, visited |-> TRUE,
     keep |-> wanted, make |-> wanted, follows |-> follows, repairs |-> repairs,
     sticky |-> {}, later |-> {}, early |-> {}, drops |-> {}, replaces |-> {},
     trips |-> {}, refused |-> {}, owned |-> TRUE, swallowed |-> FALSE,
     blocked |-> FALSE, unmade |-> FALSE, purged |-> {}, live |-> FALSE,
     tolerant |-> FALSE, blind |-> FALSE, gated |-> FALSE, parts |-> 1]

\* Switches of the cluster and of the operator's installation.
Platform == {"openshift", "routeAPI", "promAPI", "updaterAPI", "clusterConfig",
             "operatorNamespace", "customController", "customServer",
             "customPrincipal", "customAgent", "customPromoter", "customPromoterAPI",
             "dashboards", "completed", "oneInstance"}

\* What newDeploymentWithName and newStatefulSetWithName take from the resource.
DeploymentBase  == {"nodes"}
StatefulSetBase == {"nodes"}

\* Fields that all updaters of the pods of the core compare.
PodFields == {"image", "pull", "nodes", "priority", "env", "mounts", "volumes",
              "resources", "security", "podSecurity"}

LocalRedis(on) == "redis" \in on /\ "redisRemote" \notin on /\ "ha" \notin on
HARedis(on)    == "redis" \in on /\ "ha" \in on

-----------------------------------------------------------------------------
(* Redis *)

RedisDeploymentInputs ==
    DeploymentBase \cup {"image", "pull", "args", "env", "resources",
                         "annotations", "labels", "priority"}
RedisDeployment(on) ==
    Reconciler("Deployment", {"redis", "redisRemote", "ha"}, LocalRedis(on),
               RedisDeploymentInputs,
               PodFields \cup {"args", "account", "annotations", "labels"})

RedisHAProxyInputs ==
    DeploymentBase \cup {"image", "pull", "env", "resources", "init", "priority"}
RedisHAProxyDeployment(on) ==
    Reconciler("Deployment", {"ha", "redis"}, "ha" \in on, RedisHAProxyInputs,
               PodFields \cup {"init", "strategy", "replicas", "account"})

\* The hook of the sentinel depends on whether Redis speaks TLS.
RedisSentinelInputs == {"hook", "init"}
RedisServerInputs ==
    StatefulSetBase \cup {"image", "pull", "env", "resources", "annotations",
                          "labels", "priority"}

\* Deleted only with HA or Redis itself; a remote Redis only stops creation.
RedisStatefulSet(on) ==
    [Reconciler("StatefulSet", {"redis", "redisRemote", "ha"}, HARedis(on),
                RedisServerInputs \cup RedisSentinelInputs,
                PodFields \cup {"init", "annotations", "labels"})
     EXCEPT !.make = HARedis(on) /\ "redisRemote" \notin on]

\* ensureAutoTLSAnnotation: only where the service CA can serve it.
AutoTLS(on) == IF "routeAPI" \in on THEN {"autoTLS"} ELSE {}

RedisService(on) ==
    [Reconciler("Service", {"redis", "redisRemote", "ha", "routeAPI"},
                LocalRedis(on), AutoTLS(on), AutoTLS(on))
     EXCEPT !.early = IF "redis" \in on THEN AutoTLS(on) ELSE {}]

RedisHAAnnounceService(on) ==
    [Reconciler("Service", {"redis", "ha"}, HARedis(on), {}, {})
     EXCEPT !.parts = 3]

RedisHAMasterService(on) ==
    Reconciler("Service", {"redis", "ha"}, HARedis(on), {}, {})

RedisHAProxyService(on) ==
    Reconciler("Service", {"redis", "ha", "routeAPI"}, HARedis(on),
               AutoTLS(on), AutoTLS(on))

-----------------------------------------------------------------------------
(* The repository server *)

RepoInitInputs     == {"init", "account", "automount", "env"}
RepoServerInputs   == {"command", "args", "image", "pull", "mounts", "resources", "sidecars"}
RepoTemplateInputs == {"volumes", "replicas", "annotations", "labels", "priority"}

\* The creation is skipped for a remote server only while Redis is enabled.
RepoDeployment(on) ==
    [Reconciler("Deployment", {"repo", "repoRemote", "redis"},
                "repo" \in on /\ "repoRemote" \notin on,
                DeploymentBase \cup RepoInitInputs \cup RepoServerInputs
                    \cup RepoTemplateInputs,
                PodFields \cup {"args", "command", "sidecars", "init", "replicas",
                                "automount", "account", "annotations", "labels"})
     EXCEPT !.make = /\ "repo" \in on
                     /\ ~("redis" \in on /\ "repoRemote" \in on)]

RepoService(on) ==
    [Reconciler("Service", {"repo", "repoRemote", "routeAPI"},
                "repo" \in on /\ "repoRemote" \notin on, AutoTLS(on), AutoTLS(on))
     EXCEPT !.early = IF "repo" \in on THEN AutoTLS(on) ELSE {}]

-----------------------------------------------------------------------------
(* The API server *)

ServerContainerInputs == {"env", "init", "mounts", "command", "args", "image",
                          "pull", "resources"}
ServerPodInputs(on) ==
    {"volumes", "sidecars", "annotations", "labels", "priority"}
        \cup (IF "autoscale" \in on THEN {} ELSE {"replicas"})
ServerDeployment(on) ==
    Reconciler("Deployment", {"server", "autoscale"}, "server" \in on,
               DeploymentBase \cup ServerContainerInputs \cup ServerPodInputs(on),
               PodFields \cup {"args", "init", "command", "sidecars",
                               "annotations", "labels", "account"}
                   \cup (IF "autoscale" \in on THEN {} ELSE {"replicas"}))

ServerService(on) ==
    Reconciler("Service", {"server", "routeAPI"}, "server" \in on,
               AutoTLS(on) \cup {"type"}, AutoTLS(on) \cup {"type"})

MetricsService(on)       == Reconciler("Service", {}, TRUE, {}, {})
ServerMetricsService(on) == Reconciler("Service", {}, TRUE, {}, {})

\* Without a specification of its own the existing autoscaler stays as it is.
ServerHPA(on) ==
    [Reconciler("HorizontalPodAutoscaler", {"autoscale"}, "autoscale" \in on,
                {"spec"}, {"spec"})
     EXCEPT !.sticky = {"spec"}]

\* Grafana is no longer installed, only removed.
GrafanaService(on) ==
    [Reconciler("Service", {"grafana"}, FALSE, {}, {})
     EXCEPT !.keep = "grafana" \in on]

-----------------------------------------------------------------------------
(* The application controller *)

ControllerEnv == {"env"}
ControllerPodInputs ==
    {"replicas", "init", "mounts", "command", "image", "pull", "resources",
     "sidecars", "volumes"}
ControllerTemplateInputs == {"annotations", "labels", "priority"}
\* The creation forgets --repo-server-strict-tls; the next pass adds it.
ControllerStatefulSet(on) ==
    [Reconciler("StatefulSet", {"controller"}, "controller" \in on,
                StatefulSetBase \cup ControllerEnv \cup ControllerPodInputs
                    \cup ControllerTemplateInputs,
                PodFields \cup {"command", "init", "replicas", "sidecars",
                                "annotations", "labels"})
     EXCEPT !.later = {<<"command", 1>>}]

\* Dynamic scaling: as many replicas as the clusters fill, within the bounds of
\* the resource, each of them first made sensible.  A list that cannot be had
\* counts as no scaling at all.
Unlisted == -1
ControllerReplicas(sharding, clusters) ==
    LET least   == IF sharding.minShards < 1 THEN 1 ELSE sharding.minShards
        most    == IF sharding.maxShards < least THEN least ELSE sharding.maxShards
        each    == IF sharding.perShard < 1 THEN 1 ELSE sharding.perShard
        shards  == clusters \div each
    IN  CASE sharding.dynamic /\ clusters = Unlisted -> 1
          [] sharding.dynamic /\ clusters # Unlisted ->
                IF shards > most THEN most ELSE IF shards < least THEN least ELSE shards
          [] ~sharding.dynamic /\ sharding.enabled /\ sharding.replicas # 0 -> sharding.replicas
          [] OTHER -> 1

-----------------------------------------------------------------------------
(* The commit server *)

CommitContainerInputs == {"env", "resources", "annotations", "labels", "command",
                          "image", "pull", "priority", "init"}
CommitServerDeployment(on) ==
    Reconciler("Deployment", {"commit"}, "commit" \in on,
               DeploymentBase \cup CommitContainerInputs,
               (PodFields \ {"nodes"})
                   \cup {"annotations", "labels", "init", "account", "command"})

CommitServerService(on) ==
    Reconciler("Service", {"commit"}, "commit" \in on, {}, {"type"})

CommitServerNetworkPolicy(on) ==
    Reconciler("NetworkPolicy", {"netpol", "commit"}, {"netpol", "commit"} \subseteq on, {},
               {"podSelector", "policyTypes", "ingress"})

-----------------------------------------------------------------------------
(* The reconcilers by the names of their objects. *)

CoreNames ==
    {"RedisDeployment", "RedisHAProxyDeployment", "RedisStatefulSet",
     "RedisService", "RedisHAAnnounceService", "RedisHAMasterService",
     "RedisHAProxyService", "RepoDeployment", "RepoService",
     "ServerDeployment", "ServerService", "MetricsService",
     "ServerMetricsService", "ServerHPA", "GrafanaService",
     "ControllerStatefulSet", "CommitServerDeployment",
     "CommitServerService", "CommitServerNetworkPolicy"}
CoreReconciler(o, on) ==
    CASE o = "RedisDeployment" -> RedisDeployment(on)
      [] o = "RedisHAProxyDeployment" -> RedisHAProxyDeployment(on)
      [] o = "RedisStatefulSet" -> RedisStatefulSet(on)
      [] o = "RedisService" -> RedisService(on)
      [] o = "RedisHAAnnounceService" -> RedisHAAnnounceService(on)
      [] o = "RedisHAMasterService" -> RedisHAMasterService(on)
      [] o = "RedisHAProxyService" -> RedisHAProxyService(on)
      [] o = "RepoDeployment" -> RepoDeployment(on)
      [] o = "RepoService" -> RepoService(on)
      [] o = "ServerDeployment" -> ServerDeployment(on)
      [] o = "ServerService" -> ServerService(on)
      [] o = "MetricsService" -> MetricsService(on)
      [] o = "ServerMetricsService" -> ServerMetricsService(on)
      [] o = "ServerHPA" -> ServerHPA(on)
      [] o = "GrafanaService" -> GrafanaService(on)
      [] o = "ControllerStatefulSet" -> ControllerStatefulSet(on)
      [] o = "CommitServerDeployment" -> CommitServerDeployment(on)
      [] o = "CommitServerService" -> CommitServerService(on)
      [] o = "CommitServerNetworkPolicy" -> CommitServerNetworkPolicy(on)
=============================================================================
