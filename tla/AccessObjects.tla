--------------------------- MODULE AccessObjects ---------------------------
(***************************************************************************)
(* The objects of an Argo CD instance that let it be reached and           *)
(* configured: network policies, ConfigMaps, routes, ingresses, what       *)
(* Prometheus needs, Dex, and the ServiceAccounts.                         *)
(***************************************************************************)
EXTENDS CoreObjects

-----------------------------------------------------------------------------
(* Network policies.  Without the switch "netpol" all of them are deleted. *)

\* "appset": the section of the ApplicationSet controller is there; "appsetOff":
\* it says enabled: false.
AppSetOn(on)   == "appset" \in on /\ "appsetOff" \notin on
AppSetSwitches == {"appset", "appsetOff"}

PolicyFields == {"podSelector", "policyTypes", "ingress"}
Policy(reads, wanted) ==
    Reconciler("NetworkPolicy", reads, wanted, {}, PolicyFields)

RedisPolicyPeers == {"ingress"}
RedisNetworkPolicy(on) ==
    Reconciler("NetworkPolicy", {"netpol"}, "netpol" \in on, RedisPolicyPeers,
               PolicyFields)
RedisHANetworkPolicy(on)      == Policy({"netpol"}, "netpol" \in on)
ServerNetworkPolicy(on)       == Policy({"netpol"}, "netpol" \in on)
ControllerNetworkPolicy(on)   == Policy({"netpol"}, "netpol" \in on)
RepoNetworkPolicy(on)         == Policy({"netpol"}, "netpol" \in on)
DexNetworkPolicy(on)          == Policy({"netpol", "dex"}, {"netpol", "dex"} \subseteq on)
AppSetNetworkPolicy(on) ==
    Policy({"netpol"} \cup AppSetSwitches, "netpol" \in on /\ AppSetOn(on))
NotificationsNetworkPolicy(on) == Policy({"netpol", "notif"}, {"netpol", "notif"} \subseteq on)

\* Made only while the image updater is on; its disabled path deletes it, and so
\* does the clean-up of all policies.
ImageUpdaterNetworkPolicy(on) ==
    [Policy({"netpol", "updater", "updaterAPI"},
            {"netpol", "updater", "updaterAPI"} \subseteq on)
     EXCEPT !.visited = "netpol" \in on => "updaterAPI" \in on,
            !.keep = {"netpol", "updater"} \subseteq on,
            !.blind = "updaterAPI" \in on /\ "updater" \notin on]

-----------------------------------------------------------------------------
(* ConfigMaps.  modifyOwnerReferenceIfNeeded repairs the owner of all but the *)
(* one with the certificate of the CA.                                       *)

ConfigMap(reads, wanted, follows, repairs) ==
    Reconciler("ConfigMap", reads, wanted, follows, repairs)
OwnerRef == {"ownerRef"}

CAConfigMap(on)      == ConfigMap({}, TRUE, {"data"}, {"data"})
ArgoConfigMapInputs  == {"data", "dexConfig", "webTerminal"}
ArgoConfigMap(on)    == ConfigMap({}, TRUE, ArgoConfigMapInputs,
                                  ArgoConfigMapInputs \cup OwnerRef)
RedisHAConfigMap(on) == ConfigMap({"ha"}, "ha" \in on, {"data"}, {"data"} \cup OwnerRef)
RedisHAHealthConfigMap(on) ==
    ConfigMap({"ha"}, "ha" \in on, {"data"}, {"data"} \cup OwnerRef)
CmdParamsConfigMap(on) == ConfigMap({}, TRUE, {"data"}, {"data"} \cup OwnerRef)

\* Users edit these two themselves: the resource gives the initial contents.
KnownHostsConfigMap(on) == ConfigMap({}, TRUE, {"data"}, OwnerRef)
TLSCertsConfigMap(on)   == ConfigMap({}, TRUE, {"data"}, OwnerRef)
GPGKeysConfigMap(on)    == ConfigMap({}, TRUE, {}, OwnerRef)

\* What the resource does not set stays as it is; createRBACConfigMap knows
\* nothing of the matcher mode.
RBACKeys == {"policy", "defaultPolicy", "matcherMode", "scopes"}
RBACConfigMapCreation == {<<"matcherMode", 1>>}
RBACConfigMap(on) ==
    [ConfigMap({}, TRUE, RBACKeys, RBACKeys \cup OwnerRef)
     EXCEPT !.sticky = RBACKeys, !.later = RBACConfigMapCreation]

-----------------------------------------------------------------------------
(* Routes, where the cluster has them *)

RouteAPI(on) == "routeAPI" \in on

\* Annotations, labels, host and wildcard policy are written only if they are set.
ServerRouteSticky == {"annotations", "labels", "host", "wildcard"}
ServerRoute(on) ==
    [Reconciler("Route", {"serverRoute", "routeAPI"},
                "serverRoute" \in on /\ RouteAPI(on),
                ServerRouteSticky \cup {"port", "tls", "path"},
                ServerRouteSticky \cup {"port", "tls", "path", "to"})
     EXCEPT !.visited = RouteAPI(on), !.sticky = ServerRouteSticky]

WebhookRouteSticky == {"annotations", "labels", "wildcard"}
AppSetWebhookRoute(on) ==
    [Reconciler("Route", {"appset", "webhookRoute", "routeAPI"},
                {"appset", "webhookRoute", "routeAPI"} \subseteq on,
                WebhookRouteSticky \cup {"host", "tls"},
                WebhookRouteSticky \cup {"host", "tls", "port", "to"})
     EXCEPT !.visited = RouteAPI(on), !.sticky = WebhookRouteSticky]

GrafanaRoute(on) ==
    [Reconciler("Route", {"grafana", "grafanaRoute", "routeAPI"}, FALSE, {}, {})
     EXCEPT !.visited = RouteAPI(on), !.keep = {"grafana", "grafanaRoute"} \subseteq on]
PrometheusRoute(on) ==
    [Reconciler("Route", {"routeAPI"}, FALSE, {}, {}) EXCEPT !.visited = RouteAPI(on)]

-----------------------------------------------------------------------------
(* Ingresses *)

\* The default annotations of a new ingress are removed by the next pass, which
\* compares with the annotations of the resource alone.
ServerIngressInputs == {"class", "annotations", "rules", "tls"}
ServerIngress(on) ==
    [Reconciler("Ingress", {"serverIngress"}, "serverIngress" \in on,
                ServerIngressInputs, ServerIngressInputs)
     EXCEPT !.later = {<<"annotations", 0>>}]

GRPCIngress(on) ==
    Reconciler("Ingress", {"grpcIngress"}, "grpcIngress" \in on,
               ServerIngressInputs, {})
AppSetIngress(on) ==
    Reconciler("Ingress", {"appset", "webhookIngress"},
               {"appset", "webhookIngress"} \subseteq on,
               {"annotations", "rules", "tls"}, {})
GrafanaIngress(on) ==
    [Reconciler("Ingress", {"grafana", "grafanaIngress"}, FALSE, {}, {})
     EXCEPT !.keep = {"grafana", "grafanaIngress"} \subseteq on]
PrometheusIngress(on) == Reconciler("Ingress", {}, FALSE, {}, {})

-----------------------------------------------------------------------------
(* Prometheus, where the cluster has it *)

\* updateServiceMonitorEndpointIfNeeded: one endpoint, and the desired one.
MonitorFields == {"endpoint"}
Monitor(on) ==
    [Reconciler("ServiceMonitor", {"prometheus", "promAPI"},
                {"prometheus", "promAPI"} \subseteq on, MonitorFields, MonitorFields)
     EXCEPT !.visited = "promAPI" \in on]
MetricsServiceMonitor(on)       == Monitor(on)
RepoServerServiceMonitor(on)    == Monitor(on)
ServerMetricsServiceMonitor(on) == Monitor(on)

PrometheusCR(on) ==
    [Reconciler("Prometheus", {"promAPI"}, FALSE, {}, {})
     EXCEPT !.visited = "promAPI" \in on]
PrometheusRule(on) ==
    [Reconciler("PrometheusRule", {"monitoring", "promAPI"},
                {"monitoring", "promAPI"} \subseteq on, {}, {})
     EXCEPT !.visited = "promAPI" \in on]

-----------------------------------------------------------------------------
(* Dex.  reconcileSSO comes first and returns early when there is no SSO, so   *)
(* the deletions are made by reconcileServices and reconcileDeployments, which *)
(* only log an error.                                                         *)

DexContainerInputs == {"image", "pull", "init", "env", "mounts", "volumes", "resources"}
DexPodInputs       == {"annotations", "labels", "priority"}
DexDeployment(on) ==
    [Reconciler("Deployment", {"dex"}, "dex" \in on,
                DeploymentBase \cup DexContainerInputs \cup DexPodInputs,
                PodFields \cup {"init", "account", "annotations", "labels"})
     EXCEPT !.swallowed = "dex" \notin on]
DexService(on) ==
    [Reconciler("Service", {"dex"}, "dex" \in on, {}, {})
     EXCEPT !.swallowed = "dex" \notin on]

\* The redirect URI is put on the ServiceAccount after it was made.
DexServiceAccount(on) ==
    LET uri == IF "dexOAuth" \in on THEN {"redirectURI"} ELSE {}
    IN  Reconciler("ServiceAccount", {"dex", "dexOAuth"}, "dex" \in on, uri, uri)

-----------------------------------------------------------------------------
(* ServiceAccounts: pull secrets are the operator's business off OpenShift only *)

PullSecrets(on) == IF "openshift" \in on THEN {} ELSE {"pullSecrets"}
ServiceAccount(reads, wanted, on) ==
    Reconciler("ServiceAccount", reads \cup {"openshift"}, wanted, PullSecrets(on),
               PullSecrets(on))
ComponentServiceAccount(on) == ServiceAccount({}, TRUE, on)
CommitServerServiceAccount(on) == ServiceAccount({"commit"}, "commit" \in on, on)
RepoServerServiceAccount(on) ==
    ServiceAccount({"repo", "repoRemote"}, "repo" \in on /\ "repoRemote" \notin on, on)

-----------------------------------------------------------------------------
(* The reconcilers by the names of their objects. *)

AccessNames ==
    {"RedisNetworkPolicy", "RedisHANetworkPolicy", "ServerNetworkPolicy",
     "ControllerNetworkPolicy", "RepoNetworkPolicy", "DexNetworkPolicy",
     "AppSetNetworkPolicy", "NotificationsNetworkPolicy",
     "ImageUpdaterNetworkPolicy", "CAConfigMap", "ArgoConfigMap",
     "RedisHAConfigMap", "RedisHAHealthConfigMap", "CmdParamsConfigMap",
     "KnownHostsConfigMap", "TLSCertsConfigMap", "GPGKeysConfigMap",
     "RBACConfigMap", "ServerRoute", "AppSetWebhookRoute", "GrafanaRoute",
     "PrometheusRoute", "ServerIngress", "GRPCIngress", "AppSetIngress",
     "GrafanaIngress", "PrometheusIngress", "MetricsServiceMonitor",
     "RepoServerServiceMonitor", "ServerMetricsServiceMonitor",
     "PrometheusCR", "PrometheusRule", "DexDeployment", "DexService",
     "DexServiceAccount", "ComponentServiceAccount",
     "CommitServerServiceAccount", "RepoServerServiceAccount"}
AccessReconciler(o, on) ==
    CASE o = "RedisNetworkPolicy" -> RedisNetworkPolicy(on)
      [] o = "RedisHANetworkPolicy" -> RedisHANetworkPolicy(on)
      [] o = "ServerNetworkPolicy" -> ServerNetworkPolicy(on)
      [] o = "ControllerNetworkPolicy" -> ControllerNetworkPolicy(on)
      [] o = "RepoNetworkPolicy" -> RepoNetworkPolicy(on)
      [] o = "DexNetworkPolicy" -> DexNetworkPolicy(on)
      [] o = "AppSetNetworkPolicy" -> AppSetNetworkPolicy(on)
      [] o = "NotificationsNetworkPolicy" -> NotificationsNetworkPolicy(on)
      [] o = "ImageUpdaterNetworkPolicy" -> ImageUpdaterNetworkPolicy(on)
      [] o = "CAConfigMap" -> CAConfigMap(on)
      [] o = "ArgoConfigMap" -> ArgoConfigMap(on)
      [] o = "RedisHAConfigMap" -> RedisHAConfigMap(on)
      [] o = "RedisHAHealthConfigMap" -> RedisHAHealthConfigMap(on)
      [] o = "CmdParamsConfigMap" -> CmdParamsConfigMap(on)
      [] o = "KnownHostsConfigMap" -> KnownHostsConfigMap(on)
      [] o = "TLSCertsConfigMap" -> TLSCertsConfigMap(on)
      [] o = "GPGKeysConfigMap" -> GPGKeysConfigMap(on)
      [] o = "RBACConfigMap" -> RBACConfigMap(on)
      [] o = "ServerRoute" -> ServerRoute(on)
      [] o = "AppSetWebhookRoute" -> AppSetWebhookRoute(on)
      [] o = "GrafanaRoute" -> GrafanaRoute(on)
      [] o = "PrometheusRoute" -> PrometheusRoute(on)
      [] o = "ServerIngress" -> ServerIngress(on)
      [] o = "GRPCIngress" -> GRPCIngress(on)
      [] o = "AppSetIngress" -> AppSetIngress(on)
      [] o = "GrafanaIngress" -> GrafanaIngress(on)
      [] o = "PrometheusIngress" -> PrometheusIngress(on)
      [] o = "MetricsServiceMonitor" -> MetricsServiceMonitor(on)
      [] o = "RepoServerServiceMonitor" -> RepoServerServiceMonitor(on)
      [] o = "ServerMetricsServiceMonitor" -> ServerMetricsServiceMonitor(on)
      [] o = "PrometheusCR" -> PrometheusCR(on)
      [] o = "PrometheusRule" -> PrometheusRule(on)
      [] o = "DexDeployment" -> DexDeployment(on)
      [] o = "DexService" -> DexService(on)
      [] o = "DexServiceAccount" -> DexServiceAccount(on)
      [] o = "ComponentServiceAccount" -> ComponentServiceAccount(on)
      [] o = "CommitServerServiceAccount" -> CommitServerServiceAccount(on)
      [] o = "RepoServerServiceAccount" -> RepoServerServiceAccount(on)
      [] OTHER -> CoreReconciler(o, on)
=============================================================================
