---------------------------- MODULE AgentObjects ----------------------------
(***************************************************************************)
(* The objects of the Argo CD agent, of the principal that agents of other *)
(* clusters talk to, and of the GitOps promoter.                           *)
(***************************************************************************)
EXTENDS RightsObjects

-----------------------------------------------------------------------------
(* Agent and principal.  A resource that enables both is in error. *)

Sides == {"principal", "agent"}
Side(side, kind, more, wanted, follows, repairs, on) ==
    [Reconciler(kind, Sides \cup more, side \in on /\ wanted, follows, repairs)
     EXCEPT !.blocked = Sides \subseteq on]

ContainerFields ==
    {"image", "name", "env", "args", "mounts", "volumes", "security", "ports",
     "account", "resources", "priority"}
\* The environment of the principal's container is most of its configuration.
PrincipalEnv == {"env"}
PrincipalInputs == {"image", "resources", "priority"} \cup PrincipalEnv
\* The selector is compared and written too, which the API server refuses.
PrincipalUpdate == ContainerFields \cup {"pull"}
PrincipalDeployment(on) ==
    [Side("principal", "Deployment", {}, TRUE, PrincipalInputs \cup {"pull"},
          PrincipalUpdate, on)
     EXCEPT !.refused = {"selector"}]
AgentEnv == {"env"}
AgentInputs == {"image", "resources", "priority"} \cup AgentEnv
AgentUpdate == ContainerFields
AgentDeployment(on) ==
    [Side("agent", "Deployment", {}, TRUE, AgentInputs, AgentUpdate, on)
     EXCEPT !.refused = {"selector"}]

ServiceFields == {"type", "ports", "selector"}
\* Annotations of the user's that were put on before are known, and taken off.
PrincipalServiceAnnotations == {"annotations"}
PrincipalService(on) ==
    Side("principal", "Service", {}, TRUE, {"type"} \cup PrincipalServiceAnnotations,
         ServiceFields \cup PrincipalServiceAnnotations, on)
FixedService(side, on) == Side(side, "Service", {}, TRUE, {}, ServiceFields, on)
PrincipalMetricsService(on)       == FixedService("principal", on)
PrincipalRedisProxyService(on)    == FixedService("principal", on)
PrincipalResourceProxyService(on) == FixedService("principal", on)
PrincipalHealthzService(on)       == FixedService("principal", on)
AgentMetricsService(on)           == FixedService("agent", on)
AgentHealthzService(on)           == FixedService("agent", on)

SideServiceAccount(side, on) ==
    Side(side, "ServiceAccount", {"openshift"}, TRUE, PullSecrets(on), PullSecrets(on), on)
PrincipalServiceAccount(on) == SideServiceAccount("principal", on)
AgentServiceAccount(on)     == SideServiceAccount("agent", on)

\* A custom ClusterRole, named in the operator's environment, takes its place.
SideRole(side, custom, on) ==
    Side(side, "Role", {custom}, custom \notin on, {}, {"rules"}, on)
PrincipalRole(on) == SideRole("principal", "customPrincipal", on)
AgentRole(on)     == SideRole("agent", "customAgent", on)

\* The reference to the role is written too, which the API server refuses.
SideRoleBinding(side, on) ==
    [Side(side, "RoleBinding", {}, TRUE, {}, {"subjects"}, on)
     EXCEPT !.refused = {"roleRef"}]
PrincipalRoleBinding(on) == SideRoleBinding("principal", on)
AgentRoleBinding(on)     == SideRoleBinding("agent", on)

\* Nothing on these names the resource: nobody hears of changes to them.
SideClusterRole(side, follows, on) ==
    [Side(side, "ClusterRole", {"clusterConfig", "userRoles"}, ClusterWide(on), follows,
          {"rules"}, on)
     EXCEPT !.owned = FALSE]
PrincipalClusterRole(on) == SideClusterRole("principal", {}, on)
\* With more rights if applications are mapped by their destinations.
AgentClusterRules == {"rules"}
AgentClusterRole(on) == SideClusterRole("agent", AgentClusterRules, on)
SideClusterRoleBinding(side, on) ==
    [Side(side, "ClusterRoleBinding", {"clusterConfig", "userRoles"}, ClusterWide(on), {},
          {"subjects"}, on)
     EXCEPT !.owned = FALSE, !.refused = {"roleRef"}]
PrincipalClusterRoleBinding(on) == SideClusterRoleBinding("principal", on)
AgentClusterRoleBinding(on)     == SideClusterRoleBinding("agent", on)

PrincipalRoute(on) ==
    [Side("principal", "Route", {"routeAPI", "principalRoute"},
          {"routeAPI", "principalRoute"} \subseteq on, {}, {"port", "to", "tls"}, on)
     EXCEPT !.visited = "routeAPI" \in on]

SideMonitor(side, on) ==
    [Side(side, "ServiceMonitor", {"prometheus", "promAPI"},
          {"prometheus", "promAPI"} \subseteq on, {"endpoints"}, {"endpoints", "selector"}, on)
     EXCEPT !.visited = "promAPI" \in on]
PrincipalServiceMonitor(on) == SideMonitor("principal", on)
AgentServiceMonitor(on)     == SideMonitor("agent", on)

PrincipalNetworkPolicy(on) ==
    Side("principal", "NetworkPolicy", {"netpol"}, "netpol" \in on, {}, {"spec"}, on)

-----------------------------------------------------------------------------
(* The GitOps promoter: a controller and an API server, only for instances   *)
(* that may be cluster-wide.                                                 *)

ControllerOn(on) == {"promoter", "clusterConfig"} \subseteq on
APIServerOn(on)  == ControllerOn(on) /\ "apiserver" \in on
ControllerPart == {"promoter", "clusterConfig"}
APIServerPart  == ControllerPart \cup {"apiserver"}

PromoterInputs == {"image", "pull", "env", "resources"}
PromoterFields ==
    PromoterInputs \cup {"command", "name", "security", "ports", "liveness", "readiness",
                         "account", "grace", "volumes", "mounts"}
PromoterDeployment(reads, wanted, follows) ==
    [Reconciler("Deployment", reads, wanted, follows, PromoterFields)
     EXCEPT !.refused = {"selector"}]
PromoterControllerDeployment(on) ==
    PromoterDeployment(ControllerPart, ControllerOn(on), PromoterInputs)
\* The certificate of the API server is mounted.
PromoterAPIServerVolumes == {"volumes", "mounts"}
PromoterAPIServerDeployment(on) ==
    PromoterDeployment(APIServerPart, APIServerOn(on),
                       PromoterInputs \cup PromoterAPIServerVolumes)

PromoterServiceAccount(reads, wanted, on) == ServiceAccount(reads, wanted, on)
PromoterControllerServiceAccount(on) ==
    PromoterServiceAccount(ControllerPart, ControllerOn(on), on)
PromoterAPIServerServiceAccount(on) ==
    PromoterServiceAccount(APIServerPart, APIServerOn(on), on)

\* From here on, nothing names the resource.
PromoterService(reads, wanted, follows) ==
    [Reconciler("Service", reads, wanted, follows, ServiceFields) EXCEPT !.owned = FALSE]
PromoterWebhookService(on) ==
    PromoterService(ControllerPart \cup {"webhook"}, ControllerOn(on) /\ "webhook" \in on,
                    {"type"})
PromoterAPIServerService(on) == PromoterService(APIServerPart, APIServerOn(on), {})

PromoterClusterRole(reads, wanted) ==
    [Reconciler("ClusterRole", reads, wanted, {}, {"rules"}) EXCEPT !.owned = FALSE]
\* With a custom role in its place the default one is to be deleted, but one of
\* another name is: without the namespace.
PromoterReplaceableRole(reads, wanted, custom, on) ==
    LET r == PromoterClusterRole(reads \cup {custom}, wanted)
    IN  IF custom \in on
          THEN [r EXCEPT !.wanted = FALSE, !.keep = TRUE, !.make = FALSE, !.repairs = {}]
          ELSE r
PromoterControllerClusterRole(on) ==
    PromoterReplaceableRole(ControllerPart, ControllerOn(on), "customPromoter", on)
PromoterAPIServerClusterRole(on) ==
    PromoterReplaceableRole(APIServerPart, APIServerOn(on), "customPromoterAPI", on)
PromoterViewerClusterRole(on) == PromoterClusterRole(APIServerPart, APIServerOn(on))

\* One that refers to another role is deleted, and created again with the version
\* it had, which the API server refuses: the next pass creates it.
PromoterBinding(kind, reads, wanted) ==
    [Reconciler(kind, reads, wanted, {}, {"subjects"})
     EXCEPT !.owned = FALSE, !.drops = {"roleRef"},
            !.trips = IF wanted THEN {"roleRef"} ELSE {}]
PromoterControllerClusterRoleBinding(on) ==
    PromoterBinding("ClusterRoleBinding", ControllerPart, ControllerOn(on))
PromoterAPIServerClusterRoleBinding(on) ==
    PromoterBinding("ClusterRoleBinding", APIServerPart, APIServerOn(on))
\* In kube-system.
PromoterAPIServerRoleBinding(on) ==
    PromoterBinding("RoleBinding", APIServerPart, APIServerOn(on))

\* The registration of the API: one in the cluster, left alone if it is another's.
PromoterAPIService(on) ==
    [Reconciler("APIService", APIServerPart, APIServerOn(on), {"caBundle"},
                {"caBundle", "servicePort"})
     EXCEPT !.owned = FALSE]
\* Created with defaults that users then change.
PromoterControllerConfiguration(on) ==
    [Reconciler("ControllerConfiguration", ControllerPart, ControllerOn(on), {}, {})
     EXCEPT !.owned = FALSE]

-----------------------------------------------------------------------------
(* The reconcilers by the names of their objects. *)

AgentNames ==
    {"PrincipalDeployment", "AgentDeployment", "PrincipalService",
     "PrincipalResourceProxyService", "PrincipalServiceAccount",
     "PrincipalRole", "PrincipalRoleBinding", "PrincipalClusterRole",
     "AgentClusterRole", "PrincipalClusterRoleBinding", "PrincipalRoute",
     "PrincipalServiceMonitor", "PrincipalNetworkPolicy",
     "PrincipalMetricsService", "PrincipalRedisProxyService",
     "PrincipalHealthzService", "AgentMetricsService", "AgentHealthzService",
     "AgentServiceAccount", "AgentRole", "AgentRoleBinding",
     "AgentClusterRoleBinding", "AgentServiceMonitor",
     "PromoterControllerDeployment", "PromoterAPIServerDeployment",
     "PromoterControllerServiceAccount", "PromoterAPIServerServiceAccount",
     "PromoterWebhookService", "PromoterAPIServerService",
     "PromoterControllerClusterRole", "PromoterAPIServerClusterRole",
     "PromoterViewerClusterRole", "PromoterControllerClusterRoleBinding",
     "PromoterAPIServerClusterRoleBinding", "PromoterAPIServerRoleBinding",
     "PromoterAPIService", "PromoterControllerConfiguration"}
AgentReconciler(o, on) ==
    CASE o = "PrincipalDeployment" -> PrincipalDeployment(on)
      [] o = "AgentDeployment" -> AgentDeployment(on)
      [] o = "PrincipalService" -> PrincipalService(on)
      [] o = "PrincipalResourceProxyService" -> PrincipalResourceProxyService(on)
      [] o = "PrincipalServiceAccount" -> PrincipalServiceAccount(on)
      [] o = "PrincipalRole" -> PrincipalRole(on)
      [] o = "PrincipalRoleBinding" -> PrincipalRoleBinding(on)
      [] o = "PrincipalClusterRole" -> PrincipalClusterRole(on)
      [] o = "AgentClusterRole" -> AgentClusterRole(on)
      [] o = "PrincipalClusterRoleBinding" -> PrincipalClusterRoleBinding(on)
      [] o = "PrincipalRoute" -> PrincipalRoute(on)
      [] o = "PrincipalServiceMonitor" -> PrincipalServiceMonitor(on)
      [] o = "PrincipalNetworkPolicy" -> PrincipalNetworkPolicy(on)
      [] o = "PrincipalMetricsService" -> PrincipalMetricsService(on)
      [] o = "PrincipalRedisProxyService" -> PrincipalRedisProxyService(on)
      [] o = "PrincipalHealthzService" -> PrincipalHealthzService(on)
      [] o = "AgentMetricsService" -> AgentMetricsService(on)
      [] o = "AgentHealthzService" -> AgentHealthzService(on)
      [] o = "AgentServiceAccount" -> AgentServiceAccount(on)
      [] o = "AgentRole" -> AgentRole(on)
      [] o = "AgentRoleBinding" -> AgentRoleBinding(on)
      [] o = "AgentClusterRoleBinding" -> AgentClusterRoleBinding(on)
      [] o = "AgentServiceMonitor" -> AgentServiceMonitor(on)
      [] o = "PromoterControllerDeployment" -> PromoterControllerDeployment(on)
      [] o = "PromoterAPIServerDeployment" -> PromoterAPIServerDeployment(on)
      [] o = "PromoterControllerServiceAccount" -> PromoterControllerServiceAccount(on)
      [] o = "PromoterAPIServerServiceAccount" -> PromoterAPIServerServiceAccount(on)
      [] o = "PromoterWebhookService" -> PromoterWebhookService(on)
      [] o = "PromoterAPIServerService" -> PromoterAPIServerService(on)
      [] o = "PromoterControllerClusterRole" -> PromoterControllerClusterRole(on)
      [] o = "PromoterAPIServerClusterRole" -> PromoterAPIServerClusterRole(on)
      [] o = "PromoterViewerClusterRole" -> PromoterViewerClusterRole(on)
      [] o = "PromoterControllerClusterRoleBinding" -> PromoterControllerClusterRoleBinding(on)
      [] o = "PromoterAPIServerClusterRoleBinding" -> PromoterAPIServerClusterRoleBinding(on)
      [] o = "PromoterAPIServerRoleBinding" -> PromoterAPIServerRoleBinding(on)
      [] o = "PromoterAPIService" -> PromoterAPIService(on)
      [] o = "PromoterControllerConfiguration" -> PromoterControllerConfiguration(on)
      [] OTHER -> RightsReconciler(o, on)
=============================================================================
