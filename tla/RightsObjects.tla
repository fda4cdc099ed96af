--------------------------- MODULE RightsObjects ---------------------------
(***************************************************************************)
(* Roles, RoleBindings and Secrets of an Argo CD instance: in its own      *)
(* namespace, in a namespace labelled as managed by it, and in the whole   *)
(* cluster.                                                                *)
(***************************************************************************)
EXTENDS AddonObjects

-----------------------------------------------------------------------------
(* Roles.  A role of a disabled component is deleted, and then compared and  *)
(* updated as if it were there: the pass fails and the next one skips it.    *)

Role(reads, used) ==
    [Reconciler("Role", reads, used, {}, {"rules"}) EXCEPT !.trips = {"rules"}]
\* A ClusterRole named by the operator's installation takes the place of the
\* roles of the controller and of the server.
CustomisableRole(component, custom, on) ==
    [Role({component, custom}, component \in on /\ custom \notin on)
     EXCEPT !.trips = IF component \in on THEN {}
                      ELSE {"rules"} \cup (IF custom \in on THEN {"none"} ELSE {})]

ControllerRole(on) == CustomisableRole("controller", "customController", on)
\* The web terminal needs one rule more.
ServerRole(on) ==
    [CustomisableRole("server", "customServer", on) EXCEPT !.follows = {"rules"}]
RedisRole(on)      == Role({"redis"}, "redis" \in on)
RedisHARole(on)    == Role({}, TRUE)
CommitServerRole(on) == Role({"commit"}, "commit" \in on)
DexRole(on) == Reconciler("Role", {"dex"}, "dex" \in on, {}, {"rules"})

\* In a managed namespace there are only these two, nothing there is owned, and
\* when the label goes it is the predicate of the watch that deletes.
Managed(r, on) ==
    [r EXCEPT !.reads = @ \cup {"managed"}, !.wanted = @ /\ "managed" \in on,
              !.visited = "managed" \in on, !.owned = FALSE, !.purged = {"managed"},
              !.live = TRUE]
ManagedControllerRole(on) == Managed(ControllerRole(on), on)
ManagedServerRole(on)     == Managed(ServerRole(on), on)

-----------------------------------------------------------------------------
(* RoleBindings.  One with another roleRef is deleted and made again. *)

RoleBinding(reads, used) ==
    [Reconciler("RoleBinding", reads, used, {}, {"subjects"})
     EXCEPT !.replaces = {"roleRef"}]
\* Which role is bound depends on the operator's installation: both versions of
\* the roleRef are legitimate, one at a time.
CustomisableBinding(component, on) ==
    [RoleBinding({component}, component \in on) EXCEPT !.follows = {"roleRef"}]

ControllerRoleBinding(on) == CustomisableBinding("controller", on)
ServerRoleBinding(on)     == CustomisableBinding("server", on)
RedisRoleBinding(on)      == RoleBinding({"redis"}, "redis" \in on)
RedisHARoleBinding(on)    == RoleBinding({}, TRUE)
CommitServerRoleBinding(on) == RoleBinding({"commit"}, "commit" \in on)
DexRoleBinding(on)        == RoleBinding({"dex"}, "dex" \in on)
ManagedControllerRoleBinding(on) == Managed(ControllerRoleBinding(on), on)
ManagedServerRoleBinding(on)     == Managed(ServerRoleBinding(on), on)

-----------------------------------------------------------------------------
(* Cluster-wide, for instances in the namespaces set aside for them.  The     *)
(* resource may aggregate the roles, or leave them to its user, not both.     *)

ClusterSwitches == {"clusterConfig", "userRoles", "aggregated"}
ModeConflict(on) == ClusterSwitches \subseteq on
ClusterWide(on)  == "clusterConfig" \in on /\ "userRoles" \notin on
ClusterRole(follows, repairs, on) ==
    [Reconciler("ClusterRole", ClusterSwitches, ClusterWide(on), follows, repairs)
     EXCEPT !.blocked = ModeConflict(on)]

AggregationFields == {"aggregationRule", "annotations"}
DefaultRuleFields(on) == IF "aggregated" \in on THEN {} ELSE {"rules"}
ControllerClusterRole(on) ==
    ClusterRole(AggregationFields, AggregationFields \cup DefaultRuleFields(on), on)
ServerClusterRole(on) == ClusterRole({}, DefaultRuleFields(on), on)

\* The two roles that are aggregated into the controller's.
AggregatedRole(repairs, on) ==
    [ClusterRole({}, repairs, on)
     EXCEPT !.wanted = ClusterWide(on) /\ "aggregated" \in on,
            !.keep   = ClusterWide(on) /\ "aggregated" \in on,
            !.make   = ClusterWide(on) /\ "aggregated" \in on]
ControllerViewClusterRole(on)  == AggregatedRole({"labels"}, on)
ControllerAdminClusterRole(on) == AggregatedRole({"labels", "aggregationRule"}, on)

\* Always updated, with a roleRef the API server does not let anybody change.
ClusterRoleBinding(on) ==
    [Reconciler("ClusterRoleBinding", ClusterSwitches, ClusterWide(on), {}, {"subjects"})
     EXCEPT !.refused = {"roleRef"}, !.blocked = ModeConflict(on)]

-----------------------------------------------------------------------------
(* Secrets *)

GeneratedSecret == Reconciler("Secret", {}, TRUE, {}, {})
ClusterMainSecret(on) == GeneratedSecret
ClusterTLSSecret(on)  == GeneratedSecret
\* The name of the CA's Secret may collide with the certificate's.
ClusterCASecret(on) ==
    [GeneratedSecret EXCEPT !.reads = {"caConflict"}, !.blocked = "caConflict" \in on]
\* Rebuilt as a whole when one of its keys is missing.
RedisInitialPasswordSecret(on) == [GeneratedSecret EXCEPT !.repairs = {"keys"}]

\* argocd-secret follows the certificate, Dex and the webhooks.  The session key
\* is replaced in memory and written only along with something else.
ArgoSecretKeys(on) ==
    {"tls", "webhooks"} \cup (IF "dex" \in on THEN {"dexSecret"} ELSE {})
ArgoSecret(on) ==
    Reconciler("Secret", {"dex"}, TRUE, ArgoSecretKeys(on),
               ArgoSecretKeys(on) \cup {"adminPasswordKey"})

\* A copy of the one pull secret of the operator's namespace ("pullSecret"); two
\* of them are as good as none.
ImagePullSecret(on) ==
    LET apart == on \cap {"openshift", "operatorNamespace"} = {}
    IN  [Reconciler("Secret", {"openshift", "operatorNamespace", "pullSecret"},
                    "pullSecret" \in on, {"data"}, {"data"})
         EXCEPT !.wanted = "pullSecret" \in on /\ apart, !.visited = apart,
                !.tolerant = TRUE]

-----------------------------------------------------------------------------
(* The reconcilers by the names of their objects. *)

RightsNames ==
    {"ControllerRole", "ServerRole", "RedisRole", "RedisHARole",
     "CommitServerRole", "DexRole", "ManagedControllerRole",
     "ManagedServerRole", "ControllerRoleBinding", "ServerRoleBinding",
     "RedisRoleBinding", "RedisHARoleBinding", "CommitServerRoleBinding",
     "DexRoleBinding", "ManagedControllerRoleBinding",
     "ManagedServerRoleBinding", "ControllerClusterRole",
     "ServerClusterRole", "ControllerViewClusterRole",
     "ControllerAdminClusterRole", "ClusterRoleBinding",
     "ClusterMainSecret", "ClusterTLSSecret", "ClusterCASecret",
     "RedisInitialPasswordSecret", "ArgoSecret", "ImagePullSecret"}
RightsReconciler(o, on) ==
    CASE o = "ControllerRole" -> ControllerRole(on)
      [] o = "ServerRole" -> ServerRole(on)
      [] o = "RedisRole" -> RedisRole(on)
      [] o = "RedisHARole" -> RedisHARole(on)
      [] o = "CommitServerRole" -> CommitServerRole(on)
      [] o = "DexRole" -> DexRole(on)
      [] o = "ManagedControllerRole" -> ManagedControllerRole(on)
      [] o = "ManagedServerRole" -> ManagedServerRole(on)
      [] o = "ControllerRoleBinding" -> ControllerRoleBinding(on)
      [] o = "ServerRoleBinding" -> ServerRoleBinding(on)
      [] o = "RedisRoleBinding" -> RedisRoleBinding(on)
      [] o = "RedisHARoleBinding" -> RedisHARoleBinding(on)
      [] o = "CommitServerRoleBinding" -> CommitServerRoleBinding(on)
      [] o = "DexRoleBinding" -> DexRoleBinding(on)
      [] o = "ManagedControllerRoleBinding" -> ManagedControllerRoleBinding(on)
      [] o = "ManagedServerRoleBinding" -> ManagedServerRoleBinding(on)
      [] o = "ControllerClusterRole" -> ControllerClusterRole(on)
      [] o = "ServerClusterRole" -> ServerClusterRole(on)
      [] o = "ControllerViewClusterRole" -> ControllerViewClusterRole(on)
      [] o = "ControllerAdminClusterRole" -> ControllerAdminClusterRole(on)
      [] o = "ClusterRoleBinding" -> ClusterRoleBinding(on)
      [] o = "ClusterMainSecret" -> ClusterMainSecret(on)
      [] o = "ClusterTLSSecret" -> ClusterTLSSecret(on)
      [] o = "ClusterCASecret" -> ClusterCASecret(on)
      [] o = "RedisInitialPasswordSecret" -> RedisInitialPasswordSecret(on)
      [] o = "ArgoSecret" -> ArgoSecret(on)
      [] o = "ImagePullSecret" -> ImagePullSecret(on)
      [] OTHER -> AddonReconciler(o, on)
=============================================================================
