---------------------------- MODULE AddonObjects ----------------------------
(***************************************************************************)
(* The objects of the optional controllers of an Argo CD instance:         *)
(* ApplicationSet, notifications and the image updater, with the RBAC they *)
(* get in the namespace of the instance, in other namespaces and in the    *)
(* whole cluster.                                                          *)
(***************************************************************************)
EXTENDS AccessObjects

-----------------------------------------------------------------------------
(* ApplicationSet *)

AppSetCommandInputs   == {"command"}
AppSetContainerInputs == {"image", "pull", "env", "mounts", "resources"}
AppSetPodInputs       == {"volumes", "annotations", "labels", "priority"}
\* Compared as a whole (identifyDeploymentDifference), then written back; the
\* security context of the pod is not among it.
AppSetDeploymentDifference ==
    {"image", "pull", "env", "mounts", "resources", "command", "volumes", "account",
     "labels", "selector", "nodes", "security", "priority", "annotations"}
AppSetDeployment(on) ==
    Reconciler("Deployment", AppSetSwitches, AppSetOn(on),
               DeploymentBase \cup AppSetCommandInputs \cup AppSetContainerInputs
                   \cup AppSetPodInputs, AppSetDeploymentDifference)

AppSetServiceAccount(on) ==
    [ServiceAccount(AppSetSwitches, AppSetOn(on), on) EXCEPT !.tolerant = TRUE]
AppSetRole(on) ==
    [Reconciler("Role", AppSetSwitches, AppSetOn(on), {}, {"rules"})
     EXCEPT !.tolerant = TRUE]
\* Always updated, with a roleRef the API server does not let anybody change.
AppSetRoleBinding(on) ==
    [Reconciler("RoleBinding", AppSetSwitches, AppSetOn(on), {}, {"subjects"})
     EXCEPT !.refused = {"roleRef"}]
AppSetService(on) == Reconciler("Service", AppSetSwitches, AppSetOn(on), {}, {})

AppSetClusterWide(on) == AppSetOn(on) /\ "clusterConfig" \in on
AppSetClusterRole(on) ==
    [Reconciler("ClusterRole", AppSetSwitches \cup {"clusterConfig"},
                AppSetClusterWide(on), {}, {"rules"})
     EXCEPT !.tolerant = TRUE]
AppSetClusterRoleBinding(on) ==
    [Reconciler("ClusterRoleBinding", AppSetSwitches \cup {"clusterConfig"},
                AppSetClusterWide(on), {}, {"subjects"})
     EXCEPT !.drops = {"roleRef"}, !.tolerant = TRUE,
            !.trips = IF AppSetClusterWide(on) THEN {"roleRef"} ELSE {}]

\* In a source namespace, for as long as applications may be there too.  Nothing
\* there is owned, an error of the clean-up is logged, and enabled: false is not
\* looked at.  A namespace some instance manages is skipped but not cleaned up.
SourceReads(switches) == switches \cup {"source", "clusterConfig", "managedByAny"}
InSource(kind, switches, repairs, on) ==
    LET kept == switches \cup {"source", "clusterConfig"} \subseteq on
        made == kept /\ "managedByAny" \notin on
    IN  [Reconciler(kind, SourceReads(switches), made, {}, IF made THEN repairs ELSE {})
         EXCEPT !.keep = kept, !.owned = FALSE, !.swallowed = ~kept]
AppSetSourceRole(on) == InSource("Role", {"appset", "appsetSource"}, {"rules"}, on)
AppSetSourceRoleBinding(on) ==
    LET r == InSource("RoleBinding", {"appset", "appsetSource"}, {"subjects"}, on)
    IN  [r EXCEPT !.drops = IF r.make THEN {"roleRef"} ELSE {}]

-----------------------------------------------------------------------------
(* Notifications.  With an empty section ("notifOther" says that there is     *)
(* something in it) the reconcilers are not called; then only the predicate of *)
(* the watch deletes.                                                        *)

NotifSwitches == {"notif", "notifOther"}
Visited(on)   == on \cap NotifSwitches # {}
Notification(r, on)       == [r EXCEPT !.visited = Visited(on)]
PurgedNotification(r, on) == [r EXCEPT !.visited = Visited(on), !.purged = {"notif"}]

NotificationsServiceAccount(on) ==
    PurgedNotification(ServiceAccount(NotifSwitches, "notif" \in on, on), on)
NotificationsRole(on) ==
    PurgedNotification(Reconciler("Role", NotifSwitches, "notif" \in on, {}, {"rules"}), on)
NotificationsRoleBinding(on) ==
    [PurgedNotification(Reconciler("RoleBinding", NotifSwitches, "notif" \in on, {},
                                   {"subjects"}), on)
     EXCEPT !.drops = {"roleRef"}]
NotificationsConfigurationCR(on) ==
    PurgedNotification(Reconciler("NotificationsConfiguration", NotifSwitches,
                                  "notif" \in on, {}, {}), on)
NotificationsSecret(on) ==
    PurgedNotification(Reconciler("Secret", NotifSwitches, "notif" \in on, {}, {}), on)

\* reconcileDeploymentHelper, for the deployments that use it.
HelperFields ==
    PodFields \cup {"command", "replicas", "account", "args", "labels", "selector"}
NotificationsCommand == {"command"}
NotificationsDeploymentInputs ==
    DeploymentBase \cup NotificationsCommand
        \cup {"image", "pull", "resources", "env", "priority"}
\* The existing deployment is read into the desired one, so what the builder has
\* put there before is compared with itself.
NotificationsDeployment(on) ==
    PurgedNotification(
        Reconciler("Deployment", NotifSwitches, "notif" \in on,
                   NotificationsDeploymentInputs,
                   HelperFields \ {"nodes", "labels", "selector", "replicas"}), on)

NotificationsClusterRole(on) ==
    Notification(Reconciler("ClusterRole", NotifSwitches \cup {"clusterConfig"},
                            {"notif", "clusterConfig"} \subseteq on, {}, {"rules"}), on)
NotificationsClusterRoleBinding(on) ==
    Notification(Reconciler("ClusterRoleBinding", NotifSwitches \cup {"clusterConfig"},
                            {"notif", "clusterConfig"} \subseteq on, {},
                            {"subjects", "roleRef"}), on)

\* Made whenever the reconciler is called, and never deleted.
NotificationsMetricsService(on) ==
    [Notification(Reconciler("Service", NotifSwitches, "notif" \in on, {}, {}), on)
     EXCEPT !.keep = TRUE, !.make = TRUE]
NotificationsServiceMonitor(on) ==
    [Reconciler("ServiceMonitor", NotifSwitches \cup {"promAPI"},
                {"notif", "promAPI"} \subseteq on, MonitorFields, MonitorFields)
     EXCEPT !.visited = Visited(on) /\ "promAPI" \in on, !.keep = TRUE, !.make = TRUE,
            !.owned = FALSE]

\* As for ApplicationSets, and called while there is such a namespace.
NotificationsSourceRole(on) == InSource("Role", {"notif", "notifSource"}, {"rules"}, on)
NotificationsSourceRoleBinding(on) ==
    LET r == InSource("RoleBinding", {"notif", "notifSource"}, {"subjects"}, on)
    IN  [r EXCEPT !.drops = IF r.make THEN {"roleRef"} ELSE {}]

NotificationsSourceConfigurationCR(on) ==
    InSource("NotificationsConfiguration", {"notif", "notifSource"}, {}, on)

-----------------------------------------------------------------------------
(* The image updater, where the cluster has its API *)

UpdaterSwitches == {"updater", "updaterAPI"}
\* Otherwise reconcileImageUpdaterControllerDisabled deletes all of them.
UpdaterOn(on) == UpdaterSwitches \subseteq on
\* IMAGE_UPDATER_WATCH_NAMESPACES: "watchAll" is "*", "watchList" a list.  "*" is
\* an error outside the namespaces of cluster-scoped instances.
ClusterWatch == UpdaterSwitches \cup {"watchAll", "clusterConfig"}
MisplacedWatch(on) == on \cap ClusterWatch = ClusterWatch \ {"clusterConfig"}

ImageUpdaterServiceAccount(on) ==
    [ServiceAccount(UpdaterSwitches, UpdaterOn(on), on)
     EXCEPT !.visited = "updaterAPI" \in on]
Updater(r, on) ==
    [r EXCEPT !.reads = @ \cup ClusterWatch, !.visited = "updaterAPI" \in on,
              !.blocked = MisplacedWatch(on)]

\* reconcileRoleHelper and reconcileRoleBindingHelper
UpdaterRole(kind, reads, wanted, on) ==
    Updater(Reconciler(kind, reads \cup UpdaterSwitches, wanted, {"rules"}, {"rules"}), on)
UpdaterRoleBinding(kind, reads, wanted, on) ==
    [Updater(Reconciler(kind, reads \cup UpdaterSwitches, wanted, {}, {"subjects"}), on)
     EXCEPT !.drops = {"roleRef"}]

ImageUpdaterRole(on) == UpdaterRole("Role", {}, UpdaterOn(on), on)
ImageUpdaterRoleBinding(on) ==
    UpdaterRoleBinding("RoleBinding", {}, UpdaterOn(on), on)

ImageUpdaterClusterRole(on) ==
    [UpdaterRole("ClusterRole", {"watchAll", "clusterConfig"}, ClusterWatch \subseteq on, on)
     EXCEPT !.tolerant = UpdaterOn(on)]
ImageUpdaterClusterRoleBinding(on) ==
    [UpdaterRoleBinding("ClusterRoleBinding", {"watchAll", "clusterConfig"},
                        ClusterWatch \subseteq on, on)
     EXCEPT !.tolerant = UpdaterOn(on)]
ListWatch(on) == /\ UpdaterSwitches \cup {"watchList"} \subseteq on
                 /\ "watchAll" \notin on
ImageUpdaterNamespaceRole(on) ==
    [UpdaterRole("Role", {"watchAll", "watchList"}, ListWatch(on), on)
     EXCEPT !.owned = FALSE, !.tolerant = ~ListWatch(on)]
ImageUpdaterNamespaceRoleBinding(on) ==
    [UpdaterRoleBinding("RoleBinding", {"watchAll", "watchList"}, ListWatch(on), on)
     EXCEPT !.owned = FALSE, !.tolerant = ~ListWatch(on)]

\* reconcileSecretConfigMapHelper: users fill them in.
ImageUpdaterSecret(on) ==
    Updater(Reconciler("Secret", UpdaterSwitches, UpdaterOn(on), {}, {}), on)
ImageUpdaterConfigMap(on) ==
    Updater(Reconciler("ConfigMap", UpdaterSwitches, UpdaterOn(on), {}, {}), on)

ImageUpdaterPodInputs == {"image", "pull", "resources", "env", "args", "priority"}
ImageUpdaterDeployment(on) ==
    Updater(Reconciler("Deployment", UpdaterSwitches, UpdaterOn(on),
                       DeploymentBase \cup ImageUpdaterPodInputs, HelperFields), on)

-----------------------------------------------------------------------------
(* The reconcilers by the names of their objects. *)

AddonNames ==
    {"AppSetDeployment", "AppSetServiceAccount", "AppSetRole",
     "AppSetRoleBinding", "AppSetService", "AppSetClusterRole",
     "AppSetClusterRoleBinding", "AppSetSourceRole",
     "AppSetSourceRoleBinding", "NotificationsServiceAccount",
     "NotificationsRole", "NotificationsRoleBinding",
     "NotificationsConfigurationCR", "NotificationsSecret",
     "NotificationsDeployment", "NotificationsClusterRole",
     "NotificationsClusterRoleBinding", "NotificationsMetricsService",
     "NotificationsServiceMonitor", "NotificationsSourceRole",
     "NotificationsSourceRoleBinding", "NotificationsSourceConfigurationCR",
     "ImageUpdaterServiceAccount", "ImageUpdaterRole",
     "ImageUpdaterRoleBinding", "ImageUpdaterClusterRole",
     "ImageUpdaterClusterRoleBinding", "ImageUpdaterNamespaceRole",
     "ImageUpdaterNamespaceRoleBinding", "ImageUpdaterSecret",
     "ImageUpdaterConfigMap", "ImageUpdaterDeployment"}
AddonReconciler(o, on) ==
    CASE o = "AppSetDeployment" -> AppSetDeployment(on)
      [] o = "AppSetServiceAccount" -> AppSetServiceAccount(on)
      [] o = "AppSetRole" -> AppSetRole(on)
      [] o = "AppSetRoleBinding" -> AppSetRoleBinding(on)
      [] o = "AppSetService" -> AppSetService(on)
      [] o = "AppSetClusterRole" -> AppSetClusterRole(on)
      [] o = "AppSetClusterRoleBinding" -> AppSetClusterRoleBinding(on)
      [] o = "AppSetSourceRole" -> AppSetSourceRole(on)
      [] o = "AppSetSourceRoleBinding" -> AppSetSourceRoleBinding(on)
      [] o = "NotificationsServiceAccount" -> NotificationsServiceAccount(on)
      [] o = "NotificationsRole" -> NotificationsRole(on)
      [] o = "NotificationsRoleBinding" -> NotificationsRoleBinding(on)
      [] o = "NotificationsConfigurationCR" -> NotificationsConfigurationCR(on)
      [] o = "NotificationsSecret" -> NotificationsSecret(on)
      [] o = "NotificationsDeployment" -> NotificationsDeployment(on)
      [] o = "NotificationsClusterRole" -> NotificationsClusterRole(on)
      [] o = "NotificationsClusterRoleBinding" -> NotificationsClusterRoleBinding(on)
      [] o = "NotificationsMetricsService" -> NotificationsMetricsService(on)
      [] o = "NotificationsServiceMonitor" -> NotificationsServiceMonitor(on)
      [] o = "NotificationsSourceRole" -> NotificationsSourceRole(on)
      [] o = "NotificationsSourceRoleBinding" -> NotificationsSourceRoleBinding(on)
      [] o = "NotificationsSourceConfigurationCR" -> NotificationsSourceConfigurationCR(on)
      [] o = "ImageUpdaterServiceAccount" -> ImageUpdaterServiceAccount(on)
      [] o = "ImageUpdaterRole" -> ImageUpdaterRole(on)
      [] o = "ImageUpdaterRoleBinding" -> ImageUpdaterRoleBinding(on)
      [] o = "ImageUpdaterClusterRole" -> ImageUpdaterClusterRole(on)
      [] o = "ImageUpdaterClusterRoleBinding" -> ImageUpdaterClusterRoleBinding(on)
      [] o = "ImageUpdaterNamespaceRole" -> ImageUpdaterNamespaceRole(on)
      [] o = "ImageUpdaterNamespaceRoleBinding" -> ImageUpdaterNamespaceRoleBinding(on)
      [] o = "ImageUpdaterSecret" -> ImageUpdaterSecret(on)
      [] o = "ImageUpdaterConfigMap" -> ImageUpdaterConfigMap(on)
      [] o = "ImageUpdaterDeployment" -> ImageUpdaterDeployment(on)
      [] OTHER -> AccessReconciler(o, on)
=============================================================================
