---------------------------- MODULE OtherObjects ----------------------------
(***************************************************************************)
(* The objects of three smaller controllers, each with a resource and a    *)
(* queue of its own: metrics of an Argo CD instance, the configuration of  *)
(* its notifications, and exports.                                         *)
(***************************************************************************)
EXTENDS AgentObjects

-----------------------------------------------------------------------------
(* Metrics.  The controller hears of nothing but ArgoCD resources.  With       *)
(* metrics it writes a label to the namespace and then makes what is missing;  *)
(* without them it deletes everything unseen, if it sees the label.            *)

MetricsOn(on) == "metricsOff" \notin on
MetricsObject(kind, on) ==
    [Reconciler(kind, {"metricsOff"}, MetricsOn(on), {}, {})
     EXCEPT !.owned = FALSE, !.gated = TRUE, !.blind = TRUE]
MetricsReadRole(on)        == MetricsObject("Role", on)
MetricsReadRoleBinding(on) == MetricsObject("RoleBinding", on)
\* One for the controller, the server and the repository server each.
ComponentServiceMonitor(on) == MetricsObject("ServiceMonitor", on)
\* The alert about applications out of sync, and the one about sync loops.
AlertRule(on)              == MetricsObject("PrometheusRule", on)

\* One for all instances, where the console shows dashboards; never deleted, and
\* an error is logged.
Dashboard(on) ==
    LET shown == MetricsOn(on) /\ "dashboards" \in on
    IN  [Reconciler("ConfigMap", {"metricsOff", "dashboards"}, shown, {}, {"data"})
         EXCEPT !.visited = shown, !.keep = TRUE, !.owned = FALSE, !.swallowed = TRUE]

-----------------------------------------------------------------------------
(* argocd-notifications-cm, from a NotificationsConfiguration *)

\* With a context, only the entries the resource has are compared; without one
\* the context counts as changed and everything is written.
NotificationsEntries == {"entries"}
NotificationsContext == {"context"}
NotificationsConfigMap(on) ==
    [Reconciler("ConfigMap", {"hasContext"}, TRUE, NotificationsEntries \cup NotificationsContext,
                NotificationsEntries \cup NotificationsContext)
     EXCEPT !.sticky = IF "hasContext" \in on THEN NotificationsEntries ELSE {}]

-----------------------------------------------------------------------------
(* Exports: a Secret with a key, a volume for local storage, and a Job, or a   *)
(* CronJob if the resource has a schedule.  Nothing is ever deleted.           *)

\* A key that is there is never changed: `Drift' is a Secret without one.
ExportSecret(on) == Reconciler("Secret", {}, TRUE, {}, {"backupKey"})
ExportVolume(on) ==
    LET wanted == "localStorage" \in on /\ "completed" \notin on
    IN  [Reconciler("PersistentVolumeClaim", {"localStorage", "completed"}, wanted,
                    {"spec"}, {}) EXCEPT !.keep = TRUE]
\* The pod is told the name of the one Argo CD of the namespace; with none or
\* several of them the creation is an error.
ExportPod == {"template"}
ExportWork(kind, wanted, follows, repairs, on) ==
    [Reconciler(kind, {"schedule", "oneInstance"}, wanted, follows \cup ExportPod, repairs)
     EXCEPT !.keep = TRUE, !.unmade = "oneInstance" \notin on]
ExportJob(on)     == ExportWork("Job", "schedule" \notin on, {}, {}, on)
ExportCronJob(on) ==
    ExportWork("CronJob", "schedule" \in on, {"schedule"}, {"schedule"}, on)

-----------------------------------------------------------------------------
(* The reconcilers by the names of their objects. *)

OtherNames ==
    {"MetricsReadRole", "MetricsReadRoleBinding", "ComponentServiceMonitor", "AlertRule",
     "Dashboard", "NotificationsConfigMap", "ExportSecret", "ExportVolume", "ExportJob",
     "ExportCronJob"}
OtherReconciler(o, on) ==
    CASE o = "MetricsReadRole" -> MetricsReadRole(on)
      [] o = "MetricsReadRoleBinding" -> MetricsReadRoleBinding(on)
      [] o = "ComponentServiceMonitor" -> ComponentServiceMonitor(on)
      [] o = "AlertRule" -> AlertRule(on)
      [] o = "Dashboard" -> Dashboard(on)
      [] o = "NotificationsConfigMap" -> NotificationsConfigMap(on)
      [] o = "ExportSecret" -> ExportSecret(on)
      [] o = "ExportVolume" -> ExportVolume(on)
      [] o = "ExportJob" -> ExportJob(on)
      [] o = "ExportCronJob" -> ExportCronJob(on)
      [] OTHER -> AgentReconciler(o, on)
=============================================================================
