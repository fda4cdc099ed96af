---------------------------- MODULE MCInstance ----------------------------
EXTENDS Instance, OtherObjects

AllObjects == CoreNames \cup AccessNames \cup AddonNames \cup RightsNames \cup AgentNames
                  \cup OtherNames

\* Two disturbances for one object of each sort of reconciler, one for the others.
Sorts == {"RedisService", "ControllerStatefulSet", "ServerHPA", "DexService",
          "NotificationsRole", "ManagedControllerRole", "ManagedControllerRoleBinding",
          "NotificationsRoleBinding", "AppSetRoleBinding", "MetricsReadRole"}
Budget(o) == IF o \in Sorts THEN 2 ELSE 1

\* What the code is known not to do.
Departures(o, on) ==
    \/ o = "RedisHAAnnounceService"
    \/ o = "RepoDeployment" /\ "repoRemote" \in on /\ "redis" \notin on
    \/ o = "RedisStatefulSet" /\ {"redis", "ha", "redisRemote"} \subseteq on
    \/ o \in {"GrafanaService", "GrafanaRoute", "GrafanaIngress"} /\ "grafana" \in on
    \/ /\ o \in {"NotificationsMetricsService", "NotificationsServiceMonitor"}
       /\ "notif" \notin on
    \/ /\ o \in {"NotificationsClusterRole", "NotificationsClusterRoleBinding"}
       /\ on \cap NotifSwitches = {}
    \/ /\ o \in {"AppSetSourceRole", "AppSetSourceRoleBinding", "NotificationsSourceRole",
                 "NotificationsSourceRoleBinding", "NotificationsSourceConfigurationCR"}
       /\ "managedByAny" \in on
    \/ o = "PromoterControllerClusterRole" /\ "customPromoter" \in on
    \/ o = "PromoterAPIServerClusterRole" /\ "customPromoterAPI" \in on
    \/ o = "Dashboard" /\ "metricsOff" \in on
    \/ o = "ExportVolume" /\ ("localStorage" \notin on \/ "completed" \in on)
    \/ o = "ExportJob" /\ "schedule" \in on
    \/ o = "ExportCronJob" /\ "schedule" \notin on
CreatedOnly(o, f) ==
    <<o, f>> \in {<<"RedisStatefulSet", "hook">>, <<"CommitServerDeployment", "nodes">>,
                  <<"NotificationsDeployment", "nodes">>, <<"KnownHostsConfigMap", "data">>,
                  <<"TLSCertsConfigMap", "data">>, <<"AppSetRoleBinding", "roleRef">>,
                  <<"ClusterRoleBinding", "roleRef">>,
                  <<"AppSetSourceRoleBinding", "roleRef">>,
                  <<"NotificationsSourceRoleBinding", "roleRef">>,
                  <<"ImageUpdaterNamespaceRoleBinding", "roleRef">>}
        \cup {"PrincipalRoleBinding", "AgentRoleBinding", "PrincipalClusterRoleBinding",
              "AgentClusterRoleBinding"} \X {"roleRef"}
        \cup {"PrincipalDeployment", "AgentDeployment", "PromoterControllerDeployment",
              "PromoterAPIServerDeployment"} \X {"selector"}
        \cup {"GRPCIngress", "AppSetIngress"} \X ServerIngressInputs
        \cup {"ExportJob", "ExportCronJob"} \X ExportPod \cup {<<"ExportVolume", "spec">>}

\* With these exceptions the reconcilers are what the theorems of InstanceProofs
\* ask for.
ASSUME CatalogueAssumption ==
    Objects = AllObjects => HonestCatalogue /\ ThoroughCatalogue

\* getApplicationControllerReplicaCount, for small numbers and nonsensical ones:
\* the count is the greatest that the bounds allow and the clusters fill, and
\* if they fill not even the least, the least.
Shardings == [dynamic : BOOLEAN, enabled : BOOLEAN, replicas : {0, 2}, minShards : -1..2,
              maxShards : -1..3, perShard : -1..2]
Sensible(n, least) == IF n < least THEN least ELSE n
ASSUME ReplicasAssumption ==
    \A s \in Shardings, clusters \in 0..5 :
        LET least  == Sensible(s.minShards, 1)
            bounds == least..Sensible(s.maxShards, least)
            filled == {n \in bounds : n * Sensible(s.perShard, 1) <= clusters} \cup {least}
        IN  /\ s.dynamic => ControllerReplicas(s, clusters) = CHOOSE n \in filled :
                                                                \A k \in filled : k <= n
            /\ ~s.dynamic => ControllerReplicas(s, clusters) =
                               IF s.enabled THEN Sensible(s.replicas, 1) ELSE 1
            /\ s.dynamic => ControllerReplicas(s, Unlisted) = 1
===========================================================================
