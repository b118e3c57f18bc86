------------------------- MODULE WorkloadProviders -------------------------
(***************************************************************************)
(* The providers of what an app runs: deployments, scheduled jobs and the  *)
(* jobs of invocations, their sidecars, and metrics.                       *)
(***************************************************************************)
EXTENDS WebProviders, EnvVars

Unnamed(ics) == Len(ics) > 1 /\ \E ic \in ToSet(ics) : ic.name = ""
ProcessInitContainers(nn, vars, ics) ==
    [i \in 1..Len(ics) |-> [name |-> IF ics[i].name = "" THEN nn[2] ELSE <<ics[i].name>>,
                            env |-> InitVars(ics[i], vars)]]

----------------------------------------------------------------------------
(* Deployments *)

\* mutant: not for the deprecated "web: true"
setLocalAnnotations_Public(app, env, d) ==
    IF env.web.mode = "local" /\ d.public THEN Sidecar(env, env.web.port, <<"caddy-config", app.name, d.name>>)
    ELSE NoData

setLocalAnnotations(app, env, d) ==
    IF env.web.mode = "local" /\ Exposed(d) THEN Sidecar(env, env.web.port, <<"caddy-config", app.name, d.name>>)
    ELSE NoData

\* mutant: whether there is an autoscaler is not asked
setMinReplicas_Always(count, autoscaler, current) == IF count = -1 THEN current ELSE count

\* -1: no count; with an autoscaler a larger number of replicas is left alone
setMinReplicas(count, autoscaler, current) ==
    CASE count = -1 -> current
      [] count = 0 -> 0
      [] count > 0 /\ current >= count /\ autoscaler -> current
      [] OTHER -> count

setDeploymentStrategy(d) == IF ~d.public /\ d.strategy # "" THEN d.strategy ELSE "RollingUpdate"
setRecreateDeploymentStrategyForPVCs(d) ==
    IF \E u \in d.volumes : u[1] = "PVC" THEN "Recreate" ELSE setDeploymentStrategy(d)

\* annotations are merged into those of the object as it was read
initDeployment(app, env, d, old) ==
    LET nn == DeploymentNN(app, d)
    IN  Deployment(app, "pod" :> nn[2] @@ GetLabels(app),
            [uses |-> d.volumes \union Mounted("Secret", <<app.name>>),
             anno |-> setLocalAnnotations(app, env, d) @@ (IF old = Missing THEN NoData ELSE old.anno),
             replicas |-> setMinReplicas(d.replicas, d.autoscaler # "none", IF old = Missing THEN 1 ELSE old.replicas),
             strategy |-> setRecreateDeploymentStrategyForPVCs(d),
             vars |-> loadEnvVars(d.env), init |-> ProcessInitContainers(nn, loadEnvVars(d.env), d.initContainers)])

makeDeployment(s, c, d) ==
    LET id == CoreDeployment(s.app, d)
    IN  IF Unnamed(d.initContainers) THEN Err(s, "init containers must have name")
        ELSE Put(s, c, id, initDeployment(s.app, s.env, d, Read(c, id)))

DeploymentProvide(s, c) ==
    LET step(t, d) == IfOk(t, makeDeployment(t, c, d))
    IN  FoldLeft(step, PossibleGVKs(s, {"Deployment"}), s.app.deployments)

----------------------------------------------------------------------------
(* Scheduled jobs, and the jobs an invocation runs *)

GetCronJobName(app, job) == <<app.ns, <<app.name, job.name>>>>
Scheduled(app) == {job \in ToSet(app.jobs) : job.schedule # "" /\ ~job.disabled}

\* the fields of the pods of any job
JobPods(app, env, nn, job) ==
    [ports |-> {env.metrics.port}, uses |-> job.volumes \union Mounted("Secret", <<app.name>>),
     sa |-> GetClowdSAName(app), vars |-> loadEnvVars(job.env),
     init |-> ProcessInitContainers(nn, loadEnvVars(job.env), job.initContainers)]

buildPodTemplate(app, env, nn, job) ==
    Deployment(app, "pod" :> nn[2] @@ GetLabels(app), JobPods(app, env, nn, job))

applyCronJob(app, env, nn, job) ==
    [concurrency |-> IF job.concurrency = "" THEN "Allow" ELSE job.concurrency, schedule |-> job.schedule]
      @@ buildPodTemplate(app, env, nn, job)

\* mutant: the kind is not registered
CronJobProvide_Unregistered(s, c) ==
    LET jobs == Scheduled(s.app)
        JobOf(id) == CHOOSE j \in jobs : id = Id("CronJob", GetCronJobName(s.app, j))
    IN  IF \E j \in jobs : Unnamed(j.initContainers) THEN Err(s, "init containers must have name")
        ELSE PutAll(s, c, [id \in {Id("CronJob", GetCronJobName(s.app, j)) : j \in jobs} |->
                              applyCronJob(s.app, s.env, <<id[2], id[3]>>, JobOf(id))])

CronJobProvide(s, c) ==
    LET t == PossibleGVKs(s, {"CronJob"})
        jobs == Scheduled(s.app)
        JobOf(id) == CHOOSE j \in jobs : id = Id("CronJob", GetCronJobName(s.app, j))
    IN  IF \E j \in jobs : Unnamed(j.initContainers) THEN Err(t, "init containers must have name")
        ELSE PutAll(t, c, [id \in {Id("CronJob", GetCronJobName(s.app, j)) : j \in jobs} |->
                              applyCronJob(s.app, s.env, <<id[2], id[3]>>, JobOf(id))])

\* the certificates only if TLS is enabled for the whole environment
CreateJobResource(cji, env, app, nn, job) ==
    LET pods == Deployment(cji, [job |-> <<job.name>>, clowdjob |-> cji.name], JobPods(app, env, nn, job))
    IN  IF env.web.tls.enabled THEN AddCertVolume(pods) ELSE pods

----------------------------------------------------------------------------
(* Sidecars *)

\* the app's value, else the environment's, else the default
Prefer(own, given, default) == IF own # "" THEN own ELSE IF given # "" THEN given ELSE default
GetOtelCollectorSidecar(env, sidecar) == Prefer(sidecar.image, env.sidecars.otel.image, "default")
GetOtelCollectorConfigMap(env, sidecar) == Prefer(sidecar.configMap, env.sidecars.otel.configMap, "otel-config")

getTokenRefresher(app, pods) ==
    [pods EXCEPT !.uses = @ \union FromSecret(<<app.name, "token-refresher">>,
                                              {"CLIENT_ID", "CLIENT_SECRET", "ISSUER_URL", "SCOPE", "URL"})]

\* an init container that keeps running; its ConfigMap is optional
getOtelCollector(env, sidecar, pods) ==
    [pods EXCEPT !.init = Append(@, [name |-> <<"otel-collector">>,
                                     env |-> MergeEnvVars(env.sidecars.otel.env, sidecar.env),
                                     image |-> GetOtelCollectorSidecar(env, sidecar),
                                     config |-> GetOtelCollectorConfigMap(env, sidecar)])]

AddSidecars(app, env, pods, sidecars) ==
    LET step(p, sidecar) ==
            CASE sidecar.name = "token-refresher" /\ sidecar.enabled /\ env.sidecars.tokenRefresher ->
                   getTokenRefresher(app, p)
              [] sidecar.name = "otel-collector" /\ sidecar.enabled /\ env.sidecars.otel.enabled ->
                   getOtelCollector(env, sidecar, p)
              [] OTHER -> p
    IN  FoldLeft(step, pods, sidecars)
KnownSidecars(sidecars) == \A sidecar \in ToSet(sidecars) : sidecar.name \in {"token-refresher", "otel-collector"}

SidecarProvide(s, c) ==
    LET step(t, d) ==
            LET id == CoreDeployment(s.app, d)
            IN  IfOk(t, IF ~KnownSidecars(d.sidecars) THEN Err(t, "not a valid sidecar name")
                        ELSE Put(t, c, id, AddSidecars(s.app, s.env, t.objs[id], d.sidecars)))
        deployments == FoldLeft(step, s, s.app.deployments)
        jobs == Scheduled(s.app)
        JobOf(id) == CHOOSE j \in jobs : id = Id("CronJob", GetCronJobName(s.app, j))
    IN  IF deployments.err # "" THEN deployments
        ELSE IF \E j \in jobs : ~KnownSidecars(j.sidecars) THEN Err(deployments, "not a valid sidecar name")
        ELSE PutAll(deployments, c,
                [id \in CoreCronJobs(s) |-> AddSidecars(s.app, s.env, s.objs[id], JobOf(id).sidecars)])

----------------------------------------------------------------------------
(* Metrics *)

\* a port of the Service and of the app's container
makeMetrics(s, c, d) ==
    LET dep == CoreDeployment(s.app, d)
        svc == Id("Service", DeploymentNN(s.app, d))
        port == s.env.metrics.port
    IN  IF {svc, dep} \subseteq DOMAIN s.objs
        THEN PutAll(s, c, svc :> [s.objs[svc] EXCEPT !.ports = @ \union {Port("metrics", port)}]
                            @@ dep :> [s.objs[dep] EXCEPT !.ports = @ \union {port}])
        ELSE Err(s, "not found")

createMetricsOnDeployments(s, c) ==
    LET step(t, d) == IfOk(t, makeMetrics(t, c, d))
    IN  FoldLeft(step, Configure(s, "metrics", s.env.metrics.port), s.app.deployments)

\* owned by the environment
createServiceMonitorObjects(s, c, label, namespace) ==
    LET step(t, d) ==
            IfOk(t, Put(t, c, Id("ServiceMonitor", <<namespace, <<s.app.name, d.name>>>>),
                        Meta(s.env, [prometheus |-> label] @@ GetLabels(s.env))
                          @@ [ns |-> s.app.ns, sel |-> "pod" :> <<s.app.name, d.name>>, port |-> "metrics"]))
    IN  FoldLeft(step, s, s.app.deployments)

createPrometheusRoleBinding(s, c) ==
    Put(s, c, <<"RoleBinding", s.app.ns, <<s.app.name>>>>,
        Meta(s.app, GetLabels(s.app)) @@ [subject |-> <<s.env.ns, <<"prometheus">>>>, role |-> "clowder-prometheus"])

createPrometheusServiceAccount(env) == [pull |-> {}] @@ Meta(env, GetLabels(env))
createSubscription(env) == Meta(env, [env |-> env.name] @@ GetLabels(env))

GatewayLabels(env) == [app |-> "prometheus-gateway", env |-> env.name]
createPrometheusGatewayDeployment(env) ==
    Deployment(env, GatewayLabels(env), [ports |-> {9091}, image |-> Image(env, "prometheusGateway")])
createPrometheusGatewayService(env) ==
    Meta(env, GatewayLabels(env)) @@ [sel |-> GatewayLabels(env), ports |-> {Port("http", 9091)}]
createPrometheusGatewayServiceMonitor(env) ==
    Meta(env, [prometheus |-> env.name] @@ GetLabels(env)) @@ [ns |-> env.ns, sel |-> GatewayLabels(env), port |-> "http"]

createPrometheusGateway(s, c) ==
    LET nn == GetNamespacedName(s.env, "prometheus-gateway")
    IN  PutAll(s, c,
            Id("Deployment", nn) :> createPrometheusGatewayDeployment(s.env)
              @@ Id("Service", nn) :> createPrometheusGatewayService(s.env)
              @@ (IF s.env.metrics.monitors
                  THEN Id("ServiceMonitor", nn) :> createPrometheusGatewayServiceMonitor(s.env) ELSE NoData))

OperatorMetricsEnvProvide(s, c) ==
    LET prometheus == PutAll(s, c,
            <<"ServiceAccount", s.env.ns, <<"prometheus">>>> :> createPrometheusServiceAccount(s.env)
              @@ <<"Prometheus", s.env.ns, <<s.env.name>>>> :>
                    (Meta(s.env, [env |-> s.env.name] @@ GetLabels(s.env)) @@ [sel |-> [prometheus |-> s.env.name]])
              @@ <<"Subscription", s.env.ns, <<"prometheus">>>> :> createSubscription(s.env))
    IN  IF ~s.env.metrics.deploy THEN s
        ELSE IF s.env.metrics.gateway THEN createPrometheusGateway(prometheus, c) ELSE prometheus

\* the address of the gateway is given out whether or not the environment deploys Prometheus
OperatorMetricsProvide(s, c) ==
    LET ports == createMetricsOnDeployments(s, c)
        told == IF ~s.env.metrics.gateway THEN ports
                ELSE Configure(ports, "prometheusGateway",
                               [hostname |-> Host(GetNamespacedName(s.env, "prometheus-gateway")), port |-> 9091])
    IN  IfOk(ports, IF ~s.env.metrics.monitors THEN told
                    ELSE createPrometheusRoleBinding(
                            createServiceMonitorObjects(told, c, s.env.name, s.env.ns), c))

AppInterfaceMetricsProvide(s, c) ==
    LET ports == createMetricsOnDeployments(s, c)
    IN  IfOk(ports, IF ~s.env.metrics.monitors THEN ports
                    ELSE createServiceMonitorObjects(ports, c, "app-sre", "openshift-customer-monitoring"))

MetricsKinds ==
    {"Subscription", "Prometheus", "Role", "RoleBinding", "ServiceAccount", "Deployment", "Service", "ServiceMonitor"}

MetricsProvide(s, c) ==
    LET t == PossibleGVKs(s, {"ServiceMonitor"})
    IN  CASE s.env.metrics.mode = "operator" -> OperatorMetricsProvide(PossibleGVKs(t, MetricsKinds), c)
          [] s.env.metrics.mode = "app-interface" -> AppInterfaceMetricsProvide(t, c)
          [] OTHER -> createMetricsOnDeployments(t, c)
MetricsEnvProvide(s, c) ==
    IF s.env.metrics.mode = "operator" THEN OperatorMetricsEnvProvide(PossibleGVKs(s, MetricsKinds), c)
    ELSE PossibleGVKs(s, {"ServiceMonitor"})
=============================================================================
