-------------------------- MODULE SupportProviders --------------------------
(***************************************************************************)
(* The providers that run late: autoscalers, the reverse proxy, accounts,  *)
(* the mesh, logging, namespaces, pull secrets, and last of all the        *)
(* configuration Secret and its hash.                                      *)
(***************************************************************************)
EXTENDS WorkloadProviders

----------------------------------------------------------------------------
(* Autoscalers *)

\* no labels, and another name than the deployment's
makeHPA(app, d, target) ==
    Meta(app, NoData) @@ [target |-> target, min |-> d.scale.min, max |-> d.scale.max]

ProvideSimpleAutoScaler(s, c, d) ==
    LET nn == DeploymentNN(s.app, d)
    IN  IF CoreDeployment(s.app, d) \notin DOMAIN s.objs THEN Err(s, "no deployment")
        ELSE Put(s, c, <<"HPA", nn[1], nn[2] \o <<"hpa">>>>, makeHPA(s.app, d, nn[2]))

\* the address the trigger polls; the brokers must be in the configuration
getTriggerRoute(s, trigger) ==
    CASE trigger = "kafka" -> {<<b.host, b.port>> : b \in s.cfg["brokers"]}
      [] trigger = "prometheus" -> {<<s.env.prometheus, 9090>>}
      [] OTHER -> {}

initAutoScaler(s, d, target) ==
    Meta(s.app, "pod" :> target @@ GetLabels(s.app))
      @@ [target |-> target, min |-> IF d.scale.min = -1 THEN 1 ELSE d.scale.min,
          max |-> IF d.scale.max = -1 THEN 10 ELSE d.scale.max, polls |-> UNION {getTriggerRoute(s, t) : t \in d.scale.triggers}]

NilKafka == "nil kafka configuration"

\* without Kafka in the configuration a nil pointer is dereferenced, which ends the reconcile
makeAutoScalers(s, c, d) ==
    IF CoreDeployment(s.app, d) \notin DOMAIN s.objs THEN Err(s, "no deployment")
    ELSE IF "kafka" \in d.scale.triggers /\ "brokers" \notin DOMAIN s.cfg THEN Err(s, NilKafka)
    ELSE Put(s, c, Id("ScaledObject", DeploymentNN(s.app, d)), initAutoScaler(s, d, DeploymentNN(s.app, d)[2]))

\* an error is forgotten when a later deployment has an autoscaler, a panic is not
AutoScalerProvide(s, c) ==
    LET t == PossibleGVKs(s, {"HPA", "ScaledObject"})
        step(u, d) == CASE u.err = NilKafka -> u
                        [] d.autoscaler = "simple" -> ProvideSimpleAutoScaler([u EXCEPT !.err = ""], c, d)
                        [] d.autoscaler = "keda" -> makeAutoScalers([u EXCEPT !.err = ""], c, d)
                        [] OTHER -> u
    IN  IF s.env.autoscaler THEN FoldLeft(step, t, s.app.deployments) ELSE s

----------------------------------------------------------------------------
(* The reverse proxy, made by the constructor in every reconcile *)

makeLocalReverseProxy(env, nn) ==
    LET labels == EnvApp(env, nn)
        minio == GetNamespacedName(env, "minio")
    IN  [Deployment |->
            Deployment(env, labels,
                [ports |-> {8080}, image |-> Image(env, "reverseProxy"),
                 uses |-> FromSecret(minio[2], {"accessKey", "secretKey"}) \union {<<"Service", minio[2], 9000>>}]),
         Service |-> MakeService(env, labels, {Port("proxy", 8080)})]

NewLocalReverseProxy(s, c) ==
    LET nn == GetNamespacedName(s.env, "reverse-proxy")
        t == PossibleGVKs(s, {"Deployment", "Service"})
    IN  IF s.env.reverseProxy THEN CachedMakeComponent(t, c, nn, makeLocalReverseProxy(s.env, nn)) ELSE s

----------------------------------------------------------------------------
(* Service accounts *)

\* what the platform added to the account stays
CreateServiceAccount(s, c, o, nn) ==
    LET id == Id("ServiceAccount", nn)
    IN  Put(s, c, id, [pull |-> IF id \in DOMAIN c THEN c[id].pull ELSE {}] @@ Meta(o, GetLabels(o)))
createServiceAccountForClowdObj(s, c, o) == CreateServiceAccount(s, c, o, <<o.ns, GetClowdSAName(o)>>)

CreateRoleBinding(s, c, o, nn, level) ==
    IF level \in {"default", ""} THEN s
    ELSE Put(s, c, Id("RoleBinding", nn), Meta(o, GetLabels(o)) @@ [subject |-> nn, role |-> level])

\* the pods of those deployments run under the account of their owner
RunAs(s, c, o, names) ==
    LET ids == {Id("Deployment", nn) : nn \in names} \intersect DOMAIN s.objs
    IN  PutAll(s, c, [id \in ids |-> [s.objs[id] EXCEPT !.sa = GetClowdSAName(o)]])

IQEAccount(env, namespace) == <<namespace, <<"iqe", env.name>>>>
createIQEServiceAccounts(s, c) ==
    LET nn == IQEAccount(s.env, s.app.ns)
        level == IF s.env.testing.access \in {"edit", "view"} THEN s.env.testing.access ELSE ""
    IN  CreateRoleBinding(CreateServiceAccount(s, c, s.env, nn), c, s.env, nn, level)

ServiceAccountKinds == {"RoleBinding", "ServiceAccount"}

ServiceAccountEnvProvide(s, c) ==
    LET edge == <<s.env.ns, <<s.env.name, "featureflags", "edge">>>>
    IN  RunAs(createServiceAccountForClowdObj(PossibleGVKs(s, ServiceAccountKinds), c, s.env), c, s.env,
              {FeatureFlagsDB(s.env), GetNamespacedName(s.env, "featureflags"), edge, GetNamespacedName(s.env, "minio")})

ServiceAccountProvide(s, c) ==
    LET own == createServiceAccountForClowdObj(createIQEServiceAccounts(PossibleGVKs(s, ServiceAccountKinds), c), c, s.app)
        step(t, d) ==
            LET nn == DeploymentNN(s.app, d)
                dep == CoreDeployment(s.app, d)
                u == CreateServiceAccount(t, c, s.app, nn)
            IN  IfOk(t, IF dep \notin DOMAIN t.objs THEN Err(t, "no deployment")
                        ELSE CreateRoleBinding(Put(u, c, dep, [u.objs[dep] EXCEPT !.sa = nn[2]]), c, s.app, nn, d.access))
    IN  FoldLeft(step, RunAs(own, c, s.app, {GetNamespacedName(s.app, "db"), GetNamespacedName(s.app, "redis")}),
                 s.app.deployments)

----------------------------------------------------------------------------
(* Mesh, logging, namespaces *)

\* the annotation stays when the mesh is turned off
ServiceMeshProvide(s, c) ==
    IF s.env.mesh THEN PutAll(s, c, [id \in CoreDeployments(s.app) |-> Annotated(s.objs[id], "mesh", "inject")])
    ELSE s

setCloudwatchSecret(s, c) ==
    LET id == <<"Secret", s.app.ns, <<"cloudwatch">>>>
    IN  IF id \in DOMAIN c THEN Configure(s, "logging", c[id].data) ELSE Err(s, "no cloudwatch secret")
LoggingProvide(s, c) == IF s.env.logging = "app-interface" THEN setCloudwatchSecret(s, c) ELSE s

setLabelOnNamespace(s, namespace) == [s EXCEPT !.made = @ \union {<<"labelled", namespace, "">>}]
NamespaceProvide(s, c) == setLabelOnNamespace(s, s.app.ns)
NamespaceEnvProvide(s, c) == setLabelOnNamespace(setLabelOnNamespace(s, "clowder-system"), s.env.ns)

----------------------------------------------------------------------------
(* Pull secrets *)

WithPullSecrets(s, c, ids) ==
    PutAll(s, c, [id \in ids |-> addAllSecrets(CopyNames(s.env), s.objs[id])])

PullSecretsEnvProvide(s, c) ==
    LET t == CopyPullSecrets(PossibleGVKs(s, {"Secret"}), c, s.env.ns, s.env)
    IN  IfOk(t, WithPullSecrets(t, c, {Id("ServiceAccount", <<s.env.ns, GetClowdSAName(s.env)>>)}))

\* the accounts for tests, of the deployments and of the app
PullSecretsProvide(s, c) ==
    LET t == CopyPullSecrets(PossibleGVKs(s, {"Secret"}), c, s.app.ns, s.app)
        accounts == {IQEAccount(s.env, s.app.ns), <<s.app.ns, GetClowdSAName(s.app)>>}
                      \union {<<id[2], id[3]>> : id \in CoreDeployments(s.app)}
    IN  IfOk(t, WithPullSecrets(t, c, {Id("ServiceAccount", nn) : nn \in accounts}))

----------------------------------------------------------------------------
(* The configuration *)

(* The hashes of Secrets of users are in the configuration too: they are   *)
(* the subject of ConfigWatch.                                             *)
ConfigSecret(app) == <<"Secret", app.ns, <<app.name>>>>
persistConfig(s, c) == Put(s, c, ConfigSecret(s.app), Secret(s.app, GetLabels(s.app), "cdappconfig.json" :> s.cfg))

\* mutant: scheduled jobs are forgotten
ConfigHashProvide_Deployments(s, c) ==
    LET t == persistConfig(PossibleGVKs(s, {"Secret"}), c)
    IN  PutAll(t, c, [id \in CoreDeployments(s.app) |-> Annotated(t.objs[id], "configHash", s.cfg)])

\* pods are annotated with a hash, so that a new configuration rolls them out
ConfigHashProvide(s, c) ==
    LET t == persistConfig(PossibleGVKs(s, {"Secret"}), c)
    IN  PutAll(t, c, [id \in CoreDeployments(s.app) \union CoreCronJobs(s) |-> Annotated(t.objs[id], "configHash", s.cfg)])

----------------------------------------------------------------------------
(* Test jobs *)

createIqeContainer(cji, env, app) ==
    [vars |-> updateEnvVars(<<<<"IQE_PLUGINS", Prefer(cji.plugins, app.iqePlugin, "")>>>> \o ACGConfig, cji.env),
     image |-> Prefer(cji.imageTag, app.iqePlugin, "latest")]

VaultSecret(cji) == <<cji.ns, <<cji.name, "vault">>>>
IqeSecret(cji) == <<cji.ns, <<cji.name, "iqe">>>>

\* a copy that nobody owns, or the one there is; all keys are optional
addVaultSecretToCache(s, c, cji) ==
    LET source == Id("Secret", s.env.testing.vault)
    IN  IF s.env.testing.vault = <<>> THEN s
        ELSE IF source \notin DOMAIN c THEN Err(s, "no vault secret")
        ELSE LET copy == Id("Secret", VaultSecret(cji))
                 new == [owner |-> "", labels |-> NoData, data |-> c[source].data]
             IN  Put(s, c, copy, IF copy \in DOMAIN c THEN c[copy] ELSE new)

\* the configurations of all the apps of the environment, which must all exist
addIqeSecretToCache(s, c, cji) ==
    IF \E a \in s.apps : ConfigSecret(a) \notin DOMAIN c THEN Err(s, "app config missing")
    ELSE Put(s, c, Id("Secret", IqeSecret(cji)),
             Secret(cji, NoData, [a \in {b.name : b \in s.apps} |-> c[ConfigSecret(AppNamed(s, a))].data]))

attachConfigVolumes(s, c, cji) ==
    CASE s.env.testing.configAccess = "environment" ->
            [s |-> addIqeSecretToCache(s, c, cji),
             uses |-> Mounted("Secret", IqeSecret(cji)[2]) \union Mounted("Secret", <<cji.app>>)]
      [] s.env.testing.configAccess = "app" -> [s |-> s, uses |-> Mounted("Secret", <<cji.app>>)]
      [] OTHER -> [s |-> s, uses |-> {}]

\* browsers run beside the tests as init containers that keep running
Browsers(cji) == When(cji.selenium, <<"sel">>) \union When(cji.playwright, <<"pw">>)

CreateIqeJobResource(s, c, cji) ==
    LET vault == addVaultSecretToCache(s, c, cji)
        config == attachConfigVolumes(vault, c, cji)
    IN  IF vault.err # "" THEN vault
        ELSE IfOk(config.s,
                Put(config.s, c, <<"Job", cji.ns, <<cji.name, "iqe">>>>,
                    [uses |-> config.uses, sa |-> IQEAccount(s.env, cji.ns)[2], browsers |-> Browsers(cji)]
                      @@ Deployment(cji, [job |-> <<cji.name, "iqe">>, clowdjob |-> cji.name],
                                    createIqeContainer(cji, s.env, s.app))))
=============================================================================
