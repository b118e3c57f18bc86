---------------------------- MODULE MCProviders ----------------------------
(***************************************************************************)
(* Environments in every mode of the providers, small enough for TLC.      *)
(***************************************************************************)
EXTENDS Providers

\* an environment that provides nothing
NoTLS == [enabled |-> FALSE, port |-> 0, privatePort |-> 0, h2cPort |-> 0, h2cPrivatePort |-> 0]
TLS == [enabled |-> TRUE, port |-> 8800, privatePort |-> 18800, h2cPort |-> 8802, h2cPrivatePort |-> 18802]
NoWeb ==
    [mode |-> "operator", port |-> 8000, privatePort |-> 0, authPort |-> 0, h2cPort |-> 0, h2cPrivatePort |-> 0,
     tls |-> NoTLS, keycloakPVC |-> FALSE, keycloakVersion |-> "15",
     gateway |-> [enabled |-> FALSE, mode |-> "self-signed", email |-> "", localCA |-> <<>>]]
NoKafka ==
    [mode |-> "none", cluster |-> [name |-> <<>>, ns |-> "", replicas |-> 0, forceTLS |-> FALSE],
     connect |-> [name |-> <<>>, ns |-> "", replicas |-> 0], pvc |-> FALSE, legacy |-> FALSE, complexNames |-> FALSE,
     managedSecretRef |-> <<>>, managedPrefix |-> <<>>, topicNamespace |-> "", clusterAnnotation |-> ""]
BareEnv ==
    [kind |-> "env", name |-> "env", ns |-> "env-ns", specNs |-> "env-ns", images |-> {}, pullSecrets |-> <<>>, refs |-> {},
     db |-> [mode |-> "none", pvc |-> FALSE, caURL |-> ""], inMemory |-> "none",
     store |-> [mode |-> "none", pvc |-> FALSE],
     ff |-> [mode |-> "none", pvc |-> FALSE, credentialRef |-> <<>>, hostname |-> <<>>, port |-> 0],
     kafka |-> NoKafka, web |-> NoWeb,
     metrics |-> [mode |-> "none", port |-> 9100, deploy |-> FALSE, gateway |-> FALSE, monitors |-> FALSE],
     sidecars |-> [tokenRefresher |-> FALSE, otel |-> [enabled |-> FALSE, image |-> "", configMap |-> "", env |-> <<>>]],
     autoscaler |-> FALSE, prometheus |-> <<"prometheus">>, reverseProxy |-> FALSE, mesh |-> FALSE, logging |-> "none",
     testing |-> [access |-> "", vault |-> <<>>, configAccess |-> ""]]

\* a deployment that is not exposed, an app that asks for nothing
Plain(name) ==
    [name |-> name, web |-> FALSE, public |-> FALSE, publicTLS |-> "nil", publicH2C |-> FALSE, publicH2CTarget |-> 0,
     apiPath |-> <<>>, apiPaths |-> {}, private |-> FALSE, privateTLS |-> "nil", privateH2C |-> FALSE,
     privateH2CTarget |-> 0, whitelist |-> {}, replicas |-> -1, autoscaler |-> "none",
     scale |-> [min |-> 1, max |-> 3, triggers |-> {}], strategy |-> "", volumes |-> {}, initContainers |-> <<>>,
     env |-> <<>>, sidecars |-> <<>>, access |-> ""]
Job(name) ==
    [name |-> name, schedule |-> "hourly", disabled |-> FALSE, volumes |-> {}, env |-> <<>>, initContainers |-> <<>>,
     sidecars |-> <<>>, concurrency |-> ""]
BareApp(name, ns) ==
    [kind |-> "app", name |-> name, ns |-> ns, labels |-> NoData, deployments |-> <<>>, jobs |-> <<>>,
     db |-> [name |-> "", shared |-> "", version |-> 0, volumeSize |-> ""], inMemoryDb |-> FALSE, sharedInMemory |-> "",
     objectStore |-> <<>>, dependencies |-> {}, optional |-> {}, topics |-> <<>>,
     cyndi |-> [enabled |-> FALSE, appName |-> ""], iqePlugin |-> ""]
Budget(faults, deletes, scales, edits) == [faults |-> faults, deletes |-> deletes, scales |-> scales, edits |-> edits]
World(env, apps, given, budget) == [env |-> env, apps |-> apps, given |-> given, invocations |-> {}, budget |-> budget]

----------------------------------------------------------------------------
\* everything Clowder can run by itself, except Kafka
LocalEnv ==
    [BareEnv EXCEPT !.db = [mode |-> "local", pvc |-> TRUE, caURL |-> ""], !.inMemory = "redis",
        !.store = [mode |-> "minio", pvc |-> FALSE], !.ff.mode = "local",
        !.web = [NoWeb EXCEPT !.mode = "local", !.gateway.enabled = TRUE],
        !.metrics = [mode |-> "operator", port |-> 9100, deploy |-> TRUE, gateway |-> TRUE, monitors |-> TRUE],
        !.autoscaler = TRUE, !.reverseProxy = TRUE, !.mesh = TRUE]

Inventory ==
    [BareApp("host-inventory", "one") EXCEPT
        !.deployments = <<[Plain("api") EXCEPT !.public = TRUE, !.private = TRUE, !.autoscaler = "simple", !.replicas = 1],
                          Plain("worker")>>,
        !.jobs = <<Job("reaper")>>,
        !.db.name = "host-inventory", !.inMemoryDb = TRUE, !.objectStore = <<<<"uploads">>>>]
Advisor ==
    [BareApp("advisor", "two") EXCEPT
        !.deployments = <<[Plain("web") EXCEPT !.web = TRUE]>>,
        !.db.shared = "host-inventory", !.inMemoryDb = TRUE, !.sharedInMemory = "host-inventory", !.dependencies = {"host-inventory"}]

\* later the worker and the scheduled job are gone, advisor has a database of its own, and the
\* environment has neither in-memory databases nor object stores any more
LocalEnvLater == [LocalEnv EXCEPT !.inMemory = "none", !.store.mode = "none"]
InventoryLater ==
    [Inventory EXCEPT !.deployments = <<[@[1] EXCEPT !.private = FALSE, !.access = "view", !.apiPath = <<"hosts">>]>>,
                      !.jobs[1].disabled = TRUE]
AdvisorLater == [Advisor EXCEPT !.db = [name |-> "advisor", shared |-> "", version |-> 15, volumeSize |-> "large"]]

----------------------------------------------------------------------------
\* TLS beside the apps, database servers of the environment, sidecars, copied pull secrets
Pull == <<"secrets", <<"quay">>>>
User == [owner |-> "user", labels |-> NoData, anno |-> NoData, rank |-> 1]
Ports(web) == [web EXCEPT !.privatePort = 10000, !.h2cPort = 8001, !.h2cPrivatePort = 10001, !.tls = TLS]
Otel == [name |-> "otel-collector", enabled |-> TRUE, env |-> <<<<"LEVEL", "debug">>, <<"OWN", "1">>>>, image |-> "", configMap |-> ""]
Refresher == [Otel EXCEPT !.name = "token-refresher", !.env = <<>>]
Remote ==
    [name |-> "rbac", serves |-> {"advisor"}, deployments |-> <<[Plain("service") EXCEPT !.public = TRUE, !.publicTLS = "true"] @@ [hostname |-> <<"far">>]>>,
     remote |-> [port |-> 0, privatePort |-> 0, h2cPort |-> 0, h2cPrivatePort |-> 0, tls |-> NoTLS]]

TLSEnv ==
    [BareEnv EXCEPT !.db = [mode |-> "shared", pvc |-> TRUE, caURL |-> ""], !.web = Ports(NoWeb), !.pullSecrets = <<Pull>>,
        !.refs = {Remote}, !.metrics.mode = "app-interface", !.metrics.monitors = TRUE, !.images = {"caddy"},
        !.sidecars = [tokenRefresher |-> TRUE, otel |-> [enabled |-> TRUE, image |-> "", configMap |-> "",
                                                        env |-> <<<<"LEVEL", "info">>, <<"HOST", "h">>>>]],
        !.testing = [access |-> "view", vault |-> <<"secrets", <<"vault">>>>, configAccess |-> "environment"]]
Tasks ==
    [BareApp("advisor", "one") EXCEPT
        !.deployments = <<[Plain("api") EXCEPT !.public = TRUE, !.publicH2C = TRUE, !.private = TRUE, !.privateH2C = TRUE,
                                !.privateH2CTarget = 7000, !.sidecars = <<Otel, Refresher>>, !.replicas = 2,
                                !.initContainers = <<[name |-> "first", inheritEnv |-> TRUE, env |-> <<<<"A", "2">>>>],
                                                     [name |-> "second", inheritEnv |-> FALSE, env |-> <<>>]>>,
                                !.env = <<<<"A", "1">>, <<"B", "1">>>>],
                          [Plain("old") EXCEPT !.web = TRUE, !.volumes = Mounted("PVC", <<"scratch">>)]>>,
        !.jobs = <<[Job("nightly") EXCEPT !.sidecars = <<Refresher>>]>>,
        !.db = [name |-> "advisor", shared |-> "", version |-> 14, volumeSize |-> "small"],
        !.dependencies = {"rbac"}, !.optional = {"nobody"}, !.iqePlugin = "advisor"]
TasksLater ==
    [Tasks EXCEPT !.deployments = <<[@[1] EXCEPT !.publicTLS = "false", !.privateTLS = "false", !.sidecars = <<>>]>>, !.db.version = 16]
TLSGiven ==
    <<"Secret", Pull[1], Pull[2]>> :> (User @@ [data |-> ".dockerconfigjson" :> <<0, "docker">>])
      @@ <<"Secret", "secrets", <<"vault">>>> :> (User @@ [data |-> [roleId |-> <<0, "role">>]])
      @@ <<"Secret", "one", <<"advisor", "token-refresher">>>> :>
            (User @@ [data |-> [k \in {"CLIENT_ID", "CLIENT_SECRET", "ISSUER_URL", "SCOPE", "URL"} |-> <<0, k>>]])
      @@ <<"PVC", "one", <<"scratch">>>> :> (User @@ [size |-> 1])
TestRun ==
    [kind |-> "cji", name |-> "run", ns |-> "one", app |-> "advisor", jobs |-> {"nightly"}, iqe |-> TRUE, plugins |-> "", imageTag |-> "",
     env |-> <<<<"IQE_PLUGINS", "more">>, <<"X", "">>>>, selenium |-> TRUE, playwright |-> FALSE]

----------------------------------------------------------------------------
\* a cluster of Strimzi's; two apps share a topic, one is fed by Cyndi, one is scaled by its lag
Topic(name, partitions, config) == [name |-> name, replicas |-> 0, partitions |-> partitions, config |-> config]
Long == "retention.ms" :> 9 @@ "cleanup.policy" :> {"delete"}
Short == "retention.ms" :> 1 @@ "cleanup.policy" :> {"compact"}
KafkaEnv ==
    [BareEnv EXCEPT !.kafka = [NoKafka EXCEPT !.mode = "operator", !.cluster.replicas = 2], !.db.mode = "local", !.autoscaler = TRUE,
                    !.web.tls = TLS]
Hosts ==
    [BareApp("host-inventory", "one") EXCEPT !.deployments = <<[Plain("api") EXCEPT !.private = TRUE]>>,
        !.db.name = "hosts", !.topics = <<Topic("events", 6, Short)>>]
Policies ==
    [BareApp("advisor", "two") EXCEPT
        !.deployments = <<[Plain("eat") EXCEPT !.autoscaler = "keda", !.scale = [min |-> 0, max |-> 2, triggers |-> {"kafka", "prometheus"}]]>>,
        !.db.name = "advisor", !.topics = <<Topic("events", 2, Long), Topic("alerts", 1, NoData)>>, !.cyndi.enabled = TRUE]
TopicEnv == [KafkaEnv EXCEPT !.db.mode = "none", !.autoscaler = FALSE, !.kafka.legacy = TRUE]
TopicHosts == [Hosts EXCEPT !.db.name = ""]
TopicPolicies == [Policies EXCEPT !.db.name = "", !.cyndi.enabled = FALSE, !.deployments[1].autoscaler = "none"]
PoliciesLater == [Policies EXCEPT !.topics = <<Topic("events", 8, Long)>>, !.deployments[1].autoscaler = "none"]
\* the Kafka of another environment that has the same name
Foreign == [owner |-> "other", labels |-> [env |-> "other"], listener |-> "theirs", status |-> [listeners |-> {}, secret |-> <<>>]]
ForeignGiven ==
    Id("Kafka", ClusterNN(KafkaEnv)) :> Foreign
      @@ Id("NetworkPolicy", ClusterNN(KafkaEnv)) :> [owner |-> "other", labels |-> NoData, from |-> {"elsewhere"}]
      @@ <<"ConfigMap", "env-ns", <<"env", "metrics">>>> :> [owner |-> "other", labels |-> [env |-> "other"], data |-> [metrics |-> <<"theirs">>]]
      @@ <<"KafkaTopic", "env-ns", <<"events">>>> :> [owner |-> "other", labels |-> [env |-> "other"], partitions |-> 1]

\* brokers that are somebody else's
Managed == <<"kafka-ns", <<"managed">>>>
ManagedGiven ==
    Id("Secret", Managed) :> (User @@ [data |-> [hostname |-> <<"broker">>, port |-> 443, username |-> <<"me">>, password |-> <<0, "p">>, cacert |-> <<"ca">>]
                                                  @@ "ca.crt" :> <<0, "ca">>])
      @@ Id("Secret", <<"kafka-ns", <<"msk", "cluster", "ca", "cert">>>>) :> (User @@ [data |-> "ca.crt" :> <<0, "ca">>])
ManagedEnv == [BareEnv EXCEPT !.kafka = [NoKafka EXCEPT !.mode = "managed", !.managedSecretRef = Managed, !.managedPrefix = <<"my">>]]
MSKEnv ==
    [BareEnv EXCEPT !.kafka = [NoKafka EXCEPT !.mode = "ephem-msk", !.managedSecretRef = Managed, !.clusterAnnotation = "msk",
                                              !.cluster.name = <<"msk">>, !.cluster.ns = "kafka-ns", !.connect.ns = "env-ns"]]
Events == [BareApp("advisor", "one") EXCEPT !.deployments = <<Plain("pump")>>, !.topics = <<Topic("events", 6, Short)>>]

\* everything from app-interface
SREEnv ==
    [BareEnv EXCEPT !.db = [mode |-> "app-interface", pvc |-> FALSE, caURL |-> "rds"], !.inMemory = "elasticache",
        !.store.mode = "app-interface", !.logging = "app-interface",
        !.ff = [mode |-> "app-interface", pvc |-> FALSE, credentialRef |-> <<"env-ns", <<"flags">>>>, hostname |-> <<"unleash">>, port |-> 443],
        !.kafka = [NoKafka EXCEPT !.mode = "app-interface", !.cluster = [name |-> <<"kafka">>, ns |-> "env-ns", replicas |-> 3, forceTLS |-> TRUE]]]
Rules ==
    [BareApp("host-inventory", "one") EXCEPT !.deployments = <<Plain("api")>>, !.db.name = "host-inventory", !.inMemoryDb = TRUE,
        !.objectStore = <<<<"uploads">>, <<"archive">>>>, !.topics = <<Topic("events", 1, NoData)>>]
Checks ==
    [BareApp("advisor", "two") EXCEPT !.deployments = <<Plain("api")>>, !.db.shared = "host-inventory", !.inMemoryDb = TRUE,
        !.sharedInMemory = "host-inventory", !.dependencies = {"host-inventory"}]
Rds(host, rank) ==
    [User EXCEPT !.rank = rank] @@ [data |-> "db.host" :> host @@ "db.port" :> 5432 @@ "db.user" :> <<0, "user">>
                                               @@ "db.password" :> <<0, "pass">> @@ "db.name" :> "host-inventory"]
SREGiven ==
    <<"Secret", "one", <<"rds-read">>>> :> Rds(<<"host-inventory", "readonly">>, 1)
      @@ <<"Secret", "one", <<"rds">>>> :> Rds(<<"host-inventory", "stage">>, 2)
      @@ <<"Secret", "one", <<"in-memory-db">>>> :> (User @@ [data |-> "db.endpoint" :> <<"cache">> @@ "db.port" :> 6379])
      @@ <<"Secret", "one", <<"s3">>>> :>
            (User @@ [data |-> "aws_access_key_id" :> <<0, "id">> @@ "aws_secret_access_key" :> <<0, "key">>
                                 @@ "bucket" :> <<"uploads", "stage">> @@ "endpoint" :> "s3"])
      @@ <<"Secret", "one", <<"s3-more">>>> :>
            ([User EXCEPT !.rank = 2, !.anno = "clowder/bucket-names" :> <<<<"other">>, <<"archive", "stage">>>>]
                @@ [data |-> "aws_access_key_id" :> <<0, "id">> @@ "aws_secret_access_key" :> <<0, "key">>])
      @@ <<"Secret", "one", <<"cloudwatch">>>> :> (User @@ [data |-> [key |-> <<0, "cw">>]])
      @@ <<"Secret", "two", <<"cloudwatch">>>> :> (User @@ [data |-> [key |-> <<0, "cw">>]])
      @@ <<"Secret", "env-ns", <<"flags">>>> :> (User @@ [data |-> "CLIENT_ACCESS_TOKEN" :> <<0, "token">>])
      @@ <<"Secret", "env-ns", <<"kafka", "cluster", "ca", "cert">>>> :> (User @@ [data |-> "ca.crt" :> <<0, "ca">>])
      @@ <<"Service", "env-ns", <<"kafka", "kafka", "bootstrap">>>> :> (User @@ [sel |-> NoData, ports |-> {Port("tls", 9093)}])
      @@ <<"KafkaTopic", "env-ns", <<"events">>>> :> (User @@ [partitions |-> 1])

----------------------------------------------------------------------------
\* the smallest environment with a store that both reconciles make, a database, an autoscaler
BusyEnv == [BareEnv EXCEPT !.db.mode = "local", !.store.mode = "minio", !.autoscaler = TRUE]
Busybox ==
    [BareApp("advisor", "one") EXCEPT !.deployments = <<[Plain("api") EXCEPT !.public = TRUE, !.autoscaler = "simple", !.replicas = 1]>>,
        !.db.name = "advisor", !.objectStore = <<<<"files">>>>]
NoName == [name |-> "", inheritEnv |-> FALSE, env |-> <<>>]
Refused == [Busybox EXCEPT !.deployments[1].initContainers = <<NoName, NoName>>]
BusyboxLater == [Busybox EXCEPT !.deployments = Append(@, Plain("more")), !.jobs = <<Job("sweep")>>]

MCWorlds ==
    "local" :> World(LocalEnv, {Inventory, Advisor}, NoData, Budget(0, 0, 0, 1))
      @@ "local later" :> World(LocalEnvLater, {InventoryLater, AdvisorLater}, NoData, Budget(0, 0, 0, 0))
      @@ "secrets" :> World([LocalEnv EXCEPT !.metrics.deploy = FALSE], {[Inventory EXCEPT !.deployments = <<@[1]>>, !.jobs = <<>>]}, NoData, Budget(0, 1, 0, 0))
      @@ "tls" :> [World(TLSEnv, {Tasks}, TLSGiven, Budget(0, 0, 0, 1)) EXCEPT !.invocations = {TestRun}]
      @@ "tls later" :> World([TLSEnv EXCEPT !.web.tls.enabled = FALSE], {TasksLater}, TLSGiven, Budget(0, 0, 0, 0))
      @@ "kafka" :> World(KafkaEnv, {Hosts, Policies}, NoData, Budget(0, 0, 0, 1))
      @@ "kafka later" :> World(KafkaEnv, {Hosts, PoliciesLater}, NoData, Budget(0, 0, 0, 0))
      @@ "foreign" :> World(TopicEnv, {TopicHosts}, NoData, Budget(0, 0, 0, 1))
      @@ "foreign later" :> World(TopicEnv, {TopicHosts}, ForeignGiven, Budget(0, 0, 0, 0))
      @@ "foreign connect" :> World(MSKEnv, {Events}, Id("KafkaConnect", ConnectNN(MSKEnv)) :> Foreign @@ ManagedGiven, Budget(0, 0, 0, 0))
      @@ "managed" :> World(ManagedEnv, {Events}, ManagedGiven, Budget(0, 0, 0, 0))
      @@ "msk" :> World(MSKEnv, {Events}, ManagedGiven, Budget(0, 0, 0, 0))
      @@ "app-interface" :> World(SREEnv, {Rules, Checks}, SREGiven, Budget(1, 0, 0, 0))
      @@ "waiting" :> World(SREEnv, {Rules}, Restrict(SREGiven, DOMAIN SREGiven \ {<<"Secret", "one", <<"rds">>>>}), Budget(0, 0, 0, 1))
      @@ "waiting later" :> World(SREEnv, {Rules}, SREGiven, Budget(0, 0, 0, 0))
      @@ "deleted" :> World(BusyEnv, {Busybox}, NoData, Budget(0, 1, 0, 0))
      @@ "scaled" :> World(BusyEnv, {Busybox}, NoData, Budget(1, 0, 1, 0))
      @@ "edited" :> World(BusyEnv, {Busybox}, NoData, Budget(1, 0, 0, 1))
      @@ "edited later" :> World(BusyEnv, {BusyboxLater}, NoData, Budget(0, 0, 0, 0))
      @@ "refused" :> World(BusyEnv, {Refused}, NoData, Budget(0, 0, 0, 0))
      @@ "topics" :> World(TopicEnv, {TopicHosts, TopicPolicies}, NoData, Budget(0, 0, 0, 1))
      @@ "topics later" :> World(TopicEnv, {TopicHosts, [TopicPolicies EXCEPT !.topics = <<Topic("events", 8, Long)>>]}, NoData, Budget(0, 0, 0, 0))

Edited == {"local", "tls", "kafka", "edited", "topics", "waiting", "foreign"}
MCStart == DOMAIN MCWorlds \ ({w \o " later" : w \in Edited} \union {"refused"})
MCEdits == [w \in DOMAIN MCWorlds |-> (IF w \in Edited THEN {w \o " later"} ELSE {}) \union (IF w = "edited" THEN {"refused"} ELSE {})]
MCAtOnce == {"deleted", "scaled", "edited", "edited later"}
MCAnyTime == MCAtOnce \union {"topics", "topics later", "waiting", "foreign"}
=============================================================================
