--------------------------- MODULE KafkaProviders ---------------------------
(***************************************************************************)
(* The Kafka provider in its modes: operator (a cluster that Strimzi       *)
(* runs), managed, app-interface and ephem-msk.  Most of its objects are   *)
(* written as soon as they are built, before the provider goes on.         *)
(*                                                                         *)
(* Kafka and KafkaUser objects have a status, filled in by Strimzi: the    *)
(* listeners of the cluster, the Secret with the password of the user.     *)
(***************************************************************************)
EXTENDS Stores

getKafkaUsername(env, app) == <<env.name, app.name>>
getKafkaName(env) == IF env.kafka.cluster.name = <<>> THEN <<env.name>> ELSE env.kafka.cluster.name
getKafkaNamespace(env) == IF env.kafka.cluster.ns = "" THEN env.ns ELSE env.kafka.cluster.ns
getConnectNamespace(env) == IF env.kafka.connect.ns = "" THEN getKafkaNamespace(env) ELSE env.kafka.connect.ns
getConnectClusterName(env) == IF env.kafka.connect.name = <<>> THEN getKafkaName(env) ELSE env.kafka.connect.name

ClusterNN(env) == <<getKafkaNamespace(env), getKafkaName(env)>>
ConnectNN(env) == <<getConnectNamespace(env), getConnectClusterName(env)>>
ClusterCA(env) == <<getKafkaNamespace(env), getKafkaName(env) \o <<"cluster", "ca", "cert">>>>
CACert(c, env) ==
    IF Id("Secret", ClusterCA(env)) \in DOMAIN c THEN c[Id("Secret", ClusterCA(env))].data["ca.crt"] ELSE <<>>

\* what Strimzi has written into the status
NoStatus == [listeners |-> {}, secret |-> <<>>]
Status(c, id) == IF id \in DOMAIN c /\ "status" \in DOMAIN c[id] THEN c[id].status ELSE NoStatus

AtLeastOne(n) == IF n < 1 THEN 1 ELSE n

----------------------------------------------------------------------------
(* Topics: one object for all the apps that ask for the topic              *)

\* integers by their maximum, lists by their union
conversionMap == "retention.ms" :> "IntMax" @@ "retention.bytes" :> "IntMax"
                   @@ "min.compaction.lag.ms" :> "IntMax" @@ "cleanup.policy" :> "ListMerge"

\* mutant: the least of the integers
Convert_Least(key, vals) == IF conversionMap[key] = "IntMax" THEN Min(vals) ELSE UNION vals

Convert(key, vals) == IF conversionMap[key] = "IntMax" THEN Max(vals) ELSE UNION vals

Asked(apps, name) == {t \in UNION {ToSet(a.topics) : a \in apps} : t.name = name}

\* a count nobody sets is 3, and no topic has more replicas than the cluster
processTopicValues(env, apps, name) ==
    LET same == Asked(apps, name)
        keys == UNION {DOMAIN t.config : t \in same}
        Count(ns) == IF ns = {} THEN 0 ELSE IF Max(ns) < 1 THEN 3 ELSE Max(ns)
        replicas == Count({t.replicas : t \in same})
        available == AtLeastOne(env.kafka.cluster.replicas)
    IN  [partitions |-> Count({t.partitions : t \in same}),
         replicas |-> IF available < replicas \/ env.kafka.cluster.replicas < 1 THEN available ELSE replicas,
         config |-> [k \in keys \intersect DOMAIN conversionMap |->
                        Convert(k, {t.config[k] : t \in {u \in same : k \in DOMAIN u.config}})]]

\* a topic with these values will do for who asks for t
Covers(values, t) ==
    /\ values.partitions >= t.partitions
    /\ \A k \in DOMAIN t.config :
         IF conversionMap[k] = "IntMax" THEN values.config[k] >= t.config[k]
         ELSE t.config[k] \subseteq values.config[k]

\* a key that has no conversion; a nil pointer if by now no app asks for the topic
TopicFails(env, apps, name) ==
    \/ \E t \in Asked(apps, name) : ~(DOMAIN t.config \subseteq DOMAIN conversionMap)
    \/ Asked(apps, name) = {} /\ env.kafka.cluster.replicas >= 1

\* the name in Kafka of a topic asked for in a namespace
KafkaTopicName(env, topic, namespace) ==
    CASE env.kafka.mode = "ephem-msk" -> <<env.name, topic>>
      [] env.kafka.mode = "operator" /\ env.kafka.complexNames -> <<topic, env.name, namespace>>
      [] OTHER -> <<topic>>
KafkaName(env) == IF env.kafka.mode = "ephem-msk" THEN <<env.kafka.clusterAnnotation>> ELSE getKafkaName(env)
KafkaNamespace(env) ==
    IF env.kafka.mode # "ephem-msk" THEN getKafkaNamespace(env)
    ELSE IF env.kafka.topicNamespace = "" THEN env.ns ELSE env.kafka.topicNamespace

\* what an app is told of a topic
ConfigTopic(t, name) == [name |-> name, requestedName |-> t.name]

\* the environment owns the topics, which are written one after the other up to one that fails
processTopics(s, c) ==
    LET Name(t) == KafkaTopicName(s.env, t, s.app.ns)
        Write(u, t) == PutNow(u, c, Id("KafkaTopic", <<KafkaNamespace(s.env), Name(t.name)>>),
                              Meta(s.env, "strimzi.io/cluster" :> KafkaName(s.env) @@ [env |-> s.env.name])
                                @@ processTopicValues(s.env, s.apps, t.name))
        step(u, t) == IfOk(u, IF TopicFails(s.env, s.apps, t.name) THEN Err(u, "no values") ELSE Write(u, t))
        written == FoldLeft(step, s, s.app.topics)
    IN  IfOk(written, Configure(written, "topics", {ConfigTopic(t, Name(t.name)) : t \in ToSet(s.app.topics)}))

----------------------------------------------------------------------------
(* The cluster and its listeners *)

ListenerOf(env) == IF env.kafka.legacy THEN [name |-> "tcp", port |-> 9092] ELSE [name |-> "tls", port |-> 9093]

buildTCPBrokerConfig(listener) == [host |-> listener.host, port |-> listener.port, auth |-> "none"]
buildTLSBrokerConfig(listener, ca) ==
    [host |-> listener.host, port |-> listener.port, auth |-> "sasl", ca |-> ca, user |-> <<>>, password |-> <<>>]

BrokersOf(listeners, ca) ==
    {buildTLSBrokerConfig(l, ca) : l \in {m \in listeners : m.name = "tls"}}
      \union {buildTCPBrokerConfig(l) : l \in {m \in listeners : m.name \in {"plain", "tcp"}}}

createKafkaMetricsConfigMap(s, c) ==
    PutNow(s, c, Id("ConfigMap", <<getKafkaNamespace(s.env), getKafkaName(s.env) \o <<"metrics">>>>),
           ConfigMap(s.env, [env |-> s.env.name], [metrics |-> <<"rules">>]))

\* mutant: not asked
TiedToOther_Never(s, c, id) == FALSE

\* labelled with the name of another environment
TiedToOther(s, c, id) ==
    id \in DOMAIN c /\ "env" \in DOMAIN c[id].labels /\ c[id].labels["env"] # s.env.name

StorageOf(env) == IF env.kafka.pvc THEN "persistent-claim" ELSE "ephemeral"

\* what was read of the status stays
KafkaSpec(s, c, id) ==
    [replicas |-> AtLeastOne(s.env.kafka.cluster.replicas), listener |-> ListenerOf(s.env), storage |-> StorageOf(s.env),
     uses |-> Mounted("ConfigMap", getKafkaName(s.env) \o <<"metrics">>),
     pull |-> CopyNames(s.env), status |-> Status(c, id)]

\* a cluster of this name that belongs to another environment is left alone
configureKafkaCluster(s, c) ==
    LET id == Id("Kafka", ClusterNN(s.env))
        metrics == createKafkaMetricsConfigMap(s, c)
        copied == CopyPullSecrets(metrics, c, getKafkaNamespace(s.env), s.env)
    IN  IF TiedToOther(s, c, id) THEN Err(metrics, "tied to another env")
        ELSE IfOk(copied, PutNow(copied, c, id, Meta(s.env, [env |-> s.env.name]) @@ KafkaSpec(s, c, id)))

\* the namespaces of the apps may reach the brokers
createNetworkPolicies(s, c) ==
    PutNow(s, c, Id("NetworkPolicy", ClusterNN(s.env)),
           Meta(s.env, GetLabels(s.env)) @@ [from |-> {a.ns : a \in s.apps}])

ConnectUser(env) == <<getConnectNamespace(env), <<env.name, "connect">>>>

KafkaUser(s, c, id, topics) ==
    Meta(s.env, "strimzi.io/cluster" :> getKafkaName(s.env) @@ GetLabels(s.env))
      @@ [topics |-> topics, status |-> Status(c, id)]

createKafkaConnectUser(s, c) ==
    LET id == Id("KafkaUser", ConnectUser(s.env))
    IN  PutNow(s, c, id, KafkaUser(s, c, id, IF s.env.kafka.legacy THEN {} ELSE {<<"*">>}))

\* a user for the app, allowed on the topics it asks for
createKafkaUser(s, c) ==
    LET id == Id("KafkaUser", <<getKafkaNamespace(s.env), getKafkaUsername(s.env, s.app)>>)
    IN  PutNow(s, c, id, KafkaUser(s, c, id, {KafkaTopicName(s.env, t.name, s.app.ns) : t \in ToSet(s.app.topics)}))

\* the errors of a missing status come back until Strimzi has set it
setBrokerCredentials(s, c, brokers) ==
    LET id == Id("KafkaUser", <<getKafkaNamespace(s.env), getKafkaUsername(s.env, s.app)>>)
        secret == Id("Secret", <<getKafkaNamespace(s.env), Status(c, id).secret>>)
    IN  IF \A b \in brokers : b.auth = "none" THEN s
        ELSE IF id \notin DOMAIN c \/ Status(c, id) = NoStatus THEN Err(s, "no username in kafkauser status")
        ELSE IF secret \notin DOMAIN c THEN Err(s, "no secret")
        ELSE IF "password" \notin DOMAIN c[secret].data THEN Err(s, "no password")
        ELSE Configure(s, "brokers", {IF b.auth = "none" THEN b
                                      ELSE [b EXCEPT !.user = id[3], !.password = c[secret].data.password] : b \in brokers})

\* the trust and the user of the connect cluster come with the mode
ConnectTrust(env) == IF env.kafka.mode = "ephem-msk" THEN env.kafka.managedSecretRef[2] ELSE ClusterCA(env)[2]

configureKafkaConnectCluster(s, c, brokers, username) ==
    LET id == Id("KafkaConnect", ConnectNN(s.env))
        copied == CopyPullSecrets(s, c, getConnectNamespace(s.env), s.env)
    IN  IF TiedToOther(s, c, id) THEN Err(s, "tied to another env")
        ELSE IfOk(copied, PutNow(copied, c, id,
                Meta(s.env, [env |-> s.env.name])
                  @@ [replicas |-> AtLeastOne(s.env.kafka.connect.replicas),
                      bootstrap |-> {<<b.host, b.port>> : b \in brokers}, pull |-> CopyNames(s.env),
                      uses |-> IF s.env.kafka.legacy THEN {}
                               ELSE FromSecret(ConnectTrust(s.env), {"ca.crt"}) \union FromSecret(username, {"password"})]))

\* configureBrokers: the cluster is there before its addresses are known
StrimziEnvProvide(s, c) ==
    LET cluster == configureKafkaCluster(createNetworkPolicies(s, c), c)
        brokers == BrokersOf(Status(c, Id("Kafka", ClusterNN(s.env))).listeners, CACert(c, s.env))
    IN  IfOk(cluster,
             IF brokers = {} THEN Err(cluster, "no listener status")
             ELSE configureKafkaConnectCluster(createKafkaConnectUser(cluster, c), c, brokers, ConnectUser(s.env)[2]))

----------------------------------------------------------------------------
(* Cyndi: a pipeline between the databases of the app and the inventory    *)

CyndiAppName(app) == IF app.cyndi.appName = "" THEN app.name ELSE app.cyndi.appName

validateCyndiPipeline(s, c) ==
    LET id == Id("CyndiPipeline", <<getConnectNamespace(s.env), <<CyndiAppName(s.app)>>>>)
    IN  IF id \notin DOMAIN c \/ ~c[id].active THEN Err(s, "missing cyndi") ELSE s

\* a Secret without the keys of a database Secret, or whose data is still to be written, gives empty values
NoDBData == [hostname |-> <<>>, port |-> 0, name |-> "", username |-> <<>>, password |-> <<>>]

\* the inventory's Secret is read, the app's own is as this reconcile found it
getDbSecretInSameEnv(s, c, name) ==
    LET id == Id("Secret", GetNamespacedName(AppNamed(s, name), "db"))
    IN  IF ~HasApp(s, name) THEN {}
        ELSE IF name = "host-inventory" THEN {c[i].data : i \in {id} \intersect DOMAIN c}
        ELSE IF s.app.db.shared # "" THEN {}
        ELSE IF s.env.db.mode \in {"local", "shared"} 
            THEN {IF s.orig[i] = Missing THEN NoDBData ELSE s.orig[i].data : i \in {id} \intersect DOMAIN s.objs}
        ELSE IF s.env.db.mode = "app-interface" /\ s.app.db.name # ""
                  /\ GetDbConfig(s, c, s.app.ns, s.app.name, s.app.db.name).err # "" THEN {}
        ELSE {NoDBData}

applySecretToConnectNamespace(s, c, name, data) ==
    Put(s, c, Id("Secret", <<getConnectNamespace(s.env), name>>), Secret(s.env, NoData, data))

CyndiData(data, user, password) ==
    "db.host" :> data.hostname @@ "db.port" :> data.port @@ "db.name" :> data.name
      @@ "db.user" :> user @@ "db.password" :> password

createCyndiInventoryDbSecret(s, c, data) ==
    applySecretToConnectNamespace(s, c, <<s.env.name, "host-inventory", "db", "cyndi">>,
                                  CyndiData(data, data.username, data.password))
\* the database image has a user for Cyndi
createCyndiAppDbSecret(s, c, data) ==
    applySecretToConnectNamespace(s, c, <<s.env.name, s.app.name, "db", "cyndi">>,
                                  CyndiData(data, <<0, "cyndi">>, <<0, "cyndi">>))

createCyndiPipeline(s, c) ==
    LET inventory == getDbSecretInSameEnv(s, c, "host-inventory")
        own == getDbSecretInSameEnv(s, c, s.app.name)
        id == Id("CyndiPipeline", <<getConnectNamespace(s.env), <<CyndiAppName(s.app)>>>>)
        secrets == createCyndiAppDbSecret(
                       createCyndiInventoryDbSecret(s, c, CHOOSE d \in inventory : TRUE), c, CHOOSE d \in own : TRUE)
    IN  IF inventory = {} \/ own = {} THEN Err(s, "no db secret")
        ELSE Put(secrets, c, id,
                 Meta(s.env, NoData)
                   @@ [connect |-> getConnectClusterName(s.env), active |-> id \in DOMAIN c /\ c[id].active,
                       uses |-> Mounted("Secret", <<s.env.name, "host-inventory", "db", "cyndi">>)
                                  \union Mounted("Secret", <<s.env.name, s.app.name, "db", "cyndi">>)])

----------------------------------------------------------------------------
(* Provide in the four modes *)

StrimziProvide(s, c) ==
    LET id == Id("Kafka", ClusterNN(s.env))
        brokers == BrokersOf(Status(c, id).listeners, CACert(c, s.env))
        found == Configure(Configure(s, "brokers", brokers), "topics", {})
        piped == IF s.app.cyndi.enabled THEN createCyndiPipeline(found, c) ELSE found
        topics == processTopics(piped, c)
    IN  IF id \notin DOMAIN c THEN Err(s, "no kafka")
        ELSE IF Status(c, id) = NoStatus THEN Err(s, "nil status")
        ELSE IF piped.err # "" \/ s.app.topics = <<>> THEN piped
        ELSE IfOk(topics, IF s.env.kafka.legacy THEN topics
                          ELSE setBrokerCredentials(createKafkaUser(topics, c), c, brokers))

(* destructureSecret: the port must parse; hostnames, if given, are a set  *)
BrokersFromSecret(data) ==
    LET hosts == IF "hostnames" \in DOMAIN data THEN data.hostnames ELSE {data.hostname}
    IN  {[host |-> h, port |-> data.port, auth |-> "sasl",
          ca |-> IF "cacert" \in DOMAIN data THEN data.cacert ELSE <<>>,
          user |-> data.username, password |-> data.password] : h \in hosts}

\* getSecretRef, getSecret and getBrokerConfig: the brokers, or none on an error
ManagedBrokers(s, c) ==
    LET id == Id("Secret", s.env.kafka.managedSecretRef)
    IN  IF s.env.kafka.managedSecretRef = <<>> \/ id \notin DOMAIN c THEN {}
        ELSE IF "port" \notin DOMAIN c[id].data THEN {} ELSE BrokersFromSecret(c[id].data)

ManagedProvide(s, c) ==
    LET topics == {ConfigTopic(t, s.env.kafka.managedPrefix \o <<t.name>>) : t \in ToSet(s.app.topics)}
    IN  IF s.app.topics = <<>> THEN s
        ELSE IF ManagedBrokers(s, c) = {} THEN Err(s, "no brokers")
        ELSE Configure(Configure(s, "brokers", ManagedBrokers(s, c)), "topics", topics)

Bootstrap(env) == <<getKafkaNamespace(env), env.kafka.cluster.name \o <<"kafka", "bootstrap">>>>

validateBrokerService(s, c) == IF Id("Service", Bootstrap(s.env)) \in DOMAIN c THEN s ELSE Err(s, "no bootstrap service")

validateKafkaTopic(s, c, t) == Id("KafkaTopic", <<getKafkaNamespace(s.env), <<t>>>>) \in DOMAIN c

\* setKafkaCA: with TLS another port and the cluster's certificate
BootstrapBroker(s, c) ==
    IF s.env.kafka.cluster.forceTLS
    THEN [host |-> Host(Bootstrap(s.env)), port |-> 9093, auth |-> "none", ca |-> CACert(c, s.env)]
    ELSE [host |-> Host(Bootstrap(s.env)), port |-> 9092, auth |-> "none"]

AppInterfaceKafkaProvide(s, c) ==
    LET piped == IF s.app.cyndi.enabled THEN validateCyndiPipeline(s, c) ELSE s
        topics == {ConfigTopic(t, <<t.name>>) : t \in ToSet(s.app.topics)}
    IN  IF piped.err # "" \/ s.app.topics = <<>> THEN piped
        ELSE IF s.env.kafka.cluster.forceTLS /\ Id("Secret", ClusterCA(s.env)) \notin DOMAIN c THEN Err(s, "no secret")
        ELSE IF \E t \in ToSet(s.app.topics) : ~validateKafkaTopic(s, c, t.name) THEN Err(s, "missing kafka topic")
        ELSE Configure(Configure(s, "brokers", {BootstrapBroker(s, c)}), "topics", topics)

\* nothing to copy within a namespace; the target namespace is the one of the spec
copyGenericSecret(s, c, source) ==
    IF source[1] = s.env.specNs THEN s
    ELSE IF Id("Secret", source) \notin DOMAIN c THEN Err(s, "no secret")
    ELSE IF s.env.specNs = "" THEN Err(s, "no namespace")
    ELSE Put(s, c, Id("Secret", <<s.env.specNs, source[2]>>),
             Secret(s.env, GetLabels(s.env), c[Id("Secret", source)].data))

createConnectSecret(s, c, broker) ==
    Put(s, c, Id("Secret", <<s.env.ns, broker.user>>), Secret(s.env, GetLabels(s.env), [password |-> broker.password]))

MSKEnvProvide(s, c) ==
    LET brokers == ManagedBrokers(s, c)
        broker == CHOOSE b \in brokers : TRUE
        connect == configureKafkaConnectCluster(s, c, brokers, broker.user)
        managed == copyGenericSecret(connect, c, s.env.kafka.managedSecretRef)
    IN  IF brokers = {} THEN Err(s, "no brokers")
        ELSE IfOk(connect, IfOk(managed, copyGenericSecret(createConnectSecret(managed, c, broker), c, ClusterCA(s.env))))

MSKProvide(s, c) ==
    LET topics == processTopics(Configure(s, "brokers", ManagedBrokers(s, c)), c)
    IN  IF s.app.topics = <<>> THEN s
        ELSE IF ManagedBrokers(s, c) = {} THEN Err(s, "no brokers")
        ELSE IfOk(topics, IF s.app.cyndi.enabled THEN createCyndiPipeline(topics, c) ELSE topics)

CyndiKinds == {"CyndiPipeline", "Secret", "ConfigMap"}
StrimziKinds == CyndiKinds \union {"KafkaTopic", "Kafka", "KafkaConnect", "KafkaUser", "NetworkPolicy"}
MSKKinds == CyndiKinds \union {"KafkaTopic", "KafkaConnect"}

KafkaProvide(s, c) ==
    CASE s.env.kafka.mode = "operator" -> StrimziProvide(PossibleGVKs(s, StrimziKinds), c)
      [] s.env.kafka.mode = "managed" -> ManagedProvide(s, c)
      [] s.env.kafka.mode = "app-interface" -> AppInterfaceKafkaProvide(s, c)
      [] s.env.kafka.mode = "ephem-msk" -> MSKProvide(PossibleGVKs(s, MSKKinds), c)
      [] OTHER -> s

KafkaEnvProvide(s, c) ==
    CASE s.env.kafka.mode = "operator" -> StrimziEnvProvide(PossibleGVKs(s, StrimziKinds), c)
      [] s.env.kafka.mode = "app-interface" -> validateBrokerService(s, c)
      [] s.env.kafka.mode = "ephem-msk" -> MSKEnvProvide(PossibleGVKs(s, MSKKinds), c)
      [] OTHER -> s
=============================================================================
