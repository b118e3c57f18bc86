----------------------------- MODULE Providers -----------------------------
(***************************************************************************)
(* The providers at work: the reconcile of the environment and those of    *)
(* its apps build objects in their resource caches, one provider after the *)
(* other, write them to the cluster kind by kind and delete what is no     *)
(* longer wanted, while specifications change, writes conflict or fail,    *)
(* the operator restarts, Strimzi answers, autoscalers scale and users     *)
(* delete Secrets.                                                         *)
(*                                                                         *)
(* Which event wakes which reconcile is the subject of Application and     *)
(* Environment.  Here a change wakes everybody, which is what the periodic *)
(* resync of the informers comes to.                                       *)
(***************************************************************************)
EXTENDS Admission

CONSTANTS Worlds,      \* name -> [env, apps, given, invocations, budget]: specifications, objects of users,
                       \* and how many faults, deletions, scalings and edits may come
          Start,       \* the worlds to start in
          Edits,       \* name -> the worlds an edit leads to
          AtOnce,      \* the worlds in which both controllers work at once; in the others they take turns
          AnyTime,     \* the worlds in which edits and faults come at any time; in the others, at rest
          MaxRound     \* generated values are told apart for so many failed reconciles

VARIABLES world,       \* name of the current world
          cluster,     \* id -> object
          outside,     \* databases, buckets and CA bundles made outside the cluster
          queue,       \* who is to be reconciled: "env", names of apps
          pass,        \* the reconcile under way of either controller
          reconciled,  \* the environment (its generation) the last reconcile succeeded for
          round,       \* failed reconciles, up to MaxRound
          changed,     \* something was written since everybody was last woken
          left         \* faults, deletions, scalings and edits still to come

vars == <<world, cluster, outside, queue, pass, reconciled, round, changed, left>>

Env == Worlds[world].env
Apps == Worlds[world].apps
AppCalled(name) == CHOOSE a \in Apps : a.name = name
Everybody == {"env"} \union {a.name : a \in Apps}
Workers == {"env", "app"}
Idle == [at |-> "idle"]
AllIdle == \A w \in Workers : pass[w] = Idle
Turn == world \in AtOnce \/ AllIdle

----------------------------------------------------------------------------
(* One provider, in the reconcile of an app and of the environment *)

Provide(name, s, c) ==
    CASE name = "cronjob" -> CronJobProvide(s, c)
      [] name = "deployment" -> DeploymentProvide(s, c)
      [] name = "web" -> WebServicesProvide(s, c)
      [] name = "metrics" -> MetricsProvide(s, c)
      [] name = "dependencies" -> DependenciesProvide(s, c)
      [] name = "database" -> DatabaseProvide(s, c)
      [] name = "inmemorydb" -> InMemoryProvide(s, c)
      [] name = "objectstore" -> ObjectStoreProvide(s, c)
      [] name = "featureflags" -> FeatureFlagsProvide(s, c)
      [] name = "logging" -> LoggingProvide(s, c)
      [] name = "kafka" -> KafkaProvide(s, c)
      [] name = "reverseproxy" -> NewLocalReverseProxy(s, c)
      [] name = "autoscaler" -> AutoScalerProvide(s, c)
      [] name = "namespace" -> NamespaceProvide(s, c)
      [] name = "serviceaccount" -> ServiceAccountProvide(s, c)
      [] name = "servicemesh" -> ServiceMeshProvide(s, c)
      [] name = "sidecar" -> SidecarProvide(s, c)
      [] name = "pullsecret" -> PullSecretsProvide(s, c)
      [] name = "confighash" -> ConfigHashProvide(s, c)

EnvProvide(name, s, c) ==
    CASE name = "web" -> WebServicesEnvProvide(s, c)
      [] name = "metrics" -> MetricsEnvProvide(s, c)
      [] name = "database" -> DatabaseEnvProvide(s, c)
      [] name = "objectstore" -> ObjectStoreEnvProvide(s, c)
      [] name = "featureflags" -> FeatureFlagsEnvProvide(s, c)
      [] name = "kafka" -> KafkaEnvProvide(s, c)
      [] name = "reverseproxy" -> NewLocalReverseProxy(s, c)
      [] name = "namespace" -> NamespaceEnvProvide(s, c)
      [] name = "serviceaccount" -> ServiceAccountEnvProvide(s, c)
      [] name = "pullsecret" -> PullSecretsEnvProvide(s, c)
      [] OTHER -> s

(* The registry, in the order of its numbers.  Providers with the same     *)
(* number have no order of their own: both directions are tried.           *)
Registry ==
    <<<<"cronjob", "deployment">>, <<"web">>, <<"metrics">>, <<"dependencies">>,
      <<"database", "inmemorydb", "objectstore", "featureflags", "logging">>, <<"kafka">>,
      <<"reverseproxy">>, <<"autoscaler">>, <<"namespace">>, <<"serviceaccount">>,
      <<"servicemesh", "sidecar", "pullsecret">>, <<"confighash">>>>

Directions == {"as registered", "backwards"}

\* the providers of the numbers from..to
Ordered(from, to, direction) ==
    LET Group(n) == IF direction = "backwards" THEN Reverse(Registry[n]) ELSE Registry[n]
    IN  FlattenSeq([i \in 1..(to - from + 1) |-> Group(from + i - 1)])

\* one after the other until one fails
Run(w, s, c, names) ==
    LET step(t, name) == IfOk(t, IF w = "env" THEN EnvProvide(name, t, c) ELSE Provide(name, t, c))
    IN  FoldLeft(step, s, names)

----------------------------------------------------------------------------
(* A reconcile *)

\* mutant: the controller is queued for the object
Fail_Controller(w, s) ==
    /\ pass' = [pass EXCEPT ![w] = Idle]
    /\ queue' = queue \union {w}
    /\ round' = IF round < MaxRound THEN round + 1 ELSE round

Fail(w, s) ==
    /\ pass' = [pass EXCEPT ![w] = Idle]
    /\ queue' = queue \union {IF w = "env" THEN "env" ELSE s.app.name}
    /\ round' = IF round < MaxRound THEN round + 1 ELSE round

\* values generated in two reconciles differ
Nonce(w) == 2 * round + (IF w = "env" THEN 1 ELSE 2)

BeginEnv ==
    /\ "env" \in queue /\ pass["env"] = Idle
    /\ Turn
    /\ queue' = queue \ {"env"}
    /\ \E fresh \in IF Env.web.mode = "local" THEN BOOLEAN ELSE {FALSE} :
         pass' = [pass EXCEPT !["env"] =
            [at |-> "workload", s |-> [NewSession(Env, Env, Env, {}, {}, Nonce("env")) EXCEPT !.fresh = fresh]]]
    /\ UNCHANGED <<world, cluster, outside, reconciled, round, changed, left>>

\* an app is skipped, and woken later, until the environment as it is has been reconciled
BeginApp(a) ==
    /\ a \in queue \ {"env"} /\ pass["app"] = Idle
    /\ reconciled = Env
    /\ Turn
    /\ queue' = queue \ {a}
    /\ pass' = [pass EXCEPT !["app"] =
            [at |-> "workload", s |-> NewSession(AppCalled(a), Env, AppCalled(a), {}, {}, Nonce("app"))]]
    /\ UNCHANGED <<world, cluster, outside, reconciled, round, changed, left>>

\* what the providers write at once is in the cluster before the next one runs
WriteNow(s) == [id \in s.now |-> s.objs[id]] @@ cluster
Written(s) == [s EXCEPT !.orig = [id \in s.now |-> s.objs[id]] @@ @, !.now = {}, !.made = {}, !.apps = {}, !.outside = {}]

(* The providers read other people's objects at 4, the apps, and at 5 and  *)
(* 6, the Secrets of stores and brokers: between these steps others move.  *)
ProviderSteps == "workload" :> <<1, 3, "stores">> @@ "stores" :> <<4, 6, "rest">> @@ "rest" :> <<7, 12, "apply">>

\* A request to the cluster or a call to a server may fail after some of them have done their work.
RunProviders(w) ==
    /\ pass[w].at \in DOMAIN ProviderSteps
    /\ LET step == ProviderSteps[pass[w].at]
           begun == [pass[w].s EXCEPT !.apps = Apps, !.outside = outside]
       IN  \E direction \in Directions :
             LET names == Ordered(step[1], step[2], direction)
             IN  \E done \in IF left.faults > 0 /\ world \in AnyTime THEN 0..Len(names) ELSE {Len(names)} :
                   \E s \in {Run(w, begun, cluster, SubSeq(names, 1, done))} :
                     /\ cluster' = WriteNow(s)
                     /\ outside' = outside \union s.made
                     /\ changed' = (changed \/ cluster' # cluster)
                     /\ left' = IF done < Len(names) THEN [left EXCEPT !.faults = @ - 1] ELSE left
                     /\ IF done = Len(names) /\ s.err = ""
                        THEN /\ pass' = [pass EXCEPT ![w] = [at |-> step[3], s |-> Written(s)]]
                             /\ UNCHANGED <<queue, round>>
                        ELSE Fail(w, s)
    /\ UNCHANGED <<world, reconciled>>

\* applyOrder: the kinds of the list after all the others
ApplyOrder == <<"*", "Service", "Secret", "Deployment", "Job", "CronJob", "ScaledObject">>
Listed == {ApplyOrder[i] : i \in 2..Len(ApplyOrder)}
\* mutant: workloads before Secrets
ApplySteps_WorkloadsFirst ==
    "apply" :> <<{"Service"}, "apply workloads">>
      @@ "apply workloads" :> <<{"Deployment", "Job", "CronJob", "ScaledObject"}, "apply secrets">>
      @@ "apply secrets" :> <<{"Secret"}, "finish">>

ApplySteps == "apply" :> <<{"Service"}, "apply secrets">>
                @@ "apply secrets" :> <<{"Secret"}, "apply workloads">>
                @@ "apply workloads" :> <<{"Deployment", "Job", "CronJob", "ScaledObject"}, "finish">>
InStep(id, at) == IF at = "apply" THEN id[1] \notin Listed \ {"Service"} ELSE id[1] \in ApplySteps[at][1]

(* When a write fails any of the other objects may have been written, for  *)
(* they come out of a map: here none, one, all but one or all of them.     *)
SomeOf(ids) ==
    {{}, ids} \union {{id} : id \in ids} \union {ids \ {id} : id \in ids}

\* an object is written if it is not as it was read, and refused if somebody else wrote it since
ApplyAll(w) ==
    /\ pass[w].at \in DOMAIN ApplySteps
    /\ LET s == pass[w].s
           wanted == {id \in DOMAIN s.objs : InStep(id, pass[w].at) /\ s.objs[id] # s.orig[id]}
           conflicts == {id \in wanted : Read(cluster, id) # s.orig[id]}
           Write(ids) == [id \in ids |-> s.objs[id]] @@ cluster
       IN  /\ \/ /\ conflicts = {}
                 /\ cluster' = Write(wanted)
                 /\ pass' = [pass EXCEPT ![w].at = ApplySteps[@][2]]
                 /\ UNCHANGED <<queue, round, left>>
              \/ /\ conflicts # {}
                 /\ \E done \in SomeOf(wanted \ conflicts) : cluster' = Write(done)
                 /\ Fail(w, s)
                 /\ UNCHANGED left
              \/ /\ wanted # {} /\ left.faults > 0 /\ world \in AnyTime
                 /\ \E done \in SomeOf(wanted \ conflicts) : cluster' = Write(done)
                 /\ left' = [left EXCEPT !.faults = @ - 1]
                 /\ Fail(w, s)
           /\ changed' = (changed \/ cluster' # cluster)
    /\ UNCHANGED <<world, outside, reconciled>>

\* mutant: nothing is protected
ProtectedGVKs_None == {}

ProtectedGVKs == {"KafkaTopic"}

\* Reconcile of the cache: of the kinds the providers may make, what carries the owner's label
Unused(s) ==
    {id \in DOMAIN cluster :
        /\ id \notin DOMAIN s.objs
        /\ id[1] \in s.gvks \ ProtectedGVKs
        /\ cluster[id].owner = s.o.name
        /\ GetPrimaryLabel(s.o) \in DOMAIN cluster[id].labels
        /\ cluster[id].labels[GetPrimaryLabel(s.o)] = s.o.name
        /\ s.o.kind = "app" => id[2] = s.o.ns}

DeleteUnusedResources(w) ==
    /\ pass[w].at = "finish"
    /\ LET s == pass[w].s
       IN  /\ cluster' = [id \in DOMAIN cluster \ Unused(s) |-> cluster[id]]
           /\ reconciled' = IF w = "env" THEN s.o ELSE reconciled
    /\ changed' = (changed \/ cluster' # cluster)
    /\ pass' = [pass EXCEPT ![w] = Idle]
    /\ UNCHANGED <<world, outside, queue, round, left>>

----------------------------------------------------------------------------
(* Everything else that happens *)

Quiet == queue = {} /\ AllIdle /\ ~changed

\* the resync of the informers
Wake ==
    /\ queue = {} /\ AllIdle /\ changed
    /\ queue' = Everybody
    /\ changed' = FALSE
    /\ UNCHANGED <<world, cluster, outside, pass, reconciled, round, left>>

(* Strimzi answers: a Kafka gets its address and a certificate, a user a   *)
(* Secret with a password.                                                 *)
Listener(id) == cluster[id].listener @@ [host |-> Host(<<id[2], id[3] \o <<"bootstrap">>>>)]
Unanswered ==
    {id \in DOMAIN cluster :
        \/ id[1] = "Kafka" /\ cluster[id].owner = Env.name /\ cluster[id].status.listeners # {Listener(id)}
        \/ id[1] = "KafkaUser" /\ cluster[id].status.secret = <<>>}

Strimzi(id) ==
    /\ id \in Unanswered
    /\ LET obj == cluster[id]
           foreign == [owner |-> "strimzi", labels |-> NoData]
       IN  cluster' =
             IF id[1] = "Kafka"
             THEN id :> [obj EXCEPT !.status.listeners = {Listener(id)}]
                    @@ <<"Secret", id[2], id[3] \o <<"cluster", "ca", "cert">>>> :> (foreign @@ [data |-> "ca.crt" :> <<0, "ca">>])
                    @@ cluster
             ELSE id :> [obj EXCEPT !.status.secret = id[3]]
                    @@ <<"Secret", id[2], id[3]>> :> (foreign @@ [data |-> [password |-> <<0, id[3]>>]])
                    @@ cluster
    /\ changed' = TRUE
    /\ UNCHANGED <<world, outside, queue, pass, reconciled, round, left>>

\* new specifications, which the webhook admits, and new objects of users and of other environments
Edit(w) ==
    /\ w \in Edits[world] /\ left.edits > 0
    /\ world \in AnyTime \/ Quiet
    /\ \A a \in Worlds[w].apps : processValidations(a)
    /\ world' = w
    /\ cluster' = cluster @@ Worlds[w].given
    /\ queue' = {"env"} \union {a.name : a \in Worlds[w].apps}
    /\ changed' = TRUE
    /\ left' = [left EXCEPT !.edits = @ - 1]
    /\ UNCHANGED <<outside, pass, reconciled, round>>

\* a new process knows nothing of what the old one held in memory
Restart ==
    /\ left.faults > 0
    /\ world \in AnyTime \/ Quiet
    /\ pass' = [w \in Workers |-> Idle]
    /\ queue' = Everybody
    /\ outside' = {m \in outside : m[1] # "ca"}
    /\ round' = IF AllIdle \/ round = MaxRound THEN round ELSE round + 1
    /\ left' = [left EXCEPT !.faults = @ - 1]
    /\ UNCHANGED <<world, cluster, reconciled, changed>>

\* the Secrets whose content is made up by Clowder
GeneratedSecrets ==
    {Id("Secret", GetNamespacedName(Env, name)) : name \in {"minio", "featureflags", "keycloak"}}
      \union {Id("Secret", FeatureFlagsDB(Env)), <<"Secret", Env.ns, <<"keycloak-db">>>>}
      \union {Id("Secret", VersionName(Env, v)) : v \in DOMAIN VersionTag}
      \union {Id("Secret", GetNamespacedName(a, "db")) : a \in {b \in Apps : Env.db.mode = "local"}}

\* a user deletes a Secret with generated credentials, to have new ones made
DeleteSecret(id) ==
    /\ left.deletes > 0 /\ id \in DOMAIN cluster /\ id \in GeneratedSecrets
    /\ world \in AnyTime \/ Quiet
    /\ cluster' = [i \in DOMAIN cluster \ {id} |-> cluster[i]]
    /\ queue' = Everybody
    /\ changed' = TRUE
    /\ left' = [left EXCEPT !.deletes = @ - 1]
    /\ round' = IF round < MaxRound THEN round + 1 ELSE round
    /\ UNCHANGED <<world, outside, pass, reconciled>>

\* an autoscaler adds a replica to its target
Scale(id) ==
    /\ left.scales > 0
    /\ id \in DOMAIN cluster /\ id[1] \in {"HPA", "ScaledObject"}
    /\ LET target == <<"Deployment", id[2], cluster[id].target>>
       IN  /\ target \in DOMAIN cluster
           /\ cluster[target].replicas < cluster[id].max
           /\ cluster' = [cluster EXCEPT ![target].replicas = @ + 1]
    /\ world \in AnyTime \/ Quiet
    /\ changed' = TRUE
    /\ left' = [left EXCEPT !.scales = @ - 1]
    /\ UNCHANGED <<world, outside, queue, pass, reconciled, round>>

(* An invocation runs jobs of its app, and tests, once the app is up.  Its *)
(* own steps are the subject of JobInvocation.                             *)
InvokedJob(cji, job) == <<"Job", cji.ns, <<job.name, cji.name>>>>

InvokeJob(s, c, cji) ==
    LET jobs == {job \in ToSet(s.app.jobs) : job.name \in cji.jobs}
        JobOf(id) == CHOOSE job \in jobs : id = InvokedJob(cji, job)
    IN  IF \E job \in jobs : Unnamed(job.initContainers) THEN Err(s, "init containers must have name")
        ELSE PutAll(s, c, [id \in {InvokedJob(cji, job) : job \in jobs} |->
                              CreateJobResource(cji, s.env, s.app, <<id[2], id[3]>>, JobOf(id))])

Invoke(cji) ==
    /\ cji \in Worlds[world].invocations
    /\ Quiet /\ reconciled = Env
    /\ \A id \in DOMAIN cluster : cluster[id].owner # cji.name
    /\ LET jobs == InvokeJob(NewSession(cji, Env, AppCalled(cji.app), Apps, outside, 0), cluster, cji)
           s == IfOk(jobs, IF cji.iqe THEN CreateIqeJobResource(jobs, cluster, cji) ELSE jobs)
       IN  s.err = "" /\ cluster' = s.objs @@ cluster
    /\ UNCHANGED <<world, outside, queue, pass, reconciled, round, changed, left>>

----------------------------------------------------------------------------
Init ==
    /\ world \in Start
    /\ cluster = Worlds[world].given
    /\ outside = {}
    /\ queue = Everybody
    /\ pass = [w \in Workers |-> Idle]
    /\ reconciled = [name |-> "none"]
    /\ round = 0
    /\ changed = FALSE
    /\ left = Worlds[world].budget

Next ==
    \/ BeginEnv
    \/ \E a \in queue \ {"env"} : BeginApp(a)
    \/ \E w \in Workers : RunProviders(w)
    \/ \E w \in Workers : ApplyAll(w)
    \/ \E w \in Workers : DeleteUnusedResources(w)
    \/ Wake
    \/ \E id \in Unanswered : Strimzi(id)
    \/ \E w \in Edits[world] : Edit(w)
    \/ Restart
    \/ \E id \in DOMAIN cluster : DeleteSecret(id)
    \/ \E id \in DOMAIN cluster : Scale(id)
    \/ \E cji \in Worlds[world].invocations : Invoke(cji)

(* Queues and resync are fair, and so is Strimzi.  An app that can begin   *)
(* again and again does so in the end: a reconcile that fails backs off.   *)
(* Fairness is spelled out with what enables each step and what it does.   *)
CanBegin(a) == a \in queue /\ pass["app"] = Idle /\ reconciled = Env /\ Turn
CanBeginEnv == "env" \in queue /\ pass["env"] = Idle /\ Turn
CanWake == queue = {} /\ AllIdle /\ changed

Fairness ==
    /\ <>[]~CanBeginEnv \/ []<><<"env" \in queue \ queue'>>_vars
    /\ \A a \in UNION {{b.name : b \in Worlds[w].apps} : w \in DOMAIN Worlds} :
         <>[]~CanBegin(a) \/ []<><<a \in queue \ queue'>>_vars
    /\ \A w \in Workers : []<>(pass[w] = Idle) \/ []<><<pass'[w] # pass[w]>>_vars
    /\ []<>~CanWake \/ []<><<queue = {} /\ queue' # {}>>_vars
    /\ []<>(Unanswered = {}) \/ []<><<Unanswered \ Unanswered' # {}>>_vars

Spec == Init /\ [][Next]_vars /\ Fairness

----------------------------------------------------------------------------
(* Properties *)

Settled == Quiet /\ Unanswered = {}
Of(kind) == {id \in DOMAIN cluster : id[1] = kind}
Owners == {Env.name} \union {a.name : a \in Apps}
ConfigOf(a) == cluster[ConfigSecret(a)].data["cdappconfig.json"]
Tells(a, part) == ConfigSecret(a) \in DOMAIN cluster /\ part \in DOMAIN ConfigOf(a)

\* every variable has values of its type
TypeOK ==
    /\ world \in DOMAIN Worlds
    /\ \A id \in DOMAIN cluster : {"owner", "labels"} \subseteq DOMAIN cluster[id]
    /\ queue \subseteq Everybody
    /\ \A w \in Workers : pass[w] = Idle \/ (pass[w].s.err = "" /\ pass[w].at \in
            DOMAIN ProviderSteps \union DOMAIN ApplySteps \union {"finish"})
    /\ round \in 0..MaxRound
    /\ changed \in BOOLEAN
    /\ \A k \in DOMAIN left : left[k] \in Nat

(* What the pods of an object read: a Secret with that key, a ConfigMap, a *)
(* claim, a Service.  The platform makes the service CA, the certificate a *)
(* Service asks for and the Secret of a Certificate.                       *)
ByPlatform(ns, u) ==
    \/ u[2] = <<"openshift-service-ca.crt">>
    \/ \E id \in Of("Service") : id[2] = ns /\ "cert" \in DOMAIN cluster[id] /\ cluster[id].cert = u[2]
    \/ \E id \in Of("Certificate") : id[2] = ns /\ cluster[id].secret = u[2]
Resolves(ns, u) ==
    LET id == <<u[1], ns, u[2]>>
    IN  \/ id \in DOMAIN cluster
            /\ CASE u[1] = "Service" -> \E p \in cluster[id].ports : p[2] = u[3]
                 [] u[1] = "Secret" -> u[3] = "*" \/ u[3] \in DOMAIN cluster[id].data
                 [] OTHER -> TRUE
        \/ ByPlatform(ns, u)

PodsUse(id) == IF "anno" \in DOMAIN cluster[id] THEN Handle(cluster[id]).uses ELSE cluster[id].uses

\* the proxy is made even if there is no store behind it
NothingToProxy(id) == id[3] = GetNamespacedName(Env, "reverse-proxy")[2] /\ Env.store.mode # "minio"

(* At rest every object a workload refers to is there, under the name and  *)
(* with the keys that it is referred to by: Secrets, ConfigMaps, claims,   *)
(* accounts and the accounts' pull secrets, made by other providers, in    *)
(* other reconciles, or by the pod webhook's annotation.                   *)
Wired ==
    Settled =>
        /\ \A id \in {i \in DOMAIN cluster : "uses" \in DOMAIN cluster[i]} :
             NothingToProxy(id) \/ \A u \in PodsUse(id) : Resolves(id[2], u)
        /\ \A id \in {i \in DOMAIN cluster : "sa" \in DOMAIN cluster[i]} :
             cluster[id].sa = <<"default">> \/ <<"ServiceAccount", id[2], cluster[id].sa>> \in DOMAIN cluster
        /\ \A id \in {i \in DOMAIN cluster : "pull" \in DOMAIN cluster[i]} :
             \A name \in cluster[id].pull : <<"Secret", id[2], name>> \in DOMAIN cluster

Selected(svc) ==
    LET sel == cluster[svc].sel
    IN  {id \in Of("Deployment") : id[2] = svc[2] /\ DOMAIN sel \subseteq DOMAIN cluster[id].pod
                                     /\ \A k \in DOMAIN sel : cluster[id].pod[k] = sel[k]}

(* At rest every Service selects the pods of one deployment, which listen  *)
(* on all the ports it forwards to (the authentication sidecar's included),*)
(* the TLS proxy in the pod forwards to ports of the app, and every        *)
(* Ingress leads to a port of a Service.  (The proxy has no default for a  *)
(* private port that the environment does not set.)                        *)
ServicesLead ==
    Settled =>
        /\ \A svc \in {id \in Of("Service") : cluster[id].owner \in Owners} :
             /\ Cardinality(Selected(svc)) = 1
             /\ \A dep \in Selected(svc) : \A p \in cluster[svc].ports : p[3] \in Handle(cluster[dep]).ports
        /\ \A dep \in Of("Deployment") :
             LET proxy == CaddyConfig(<<dep[2], dep[3]>>)
             IN  <<"ConfigMap", proxy, "*">> \in cluster[dep].uses =>
                    \A server \in cluster[<<"ConfigMap", dep[2], proxy>>].data["caddy.json"] :
                        \/ server \in cluster[dep].ports \X cluster[dep].ports
                        \/ server[2] = 0 /\ Env.web.privatePort = 0
        /\ \A id \in Of("Ingress") : \A b \in cluster[id].backends :
             LET svc == <<"Service", id[2], b[1]>>
             IN  svc \in DOMAIN cluster /\ \E p \in cluster[svc].ports : p[1] = b[2]

Server(host) == {id \in Of("Deployment") : Host(<<id[2], id[3]>>) = host}

(* At rest the configuration of every app has the credentials its servers  *)
(* run with, the databases and buckets it names exist, and Cyndi is told   *)
(* where the app's database is, whatever Secret was deleted and made again *)
(* in between.  The name of a local database is left out: it is the one of *)
(* the Secret, which keeps the first name.                                 *)
CredentialsAgree ==
    Settled => \A a \in Apps :
        /\ Tells(a, "database") /\ Env.db.mode \in {"local", "shared"} =>
             LET db == ConfigOf(a).database
             IN  /\ Cardinality(Server(db.hostname)) = 1
                 /\ \A id \in Server(db.hostname) :
                      /\ <<cluster[id].env.user, cluster[id].env.password, cluster[id].env.admin>>
                            = <<db.username, db.password, db.admin>>
                      /\ Env.db.mode = "shared" => <<"database", <<id[2], id[3]>>, db.name>> \in outside
        /\ Tells(a, "database") /\ Env.db.mode = "app-interface" => ConfigOf(a).database.ca = Env.db.caURL
        /\ Tells(a, "objectStore") /\ Env.store.mode = "minio" =>
             LET minio == GetNamespacedName(Env, "minio")
             IN  \A b \in ConfigOf(a).objectStore.buckets :
                   /\ <<b.access, b.secret>> = <<cluster[Id("Secret", minio)].data.accessKey, cluster[Id("Secret", minio)].data.secretKey>>
                   /\ <<"bucket", minio, b.name>> \in outside
        /\ Tells(a, "featureFlags") /\ Env.ff.mode = "local" =>
             ConfigOf(a).featureFlags.token = cluster[Id("Secret", GetNamespacedName(Env, "featureflags"))].data.clientAccessToken
        /\ a.cyndi.enabled /\ Env.kafka.mode = "operator" =>
             cluster[<<"Secret", getConnectNamespace(Env), <<Env.name, a.name, "db", "cyndi">>>>].data["db.host"]
                = cluster[Id("Secret", GetNamespacedName(a, "db"))].data.hostname

(* At rest the hash on the pods of every workload of an app is that of its *)
(* configuration, and that on pods with an authentication sidecar the hash *)
(* of the sidecar's: no pod runs with a configuration that is out of date. *)
HashCovers ==
    Settled =>
        /\ \A a \in Apps : \A id \in CoreDeployments(a) \union {Id("CronJob", GetCronJobName(a, job)) : job \in Scheduled(a)} :
             "configHash" \in DOMAIN cluster[id].anno /\ cluster[id].anno.configHash = ConfigOf(a)
        /\ \A id \in {i \in Of("Deployment") : AuthSidecar(cluster[i])} :
             cluster[id].anno.authHash = cluster[<<"Secret", id[2], cluster[id].anno.authConfig>>].data

\* "web: true", which is deprecated, gets no TLS port
Deprecated(a, name) == \E d \in DeploymentsOf(a) : d.name = name /\ d.web /\ ~d.public

(* At rest every endpoint an app is told of a ClowdApp is a port of the    *)
(* Service of that deployment.                                             *)
EndpointsServed ==
    Settled => \A a \in Apps : \A part \in {"endpoints", "privateEndpoints"} :
        Tells(a, part) => \A e \in ConfigOf(a)[part] :
            \A b \in {x \in Apps : \E d \in DeploymentsOf(x) : Host(DeploymentNN(x, d)) = e.host} :
                LET svc == Id("Service", <<b.ns, <<b.name, e.name>>>>)
                    told == {e.port, e.h2c, e.h2cTLS} \union (IF Deprecated(b, e.name) THEN {} ELSE {e.tls})
                IN  svc \in DOMAIN cluster /\ \A n \in told \ {0} : \E p \in cluster[svc].ports : p[2] = n

(* At rest a topic that several apps ask for has the most partitions and   *)
(* the longest retention any of them asks for, the configuration names it, *)
(* and the user of the app is allowed on it.                               *)
TopicsCover ==
    Settled /\ Env.kafka.mode \in {"operator", "ephem-msk"} => \A a \in Apps : \A t \in ToSet(a.topics) :
        LET name == KafkaTopicName(Env, t.name, a.ns)
            id == Id("KafkaTopic", <<KafkaNamespace(Env), name>>)
            user == Id("KafkaUser", <<getKafkaNamespace(Env), getKafkaUsername(Env, a)>>)
        IN  /\ id \in DOMAIN cluster
            /\ Covers(cluster[id], t)
            /\ [name |-> name, requestedName |-> t.name] \in ConfigOf(a).topics
            /\ Env.kafka.mode = "operator" /\ ~Env.kafka.legacy => name \in cluster[user].topics

\* what an app is to have of each kind
Wanted(a) ==
    LET own == CoreDeployments(a)
        db == IF Env.db.mode = "local" /\ a.db.name # "" /\ a.db.shared = "" THEN {GetNamespacedName(a, "db")} ELSE {}
        redis == IF Env.inMemory = "redis" /\ a.inMemoryDb /\ a.sharedInMemory = "" THEN {GetNamespacedName(a, "redis")} ELSE {}
        runs == {<<id[2], id[3]>> : id \in own} \union db \union redis
    IN  {Id("Deployment", nn) : nn \in runs} \union {Id("Service", nn) : nn \in runs}
          \union {Id("CronJob", GetCronJobName(a, job)) : job \in Scheduled(a)}
          \union {Id("ScaledObject", DeploymentNN(a, d)) : d \in {e \in DeploymentsOf(a) : Env.autoscaler /\ e.autoscaler = "keda"}}

(* At rest the workloads of an app are those of its specification: what    *)
(* is no longer asked for is gone, and nothing else is.                    *)
WorkloadsExact ==
    Settled => \A a \in Apps :
        {id \in DOMAIN cluster : cluster[id].owner = a.name
            /\ id[1] \in {"Deployment", "Service", "CronJob"} \union When(Env.autoscaler, "ScaledObject")} = Wanted(a)

(* At rest a sidecar runs with the app's variables, and with those of the  *)
(* environment that the app does not set; an init container that inherits, *)
(* with its own, and with those of the deployment that it does not set; a  *)
(* test job has no variable twice.                                         *)
OwnVariablesWin ==
    Settled =>
        /\ \A a \in Apps : \A d \in DeploymentsOf(a) :
             LET init == cluster[CoreDeployment(a, d)].init
             IN  /\ \A i \in DOMAIN d.initContainers :
                      d.initContainers[i].inheritEnv => Overrides(init[i].env, d.initContainers[i].env, loadEnvVars(d.env))
                 /\ \A sidecar \in ToSet(d.sidecars) :
                      sidecar.name = "otel-collector" /\ Env.sidecars.otel.enabled =>
                        Overrides(Last(init).env, sidecar.env, Env.sidecars.otel.env)
        /\ \A id \in Of("Job") : Cardinality(Names(cluster[id].vars)) = Len(cluster[id].vars)

(* Generated credentials are made once: no reconcile, late, failed or      *)
(* repeated, replaces those of a Secret that is there.  (Of Keycloak's the *)
(* version follows the specification.)                                     *)
SecretsStable ==
    [][\A id \in GeneratedSecrets \intersect DOMAIN cluster \intersect DOMAIN cluster' :
          \A k \in DOMAIN cluster[id].data \ {"version"} : cluster'[id].data[k] = cluster[id].data[k]]_cluster

(* No reconcile takes replicas away from a deployment that an autoscaler   *)
(* has given more than the specification asks for, even one that had read  *)
(* the deployment before.                                                  *)
ReplicasKept ==
    [][\A a \in Apps : \A d \in DeploymentsOf(a) :
          LET id == CoreDeployment(a, d)
          IN  d.autoscaler # "none" /\ d.replicas # 0 /\ id \in DOMAIN cluster /\ world' = world =>
                id \in DOMAIN cluster' /\ cluster'[id].replicas >= cluster[id].replicas]_cluster

(* A deployment is made, or its pods rolled out, with the hash of a new    *)
(* configuration only when the configuration Secret has that content.      *)
RolledOutAfter ==
    [][\A a \in Apps : \A id \in CoreDeployments(a) :
          id \in DOMAIN cluster' /\ (id \notin DOMAIN cluster \/ cluster'[id].anno # cluster[id].anno) =>
            /\ ConfigSecret(a) \in DOMAIN cluster'
            /\ cluster'[id].anno.configHash = cluster'[ConfigSecret(a)].data["cdappconfig.json"]]_cluster

\* written without a look at whose they are
Unchecked ==
    {Id("NetworkPolicy", ClusterNN(Env)), Id("ConfigMap", <<getKafkaNamespace(Env), getKafkaName(Env) \o <<"metrics">>>>)}
      \union Of("KafkaTopic")

(* "ensure that kafka cluster of this same name but labelled for different *)
(* env does not exist" (strimzi.go): what is neither the environment's nor *)
(* one of its apps' is not deleted and not changed, the clusters of other  *)
(* environments in the first place, which may come while a reconcile runs. *)
(* The exceptions: the network policy and the metrics of the brokers are   *)
(* written before that look, and topics without one.                       *)
ForeignKept ==
    [][world' = world =>
         LET owners == Owners
             exceptions == Unchecked
         IN  \A id \in DOMAIN cluster :
               \/ cluster[id].owner \in owners
               \/ id \in DOMAIN cluster' /\ (cluster'[id] = cluster[id] \/ id \in exceptions)]_cluster

(* What no reconcile gets past: a dependency that does not exist, a Kafka  *)
(* trigger without Kafka, a scheduled job with init containers that have   *)
(* no names (the webhook looks at deployments only), an app without a      *)
(* version among shared databases with claims, a cluster of another        *)
(* environment, a database Secret of app-interface that is not there.      *)
Unsatisfiable ==
    \/ Env.db.mode = "shared" /\ Env.db.pvc /\ (\E a \in Apps : a.db.version = 0) /\ \E a \in Apps : a.db.name # ""
    \/ \E id \in {Id("Kafka", ClusterNN(Env)), Id("KafkaConnect", ConnectNN(Env))} \intersect DOMAIN cluster :
         cluster[id].owner # Env.name
    \/ \E a \in Apps :
         \/ \E name \in a.dependencies : \A o \in Apps \union Env.refs : o.name # name
         \/ Env.db.mode = "app-interface" /\ a.db.name # ""
              /\ \A id \in SecretsIn(cluster, a.ns) : "db.host" \notin DOMAIN cluster[id].data \/ Last(cluster[id].data["db.host"]) = "readonly"
         \/ \E job \in Scheduled(a) : Unnamed(job.initContainers)
         \/ \E d \in DeploymentsOf(a) : Env.autoscaler /\ Env.kafka.mode = "none" /\ d.autoscaler = "keda" /\ "kafka" \in d.scale.triggers

(* Edits, faults and lost races end, and then everything is reconciled.    *)
Settles == []<>(Settled \/ Unsatisfiable)
=============================================================================
