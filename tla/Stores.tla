------------------------------- MODULE Stores -------------------------------
(***************************************************************************)
(* The providers of databases, in-memory databases, object stores and      *)
(* feature flags, in all their modes.  XProvide(s, c) is what Provide does *)
(* to the session s of an app's reconcile when it sees the cluster c,      *)
(* XEnvProvide(s, c) what EnvProvide does in the environment's reconcile.  *)
(* Registering Secrets in the hash cache is left to ConfigWatch.           *)
(***************************************************************************)
EXTENDS Resources

\* the app of that name, which the apps of an environment have once
AppNamed(s, name) == CHOOSE a \in s.apps : a.name = name
HasApp(s, name) == \E a \in s.apps : a.name = name

\* checkDependency and GetAppForDBInSameEnv
CanShare(s, name) == name \in s.app.dependencies /\ HasApp(s, name)

----------------------------------------------------------------------------
(* Databases *)

DBKinds == {"Deployment", "Service", "PVC", "Secret"}
GetDBVersion(app) == IF app.db.version = 0 THEN 12 ELSE app.db.version

NewDBSecret(s, nn, name) ==
    [hostname |-> Host(nn), port |-> 5432, username |-> Rnd(s, nn, "username"),
     password |-> Rnd(s, nn, "password"), pgPass |-> Rnd(s, nn, "pgPass"), name |-> name]

\* Populate
DBConfig(data) ==
    [hostname |-> data.hostname, port |-> data.port, username |-> data.username,
     password |-> data.password, admin |-> data.pgPass, name |-> data.name, ca |-> ""]

\* the Secret of the app that is shared from, which must have been reconciled
processSharedDB(s, c) ==
    LET ref == AppNamed(s, s.app.db.shared)
        id == Id("Secret", GetNamespacedName(ref, "db"))
    IN  IF ~CanShare(s, s.app.db.shared) THEN Err(s, "shared database")
        ELSE IF id \notin DOMAIN c THEN Err(s, "no secret")
        ELSE Configure(s, "database", DBConfig(c[id].data))

\* Deployment, Service and claim of a database; cfg is its Secret's data
DBObjects(o, nn, extra, cfg, usePVC, dbName, capacity) ==
    Id("Deployment", nn) :> MakeLocalDB(o, nn, extra, cfg, usePVC, dbName)
      @@ Id("Service", nn) :> MakeLocalDBService(o, extra)
      @@ (IF usePVC THEN Id("PVC", nn) :> MakeLocalDBPVC(o, capacity) ELSE NoData)

\* mutant: the app is given the fresh credentials
LocalDBProvide_Fresh(s, c) ==
    LET app == s.app
        nn == GetNamespacedName(app, "db")
        init == NewDBSecret(s, nn, app.db.name)
        data == SecretData(c, Id("Secret", nn), init)
    IN  IF app.db.shared # "" THEN processSharedDB(s, c)
        ELSE IF ~HasDatabaseImage(GetDBVersion(app)) THEN Err(s, "no image")
        ELSE Configure(PutAll(MakeOrGetSecret(s, c, app, nn, init), c,
                              DBObjects(app, nn, [sub |-> "local_db"], data, s.env.db.pvc, app.db.name,
                                        GetVolCapacityForSize(app.db.volumeSize))),
                       "database", DBConfig(init))

LocalDBProvide(s, c) ==
    LET app == s.app
        nn == GetNamespacedName(app, "db")
        init == NewDBSecret(s, nn, app.db.name)
        data == SecretData(c, Id("Secret", nn), init)
    IN  IF app.db.shared # "" THEN processSharedDB(s, c)
        ELSE IF ~HasDatabaseImage(GetDBVersion(app)) THEN Err(s, "no image")
        ELSE Configure(PutAll(MakeOrGetSecret(s, c, app, nn, init), c,
                              DBObjects(app, nn, [sub |-> "local_db"], data, s.env.db.pvc, app.db.name,
                                        GetVolCapacityForSize(app.db.volumeSize))),
                       "database", DBConfig(data))

VersionTag == 12 :> "v12" @@ 13 :> "v13" @@ 14 :> "v14" @@ 15 :> "v15" @@ 16 :> "v16"
VersionName(env, version) == <<env.ns, <<env.name, "db", VersionTag[version]>>>>

\* the largest volume an app of this version asks for
LargestVolume(s, version) ==
    LET sizes == {useDefaultIfEmptySize(a.db.volumeSize, "x-small") : a \in {b \in s.apps : b.db.version = version}}
    IN  CHOOSE z \in sizes \union {"x-small"} : \A y \in sizes : ~IsSizeLarger(y, z)

\* with claims the version of every app is dereferenced, set or not
createVersionedDatabase(s, c, version) ==
    LET nn == VersionName(s.env, version)
        init == NewDBSecret(s, nn, s.env.name)
        data == SecretData(c, Id("Secret", nn), init)
    IN  IF ~HasDatabaseImage(version) THEN Err(s, "no image")
        ELSE IF s.env.db.pvc /\ \E a \in s.apps : a.db.version = 0 THEN Err(s, "nil version")
        ELSE PutAll(MakeOrGetSecret(s, c, s.env, nn, init), c,
                    DBObjects(s.env, nn, [sub |-> VersionTag[version]], data, s.env.db.pvc, s.env.name,
                              GetVolCapacityForSize(LargestVolume(s, version))))

\* one database server for every version an app with a database asks for
SharedDBEnvProvide(s, c) ==
    LET versions == {GetDBVersion(a) : a \in {b \in s.apps : b.db.name # ""}}
        step(t, n) == IfOk(t, createVersionedDatabase(t, c, n))
    IN  FoldLeft(step, s, SetToSortSeq(versions, <))

\* a server that providers call themselves answers once it is deployed; other failures are faults
Reachable(c, nn) == Id("Deployment", nn) \in DOMAIN c

\* the logical database is created if it does not exist; the app gets a Secret of its own
SharedDBProvide(s, c) ==
    LET app == s.app
        server == VersionName(s.env, GetDBVersion(app))
        data == [c[Id("Secret", server)].data EXCEPT !.name = app.db.name]
        id == Id("Secret", GetNamespacedName(app, "db"))
        old == IF id \in DOMAIN c THEN c[id].data ELSE NoData
    IN  IF app.db.shared # "" THEN processSharedDB(s, c)
        ELSE IF Id("Secret", server) \notin DOMAIN c THEN Err(s, "no secret")
        ELSE IF ~Reachable(c, server) THEN Err(s, "no server")
        ELSE Configure(Put([s EXCEPT !.made = @ \union {<<"database", server, app.db.name>>}], c, id,
                           Secret(app, IF id \in DOMAIN c THEN c[id].labels ELSE NoData, data @@ old)),
                       "database", DBConfig(data))

\* the CA bundle is fetched once and kept in memory
AppInterfaceDBEnvProvide(s, c) == [s EXCEPT !.made = @ \union {<<"ca", s.env.db.caURL>>}]

(* A Secret of app-interface: db.host is its first label as a sequence,    *)
(* db.port is 0 if it cannot be parsed.                                    *)
WithDatabase(c, ids) == ExtractSecretData(c, ids, {"db.host", "db.port", "db.user", "db.password", "db.name"})
genDbConfigs(c, ids) == {id \in WithDatabase(c, ids) : c[id].data["db.port"] # 0}

First(c, ids) == CHOOSE id \in ids : \A other \in ids : c[id].rank <= c[other].rank

searchAnnotationSecret(c, ids, appName) ==
    LET found == {id \in ids : "clowder/database" \in DOMAIN c[id].anno /\ c[id].anno["clowder/database"] = appName}
    IN  IF found = {} THEN {} ELSE {First(c, found)}

\* "<name>-<env>", but not "<name>-readonly"
resolveDb(c, ids, name) ==
    {id \in ids : LET host == c[id].data["db.host"]
                  IN  host[Len(host)] # "readonly" /\ SubSeq(host, 1, Len(host) - 1) = <<name>>}

GetDbConfig(s, c, namespace, searchAppName, name) ==
    LET listed == {id \in SecretsIn(c, namespace) : "anno" \in DOMAIN c[id]}
        annotated == searchAnnotationSecret(c, listed, searchAppName)
        matches == IF genDbConfigs(c, annotated) # {} THEN annotated
                   ELSE resolveDb(c, genDbConfigs(c, listed), name)
        data == c[First(c, matches)].data
    IN  IF genDbConfigs(c, annotated) # WithDatabase(c, annotated) THEN Err(s, "bad port")
        ELSE IF matches = {} THEN Err(s, "missing dependency")
        ELSE Configure(s, "database",
                [hostname |-> data["db.host"], port |-> data["db.port"], username |-> data["db.user"],
                 password |-> data["db.password"], admin |-> data["db.password"], name |-> data["db.name"],
                 ca |-> IF <<"ca", s.env.db.caURL>> \in s.outside THEN s.env.db.caURL ELSE ""])

AppInterfaceDBProvide(s, c) ==
    LET app == s.app
        ref == IF app.db.shared = "" THEN app ELSE AppNamed(s, app.db.shared)
    IN  IF app.db.name # "" /\ app.db.shared # "" THEN Err(s, "name and shared app")
        ELSE IF app.db.shared # "" /\ ~CanShare(s, app.db.shared) THEN Err(s, "shared database")
        ELSE GetDbConfig(s, c, ref.ns, ref.name, ref.db.name)

\* GetDatabase; no provider does anything for an app that asks for no database
DatabaseProvide(s, c) ==
    LET t == IF s.env.db.mode \in {"local", "shared"} THEN PossibleGVKs(s, DBKinds) ELSE s
    IN  CASE s.env.db.mode = "none" -> s
          [] s.app.db.name = "" /\ s.app.db.shared = "" -> t
          [] s.env.db.mode = "local" -> LocalDBProvide(t, c)
          [] s.env.db.mode = "shared" -> SharedDBProvide(t, c)
          [] s.env.db.mode = "app-interface" -> AppInterfaceDBProvide(t, c)

DatabaseEnvProvide(s, c) ==
    CASE s.env.db.mode = "shared" -> SharedDBEnvProvide(PossibleGVKs(s, DBKinds), c)
      [] s.env.db.mode = "local" -> PossibleGVKs(s, DBKinds)
      [] s.env.db.mode = "app-interface" -> AppInterfaceDBEnvProvide(s, c)
      [] OTHER -> s

----------------------------------------------------------------------------
(* In-memory databases *)

\* username and password are optional
InMemoryConfig(data) ==
    [hostname |-> data.hostname, port |-> data.port, ssl |-> data.sslmode,
     password |-> IF "password" \in DOMAIN data THEN data.password ELSE <<0, "none">>]

makeLocalRedis(o, nn) ==
    LET labels == [service |-> "redis"] @@ "env-app" :> nn[2] @@ GetLabels(o)
    IN  [Deployment |-> Deployment(o, labels, [ports |-> {6379}, uses |-> Mounted("ConfigMap", nn[2])]),
         Service |-> MakeService(o, labels, {Port("redis", 6379)})]

processSharedInMemoryDb(s, c) ==
    LET ref == AppNamed(s, s.app.sharedInMemory)
        id == Id("Secret", GetNamespacedName(ref, "redis"))
    IN  IF ~CanShare(s, s.app.sharedInMemory) THEN Err(s, "shared in-memory database")
        ELSE IF id \notin DOMAIN c THEN Err(s, "no secret")
        ELSE Configure(s, "inMemoryDb", InMemoryConfig(c[id].data))

\* the ConfigMap is made without labels
RedisProvide(s, c) ==
    LET app == s.app
        nn == GetNamespacedName(app, "redis")
        init == [hostname |-> Host(nn), port |-> 6379, sslmode |-> FALSE]
    IN  IF app.sharedInMemory # "" THEN processSharedInMemoryDb(s, c)
        ELSE CachedMakeComponent(
               Configure(Put(MakeOrGetSecret(s, c, app, nn, init), c, Id("ConfigMap", nn),
                             ConfigMap(app, NoData, "redis.conf" :> "static")),
                         "inMemoryDb", InMemoryConfig(SecretData(c, Id("Secret", nn), init))),
               c, nn, makeLocalRedis(app, nn))

\* the Secret "in-memory-db" of the namespace of the app, or of the app shared from
ElasticacheProvide(s, c) ==
    LET app == s.app
        ref == IF app.sharedInMemory = "" THEN app ELSE AppNamed(s, app.sharedInMemory)
        id == <<"Secret", ref.ns, <<"in-memory-db">>>>
        data == c[id].data
    IN  IF app.sharedInMemory # "" /\ ~CanShare(s, app.sharedInMemory) THEN Err(s, "shared in-memory database")
        ELSE IF id \notin DOMAIN c THEN Err(s, "missing dependency")
        ELSE IF data["db.port"] = 0 THEN Err(s, "bad port")
        ELSE Configure(s, "inMemoryDb",
                [hostname |-> data["db.endpoint"], port |-> data["db.port"], ssl |-> TRUE,
                 password |-> IF "db.auth_token" \in DOMAIN data THEN data["db.auth_token"] ELSE <<0, "none">>])

InMemoryProvide(s, c) ==
    LET t == IF s.env.inMemory = "redis"
               THEN PossibleGVKs(s, {"Deployment", "Service", "ConfigMap", "Secret"}) ELSE s
    IN  CASE s.env.inMemory = "none" \/ ~s.app.inMemoryDb -> t
          [] s.env.inMemory = "redis" -> RedisProvide(t, c)
          [] s.env.inMemory = "elasticache" -> ElasticacheProvide(t, c)

----------------------------------------------------------------------------
(* Object stores *)

makeLocalMinIO(env, nn) ==
    LET labels == "env-app" :> nn[2] @@ GetLabels(env)
        pvc == env.store.pvc
    IN  [Deployment |->
            Deployment(env, labels,
                [ports |-> {9000}, image |-> Image(env, "minio"),
                 uses |-> FromSecret(nn[2], {"accessKey", "secretKey"})
                            \union (IF pvc THEN Mounted("PVC", nn[2]) ELSE {})]),
         Service |-> MakeService(env, labels, {Port("minio", 9000)})]
          @@ (IF pvc THEN "PVC" :> MakePVC(env, labels, 1) ELSE NoData)

createDefaultMinioSecMap(s, nn) ==
    [accessKey |-> Rnd(s, nn, "accessKey"), secretKey |-> Rnd(s, nn, "secretKey"),
     hostname |-> Host(nn), port |-> 9000]

\* the constructor, which runs in the reconciles of the environment and of every app
NewMinIO(s, c) ==
    LET nn == GetNamespacedName(s.env, "minio")
        t == PossibleGVKs(s, {"Deployment", "Service", "PVC", "Secret", "NetworkPolicy"})
    IN  CachedMakeComponent(MakeOrGetSecret(t, c, s.env, nn, createDefaultMinioSecMap(s, nn)),
                            c, nn, makeLocalMinIO(s.env, nn))

\* traffic from the operator's own namespace
createNetworkPolicy(s, c) ==
    Put(s, c, <<"NetworkPolicy", s.env.ns, <<"allow-from", "clowder-system", "namespace">>>>,
        Meta(s.env, GetLabels(s.env)) @@ [from |-> "clowder-system"])

\* reads the Secret again, from the cluster; makes the buckets that do not exist
MinioProvide(s, c) ==
    LET nn == GetNamespacedName(s.env, "minio")
        data == c[Id("Secret", nn)].data
        buckets == ToSet(s.app.objectStore)
    IN  IF buckets = {} THEN s
        ELSE IF Id("Secret", nn) \notin DOMAIN c THEN Err(s, "no secret")
        ELSE IF ~Reachable(c, nn) THEN Err(s, "no server")
        ELSE Configure([s EXCEPT !.made = @ \union {<<"bucket", nn, b>> : b \in buckets}], "objectStore",
                [hostname |-> data.hostname, port |-> data.port,
                 buckets |-> {[requested |-> b, name |-> b, access |-> data.accessKey, secret |-> data.secretKey]
                                : b \in buckets}])

(* The buckets the Secrets of the namespace offer, as listed: an annotated *)
(* Secret one for each name of the annotation, then one with the key       *)
(* "bucket" that one.                                                      *)
genObjStoreConfig(c, ids) ==
    LET keyed == ExtractSecretData(c, ids, {"aws_access_key_id", "aws_secret_access_key"})
        InOrder(some) == SetToSortSeq(some, LAMBDA i, j : c[i].rank < c[j].rank)
        named == InOrder({id \in keyed : "clowder/bucket-names" \in DOMAIN c[id].anno})
        single == InOrder({id \in keyed : "bucket" \in DOMAIN c[id].data})
        Bucket(id, name) == [name |-> name, access |-> c[id].data["aws_access_key_id"],
                             secret |-> c[id].data["aws_secret_access_key"],
                             endpoint |-> IF "endpoint" \in DOMAIN c[id].data THEN c[id].data["endpoint"] ELSE ""]
        Annotated(id) == LET names == c[id].anno["clowder/bucket-names"] IN [i \in DOMAIN names |-> Bucket(id, names[i])]
    IN  FlattenSeq([i \in DOMAIN named |-> Annotated(named[i])])
          \o [i \in DOMAIN single |-> Bucket(single[i], c[single[i]].data["bucket"])]

\* a bucket serves a request that is a prefix of its name; of several the first listed
Offering(buckets, request) == {i \in DOMAIN buckets : IsPrefix(request, buckets[i].name)}

resolveBucketDeps(requests, buckets) ==
    [i \in DOMAIN requests |-> [requested |-> requests[i]] @@ buckets[Min(Offering(buckets, requests[i]))]]

\* the store is where the last bucket that says so is
AppInterfaceStoreProvide(s, c) ==
    LET requests == s.app.objectStore
        buckets == genObjStoreConfig(c, {id \in SecretsIn(c, s.app.ns) : "anno" \in DOMAIN c[id]})
        given == resolveBucketDeps(requests, buckets)
        located == {i \in DOMAIN given : given[i].endpoint # ""}
    IN  IF requests = <<>> THEN s
        ELSE IF \E i \in DOMAIN requests : Offering(buckets, requests[i]) = {} THEN Err(s, "missing buckets")
        ELSE IF located = {} THEN Err(s, "no hostname")
        ELSE Configure(s, "objectStore",
                [hostname |-> given[Max(located)].endpoint, port |-> 443, buckets |-> ToSet(given)])

ObjectStoreProvide(s, c) ==
    CASE s.env.store.mode = "minio" -> MinioProvide(NewMinIO(s, c), c)
      [] s.env.store.mode = "app-interface" -> AppInterfaceStoreProvide(s, c)
      [] OTHER -> s

ObjectStoreEnvProvide(s, c) ==
    IF s.env.store.mode = "minio" THEN createNetworkPolicy(NewMinIO(s, c), c) ELSE s

----------------------------------------------------------------------------
(* Feature flags *)

FeatureFlagsDB(env) == <<env.ns, <<"featureflags", "db">>>>

createDefaultFFSecMap(s, nn) ==
    [adminAccessToken |-> Rnd(s, nn, "admin"), clientAccessToken |-> Rnd(s, nn, "client")]

makeLocalFeatureFlags(env, nn) ==
    LET labels == [service |-> "featureflags"] @@ "env-app" :> nn[2] @@ GetLabels(env)
    IN  [Deployment |->
            Deployment(env, labels,
                [ports |-> {4242}, image |-> Image(env, "unleash"),
                 uses |-> FromSecret(FeatureFlagsDB(env)[2], {"connectionURL"})
                            \union FromSecret(nn[2], {"clientAccessToken", "adminAccessToken"})]),
         Service |-> MakeService(env, labels, {Port("featureflags", 4242)})]

\* the edge proxy calls the server by the name of its Service
makeLocalFeatureFlagsEdge(env, nn) ==
    LET labels == [service |-> "unleash-edge"] @@ "env-app" :> nn[2] @@ GetLabels(env)
    IN  [Deployment |->
            Deployment(env, labels,
                [ports |-> {3063}, image |-> Image(env, "unleashEdge"),
                 uses |-> FromSecret(nn[2], {"clientAccessToken"}) \union {<<"Service", nn[2], 4242>>}]),
         Service |-> MakeService(env, labels, {Port("unleash-edge", 3063)})]

makeLocalFFEdgeIngress(env, edge) == Ingress(env, GetLabels(env), {<<edge[2], "unleash-edge">>})

LocalFFEnvProvide(s, c) ==
    LET nn == GetNamespacedName(s.env, "featureflags")
        edge == <<s.env.ns, <<s.env.name, "featureflags", "edge">>>>
        db == FeatureFlagsDB(s.env)
        init == [connectionURL |-> <<Rnd(s, db, "username"), Rnd(s, db, "password"), Host(db), "unleash">>]
                  @@ NewDBSecret(s, db, "unleash")
        data == SecretData(c, Id("Secret", db), init)
        server == CachedMakeComponent(MakeOrGetSecret(s, c, s.env, nn, createDefaultFFSecMap(s, nn)),
                                      c, nn, makeLocalFeatureFlags(s.env, nn))
        withDB == PutAll(MakeOrGetSecret(server, c, s.env, db, init), c,
                         DBObjects(s.env, db, [sub |-> "feature_flags"], data, s.env.ff.pvc, "unleash",
                                   GetVolCapacityForSize("")))
    IN  Put(CachedMakeComponent(withDB, c, edge, makeLocalFeatureFlagsEdge(s.env, nn)),
            c, Id("Ingress", nn), makeLocalFFEdgeIngress(s.env, edge))

\* every app gets the flags, asked for or not
LocalFFProvide(s, c) ==
    LET nn == GetNamespacedName(s.env, "featureflags")
    IN  IF Id("Secret", nn) \notin DOMAIN c THEN Err(s, "no secret")
        ELSE Configure(s, "featureFlags", [hostname |-> Host(nn), port |-> 4242,
                                           token |-> c[Id("Secret", nn)].data.clientAccessToken])

AppInterfaceFFProvide(s, c) ==
    LET ff == s.env.ff
        id == Id("Secret", ff.credentialRef)
    IN  IF ff.credentialRef = <<>> \/ ff.hostname = <<>> \/ ff.port = 0 THEN Err(s, "not defined")
        ELSE IF id \notin DOMAIN c THEN Err(s, "no secret")
        ELSE IF "CLIENT_ACCESS_TOKEN" \notin DOMAIN c[id].data THEN Err(s, "missing data")
        ELSE Configure(s, "featureFlags", [hostname |-> ff.hostname, port |-> ff.port,
                                           token |-> c[id].data["CLIENT_ACCESS_TOKEN"]])

FFKinds == {"Deployment", "Service", "Ingress", "Secret", "PVC"}

FeatureFlagsProvide(s, c) ==
    CASE s.env.ff.mode = "local" -> LocalFFProvide(PossibleGVKs(s, FFKinds), c)
      [] s.env.ff.mode = "app-interface" -> AppInterfaceFFProvide(s, c)
      [] OTHER -> s

FeatureFlagsEnvProvide(s, c) ==
    IF s.env.ff.mode = "local" THEN LocalFFEnvProvide(PossibleGVKs(s, FFKinds), c) ELSE s
=============================================================================
