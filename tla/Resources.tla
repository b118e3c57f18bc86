----------------------------- MODULE Resources -----------------------------
(***************************************************************************)
(* The objects the providers build, the resource cache they build them in, *)
(* and the helpers they share (providers.go, utils.go, sizing.go).         *)
(*                                                                         *)
(* A name is the sequence of its parts, so that "%s-db" is <<app, "db">>;  *)
(* nn, a namespaced name, is <<namespace, name>>; an object's identity is  *)
(* <<kind, namespace, name>>.  An object is a record of what tells two     *)
(* objects apart: owner, labels, selectors, ports, the objects its pods    *)
(* use, credentials.  Probes, resource requests and wording are left out.  *)
(* A random string is the reconcile, the object and the key it is made for.*)
(***************************************************************************)
EXTENDS Integers, Sequences, FiniteSets, SequencesExt, TLC

NoData == [k \in {} |-> ""]
Missing == [owner |-> "missing"]
Id(kind, nn) == <<kind, nn[1], nn[2]>>

Read(c, id) == IF id \in DOMAIN c THEN c[id] ELSE Missing

----------------------------------------------------------------------------
(* ClowdApps and ClowdEnvironments as owners; o.kind is "app" or "env"     *)

GetLabels(o) ==
    IF o.kind = "app" /\ "app" \in DOMAIN o.labels THEN o.labels
    ELSE IF o.kind = "app" THEN ("app" :> o.name) @@ o.labels ELSE "app" :> o.name

GetPrimaryLabel(o) == IF o.kind = "app" THEN "app" ELSE "env"

GetClowdSAName(o) == IF o.kind = "app" THEN <<o.name, "app">> ELSE <<o.name, "env">>

\* GetNamespacedName: name-suffix in the owner's namespace
GetNamespacedName(o, suffix) == <<o.ns, <<o.name, suffix>>>>

\* MakeLabeler: name, labels and owner reference
Meta(o, labels) == [owner |-> o.name, labels |-> labels]

----------------------------------------------------------------------------
(* Objects.  f gives the fields that differ from the defaults.             *)

\* uses: what the pods read, as <<kind, name, key>>, key "*" for all of it
Pods(labels) ==
    [sel |-> labels, pod |-> labels, ports |-> {}, uses |-> {}, env |-> NoData, image |-> "given",
     sa |-> <<"default">>, strategy |-> "RollingUpdate", replicas |-> 1, anno |-> NoData]

Deployment(o, labels, f) == f @@ (Meta(o, labels) @@ Pods(labels))

\* ports: <<name, port, target port>>; MakeService adds the owner's labels
MakeService(o, labels, ports) ==
    Meta(o, labels @@ GetLabels(o)) @@ [sel |-> labels, ports |-> ports]

MakePVC(o, labels, capacity) == Meta(o, labels @@ GetLabels(o)) @@ [size |-> capacity]

Secret(o, labels, data) == Meta(o, labels) @@ [data |-> data]
ConfigMap(o, labels, data) == Meta(o, labels) @@ [data |-> data]

\* backends: <<service name, service port or its name>>
Ingress(o, labels, backends) == Meta(o, labels) @@ [backends |-> backends]

FromSecret(name, keys) == {<<"Secret", name, k>> : k \in keys}
Mounted(kind, name) == {<<kind, name, "*">>}
Host(nn) == nn[2] \o <<nn[1], "svc">>
Port(name, number) == <<name, number, number>>

----------------------------------------------------------------------------
(* A reconcile's session: the specifications it read, the resource cache   *)
(* (objs, with what was read for each in orig), the kinds it may delete,   *)
(* the app's configuration, the objects written at once, the things made   *)
(* outside the cluster, whether the informer is quick enough to show what  *)
(* was just written, and the error that ended it.                          *)

NewSession(o, env, app, apps, outside, nonce) ==
    [o |-> o, env |-> env, app |-> app, apps |-> apps, outside |-> outside, nonce |-> nonce,
     objs |-> NoData, orig |-> NoData, gvks |-> {}, cfg |-> NoData, now |-> {}, made |-> {},
     fresh |-> FALSE, err |-> ""]

Err(s, e) == [s EXCEPT !.err = e]

\* a call's error ends the provider
IfOk(s, t) == IF s.err = "" THEN t ELSE s

\* AddPossibleGVKFromIdent
PossibleGVKs(s, kinds) == [s EXCEPT !.gvks = @ \union kinds]

\* Create reads what is there, and no builder resets the account of pods that run under one
Kept(old, obj) ==
    IF old # Missing /\ "sa" \in DOMAIN obj /\ obj.sa = <<"default">> THEN [obj EXCEPT !.sa = old.sa] ELSE obj

\* Update stores what is wanted
PutAll(s, c, objs) ==
    [s EXCEPT !.objs = [id \in DOMAIN objs |-> Kept(Read(c, id), objs[id])] @@ @,
              !.orig = @ @@ [id \in DOMAIN objs |-> Read(c, id)]]
Put(s, c, id, obj) == PutAll(s, c, id :> obj)

\* an object of an ident with WriteNow is applied by Update
PutNow(s, c, id, obj) == [Put(s, c, id, obj) EXCEPT !.now = @ \union {id}]

\* what the client reads after writes of its own
View(s, c) == IF s.fresh THEN [id \in s.now |-> s.objs[id]] @@ c ELSE c

Configure(s, key, value) == [s EXCEPT !.cfg = (key :> value) @@ @]

Rnd(s, nn, key) == <<s.nonce, nn, key>>

(* CachedMakeComponent: objs, functions of kinds, under one name           *)
CachedMakeComponent(s, c, nn, objs) ==
    PutAll(s, c, [id \in {Id(k, nn) : k \in DOMAIN objs} |-> objs[id[1]]])

\* the data of the Secret if there is any, else the fresh data
HasData(c, id) == id \in DOMAIN c /\ c[id].data # NoData
SecretData(c, id, init) == IF HasData(c, id) THEN c[id].data ELSE init

\* mutant: always with fresh data
MakeOrGetSecret_Fresh(s, c, o, nn, init) == Put(s, c, Id("Secret", nn), Secret(o, NoData, init))

\* an existing Secret is kept as it is; a new one has an owner and no labels
MakeOrGetSecret(s, c, o, nn, init) ==
    LET id == Id("Secret", nn) IN Put(s, c, id, IF HasData(c, id) THEN c[id] ELSE Secret(o, NoData, init))

\* the Secrets of a namespace in the order of their names
SecretsIn(c, ns) == {id \in DOMAIN c : id[1] = "Secret" /\ id[2] = ns}

ExtractSecretData(c, ids, keys) == {id \in ids : keys \subseteq DOMAIN c[id].data}

----------------------------------------------------------------------------
(* Pull secrets, copied to every namespace that pulls images               *)

CopyName(env, nn) == <<env.name>> \o nn[2] \o <<"clowder-copy">>
CopyNames(env) == {CopyName(env, nn) : nn \in ToSet(env.pullSecrets)}

\* mutant: only for the environment
CopyPullSecrets_EnvOnly(s, c, namespace, o) ==
    LET Copy(nn) == Id("Secret", <<namespace, CopyName(s.env, nn)>>)
        Source(id) == CHOOSE nn \in ToSet(s.env.pullSecrets) : id = Copy(nn)
        ids == IF o.kind = "app" THEN {} ELSE {Copy(nn) : nn \in ToSet(s.env.pullSecrets)}
    IN  [PutAll(s, c, [id \in ids |-> Secret(s.env, GetLabels(s.env), c[Id("Secret", Source(id))].data)])
           EXCEPT !.now = @ \union ids]

(* One after the other, up to one that is not there.  Apps in the target   *)
(* namespace of the spec use the environment's copies.                     *)
CopyPullSecrets(s, c, namespace, o) ==
    LET Copy(nn) == Id("Secret", <<namespace, CopyName(s.env, nn)>>)
        Source(id) == CHOOSE nn \in ToSet(s.env.pullSecrets) : id = Copy(nn)
        There(nn) == Id("Secret", nn) \in DOMAIN c
        all == s.env.pullSecrets
        missing == {i \in DOMAIN all : ~There(all[i])}
        found == IF missing = {} THEN all ELSE SubSeq(all, 1, Min(missing) - 1)
        ids == IF o.kind = "app" /\ o.ns = s.env.specNs THEN {} ELSE {Copy(nn) : nn \in ToSet(found)}
        copied == [PutAll(s, c, [id \in ids |-> Secret(s.env, GetLabels(s.env), c[Id("Secret", Source(id))].data)])
                     EXCEPT !.now = @ \union ids]
    IN  IF missing = {} THEN copied ELSE Err(copied, "no pull secret")

\* the account keeps what the platform gave it and gets the copies
addAllSecrets(names, sa) == [sa EXCEPT !.pull = (@ \intersect {<<"dockercfg">>}) \union names]

\* x once, if cond
When(cond, x) == IF cond THEN {x} ELSE {}
Or(n, default) == IF n = 0 THEN default ELSE n

DeploymentNN(app, d) == <<app.ns, <<app.name, d.name>>>>
CoreDeployment(app, d) == Id("Deployment", DeploymentNN(app, d))
DeploymentsOf(o) == ToSet(o.deployments)
CoreDeployments(app) == {CoreDeployment(app, d) : d \in DeploymentsOf(app)}

----------------------------------------------------------------------------
(* Sizes *)

SizeIndex == "x-small" :> 0 @@ "small" :> 1 @@ "medium" :> 2 @@ "large" :> 3 @@ "x-large" :> 4
VolSizeToCapacity == "x-small" :> 1 @@ "small" :> 2 @@ "medium" :> 3 @@ "large" :> 5

IsSizeLarger(a, b) == SizeIndex[a] > SizeIndex[b]
useDefaultIfEmptySize(size, def) == IF size = "" THEN def ELSE size
GetVolCapacityForSize(size) == VolSizeToCapacity[useDefaultIfEmptySize(size, "x-small")]

----------------------------------------------------------------------------
(* utils.go *)

\* there are images for PostgreSQL 12 to 16
HasDatabaseImage(version) == version \in 12..16

MakeLocalDB(o, nn, extra, cfg, usePVC, dbName) ==
    Deployment(o, extra @@ [service |-> "db"] @@ GetLabels(o),
        [ports |-> {5432},
         uses |-> IF usePVC THEN Mounted("PVC", nn[2]) ELSE {},
         strategy |-> IF usePVC THEN "Recreate" ELSE "RollingUpdate",
         env |-> [user |-> cfg.username, password |-> cfg.password,
                  admin |-> cfg.pgPass, database |-> dbName]])

DBLabels(o) == [service |-> "db", app |-> o.name]
MakeLocalDBService(o, extra) == MakeService(o, extra @@ DBLabels(o), {Port("database", 5432)})
MakeLocalDBPVC(o, capacity) == MakePVC(o, DBLabels(o), capacity)

\* an image of the environment, else of the operator's configuration, else built in
Image(env, name) == IF name \in env.images THEN "environment" ELSE "default"

\* the service CA is mounted into the pod
AddCertVolume(d) == [d EXCEPT !.uses = @ \union Mounted("ConfigMap", <<"openshift-service-ca.crt">>)]

\* apiPath is used only if apiPaths is undefined
GetAPIPaths(public, defaultPath) ==
    IF public.apiPaths # {} THEN public.apiPaths
    ELSE {<<"api", IF public.apiPath = <<>> THEN defaultPath ELSE public.apiPath>>}

IsTLSConfiguredForEnv(tls) == tls.port # 0 /\ tls.privatePort # 0
TLSEnabled(wanted, tls) ==
    IsTLSConfiguredForEnv(tls) /\ (IF wanted = "nil" THEN tls.enabled ELSE wanted = "true")
IsPublicTLSEnabled(web, tls) == TLSEnabled(web.publicTLS, tls)
IsPrivateTLSEnabled(web, tls) == TLSEnabled(web.privateTLS, tls)
=============================================================================
