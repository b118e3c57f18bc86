---------------------------- MODULE ConfigWatch ----------------------------
(***************************************************************************)
(* How a change of a Secret or ConfigMap reaches the applications that     *)
(* depend on it: the informers, the custom event handlers, the two hash    *)
(* caches, and the providers that register the objects they read.          *)
(*                                                                         *)
(* There are two controllers, "app" and "env", each with a work queue, one *)
(* worker and a hash cache of its own (addControllersToManager).  They     *)
(* share nothing here but the objects they read, so a behaviour follows    *)
(* one of them, ctrl.  The content of an object is a number, and its hash  *)
(* is that number.  The API server and the informer stores are one (store):*)
(* every read of this code goes through the informers, and an event is     *)
(* handed to the handlers after the store shows it.                        *)
(***************************************************************************)
EXTENDS Naturals, Sequences, FiniteSets

CONSTANTS
    Apps,            \* the ClowdApps of the environment
    Env,             \* the ClowdEnvironment
    AppNamespace,    \* [Apps -> namespaces]
    TargetNamespace, \* spec.targetNamespace of the environment
    Objects,         \* Secrets and ConfigMaps: <<kind, namespace, name>>
    Rank,            \* [Objects -> Nat], where the name and the namespace sort
    Setups,          \* what environment and apps may ask for, see below
    Contents,        \* what an object may contain
    MaxEvents        \* bound on edits of objects, operator restarts and failed writes

(* A setup: the modes of the logging, feature flags, object store and      *)
(* kafka providers, the Secrets they read, the environment's pull secrets, *)
(* the apps with buckets and with Kafka topics, and the objects the pods   *)
(* of each app name.                                                       *)
Setup == [logging : {"app-interface", "none"},
          featureFlags : {"app-interface", "none"}, credentialRef : Objects,
          objectStore : {"minio", "none"}, minioSecret : Objects, buckets : SUBSET Apps,
          kafka : {"operator", "managed", "app-interface", "msk", "none"}, kafkaSecret : Objects,
          userSecret : [Apps -> Objects], topics : SUBSET Apps,
          pullSecrets : Seq(Objects), refs : [Apps -> Seq(Objects)]]

Kind(o) == o[1]
Namespace(o) == o[2]
Name(o) == o[3]
Cloudwatch(a) == <<"Secret", AppNamespace[a], "cloudwatch">>

ASSUME WatchAssumption ==
    /\ Env \notin Apps /\ "none" \notin Apps \union {Env}
    /\ Contents \subseteq Nat \ {0} /\ Contents # {}
    /\ MaxEvents \in Nat
    /\ \A o, p \in Objects : Rank[o] = Rank[p] <=> Name(o) = Name(p) /\ Namespace(o) = Namespace(p)
    /\ \A s \in Setups :
        /\ s \in Setup
        /\ \A i \in DOMAIN s.pullSecrets : Kind(s.pullSecrets[i]) = "Secret"
        /\ s.logging = "app-interface" => \A a \in Apps : Cloudwatch(a) \in Objects
        /\ \A a \in Apps : \A i \in DOMAIN s.refs[a] : Namespace(s.refs[a][i]) = AppNamespace[a]

VARIABLES
    ctrl,     \* the controller this behaviour follows
    setup,    \* what the environment and the apps ask for
    store,    \* per object: Absent, or its content and restarter annotation
    pending,  \* per object: events the handler has not seen
    hc,       \* the controller's hash cache
    queue,    \* the requests in its work queue
    work,     \* the reconcile its worker is running
    out,      \* per request: what its last complete reconcile wrote
    own,      \* apps whose own Secret changed, the event not yet handled
    blind,    \* history: objects whose change met a reconcile that reads them
    unheard,  \* history: objects hashed by a reconcile while the handlers took them for absent
    events    \* edits, restarts and failures so far

vars == <<ctrl, setup, store, pending, hc, queue, work, out, own, blind, unheard, events>>

Requests == IF ctrl = "app" THEN Apps ELSE {Env}

Absent == [content |-> 0, anno |-> FALSE]
NoEntry == [hash |-> 0, subs |-> {}, always |-> FALSE]
Present(x) == x.content # 0
NoHash == [o \in {} |-> 0]
With(f, o, content) == [p \in DOMAIN f \union {o} |-> IF p = o THEN content ELSE f[p]]

----------------------------------------------------------------------------
(* The hash cache.  An entry's ClowdApps and ClowdEnvs are its subs.       *)

\* NewHashCache: no object is known
NewHashCache == [o \in Objects |-> NoEntry]

\* Read fails on an object the cache does not hold
Known(h, o) == h[o].hash # 0

CreateOrUpdateObject(h, o, content, alwaysUpdate) ==
    IF Known(h, o)
      THEN [h EXCEPT ![o].hash = content]
      ELSE [h EXCEPT ![o] = [hash |-> content, subs |-> {}, always |-> alwaysUpdate]]

\* what CreateOrUpdateObject returns: the object is new or its hash changed
HashChanged(h, o, content) == ~Known(h, o) \/ h[o].hash # content

\* the entry exists; an object neither annotated nor Always gets no subscriber
AddClowdObjectToObject(h, o, sub, anno) ==
    IF anno \/ h[o].always THEN [h EXCEPT ![o].subs = @ \union {sub}] ELSE h

RemoveClowdObjectFromObjects(h, sub) == [o \in Objects |-> [h[o] EXCEPT !.subs = @ \ {sub}]]

Delete(h, o) == [h EXCEPT ![o] = NoEntry]

(* The aggregate hash of the objects that list r is made of their hashes   *)
(* in the order of the objects' names.  The comparison takes the kind of   *)
(* its left argument for both sides and the keys come out of a map, so a   *)
(* Secret and a ConfigMap of one name may come in either order.            *)
ObjectsOf(h, r) == {o \in Objects : r \in h[o].subs}

Sorted(objs) ==
    {q \in [1..Cardinality(objs) -> objs] :
        \A i, j \in DOMAIN q : i < j => q[i] # q[j] /\ Rank[q[i]] <= Rank[q[j]]}

GetSuperHashForClowdObject(h, r) == {[i \in DOMAIN q |-> h[q[i]].hash] : q \in Sorted(ObjectsOf(h, r))}

----------------------------------------------------------------------------
(* What a reconcile reads, in provider order.  Each read registers the     *)
(* object: CreateOrUpdateObject, then AddClowdObjectToObject for sub.  A   *)
(* missing object fails the reconcile if must; its content ends up in what *)
(* the reconcile writes if copied; an object to skip is not read at all.   *)

Registration == [obj : Objects, always : BOOLEAN, sub : Apps \union {Env}, must : BOOLEAN,
                 copied : BOOLEAN, skip : BOOLEAN]

ForEnv(o) == [obj |-> o, always |-> TRUE, sub |-> Env, must |-> TRUE, copied |-> TRUE, skip |-> FALSE]

setCloudwatchSecret(a) ==
    IF setup.logging = "app-interface" THEN <<ForEnv(Cloudwatch(a))>> ELSE <<>>

FeatureFlagsProvide(a) ==
    IF setup.featureFlags = "app-interface" THEN <<ForEnv(setup.credentialRef)>> ELSE <<>>

\* an app without buckets has nothing to do with MinIO
MinioProvide(a) ==
    IF setup.objectStore = "minio" /\ a \in setup.buckets THEN <<ForEnv(setup.minioSecret)>> ELSE <<>>

\* the cluster's CA, if it is there yet, and the app's user if it has topics
StrimziProvide(a) ==
    <<[ForEnv(setup.kafkaSecret) EXCEPT !.must = FALSE]>>
      \o (IF a \in setup.topics THEN <<ForEnv(setup.userSecret[a])>> ELSE <<>>)

\* managed mode reads its secret only for an app that has topics
ManagedProvide(a) == IF a \in setup.topics THEN <<ForEnv(setup.kafkaSecret)>> ELSE <<>>

\* the broker's CA certificate, when TLS is forced
setKafkaCA(a) == <<ForEnv(setup.kafkaSecret)>>

mskListeners(a) == <<ForEnv(setup.kafkaSecret)>>

KafkaProvide(a) ==
    CASE setup.kafka = "operator" -> StrimziProvide(a)
      [] setup.kafka = "managed" -> ManagedProvide(a)
      [] setup.kafka = "app-interface" -> setKafkaCA(a)
      [] setup.kafka = "msk" -> mskListeners(a)
      [] OTHER -> <<>>

\* an app in the target namespace uses the copies of the environment
CopyPullSecrets(r, namespace) ==
    [i \in DOMAIN setup.pullSecrets |->
        [obj |-> setup.pullSecrets[i], always |-> TRUE, sub |-> r, must |-> TRUE,
         copied |-> ~(r \in Apps /\ namespace = TargetNamespace), skip |-> FALSE]]

\* the ConfigMaps and Secrets of the pods' env vars and volumes, but its own Secret
updateHashCache(a) ==
    [i \in DOMAIN setup.refs[a] |->
        [obj |-> setup.refs[a][i], always |-> FALSE, sub |-> a, must |-> FALSE, copied |-> FALSE,
         skip |-> Name(setup.refs[a][i]) = a]]

Reads(r) ==
    IF r = Env
      THEN CopyPullSecrets(Env, TargetNamespace)
      ELSE setCloudwatchSecret(r) \o FeatureFlagsProvide(r) \o MinioProvide(r)
             \o KafkaProvide(r) \o CopyPullSecrets(r, AppNamespace[r]) \o updateHashCache(r)

ReadsOf(r) == {g \in {Reads(r)[i] : i \in DOMAIN Reads(r)} : ~g.skip}

ReadObjects(r) == {g.obj : g \in ReadsOf(r)}

ReadByAny == UNION {ReadObjects(r) : r \in Apps \union {Env}}

\* the state of o the handlers know of
Told(o) == IF pending[o] = <<>> THEN store[o] ELSE Head(pending[o]).old

Idle == [req |-> "none", todo |-> <<>>, pc |-> "get", seen |-> Absent, data |-> NoHash]

(* The run starts settled: every request has been reconciled with the      *)
(* objects as they are, and every event has been handled.                  *)
Watched(o) == ctrl = "app" \/ Kind(o) = "Secret"

Registrations == UNION {ReadsOf(r) : r \in Requests}

SettledCache ==
    [o \in Objects |->
        LET regs == {g \in Registrations : g.obj = o}
        IN  IF ~Present(store[o]) \/ (regs = {} /\ ~(Watched(o) /\ store[o].anno))
              THEN NoEntry
              ELSE [hash |-> store[o].content,
                    subs |-> {g.sub : g \in {h \in regs : store[o].anno \/ h.always}},
                    always |-> ~store[o].anno /\ \E g \in regs : g.always]]

\* the two aggregate hashes an app's configuration may get
SuperHashes(r) ==
    IF r = Env THEN {<<>>} ELSE GetSuperHashForClowdObject(hc, r) \X GetSuperHashForClowdObject(hc, Env)

\* what a reconcile of r writes: the data it copied and the aggregate hashes;
\* hashed keeps record of what the app's hash was made from
persistConfig(r, data, hashes) ==
    [data |-> data, hashes |-> hashes, hashed |-> [o \in ObjectsOf(hc, r) |-> hc[o].hash]]

\* the part that is really written
Written(w) == <<w.data, w.hashes>>

Init ==
    /\ ctrl \in {"app", "env"}
    /\ setup \in Setups
    /\ store \in [Objects -> {Absent} \union {[content |-> CHOOSE n \in Contents : TRUE, anno |-> b] : b \in BOOLEAN}]
    /\ \A o \in Objects : Present(store[o]) <=> o \in ReadByAny
    /\ pending = [o \in Objects |-> <<>>]
    /\ hc = SettledCache
    /\ queue = {} /\ work = Idle
    /\ \E hashes \in [Requests -> UNION {SuperHashes(r) : r \in Requests}] :
        /\ \A r \in Requests : hashes[r] \in SuperHashes(r)
        /\ out = [r \in Requests |->
             persistConfig(r, [o \in {g.obj : g \in {h \in ReadsOf(r) : h.copied}} |-> store[o].content], hashes[r])]
    /\ own = {} /\ blind = {} /\ unheard = {}
    /\ events = 0

----------------------------------------------------------------------------
(* The worker *)

(* The next request is taken from the queue and its subscriptions are      *)
(* dropped; the providers add them again one by one.                       *)
StartReconcile(r) ==
    /\ work.req = "none" /\ r \in queue
    /\ queue' = queue \ {r}
    /\ hc' = RemoveClowdObjectFromObjects(hc, r)
    /\ work' = [Idle EXCEPT !.req = r, !.todo = Reads(r)]
    /\ UNCHANGED <<ctrl, setup, store, pending, out, own, blind, unheard, events>>

\* an error ends the reconcile; the rate limiter brings the request back
Fail == queue' = queue \union {work.req} /\ work' = Idle

GetObject ==
    LET g == Head(work.todo)
    IN  /\ work.todo # <<>> /\ work.pc = "get"
        /\ \/ /\ ~g.skip /\ Present(store[g.obj])
              /\ work' = [work EXCEPT !.seen = store[g.obj], !.pc = "note"]
              /\ UNCHANGED queue
           \/ /\ g.skip \/ (~Present(store[g.obj]) /\ ~g.must)
              /\ work' = [work EXCEPT !.todo = Tail(@)]
              /\ UNCHANGED queue
           \/ ~g.skip /\ ~Present(store[g.obj]) /\ g.must /\ Fail
        /\ UNCHANGED <<ctrl, setup, store, pending, hc, out, own, blind, unheard, events>>

NoteObject ==
    /\ work.pc = "note"
    /\ hc' = CreateOrUpdateObject(hc, Head(work.todo).obj, work.seen.content, Head(work.todo).always)
    /\ work' = [work EXCEPT !.pc = "add"]
    /\ LET o == Head(work.todo).obj
       IN  /\ blind' = IF pending[o] # <<>> THEN blind \union {o} ELSE blind
           /\ unheard' = IF Present(Told(o)) THEN unheard ELSE unheard \union {o}
    /\ UNCHANGED <<ctrl, setup, store, pending, queue, out, own, events>>

\* a delete event may have dropped the entry since NoteObject
AddObject ==
    LET o == Head(work.todo).obj
    IN  /\ work.pc = "add"
        /\ \/ /\ Known(hc, o)
              /\ hc' = AddClowdObjectToObject(hc, o, Head(work.todo).sub, work.seen.anno)
              /\ work' = [work EXCEPT !.pc = "get", !.todo = Tail(@), !.seen = Absent,
                            !.data = IF Head(work.todo).copied THEN With(@, o, work.seen.content) ELSE @]
              /\ UNCHANGED queue
           \/ ~Known(hc, o) /\ Fail /\ UNCHANGED hc
        /\ UNCHANGED <<ctrl, setup, store, pending, out, own, blind, unheard, events>>

\* mutated: the objects are rewritten, and raise their events, in every reconcile
Apply_Rewrites ==
    /\ work.req # "none" /\ work.todo = <<>>
    /\ \/ /\ \E hashes \in SuperHashes(work.req) :
               out' = [out EXCEPT ![work.req] = persistConfig(work.req, work.data, hashes)]
          /\ own' = own \union {work.req}
          /\ work' = Idle
          /\ UNCHANGED <<queue, events>>
       \/ /\ events < MaxEvents /\ events' = events + 1
          /\ Fail /\ UNCHANGED <<out, own>>
    /\ UNCHANGED <<ctrl, setup, store, pending, hc, blind, unheard>>

(* ApplyAll writes the config Secret, the Deployments that carry its hash  *)
(* and the copied pull secrets.  A changed Secret or Deployment raises an  *)
(* event that puts its owner back into the queue.                          *)
Apply ==
    /\ work.req # "none" /\ work.todo = <<>>
    /\ \/ /\ \E hashes \in SuperHashes(work.req) :
               out' = [out EXCEPT ![work.req] = persistConfig(work.req, work.data, hashes)]
          /\ own' = IF Written(out'[work.req]) # Written(out[work.req]) THEN own \union {work.req} ELSE own
          /\ work' = Idle
          /\ UNCHANGED <<queue, events>>
       \/ /\ events < MaxEvents /\ events' = events + 1
          /\ Fail /\ UNCHANGED <<out, own>>
    /\ UNCHANGED <<ctrl, setup, store, pending, hc, blind, unheard>>

Worker == GetObject \/ NoteObject \/ AddObject \/ Apply \/ \E r \in Requests : StartReconcile(r)

----------------------------------------------------------------------------
(* The handlers *)

\* mutated: every subscriber is enqueued, whichever kind it is
doUpdateToHash_AnyKind(h, o) == h[o].subs

\* the subscribers of the controller's own kind are enqueued
doUpdateToHash(h, o) == h[o].subs \intersect Requests

\* mutated: only the apps of the environment's target namespace
reconcileAllAppsUsingObject_Target(o) ==
    {a \in Requests \ {Env} : AppNamespace[a] = TargetNamespace /\ TargetNamespace = Namespace(o)}

\* every ClowdApp of the object's namespace; the environments' queue drops these names
reconcileAllAppsUsingObject(o) == {a \in Requests \ {Env} : AppNamespace[a] = Namespace(o)}

\* an object is hashed if it is annotated, or already held as Always
updateHashCacheForConfigMapAndSecret(o, x) ==
    IF x.anno \/ (Known(hc, o) /\ hc[o].always)
      THEN [cache |-> CreateOrUpdateObject(hc, o, x.content, FALSE), changed |-> HashChanged(hc, o, x.content)]
      ELSE [cache |-> hc, changed |-> FALSE]

HandlerCreate(o, x) ==
    LET upd == updateHashCacheForConfigMapAndSecret(o, x)
    IN  /\ hc' = upd.cache
        /\ queue' = IF upd.changed
                      THEN queue \union doUpdateToHash(hc', o) \union reconcileAllAppsUsingObject(o)
                      ELSE queue

\* mutated: an object without the annotation wakes nobody
HandlerUpdate_AnnotatedOnly(o, old, x) ==
    LET upd == updateHashCacheForConfigMapAndSecret(o, x)
    IN  \/ /\ x.anno
           /\ hc' = upd.cache
           /\ queue' = queue \union (IF upd.changed THEN doUpdateToHash(hc', o) ELSE {})
                             \union (IF ~old.anno THEN reconcileAllAppsUsingObject(o) ELSE {})
        \/ ~x.anno /\ UNCHANGED <<queue, hc>>

\* without the annotation a held object wakes its subscribers; its hash is left alone
HandlerUpdate(o, old, x) ==
    LET upd == updateHashCacheForConfigMapAndSecret(o, x)
    IN  \/ /\ x.anno
           /\ hc' = upd.cache
           /\ queue' = queue \union (IF upd.changed THEN doUpdateToHash(hc', o) ELSE {})
                             \union (IF ~old.anno THEN reconcileAllAppsUsingObject(o) ELSE {})
        \/ ~x.anno /\ queue' = queue \union doUpdateToHash(hc, o) /\ UNCHANGED hc

HandlerDelete(o) == hc' = Delete(hc, o) /\ UNCHANGED queue

\* one event of object o reaches the handler
Handle(o) ==
    LET e == Head(pending[o])
    IN  /\ pending[o] # <<>>
        /\ pending' = [pending EXCEPT ![o] = Tail(@)]
        /\ \/ ~Present(e.old) /\ Present(e.new) /\ HandlerCreate(o, e.new)
           \/ Present(e.old) /\ Present(e.new) /\ HandlerUpdate(o, e.old, e.new)
           \/ ~Present(e.new) /\ HandlerDelete(o)
        /\ blind' = IF work.req # "none" /\ o \in ReadObjects(work.req) THEN blind \union {o} ELSE blind
        /\ unheard' = IF Present(e.new) THEN unheard ELSE unheard \ {o}
        /\ UNCHANGED <<ctrl, setup, store, work, out, own, events>>

\* the event of an object its own reconcile wrote: the owner is enqueued
HandleOwned(r) ==
    /\ r \in own
    /\ own' = own \ {r}
    /\ queue' = queue \union {r}
    /\ UNCHANGED <<ctrl, setup, store, pending, hc, work, out, blind, unheard, events>>

----------------------------------------------------------------------------
(* Users and failures *)

\* somebody writes, annotates, deletes or creates object o
Edit(o) ==
    /\ events < MaxEvents /\ events' = events + 1
    /\ \E x \in {Absent} \union [content : Contents, anno : BOOLEAN] :
        /\ x # store[o]
        /\ store' = [store EXCEPT ![o] = x]
        /\ pending' = IF Watched(o) THEN [pending EXCEPT ![o] = Append(@, [old |-> store[o], new |-> x])] ELSE pending
    /\ UNCHANGED <<ctrl, setup, hc, queue, work, out, own, blind, unheard>>

(* The operator restarts: hash cache and queue are lost, the informers     *)
(* list everything again and every request is enqueued.                    *)
Restart ==
    /\ events < MaxEvents /\ events' = events + 1
    /\ pending' = [o \in Objects |->
                    IF Present(store[o]) /\ Watched(o) THEN <<[old |-> Absent, new |-> store[o]]>> ELSE <<>>]
    /\ hc' = NewHashCache
    /\ queue' = Requests
    /\ work' = Idle
    /\ own' = {} /\ blind' = {} /\ unheard' = {}
    /\ UNCHANGED <<ctrl, setup, store, out>>

Handlers == (\E o \in Objects : Handle(o)) \/ (\E r \in Requests : HandleOwned(r))

Next == Worker \/ Handlers \/ (\E o \in ReadByAny : Edit(o)) \/ Restart

Spec == Init /\ [][Next]_vars

\* Goroutines are scheduled: the worker and the event handlers make progress.
FairSpec == Spec /\ WF_vars(Worker) /\ WF_vars(Handlers)

----------------------------------------------------------------------------
(* Properties *)

\* nothing is queued, running or on its way to a handler
AtRest == own = {} /\ work.req = "none" /\ queue = {} /\ \A o \in Objects : pending[o] = <<>>

\* request r is on record as depending on o
Listed(r, o) == r \in hc[o].subs

\* what r last wrote shows the content o has now
Current(r, o) ==
    /\ r # Env => o \in DOMAIN out[r].hashed /\ out[r].hashed[o] = store[o].content
    /\ o \in DOMAIN out[r].data => out[r].data[o] = store[o].content

(* Every variable keeps its shape: the worker reconciles a request of its  *)
(* own controller, and holds an object it has read until it has added it.  *)
TypeOK ==
    /\ \A o \in Objects : store[o] \in {Absent} \union [content : Contents, anno : BOOLEAN]
    /\ queue \subseteq Requests /\ own \subseteq Requests
    /\ work.req \in Requests \union {"none"} /\ work.pc \in {"get", "note", "add"}
    /\ work.pc # "get" => work.todo # <<>> /\ Present(work.seen)
    /\ \A o \in Objects : hc[o].hash \in Contents \union {0} /\ hc[o].subs \subseteq Apps \union {Env}

(* docs/providers/confighash.md: updates of a Secret trigger a reconcile   *)
(* of each ClowdApp listed.  Once everything has come to rest, whoever is  *)
(* listed under an object has written its present content, whatever the    *)
(* order in which handlers, reconciles, edits, deletes and restarts ran.   *)
(* The one exception is an object whose change met a reconcile that reads  *)
(* it (blind), where the promise fails: see UpdatesReachListed.            *)
ListedAreCurrent ==
    AtRest => \A r \in Requests : \A o \in Objects \ blind : Listed(r, o) => Current(r, o)

(* "Future updates to the secret will then trigger reconciliations for     *)
(* each ClowdApp listed": the same without the exception.  If the event is *)
(* handled in the middle of a reconcile, the subscription was dropped at   *)
(* its start, and a value read before the event may be hashed after it.    *)
(* If a reconcile hashes the object before the event is handled, the       *)
(* handler finds the hash unchanged and wakes nobody else.                 *)
UpdatesReachListed ==
    AtRest => \A a \in Requests \ {Env} : \A o \in Objects : Listed(a, o) /\ store[o].anno => Current(a, o)

(* An annotated object that the pods of an app name lists the app: when it *)
(* is annotated, or appears with the annotation, handlers.go wakes the     *)
(* apps of the namespace, and confighash registers them again.  It fails   *)
(* for an object that a reconcile hashed while the handlers took it for    *)
(* absent (unheard): it was created again and the handlers did not know    *)
(* yet, or it was read before they heard of its deletion.  Its creation is *)
(* then no news to the handler, which wakes nobody, and the other apps     *)
(* stay off the list until the object is deleted once more.                *)
AnnotatedAreListed ==
    AtRest => \A a \in Requests \ {Env} : \A o \in {setup.refs[a][i] : i \in DOMAIN setup.refs[a]} \ unheard :
                store[o].anno /\ Name(o) # a => Listed(a, o)

(* A reconcile that writes its Secret wakes itself through the Secret's    *)
(* event.  The loop ends: when the users are done, the operator comes to   *)
(* rest.  Two exceptions: an object it cannot do without is missing; or    *)
(* someone is listed under a Secret and a ConfigMap of one name, whose     *)
(* hashes may change places in every reconcile.                            *)
Missing == \E g \in Registrations : g.must /\ ~Present(store[g.obj])
Ambiguous ==
    \E r \in Apps \union {Env} : \E o, p \in ObjectsOf(hc, r) :
      o # p /\ Rank[o] = Rank[p] /\ hc[o].hash # hc[p].hash
ComesToRest == []<>(AtRest \/ Missing \/ Ambiguous)
=============================================================================
