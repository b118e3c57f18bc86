------------------------ MODULE ConfigWatch_proofs ------------------------
(* Whoever is listed under a Secret or ConfigMap shows its present content  *)
(* once the operator is at rest, for any number of apps, objects, contents, *)
(* edits and restarts.                                                      *)
EXTENDS ConfigWatch, TLAPS

----------------------------------------------------------------------------
(* Types *)

Values == {Absent} \union [content : Contents, anno : BOOLEAN]
Event == [old : Values, new : Values]
Entry == [hash : Contents \union {0}, subs : SUBSET (Apps \union {Env}), always : BOOLEAN]

Hashes == UNION {[D -> Contents \union {0}] : D \in SUBSET Objects}
Work == [req : Apps \union {Env, "none"}, todo : Seq(Registration), pc : {"get", "note", "add"},
         seen : Values, data : Hashes]

TInv ==
    /\ ctrl \in {"app", "env"} /\ setup \in Setups
    /\ store \in [Objects -> Values] /\ pending \in [Objects -> Seq(Event)]
    /\ hc \in [Objects -> Entry] /\ DOMAIN out = Requests
    /\ queue \subseteq Requests /\ own \subseteq Requests
    /\ work \in Work /\ work.req \in Requests \union {"none"}
    /\ work.pc # "get" => work.todo # <<>> /\ Present(work.seen) /\ ~Head(work.todo).skip
    /\ work.req = "none" => work.todo = <<>>

----------------------------------------------------------------------------
(* The inductive invariant *)

\* The events of an object follow on one another, up to what is stored.
Linked ==
    \A o \in Objects :
      /\ ~Watched(o) => pending[o] = <<>>
      /\ \A i \in 1..Len(pending[o]) - 1 : pending[o][i].new = pending[o][i + 1].old
      /\ pending[o] # <<>> => pending[o][Len(pending[o])].new = store[o]

\* What the worker is still to read belongs to its request.
Ours == work.req # "none" =>
          \A i \in 1..Len(work.todo) : /\ work.todo[i].sub \in {work.req, Env}
                                       /\ work.todo[i].skip \/ work.todo[i].obj \in ReadObjects(work.req)

\* Only what a request reads lists it, and only an entry lists anyone.
Listing ==
    \A o \in Objects :
      /\ ~Known(hc, o) => hc[o].subs = {}
      /\ \A r \in Requests : Listed(r, o) => o \in ReadObjects(r)

\* The object in the worker's hands, unless its change met the reconcile.
Holding ==
    work.pc # "get" =>
      LET o == Head(work.todo).obj
      IN  o \notin blind =>
          /\ work.pc = "note" /\ pending[o] = <<>> => work.seen = store[o]
          /\ work.pc = "add" => work.seen.content = Told(o).content /\ hc[o].hash = Told(o).content

\* What the running reconcile has copied is what the handlers know.
Copied ==
    work.req # "none" =>
      \A o \in DOMAIN work.data : o \in ReadObjects(work.req) /\ (o \notin blind => work.data[o] = Told(o).content)

\* What r last wrote shows what the handlers know of o.
Shows(r, o) ==
    /\ r # Env => o \in DOMAIN out[r].hashed /\ out[r].hashed[o] = Told(o).content
    /\ o \in DOMAIN out[r].data => out[r].data[o] = Told(o).content

\* A listed request is queued or shows what the handlers know, and so does the hash.
Served ==
    \A r \in Requests : \A o \in Objects \ blind :
      Listed(r, o) /\ r \notin queue => hc[o].hash = Told(o).content /\ (r # work.req => Shows(r, o))

WInv == TInv /\ Linked /\ Ours /\ Listing /\ Holding /\ Copied /\ Served

----------------------------------------------------------------------------
(* What a reconcile reads *)

LEMMA SetupFacts ==
    ASSUME setup \in Setups
    PROVE  /\ setup.credentialRef \in Objects /\ setup.kafkaSecret \in Objects /\ setup.minioSecret \in Objects
           /\ \A a \in Apps : setup.userSecret[a] \in Objects
           /\ setup.pullSecrets \in Seq(Objects)
           /\ \A i \in 1..Len(setup.pullSecrets) : Kind(setup.pullSecrets[i]) = "Secret"
           /\ \A a \in Apps : setup.refs[a] \in Seq(Objects)
           /\ setup.logging = "app-interface" => \A a \in Apps : Cloudwatch(a) \in Objects
  <1>1. setup \in Setup
    BY Zenon, WatchAssumption
  <1>2. /\ setup.credentialRef \in Objects /\ setup.kafkaSecret \in Objects /\ setup.minioSecret \in Objects
        /\ \A a \in Apps : setup.userSecret[a] \in Objects
        /\ setup.pullSecrets \in Seq(Objects)
        /\ \A a \in Apps : setup.refs[a] \in Seq(Objects)
    BY Zenon, <1>1 DEF Setup
  <1>3. \A i \in DOMAIN setup.pullSecrets : Kind(setup.pullSecrets[i]) = "Secret"
    BY Zenon, WatchAssumption
  <1>4. setup.logging = "app-interface" => \A a \in Apps : Cloudwatch(a) \in Objects
    BY Zenon, WatchAssumption
  <1>5. DOMAIN setup.pullSecrets = 1..Len(setup.pullSecrets)
    BY <1>2
  <1> QED
    BY Zenon, <1>2, <1>3, <1>4, <1>5

\* A registration that a reconcile of r may make.
Mine(r) == {g \in Registration : g.sub \in {r, Env}}

LEMMA ForEnvType ==
    ASSUME NEW o \in Objects, NEW r
    PROVE  ForEnv(o) \in Mine(r) /\ <<ForEnv(o)>> \in Seq(Mine(r)) /\ <<>> \in Seq(Mine(r))
  <1>1. ForEnv(o) \in Mine(r)
    BY Zenon DEF ForEnv, Mine, Registration
  <1> QED
    BY <1>1

LEMMA PullType ==
    ASSUME setup \in Setups, NEW r \in Apps \union {Env}, NEW n
    PROVE  /\ CopyPullSecrets(r, n) \in Seq(Mine(r))
           /\ \A i \in 1..Len(CopyPullSecrets(r, n)) : Kind(CopyPullSecrets(r, n)[i].obj) = "Secret"
  <1> DEFINE p == setup.pullSecrets
             R(i) == [obj |-> p[i], always |-> TRUE, sub |-> r, must |-> TRUE,
                      copied |-> ~(r \in Apps /\ n = TargetNamespace), skip |-> FALSE]
  <1>1. p \in Seq(Objects) /\ Len(p) \in Nat /\ DOMAIN p = 1..Len(p)
    BY SetupFacts
  <1>2. CopyPullSecrets(r, n) = [i \in 1..Len(p) |-> R(i)]
    BY Zenon, <1>1 DEF CopyPullSecrets
  <1>3. \A i \in 1..Len(p) : R(i) \in Mine(r) /\ R(i).obj = p[i] /\ p[i] \in Objects
    BY <1>1 DEF Mine, Registration
  <1>4. \A i \in 1..Len(p) : Kind(p[i]) = "Secret"
    BY Zenon, SetupFacts
  <1> HIDE DEF R, p
  <1>5. CopyPullSecrets(r, n) \in Seq(Mine(r)) /\ Len(CopyPullSecrets(r, n)) = Len(p)
    BY <1>1, <1>2, <1>3
  <1> QED
    BY Zenon, <1>2, <1>3, <1>4, <1>5

LEMMA RefsType ==
    ASSUME setup \in Setups, NEW a \in Apps
    PROVE  updateHashCache(a) \in Seq(Mine(a))
  <1> DEFINE p == setup.refs[a]
             R(i) == [obj |-> p[i], always |-> FALSE, sub |-> a, must |-> FALSE, copied |-> FALSE,
                      skip |-> Name(p[i]) = a]
  <1>1. p \in Seq(Objects) /\ Len(p) \in Nat /\ DOMAIN p = 1..Len(p)
    BY SetupFacts
  <1>2. updateHashCache(a) = [i \in 1..Len(p) |-> R(i)]
    BY Zenon, <1>1 DEF updateHashCache
  <1>3. \A i \in 1..Len(p) : R(i) \in Mine(a)
    BY <1>1 DEF Mine, Registration
  <1> HIDE DEF R, p
  <1> QED
    BY <1>1, <1>2, <1>3

\* What the providers before confighash register.
LEMMA ProvidedType ==
    ASSUME setup \in Setups, NEW a \in Apps
    PROVE  setCloudwatchSecret(a) \o FeatureFlagsProvide(a) \o MinioProvide(a)
             \o KafkaProvide(a) \o CopyPullSecrets(a, AppNamespace[a]) \in Seq(Mine(a))
  <1>1. setCloudwatchSecret(a) \in Seq(Mine(a))
    BY Zenon, ForEnvType, SetupFacts DEF setCloudwatchSecret
  <1>2. FeatureFlagsProvide(a) \in Seq(Mine(a))
    BY Zenon, ForEnvType, SetupFacts DEF FeatureFlagsProvide
  <1>3. KafkaProvide(a) \in Seq(Mine(a))
    <2>1. <<>> \in Seq(Mine(a)) /\ <<ForEnv(setup.kafkaSecret)>> \in Seq(Mine(a))
      BY Zenon, ForEnvType, SetupFacts
    <2>2. <<ForEnv(setup.userSecret[a])>> \in Seq(Mine(a))
      BY Zenon, ForEnvType, SetupFacts
    <2>3. [ForEnv(setup.kafkaSecret) EXCEPT !.must = FALSE] \in Mine(a)
      <3>1. ForEnv(setup.kafkaSecret) \in Mine(a)
        BY Zenon, ForEnvType, SetupFacts
      <3> QED
        BY Zenon, <3>1 DEF Mine, Registration
    <2> DEFINE ca == [ForEnv(setup.kafkaSecret) EXCEPT !.must = FALSE]
               user == IF a \in setup.topics THEN <<ForEnv(setup.userSecret[a])>> ELSE <<>>
    <2>4. user \in Seq(Mine(a)) /\ ca \in Mine(a)
      BY Zenon, <2>1, <2>2, <2>3
    <2>5. StrimziProvide(a) = <<ca>> \o user
      BY Zenon DEF StrimziProvide
    <2> HIDE DEF ca, user
    <2>6. StrimziProvide(a) \in Seq(Mine(a))
      BY <2>4, <2>5
    <2> QED
      BY Zenon, <2>1, <2>6 DEF KafkaProvide, ManagedProvide, setKafkaCA, mskListeners
  <1>5. MinioProvide(a) \in Seq(Mine(a))
    BY Zenon, ForEnvType, SetupFacts DEF MinioProvide
  <1>4. CopyPullSecrets(a, AppNamespace[a]) \in Seq(Mine(a))
    BY Zenon, PullType
  <1> QED
    BY <1>1, <1>2, <1>3, <1>4, <1>5

LEMMA ReadsType ==
    ASSUME setup \in Setups, NEW r \in Apps \union {Env}
    PROVE  Reads(r) \in Seq(Mine(r))
  <1>1. CASE r = Env
    BY Zenon, <1>1, PullType DEF Reads
  <1>2. CASE r # Env
    <2>1. /\ setCloudwatchSecret(r) \o FeatureFlagsProvide(r) \o MinioProvide(r)
               \o KafkaProvide(r) \o CopyPullSecrets(r, AppNamespace[r]) \in Seq(Mine(r))
          /\ updateHashCache(r) \in Seq(Mine(r))
      BY Zenon, <1>2, ProvidedType, RefsType
    <2>2. Reads(r) = (setCloudwatchSecret(r) \o FeatureFlagsProvide(r) \o MinioProvide(r)
                       \o KafkaProvide(r) \o CopyPullSecrets(r, AppNamespace[r])) \o updateHashCache(r)
      BY Zenon, <1>2 DEF Reads
    <2> QED
      BY <2>1, <2>2
  <1> QED
    BY Zenon, <1>1, <1>2

\* The controller watches every object that one of its reconciles reads.
LEMMA Watching ==
    ASSUME TInv, NEW r \in Requests, NEW o \in ReadObjects(r)
    PROVE  Watched(o)
  <1>1. CASE ctrl = "app"
    BY Zenon, <1>1 DEF Watched
  <1>2. CASE ctrl = "env"
    <2>1. r = Env /\ setup \in Setups
      BY Zenon, <1>2 DEF Requests, TInv
    <2>2. PICK i \in DOMAIN Reads(r) : o = Reads(r)[i].obj
      BY Zenon DEF ReadObjects, ReadsOf
    <2>3. Reads(r) = CopyPullSecrets(Env, TargetNamespace)
      BY Zenon, <2>1 DEF Reads
    <2>4. DOMAIN Reads(r) = 1..Len(Reads(r))
      BY <2>1, <2>3, PullType
    <2>5. Kind(o) = "Secret"
      BY Zenon, <2>1, <2>2, <2>3, <2>4, PullType
    <2> QED
      BY Zenon, <2>5 DEF Watched
  <1> QED
    BY Zenon, <1>1, <1>2 DEF TInv

LEMMA SameReads ==
    ASSUME UNCHANGED <<ctrl, setup>>
    PROVE  /\ Requests' = Requests
           /\ \A r : ReadObjects(r)' = ReadObjects(r)
           /\ \A o : Watched(o)' = Watched(o)
  <1>1. \A r : Reads(r)' = Reads(r)
    BY DEF Reads, setCloudwatchSecret, FeatureFlagsProvide, MinioProvide, KafkaProvide, StrimziProvide, ManagedProvide,
           setKafkaCA, mskListeners, CopyPullSecrets, updateHashCache
  <1> QED
    BY Zenon, <1>1 DEF Requests, ReadObjects, ReadsOf, Watched

----------------------------------------------------------------------------
(* Every step keeps the types *)

LEMMA RequestFacts ==
    ASSUME TInv
    PROVE  Requests \subseteq Apps \union {Env} /\ "none" \notin Requests
  BY Zenon, WatchAssumption DEF TInv, Requests

LEMMA IdleFacts ==
    /\ Idle.req = "none" /\ Idle.todo = <<>> /\ Idle.pc = "get" /\ Idle.seen = Absent /\ Idle.data = NoHash
    /\ Idle \in Work /\ DOMAIN NoHash = {}
  <1>1. NoHash \in [{} -> Contents \union {0}] /\ DOMAIN NoHash = {}
    BY Zenon DEF NoHash
  <1>2. NoHash \in Hashes
    BY Zenon, <1>1 DEF Hashes
  <1>3. <<>> \in Seq(Registration) /\ Absent \in Values
    BY DEF Values
  <1> QED
    BY Zenon, <1>1, <1>2, <1>3 DEF Idle, Work

\* what a reconcile has copied, with one more object
LEMMA WithType ==
    ASSUME NEW f \in Hashes, NEW o \in Objects, NEW n \in Contents
    PROVE  /\ With(f, o, n) \in Hashes
           /\ DOMAIN With(f, o, n) = DOMAIN f \union {o}
           /\ With(f, o, n)[o] = n
           /\ \A p \in DOMAIN f : p # o => With(f, o, n)[p] = f[p]
  <1>1. PICK D \in SUBSET Objects : f \in [D -> Contents \union {0}]
    BY Zenon DEF Hashes
  <1>2. With(f, o, n) \in [D \union {o} -> Contents \union {0}]
    BY Zenon, <1>1 DEF With
  <1>3. D \union {o} \in SUBSET Objects
    BY Zenon
  <1>4. With(f, o, n) \in Hashes
    BY Zenon, <1>2, <1>3 DEF Hashes
  <1> QED
    BY Zenon, <1>4 DEF With

\* The part of TInv that is about the worker.
WorkOK ==
    /\ work \in Work /\ work.req \in Requests \union {"none"}
    /\ work.pc # "get" => work.todo # <<>> /\ Present(work.seen) /\ ~Head(work.todo).skip
    /\ work.req = "none" => work.todo = <<>>

LEMMA IdleOK == work' = Idle => WorkOK'
  BY Zenon, IdleFacts DEF WorkOK

\* While there is something to read there is a request.
LEMMA Busy ==
    ASSUME TInv, work.todo # <<>>
    PROVE  /\ work.req \in Requests /\ work.req # "none"
           /\ Head(work.todo) \in Registration /\ Tail(work.todo) \in Seq(Registration)
           /\ Head(work.todo) = work.todo[1] /\ 1 \in 1..Len(work.todo)
           /\ \A i \in 1..Len(Tail(work.todo)) : i + 1 \in 1..Len(work.todo) /\ Tail(work.todo)[i] = work.todo[i + 1]
  <1>1. work.todo \in Seq(Registration)
    BY Zenon DEF TInv, Work
  <1>2. /\ Head(work.todo) \in Registration /\ Tail(work.todo) \in Seq(Registration)
        /\ Head(work.todo) = work.todo[1] /\ 1 \in 1..Len(work.todo)
        /\ \A i \in 1..Len(Tail(work.todo)) : i + 1 \in 1..Len(work.todo) /\ Tail(work.todo)[i] = work.todo[i + 1]
    BY <1>1
  <1>3. work.req \in Requests /\ work.req # "none"
    BY Zenon, RequestFacts DEF TInv
  <1> QED
    BY Zenon, <1>2, <1>3

\* The annotation of the object in the worker's hands is a Boolean.
LEMMA SeenType ==
    ASSUME TInv
    PROVE  work.seen \in Values /\ work.seen.anno \in BOOLEAN
  <1>1. work.seen \in Values
    BY Zenon DEF TInv, Work
  <1>2. Absent.anno \in BOOLEAN
    BY Zenon DEF Absent
  <1>3. \A v \in [content : Contents, anno : BOOLEAN] : v.anno \in BOOLEAN
    BY Zenon
  <1> QED
    BY Zenon, <1>1, <1>2, <1>3 DEF Values

LEMMA FailOK ==
    ASSUME TInv, work.req \in Requests, Fail, UNCHANGED <<ctrl, setup>>
    PROVE  WorkOK' /\ queue' \subseteq Requests'
  <1>1. Requests' = Requests
    BY Zenon, SameReads
  <1> QED
    BY Zenon, <1>1, IdleOK DEF Fail, TInv

\* What GetObject does, case by case.
LEMMA GetEffect ==
    ASSUME TInv, GetObject
    PROVE  /\ work.todo # <<>> /\ work.pc = "get" /\ UNCHANGED <<ctrl, setup, store, pending, hc, out, own, blind>>
           /\ \/ /\ ~Head(work.todo).skip /\ Present(store[Head(work.todo).obj])
                 /\ work' \in Work /\ work'.pc = "note" /\ work'.seen = store[Head(work.todo).obj]
                 /\ work'.req = work.req /\ work'.todo = work.todo /\ work'.data = work.data
                 /\ UNCHANGED queue
              \/ /\ Head(work.todo).skip \/ ~Present(store[Head(work.todo).obj])
                 /\ work' \in Work /\ work'.pc = "get" /\ work'.todo = Tail(work.todo)
                 /\ work'.req = work.req /\ work'.data = work.data
                 /\ UNCHANGED queue
              \/ Fail
  <1>1. /\ work.todo # <<>> /\ work.pc = "get"
        /\ UNCHANGED <<ctrl, setup, store, pending, hc, out, own, blind>>
    BY Zenon DEF GetObject
  <1> DEFINE s == store[Head(work.todo).obj]
             t == Tail(work.todo)
  <1>2. s \in Values /\ t \in Seq(Registration) /\ work \in Work
    BY Zenon, <1>1, Busy DEF TInv, Registration
  <1>3. \/ /\ ~Head(work.todo).skip /\ Present(s)
           /\ work' = [work EXCEPT !.seen = s, !.pc = "note"]
           /\ UNCHANGED queue
        \/ /\ Head(work.todo).skip \/ ~Present(s)
           /\ work' = [work EXCEPT !.todo = t] /\ UNCHANGED queue
        \/ Fail
    BY Zenon DEF GetObject
  <1> HIDE DEF s, t
  <1>4. /\ work' = [work EXCEPT !.seen = s, !.pc = "note"] =>
             /\ work' \in Work /\ work'.pc = "note" /\ work'.seen = s
             /\ work'.req = work.req /\ work'.todo = work.todo /\ work'.data = work.data
        /\ work' = [work EXCEPT !.todo = t] =>
             /\ work' \in Work /\ work'.pc = work.pc /\ work'.todo = t
             /\ work'.req = work.req /\ work'.data = work.data
    BY Zenon, <1>2 DEF Work
  <1> QED
    BY Zenon, <1>1, <1>3, <1>4 DEF s, t

LEMMA AddEffect ==
    ASSUME TInv, AddObject
    PROVE  /\ work.todo # <<>> /\ work.pc = "add" /\ UNCHANGED <<ctrl, setup, store, pending, out, own, blind>>
           /\ \/ /\ Known(hc, Head(work.todo).obj)
                 /\ hc' = AddClowdObjectToObject(hc, Head(work.todo).obj, Head(work.todo).sub, work.seen.anno)
                 /\ work' \in Work /\ work'.pc = "get" /\ work'.todo = Tail(work.todo) /\ work'.req = work.req
                 /\ work'.data \in {work.data, With(work.data, Head(work.todo).obj, work.seen.content)}
                 /\ UNCHANGED queue
              \/ Fail /\ UNCHANGED hc
  <1>1. /\ work.todo # <<>> /\ work.pc = "add"
        /\ UNCHANGED <<ctrl, setup, store, pending, out, own, blind>>
    BY Zenon DEF AddObject, TInv
  <1> DEFINE t == Tail(work.todo)
             d == IF Head(work.todo).copied
                    THEN With(work.data, Head(work.todo).obj, work.seen.content) ELSE work.data
  <1>2. t \in Seq(Registration) /\ work \in Work /\ Absent \in Values
    BY Zenon, <1>1, Busy, IdleFacts DEF TInv, Work
  <1>3. work.seen.content \in Contents
    BY <1>1 DEF TInv, Work, Values, Present, Absent
  <1>4. d \in Hashes /\ d \in {work.data, With(work.data, Head(work.todo).obj, work.seen.content)}
    BY Zenon, <1>1, <1>2, <1>3, Busy, WithType DEF Work, Registration
  <1>5. \/ /\ Known(hc, Head(work.todo).obj)
           /\ hc' = AddClowdObjectToObject(hc, Head(work.todo).obj, Head(work.todo).sub, work.seen.anno)
           /\ work' = [work EXCEPT !.pc = "get", !.todo = t, !.seen = Absent, !.data = d]
           /\ UNCHANGED queue
        \/ Fail /\ UNCHANGED hc
    BY Zenon DEF AddObject
  <1> HIDE DEF d, t
  <1>6. work' = [work EXCEPT !.pc = "get", !.todo = t, !.seen = Absent, !.data = d] =>
             /\ work' \in Work /\ work'.pc = "get" /\ work'.todo = t
             /\ work'.req = work.req /\ work'.data = d
    BY Zenon, <1>2, <1>4 DEF Work
  <1> QED
    BY Zenon, <1>1, <1>4, <1>5, <1>6 DEF t

----------------------------------------------------------------------------
(* The hash cache *)

LEMMA EntryFacts == NoEntry \in Entry /\ NoEntry.hash = 0 /\ NoEntry.subs = {}
  BY Zenon DEF NoEntry, Entry

LEMMA NoteCache ==
    ASSUME NEW h \in [Objects -> Entry], NEW o \in Objects, NEW n \in Contents, NEW b \in BOOLEAN
    PROVE  LET k == CreateOrUpdateObject(h, o, n, b)
           IN  /\ k \in [Objects -> Entry] /\ k[o].hash = n
               /\ k[o].subs = IF Known(h, o) THEN h[o].subs ELSE {}
               /\ \A p \in Objects \ {o} : k[p] = h[p]
  <1>1. CASE Known(h, o)
    <2> DEFINE e == [h[o] EXCEPT !.hash = n]
    <2>1. e \in Entry /\ e.hash = n /\ e.subs = h[o].subs
      BY Zenon DEF Entry
    <2>2. CreateOrUpdateObject(h, o, n, b) = [h EXCEPT ![o] = e]
      BY Zenon, <1>1 DEF CreateOrUpdateObject
    <2> HIDE DEF e
    <2> QED
      BY Zenon, <1>1, <2>1, <2>2
  <1>2. CASE ~Known(h, o)
    <2> DEFINE e == [hash |-> n, subs |-> {}, always |-> b]
    <2>1. e \in Entry /\ e.hash = n /\ e.subs = {}
      BY Zenon DEF Entry
    <2>2. CreateOrUpdateObject(h, o, n, b) = [h EXCEPT ![o] = e]
      BY Zenon, <1>2 DEF CreateOrUpdateObject
    <2> HIDE DEF e
    <2> QED
      BY Zenon, <1>2, <2>1, <2>2
  <1> QED
    BY Zenon, <1>1, <1>2

LEMMA RemoveCache ==
    ASSUME NEW h \in [Objects -> Entry], NEW r
    PROVE  LET k == RemoveClowdObjectFromObjects(h, r)
           IN  /\ k \in [Objects -> Entry]
               /\ \A p \in Objects : k[p].hash = h[p].hash /\ k[p].subs = h[p].subs \ {r}
  <1>1. ASSUME NEW p \in Objects
        PROVE  /\ [h[p] EXCEPT !.subs = h[p].subs \ {r}] \in Entry
               /\ [h[p] EXCEPT !.subs = h[p].subs \ {r}].hash = h[p].hash
               /\ [h[p] EXCEPT !.subs = h[p].subs \ {r}].subs = h[p].subs \ {r}
    <2>1. h[p] \in Entry /\ h[p].subs \ {r} \in SUBSET (Apps \union {Env})
      BY Zenon DEF Entry
    <2> QED
      BY Zenon, <2>1 DEF Entry
  <1> QED
    BY Zenon, <1>1 DEF RemoveClowdObjectFromObjects

LEMMA DeleteCache ==
    ASSUME NEW h \in [Objects -> Entry], NEW o \in Objects
    PROVE  /\ Delete(h, o) \in [Objects -> Entry] /\ Delete(h, o)[o] = NoEntry
           /\ \A p \in Objects \ {o} : Delete(h, o)[p] = h[p]
  BY Zenon, EntryFacts DEF Delete

\* An object that is annotated, or held as Always, gets its subscriber.
LEMMA AddCache ==
    ASSUME NEW h \in [Objects -> Entry], NEW o \in Objects, NEW r \in Apps \union {Env}, NEW b \in BOOLEAN
    PROVE  LET k == AddClowdObjectToObject(h, o, r, b)
           IN  /\ k \in [Objects -> Entry] /\ \A p \in Objects : k[p].hash = h[p].hash
               /\ k[o].subs \in {h[o].subs, h[o].subs \union {r}} /\ (b => r \in k[o].subs)
               /\ \A p \in Objects \ {o} : k[p] = h[p]
  <1> DEFINE e == [h[o] EXCEPT !.subs = h[o].subs \union {r}]
             k == AddClowdObjectToObject(h, o, r, b)
  <1>1. h[o] \in Entry /\ h[o].subs \union {r} \in SUBSET (Apps \union {Env})
    BY Zenon DEF Entry
  <1>2. e \in Entry /\ e.hash = h[o].hash /\ e.subs = h[o].subs \union {r}
    BY Zenon, <1>1 DEF Entry
  <1>3. (k = h /\ ~b) \/ k = [h EXCEPT ![o] = e]
    BY Zenon DEF AddClowdObjectToObject
  <1> HIDE DEF e, k
  <1>4. /\ k \in [Objects -> Entry] /\ \A p \in Objects : k[p].hash = h[p].hash
        /\ k[o].subs \in {h[o].subs, h[o].subs \union {r}} /\ (b => r \in k[o].subs)
        /\ \A p \in Objects \ {o} : k[p] = h[p]
    BY Zenon, <1>2, <1>3
  <1> QED
    BY Zenon, <1>4 DEF k

\* What the handlers do to the cache and the queue for an event of object o.
LEMMA HandleEffect ==
    ASSUME TInv, NEW o \in Objects, Handle(o)
    PROVE  /\ pending[o] # <<>> /\ Head(pending[o]) \in Event
           /\ pending' = [pending EXCEPT ![o] = Tail(pending[o])]
           /\ UNCHANGED <<ctrl, setup, store, work, out, own, events>>
           /\ blind' = IF work.req # "none" /\ o \in ReadObjects(work.req) THEN blind \union {o} ELSE blind
           /\ hc' \in [Objects -> Entry] /\ queue \subseteq queue' /\ queue' \subseteq Requests
           /\ \A p \in Objects \ {o} : hc'[p] = hc[p]
           /\ hc'[o].subs \subseteq hc[o].subs
           /\ ~Known(hc', o) => hc'[o].subs = {} \/ hc'[o] = hc[o]
           /\ \/ \A r \in Requests : r \in hc'[o].subs => r \in queue'
              \/ hc'[o] = hc[o] /\ hc[o].hash = Head(pending[o]).new.content
              \/ hc'[o] = hc[o] /\ ~Present(Head(pending[o]).old)
  <1> DEFINE e == Head(pending[o])
  <1>1. pending[o] # <<>> /\ pending[o] \in Seq(Event)
    BY Zenon DEF TInv, Handle
  <1>2. e \in Event /\ e.old \in Values /\ e.new \in Values
    <2>1. e \in Event
      BY <1>1
    <2> QED
      BY Zenon, <2>1 DEF Event
  <1>3. /\ pending' = [pending EXCEPT ![o] = Tail(pending[o])]
        /\ UNCHANGED <<ctrl, setup, store, work, out, own, events>>
        /\ blind' = IF work.req # "none" /\ o \in ReadObjects(work.req) THEN blind \union {o} ELSE blind
    BY Zenon DEF Handle
  <1>4. \/ ~Present(e.old) /\ Present(e.new) /\ HandlerCreate(o, e.new)
        \/ Present(e.new) /\ HandlerUpdate(o, e.old, e.new)
        \/ HandlerDelete(o)
    BY Zenon DEF Handle
  <1> DEFINE Goal == /\ hc' \in [Objects -> Entry] /\ queue \subseteq queue' /\ queue' \subseteq Requests
                     /\ \A p \in Objects \ {o} : hc'[p] = hc[p]
                     /\ hc'[o].subs \subseteq hc[o].subs
                     /\ ~Known(hc', o) => hc'[o].subs = {} \/ hc'[o] = hc[o]
                     /\ \/ \A r \in Requests : r \in hc'[o].subs => r \in queue'
                        \/ hc'[o] = hc[o] /\ hc[o].hash = e.new.content
                        \/ hc'[o] = hc[o] /\ ~Present(e.old)
  <1> HIDE DEF e
  <1>5. hc \in [Objects -> Entry] /\ queue \subseteq Requests
    BY Zenon DEF TInv
  <1>6. reconcileAllAppsUsingObject(o) \subseteq Requests /\ \A h : doUpdateToHash(h, o) = h[o].subs \intersect Requests
    BY Zenon DEF reconcileAllAppsUsingObject, doUpdateToHash
  <1> DEFINE k == CreateOrUpdateObject(hc, o, e.new.content, FALSE)
             upd == updateHashCacheForConfigMapAndSecret(o, e.new)
  <1>7. Present(e.new) => /\ k \in [Objects -> Entry] /\ k[o].hash = e.new.content /\ Known(k, o)
                          /\ k[o].subs = IF Known(hc, o) THEN hc[o].subs ELSE {}
                          /\ \A p \in Objects \ {o} : k[p] = hc[p]
    <2>1. Present(e.new) => e.new.content \in Contents /\ e.new.content # 0
      BY <1>2 DEF Present, Values, Absent
    <2>2. ASSUME NEW n \in Contents
          PROVE  LET c == CreateOrUpdateObject(hc, o, n, FALSE)
                 IN  /\ c \in [Objects -> Entry] /\ c[o].hash = n
                     /\ c[o].subs = IF Known(hc, o) THEN hc[o].subs ELSE {}
                     /\ \A p \in Objects \ {o} : c[p] = hc[p]
      <3> DEFINE b == FALSE
      <3>1. b \in BOOLEAN
        BY Zenon
      <3> HIDE DEF b
      <3>2. LET c == CreateOrUpdateObject(hc, o, n, b)
            IN  /\ c \in [Objects -> Entry] /\ c[o].hash = n
                /\ c[o].subs = IF Known(hc, o) THEN hc[o].subs ELSE {}
                /\ \A p \in Objects \ {o} : c[p] = hc[p]
        BY <1>5, <3>1, NoteCache
      <3> QED
        BY Zenon, <3>2 DEF b
    <2>3. k[o].hash # 0 => Known(k, o)
      BY Zenon DEF Known
    <2> QED
      BY Zenon, <2>1, <2>2, <2>3
  <1>8. /\ upd.cache \in {k, hc} /\ (e.new.anno => upd.cache = k)
        /\ upd.changed => upd.cache = k
        /\ ~upd.changed => upd.cache = hc \/ (Known(hc, o) /\ hc[o].hash = e.new.content)
    BY Zenon DEF updateHashCacheForConfigMapAndSecret, HashChanged
  <1>9. Present(e.new) /\ Known(hc, o) /\ hc[o].hash = e.new.content => k[o] = hc[o] /\ k[o].hash = e.new.content
    <2>1. CASE Known(hc, o) /\ hc[o].hash = e.new.content
      <3>1. hc[o] \in Entry
        BY Zenon, <1>5
      <3>2. [hc[o] EXCEPT !.hash = e.new.content] = hc[o]
        BY Zenon, <2>1, <3>1 DEF Entry
      <3>3. k = [hc EXCEPT ![o] = [hc[o] EXCEPT !.hash = e.new.content]]
        BY Zenon, <2>1 DEF CreateOrUpdateObject
      <3> QED
        BY Zenon, <1>5, <2>1, <3>2, <3>3
    <2> QED
      BY Zenon, <2>1
  <1>10. ASSUME ~Present(e.old), Present(e.new), HandlerCreate(o, e.new) PROVE Goal
    <2>1. /\ hc' = upd.cache
          /\ queue' = IF upd.changed THEN queue \union doUpdateToHash(hc', o) \union reconcileAllAppsUsingObject(o)
                      ELSE queue
      BY Zenon, <1>10 DEF HandlerCreate
    <2> HIDE DEF k, upd
    <2>2. CASE upd.changed
      <3>1. hc' = k
        BY Zenon, <1>8, <2>1, <2>2
      <3>2. queue' = queue \union doUpdateToHash(hc', o) \union reconcileAllAppsUsingObject(o)
        BY Zenon, <2>1, <2>2
      <3> QED
        BY Zenon, <1>5, <1>6, <1>7, <1>10, <3>1, <3>2
    <2>3. CASE ~upd.changed
      BY Zenon, <1>5, <1>7, <1>8, <1>9, <1>10, <2>1, <2>3
    <2> QED
      BY Zenon, <2>2, <2>3
  <1>11. ASSUME Present(e.new), HandlerUpdate(o, e.old, e.new) PROVE Goal
    <2>1. CASE /\ e.new.anno /\ hc' = upd.cache
               /\ queue' = queue \union (IF upd.changed THEN doUpdateToHash(hc', o) ELSE {})
                                 \union (IF ~e.old.anno THEN reconcileAllAppsUsingObject(o) ELSE {})
      <3> HIDE DEF k, upd
      <3>1. CASE upd.changed
        <4>1. hc' = k
          BY Zenon, <1>8, <2>1
        <4>2. \E more \in {reconcileAllAppsUsingObject(o), {}} :
                 queue' = (queue \union doUpdateToHash(hc', o)) \union more
          BY Zenon, <2>1, <3>1
        <4>3. queue \subseteq queue' /\ queue' \subseteq Requests /\ hc'[o].subs \intersect Requests \subseteq queue'
          BY Zenon, <1>5, <1>6, <4>2
        <4> QED
          BY Zenon, <1>5, <1>7, <1>11, <4>1, <4>3
      <3>2. CASE ~upd.changed
        <4>1. hc' = k
          BY Zenon, <1>8, <2>1
        <4>2. hc' = hc \/ (Known(hc, o) /\ hc[o].hash = e.new.content)
          BY Zenon, <1>8, <2>1, <3>2
        <4>3. k = hc => hc[o].hash = e.new.content
          BY Zenon, <1>7, <1>11
        <4> QED
          BY Zenon, <1>5, <1>6, <1>7, <1>9, <1>11, <2>1, <3>2, <4>1, <4>2, <4>3
      <3> QED
        BY Zenon, <3>1, <3>2
    <2>2. CASE queue' = queue \union doUpdateToHash(hc, o) /\ hc' = hc
      BY Zenon, <1>5, <1>6, <2>2
    <2> QED
      BY Zenon, <1>11, <2>1, <2>2 DEF HandlerUpdate
  <1>12. ASSUME HandlerDelete(o) PROVE Goal
    <2>1. hc' = Delete(hc, o) /\ queue' = queue
      BY Zenon, <1>12 DEF HandlerDelete
    <2>2. /\ hc' \in [Objects -> Entry] /\ hc'[o] = NoEntry
          /\ \A p \in Objects \ {o} : hc'[p] = hc[p]
      BY Zenon, <1>5, <2>1, DeleteCache
    <2>3. hc'[o].subs = {}
      BY Zenon, <2>2, EntryFacts
    <2> QED
      BY Zenon, <1>5, <2>1, <2>2, <2>3
  <1>13. Goal
    BY Zenon, <1>4, <1>10, <1>11, <1>12
  <1> QED
    BY Zenon, <1>1, <1>2, <1>3, <1>13 DEF e

----------------------------------------------------------------------------
(* The worker's steps *)

\* What a step that neither stores nor delivers anything leaves alone.
LEMMA ToldSame ==
    ASSUME UNCHANGED <<ctrl, setup, store, pending>>
    PROVE  (\A o : Told(o)' = Told(o)) /\ (Linked => Linked')
  <1>1. \A o : Watched(o)' = Watched(o)
    BY Zenon, SameReads
  <1> QED
    BY Zenon, <1>1 DEF Told, Linked

LEMMA ListingSame ==
    ASSUME Listing, UNCHANGED <<ctrl, setup, hc>>
    PROVE  Listing'
  BY Zenon, SameReads DEF Listing, Listed, Known

LEMMA CopiedSame ==
    ASSUME Copied, UNCHANGED <<ctrl, setup, store, pending, blind>>, work'.req = work.req, work'.data = work.data
    PROVE  Copied'
  <1>1. \A o : Told(o)' = Told(o)
    BY Zenon, ToldSame
  <1> QED
    BY Zenon, <1>1, SameReads DEF Copied

LEMMA ServedSame ==
    ASSUME Served, UNCHANGED <<ctrl, setup, store, pending, hc, out, blind>>, queue \subseteq queue',
           work'.req = work.req
    PROVE  Served'
  <1>1. Requests' = Requests
    BY Zenon, SameReads
  <1>2. \A o : Told(o)' = Told(o)
    BY Zenon, ToldSame
  <1>3. \A r, o : Shows(r, o)' = Shows(r, o)
    BY Zenon, <1>2 DEF Shows
  <1>4. ASSUME NEW r \in Requests, NEW o \in Objects \ blind, Listed(r, o), r \notin queue'
        PROVE  hc[o].hash = Told(o).content /\ (r # work.req => Shows(r, o))
    BY Zenon, <1>4 DEF Served
  <1> QED
    BY Zenon, <1>1, <1>2, <1>3, <1>4 DEF Served, Listed

\* The worker goes on to the next object.
LEMMA TailOurs ==
    ASSUME TInv, Ours, work.todo # <<>>, UNCHANGED <<ctrl, setup>>, work'.req = work.req,
           work'.todo = Tail(work.todo)
    PROVE  Ours'
  <1>1. \A i \in 1..Len(Tail(work.todo)) : i + 1 \in 1..Len(work.todo) /\ Tail(work.todo)[i] = work.todo[i + 1]
    BY Zenon, Busy
  <1>2. ASSUME work.req # "none", NEW i \in 1..Len(Tail(work.todo))
        PROVE  /\ Tail(work.todo)[i].sub \in {work.req, Env}
               /\ Tail(work.todo)[i].skip \/ Tail(work.todo)[i].obj \in ReadObjects(work.req)
    BY Zenon, <1>1, <1>2 DEF Ours
  <1> QED
    BY Zenon, <1>2, SameReads DEF Ours

\* What a reconcile writes.
LEMMA PersistFacts ==
    ASSUME NEW r, NEW d, NEW e
    PROVE  /\ persistConfig(r, d, e).data = d
           /\ \A o \in Objects : r \in hc[o].subs =>
                o \in DOMAIN persistConfig(r, d, e).hashed /\ persistConfig(r, d, e).hashed[o] = hc[o].hash
  <1> DEFINE h == [o \in ObjectsOf(hc, r) |-> hc[o].hash]
  <1>1. \A o \in Objects : r \in hc[o].subs => o \in DOMAIN h /\ h[o] = hc[o].hash
    BY Zenon DEF ObjectsOf
  <1>2. persistConfig(r, d, e) = [data |-> d, hashes |-> e, hashed |-> h]
    BY Zenon DEF persistConfig
  <1> HIDE DEF h
  <1>3. persistConfig(r, d, e).data = d /\ persistConfig(r, d, e).hashed = h
    BY <1>2
  <1> QED
    BY Zenon, <1>1, <1>3

\* A reconcile that fails is queued again.
LEMMA FailKeeps ==
    ASSUME WInv, work.req \in Requests, Fail, UNCHANGED <<ctrl, setup, store, pending, hc, out, own, blind>>
    PROVE  WInv'
  <1>1. WorkOK' /\ queue' \subseteq Requests' /\ Requests' = Requests
    BY Zenon, FailOK, SameReads DEF WInv
  <1>2. TInv'
    BY Zenon, <1>1 DEF WInv, TInv, WorkOK
  <1>3. work'.req = "none" /\ work'.pc = "get" /\ queue' = queue \union {work.req}
    BY Zenon, IdleFacts DEF Fail
  <1>4. (\A o : Told(o)' = Told(o)) /\ Linked'
    BY Zenon, ToldSame DEF WInv
  <1>5. Ours' /\ Holding' /\ Copied'
    BY Zenon, <1>3 DEF Ours, Holding, Copied
  <1>6. Listing'
    BY Zenon, <1>1, SameReads DEF WInv, Listing, Listed, Known
  <1>7. Served'
    <2>1. ASSUME NEW r \in Requests, NEW o \in Objects \ blind, Listed(r, o), r \notin queue'
          PROVE  hc[o].hash = Told(o).content /\ Shows(r, o)
      BY Zenon, <1>3, <2>1 DEF WInv, Served
    <2>2. \A r, o : Shows(r, o)' = Shows(r, o)
      BY Zenon, <1>4 DEF Shows
    <2> QED
      BY Zenon, <1>1, <1>4, <2>1, <2>2 DEF Served, Listed
  <1> QED
    BY Zenon, <1>2, <1>4, <1>5, <1>6, <1>7 DEF WInv

\* The subscriptions of r are dropped; its reads are all to do.
LEMMA StartEffect ==
    ASSUME TInv, NEW r \in Requests, StartReconcile(r)
    PROVE  /\ r \in Apps \union {Env} /\ r # "none" /\ work.req = "none" /\ queue' = queue \ {r}
           /\ UNCHANGED <<ctrl, setup, store, pending, out, own, blind>>
           /\ Reads(r) \in Seq(Mine(r))
           /\ work' \in Work /\ work'.req = r /\ work'.todo = Reads(r) /\ work'.pc = "get" /\ work'.data = NoHash
           /\ hc' \in [Objects -> Entry]
           /\ \A p \in Objects : hc'[p].hash = hc[p].hash /\ hc'[p].subs = hc[p].subs \ {r}
  <1>1. /\ work.req = "none" /\ queue' = queue \ {r} /\ hc' = RemoveClowdObjectFromObjects(hc, r)
        /\ UNCHANGED <<ctrl, setup, store, pending, out, own, blind>>
    BY Zenon DEF StartReconcile
  <1>2. r \in Apps \union {Env} /\ r # "none"
    BY Zenon, RequestFacts
  <1>3. Reads(r) \in Seq(Mine(r)) /\ Reads(r) \in Seq(Registration)
    <2>1. Reads(r) \in Seq(Mine(r))
      BY Zenon, <1>2, ReadsType DEF TInv
    <2>2. Mine(r) \subseteq Registration
      BY Zenon DEF Mine
    <2> QED
      BY <2>1, <2>2
  <1>4. /\ work' \in Work /\ work'.req = r /\ work'.todo = Reads(r) /\ work'.pc = "get" /\ work'.data = NoHash
    <2> DEFINE q == Reads(r)
    <2>1. work' = [Idle EXCEPT !.req = r, !.todo = q]
      BY Zenon DEF StartReconcile
    <2>2. q \in Seq(Registration) /\ Idle \in Work /\ Idle.pc = "get" /\ Idle.data = NoHash
      BY Zenon, <1>3, IdleFacts
    <2> HIDE DEF q
    <2>3. work' \in Work /\ work'.req = r /\ work'.todo = q /\ work'.pc = Idle.pc /\ work'.data = Idle.data
      BY Zenon, <1>2, <2>1, <2>2 DEF Work
    <2> QED
      BY Zenon, <2>2, <2>3 DEF q
  <1>5. /\ hc' \in [Objects -> Entry]
        /\ \A p \in Objects : hc'[p].hash = hc[p].hash /\ hc'[p].subs = hc[p].subs \ {r}
    <2>1. PICK h : h = hc
      BY Zenon
    <2>2. h \in [Objects -> Entry]
      BY Zenon, <2>1 DEF TInv
    <2>3. /\ RemoveClowdObjectFromObjects(h, r) \in [Objects -> Entry]
          /\ \A p \in Objects : /\ RemoveClowdObjectFromObjects(h, r)[p].hash = h[p].hash
                                /\ RemoveClowdObjectFromObjects(h, r)[p].subs = h[p].subs \ {r}
      BY Zenon, <2>2, RemoveCache
    <2> QED
      BY Zenon, <1>1, <2>1, <2>3
  <1> QED
    BY Zenon, <1>1, <1>2, <1>3, <1>4, <1>5

LEMMA StartKeeps ==
    ASSUME WInv, NEW r \in Requests, StartReconcile(r)
    PROVE  WInv'
  <1>1. /\ work.req = "none" /\ queue' = queue \ {r} /\ hc' = RemoveClowdObjectFromObjects(hc, r)
        /\ UNCHANGED <<ctrl, setup, store, pending, out, own, blind>>
    BY Zenon DEF StartReconcile
  <1>2. r \in Apps \union {Env} /\ r # "none" /\ Requests' = Requests
    BY Zenon, <1>1, RequestFacts, SameReads DEF WInv
  <1>3. Reads(r) \in Seq(Mine(r))
    BY Zenon, StartEffect DEF WInv
  <1>4. /\ work' \in Work /\ work'.req = r /\ work'.todo = Reads(r) /\ work'.pc = "get" /\ work'.data = NoHash
    BY Zenon, StartEffect DEF WInv
  <1>5. /\ hc' \in [Objects -> Entry]
        /\ \A p \in Objects : hc'[p].hash = hc[p].hash /\ hc'[p].subs = hc[p].subs \ {r}
    BY Zenon, StartEffect DEF WInv
  <1>6. TInv'
    BY Zenon, <1>1, <1>2, <1>4, <1>5 DEF WInv, TInv
  <1>7. (\A o : Told(o)' = Told(o)) /\ Linked'
    BY Zenon, <1>1, ToldSame DEF WInv
  <1>8. Ours'
    <2>1. ASSUME NEW i \in 1..Len(Reads(r))
          PROVE  Reads(r)[i].sub \in {r, Env} /\ (Reads(r)[i].skip \/ Reads(r)[i].obj \in ReadObjects(r))
      <3>1. i \in DOMAIN Reads(r) /\ Reads(r)[i] \in Mine(r)
        BY <1>3
      <3> QED
        BY Zenon, <3>1 DEF Mine, ReadObjects, ReadsOf
    <2>2. ReadObjects(r)' = ReadObjects(r)
      BY Zenon, <1>1, SameReads
    <2> QED
      BY Zenon, <1>4, <2>1, <2>2 DEF Ours
  <1>9. Holding' /\ Copied'
    BY Zenon, <1>4, IdleFacts DEF Holding, Copied
  <1>10. Listing'
    <2>1. ASSUME NEW p \in Objects, ~Known(hc', p) PROVE hc'[p].subs = {}
      BY Zenon, <1>5, <2>1 DEF WInv, Listing, Known
    <2>2. ASSUME NEW q \in Requests, NEW p \in Objects, q \in hc'[p].subs PROVE p \in ReadObjects(q)
      BY Zenon, <1>5, <2>2 DEF WInv, Listing, Listed
    <2> QED
      BY Zenon, <1>1, <2>1, <2>2, SameReads DEF Listing, Listed, Known
  <1>11. Served'
    <2>1. ASSUME NEW q \in Requests, NEW o \in Objects, Listed(q, o)', q \notin queue', o \notin blind
          PROVE  hc'[o].hash = Told(o).content /\ Shows(q, o)
      <3>1. Listed(q, o) /\ q # r /\ q \notin queue /\ q # work.req
        BY Zenon, <1>1, <1>2, <1>5, <2>1, RequestFacts DEF Listed, WInv
      <3>2. hc[o].hash = Told(o).content /\ Shows(q, o)
        BY Zenon, <2>1, <3>1 DEF WInv, Served
      <3> QED
        BY Zenon, <1>5, <3>2
    <2>2. \A q, o : Shows(q, o)' = Shows(q, o)
      BY Zenon, <1>1, <1>7 DEF Shows
    <2> QED
      BY Zenon, <1>1, <1>2, <1>7, <2>1, <2>2 DEF Served
  <1> QED
    BY Zenon, <1>6, <1>7, <1>8, <1>9, <1>10, <1>11 DEF WInv

LEMMA GetKeeps ==
    ASSUME WInv, GetObject
    PROVE  WInv'
  <1>1. TInv
    BY Zenon DEF WInv
  <1>2. work.todo # <<>> /\ work.pc = "get" /\ UNCHANGED <<ctrl, setup, store, pending, hc, out, own, blind>>
    BY Zenon, <1>1, GetEffect
  <1>3. work.req \in Requests /\ work.req # "none" /\ Requests' = Requests
    BY Zenon, <1>1, <1>2, Busy, SameReads
  <1>4. CASE Fail
    BY Zenon, <1>2, <1>3, <1>4, FailKeeps
  <1>5. CASE work' \in Work /\ work'.req = work.req /\ work'.data = work.data /\ UNCHANGED queue
    <2>1. (\A o : Told(o)' = Told(o)) /\ Linked'
      BY Zenon, <1>2, ToldSame DEF WInv
    <2>2. Listing' /\ Copied' /\ Served'
      BY Zenon, <1>2, <1>5, ListingSame, CopiedSame, ServedSame DEF WInv
    <2>3. CASE /\ ~Head(work.todo).skip /\ Present(store[Head(work.todo).obj])
               /\ work'.pc = "note" /\ work'.seen = store[Head(work.todo).obj] /\ work'.todo = work.todo
      <3>1. TInv'
        BY Zenon, <1>1, <1>2, <1>3, <1>5, <2>3 DEF TInv
      <3>2. Ours' /\ Holding'
        BY Zenon, <1>2, <1>3, <1>5, <2>3, SameReads DEF WInv, Ours, Holding
      <3> QED
        BY Zenon, <2>1, <2>2, <3>1, <3>2 DEF WInv
    <2>4. CASE work'.pc = "get" /\ work'.todo = Tail(work.todo)
      <3>1. TInv'
        BY Zenon, <1>1, <1>2, <1>3, <1>5, <2>4 DEF TInv
      <3>2. Ours' /\ Holding'
        BY Zenon, <1>1, <1>2, <1>5, <2>4, TailOurs DEF WInv, Holding
      <3> QED
        BY Zenon, <2>1, <2>2, <3>1, <3>2 DEF WInv
    <2> QED
      BY Zenon, <1>1, <1>4, <2>3, <2>4, GetEffect
  <1> QED
    BY Zenon, <1>1, <1>4, <1>5, GetEffect

\* The hash of the object in the worker's hands is noted.
LEMMA NoteEffect ==
    ASSUME TInv, NoteObject
    PROVE  LET o == Head(work.todo).obj
           IN  /\ o \in Objects /\ work.seen.content \in Contents /\ work.seen.content # 0
               /\ hc' \in [Objects -> Entry] /\ hc'[o].hash = work.seen.content
               /\ hc'[o].subs = IF Known(hc, o) THEN hc[o].subs ELSE {}
               /\ \A q \in Objects \ {o} : hc'[q] = hc[q]
               /\ work' \in Work /\ work'.pc = "add" /\ work'.req = work.req /\ work'.todo = work.todo
               /\ work'.seen = work.seen /\ work'.data = work.data
  <1> DEFINE g == Head(work.todo)
             o == g.obj
  <1>1. TInv /\ work.pc = "note"
    BY Zenon DEF NoteObject
  <1>2. work.todo # <<>> /\ Present(work.seen)
    BY Zenon, <1>1 DEF TInv
  <1>3. g \in Registration
    BY Zenon, <1>1, <1>2, Busy
  <1>4. o \in Objects /\ g.always \in BOOLEAN
    BY Zenon, <1>3 DEF Registration
  <1>5. work.seen.content \in Contents /\ work.seen.content # 0
    <2>1. work.seen \in Values
      BY Zenon, <1>1 DEF TInv, Work
    <2> QED
      BY <1>2, <2>1 DEF Values, Present, Absent
  <1>6. /\ hc' \in [Objects -> Entry] /\ hc'[o].hash = work.seen.content
        /\ hc'[o].subs = IF Known(hc, o) THEN hc[o].subs ELSE {}
        /\ \A q \in Objects \ {o} : hc'[q] = hc[q]
    <2> DEFINE h == hc
               n == work.seen.content
               b == g.always
    <2>1. h \in [Objects -> Entry] /\ n \in Contents /\ b \in BOOLEAN /\ o \in Objects
      BY Zenon, <1>1, <1>4, <1>5 DEF TInv
    <2>2. hc' = CreateOrUpdateObject(h, o, n, b)
      BY Zenon DEF NoteObject
    <2> HIDE DEF h, n, b, o
    <2>3. /\ CreateOrUpdateObject(h, o, n, b) \in [Objects -> Entry]
          /\ CreateOrUpdateObject(h, o, n, b)[o].hash = n
          /\ CreateOrUpdateObject(h, o, n, b)[o].subs = IF Known(h, o) THEN h[o].subs ELSE {}
          /\ \A q \in Objects \ {o} : CreateOrUpdateObject(h, o, n, b)[q] = h[q]
      BY <2>1, NoteCache
    <2> QED
      BY Zenon, <2>2, <2>3 DEF h, n
  <1>7. /\ work' \in Work /\ work'.pc = "add" /\ work'.req = work.req /\ work'.todo = work.todo
        /\ work'.seen = work.seen /\ work'.data = work.data
    <2>1. work' = [work EXCEPT !.pc = "add"] /\ work \in Work
      BY Zenon, <1>1 DEF NoteObject, TInv
    <2> QED
      BY Zenon, <2>1 DEF Work
  <1> QED
    BY Zenon, <1>4, <1>5, <1>6, <1>7

LEMMA NoteKeeps ==
    ASSUME WInv, NoteObject
    PROVE  WInv'
  <1> DEFINE g == Head(work.todo)
             o == g.obj
  <1>1. TInv /\ work.pc = "note" /\ UNCHANGED <<ctrl, setup, store, pending, queue, out, own>>
    BY Zenon DEF WInv, NoteObject
  <1>2. work.todo # <<>> /\ Present(work.seen) /\ ~g.skip
    BY Zenon, <1>1 DEF TInv
  <1>3. work.req \in Requests /\ g \in Registration /\ Requests' = Requests
    BY Zenon, <1>1, <1>2, Busy, SameReads
  <1>4. o \in Objects /\ g.always \in BOOLEAN
    BY Zenon, <1>3 DEF Registration
  <1>5. work.seen.content \in Contents /\ work.seen.content # 0
    BY Zenon, <1>1, NoteEffect
  <1>6. /\ hc' \in [Objects -> Entry] /\ hc'[o].hash = work.seen.content
        /\ hc'[o].subs = IF Known(hc, o) THEN hc[o].subs ELSE {}
        /\ \A q \in Objects \ {o} : hc'[q] = hc[q]
    BY Zenon, <1>1, NoteEffect
  <1>7. /\ work' \in Work /\ work'.pc = "add" /\ work'.req = work.req /\ work'.todo = work.todo
        /\ work'.seen = work.seen /\ work'.data = work.data
    BY Zenon, <1>1, NoteEffect
  <1>8. blind' = IF pending[o] # <<>> THEN blind \union {o} ELSE blind
    BY Zenon DEF NoteObject
  <1>9. (\A q : Told(q)' = Told(q)) /\ Linked'
    BY Zenon, <1>1, ToldSame DEF WInv
  <1>10. o \notin blind' => work.seen = Told(o)
    BY Zenon, <1>1, <1>8 DEF WInv, Holding, Told
  <1> HIDE DEF o
  <1>11. TInv'
    BY Zenon, <1>1, <1>2, <1>3, <1>6, <1>7 DEF TInv
  <1>12. Ours'
    BY Zenon, <1>1, <1>7, SameReads DEF WInv, Ours
  <1>13. Listing'
    <2>1. ASSUME NEW q \in Objects PROVE hc'[q].subs \subseteq hc[q].subs /\ (~Known(hc', q) => q # o)
      BY Zenon, <1>4, <1>5, <1>6 DEF Known
    <2>2. ASSUME NEW q \in Objects, ~Known(hc', q) PROVE hc'[q].subs = {}
      BY Zenon, <1>6, <2>1, <2>2 DEF WInv, Listing, Known
    <2>3. ASSUME NEW r \in Requests, NEW q \in Objects, r \in hc'[q].subs PROVE q \in ReadObjects(r)
      BY Zenon, <2>1, <2>3 DEF WInv, Listing, Listed
    <2> QED
      BY Zenon, <1>1, <2>2, <2>3, SameReads DEF Listing, Listed, Known
  <1>14. Holding'
    BY Zenon, <1>6, <1>7, <1>9, <1>10 DEF Holding, o
  <1>15. Copied'
    BY Zenon, <1>1, <1>7, <1>8, <1>9, SameReads DEF WInv, Copied
  <1>16. Served'
    <2>1. ASSUME NEW r \in Requests, NEW q \in Objects, Listed(r, q)', r \notin queue', q \notin blind'
          PROVE  hc'[q].hash = Told(q).content /\ (r # work.req => Shows(r, q))
      <3>1. Listed(r, q) /\ r \notin queue /\ q \notin blind
        BY Zenon, <1>1, <1>4, <1>6, <1>8, <2>1 DEF Listed
      <3>2. hc[q].hash = Told(q).content /\ (r # work.req => Shows(r, q))
        BY Zenon, <3>1 DEF WInv, Served
      <3> QED
        BY Zenon, <1>6, <1>10, <2>1, <3>2
    <2>2. \A r, q : Shows(r, q)' = Shows(r, q)
      BY Zenon, <1>1, <1>9 DEF Shows
    <2> QED
      BY Zenon, <1>3, <1>7, <1>9, <2>1, <2>2 DEF Served
  <1> QED
    BY Zenon, <1>9, <1>11, <1>12, <1>13, <1>14, <1>15, <1>16 DEF WInv

LEMMA AddKeeps ==
    ASSUME WInv, AddObject
    PROVE  WInv'
  <1> DEFINE g == Head(work.todo)
             o == g.obj
  <1>1. TInv
    BY Zenon DEF WInv
  <1>2. work.todo # <<>> /\ work.pc = "add" /\ UNCHANGED <<ctrl, setup, store, pending, out, own, blind>>
    BY Zenon, <1>1, AddEffect
  <1>3. work.req \in Requests /\ work.req # "none" /\ g \in Registration /\ Requests' = Requests /\ ~g.skip
    BY Zenon, <1>1, <1>2, Busy, SameReads DEF TInv
  <1>4. o \in Objects /\ g.sub \in Apps \union {Env}
    BY Zenon, <1>3 DEF Registration
  <1>5. CASE Fail /\ UNCHANGED hc
    BY Zenon, <1>2, <1>3, <1>5, FailKeeps
  <1>6. CASE /\ Known(hc, o) /\ hc' = AddClowdObjectToObject(hc, o, g.sub, work.seen.anno)
             /\ work' \in Work /\ work'.pc = "get" /\ work'.todo = Tail(work.todo) /\ work'.req = work.req
             /\ work'.data \in {work.data, With(work.data, o, work.seen.content)}
             /\ UNCHANGED queue
    <2>1. g = work.todo[1] /\ 1 \in 1..Len(work.todo)
      BY Zenon, <1>1, <1>2, Busy
    <2>2. g.sub \in {work.req, Env} /\ o \in ReadObjects(work.req)
      BY Zenon, <1>3, <2>1 DEF WInv, Ours
    <2>3. g.sub \in Requests => g.sub = work.req
      BY Zenon, <1>1, <1>3, <2>2, WatchAssumption DEF Requests, TInv
    <2>4. /\ hc' \in [Objects -> Entry]
          /\ \A q \in Objects : hc'[q].hash = hc[q].hash
          /\ hc'[o].subs \in {hc[o].subs, hc[o].subs \union {g.sub}}
          /\ \A q \in Objects \ {o} : hc'[q] = hc[q]
      <3>1. PICK h, r, k : h = hc /\ r = g.sub /\ k = hc'
        BY Zenon
      <3>2. h \in [Objects -> Entry] /\ r \in Apps \union {Env}
        BY Zenon, <1>1, <1>4, <3>1 DEF TInv
      <3>3. PICK b \in BOOLEAN : b = work.seen.anno
        BY Zenon, <1>1, SeenType
      <3>4. k = AddClowdObjectToObject(h, o, r, b)
        BY Zenon, <1>6, <3>1, <3>3
      <3>5. o \in Objects
        BY Zenon, <1>4
      <3> HIDE DEF o
      <3>6. /\ k \in [Objects -> Entry] /\ \A p \in Objects : k[p].hash = h[p].hash
            /\ k[o].subs \in {h[o].subs, h[o].subs \union {r}}
            /\ \A p \in Objects \ {o} : k[p] = h[p]
        BY ONLY SMTT(30), <3>5, <3>2, <3>4, AddCache
      <3> QED
        BY Zenon, <3>1, <3>6
    <2>5. (\A q : Told(q)' = Told(q)) /\ Linked'
      BY Zenon, <1>2, ToldSame DEF WInv
    <2>6. o \notin blind => work.seen.content = Told(o).content /\ hc[o].hash = Told(o).content
      BY Zenon, <1>2 DEF WInv, Holding
    <2> HIDE DEF o
    <2>7. TInv'
      BY Zenon, <1>1, <1>2, <1>3, <1>6, <2>4 DEF TInv
    <2>8. Ours' /\ Holding'
      BY Zenon, <1>1, <1>2, <1>6, TailOurs DEF WInv, Holding
    <2>9. ASSUME NEW r \in Requests, NEW q \in Objects, Listed(r, q)'
          PROVE  Listed(r, q) \/ (r = work.req /\ q = o)
      BY Zenon, <2>3, <2>4, <2>9 DEF Listed
    <2>10. Listing'
      <3>1. ASSUME NEW q \in Objects, ~Known(hc', q) PROVE hc'[q].subs = {}
        BY Zenon, <1>4, <1>6, <2>4, <3>1 DEF WInv, Listing, Known
      <3>2. ASSUME NEW r \in Requests, NEW q \in Objects, Listed(r, q)' PROVE q \in ReadObjects(r)
        BY Zenon, <2>2, <2>9, <3>2 DEF WInv, Listing
      <3> QED
        BY Zenon, <1>2, <1>3, <3>1, <3>2, SameReads DEF Listing, Known
    <2>11. Copied'
      <3>1. ASSUME NEW q \in DOMAIN work'.data
            PROVE  q \in ReadObjects(work.req) /\ (q \notin blind => work'.data[q] = Told(q).content)
        <4>1. CASE work'.data = work.data
          BY Zenon, <1>3, <4>1 DEF WInv, Copied
        <4>2. CASE work'.data = With(work.data, o, work.seen.content)
          <5>1. work.data \in Hashes /\ work.seen.content \in Contents
            <6>1. work.data \in Hashes /\ work.seen \in Values /\ Present(work.seen)
              BY Zenon, <1>1, <1>2 DEF TInv, Work
            <6> QED
              BY <6>1 DEF Values, Present, Absent
          <5> DEFINE f == work.data
                     n == work.seen.content
          <5>2. work'.data = With(f, o, n)
            BY Zenon, <4>2
          <5>6. f \in Hashes /\ n \in Contents
            BY Zenon, <5>1
          <5> HIDE DEF f, n
          <5>3. /\ DOMAIN work'.data = DOMAIN f \union {o} /\ work'.data[o] = n
                /\ \A x \in DOMAIN f : x # o => work'.data[x] = f[x]
            <6>1. /\ DOMAIN With(f, o, n) = DOMAIN f \union {o} /\ With(f, o, n)[o] = n
                  /\ \A x \in DOMAIN f : x # o => With(f, o, n)[x] = f[x]
              BY <1>4, <5>6, WithType
            <6> QED
              BY Zenon, <5>2, <6>1
          <5>4. \A x \in DOMAIN f : x \in ReadObjects(work.req) /\ (x \notin blind => f[x] = Told(x).content)
            BY Zenon, <1>3 DEF WInv, Copied, f
          <5>5. o \notin blind => n = Told(o).content
            BY Zenon, <2>6 DEF n
          <5> QED
            BY Zenon, <2>2, <3>1, <5>3, <5>4, <5>5
        <4> QED
          BY Zenon, <1>6, <4>1, <4>2
      <3> QED
        BY Zenon, <1>2, <1>6, <2>5, <3>1, SameReads DEF Copied
    <2>12. Served'
      <3>1. ASSUME NEW r \in Requests, NEW q \in Objects \ blind, Listed(r, q)', r \notin queue
            PROVE  hc'[q].hash = Told(q).content /\ (r # work.req => Shows(r, q))
        BY Zenon, <2>4, <2>6, <2>9, <3>1 DEF WInv, Served
      <3>2. \A r, q : Shows(r, q)' = Shows(r, q)
        BY Zenon, <1>2, <2>5 DEF Shows
      <3> QED
        BY Zenon, <1>2, <1>3, <1>6, <2>5, <3>1, <3>2 DEF Served
    <2> QED
      BY Zenon, <2>5, <2>7, <2>8, <2>10, <2>11, <2>12 DEF WInv
  <1> QED
    BY Zenon, <1>1, <1>5, <1>6, AddEffect

(* The reconcile writes what it copied and the hashes of what lists it.    *)
LEMMA ApplyKeeps ==
    ASSUME WInv, Apply
    PROVE  WInv'
  <1>1. TInv /\ work.req # "none" /\ UNCHANGED <<ctrl, setup, store, pending, hc, blind>>
    BY Zenon DEF WInv, Apply
  <1>2. work.req \in Requests /\ Requests' = Requests
    BY Zenon, <1>1, SameReads DEF TInv
  <1>3. CASE Fail /\ UNCHANGED <<out, own>>
    BY Zenon, <1>1, <1>2, <1>3, FailKeeps
  <1>4. ASSUME NEW e, out' = [out EXCEPT ![work.req] = persistConfig(work.req, work.data, e)],
               own' \subseteq own \union {work.req}, work' = Idle, UNCHANGED queue
        PROVE  WInv'
    <2>1. WorkOK' /\ work'.req = "none" /\ work'.pc = "get"
      BY Zenon, <1>4, IdleOK, IdleFacts
    <2>2. DOMAIN out = Requests /\ DOMAIN out' = Requests
      BY Zenon, <1>1, <1>4 DEF TInv
    <2>3. own' \subseteq Requests
      BY Zenon, <1>1, <1>2, <1>4 DEF TInv
    <2>4. TInv'
      BY Zenon, <1>1, <1>2, <1>4, <2>1, <2>2, <2>3 DEF TInv, WorkOK
    <2>5. (\A o : Told(o)' = Told(o)) /\ Linked'
      BY Zenon, <1>1, ToldSame DEF WInv
    <2>6. Ours' /\ Holding' /\ Copied'
      BY Zenon, <2>1 DEF Ours, Holding, Copied
    <2>7. Listing'
      BY Zenon, <1>1, <1>2, SameReads DEF WInv, Listing, Listed, Known
    <2>8. /\ out'[work.req] = persistConfig(work.req, work.data, e)
          /\ \A r \in Requests \ {work.req} : out'[r] = out[r]
      BY Zenon, <1>2, <1>4, <2>2
    <2>9. ASSUME NEW r \in Requests, NEW o \in Objects \ blind, Listed(r, o), r \notin queue
          PROVE  hc[o].hash = Told(o).content /\ Shows(r, o)'
      <3>1. hc[o].hash = Told(o).content /\ (r # work.req => Shows(r, o))
        BY Zenon, <2>9 DEF WInv, Served
      <3>2. CASE r # work.req
        BY Zenon, <2>5, <2>8, <3>1, <3>2 DEF Shows
      <3>3. CASE r = work.req
        <4> DEFINE d == work.data
        <4>1. out'[r] = persistConfig(r, d, e)
          BY Zenon, <2>8, <3>3
        <4> HIDE DEF d
        <4>2. /\ persistConfig(r, d, e).data = d
              /\ r # Env => o \in DOMAIN persistConfig(r, d, e).hashed /\ persistConfig(r, d, e).hashed[o] = hc[o].hash
          <5>1. /\ persistConfig(r, d, e).data = d
                /\ \A q \in Objects : r \in hc[q].subs =>
                     q \in DOMAIN persistConfig(r, d, e).hashed /\ persistConfig(r, d, e).hashed[q] = hc[q].hash
            BY PersistFacts
          <5>2. r \in hc[o].subs /\ o \in Objects
            BY Zenon, <2>9 DEF Listed
          <5> HIDE DEF d
          <5> QED
            BY <5>1, <5>2, Zenon
        <4>3. r # Env => o \in DOMAIN out'[r].hashed /\ out'[r].hashed[o] = Told(o).content
          BY Zenon, <3>1, <4>1, <4>2
        <4>4. o \in DOMAIN out'[r].data => out'[r].data[o] = Told(o).content
          BY Zenon, <1>1, <2>9, <4>1, <4>2 DEF WInv, Copied, d
        <4> QED
          BY Zenon, <2>5, <3>1, <4>3, <4>4 DEF Shows
      <3> QED
        BY Zenon, <3>2, <3>3
    <2>10. Served'
      BY Zenon, <1>1, <1>2, <1>4, <2>5, <2>9 DEF Served, Listed
    <2> QED
      BY Zenon, <2>4, <2>5, <2>6, <2>7, <2>10 DEF WInv
  <1>5. CASE /\ \E e \in SuperHashes(work.req) :
                 out' = [out EXCEPT ![work.req] = persistConfig(work.req, work.data, e)]
             /\ own' \subseteq own \union {work.req} /\ work' = Idle /\ UNCHANGED queue
    <2>1. PICK e \in SuperHashes(work.req) :
            out' = [out EXCEPT ![work.req] = persistConfig(work.req, work.data, e)]
      BY Zenon, <1>5
    <2> QED
      BY Zenon, <1>4, <1>5, <2>1
  <1>6. \/ /\ \E e \in SuperHashes(work.req) :
                out' = [out EXCEPT ![work.req] = persistConfig(work.req, work.data, e)]
           /\ own' \subseteq own \union {work.req} /\ work' = Idle /\ UNCHANGED queue
        \/ Fail /\ UNCHANGED <<out, own>>
    BY Zenon DEF Apply
  <1> QED
    BY Zenon, <1>3, <1>5, <1>6

----------------------------------------------------------------------------
(* Handlers, users and failures *)

LEMMA OwnedKeeps ==
    ASSUME WInv, NEW r \in Requests, HandleOwned(r)
    PROVE  WInv'
  <1>1. /\ UNCHANGED <<ctrl, setup, store, pending, hc, work, out, blind>>
        /\ queue' = queue \union {r} /\ own' = own \ {r}
    BY Zenon DEF HandleOwned
  <1>2. Requests' = Requests
    BY Zenon, <1>1, SameReads
  <1>3. (\A o : Told(o)' = Told(o)) /\ Linked'
    BY Zenon, <1>1, ToldSame DEF WInv
  <1>4. TInv'
    BY Zenon, <1>1, <1>2 DEF WInv, TInv
  <1>5. Listing' /\ Copied' /\ Served'
    BY Zenon, <1>1, ListingSame, CopiedSame, ServedSame DEF WInv
  <1>6. Ours' /\ Holding'
    <2>1. Ours'
      BY Zenon, <1>1, SameReads DEF WInv, Ours
    <2>2. Holding'
      BY Zenon, <1>1 DEF WInv, Holding, Told
    <2> QED
      BY Zenon, <2>1, <2>2
  <1> QED
    BY Zenon, <1>3, <1>4, <1>5, <1>6 DEF WInv

LEMMA RestartKeeps ==
    ASSUME WInv, Restart
    PROVE  WInv'
  <1> DEFINE Again(o) == IF Present(store[o]) /\ Watched(o) THEN <<[old |-> Absent, new |-> store[o]]>> ELSE <<>>
  <1>1. /\ UNCHANGED <<ctrl, setup, store, out>> /\ hc' = NewHashCache /\ queue' = Requests /\ work' = Idle
        /\ own' = {} /\ blind' = {} /\ pending' = [o \in Objects |-> Again(o)]
    BY Zenon DEF Restart
  <1>2. Requests' = Requests /\ (\A o : Watched(o)' = Watched(o)) /\ TInv
    BY Zenon, <1>1, SameReads DEF WInv
  <1>3. WorkOK' /\ work'.req = "none" /\ work'.pc = "get"
    BY Zenon, <1>1, IdleOK, IdleFacts
  <1>4. hc' \in [Objects -> Entry] /\ \A o \in Objects : hc'[o].subs = {}
    BY Zenon, <1>1, EntryFacts DEF NewHashCache
  <1>5. ASSUME NEW o \in Objects
        PROVE  /\ Again(o) \in Seq(Event)
               /\ ~Watched(o) => Again(o) = <<>>
               /\ Len(Again(o)) \in {0, 1}
               /\ Again(o) # <<>> => Len(Again(o)) = 1 /\ Again(o)[1].new = store[o]
    <2> DEFINE e == [old |-> Absent, new |-> store[o]]
    <2>1. e \in Event /\ e.new = store[o]
      BY Zenon, <1>2 DEF TInv, Event, Values
    <2> HIDE DEF e
    <2>2. <<e>> \in Seq(Event) /\ Len(<<e>>) = 1 /\ <<e>>[1] = e /\ <<>> \in Seq(Event) /\ Len(<<>>) = 0
      BY <2>1
    <2>3. Again(o) = <<e>> \/ Again(o) = <<>>
      BY Zenon DEF e
    <2>4. ~Watched(o) => Again(o) = <<>>
      BY Zenon
    <2> HIDE DEF Again
    <2> QED
      BY Zenon, <2>1, <2>2, <2>3, <2>4
  <1> HIDE DEF Again
  <1>6. TInv'
    <2>1. pending' \in [Objects -> Seq(Event)]
      BY Zenon, <1>1, <1>5
    <2> QED
      BY Zenon, <1>1, <1>2, <1>3, <1>4, <2>1 DEF TInv, WorkOK
  <1>7. Linked'
    <2>1. ASSUME NEW o \in Objects
          PROVE  /\ ~Watched(o) => Again(o) = <<>>
                 /\ \A i \in 1..Len(Again(o)) - 1 : Again(o)[i].new = Again(o)[i + 1].old
                 /\ Again(o) # <<>> => Again(o)[Len(Again(o))].new = store[o]
      BY <1>5
    <2> QED
      BY Zenon, <1>1, <1>2, <2>1 DEF Linked
  <1>8. Ours' /\ Holding' /\ Copied'
    BY Zenon, <1>3 DEF Ours, Holding, Copied
  <1>9. Listing' /\ Served'
    BY Zenon, <1>4 DEF Listing, Served, Listed
  <1> QED
    BY Zenon, <1>6, <1>7, <1>8, <1>9 DEF WInv

\* Handling the head of the queue of o tells the handlers its new state.
LEMMA PopTold ==
    ASSUME WInv, NEW o \in Objects, pending[o] # <<>>, UNCHANGED <<ctrl, setup, store>>,
           pending' = [pending EXCEPT ![o] = Tail(pending[o])]
    PROVE  /\ Linked' /\ pending' \in [Objects -> Seq(Event)]
           /\ Told(o)' = Head(pending[o]).new
           /\ \A p \in Objects \ {o} : Told(p)' = Told(p)
  <1> DEFINE s == pending[o]
             t == Tail(s)
  <1>1. s \in Seq(Event) /\ s # <<>>
    BY Zenon DEF WInv, TInv
  <1>2. /\ \A i \in 1..Len(s) - 1 : s[i].new = s[i + 1].old
        /\ s[Len(s)].new = store[o]
    BY Zenon DEF WInv, Linked
  <1>3. /\ pending' \in [Objects -> Seq(Event)] /\ pending'[o] = t
        /\ \A p \in Objects \ {o} : pending'[p] = pending[p]
    <2>1. t \in Seq(Event) /\ pending \in [Objects -> Seq(Event)]
      BY <1>1 DEF WInv, TInv
    <2> QED
      BY Zenon, <2>1
  <1> HIDE DEF s
  <1>4. /\ t \in Seq(Event) /\ Len(t) = Len(s) - 1 /\ Len(s) \in Nat /\ Len(s) >= 1
        /\ \A i \in 1..Len(t) : t[i] = s[i + 1]
    BY <1>1
  <1> HIDE DEF t
  <1>5. Head(s) = s[1] /\ (t # <<>> => Len(t) >= 1 /\ Head(t) = t[1]) /\ (t = <<>> => Len(t) = 0)
    <2>1. Head(s) = s[1]
      BY <1>1
    <2>2. t \in Seq(Event)
      BY Zenon, <1>4
    <2>3. (t # <<>> => Len(t) >= 1 /\ Head(t) = t[1]) /\ (t = <<>> => Len(t) = 0)
      BY <2>2
    <2> QED
      BY Zenon, <2>1, <2>3
  <1>6. /\ \A i \in 1..Len(t) - 1 : t[i].new = t[i + 1].old
        /\ t # <<>> => t[Len(t)].new = store[o]
    <2>1. ASSUME NEW i \in 1..Len(t) - 1 PROVE t[i].new = t[i + 1].old
      <3>1. i \in 1..Len(t) /\ i + 1 \in 1..Len(t) /\ i + 1 \in 1..Len(s) - 1
        BY <1>4
      <3> QED
        BY Zenon, <1>2, <1>4, <3>1
    <2>2. ASSUME t # <<>> PROVE t[Len(t)].new = store[o]
      <3>1. Len(t) \in 1..Len(t) /\ Len(t) + 1 = Len(s)
        BY <1>4, <1>5, <2>2
      <3> QED
        BY Zenon, <1>2, <1>4, <3>1
    <2> QED
      BY Zenon, <2>1, <2>2
  <1>7. (IF t = <<>> THEN store[o] ELSE Head(t).old) = Head(s).new
    <2>1. CASE t = <<>>
      <3>1. Len(s) = 1
        BY <1>4, <1>5, <2>1
      <3> QED
        BY Zenon, <1>2, <1>5, <2>1, <3>1
    <2>2. CASE t # <<>>
      <3>1. 1 \in 1..Len(t) /\ 1 \in 1..Len(s) - 1
        BY <1>4, <1>5, <2>2
      <3> QED
        BY Zenon, <1>2, <1>4, <1>5, <2>2, <3>1
    <2> QED
      BY Zenon, <2>1, <2>2
  <1>8. Told(o)' = Head(pending[o]).new
    BY Zenon, <1>3, <1>7 DEF Told, s
  <1>9. \A p \in Objects \ {o} : Told(p)' = Told(p)
    BY Zenon, <1>3 DEF Told
  <1>10. Watched(o)
    BY Zenon DEF WInv, Linked
  <1>11. Linked'
    <2>1. ASSUME NEW p \in Objects
          PROVE  /\ ~Watched(p) => pending'[p] = <<>>
                 /\ \A i \in 1..Len(pending'[p]) - 1 : pending'[p][i].new = pending'[p][i + 1].old
                 /\ pending'[p] # <<>> => pending'[p][Len(pending'[p])].new = store[p]
      <3>1. CASE p = o
        BY Zenon, <1>3, <1>6, <1>10, <3>1
      <3>2. CASE p # o
        BY Zenon, <1>3, <3>2 DEF WInv, Linked
      <3> QED
        BY Zenon, <3>1, <3>2
    <2> QED
      BY Zenon, <2>1, SameReads DEF Linked
  <1> QED
    BY Zenon, <1>3, <1>8, <1>9, <1>11

LEMMA HandleKeeps ==
    ASSUME WInv, NEW o \in Objects, Handle(o)
    PROVE  WInv'
  <1> DEFINE e == Head(pending[o])
  <1>1. TInv
    BY Zenon DEF WInv
  <1>2. /\ pending[o] # <<>> /\ pending' = [pending EXCEPT ![o] = Tail(pending[o])]
        /\ UNCHANGED <<ctrl, setup, store, work, out, own>>
        /\ blind' = IF work.req # "none" /\ o \in ReadObjects(work.req) THEN blind \union {o} ELSE blind
    BY Zenon, <1>1, HandleEffect
  <1>3. /\ hc' \in [Objects -> Entry] /\ queue \subseteq queue' /\ queue' \subseteq Requests
        /\ \A p \in Objects \ {o} : hc'[p] = hc[p]
        /\ hc'[o].subs \subseteq hc[o].subs
        /\ ~Known(hc', o) => hc'[o].subs = {} \/ hc'[o] = hc[o]
    BY Zenon, <1>1, HandleEffect
  <1>4. \/ \A r \in Requests : r \in hc'[o].subs => r \in queue'
        \/ hc'[o] = hc[o] /\ hc[o].hash = e.new.content
        \/ hc'[o] = hc[o] /\ ~Present(e.old)
    BY Zenon, <1>1, HandleEffect
  <1>5. /\ Linked' /\ pending' \in [Objects -> Seq(Event)] /\ Told(o)' = e.new
        /\ \A p \in Objects \ {o} : Told(p)' = Told(p)
    BY Zenon, <1>2, PopTold
  <1>6. Told(o) = e.old
    BY Zenon, <1>2 DEF Told
  <1> HIDE DEF e
  <1>7. Requests' = Requests /\ \A r : ReadObjects(r)' = ReadObjects(r)
    BY Zenon, <1>2, SameReads
  <1>8. TInv'
    BY Zenon, <1>1, <1>2, <1>3, <1>5, <1>7 DEF TInv
  <1>9. Ours'
    BY Zenon, <1>2, <1>7 DEF WInv, Ours
  <1>10. Listing'
    <2>1. ASSUME NEW p \in Objects PROVE hc'[p].subs \subseteq hc[p].subs
      BY Zenon, <1>3
    <2>2. ASSUME NEW p \in Objects, ~Known(hc', p) PROVE hc'[p].subs = {}
      BY Zenon, <1>3, <2>2 DEF WInv, Listing, Known
    <2> QED
      BY Zenon, <1>7, <2>1, <2>2 DEF WInv, Listing, Listed, Known
  <1>11. \A p \in Objects : p \notin blind' =>
           p \notin blind /\ (work.req # "none" /\ p \in ReadObjects(work.req) => Told(p)' = Told(p) /\ p # o)
    BY Zenon, <1>2, <1>5
  <1>12. Holding'
    <2> SUFFICES ASSUME work.pc # "get" PROVE Holding'
      BY Zenon, <1>2 DEF Holding
    <2> DEFINE g == Head(work.todo)
    <2>1. work.todo # <<>> /\ ~g.skip
      BY Zenon, <1>1 DEF TInv
    <2>2. work.req # "none" /\ g \in Registration /\ g = work.todo[1] /\ 1 \in 1..Len(work.todo)
      BY Zenon, <1>1, <2>1, Busy
    <2>3. g.obj \in Objects /\ g.obj \in ReadObjects(work.req)
      BY Zenon, <2>1, <2>2 DEF WInv, Ours, Registration
    <2>4. g.obj \notin blind' => g.obj \notin blind /\ g.obj # o
      BY Zenon, <1>2, <2>2, <2>3
    <2>5. g.obj # o => pending'[g.obj] = pending[g.obj] /\ hc'[g.obj] = hc[g.obj]
      BY Zenon, <1>1, <1>2, <1>3, <2>3 DEF TInv
    <2> QED
      BY Zenon, <1>2, <2>4, <2>5 DEF WInv, Holding, Told
  <1>13. Copied'
    <2>1. ASSUME NEW p \in DOMAIN work.data, work.req # "none"
          PROVE  p \in ReadObjects(work.req) /\ (p \notin blind' => work.data[p] = (Told(p)').content)
      <3>1. p \in ReadObjects(work.req) /\ (p \notin blind => work.data[p] = Told(p).content)
        BY Zenon, <2>1 DEF WInv, Copied
      <3>2. p \in Objects
        <4>1. work.data \in Hashes
          BY Zenon, <1>1 DEF TInv, Work
        <4> QED
          BY Zenon, <2>1, <4>1 DEF Hashes
      <3> QED
        BY Zenon, <1>11, <2>1, <3>1, <3>2
    <2> QED
      BY Zenon, <1>2, <1>7, <2>1 DEF Copied
  <1>14. Served'
    <2>1. ASSUME NEW r \in Requests, NEW p \in Objects, Listed(r, p)', r \notin queue', p \notin blind'
          PROVE  hc'[p].hash = (Told(p)').content /\ (r # work.req => Shows(r, p)')
      <3>1. Listed(r, p) /\ r \notin queue /\ p \notin blind
        BY Zenon, <1>3, <1>11, <2>1 DEF Listed
      <3>2. hc[p].hash = Told(p).content /\ (r # work.req => Shows(r, p))
        BY Zenon, <3>1 DEF WInv, Served
      <3>3. hc'[p] = hc[p] /\ (Told(p)').content = Told(p).content
        <4>1. CASE p # o
          BY Zenon, <1>3, <1>5, <4>1
        <4>2. CASE p = o
          <5>1. ~(\A q \in Requests : q \in hc'[o].subs => q \in queue')
            BY Zenon, <2>1, <4>2 DEF Listed
          <5>2. Present(e.old)
            <6>1. Known(hc, o)
              BY Zenon, <3>1, <4>2 DEF WInv, Listing, Listed
            <6> QED
              BY Zenon, <1>6, <3>2, <4>2, <6>1 DEF Known, Present
          <5>3. hc'[o] = hc[o] /\ hc[o].hash = e.new.content
            BY Zenon, <1>4, <5>1, <5>2
          <5> QED
            BY Zenon, <1>5, <3>2, <4>2, <5>3
        <4> QED
          BY Zenon, <4>1, <4>2
      <3>4. Shows(r, p) => Shows(r, p)'
        BY Zenon, <1>2, <3>3 DEF Shows
      <3> QED
        BY Zenon, <3>2, <3>3, <3>4
    <2> QED
      BY Zenon, <1>2, <1>7, <2>1 DEF Served
  <1> QED
    BY Zenon, <1>5, <1>8, <1>9, <1>10, <1>12, <1>13, <1>14 DEF WInv

\* An edit is not known to the handlers before its event is handled.
LEMMA EditTold ==
    ASSUME WInv, NEW o \in Objects, Edit(o)
    PROVE  /\ Linked' /\ pending' \in [Objects -> Seq(Event)] /\ store' \in [Objects -> Values]
           /\ \A p \in Objects : p # o \/ Watched(o) => Told(p)' = Told(p)
           /\ \A p \in Objects \ {o} : store'[p] = store[p] /\ pending'[p] = pending[p]
           /\ Watched(o) => pending'[o] # <<>>
           /\ UNCHANGED <<ctrl, setup, hc, queue, work, out, own, blind>>
  <1>1. PICK x \in Values :
             /\ store' = [store EXCEPT ![o] = x]
             /\ pending' = IF Watched(o) THEN [pending EXCEPT ![o] = Append(pending[o], [old |-> store[o], new |-> x])]
                            ELSE pending
    BY Zenon DEF Edit, Values
  <1>2. UNCHANGED <<ctrl, setup, hc, queue, work, out, own, blind>>
    BY Zenon DEF Edit
  <1>3. pending \in [Objects -> Seq(Event)] /\ store \in [Objects -> Values]
    BY Zenon DEF WInv, TInv
  <1>4. /\ store' \in [Objects -> Values] /\ store'[o] = x
        /\ \A p \in Objects \ {o} : store'[p] = store[p]
    BY Zenon, <1>1, <1>3
  <1> DEFINE s == pending[o]
             e == [old |-> store[o], new |-> x]
  <1>5. e \in Event /\ e.old = store[o] /\ e.new = x /\ s \in Seq(Event)
    BY Zenon, <1>3 DEF Event
  <1>6. /\ ~Watched(o) => s = <<>>
        /\ \A i \in 1..Len(s) - 1 : s[i].new = s[i + 1].old
        /\ s # <<>> => s[Len(s)].new = store[o]
    BY Zenon DEF WInv, Linked
  <1>7. \A p : Watched(p)' = Watched(p)
    BY Zenon, <1>2, SameReads
  <1>8. CASE ~Watched(o)
    <2>1. pending' = pending
      BY Zenon, <1>1, <1>8
    <2>2. Linked'
      BY Zenon, <1>4, <1>6, <1>7, <1>8, <2>1 DEF WInv, Linked
    <2> QED
      BY Zenon, <1>2, <1>3, <1>4, <1>8, <2>1, <2>2 DEF Told
  <1>9. CASE Watched(o)
    <2> DEFINE t == Append(s, e)
    <2>1. pending' = [pending EXCEPT ![o] = t]
      BY Zenon, <1>1, <1>9
    <2> HIDE DEF s, e
    <2>2. /\ t \in Seq(Event) /\ Len(t) = Len(s) + 1 /\ Len(s) \in Nat
          /\ t[Len(s) + 1] = e /\ \A i \in 1..Len(s) : t[i] = s[i]
      BY <1>5
    <2>3. s # <<>> => Len(s) >= 1 /\ Head(s) = s[1]
      BY <1>5
    <2>4. s = <<>> => Len(s) = 0
      OBVIOUS
    <2> HIDE DEF t
    <2>5. t # <<>> /\ Head(t) = t[1]
      BY <2>2
    <2>6. /\ pending' \in [Objects -> Seq(Event)] /\ pending'[o] = t
          /\ \A p \in Objects \ {o} : pending'[p] = pending[p]
      BY Zenon, <1>3, <2>1, <2>2
    <2>7. ASSUME NEW i \in 1..Len(t) - 1 PROVE t[i].new = t[i + 1].old
      <3>1. i \in 1..Len(s) /\ t[i] = s[i]
        BY <2>2
      <3>2. CASE i = Len(s)
        <4>1. s # <<>> /\ t[i + 1] = e
          BY <2>2, <2>4, <3>1, <3>2
        <4> QED
          BY Zenon, <1>5, <1>6, <3>1, <3>2, <4>1
      <3>3. CASE i # Len(s)
        <4>1. i + 1 \in 1..Len(s) /\ i \in 1..Len(s) - 1
          BY <2>2, <3>1, <3>3
        <4> QED
          BY Zenon, <1>6, <2>2, <3>1, <4>1
      <3> QED
        BY Zenon, <3>2, <3>3
    <2>8. t[Len(t)].new = x
      BY Zenon, <1>5, <2>2
    <2>9. Linked'
      <3>1. ASSUME NEW p \in Objects
            PROVE  /\ ~Watched(p) => pending'[p] = <<>>
                   /\ \A i \in 1..Len(pending'[p]) - 1 : pending'[p][i].new = pending'[p][i + 1].old
                   /\ pending'[p] # <<>> => pending'[p][Len(pending'[p])].new = store'[p]
        <4>1. CASE p = o
          BY Zenon, <1>4, <1>9, <2>6, <2>7, <2>8, <4>1
        <4>2. CASE p # o
          <5>1. pending'[p] = pending[p] /\ store'[p] = store[p]
            BY Zenon, <1>4, <2>6, <4>2
          <5>2. /\ ~Watched(p) => pending[p] = <<>>
                /\ \A i \in 1..Len(pending[p]) - 1 : pending[p][i].new = pending[p][i + 1].old
                /\ pending[p] # <<>> => pending[p][Len(pending[p])].new = store[p]
            BY Zenon DEF WInv, Linked
          <5> QED
            BY Zenon, <5>1, <5>2
        <4> QED
          BY Zenon, <4>1, <4>2
      <3> QED
        BY Zenon, <1>7, <3>1 DEF Linked
    <2>10. Head(t).old = IF s = <<>> THEN store[o] ELSE Head(s).old
      <3>1. CASE s = <<>>
        BY <1>5, <2>2, <2>4, <2>5, <3>1
      <3>2. CASE s # <<>>
        BY <2>2, <2>3, <2>5, <3>2
      <3> QED
        BY Zenon, <3>1, <3>2
    <2>11. \A p \in Objects : Told(p)' = Told(p)
      <3>1. Told(o)' = Told(o)
        BY Zenon, <2>5, <2>6, <2>10 DEF Told, s
      <3>2. \A p \in Objects \ {o} : Told(p)' = Told(p)
        BY Zenon, <1>4, <2>6 DEF Told
      <3> QED
        BY Zenon, <3>1, <3>2
    <2> QED
      BY Zenon, <1>2, <1>4, <2>5, <2>6, <2>9, <2>11
  <1> QED
    BY Zenon, <1>8, <1>9

LEMMA EditKeeps ==
    ASSUME WInv, NEW o \in Objects, Edit(o)
    PROVE  WInv'
  <1>1. TInv
    BY Zenon DEF WInv
  <1>2. /\ Linked' /\ pending' \in [Objects -> Seq(Event)] /\ store' \in [Objects -> Values]
        /\ UNCHANGED <<ctrl, setup, hc, queue, work, out, own, blind>>
    BY Zenon, EditTold
  <1>3. Requests' = Requests /\ \A r : ReadObjects(r)' = ReadObjects(r)
    BY Zenon, <1>2, SameReads
  <1>4. ASSUME NEW r \in Requests, NEW p \in ReadObjects(r), p \in Objects
        PROVE  Told(p)' = Told(p) /\ (pending'[p] = <<>> => store'[p] = store[p] /\ pending[p] = <<>>)
    <2>1. Watched(p)
      BY Zenon, <1>1, <1>4, Watching
    <2> QED
      BY Zenon, <1>4, <2>1, EditTold
  <1>5. TInv'
    BY Zenon, <1>1, <1>2, <1>3 DEF TInv
  <1>6. Ours' /\ Listing'
    BY Zenon, <1>2, <1>3 DEF WInv, Ours, Listing, Listed, Known
  <1>7. Holding'
    <2> SUFFICES ASSUME work.pc # "get" PROVE Holding'
      BY Zenon, <1>2 DEF Holding
    <2> DEFINE g == Head(work.todo)
               q == g.obj
    <2>1. work.todo # <<>> /\ ~g.skip
      BY Zenon, <1>1 DEF TInv
    <2>2. work.req \in Requests /\ work.req # "none" /\ g \in Registration /\ g = work.todo[1] /\ 1 \in 1..Len(work.todo)
      BY Zenon, <1>1, <2>1, Busy
    <2>3. q \in Objects /\ q \in ReadObjects(work.req)
      BY Zenon, <2>1, <2>2 DEF WInv, Ours, Registration
    <2>4. PICK p : p = q
      BY Zenon
    <2>5. Told(p)' = Told(p) /\ (pending'[p] = <<>> => store'[p] = store[p] /\ pending[p] = <<>>)
      BY Zenon, <1>4, <2>2, <2>3, <2>4
    <2>6. p \notin blind => /\ work.pc = "note" /\ pending[p] = <<>> => work.seen = store[p]
                            /\ work.pc = "add" => work.seen.content = Told(p).content /\ hc[p].hash = Told(p).content
      BY Zenon, <2>4 DEF WInv, Holding
    <2>7. p \notin blind => /\ work.pc = "note" /\ pending'[p] = <<>> => work.seen = store'[p]
                            /\ work.pc = "add" => work.seen.content = (Told(p)').content /\ hc[p].hash = (Told(p)').content
      BY Zenon, <2>5, <2>6
    <2>8. p = Head(work'.todo).obj
      BY Zenon, <1>2, <2>4
    <2> QED
      BY Zenon, <1>2, <2>7, <2>8 DEF Holding, Told
  <1>8. Copied'
    <2>1. ASSUME NEW p \in DOMAIN work.data, work.req # "none"
          PROVE  p \in ReadObjects(work.req) /\ (p \notin blind => work.data[p] = (Told(p)').content)
      <3>1. p \in ReadObjects(work.req) /\ (p \notin blind => work.data[p] = Told(p).content)
        BY Zenon, <2>1 DEF WInv, Copied
      <3>2. p \in Objects /\ work.req \in Requests
        <4>1. work.data \in Hashes /\ work.req \in Requests
          BY Zenon, <1>1, <2>1 DEF TInv, Work
        <4> QED
          BY Zenon, <2>1, <4>1 DEF Hashes
      <3> QED
        BY Zenon, <1>4, <3>1, <3>2
    <2> QED
      BY Zenon, <1>2, <1>3, <2>1 DEF Copied
  <1>9. Served'
    <2>1. ASSUME NEW r \in Requests, NEW p \in Objects \ blind, Listed(r, p), r \notin queue
          PROVE  hc[p].hash = (Told(p)').content /\ (r # work.req => Shows(r, p)')
      <3>1. hc[p].hash = Told(p).content /\ (r # work.req => Shows(r, p)) /\ p \in ReadObjects(r)
        BY Zenon, <2>1 DEF WInv, Served, Listing
      <3>2. Told(p)' = Told(p)
        BY Zenon, <1>4, <3>1
      <3>3. Shows(r, p) => Shows(r, p)'
        BY Zenon, <1>2, <3>2 DEF Shows
      <3> QED
        BY Zenon, <3>1, <3>2, <3>3
    <2> QED
      BY Zenon, <1>2, <1>3, <2>1 DEF Served, Listed
  <1> QED
    BY Zenon, <1>2, <1>5, <1>6, <1>7, <1>8, <1>9 DEF WInv

----------------------------------------------------------------------------
(* The theorems *)

\* Who is registered for an object reads it.
LEMMA RegistrationFacts ==
    ASSUME ctrl \in {"app", "env"}, setup \in Setups, NEW g \in Registrations
    PROVE  /\ g \in Registration
           /\ g.sub \in Requests => g.obj \in ReadObjects(g.sub)
  <1>1. PICK r \in Requests : g \in ReadsOf(r)
    BY Zenon DEF Registrations
  <1>2. r \in Apps \union {Env}
    BY Zenon DEF Requests
  <1>3. Reads(r) \in Seq(Mine(r))
    BY Zenon, <1>2, ReadsType
  <1>4. PICK i \in DOMAIN Reads(r) : g = Reads(r)[i]
    BY Zenon, <1>1 DEF ReadsOf
  <1>5. g \in Mine(r)
    BY <1>3, <1>4
  <1>6. g.sub \in {r, Env} /\ g \in Registration
    BY Zenon, <1>5 DEF Mine
  <1>7. g.sub \in Requests => g.sub = r
    BY Zenon, <1>6, WatchAssumption DEF Requests
  <1> QED
    BY Zenon, <1>1, <1>6, <1>7 DEF ReadObjects

LEMMA WatchInit == Init => WInv
  <1> SUFFICES ASSUME Init PROVE WInv
    BY Zenon
  <1>1. ctrl \in {"app", "env"} /\ setup \in Setups /\ queue = {} /\ own = {} /\ work = Idle /\ blind = {}
    BY Zenon DEF Init
  <1>2. pending = [o \in Objects |-> <<>>] /\ hc = SettledCache
    BY Zenon DEF Init
  <1>3. store \in [Objects -> Values]
    <2>1. (CHOOSE n \in Contents : TRUE) \in Contents
      BY Zenon, WatchAssumption
    <2> DEFINE c == CHOOSE n \in Contents : TRUE
    <2>2. store \in [Objects -> {Absent} \union {[content |-> c, anno |-> b] : b \in BOOLEAN}] /\ c \in Contents
      BY Zenon, <2>1 DEF Init
    <2> HIDE DEF c
    <2>3. {Absent} \union {[content |-> c, anno |-> b] : b \in BOOLEAN} \subseteq Values
      <3>1. \A b \in BOOLEAN : [content |-> c, anno |-> b] \in [content : Contents, anno : BOOLEAN]
        BY Zenon, <2>2
      <3> QED
        BY Zenon, <3>1 DEF Values
    <2> QED
      BY Zenon, <2>2, <2>3
  <1>4. ASSUME NEW o \in Objects
        PROVE  /\ hc[o] \in Entry
               /\ ~Known(hc, o) => hc[o].subs = {}
               /\ \A r \in Requests : r \in hc[o].subs => o \in ReadObjects(r) /\ hc[o].hash = store[o].content
    <2> DEFINE regs == {g \in Registrations : g.obj = o}
               subs == {g.sub : g \in {h \in regs : store[o].anno \/ h.always}}
               al == ~store[o].anno /\ \E g \in regs : g.always
    <2>1. hc[o] = IF ~Present(store[o]) \/ (regs = {} /\ ~(Watched(o) /\ store[o].anno))
                    THEN NoEntry ELSE [hash |-> store[o].content, subs |-> subs, always |-> al]
      BY Zenon, <1>2 DEF SettledCache
    <2>2. subs \subseteq Apps \union {Env} /\ \A r \in Requests : r \in subs => o \in ReadObjects(r)
      <3>1. ASSUME NEW x \in subs PROVE x \in Apps \union {Env} /\ (x \in Requests => o \in ReadObjects(x))
        <4>1. PICK g \in Registrations : g.obj = o /\ x = g.sub
          BY Zenon
        <4>2. g \in Registration /\ (g.sub \in Requests => g.obj \in ReadObjects(g.sub))
          BY Zenon, <1>1, RegistrationFacts
        <4> QED
          BY Zenon, <4>1, <4>2 DEF Registration
      <3> QED
        BY Zenon, <3>1
    <2>3. al \in BOOLEAN
      BY Zenon
    <2> HIDE DEF regs, subs, al
    <2>4. CASE hc[o] = NoEntry
      BY Zenon, <2>4, EntryFacts
    <2>5. CASE Present(store[o]) /\ hc[o] = [hash |-> store[o].content, subs |-> subs, always |-> al]
      <3>1. store[o].content \in Contents /\ store[o].content # 0
        <4>1. store[o] \in Values /\ store[o].content # 0
          BY Zenon, <1>3, <2>5 DEF Present
        <4> QED
          BY <4>1 DEF Values, Absent
      <3>2. hc[o] \in Entry /\ hc[o].hash = store[o].content /\ hc[o].subs = subs
        <4> DEFINE n == store[o].content
        <4>1. n \in Contents /\ hc[o] = [hash |-> n, subs |-> subs, always |-> al]
          BY Zenon, <2>5, <3>1
        <4> HIDE DEF n
        <4>2. [hash |-> n, subs |-> subs, always |-> al] \in Entry
          BY Zenon, <2>2, <2>3, <4>1 DEF Entry
        <4>3. [hash |-> n, subs |-> subs, always |-> al].hash = n /\ [hash |-> n, subs |-> subs, always |-> al].subs = subs
          BY Zenon
        <4> QED
          BY Zenon, <4>1, <4>2, <4>3 DEF n
      <3> QED
        BY Zenon, <2>2, <3>1, <3>2 DEF Known
    <2> QED
      BY Zenon, <2>1, <2>4, <2>5
  <1>5. /\ DOMAIN out = Requests
        /\ \A r \in Requests : \E e :
             out[r] = persistConfig(r, [o \in {g.obj : g \in {h \in ReadsOf(r) : h.copied}} |-> store[o].content], e)
    BY Zenon DEF Init
  <1>6. TInv
    <2>1. hc \in [Objects -> Entry]
      BY Zenon, <1>2, <1>4 DEF SettledCache
    <2>2. pending \in [Objects -> Seq(Event)]
      BY <1>2
    <2>3. work \in Work /\ work.req = "none" /\ work.pc = "get" /\ work.todo = <<>>
      BY Zenon, <1>1, IdleFacts
    <2> QED
      BY Zenon, <1>1, <1>3, <1>5, <2>1, <2>2, <2>3 DEF TInv
  <1>7. \A o \in Objects : pending[o] = <<>> /\ Told(o) = store[o]
    BY Zenon, <1>2 DEF Told
  <1>8. Linked
    BY <1>7 DEF Linked
  <1>9. Ours /\ Holding /\ Copied
    BY Zenon, <1>1, IdleFacts DEF Ours, Holding, Copied
  <1>10. Listing
    BY Zenon, <1>4 DEF Listing, Listed
  <1>11. Served
    <2>1. ASSUME NEW r \in Requests, NEW o \in Objects, Listed(r, o)
          PROVE  hc[o].hash = Told(o).content /\ Shows(r, o)
      <3>1. hc[o].hash = Told(o).content /\ Told(o) = store[o]
        BY Zenon, <1>4, <1>7, <2>1 DEF Listed
      <3> DEFINE d == [p \in {g.obj : g \in {h \in ReadsOf(r) : h.copied}} |-> store[p].content]
      <3>6. o \in DOMAIN d => d[o] = store[o].content
        BY Zenon
      <3>2. PICK e : out[r] = persistConfig(r, d, e)
        BY Zenon, <1>5
      <3> HIDE DEF d
      <3>3. persistConfig(r, d, e).data = d
        BY PersistFacts
      <3>4. r # Env => o \in DOMAIN persistConfig(r, d, e).hashed /\ persistConfig(r, d, e).hashed[o] = hc[o].hash
        <4>1. r \in hc[o].subs
          BY Zenon, <2>1 DEF Listed
        <4> QED
          BY <4>1, PersistFacts
      <3>5. r # Env => o \in DOMAIN out[r].hashed /\ out[r].hashed[o] = hc[o].hash
        BY Zenon, <3>2, <3>4
      <3> QED
        BY Zenon, <3>1, <3>2, <3>3, <3>5, <3>6 DEF Shows
    <2> QED
      BY Zenon, <2>1 DEF Served
  <1> QED
    BY Zenon, <1>6, <1>8, <1>9, <1>10, <1>11 DEF WInv

LEMMA ReadAreObjects ==
    ASSUME setup \in Setups
    PROVE  ReadByAny \subseteq Objects
  <1> SUFFICES ASSUME NEW o \in ReadByAny PROVE o \in Objects
    BY Zenon
  <1>1. PICK r \in Apps \union {Env} : o \in ReadObjects(r)
    BY Zenon DEF ReadByAny
  <1>2. Reads(r) \in Seq(Mine(r))
    BY Zenon, ReadsType
  <1>3. PICK i \in DOMAIN Reads(r) : o = Reads(r)[i].obj
    BY Zenon, <1>1 DEF ReadObjects, ReadsOf
  <1>4. Reads(r)[i] \in Registration
    BY <1>2, <1>3 DEF Mine
  <1> QED
    BY Zenon, <1>3, <1>4 DEF Registration

LEMMA WatchStep == WInv /\ [Next]_vars => WInv'
  <1> SUFFICES ASSUME WInv, [Next]_vars PROVE WInv'
    BY Zenon
  <1>1. CASE GetObject
    BY Zenon, <1>1, GetKeeps
  <1>2. CASE NoteObject
    BY Zenon, <1>2, NoteKeeps
  <1>3. CASE AddObject
    BY Zenon, <1>3, AddKeeps
  <1>4. CASE Apply
    BY Zenon, <1>4, ApplyKeeps
  <1>5. ASSUME NEW r \in Requests, StartReconcile(r) PROVE WInv'
    BY Zenon, <1>5, StartKeeps
  <1>6. ASSUME NEW o \in Objects, Handle(o) PROVE WInv'
    BY Zenon, <1>6, HandleKeeps
  <1>7. ASSUME NEW r \in Requests, HandleOwned(r) PROVE WInv'
    BY Zenon, <1>7, OwnedKeeps
  <1>8. ASSUME NEW o \in ReadByAny, Edit(o) PROVE WInv'
    <2>1. o \in Objects
      BY Zenon, ReadAreObjects DEF WInv, TInv
    <2> QED
      BY Zenon, <1>8, <2>1, EditKeeps
  <1>9. CASE Restart
    BY Zenon, <1>9, RestartKeeps
  <1>10. CASE UNCHANGED vars
    <2>1. UNCHANGED <<ctrl, setup, store, pending, hc, queue, work, out, own, blind>>
      BY Zenon, <1>10 DEF vars
    <2>2. Requests' = Requests /\ \A r : ReadObjects(r)' = ReadObjects(r)
      BY Zenon, <2>1, SameReads
    <2>3. (\A o : Told(o)' = Told(o)) /\ Linked'
      BY Zenon, <2>1, ToldSame DEF WInv
    <2>4. TInv'
      BY Zenon, <2>1, <2>2 DEF WInv, TInv
    <2>5. Listing' /\ Copied'
      BY Zenon, <2>1, ListingSame, CopiedSame DEF WInv
    <2>8. Ours'
      BY Zenon, <2>1, <2>2 DEF WInv, Ours
    <2>6. Holding'
      BY Zenon, <2>1 DEF WInv, Holding, Told
    <2>7. Served'
      BY Zenon, <2>1, ServedSame DEF WInv
    <2> QED
      BY Zenon, <2>3, <2>4, <2>5, <2>6, <2>7, <2>8 DEF WInv
  <1> QED
    BY Zenon, <1>1, <1>2, <1>3, <1>4, <1>5, <1>6, <1>7, <1>8, <1>9, <1>10 DEF Next, Worker, Handlers

LEMMA WatchInvariant == Spec => []WInv
  BY WatchInit, WatchStep, PTL DEF Spec

(* Every variable keeps its shape; in particular the worker never adds an  *)
(* object it does not hold, and the handlers enqueue only requests of      *)
(* their own controller (doUpdateToHash).                                  *)
THEOREM WatchTypeTheorem == Spec => []TypeOK
  <1>1. WInv => TypeOK
    <2> SUFFICES ASSUME TInv PROVE TypeOK
      BY Zenon DEF WInv
    <2>1. \A o \in Objects : store[o] \in Values /\ hc[o] \in Entry
      BY Zenon DEF TInv
    <2>2. work.pc \in {"get", "note", "add"}
      BY Zenon DEF TInv, Work
    <2>3. \A o \in Objects : hc[o].hash \in Contents \union {0} /\ hc[o].subs \subseteq Apps \union {Env}
      BY Zenon, <2>1 DEF Entry
    <2> QED
      BY Zenon, <2>1, <2>2, <2>3 DEF TInv, TypeOK, Values
  <1> QED
    BY <1>1, WatchInvariant, PTL

(* docs/providers/confighash.md: updates of a Secret trigger a reconcile   *)
(* of each ClowdApp listed.  At rest whoever is listed under an object     *)
(* has written its present content, unless a change of the object met a    *)
(* reconcile that reads it: for any number of apps, objects and setups,    *)
(* and any order of handlers, reconciles, edits, deletes and restarts.     *)
THEOREM ListedTheorem == Spec => []ListedAreCurrent
  <1>1. WInv => ListedAreCurrent
    <2> SUFFICES ASSUME WInv, AtRest, NEW r \in Requests, NEW o \in Objects \ blind, Listed(r, o)
                 PROVE  Current(r, o)
      BY Zenon DEF ListedAreCurrent
    <2>1. r # work.req /\ r \notin queue /\ pending[o] = <<>>
      BY Zenon, RequestFacts DEF WInv, AtRest
    <2>2. Shows(r, o)
      BY Zenon, <2>1 DEF WInv, Served
    <2> QED
      BY Zenon, <2>1, <2>2 DEF Shows, Told, Current
  <1> QED
    BY <1>1, WatchInvariant, PTL

=============================================================================
