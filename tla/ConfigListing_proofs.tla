----------------------- MODULE ConfigListing_proofs -----------------------
(* An annotated Secret or ConfigMap lists every app whose pods name it once *)
(* the operator is at rest, for any number of apps, objects, contents,      *)
(* edits and restarts.                                                      *)
EXTENDS ConfigWatch_proofs

\* The objects the pods of a name, but for its own Secret.
PodObjects(a) == {o \in {setup.refs[a][i] : i \in DOMAIN setup.refs[a]} : Name(o) # a}

\* The running reconcile is one of a, and is still to register o.
ToRead(a, o) ==
    work.req = a /\ \E i \in 1..Len(work.todo) : /\ work.todo[i].obj = o /\ work.todo[i].sub = a
                                                 /\ ~work.todo[i].skip

\* The handlers are still to hear that o lost its annotation, or is gone.
Losing(o) == \E i \in 1..Len(pending[o]) : ~pending[o][i].new.anno

\* An object the handlers know to be gone has no entry: its return is news.
Forgotten == \A o \in Objects \ unheard : Watched(o) /\ ~Present(Told(o)) => ~Known(hc, o)

\* If the worker holds a state of the object without the annotation the
\* handlers know of, it runs again or they will hear of it.
InHand ==
    work.pc # "get" =>
      LET o == Head(work.todo).obj
      IN  /\ work.req \in Requests \ {Env} /\ o \in PodObjects(work.req) \ unheard
          /\ Told(o).anno /\ ~work.seen.anno
          => work.req \in queue \/ Losing(o)

\* An app that should be listed is, or will be by a reconcile that is queued or
\* running; or the object was read without the annotation, and the handlers
\* will hear of it.
Enlisted ==
    \A a \in Requests \ {Env} : \A o \in PodObjects(a) \ unheard :
      Told(o).anno => Listed(a, o) \/ a \in queue \/ ToRead(a, o) \/ Losing(o)

LInv == WInv /\ Forgotten /\ InHand /\ Enlisted

\* What Enlisted promises of a and o.
Due(a, o) == Listed(a, o) \/ a \in queue \/ ToRead(a, o) \/ Losing(o)

LEMMA PodFacts ==
    ASSUME TInv, NEW a \in Requests \ {Env}, NEW o \in PodObjects(a)
    PROVE  /\ a \in Apps /\ a # "none" /\ o \in Objects /\ Watched(o) /\ AppNamespace[a] = Namespace(o)
           /\ \E i \in 1..Len(Reads(a)) : /\ Reads(a)[i].obj = o /\ Reads(a)[i].sub = a
                                          /\ ~Reads(a)[i].skip
  <1>1. ctrl = "app" /\ a \in Apps /\ a # "none" /\ a # Env /\ setup \in Setups
    BY Zenon, WatchAssumption DEF TInv, Requests
  <1>2. PICK j \in DOMAIN setup.refs[a] : o = setup.refs[a][j] /\ Name(o) # a
    BY Zenon DEF PodObjects
  <1>3. setup.refs[a] \in Seq(Objects)
    BY Zenon, <1>1, SetupFacts
  <1>4. o \in Objects /\ j \in 1..Len(setup.refs[a])
    BY <1>2, <1>3
  <1>5. AppNamespace[a] = Namespace(o)
    BY Zenon, <1>1, <1>2, WatchAssumption
  <1>6. /\ DOMAIN updateHashCache(a) = DOMAIN setup.refs[a] /\ updateHashCache(a)[j].obj = o
        /\ updateHashCache(a)[j].sub = a /\ ~updateHashCache(a)[j].skip
    BY Zenon, <1>2 DEF updateHashCache
  <1> DEFINE x == setCloudwatchSecret(a) \o FeatureFlagsProvide(a) \o MinioProvide(a)
                    \o KafkaProvide(a) \o CopyPullSecrets(a, AppNamespace[a])
             y == updateHashCache(a)
  <1>7. Reads(a) = x \o y
    BY Zenon, <1>1 DEF Reads
  <1>8. x \in Seq(Mine(a)) /\ y \in Seq(Mine(a))
    BY Zenon, <1>1, ProvidedType, RefsType
  <1>9. j \in 1..Len(y)
    BY <1>2, <1>6, <1>8
  <1> HIDE DEF x, y
  <1>10. Len(x) + j \in 1..Len(Reads(a)) /\ Reads(a)[Len(x) + j] = y[j]
    BY <1>7, <1>8, <1>9
  <1>11. Watched(o)
    BY Zenon, <1>1 DEF Watched
  <1> QED
    BY Zenon, <1>1, <1>4, <1>5, <1>6, <1>10, <1>11 DEF y

\* A state of an object that is annotated is one of a present object.
LEMMA AnnotatedIsPresent ==
    ASSUME NEW v \in Values
    PROVE  (~Present(v) => ~v.anno) /\ (Present(v) => v.content # 0)
  BY SMTT(30), WatchAssumption DEF Values, Present, Absent

\* What a step must do to keep Enlisted.
LEMMA EnlistedStep ==
    ASSUME Enlisted, UNCHANGED <<ctrl, setup>>,
           \A a \in Requests \ {Env} : \A o \in PodObjects(a) :
             o \notin unheard' /\ (Told(o)').anno =>
               Due(a, o)' \/ (o \notin unheard /\ Told(o).anno /\ (Due(a, o) => Due(a, o)'))
    PROVE  Enlisted'
  <1>1. Requests' = Requests
    BY Zenon, SameReads
  <1>2. \A a : PodObjects(a)' = PodObjects(a)
    BY Zenon DEF PodObjects
  <1>3. ASSUME NEW a \in Requests \ {Env}, NEW o \in PodObjects(a), o \notin unheard', (Told(o)').anno
        PROVE  Due(a, o)'
    <2>1. Told(o).anno /\ o \notin unheard => Due(a, o)
      BY Zenon, <1>3 DEF Enlisted, Due
    <2> QED
      BY Zenon, <1>3, <2>1
  <1> QED
    BY Zenon, <1>1, <1>2, <1>3 DEF Enlisted, Due

\* The same for a step that neither stores nor delivers anything.
LEMMA EnlistedQuiet ==
    ASSUME Enlisted, UNCHANGED <<ctrl, setup, store, pending>>, unheard \subseteq unheard',
           \A a \in Requests \ {Env} : \A o \in PodObjects(a) :
             o \notin unheard' /\ Told(o).anno /\ (Listed(a, o) \/ a \in queue \/ ToRead(a, o)) => Due(a, o)'
    PROVE  Enlisted'
  <1>1. \A o : Told(o)' = Told(o) /\ Losing(o)' = Losing(o)
    BY Zenon, ToldSame DEF Losing
  <1>2. ASSUME NEW a \in Requests \ {Env}, NEW o \in PodObjects(a), o \notin unheard', (Told(o)').anno
        PROVE  o \notin unheard /\ Told(o).anno /\ (Due(a, o) => Due(a, o)')
    BY Zenon, <1>1, <1>2 DEF Due
  <1> QED
    BY Zenon, <1>2, EnlistedStep

\* Forgotten is about what the handlers know and the hashes.
LEMMA ForgottenQuiet ==
    ASSUME Forgotten, UNCHANGED <<ctrl, setup, store, pending>>, unheard \subseteq unheard',
           \A o \in Objects : hc'[o].hash = hc[o].hash
    PROVE  Forgotten'
  <1>1. \A o : Told(o)' = Told(o) /\ Watched(o)' = Watched(o)
    BY Zenon, ToldSame, SameReads
  <1>2. \A o \in Objects : Known(hc', o) = Known(hc, o)
    BY Zenon DEF Known
  <1> QED
    BY Zenon, <1>1, <1>2 DEF Forgotten

\* InHand for a step that leaves the worker's hands and the events alone.
LEMMA InHandQuiet ==
    ASSUME InHand, UNCHANGED <<ctrl, setup, store, pending>>, unheard \subseteq unheard', queue \subseteq queue',
           work.pc # "get", work'.req = work.req, work'.todo = work.todo, work'.seen = work.seen
    PROVE  InHand'
  <1>1. Requests' = Requests /\ (\A o : Told(o)' = Told(o) /\ Losing(o)' = Losing(o))
    BY Zenon, SameReads, ToldSame DEF Losing
  <1>2. \A a : PodObjects(a)' = PodObjects(a)
    BY Zenon DEF PodObjects
  <1> QED
    BY Zenon, <1>1, <1>2 DEF InHand

----------------------------------------------------------------------------
(* The worker's steps keep the apps enlisted *)

LEMMA StartEnlists ==
    ASSUME LInv, NEW r \in Requests, StartReconcile(r)
    PROVE  Forgotten' /\ InHand' /\ Enlisted'
  <1>1. TInv
    BY Zenon DEF LInv, WInv
  <1>6. UNCHANGED unheard
    BY Zenon DEF StartReconcile
  <1>2. /\ queue' = queue \ {r} /\ work.req = "none" /\ UNCHANGED <<ctrl, setup, store, pending, unheard>>
        /\ work'.req = r /\ work'.todo = Reads(r) /\ work'.pc = "get"
        /\ \A p \in Objects : hc'[p].hash = hc[p].hash /\ hc'[p].subs = hc[p].subs \ {r}
    BY Zenon, <1>1, <1>6, StartEffect
  <1>3. Forgotten' /\ InHand'
    BY Zenon, <1>2, ForgottenQuiet DEF LInv, InHand
  <1>4. ASSUME NEW a \in Requests \ {Env}, NEW o \in PodObjects(a), Listed(a, o) \/ a \in queue \/ ToRead(a, o)
        PROVE  Due(a, o)'
    <2>1. a # "none" /\ o \in Objects
      BY Zenon, <1>1, PodFacts
    <2>2. CASE a = r
      <3>1. \E i \in 1..Len(Reads(a)) : Reads(a)[i].obj = o /\ Reads(a)[i].sub = a /\ ~Reads(a)[i].skip
        BY SMTT(30), <1>1, PodFacts
      <3> QED
        BY Zenon, <1>2, <2>2, <3>1 DEF Due, ToRead
    <2>3. CASE a # r
      BY Zenon, <1>2, <1>4, <2>1, <2>3 DEF Due, Listed, ToRead
    <2> QED
      BY Zenon, <2>2, <2>3
  <1>5. Enlisted'
    BY Zenon, <1>2, <1>4, EnlistedQuiet DEF LInv
  <1> QED
    BY Zenon, <1>3, <1>5

\* A reconcile that fails is queued again.
LEMMA FailEnlists ==
    ASSUME LInv, Fail, UNCHANGED <<ctrl, setup, store, pending, hc, unheard>>
    PROVE  Forgotten' /\ InHand' /\ Enlisted'
  <1>1. work'.pc = "get" /\ queue' = queue \union {work.req}
    BY Zenon, IdleFacts DEF Fail
  <1>2. Forgotten' /\ InHand'
    BY Zenon, <1>1, ForgottenQuiet DEF LInv, InHand
  <1>3. ASSUME NEW a \in Requests \ {Env}, NEW o \in PodObjects(a), Listed(a, o) \/ a \in queue \/ ToRead(a, o)
        PROVE  Due(a, o)'
    BY Zenon, <1>1, <1>3 DEF Due, Listed, ToRead
  <1>4. Enlisted'
    BY Zenon, <1>3, EnlistedQuiet DEF LInv
  <1> QED
    BY Zenon, <1>2, <1>4

\* The worker is done with the head of its list.
LEMMA TailToRead ==
    ASSUME TInv, work.todo # <<>>, work'.req = work.req, work'.todo = Tail(work.todo), NEW a, NEW o, ToRead(a, o)
    PROVE  \/ ToRead(a, o)'
           \/ Head(work.todo).obj = o /\ Head(work.todo).sub = a /\ ~Head(work.todo).skip /\ work.req = a
  <1>1. work.todo \in Seq(Registration)
    BY Zenon DEF TInv, Work
  <1>2. PICK i \in 1..Len(work.todo) : work.todo[i].obj = o /\ work.todo[i].sub = a /\ ~work.todo[i].skip
    BY Zenon DEF ToRead
  <1>3. CASE i = 1
    BY <1>1, <1>2, <1>3 DEF ToRead
  <1>4. CASE i # 1
    <2>1. i - 1 \in 1..Len(Tail(work.todo)) /\ Tail(work.todo)[i - 1] = work.todo[i]
      BY <1>1, <1>4
    <2> QED
      BY Zenon, <1>2, <2>1 DEF ToRead
  <1> QED
    BY Zenon, <1>3, <1>4

\* The handlers know of an annotation that is no longer stored: they will hear of it.
LEMMA LostIsComing ==
    ASSUME TInv, Linked, NEW o \in Objects, Told(o).anno, ~store[o].anno
    PROVE  Losing(o)
  <1>1. pending[o] # <<>> /\ pending[o] \in Seq(Event)
    BY Zenon DEF Told, TInv
  <1>2. Len(pending[o]) \in 1..Len(pending[o])
    BY <1>1
  <1>3. pending[o][Len(pending[o])].new = store[o]
    BY Zenon, <1>1 DEF Linked
  <1> QED
    BY Zenon, <1>2, <1>3 DEF Losing

LEMMA GetEnlists ==
    ASSUME LInv, GetObject
    PROVE  Forgotten' /\ InHand' /\ Enlisted'
  <1> DEFINE g == Head(work.todo)
  <1>1. TInv /\ Linked
    BY Zenon DEF LInv, WInv
  <1>2. work.todo # <<>> /\ UNCHANGED <<ctrl, setup, store, pending, hc, unheard>>
    BY Zenon DEF GetObject
  <1>3. CASE Fail
    BY Zenon, <1>2, <1>3, FailEnlists
  <1>5. Requests' = Requests /\ (\A o : Told(o)' = Told(o) /\ Losing(o)' = Losing(o)) /\ (\A a : PodObjects(a)' = PodObjects(a))
    BY Zenon, <1>2, SameReads, ToldSame DEF Losing, PodObjects
  <1>4. CASE /\ work'.req = work.req /\ UNCHANGED queue
             /\ \/ work'.pc = "note" /\ work'.todo = work.todo /\ work'.seen = store[g.obj]
                \/ work'.pc = "get" /\ work'.todo = Tail(work.todo) /\ (g.skip \/ ~Present(store[g.obj]))
    <2>1. Forgotten'
      BY Zenon, <1>2, <1>4, ForgottenQuiet DEF LInv
    <2>4. InHand'
      <3> SUFFICES ASSUME work'.pc # "get", work.req \in Requests \ {Env}, g.obj \in PodObjects(work.req),
                          Told(g.obj).anno, ~work'.seen.anno
                   PROVE  Losing(g.obj)
        BY Zenon, <1>2, <1>4, <1>5 DEF InHand
      <3>1. g.obj \in Objects
        BY Zenon, <1>1, PodFacts
      <3>2. ~store[g.obj].anno
        BY Zenon, <1>4
      <3> QED
        BY Zenon, <1>1, <3>1, <3>2, LostIsComing
    <2>2. ASSUME NEW a \in Requests \ {Env}, NEW o \in PodObjects(a), Told(o).anno,
                 Listed(a, o) \/ a \in queue \/ ToRead(a, o)
          PROVE  Due(a, o)'
      <3>1. CASE Listed(a, o) \/ a \in queue
        BY Zenon, <1>2, <1>4, <3>1 DEF Due, Listed
      <3>2. CASE ToRead(a, o) /\ ~ToRead(a, o)'
        <4>1. work'.todo # work.todo
          BY Zenon, <1>4, <3>2 DEF ToRead
        <4>2. g.obj = o /\ ~g.skip
          BY Zenon, <1>1, <1>2, <1>4, <3>2, <4>1, TailToRead
        <4>3. ~Present(store[o]) /\ o \in Objects
          BY Zenon, <1>1, <1>4, <4>1, <4>2, PodFacts
        <4>4. store[o] \in Values
          BY Zenon, <1>1, <4>3 DEF TInv
        <4>5. ~store[o].anno
          BY Zenon, <4>3, <4>4, AnnotatedIsPresent
        <4>6. Losing(o)
          BY Zenon, <1>1, <2>2, <4>3, <4>5, LostIsComing
        <4> QED
          BY Zenon, <1>5, <4>6 DEF Due
      <3> QED
        BY Zenon, <2>2, <3>1, <3>2 DEF Due
    <2>3. Enlisted'
      BY Zenon, <1>2, <2>2, EnlistedQuiet DEF LInv
    <2> QED
      BY Zenon, <2>1, <2>3, <2>4
  <1>6. \/ Fail
        \/ /\ work'.req = work.req /\ UNCHANGED queue
           /\ \/ work'.pc = "note" /\ work'.todo = work.todo /\ work'.seen = store[g.obj]
              \/ work'.pc = "get" /\ work'.todo = Tail(work.todo) /\ (g.skip \/ ~Present(store[g.obj]))
    BY Zenon, <1>1, GetEffect
  <1> QED
    BY Zenon, <1>3, <1>4, <1>6

LEMMA NoteEnlists ==
    ASSUME LInv, NoteObject
    PROVE  Forgotten' /\ InHand' /\ Enlisted'
  <1> DEFINE o == Head(work.todo).obj
  <1>1. TInv /\ Listing /\ work.pc = "note" /\ UNCHANGED <<ctrl, setup, store, pending, queue>>
    BY Zenon DEF LInv, WInv, NoteObject
  <1>2. unheard' = IF Present(Told(o)) THEN unheard ELSE unheard \union {o}
    BY Zenon DEF NoteObject
  <1>3. /\ o \in Objects
        /\ hc'[o].subs = IF Known(hc, o) THEN hc[o].subs ELSE {}
        /\ \A q \in Objects \ {o} : hc'[q] = hc[q]
        /\ work'.req = work.req /\ work'.todo = work.todo /\ work'.seen = work.seen
    BY Zenon, <1>1, NoteEffect
  <1>4. o \notin unheard' => Present(Told(o))
    BY Zenon, <1>2
  <1>5. \A p : Told(p)' = Told(p) /\ Watched(p)' = Watched(p)
    BY Zenon, <1>1, ToldSame, SameReads
  <1> HIDE DEF o
  <1>6. InHand'
    BY Zenon, <1>1, <1>2, <1>3, InHandQuiet DEF LInv
  <1>7. Forgotten'
    <2>1. ASSUME NEW p \in Objects, p \notin unheard', Watched(p), ~Present(Told(p)) PROVE ~Known(hc', p)
      <3>1. p # o /\ p \notin unheard
        BY Zenon, <1>2, <1>4, <2>1
      <3>2. hc'[p] = hc[p] /\ ~Known(hc, p)
        BY Zenon, <1>3, <2>1, <3>1 DEF LInv, Forgotten
      <3> QED
        BY Zenon, <3>2 DEF Known
    <2> QED
      BY Zenon, <1>5, <2>1 DEF Forgotten
  <1>8. ASSUME NEW a \in Requests \ {Env}, NEW p \in PodObjects(a), Listed(a, p) \/ a \in queue \/ ToRead(a, p)
        PROVE  Due(a, p)'
    <2>1. p \in Objects
      BY Zenon, <1>1, PodFacts
    <2>2. hc'[p].subs = hc[p].subs
      BY Zenon, <1>1, <1>3, <2>1 DEF Listing
    <2> QED
      BY Zenon, <1>1, <1>3, <1>8, <2>2 DEF Due, Listed, ToRead
  <1>9. Enlisted'
    BY Zenon, <1>1, <1>2, <1>8, EnlistedQuiet DEF LInv
  <1> QED
    BY Zenon, <1>6, <1>7, <1>9

\* An annotated object gets its subscriber.
LEMMA AddEnlists ==
    ASSUME LInv, AddObject
    PROVE  Forgotten' /\ InHand' /\ Enlisted'
  <1> DEFINE g == Head(work.todo)
  <1>1. TInv
    BY Zenon DEF LInv, WInv
  <1>5. UNCHANGED unheard
    BY Zenon DEF AddObject
  <1>2. work.todo # <<>> /\ work.pc = "add" /\ UNCHANGED <<ctrl, setup, store, pending, unheard>>
    BY Zenon, <1>1, <1>5, AddEffect
  <1>3. CASE Fail /\ UNCHANGED hc
    BY Zenon, <1>2, <1>3, FailEnlists
  <1>4. CASE /\ hc' = AddClowdObjectToObject(hc, g.obj, g.sub, work.seen.anno)
             /\ work'.pc = "get" /\ work'.todo = Tail(work.todo) /\ work'.req = work.req /\ UNCHANGED queue
    <2>1. g \in Registration
      BY Zenon, <1>1, <1>2, Busy
    <2>2. PICK h, k, o, r, b : h = hc /\ k = hc' /\ o = g.obj /\ r = g.sub /\ b = work.seen.anno
      BY Zenon
    <2>3. h \in [Objects -> Entry] /\ o \in Objects /\ r \in Apps \union {Env} /\ b \in BOOLEAN
      BY Zenon, <1>1, <2>1, <2>2, SeenType DEF TInv, Registration
    <2>4. k = AddClowdObjectToObject(h, o, r, b)
      BY Zenon, <1>4, <2>2
    <2>5. /\ \A p \in Objects : k[p].hash = h[p].hash
          /\ k[o].subs \in {h[o].subs, h[o].subs \union {r}} /\ (b => r \in k[o].subs)
          /\ \A p \in Objects \ {o} : k[p] = h[p]
      BY ONLY SMTT(30), <2>3, <2>4, AddCache
    <2>6. \A p \in Objects : h[p].subs \subseteq k[p].subs
      BY Zenon, <2>5
    <2>7. Forgotten' /\ InHand'
      BY Zenon, <1>2, <1>4, <2>2, <2>5, ForgottenQuiet DEF LInv, InHand
    <2>8. ASSUME NEW a \in Requests \ {Env}, NEW p \in PodObjects(a), p \notin unheard, Told(p).anno,
                 Listed(a, p) \/ a \in queue \/ ToRead(a, p)
          PROVE  Due(a, p)'
      <3>1. p \in Objects
        BY Zenon, <1>1, PodFacts
      <3>2. CASE Listed(a, p) \/ a \in queue
        BY Zenon, <1>4, <2>2, <2>6, <3>1, <3>2 DEF Due, Listed
      <3>3. CASE ToRead(a, p) /\ ~ToRead(a, p)'
        <4>1. o = p /\ r = a
          BY Zenon, <1>1, <1>2, <1>4, <2>2, <3>3, TailToRead
        <4>2. CASE b
          BY Zenon, <2>2, <2>5, <4>1, <4>2 DEF Due, Listed
        <4>3. CASE ~b
          <5>1. work.req = a
            BY Zenon, <3>3 DEF ToRead
          <5>2. a \in queue \/ Losing(p)
            BY Zenon, <1>2, <2>2, <2>8, <4>1, <4>3, <5>1 DEF LInv, InHand
          <5> QED
            BY Zenon, <1>2, <1>4, <5>2 DEF Due, Losing
        <4> QED
          BY Zenon, <4>2, <4>3
      <3> QED
        BY Zenon, <2>8, <3>2, <3>3 DEF Due
    <2>9. Enlisted'
      BY Zenon, <1>2, <2>8, EnlistedQuiet DEF LInv
    <2> QED
      BY Zenon, <2>7, <2>9
  <1> QED
    BY Zenon, <1>1, <1>3, <1>4, AddEffect

LEMMA ApplyEnlists ==
    ASSUME LInv, Apply
    PROVE  Forgotten' /\ InHand' /\ Enlisted'
  <1>1. work.todo = <<>> /\ UNCHANGED <<ctrl, setup, store, pending, hc, unheard>>
    BY Zenon DEF Apply
  <1>2. CASE Fail
    BY Zenon, <1>1, <1>2, FailEnlists
  <1>3. CASE work' = Idle /\ UNCHANGED queue
    <2>1. Forgotten' /\ InHand'
      BY Zenon, <1>1, <1>3, IdleFacts, ForgottenQuiet DEF LInv, InHand
    <2>2. ASSUME NEW a \in Requests \ {Env}, NEW o \in PodObjects(a), Listed(a, o) \/ a \in queue \/ ToRead(a, o)
          PROVE  Due(a, o)'
      BY <1>1, <1>3, <2>2 DEF Due, Listed, ToRead
    <2>3. Enlisted'
      BY Zenon, <1>1, <2>2, EnlistedQuiet DEF LInv
    <2> QED
      BY Zenon, <2>1, <2>3
  <1> QED
    BY Zenon, <1>2, <1>3 DEF Apply

----------------------------------------------------------------------------
(* Handlers, users and failures keep the apps enlisted *)

LEMMA OwnedEnlists ==
    ASSUME LInv, NEW r \in Requests, HandleOwned(r)
    PROVE  Forgotten' /\ InHand' /\ Enlisted'
  <1>1. queue' = queue \union {r} /\ UNCHANGED <<ctrl, setup, store, pending, hc, work, unheard>>
    BY Zenon DEF HandleOwned
  <1>2. Forgotten'
    BY Zenon, <1>1, ForgottenQuiet DEF LInv
  <1>3. InHand'
    BY Zenon, <1>1, InHandQuiet DEF LInv, InHand
  <1>4. ASSUME NEW a \in Requests \ {Env}, NEW o \in PodObjects(a), Listed(a, o) \/ a \in queue \/ ToRead(a, o)
        PROVE  Due(a, o)'
    BY Zenon, <1>1, <1>4 DEF Due, Listed, ToRead
  <1>5. Enlisted'
    BY Zenon, <1>1, <1>4, EnlistedQuiet DEF LInv
  <1> QED
    BY Zenon, <1>2, <1>3, <1>5

\* Whom the handlers wake, and what they forget.
LEMMA HandleWakes ==
    ASSUME TInv, NEW o \in Objects, Handle(o)
    PROVE  LET e == Head(pending[o])
           IN  /\ ~Present(e.new) => ~Known(hc', o)
               /\ Present(e.new) /\ e.new.anno =>
                    /\ Known(hc, o) => hc'[o].subs = hc[o].subs
                    /\ ~e.old.anno /\ (~Present(e.old) => ~Known(hc, o)) =>
                         reconcileAllAppsUsingObject(o) \subseteq queue'
  <1> DEFINE e == Head(pending[o])
             x == e.new
             upd == updateHashCacheForConfigMapAndSecret(o, x)
             all == reconcileAllAppsUsingObject(o)
  <1>1. \/ ~Present(e.old) /\ Present(x) /\ HandlerCreate(o, x)
        \/ Present(e.old) /\ Present(x) /\ HandlerUpdate(o, e.old, x)
        \/ ~Present(x) /\ HandlerDelete(o)
    BY Zenon DEF Handle
  <1>2. hc \in [Objects -> Entry]
    BY Zenon DEF TInv
  <1>3. ASSUME ~Present(x) PROVE ~Known(hc', o)
    <2>1. hc' = Delete(hc, o)
      BY Zenon, <1>1, <1>3 DEF HandlerDelete
    <2>2. hc'[o] = NoEntry
      BY Zenon, <1>2, <2>1, DeleteCache
    <2> QED
      BY Zenon, <2>2, EntryFacts DEF Known
  <1>4. ASSUME Present(x), x.anno
        PROVE  /\ Known(hc, o) => hc'[o].subs = hc[o].subs
               /\ ~e.old.anno /\ (~Present(e.old) => ~Known(hc, o)) => all \subseteq queue'
    <2>1. /\ upd.cache = CreateOrUpdateObject(hc, o, x.content, FALSE)
          /\ upd.changed = HashChanged(hc, o, x.content)
      BY Zenon, <1>4 DEF updateHashCacheForConfigMapAndSecret
    <2>2. hc' = upd.cache
      BY Zenon, <1>1, <1>4 DEF HandlerCreate, HandlerUpdate
    <2>3. ASSUME Known(hc, o) PROVE hc'[o].subs = hc[o].subs
      <3>1. hc' = [hc EXCEPT ![o].hash = x.content]
        BY Zenon, <2>1, <2>2, <2>3 DEF CreateOrUpdateObject
      <3>2. hc[o] \in Entry
        BY Zenon, <1>2
      <3> QED
        BY Zenon, <1>2, <3>1, <3>2 DEF Entry
    <2>4. ASSUME ~e.old.anno, ~Present(e.old) => ~Known(hc, o) PROVE all \subseteq queue'
      <3>1. CASE Present(e.old) /\ HandlerUpdate(o, e.old, x)
        <4>1. queue' = queue \union (IF upd.changed THEN doUpdateToHash(hc', o) ELSE {})
                             \union (IF ~e.old.anno THEN all ELSE {})
          BY Zenon, <1>4, <3>1 DEF HandlerUpdate
        <4> HIDE DEF all, upd
        <4> QED
          BY Zenon, <2>4, <4>1
      <3>2. CASE ~Present(e.old) /\ HandlerCreate(o, x)
        <4>1. upd.changed
          BY Zenon, <2>1, <2>4, <3>2 DEF HashChanged
        <4>2. queue' = IF upd.changed THEN queue \union doUpdateToHash(hc', o) \union all ELSE queue
          BY Zenon, <3>2 DEF HandlerCreate
        <4> HIDE DEF all, upd
        <4> QED
          BY Zenon, <4>1, <4>2
      <3> QED
        BY Zenon, <1>1, <1>4, <3>1, <3>2
    <2> QED
      BY Zenon, <2>3, <2>4
  <1> QED
    BY Zenon, <1>3, <1>4

(* A handler that hears of an annotation wakes the apps of the namespace,  *)
(* one that hears of an annotated object's creation does so because the    *)
(* object was forgotten.                                                   *)
LEMMA HandleEnlists ==
    ASSUME LInv, NEW o \in Objects, Handle(o)
    PROVE  Forgotten' /\ InHand' /\ Enlisted'
  <1> DEFINE e == Head(pending[o])
             all == reconcileAllAppsUsingObject(o)
  <1>1. WInv /\ TInv
    BY Zenon DEF LInv, WInv
  <1>2. /\ pending[o] # <<>> /\ e \in Event /\ pending' = [pending EXCEPT ![o] = Tail(pending[o])]
        /\ UNCHANGED <<ctrl, setup, store, work>>
        /\ queue \subseteq queue' /\ \A p \in Objects \ {o} : hc'[p] = hc[p]
    BY Zenon, <1>1, HandleEffect
  <1>14. unheard' = IF Present(e.new) THEN unheard ELSE unheard \ {o}
    BY Zenon DEF Handle
  <1>3. /\ ~Present(e.new) => ~Known(hc', o)
        /\ Present(e.new) /\ e.new.anno =>
             /\ Known(hc, o) => hc'[o].subs = hc[o].subs
             /\ ~e.old.anno /\ (~Present(e.old) => ~Known(hc, o)) => all \subseteq queue'
    BY Zenon, <1>1, HandleWakes
  <1>4. Told(o)' = e.new /\ Told(o) = e.old /\ \A p \in Objects \ {o} : Told(p)' = Told(p)
    BY Zenon, <1>1, <1>2, PopTold DEF Told
  <1>5. e.new \in Values /\ e.old \in Values
    BY Zenon, <1>2 DEF Event
  <1>6. ASSUME NEW a \in Requests \ {Env}, NEW p \in PodObjects(a), p = o PROVE a \in all /\ Watched(o)
    BY Zenon, <1>1, <1>6, PodFacts DEF reconcileAllAppsUsingObject
  <1>7. \A p : Watched(p)' = Watched(p)
    BY Zenon, <1>2, SameReads
  <1>8. \A i \in 2..Len(pending[o]) : i - 1 \in 1..Len(pending'[o]) /\ pending'[o][i - 1] = pending[o][i]
    <2>1. PICK s \in Seq(Event) : s = pending[o] /\ s # <<>> /\ pending'[o] = Tail(s)
      BY Zenon, <1>1, <1>2 DEF TInv
    <2>2. ASSUME NEW i \in 2..Len(s) PROVE i - 1 \in 1..Len(Tail(s)) /\ Tail(s)[i - 1] = s[i]
      BY SMTT(30), <2>1
    <2> QED
      BY Zenon, <2>1, <2>2
  <1>9. e = pending[o][1] /\ \A p \in Objects \ {o} : pending'[p] = pending[p]
    <2>1. pending[o] \in Seq(Event) /\ pending \in [Objects -> Seq(Event)]
      BY Zenon, <1>1 DEF TInv
    <2>2. \A s \in Seq(Event) : s # <<>> => Head(s) = s[1]
      OBVIOUS
    <2>3. \A p \in Objects \ {o} : pending'[p] = pending[p]
      BY Zenon, <1>2, <2>1
    <2> QED
      BY Zenon, <1>2, <2>1, <2>2, <2>3
  <1> HIDE DEF e, all
  <1>10. Forgotten'
    <2>1. ASSUME NEW p \in Objects, p \notin unheard', Watched(p), ~Present(Told(p)') PROVE ~Known(hc', p)
      <3>1. CASE p = o
        BY Zenon, <1>3, <1>4, <2>1, <3>1
      <3>2. CASE p # o
        <4>1. p \notin unheard /\ Told(p)' = Told(p) /\ hc'[p] = hc[p]
          BY Zenon, <1>2, <1>4, <1>14, <2>1, <3>2
        <4>2. ~Known(hc, p)
          BY Zenon, <2>1, <4>1 DEF LInv, Forgotten
        <4> QED
          BY Zenon, <4>1, <4>2 DEF Known
      <3> QED
        BY Zenon, <3>1, <3>2
    <2> QED
      BY Zenon, <1>7, <2>1 DEF Forgotten
  <1>12. ASSUME NEW a \in Requests \ {Env}, NEW p \in PodObjects(a), p \notin unheard', (Told(p)').anno
         PROVE  \/ a \in queue'
                \/ /\ p \notin unheard /\ Told(p).anno /\ (Losing(p) => Losing(p)')
                   /\ Listed(a, p) => Listed(a, p)'
    <2>1. p \in Objects
      BY Zenon, <1>1, PodFacts
    <2>2. CASE p # o
      <3>1. Told(p)' = Told(p) /\ hc'[p] = hc[p] /\ pending'[p] = pending[p] /\ p \notin unheard
        BY Zenon, <1>2, <1>4, <1>9, <1>12, <1>14, <2>1, <2>2
      <3> QED
        BY Zenon, <1>12, <3>1 DEF Listed, Losing
    <2>3. CASE p = o
      <3>1. e.new.anno /\ Present(e.new) /\ Watched(o) /\ a \in all
        BY Zenon, <1>4, <1>5, <1>6, <1>12, <2>3, AnnotatedIsPresent
      <3>4. o \notin unheard
        BY Zenon, <1>12, <1>14, <2>3, <3>1
      <3>2. CASE ~e.old.anno
        <4>1. ~Present(e.old) => ~Known(hc, o)
          BY Zenon, <1>4, <3>1, <3>4 DEF LInv, Forgotten
        <4> QED
          BY Zenon, <1>3, <3>1, <3>2, <4>1
      <3>3. CASE e.old.anno
        <4>1. Listed(a, o) => Listed(a, o)'
          <5>1. Listed(a, o) => Known(hc, o)
            BY Zenon, <1>1 DEF WInv, Listing, Listed
          <5> QED
            BY Zenon, <1>3, <3>1, <5>1 DEF Listed
        <4>3. ASSUME Losing(o) PROVE Losing(o)'
          <5>1. PICK i \in 1..Len(pending[o]) : ~pending[o][i].new.anno
            BY Zenon, <4>3 DEF Losing
          <5>2. i # 1
            BY Zenon, <1>9, <3>1, <5>1
          <5>3. pending[o] \in Seq(Event)
            BY Zenon, <1>1 DEF TInv
          <5>4. i \in 2..Len(pending[o])
            BY <5>2, <5>3
          <5> QED
            BY Zenon, <1>8, <5>1, <5>4 DEF Losing
        <4> QED
          BY Zenon, <1>4, <2>3, <3>3, <3>4, <4>1, <4>3
      <3> QED
        BY Zenon, <3>2, <3>3
    <2> QED
      BY Zenon, <2>2, <2>3
  <1>13. Enlisted'
    <2>1. ASSUME NEW a \in Requests \ {Env}, NEW p \in PodObjects(a), p \notin unheard', (Told(p)').anno
          PROVE  Due(a, p)' \/ (p \notin unheard /\ Told(p).anno /\ (Due(a, p) => Due(a, p)'))
      <3>1. ToRead(a, p) => ToRead(a, p)'
        BY Zenon, <1>2 DEF ToRead
      <3> QED
        BY Zenon, <1>2, <1>12, <2>1, <3>1 DEF Due
    <2> QED
      BY Zenon, <1>2, <2>1, EnlistedStep DEF LInv
  <1>11. InHand'
    <2>1. PICK a, q : a = work.req /\ q = Head(work.todo).obj
      BY Zenon
    <2>2. ASSUME work.pc # "get", a \in Requests \ {Env}, q \in PodObjects(a), q \notin unheard',
                 (Told(q)').anno, ~work.seen.anno
          PROVE  a \in queue' \/ Losing(q)'
      <3>6. q \notin unheard /\ Told(q).anno => a \in queue \/ Losing(q)
        BY Zenon, <2>1, <2>2 DEF LInv, InHand
      <3> QED
        BY Zenon, <1>2, <1>12, <2>2, <3>6
    <2>3. work' = work /\ Requests' = Requests /\ PodObjects(a)' = PodObjects(a)
      BY Zenon, <1>2, SameReads DEF PodObjects
    <2>4. Told(Head(work.todo).obj)' = Told(q)' /\ Losing(Head(work.todo).obj)' = Losing(q)'
      BY SMTT(30), <2>1, <2>3 DEF Told, Losing
    <2>5. PodObjects(work.req)' = PodObjects(a)
      BY Zenon, <2>1, <2>3 DEF PodObjects
    <2> QED
      BY Zenon, <1>2, <2>1, <2>2, <2>3, <2>4, <2>5 DEF InHand
  <1> QED
    BY Zenon, <1>10, <1>11, <1>13

\* An edit reaches nobody before its event is handled.
LEMMA EditEnlists ==
    ASSUME LInv, NEW o \in Objects, Edit(o)
    PROVE  Forgotten' /\ InHand' /\ Enlisted'
  <1>1. WInv /\ TInv
    BY Zenon DEF LInv, WInv
  <1>10. UNCHANGED unheard
    BY Zenon DEF Edit
  <1>2. /\ UNCHANGED <<ctrl, setup, hc, queue, work, unheard>>
        /\ \A p \in Objects : p # o \/ Watched(o) => Told(p)' = Told(p)
        /\ \A p \in Objects \ {o} : pending'[p] = pending[p]
    BY Zenon, <1>1, <1>10, EditTold
  <1>3. \A p : Watched(p)' = Watched(p)
    BY Zenon, <1>2, SameReads
  <1>4. \A p \in Objects : Watched(p) => Told(p)' = Told(p)
    BY Zenon, <1>2
  <1>5. Forgotten'
    <2>1. ASSUME NEW p \in Objects \ unheard, Watched(p), ~Present(Told(p)') PROVE ~Known(hc, p)
      BY Zenon, <1>4, <2>1 DEF LInv, Forgotten
    <2> QED
      BY Zenon, <1>2, <1>3, <2>1 DEF Forgotten
  <1>7. Losing(o) => Losing(o)'
    <2> SUFFICES ASSUME Losing(o) PROVE Losing(o)'
      BY Zenon
    <2>1. pending[o] \in Seq(Event) /\ pending \in [Objects -> Seq(Event)]
      BY Zenon, <1>1 DEF TInv
    <2>2. PICK i \in 1..Len(pending[o]) : ~pending[o][i].new.anno
      BY Zenon DEF Losing
    <2>3. CASE pending' = pending
      BY Zenon, <2>3 DEF Losing
    <2>4. ASSUME NEW x, pending' = [pending EXCEPT ![o] = Append(pending[o], x)] PROVE Losing(o)'
      <3>1. pending'[o] = Append(pending[o], x)
        BY Zenon, <2>1, <2>4
      <3>2. i \in 1..Len(Append(pending[o], x)) /\ Append(pending[o], x)[i] = pending[o][i]
        BY <2>1, <2>2
      <3> QED
        BY Zenon, <2>2, <3>1, <3>2 DEF Losing
    <2> QED
      BY Zenon, <2>3, <2>4 DEF Edit
  <1>8. ASSUME NEW a \in Requests \ {Env}, NEW p \in PodObjects(a), (Told(p)').anno
        PROVE  Told(p).anno /\ (Due(a, p) => Due(a, p)') /\ (Losing(p) => Losing(p)')
    <2>1. p \in Objects /\ Told(p)' = Told(p)
      BY Zenon, <1>1, <1>4, PodFacts
    <2>2. Losing(p) => Losing(p)'
      BY Zenon, <1>2, <1>7, <2>1 DEF Losing
    <2> QED
      BY Zenon, <1>2, <1>8, <2>1, <2>2 DEF Due, Listed, ToRead
  <1>9. Enlisted'
    BY Zenon, <1>2, <1>8, EnlistedStep DEF LInv
  <1>6. InHand'
    <2>1. PICK a, q : a = work.req /\ q = Head(work.todo).obj
      BY Zenon
    <2>2. ASSUME work.pc # "get", a \in Requests \ {Env}, q \in PodObjects(a), q \notin unheard,
                 (Told(q)').anno, ~work.seen.anno
          PROVE  a \in queue \/ Losing(q)'
      <3>6. q \notin unheard /\ Told(q).anno => a \in queue \/ Losing(q)
        BY Zenon, <2>1, <2>2 DEF LInv, InHand
      <3> QED
        BY Zenon, <1>8, <2>2, <3>6
    <2>3. work' = work /\ Requests' = Requests /\ PodObjects(a)' = PodObjects(a)
      BY Zenon, <1>2, SameReads DEF PodObjects
    <2>4. Told(Head(work.todo).obj)' = Told(q)' /\ Losing(Head(work.todo).obj)' = Losing(q)'
      BY SMTT(30), <2>1, <2>3 DEF Told, Losing
    <2>5. PodObjects(work.req)' = PodObjects(a)
      BY Zenon, <2>1, <2>3 DEF PodObjects
    <2> QED
      BY Zenon, <1>2, <2>1, <2>2, <2>3, <2>4, <2>5 DEF InHand
  <1> QED
    BY Zenon, <1>5, <1>6, <1>9

LEMMA RestartEnlists ==
    ASSUME LInv, Restart
    PROVE  Forgotten' /\ InHand' /\ Enlisted'
  <1>1. UNCHANGED <<ctrl, setup>> /\ hc' = NewHashCache /\ queue' = Requests /\ work' = Idle
    BY Zenon DEF Restart
  <1>2. InHand'
    BY Zenon, <1>1, IdleFacts DEF InHand
  <1>3. Forgotten'
    BY Zenon, <1>1, EntryFacts DEF Forgotten, NewHashCache, Known
  <1>4. Enlisted'
    BY Zenon, <1>1, SameReads DEF Enlisted
  <1> QED
    BY Zenon, <1>2, <1>3, <1>4

----------------------------------------------------------------------------
(* The theorem *)

\* A request is registered for what it reads.
LEMMA ListInit == Init => LInv
  <1> SUFFICES ASSUME Init PROVE LInv
    BY Zenon
  <1>1. WInv /\ TInv
    BY Zenon, WatchInit DEF WInv
  <1>2. work = Idle /\ pending = [o \in Objects |-> <<>>] /\ hc = SettledCache
    BY Zenon DEF Init
  <1>3. \A o \in Objects : Told(o) = store[o]
    BY Zenon, <1>2 DEF Told
  <1>4. InHand
    BY Zenon, <1>2, IdleFacts DEF InHand
  <1>5. ASSUME NEW o \in Objects, ~Present(store[o]) PROVE ~Known(hc, o)
    <2>1. hc[o] = NoEntry
      BY Zenon, <1>2, <1>5 DEF SettledCache
    <2> QED
      BY Zenon, <2>1, EntryFacts DEF Known
  <1>6. Forgotten
    BY Zenon, <1>3, <1>5 DEF Forgotten
  <1>7. ASSUME NEW a \in Requests \ {Env}, NEW o \in PodObjects(a), Told(o).anno PROVE Listed(a, o)
    <2>1. PICK i \in 1..Len(Reads(a)) : Reads(a)[i].obj = o /\ Reads(a)[i].sub = a /\ ~Reads(a)[i].skip
      BY SMTT(30), <1>1, PodFacts
    <2>2. o \in Objects /\ a \in Apps
      BY Zenon, <1>1, PodFacts
    <2>3. Reads(a) \in Seq(Mine(a))
      BY Zenon, <1>1, <2>2, ReadsType DEF TInv
    <2>4. i \in DOMAIN Reads(a)
      BY <2>1, <2>3
    <2>5. PICK g : g = Reads(a)[i]
      BY Zenon
    <2>6. g \in Registrations /\ g.obj = o /\ g.sub = a
      BY <2>1, <2>4, <2>5 DEF Registrations, ReadsOf
    <2>7. store[o] \in Values /\ store[o].anno
      BY Zenon, <1>1, <1>3, <1>7, <2>2 DEF TInv
    <2>8. Present(store[o])
      BY Zenon, <2>7, AnnotatedIsPresent
    <2> DEFINE regs == {h \in Registrations : h.obj = o}
               subs == {h.sub : h \in {x \in regs : store[o].anno \/ x.always}}
    <2>9. regs # {} /\ a \in subs
      BY Zenon, <2>6, <2>7
    <2>10. hc[o].subs = subs
      <3> DEFINE al == ~store[o].anno /\ \E h \in regs : h.always
      <3>1. hc[o] = IF ~Present(store[o]) \/ (regs = {} /\ ~(Watched(o) /\ store[o].anno))
                      THEN NoEntry ELSE [hash |-> store[o].content, subs |-> subs, always |-> al]
        BY Zenon, <1>2, <2>2 DEF SettledCache
      <3> HIDE DEF regs, subs, al
      <3>2. hc[o] = [hash |-> store[o].content, subs |-> subs, always |-> al]
        BY Zenon, <2>8, <2>9, <3>1
      <3> QED
        BY SMTT(30), <3>2
    <2> QED
      BY Zenon, <2>9, <2>10 DEF Listed
  <1>8. Enlisted
    BY Zenon, <1>7 DEF Enlisted
  <1> QED
    BY Zenon, <1>1, <1>4, <1>6, <1>8 DEF LInv

LEMMA ListStep == LInv /\ [Next]_vars => LInv'
  <1> SUFFICES ASSUME LInv, [Next]_vars PROVE Forgotten' /\ InHand' /\ Enlisted'
    BY Zenon, WatchStep DEF LInv
  <1>1. CASE GetObject
    BY Zenon, <1>1, GetEnlists
  <1>2. CASE NoteObject
    BY Zenon, <1>2, NoteEnlists
  <1>3. CASE AddObject
    BY Zenon, <1>3, AddEnlists
  <1>4. CASE Apply
    BY Zenon, <1>4, ApplyEnlists
  <1>5. ASSUME NEW r \in Requests, StartReconcile(r) PROVE Forgotten' /\ InHand' /\ Enlisted'
    BY Zenon, <1>5, StartEnlists
  <1>6. ASSUME NEW o \in Objects, Handle(o) PROVE Forgotten' /\ InHand' /\ Enlisted'
    BY Zenon, <1>6, HandleEnlists
  <1>7. ASSUME NEW r \in Requests, HandleOwned(r) PROVE Forgotten' /\ InHand' /\ Enlisted'
    BY Zenon, <1>7, OwnedEnlists
  <1>8. ASSUME NEW o \in ReadByAny, Edit(o) PROVE Forgotten' /\ InHand' /\ Enlisted'
    <2>1. o \in Objects
      BY Zenon, ReadAreObjects DEF LInv, WInv, TInv
    <2> QED
      BY Zenon, <1>8, <2>1, EditEnlists
  <1>9. CASE Restart
    BY Zenon, <1>9, RestartEnlists
  <1>10. CASE UNCHANGED vars
    <2>1. UNCHANGED <<ctrl, setup, store, pending, hc, queue, work, unheard>>
      BY Zenon, <1>10 DEF vars
    <2>2. Forgotten'
      BY Zenon, <2>1, ForgottenQuiet DEF LInv
    <2>3. InHand'
      BY Zenon, <2>1, InHandQuiet DEF LInv, InHand
    <2>4. ASSUME NEW a \in Requests \ {Env}, NEW o \in PodObjects(a), Listed(a, o) \/ a \in queue \/ ToRead(a, o)
          PROVE  Due(a, o)'
      BY Zenon, <2>1, <2>4 DEF Due, Listed, ToRead
    <2>5. Enlisted'
      BY Zenon, <2>1, <2>4, EnlistedQuiet DEF LInv
    <2> QED
      BY Zenon, <2>2, <2>3, <2>5
  <1> QED
    BY Zenon, <1>1, <1>2, <1>3, <1>4, <1>5, <1>6, <1>7, <1>8, <1>9, <1>10 DEF Next, Worker, Handlers

(* An annotated object that the pods of an app name lists the app once     *)
(* everything has come to rest, for any number of apps, objects, edits and *)
(* restarts: handlers.go wakes the apps of the namespace when an object    *)
(* gets the annotation or appears with it, confighash registers the app    *)
(* again.  The exception is an object that a reconcile hashed while the    *)
(* handlers took it for absent: its creation is then no news to them.      *)
THEOREM AnnotatedTheorem == Spec => []AnnotatedAreListed
  <1>1. LInv => AnnotatedAreListed
    <2> SUFFICES ASSUME LInv, AtRest, NEW a \in Requests \ {Env},
                        NEW o \in {setup.refs[a][i] : i \in DOMAIN setup.refs[a]} \ unheard,
                        store[o].anno, Name(o) # a
                 PROVE  Listed(a, o)
      BY Zenon DEF AnnotatedAreListed
    <2>1. o \in PodObjects(a) /\ o \notin unheard
      BY Zenon DEF PodObjects
    <2>2. TInv
      BY Zenon DEF LInv, WInv
    <2>3. o \in Objects /\ a # "none"
      BY Zenon, <2>1, <2>2, PodFacts
    <2>4. pending[o] = <<>> /\ work.req = "none" /\ queue = {}
      BY Zenon, <2>3 DEF AtRest
    <2>5. Told(o).anno
      BY Zenon, <2>4 DEF Told
    <2>6. ~ToRead(a, o) /\ ~Losing(o)
      BY <2>3, <2>4 DEF ToRead, Losing
    <2> QED
      BY Zenon, <2>1, <2>4, <2>5, <2>6 DEF LInv, Enlisted
  <1>2. Spec => []LInv
    BY ListInit, ListStep, PTL DEF Spec
  <1> QED
    BY <1>1, <1>2, PTL
=============================================================================
