------------------------ MODULE Application_proofs ------------------------
(* Theorems about the ClowdApp controller next to the ClowdEnvironment       *)
(* controller, for every set of apps and namespaces and every number of      *)
(* edits and faults.                                                         *)
EXTENDS Application, Environment_proofs

----------------------------------------------------------------------------
(* The inductive invariant *)

\* What the informer holds of a ClowdApp, c, or is about to receive, w, are
\* earlier versions of the stored o, with generations that never go back; the
\* same version is the same object.
AppTrail(o, c, w) ==
    /\ o.rv >= 1
    /\ c.rv <= o.rv /\ (c.rv = o.rv => c = o) /\ c.gen <= o.gen
    /\ \A i \in 1..Len(w) :
         /\ w[i].rv <= o.rv /\ (w[i].rv = o.rv => w[i] = o)
         /\ c.gen <= w[i].gen /\ w[i].gen <= o.gen
    /\ \A i, j \in 1..Len(w) : i <= j => w[i].gen <= w[j].gen

\* The generations an environment has reported: they never go back either.
StatusTrail(o, c, w) ==
    /\ o.st.gen <= o.gen
    /\ c.st.gen <= o.st.gen
    /\ \A i \in 1..Len(w) : c.st.gen <= w[i].st.gen /\ w[i].st.gen <= o.st.gen
    /\ \A i, j \in 1..Len(w) : i <= j => w[i].st.gen <= w[j].st.gen

Trails ==
    /\ StatusTrail(env, eCached, eWatch)
    /\ \A a \in Apps : AppTrail(app[a], aCached[a], aWatch[a])

\* The worker's object is of an earlier version, or the stored one but for what
\* a reconcile changes in memory.
AppSnapOK ==
    aPc # "idle" =>
      /\ aSnap.rv <= app[aCur].rv
      /\ aSnap.rv = app[aCur].rv => aSnap.gen = app[aCur].gen /\ aSnap.st.gen = app[aCur].st.gen

\* A Deployment is built from no later specification than the informer has seen,
\* of the app and of a reconciled environment, the worker holds none that is
\* older, and the recorded generation is not ahead of the Deployment.
AppBuilds ==
    /\ \A a \in Apps : /\ adep[a].of.own <= aCached[a].gen /\ app[a].st.gen <= adep[a].of.own
                       /\ adep[a].of.env <= eCached.st.gen
    /\ aPc # "idle" => adep[aCur].of.own <= aSnap.gen /\ aSnap.gen <= aCached[aCur].gen
    /\ aPc \in {"count", "success"} => adep[aCur].of.own = aSnap.gen
    /\ aPc = "provide" => aEnv.gen <= eCached.st.gen /\ \A a \in Apps : adep[a].of.env <= aEnv.gen

AInv == IInv /\ TypeOK /\ Trails /\ AppSnapOK /\ AppBuilds

----------------------------------------------------------------------------
(* Types *)

LEMMA AppFields ==
    ASSUME NEW o \in AppObject
    PROVE  /\ o.there \in BOOLEAN /\ o.rv \in Nat /\ o.gen \in Nat /\ o.disabled \in BOOLEAN
           /\ o.deleting \in BOOLEAN /\ o.fin \in BOOLEAN
           /\ o.st \in AppStatuses /\ o.st.gen \in Nat
  BY Zenon DEF AppObject, AppStatuses

\* Changing a field of a ClowdApp keeps it a ClowdApp.
LEMMA AppUpdate ==
    ASSUME NEW o \in AppObject
    PROVE  /\ \A r \in Nat : [o EXCEPT !.rv = r] \in AppObject
           /\ \A s \in AppStatuses : [o EXCEPT !.st = s] \in AppObject
           /\ \A f \in BOOLEAN : [o EXCEPT !.fin = f] \in AppObject
           /\ \A f, t \in BOOLEAN : [o EXCEPT !.fin = f, !.there = t] \in AppObject
           /\ \A g \in Nat : [o EXCEPT !.gen = g] \in AppObject
           /\ \A g \in Nat, d \in BOOLEAN : [o EXCEPT !.gen = g, !.disabled = d] \in AppObject
           /\ \A g \in Nat, d, t \in BOOLEAN :
                [o EXCEPT !.gen = g, !.deleting = d, !.there = t] \in AppObject
  BY Zenon DEF AppObject

LEMMA AppCountUpdate ==
    ASSUME NEW o \in AppObject, NEW c \in Nat \X Nat
    PROVE  /\ [o EXCEPT !.st.count = c] \in AppObject
           /\ [o EXCEPT !.st.count = c].rv = o.rv /\ [o EXCEPT !.st.count = c].gen = o.gen
           /\ [o EXCEPT !.st.count = c].st.gen = o.st.gen
  <1>1. o.st \in AppStatuses
    BY Zenon, AppFields
  <1>2. [o.st EXCEPT !.count = c] \in AppStatuses /\ [o.st EXCEPT !.count = c].gen = o.st.gen
    BY Zenon, <1>1 DEF AppStatuses
  <1> QED
    BY Zenon, <1>2 DEF AppObject

LEMMA FreshAppTypes ==
    /\ FreshAppStatus \in AppStatuses /\ NoApp \in AppObject
    /\ NewApp \in AppObject /\ NewApp.rv = 1 /\ NewApp.gen = 1 /\ NewApp.st.gen = 0
  <1>1. FreshAppStatus \in AppStatuses /\ FreshAppStatus.gen = 0
    BY Zenon DEF FreshAppStatus, AppStatuses, AppErrors
  <1>2. NoApp \in AppObject /\ NoApp.st = FreshAppStatus
    BY Zenon, <1>1 DEF NoApp, AppObject
  <1> QED
    BY Zenon, <1>1, <1>2 DEF NewApp, AppObject

LEMMA BuildFields ==
    ASSUME NEW d \in Deployment
    PROVE  d.of \in Build /\ d.of.own \in Nat /\ d.of.env \in Nat
  BY Zenon DEF Deployment, Build

----------------------------------------------------------------------------
(* Versions and generations on their way to the informers *)

\* A new version is appended to what the informer will see.
LEMMA AppTrailGrows ==
    ASSUME NEW o \in AppObject, NEW c \in AppObject, NEW w \in Seq(AppObject), AppTrail(o, c, w),
           NEW n \in AppObject, n.rv = o.rv + 1, n.gen >= o.gen
    PROVE  AppTrail(n, c, Append(w, n))
  <1> DEFINE v == Append(w, n)
  <1>1. /\ v \in Seq(AppObject) /\ Len(v) = Len(w) + 1 /\ Len(w) \in Nat
        /\ \A i \in 1..Len(w) : v[i] = w[i]
        /\ v[Len(w) + 1] = n
    OBVIOUS
  <1>2. \A i \in 1..Len(w) : w[i] \in AppObject /\ w[i].rv \in Nat /\ w[i].gen \in Nat
    BY AppFields
  <1>3. /\ o.rv \in Nat /\ o.gen \in Nat /\ c.rv \in Nat /\ c.gen \in Nat /\ n.rv \in Nat /\ n.gen \in Nat
        /\ o.rv >= 1 /\ c.rv <= o.rv /\ c.gen <= o.gen
    BY Zenon, AppFields DEF AppTrail
  <1> HIDE DEF v
  <1>4. n.rv >= 1 /\ c.rv <= n.rv /\ c.rv # n.rv /\ c.gen <= n.gen
    BY <1>3
  <1>5. ASSUME NEW i \in 1..Len(v)
        PROVE  /\ v[i].rv <= n.rv /\ (v[i].rv = n.rv => v[i] = n)
               /\ c.gen <= v[i].gen /\ v[i].gen <= n.gen
    <2>1. CASE i = Len(w) + 1
      BY <2>1, <1>1, <1>3, <1>4
    <2>2. CASE i # Len(w) + 1
      <3>1. i \in 1..Len(w)
        BY <1>1, <1>5, <2>2
      <3>2. w[i].rv <= o.rv /\ c.gen <= w[i].gen /\ w[i].gen <= o.gen
        BY Zenon, <3>1 DEF AppTrail
      <3>3. v[i] = w[i] /\ w[i].rv \in Nat /\ w[i].gen \in Nat
        BY Zenon, <3>1, <1>1, <1>2
      <3> QED
        BY SMTT(30), <3>2, <3>3, <1>3
    <2> QED
      BY Zenon, <2>1, <2>2
  <1>6. ASSUME NEW i \in 1..Len(v), NEW j \in 1..Len(v), i <= j
        PROVE  v[i].gen <= v[j].gen
    <2>1. CASE j = Len(w) + 1
      BY Zenon, <2>1, <1>1, <1>5
    <2>2. CASE j # Len(w) + 1
      <3>1. i \in 1..Len(w) /\ j \in 1..Len(w)
        BY <1>1, <1>6, <2>2
      <3> QED
        BY Zenon, <3>1, <1>1, <1>6 DEF AppTrail
    <2> QED
      BY Zenon, <2>1, <2>2
  <1>7. AppTrail(n, c, v)
    BY Zenon, <1>4, <1>5, <1>6 DEF AppTrail
  <1> QED
    BY Zenon, <1>7 DEF v

\* The informer receives the next version.
LEMMA AppTrailMoves ==
    ASSUME NEW o \in AppObject, NEW c \in AppObject, NEW w \in Seq(AppObject), AppTrail(o, c, w), w # <<>>
    PROVE  /\ Head(w) \in AppObject /\ Tail(w) \in Seq(AppObject)
           /\ AppTrail(o, Head(w), Tail(w)) /\ c.gen <= Head(w).gen
  <1> DEFINE h == Head(w)
             t == Tail(w)
  <1>1. /\ h = w[1] /\ h \in AppObject /\ 1 \in 1..Len(w) /\ t \in Seq(AppObject)
        /\ Len(t) = Len(w) - 1 /\ Len(w) \in Nat
        /\ \A i \in 1..Len(t) : i + 1 \in 1..Len(w) /\ 1 <= i + 1 /\ t[i] = w[i + 1]
    OBVIOUS
  <1> HIDE DEF h, t
  <1>2. h.rv <= o.rv /\ (h.rv = o.rv => h = o) /\ c.gen <= h.gen /\ h.gen <= o.gen /\ o.rv >= 1
    BY Zenon, <1>1 DEF AppTrail
  <1>3. ASSUME NEW i \in 1..Len(t)
        PROVE  /\ t[i].rv <= o.rv /\ (t[i].rv = o.rv => t[i] = o)
               /\ h.gen <= t[i].gen /\ t[i].gen <= o.gen
    BY Zenon, <1>1, <1>3 DEF AppTrail
  <1>4. ASSUME NEW i \in 1..Len(t), NEW j \in 1..Len(t), i <= j
        PROVE  t[i].gen <= t[j].gen
    <2>1. i + 1 \in 1..Len(w) /\ j + 1 \in 1..Len(w) /\ t[i] = w[i + 1] /\ t[j] = w[j + 1]
      BY Zenon, <1>1, <1>4
    <2>2. i + 1 <= j + 1
      BY <1>1, <1>4
    <2> QED
      BY Zenon, <2>1, <2>2 DEF AppTrail
  <1>5. AppTrail(o, h, t)
    BY Zenon, <1>2, <1>3, <1>4 DEF AppTrail
  <1> QED
    BY Zenon, <1>1, <1>2, <1>5 DEF h, t

\* With nothing on its way and the stored version in the cache.
LEMMA AppTrailStarts ==
    ASSUME NEW o \in AppObject, o.rv >= 1
    PROVE  AppTrail(o, o, <<>>)
  <1>1. 1..Len(<<>>) = {} /\ o.rv \in Nat /\ o.gen \in Nat
    BY Zenon, EmptyQueues, AppFields
  <1> QED
    BY <1>1 DEF AppTrail

\* The same for what the environment has reported.
LEMMA StatusTrailGrows ==
    ASSUME NEW o \in EnvObject, NEW c \in EnvObject, NEW w \in Seq(EnvObject), StatusTrail(o, c, w),
           NEW n \in EnvObject, o.st.gen <= n.st.gen, n.st.gen <= n.gen
    PROVE  StatusTrail(n, c, Append(w, n))
  <1> DEFINE v == Append(w, n)
  <1>1. /\ v \in Seq(EnvObject) /\ Len(v) = Len(w) + 1 /\ Len(w) \in Nat
        /\ \A i \in 1..Len(w) : v[i] = w[i]
        /\ v[Len(w) + 1] = n
    OBVIOUS
  <1>2. \A i \in 1..Len(w) : w[i] \in EnvObject /\ w[i].st.gen \in Nat
    BY EnvFields
  <1>3. o.st.gen \in Nat /\ c.st.gen \in Nat /\ n.st.gen \in Nat /\ c.st.gen <= o.st.gen
    BY Zenon, EnvFields DEF StatusTrail
  <1> HIDE DEF v
  <1>4. c.st.gen <= n.st.gen
    BY <1>3
  <1>5. ASSUME NEW i \in 1..Len(v)
        PROVE  c.st.gen <= v[i].st.gen /\ v[i].st.gen <= n.st.gen
    <2>1. CASE i = Len(w) + 1
      BY <2>1, <1>1, <1>3, <1>4
    <2>2. CASE i # Len(w) + 1
      <3>1. i \in 1..Len(w)
        BY <1>1, <1>5, <2>2
      <3>2. c.st.gen <= w[i].st.gen /\ w[i].st.gen <= o.st.gen
        BY Zenon, <3>1 DEF StatusTrail
      <3>3. v[i] = w[i] /\ w[i].st.gen \in Nat
        BY Zenon, <3>1, <1>1, <1>2
      <3> QED
        BY <3>2, <3>3, <1>3
    <2> QED
      BY Zenon, <2>1, <2>2
  <1>6. ASSUME NEW i \in 1..Len(v), NEW j \in 1..Len(v), i <= j
        PROVE  v[i].st.gen <= v[j].st.gen
    <2>1. CASE j = Len(w) + 1
      BY Zenon, <2>1, <1>1, <1>5
    <2>2. CASE j # Len(w) + 1
      <3>1. i \in 1..Len(w) /\ j \in 1..Len(w)
        BY <1>1, <1>6, <2>2
      <3> QED
        BY Zenon, <3>1, <1>1, <1>6 DEF StatusTrail
    <2> QED
      BY Zenon, <2>1, <2>2
  <1>7. StatusTrail(n, c, v)
    BY Zenon, <1>4, <1>5, <1>6 DEF StatusTrail
  <1> QED
    BY Zenon, <1>7 DEF v

LEMMA StatusTrailMoves ==
    ASSUME NEW o \in EnvObject, NEW c \in EnvObject, NEW w \in Seq(EnvObject), StatusTrail(o, c, w), w # <<>>
    PROVE  StatusTrail(o, Head(w), Tail(w)) /\ c.st.gen <= Head(w).st.gen
  <1> DEFINE h == Head(w)
             t == Tail(w)
  <1>1. /\ h = w[1] /\ 1 \in 1..Len(w) /\ Len(t) = Len(w) - 1 /\ Len(w) \in Nat
        /\ \A i \in 1..Len(t) : i + 1 \in 1..Len(w) /\ 1 <= i + 1 /\ t[i] = w[i + 1]
    OBVIOUS
  <1> HIDE DEF h, t
  <1>2. o.st.gen <= o.gen /\ c.st.gen <= h.st.gen /\ h.st.gen <= o.st.gen
    BY Zenon, <1>1 DEF StatusTrail
  <1>3. ASSUME NEW i \in 1..Len(t)
        PROVE  h.st.gen <= t[i].st.gen /\ t[i].st.gen <= o.st.gen
    BY Zenon, <1>1, <1>3 DEF StatusTrail
  <1>4. ASSUME NEW i \in 1..Len(t), NEW j \in 1..Len(t), i <= j
        PROVE  t[i].st.gen <= t[j].st.gen
    <2>1. i + 1 \in 1..Len(w) /\ j + 1 \in 1..Len(w) /\ t[i] = w[i + 1] /\ t[j] = w[j + 1]
      BY Zenon, <1>1, <1>4
    <2>2. i + 1 <= j + 1
      BY <1>1, <1>4
    <2> QED
      BY Zenon, <2>1, <2>2 DEF StatusTrail
  <1>5. StatusTrail(o, h, t)
    BY Zenon, <1>2, <1>3, <1>4 DEF StatusTrail
  <1> QED
    BY Zenon, <1>2, <1>5 DEF h, t

LEMMA StatusTrailStarts ==
    ASSUME NEW o \in EnvObject, o.st.gen <= o.gen
    PROVE  StatusTrail(o, o, <<>>)
  <1>1. 1..Len(<<>>) = {} /\ o.st.gen \in Nat
    BY Zenon, EmptyQueues, EnvFields
  <1> QED
    BY <1>1 DEF StatusTrail

----------------------------------------------------------------------------
(* The environment's steps, as the ClowdApp controller sees them *)

\* The stored environment changes only together with what its informer will see.
EnvStored == UNCHANGED envObject \/ eWatch' = Append(eWatch, env')

\* What every step of the environment's side comes to.
EnvMoves ==
    /\ IInv' /\ StatusTrail(env', eCached', eWatch')
    /\ eCached.st.gen <= eCached'.st.gen
    /\ \/ env'.gen = env.gen /\ env.st.gen <= env'.st.gen /\ env'.st.gen <= env.gen
       \/ env'.gen = env.gen + 1 /\ env'.st.gen = env.st.gen

LEMMA WorkerStored ==
    ASSUME NEW apps, EnvWorker(apps)
    PROVE  EnvStored /\ UNCHANGED eCached
  <1>1. \A o : Put(o) => EnvStored
    BY Zenon DEF Put, EnvStored
  <1>2. \A new : SetClowdEnvConditions(new) => EnvStored
    BY Zenon, <1>1 DEF SetClowdEnvConditions, EnvStored
  <1>3. \A o, err : EnvFails(o, err) => EnvStored
    BY Zenon, <1>2 DEF EnvFails
  <1>4. CASE EnvBegin \/ finalizeEnvironmentImplementation \/ FinalizeFails \/ DeletedUnfinalized \/ setEnvResourceStatus(apps)
    BY Zenon, <1>4 DEF EnvBegin, finalizeEnvironmentImplementation, FinalizeFails, DeletedUnfinalized,
                setEnvResourceStatus, EnvStored
  <1>5. CASE RemoveFinalizer
    BY Zenon, <1>1, <1>5 DEF RemoveFinalizer, EnvStored
  <1>6. CASE addFinalizerIfRequired
    BY Zenon, <1>1, <1>6 DEF addFinalizerIfRequired, EnvStored
  <1>7. CASE makeTargetNamespace
    BY Zenon, <1>3, <1>7 DEF makeTargetNamespace, EnvStored
  <1>8. CASE getTargetNamespace
    BY Zenon, <1>3, <1>8 DEF getTargetNamespace, EnvStored
  <1>9. CASE updateTargetNamespace
    BY Zenon, <1>1, <1>9 DEF updateTargetNamespace, EnvStored
  <1>10. CASE isTargetNamespaceMarkedForDeletion
    BY Zenon, <1>3, <1>10 DEF isTargetNamespaceMarkedForDeletion, EnvStored
  <1>11. CASE runProviders
    BY Zenon, <1>3, <1>11 DEF runProviders, EnvStored
  <1>12. CASE finalStatusError
    BY Zenon, <1>1, <1>12 DEF finalStatusError, EnvStored
  <1>13. CASE setClowdEnvConditions
    BY Zenon, <1>2, <1>13 DEF setClowdEnvConditions, EnvStored
  <1> QED
    BY Zenon, <1>4, <1>5, <1>6, <1>7, <1>8, <1>9, <1>10, <1>11, <1>12, <1>13 DEF EnvWorker

\* A step that stores a status at least as recent, or nothing.
LEMMA StoredMoves ==
    ASSUME IInv, IInv', StatusTrail(env, eCached, eWatch), EnvStored, UNCHANGED eCached,
           \/ env'.gen = env.gen /\ env'.st.gen \in {env.st.gen, env.gen}
           \/ env'.gen = env.gen + 1 /\ env'.st.gen = env.st.gen
    PROVE  EnvMoves
  <1>1. /\ env \in EnvObject /\ env' \in EnvObject /\ eCached \in EnvObject /\ eWatch \in Seq(EnvObject)
        /\ env.gen \in Nat /\ env.st.gen \in Nat /\ eCached.st.gen \in Nat /\ env.st.gen <= env.gen
    BY Zenon, EnvFields DEF IInv, EnvTypeOK, StatusTrail
  <1>2. env.st.gen <= env'.st.gen /\ env'.st.gen <= env'.gen
    BY <1>1
  <1>3. StatusTrail(env', eCached', eWatch')
    <2>1. CASE UNCHANGED envObject
      BY Zenon, <2>1 DEF envObject
    <2>2. CASE eWatch' = Append(eWatch, env')
      BY Zenon, <1>1, <1>2, <2>2, StatusTrailGrows
    <2> QED
      BY Zenon, <2>1, <2>2 DEF EnvStored
  <1> QED
    BY <1>1, <1>2, <1>3 DEF EnvMoves

LEMMA EnvWorkerMoves ==
    ASSUME IInv, StatusTrail(env, eCached, eWatch), NEW apps \in SUBSET Apps, EnvWorker(apps)
    PROVE  EnvMoves
  <1>1. IInv' /\ (EnvBegin \/ StatusStep)
    BY Zenon, WorkerKeeps
  <1>2. env'.gen = env.gen /\ env'.st.gen \in {env.st.gen, env.gen}
    BY Zenon, <1>1 DEF StatusStep, EnvBegin, envObject
  <1> QED
    BY Zenon, <1>1, <1>2, WorkerStored, StoredMoves

LEMMA EnvClusterMoves ==
    ASSUME IInv, StatusTrail(env, eCached, eWatch), EnvCluster
    PROVE  EnvMoves
  <1>1. \A o : Put(o) => EnvStored
    BY Zenon DEF Put, EnvStored
  <1>2. CASE EditEnv
    <2>1. IInv' /\ env'.st = env.st /\ env'.gen = env.gen + 1
      BY Zenon, <1>2, EditKeeps
    <2>2. EnvStored /\ UNCHANGED eCached
      BY Zenon, <1>1, <1>2 DEF EditEnv
    <2> QED
      BY Zenon, <2>1, <2>2, StoredMoves
  <1>3. CASE ReleaseHold
    <2>1. IInv' /\ env'.st = env.st /\ env'.gen = env.gen
      BY Zenon, <1>3, ReleaseKeeps
    <2>2. EnvStored /\ UNCHANGED eCached
      BY Zenon, <1>1, <1>3 DEF ReleaseHold
    <2> QED
      BY Zenon, <2>1, <2>2, StoredMoves
  <1>4. CASE ~EditEnv /\ ~ReleaseHold
    <2>1. IInv' /\ UNCHANGED env
      BY Zenon, <1>4, ClusterKeeps
    <2>2. UNCHANGED envObject /\ UNCHANGED eCached
      BY Zenon, <1>4 DEF EnvCluster, GiveNamespace, SyncDeployment, PodFails, DropNamespace
    <2> QED
      BY Zenon, <2>1, <2>2, StoredMoves DEF EnvStored
  <1> QED
    BY Zenon, <1>2, <1>3, <1>4

LEMMA DeliverEnvMoves ==
    ASSUME IInv, StatusTrail(env, eCached, eWatch), DeliverEnv
    PROVE  EnvMoves
  <1>1. IInv' /\ UNCHANGED env
    BY Zenon, DeliverKeeps
  <1>2. eWatch # <<>> /\ eCached' = Head(eWatch) /\ eWatch' = Tail(eWatch)
    BY Zenon DEF DeliverEnv
  <1>3. /\ env \in EnvObject /\ eCached \in EnvObject /\ eWatch \in Seq(EnvObject)
        /\ env.st.gen \in Nat /\ env.st.gen <= env.gen
    BY Zenon, EnvFields DEF IInv, EnvTypeOK, StatusTrail
  <1>4. StatusTrail(env, Head(eWatch), Tail(eWatch)) /\ eCached.st.gen <= Head(eWatch).st.gen
    BY Zenon, <1>2, <1>3, StatusTrailMoves
  <1> QED
    BY <1>1, <1>2, <1>3, <1>4 DEF EnvMoves

LEMMA OtherInformersMove ==
    ASSUME IInv, StatusTrail(env, eCached, eWatch), DeliverDeployment \/ \E n \in Namespaces : DeliverNamespace(n)
    PROVE  EnvMoves
  <1>1. IInv' /\ UNCHANGED env
    BY Zenon, InformersKeep DEF EnvInformers
  <1>2. UNCHANGED envObject /\ UNCHANGED eCached
    BY Zenon DEF DeliverDeployment, DeliverNamespace
  <1> QED
    BY Zenon, <1>1, <1>2, StoredMoves DEF EnvStored

\* After a restart the cache holds what is stored.
LEMMA EnvCrashMoves ==
    ASSUME IInv, StatusTrail(env, eCached, eWatch), EnvCrash
    PROVE  EnvMoves /\ UNCHANGED env /\ eCached' = env
  <1>1. IInv' /\ UNCHANGED env
    BY Zenon, CrashKeeps
  <1>2. eCached' = env /\ eWatch' = <<>>
    BY Zenon DEF EnvCrash
  <1>3. env \in EnvObject /\ env.st.gen \in Nat /\ env.st.gen <= env.gen /\ eCached.st.gen <= env.st.gen
    BY Zenon, EnvFields DEF IInv, EnvTypeOK, StatusTrail
  <1>4. StatusTrail(env, env, <<>>)
    BY Zenon, <1>3, StatusTrailStarts
  <1> QED
    BY <1>1, <1>2, <1>3, <1>4 DEF EnvMoves

\* A step of the other controller leaves the environment's side alone, but for
\* its key in the queue and the faults.
LEMMA EnvRests ==
    ASSUME IInv, StatusTrail(env, eCached, eWatch), UNCHANGED <<envSide>>,
           eQueued' \in BOOLEAN, edits' \in 0..MaxEdits, faults' \in 0..MaxFaults
    PROVE  EnvMoves /\ UNCHANGED <<env, eCached>>
  <1>1. IInv'
    <2>1. RestTypeOK' /\ dep'.of = dep.of
      BY Zenon DEF IInv, EnvTypeOK, RestTypeOK, envSide
    <2> QED
      BY Zenon, <2>1, AsideKeeps DEF envSide
  <1>2. UNCHANGED envObject /\ UNCHANGED eCached
    BY Zenon DEF envSide, envObject
  <1> QED
    BY Zenon, <1>1, <1>2, StoredMoves DEF EnvStored, envObject

----------------------------------------------------------------------------
(* Writes *)

LEMMA PutAppEffect ==
    ASSUME app \in [Apps -> AppObject], aWatch \in [Apps -> Seq(AppObject)], aCached \in [Apps -> AppObject],
           \A b \in Apps : AppTrail(app[b], aCached[b], aWatch[b]),
           NEW a \in Apps, NEW o \in AppObject, o.gen >= app[a].gen, PutApp(a, o), aCached' = aCached
    PROVE  /\ app' \in [Apps -> AppObject] /\ aWatch' \in [Apps -> Seq(AppObject)]
           /\ \A b \in Apps : AppTrail(app'[b], aCached'[b], aWatch'[b])
           /\ \A b \in Apps \ {a} : app'[b] = app[b]
           /\ app'[a].gen = o.gen /\ app'[a].st = o.st
           /\ UNCHANGED appObject \/ app'[a].rv = app[a].rv + 1
  <1>1. CASE o = app[a]
    BY Zenon, <1>1 DEF PutApp, appObject
  <1>2. CASE o # app[a]
    <2> DEFINE n == [o EXCEPT !.rv = app[a].rv + 1]
    <2>1. app' = [app EXCEPT ![a] = n] /\ aWatch' = [aWatch EXCEPT ![a] = Append(aWatch[a], app'[a])]
      BY Zenon, <1>2 DEF PutApp
    <2>2. app[a] \in AppObject /\ app[a].rv + 1 \in Nat
      BY SMTT(30), AppFields
    <2>3. n \in AppObject /\ n.rv = app[a].rv + 1 /\ n.gen = o.gen /\ n.st = o.st
      <3>1. n \in AppObject
        BY Zenon, <2>2, AppUpdate
      <3> QED
        BY Zenon, <3>1 DEF AppObject
    <2> HIDE DEF n
    <2>4. app'[a] = n /\ aWatch'[a] = Append(aWatch[a], n)
      BY Zenon, <2>1
    <2>5. \A b \in Apps \ {a} : app'[b] = app[b] /\ aWatch'[b] = aWatch[b]
      BY Zenon, <2>1
    <2>6. app' \in [Apps -> AppObject] /\ aWatch' \in [Apps -> Seq(AppObject)]
      BY <2>1, <2>3, <2>4
    <2>7. AppTrail(n, aCached[a], Append(aWatch[a], n))
      BY Zenon, <2>2, <2>3, AppTrailGrows
    <2>8. \A b \in Apps : AppTrail(app'[b], aCached'[b], aWatch'[b])
      BY Zenon, <2>4, <2>5, <2>7
    <2> QED
      BY Zenon, <2>3, <2>4, <2>5, <2>6, <2>8
  <1> QED
    BY Zenon, <1>1, <1>2

\* The worker stores its ClowdApp with g as the recorded generation, or nothing.
AppStores(g) ==
    \/ UNCHANGED appObject
    \/ \E o \in AppObject : o.gen = app[aCur].gen /\ o.st.gen = g /\ PutApp(aCur, o)

LEMMA AppStatusType ==
    ASSUME TypeOK, aCur \in Apps, NEW state \in {"None", "Successful", "Failed"}, NEW err \in AppErrors
    PROVE  AppStatus(state, err) \in AppStatuses /\ AppStatus(state, err).gen = aSnap.st.gen
  <1>1. ResourcesReady(adCached[aCur]) \in BOOLEAN
    BY Zenon, CountType DEF TypeOK
  <1>2. aSnap.st \in AppStatuses /\ aSnap.gen \in Nat
    BY Zenon, AppFields DEF TypeOK
  <1> QED
    BY Zenon, <1>1, <1>2 DEF AppStatus, AppStatuses

LEMMA ConditionsPut ==
    ASSUME TypeOK, AppSnapOK, aPc # "idle", NEW new \in AppStatuses, SetClowdAppConditions(new)
    PROVE  UNCHANGED appObject \/ (AppFits /\ AppStores(new.gen))
  <1>1. CASE eCached.there /\ new # aOld /\ AppFits
    <2>1. PutApp(aCur, [aSnap EXCEPT !.st = new])
      BY Zenon, <1>1 DEF SetClowdAppConditions
    <2>2. [aSnap EXCEPT !.st = new] \in AppObject
      BY Zenon, AppUpdate DEF TypeOK
    <2>3. [aSnap EXCEPT !.st = new].gen = aSnap.gen /\ [aSnap EXCEPT !.st = new].st = new
      BY Zenon DEF TypeOK, AppObject
    <2>4. aSnap.gen = app[aCur].gen
      BY Zenon, <1>1 DEF AppFits, AppSnapOK
    <2> QED
      BY Zenon, <1>1, <2>1, <2>2, <2>3, <2>4 DEF AppStores
  <1> QED
    BY Zenon, <1>1 DEF SetClowdAppConditions

\* The reconcile is over.
Ended ==
    /\ aPc' = "idle" /\ aCur' = "" /\ aSnap' = NoApp /\ aOld' = FreshAppStatus /\ aEnv' = NoEnv
    /\ aQueue' \in SUBSET Apps

\* The worker is at work on one of the apps.
LEMMA AtWork ==
    ASSUME TypeOK, aPc # "idle"
    PROVE  aCur \in Apps
  BY Zenon DEF TypeOK

LEMMA FailsPut ==
    ASSUME TypeOK, AppSnapOK, aPc # "idle", NEW err \in AppErrors, NEW again, AppFails(err, again)
    PROVE  AppStores(app[aCur].st.gen) /\ Ended
  <1>1. aCur \in Apps
    BY Zenon, AtWork
  <1>2. AppStatus("Failed", err) \in AppStatuses /\ AppStatus("Failed", err).gen = aSnap.st.gen
    BY Zenon, <1>1, AppStatusType
  <1>3. SetClowdAppConditions(AppStatus("Failed", err))
    BY Zenon DEF AppFails
  <1>4. UNCHANGED appObject \/ (AppFits /\ AppStores(aSnap.st.gen))
    BY Zenon, <1>2, <1>3, ConditionsPut
  <1>5. AppStores(app[aCur].st.gen)
    BY Zenon, <1>4 DEF AppStores, AppFits, AppSnapOK
  <1>6. Ended
    BY Zenon, <1>1 DEF AppFails, EndApp, Ended, TypeOK
  <1> QED
    BY Zenon, <1>5, <1>6

----------------------------------------------------------------------------
(* What a step of the worker does to generations and Deployments *)

AppRest ==
    /\ adep \in [Apps -> Deployment] /\ adCached \in [Apps -> Deployment]
    /\ adWatch \in [Apps -> Seq(Deployment)]
    /\ presentApps \in SUBSET Apps /\ managedApps \in SUBSET Apps

\* Only the Deployment of the app under reconcile is rebuilt, and only from the
\* specifications the worker holds.
Rebuilt ==
    /\ \A b \in Apps \ {aCur} : adep'[b].of = adep[b].of
    /\ \/ adep'[aCur].of = adep[aCur].of
       \/ aPc = "provide" /\ adep'[aCur].of.own = aSnap.gen /\ adep'[aCur].of.env = aEnv.gen

\* The resources of a are built from the same or newer specifications.
BuildMove(a) ==
    /\ \A b \in Apps : app'[b].gen = app[b].gen /\ app'[b].st.gen = app[b].st.gen
    /\ \A b \in Apps \ {a} : adep'[b].of = adep[b].of
    /\ adep[a].of.own <= adep'[a].of.own /\ adep'[a].of.own <= app[a].gen
    /\ adep[a].of.env <= adep'[a].of.env /\ adep'[a].of.env <= env.st.gen

\* The recorded generation of a follows what has been built.
PublishMove(a) ==
    /\ \A b \in Apps : app'[b].gen = app[b].gen /\ adep'[b].of = adep[b].of
    /\ \A b \in Apps \ {a} : app'[b].st.gen = app[b].st.gen
    /\ app[a].st.gen <= app'[a].st.gen /\ app'[a].st.gen <= adep[a].of.own

LEMMA AppNumbers ==
    ASSUME TypeOK
    PROVE  /\ \A b \in Apps : /\ app[b].gen \in Nat /\ app[b].st.gen \in Nat /\ app[b].rv \in Nat
                              /\ aCached[b].gen \in Nat
                              /\ adep[b].of.own \in Nat /\ adep[b].of.env \in Nat
           /\ aSnap.rv \in Nat /\ aSnap.gen \in Nat /\ aEnv.gen \in Nat
           /\ eCached.st.gen \in Nat /\ env.st.gen \in Nat /\ env.gen \in Nat
  <1>1. \A b \in Apps : app[b] \in AppObject /\ aCached[b] \in AppObject /\ adep[b] \in Deployment
    BY Zenon DEF TypeOK
  <1>2. \A b \in Apps : adep[b].of.own \in Nat /\ adep[b].of.env \in Nat
    BY Zenon, <1>1, BuildFields
  <1>3. /\ aSnap \in AppObject /\ aEnv \in EnvObject /\ eCached \in EnvObject /\ env \in EnvObject
    BY Zenon DEF TypeOK, EnvTypeOK
  <1> QED
    BY Zenon, <1>1, <1>2, <1>3, AppFields, EnvFields

\* What is built and known to have been built stays in order.
InOrder(b) ==
    /\ adep[b].of.own <= aCached[b].gen /\ app[b].st.gen <= adep[b].of.own
    /\ adep[b].of.env <= eCached.st.gen

LEMMA StoresEffectApp ==
    ASSUME AInv, aPc # "idle", NEW g, AppStores(g), UNCHANGED <<aCached, env, eCached>>, Rebuilt, AppRest',
           \/ g = app[aCur].st.gen
           \/ g = adep[aCur].of.own /\ adep'[aCur].of = adep[aCur].of
    PROVE  /\ app' \in [Apps -> AppObject] /\ aWatch' \in [Apps -> Seq(AppObject)]
           /\ \A b \in Apps : AppTrail(app'[b], aCached'[b], aWatch'[b])
           /\ \A b \in Apps : InOrder(b)'
           /\ BuildMove(aCur) \/ PublishMove(aCur)
  <1>1. aCur \in Apps
    BY Zenon, AtWork DEF AInv
  <1>2. /\ app \in [Apps -> AppObject] /\ aWatch \in [Apps -> Seq(AppObject)] /\ aCached \in [Apps -> AppObject]
        /\ \A b \in Apps : AppTrail(app[b], aCached[b], aWatch[b])
    BY Zenon DEF AInv, TypeOK, Trails
  <1>3. /\ app' \in [Apps -> AppObject] /\ aWatch' \in [Apps -> Seq(AppObject)]
        /\ \A b \in Apps : AppTrail(app'[b], aCached'[b], aWatch'[b])
        /\ \A b \in Apps : app'[b].gen = app[b].gen
        /\ \A b \in Apps \ {aCur} : app'[b].st.gen = app[b].st.gen
        /\ app'[aCur].st.gen \in {app[aCur].st.gen, g}
    <2>1. CASE UNCHANGED appObject
      BY Zenon, <1>2, <2>1 DEF appObject
    <2>2. CASE \E o \in AppObject : o.gen = app[aCur].gen /\ o.st.gen = g /\ PutApp(aCur, o)
      <3>1. PICK o \in AppObject : o.gen = app[aCur].gen /\ o.st.gen = g /\ PutApp(aCur, o)
        BY Zenon, <2>2
      <3>2. o.gen >= app[aCur].gen
        BY SMTT(30), <1>1, <1>2, <3>1, AppFields
      <3>3. /\ app' \in [Apps -> AppObject] /\ aWatch' \in [Apps -> Seq(AppObject)]
            /\ \A b \in Apps : AppTrail(app'[b], aCached'[b], aWatch'[b])
            /\ \A b \in Apps \ {aCur} : app'[b] = app[b]
            /\ app'[aCur].gen = o.gen /\ app'[aCur].st = o.st
        BY Zenon, <1>1, <1>2, <3>1, <3>2, PutAppEffect
      <3> QED
        BY Zenon, <3>1, <3>3
    <2> QED
      BY Zenon, <2>1, <2>2 DEF AppStores
  <1>4. \A b \in Apps : /\ app[b].gen \in Nat /\ app[b].st.gen \in Nat /\ aCached[b].gen \in Nat
                        /\ adep[b].of.own \in Nat /\ adep[b].of.env \in Nat
    BY Zenon, AppNumbers DEF AInv
  <1>5. aSnap.gen \in Nat /\ aEnv.gen \in Nat /\ eCached.st.gen \in Nat /\ env.st.gen \in Nat
    BY Zenon, AppNumbers DEF AInv
  <1>6. \A b \in Apps : adep'[b].of.own \in Nat /\ adep'[b].of.env \in Nat
    BY Zenon, BuildFields DEF AppRest
  <1>7. \A b \in Apps : InOrder(b) /\ aCached[b].gen <= app[b].gen
    BY Zenon, <1>2 DEF AInv, AppBuilds, InOrder, AppTrail
  <1>8. eCached.st.gen <= env.st.gen
    BY Zenon DEF AInv, Trails, StatusTrail
  <1>9. /\ adep[aCur].of.own <= adep'[aCur].of.own /\ adep'[aCur].of.own <= aCached[aCur].gen
        /\ adep[aCur].of.env <= adep'[aCur].of.env /\ adep'[aCur].of.env <= eCached.st.gen
    <2>1. CASE adep'[aCur].of = adep[aCur].of
      BY SMTT(30), <1>1, <1>4, <1>5, <1>7, <2>1 DEF InOrder
    <2>2. CASE aPc = "provide" /\ adep'[aCur].of.own = aSnap.gen /\ adep'[aCur].of.env = aEnv.gen
      BY Zenon, <1>1, <2>2 DEF AInv, AppBuilds
    <2> QED
      BY Zenon, <2>1, <2>2 DEF Rebuilt
  <1>10. \A b \in Apps : InOrder(b)'
    <2> SUFFICES ASSUME NEW b \in Apps PROVE InOrder(b)'
      BY Zenon
    <2>1. CASE b = aCur
      BY SMTT(30), <1>1, <1>3, <1>4, <1>6, <1>7, <1>9, <2>1 DEF InOrder
    <2>2. CASE b # aCur
      BY Zenon, <1>3, <1>7, <2>2 DEF InOrder, Rebuilt
    <2> QED
      BY Zenon, <2>1, <2>2
  <1>11. BuildMove(aCur) \/ PublishMove(aCur)
    <2>1. adep'[aCur].of.own <= app[aCur].gen /\ adep'[aCur].of.env <= env.st.gen
      BY SMTT(30), <1>1, <1>4, <1>5, <1>6, <1>7, <1>8, <1>9
    <2>2. CASE g = app[aCur].st.gen
      <3>1. \A b \in Apps : app'[b].gen = app[b].gen /\ app'[b].st.gen = app[b].st.gen
        BY Zenon, <1>3, <2>2
      <3> QED
        BY Zenon, <1>9, <2>1, <3>1 DEF BuildMove, Rebuilt
    <2>3. CASE g = adep[aCur].of.own /\ adep'[aCur].of = adep[aCur].of
      <3>1. \A b \in Apps : app'[b].gen = app[b].gen /\ adep'[b].of = adep[b].of
        BY Zenon, <1>3, <2>3 DEF Rebuilt
      <3>2. app[aCur].st.gen <= app'[aCur].st.gen /\ app'[aCur].st.gen <= adep[aCur].of.own
        BY SMTT(30), <1>1, <1>3, <1>4, <1>7, <2>3 DEF InOrder
      <3> QED
        BY Zenon, <1>3, <3>1, <3>2 DEF PublishMove
    <2> QED
      BY Zenon, <2>2, <2>3
  <1> QED
    BY Zenon, <1>3, <1>10, <1>11

----------------------------------------------------------------------------
(* Steps of the worker *)

\* What every step of a reconcile comes to: the invariant holds on, and the
\* generations of its app make one move.
AppMoves == AInv' /\ (BuildMove(aCur) \/ PublishMove(aCur))

\* A step after which the reconcile is over.
LEMMA AppEnds ==
    ASSUME AInv, EnvMoves, UNCHANGED <<aCached, env, eCached>>, aPc # "idle",
           NEW g, AppStores(g), Rebuilt, AppRest', Ended,
           \/ g = app[aCur].st.gen
           \/ g = adep[aCur].of.own /\ adep'[aCur].of = adep[aCur].of
    PROVE  AppMoves
  <1>1. /\ app' \in [Apps -> AppObject] /\ aWatch' \in [Apps -> Seq(AppObject)]
        /\ \A b \in Apps : AppTrail(app'[b], aCached'[b], aWatch'[b])
        /\ \A b \in Apps : InOrder(b)'
        /\ BuildMove(aCur) \/ PublishMove(aCur)
    BY Zenon, StoresEffectApp
  <1>2. IInv' /\ EnvTypeOK' /\ StatusTrail(env', eCached', eWatch')
    BY Zenon DEF EnvMoves, IInv
  <1>3. TypeOK'
    <2>1. aCached' \in [Apps -> AppObject]
      BY Zenon DEF AInv, TypeOK
    <2>2. aSnap' \in AppObject /\ aOld' \in AppStatuses /\ aEnv' \in EnvObject
      BY Zenon, FreshAppTypes, FreshTypes DEF Ended
    <2>3. aPc' = "idle" /\ aCur' = "" /\ aQueue' \in SUBSET Apps
      BY Zenon DEF Ended
    <2> QED
      BY Zenon, <1>1, <1>2, <2>1, <2>2, <2>3 DEF TypeOK, AppSteps, AppRest
  <1>4. Trails'
    BY Zenon, <1>1, <1>2 DEF Trails
  <1>5. AppSnapOK' /\ AppBuilds'
    BY Zenon, <1>1 DEF AppSnapOK, AppBuilds, InOrder, Ended
  <1> QED
    BY Zenon, <1>1, <1>2, <1>3, <1>4, <1>5 DEF AInv, AppMoves

\* A step after which the same reconcile goes on.
LEMMA AppStays ==
    ASSUME AInv, EnvMoves, UNCHANGED <<aCached, env, eCached>>, aPc # "idle",
           AppStores(app[aCur].st.gen), Rebuilt, AppRest',
           aPc' \in AppSteps \ {"idle"}, UNCHANGED <<aCur, aOld, aQueue>>,
           aSnap' \in AppObject, aSnap'.gen = aSnap.gen, aEnv' \in EnvObject, AppSnapOK',
           adep'[aCur].of.own <= aSnap.gen,
           aPc' \in {"count", "success"} => adep'[aCur].of.own = aSnap.gen,
           aPc' = "provide" => aEnv' = eCached /\ eCached.gen = eCached.st.gen
    PROVE  AppMoves
  <1>1. /\ app' \in [Apps -> AppObject] /\ aWatch' \in [Apps -> Seq(AppObject)]
        /\ \A b \in Apps : AppTrail(app'[b], aCached'[b], aWatch'[b])
        /\ \A b \in Apps : InOrder(b)'
        /\ BuildMove(aCur) \/ PublishMove(aCur)
    BY Zenon, StoresEffectApp
  <1>2. IInv' /\ EnvTypeOK' /\ StatusTrail(env', eCached', eWatch')
    BY Zenon DEF EnvMoves, IInv
  <1>3. TypeOK'
    <2>1. /\ aCached' \in [Apps -> AppObject] /\ aOld' \in AppStatuses /\ aQueue' \in SUBSET Apps
          /\ aCur' \in Apps \cup {""} /\ aCur' # ""
      BY Zenon DEF AInv, TypeOK
    <2>2. aPc' \in AppSteps /\ aPc' # "idle"
      BY Zenon
    <2> QED
      BY Zenon, <1>1, <1>2, <2>1, <2>2 DEF TypeOK, AppRest
  <1>4. Trails'
    BY Zenon, <1>1, <1>2 DEF Trails
  <1>5. AppBuilds'
    <2>1. aSnap'.gen <= aCached'[aCur'].gen
      BY Zenon DEF AInv, AppBuilds
    <2>2. aPc' = "provide" => aEnv'.gen <= eCached'.st.gen /\ \A b \in Apps : adep'[b].of.env <= aEnv'.gen
      <3>1. eCached.st.gen \in Nat
        BY Zenon, AppNumbers DEF AInv
      <3> QED
        BY SMTT(30), <1>1, <3>1 DEF InOrder
    <2> QED
      BY Zenon, <1>1, <2>1, <2>2 DEF AppBuilds, InOrder
  <1> QED
    BY Zenon, <1>1, <1>2, <1>3, <1>4, <1>5 DEF AInv, AppMoves

\* Nothing of the Deployments and the maps changes.
LEMMA RestKept ==
    ASSUME AInv, aPc # "idle", UNCHANGED adep, UNCHANGED adWatch, UNCHANGED adCached,
           presentApps' \in SUBSET Apps, managedApps' \in SUBSET Apps
    PROVE  AppRest' /\ Rebuilt /\ adep'[aCur].of = adep[aCur].of
  BY Zenon DEF AInv, TypeOK, AppRest, Rebuilt

\* The environment's side during a step of the ClowdApp controller.
LEMMA AppWorkerEnv ==
    ASSUME AInv, UNCHANGED <<envSide, eQueued, edits>>, faults' \in 0..MaxFaults
    PROVE  EnvMoves /\ UNCHANGED <<env, eCached>>
  <1>1. eQueued' \in BOOLEAN /\ edits' \in 0..MaxEdits
    BY Zenon DEF AInv, TypeOK, EnvTypeOK
  <1> QED
    BY Zenon, <1>1, EnvRests DEF AInv, Trails

LEMMA FaultsKept ==
    ASSUME AInv, UNCHANGED faults
    PROVE  faults' \in 0..MaxFaults
  BY Zenon DEF AInv, TypeOK, EnvTypeOK

LEMMA FinalizeAppMoves ==
    ASSUME AInv, finalizeApp, UNCHANGED <<envSide, eQueued, edits>>
    PROVE  AppMoves
  <1>1. EnvMoves /\ UNCHANGED <<env, eCached>>
    BY Zenon, FaultsKept, AppWorkerEnv DEF finalizeApp
  <1>2. TypeOK /\ AppSnapOK /\ aPc # "idle" /\ aCur \in Apps
    BY Zenon, AtWork DEF AInv, finalizeApp
  <1>3. AppRest' /\ Rebuilt /\ UNCHANGED aCached
    <2>1. presentApps' \in SUBSET Apps /\ managedApps' \in SUBSET Apps
      BY Zenon, <1>2 DEF finalizeApp, TypeOK
    <2> QED
      BY Zenon, <1>2, <2>1, RestKept DEF finalizeApp, appDeps
  <1>4. Ended
    BY Zenon, <1>2 DEF finalizeApp, EndApp, Ended, TypeOK
  <1>5. AppStores(app[aCur].st.gen)
    <2> DEFINE o == [aSnap EXCEPT !.fin = FALSE, !.there = FALSE]
    <2>1. o \in AppObject /\ o.gen = aSnap.gen /\ o.st = aSnap.st
      <3>1. o \in AppObject
        BY Zenon, <1>2, AppUpdate DEF TypeOK
      <3> QED
        BY Zenon, <1>2, <3>1 DEF TypeOK, AppObject
    <2>2. CASE AppFits
      <3>1. PutApp(aCur, o) /\ aSnap.gen = app[aCur].gen /\ aSnap.st.gen = app[aCur].st.gen
        BY Zenon, <1>2, <2>2 DEF finalizeApp, AppFits, AppSnapOK
      <3> QED
        BY Zenon, <2>1, <3>1 DEF AppStores
    <2> QED
      BY Zenon, <2>2 DEF finalizeApp, AppStores
  <1> QED
    BY Zenon, <1>1, <1>2, <1>3, <1>4, <1>5, AppEnds

LEMMA AddFinalizerMoves ==
    ASSUME AInv, addFinalizer, UNCHANGED <<envSide, eQueued, edits>>
    PROVE  AppMoves
  <1>1. EnvMoves /\ UNCHANGED <<env, eCached>>
    BY Zenon, FaultsKept, AppWorkerEnv DEF addFinalizer
  <1>2. TypeOK /\ AppSnapOK /\ aPc # "idle" /\ aCur \in Apps
    BY Zenon, AtWork DEF AInv, addFinalizer
  <1>3. AppRest' /\ Rebuilt /\ UNCHANGED aCached /\ adep'[aCur].of = adep[aCur].of
    BY Zenon, <1>2, RestKept DEF addFinalizer, appDeps, appMaps, TypeOK
  <1>4. CASE ~aSnap.fin /\ AppFits
    <2> DEFINE o == [aSnap EXCEPT !.fin = TRUE]
    <2>1. o \in AppObject /\ o.gen = aSnap.gen /\ o.st = aSnap.st
      <3>1. o \in AppObject
        BY Zenon, <1>2, AppUpdate DEF TypeOK
      <3> QED
        BY Zenon, <1>2, <3>1 DEF TypeOK, AppObject
    <2>2. /\ PutApp(aCur, o) /\ aSnap.gen = app[aCur].gen /\ aSnap.st.gen = app[aCur].st.gen
          /\ aPc' = "lock" /\ aSnap' = app'[aCur] /\ UNCHANGED <<aCur, aOld, aEnv, aQueue>>
      BY Zenon, <1>2, <1>4 DEF addFinalizer, AppFits, AppSnapOK
    <2>3. AppStores(app[aCur].st.gen)
      BY Zenon, <2>1, <2>2 DEF AppStores
    <2>4. app' \in [Apps -> AppObject] /\ app'[aCur].gen = o.gen /\ app'[aCur].st = o.st
      <3>1. /\ app \in [Apps -> AppObject] /\ aWatch \in [Apps -> Seq(AppObject)] /\ aCached \in [Apps -> AppObject]
            /\ \A b \in Apps : AppTrail(app[b], aCached[b], aWatch[b])
        BY Zenon DEF AInv, TypeOK, Trails
      <3> HIDE DEF o
      <3>2. o.gen >= app[aCur].gen
        BY SMTT(30), <1>2, <2>1, <2>2, <3>1, AppFields
      <3> QED
        BY Zenon, <1>2, <1>3, <2>1, <2>2, <3>1, <3>2, PutAppEffect
    <2> HIDE DEF o
    <2>5. aSnap' \in AppObject /\ aSnap'.gen = aSnap.gen /\ AppSnapOK'
      BY SMTT(30), <1>2, <2>1, <2>2, <2>4, AppFields DEF AppSnapOK
    <2>6. aEnv' \in EnvObject /\ aPc' \in AppSteps \ {"idle"} /\ aPc' \notin {"count", "success", "provide"}
      BY Zenon, <1>2, <2>2 DEF TypeOK, AppSteps
    <2>7. adep'[aCur].of.own <= aSnap.gen
      BY Zenon, <1>2, <1>3 DEF AInv, AppBuilds
    <2> QED
      BY Zenon, <1>1, <1>2, <1>3, <2>2, <2>3, <2>5, <2>6, <2>7, AppStays
  <1>5. CASE ~aSnap.fin /\ ~AppFits
    <2>1. Ended /\ AppStores(app[aCur].st.gen)
      BY Zenon, <1>2, <1>5 DEF addFinalizer, EndApp, Ended, TypeOK, AppStores
    <2> QED
      BY Zenon, <1>1, <1>2, <1>3, <2>1, AppEnds
  <1>6. CASE aSnap.fin
    <2>1. /\ UNCHANGED appObject /\ aPc' = "lock" /\ aSnap' = aSnap
          /\ UNCHANGED <<aCur, aOld, aEnv, aQueue>>
      BY Zenon, <1>6 DEF addFinalizer
    <2>2. AppStores(app[aCur].st.gen)
      BY Zenon, <2>1 DEF AppStores
    <2>3. aSnap' \in AppObject /\ aSnap'.gen = aSnap.gen /\ AppSnapOK' /\ aEnv' \in EnvObject
      BY Zenon, <1>2, <2>1 DEF AppSnapOK, appObject, TypeOK
    <2>4. aPc' \in AppSteps \ {"idle"} /\ aPc' \notin {"count", "success", "provide"}
      BY Zenon, <2>1 DEF AppSteps
    <2>5. adep'[aCur].of.own <= aSnap.gen
      BY Zenon, <1>2, <1>3 DEF AInv, AppBuilds
    <2> QED
      BY Zenon, <1>1, <1>2, <1>3, <2>1, <2>2, <2>3, <2>4, <2>5, AppStays
  <1> QED
    BY Zenon, <1>4, <1>5, <1>6

LEMMA LockMoves ==
    ASSUME AInv, isEnvLocked, UNCHANGED <<envSide, eQueued, edits>>
    PROVE  AppMoves
  <1>1. EnvMoves /\ UNCHANGED <<env, eCached>>
    BY Zenon, FaultsKept, AppWorkerEnv DEF isEnvLocked
  <1>2. TypeOK /\ AppSnapOK /\ aPc # "idle" /\ aCur \in Apps
    BY Zenon, AtWork DEF AInv, isEnvLocked
  <1>3. AppRest' /\ Rebuilt /\ UNCHANGED aCached /\ adep'[aCur].of = adep[aCur].of
    BY Zenon, <1>2, RestKept DEF isEnvLocked, appDeps, appMaps, TypeOK
  <1>4. UNCHANGED appObject /\ AppStores(app[aCur].st.gen)
    BY Zenon DEF isEnvLocked, AppStores
  <1>5. CASE cEnv = "env" \/ aSnap.disabled \/ nsView[AppNamespace] # "active"
    <2>1. Ended
      BY Zenon, <1>2, <1>5 DEF isEnvLocked, EndApp, Ended, TypeOK
    <2> QED
      BY Zenon, <1>1, <1>2, <1>3, <1>4, <2>1, AppEnds
  <1>6. CASE ~(cEnv = "env" \/ aSnap.disabled \/ nsView[AppNamespace] # "active")
    <2>1. aPc' = "env" /\ UNCHANGED <<aCur, aSnap, aOld, aEnv, aQueue>>
      BY Zenon, <1>6 DEF isEnvLocked
    <2>2. aSnap' \in AppObject /\ aSnap'.gen = aSnap.gen /\ AppSnapOK' /\ aEnv' \in EnvObject
      BY Zenon, <1>2, <1>4, <2>1 DEF AppSnapOK, appObject, TypeOK
    <2>3. aPc' \in AppSteps \ {"idle"} /\ aPc' \notin {"count", "success", "provide"}
      BY Zenon, <2>1 DEF AppSteps
    <2>4. adep'[aCur].of.own <= aSnap.gen
      BY Zenon, <1>2, <1>3 DEF AInv, AppBuilds
    <2> QED
      BY Zenon, <1>1, <1>2, <1>3, <1>4, <2>1, <2>2, <2>3, <2>4, AppStays
  <1> QED
    BY Zenon, <1>5, <1>6

\* An environment the worker goes on with has been reconciled.
LEMMA NoObstacle == EnvObstacle = "none" => eCached.gen = eCached.st.gen
  BY Zenon DEF EnvObstacle

LEMMA GetEnvMoves ==
    ASSUME AInv, getClowdEnv, UNCHANGED <<envSide, eQueued, edits>>
    PROVE  AppMoves
  <1>1. EnvMoves /\ UNCHANGED <<env, eCached>>
    BY Zenon, FaultsKept, AppWorkerEnv DEF getClowdEnv
  <1>2. TypeOK /\ AppSnapOK /\ aPc # "idle" /\ aCur \in Apps
    BY Zenon, AtWork DEF AInv, getClowdEnv
  <1>3. AppRest' /\ Rebuilt /\ UNCHANGED aCached /\ adep'[aCur].of = adep[aCur].of
    BY Zenon, <1>2, RestKept DEF getClowdEnv, appDeps, appMaps, TypeOK
  <1>4. CASE EnvObstacle = "none"
    <2>1. aPc' = "provide" /\ aEnv' = eCached /\ UNCHANGED <<appObject, aCur, aSnap, aOld, aQueue>>
      BY Zenon, <1>4 DEF getClowdEnv
    <2>2. AppStores(app[aCur].st.gen)
      BY Zenon, <2>1 DEF AppStores
    <2>3. aSnap' \in AppObject /\ aSnap'.gen = aSnap.gen /\ AppSnapOK' /\ aEnv' \in EnvObject
      BY Zenon, <1>2, <2>1 DEF AppSnapOK, appObject, TypeOK, EnvTypeOK
    <2>4. aPc' \in AppSteps \ {"idle"} /\ aPc' \notin {"count", "success"}
      BY Zenon, <2>1 DEF AppSteps
    <2>5. adep'[aCur].of.own <= aSnap.gen
      BY Zenon, <1>2, <1>3 DEF AInv, AppBuilds
    <2>6. eCached.gen = eCached.st.gen
      BY Zenon, <1>4, NoObstacle
    <2> QED
      BY Zenon, <1>1, <1>2, <1>3, <2>1, <2>2, <2>3, <2>4, <2>5, <2>6, AppStays
  <1>5. CASE EnvObstacle \in {"environment", "notready"}
    <2>1. AppFails(EnvObstacle, EnvObstacle = "notready")
      BY Zenon, <1>5 DEF getClowdEnv
    <2>2. EnvObstacle \in AppErrors
      BY Zenon, <1>5 DEF AppErrors
    <2>3. AppStores(app[aCur].st.gen) /\ Ended
      BY Zenon, <1>2, <2>1, <2>2, FailsPut
    <2> QED
      BY Zenon, <1>1, <1>2, <1>3, <2>3, AppEnds
  <1>6. CASE EnvObstacle \notin {"none", "environment", "notready"}
    <2>1. EndApp(EnvObstacle # "deleted") /\ UNCHANGED appObject
      BY Zenon, <1>6 DEF getClowdEnv
    <2>2. Ended /\ AppStores(app[aCur].st.gen)
      BY Zenon, <1>2, <2>1 DEF EndApp, Ended, TypeOK, AppStores
    <2> QED
      BY Zenon, <1>1, <1>2, <1>3, <2>2, AppEnds
  <1> QED
    BY Zenon, <1>4, <1>5, <1>6

LEMMA RunAppProvidersMoves ==
    ASSUME AInv, runAppProviders, UNCHANGED <<envSide, eQueued, edits>>
    PROVE  AppMoves
  <1> DEFINE d == adep[aCur]
             b == [own |-> aSnap.gen, env |-> aEnv.gen]
             sent == Applied(d, b)
             Sent == /\ adep' = [adep EXCEPT ![aCur] = sent]
                     /\ adWatch' = IF sent = d THEN adWatch ELSE [adWatch EXCEPT ![aCur] = Append(@, sent)]
             Failed == \/ Fault("appapply") /\ AppFails("apply", TRUE)
                       \/ Fault("appprovider") /\ AppFails("providers", TRUE)
             Goes == aPc' = "count" /\ UNCHANGED <<appObject, aCur, aSnap, aOld, aEnv, aQueue, faults>>
  <1>1. TypeOK /\ AppSnapOK /\ aPc = "provide" /\ aCur \in Apps
    BY Zenon, AtWork DEF AInv, runAppProviders
  <1>2. /\ (Sent /\ (Goes \/ Failed)) \/ (Failed /\ UNCHANGED <<adep, adWatch>>)
        /\ UNCHANGED <<aCached, adCached, appMaps>>
    BY Zenon DEF runAppProviders
  <1>3. b \in Build /\ b.own = aSnap.gen /\ b.env = aEnv.gen
    BY Zenon, AppNumbers DEF AInv, Build
  <1>4. d \in Deployment
    BY Zenon, <1>1 DEF TypeOK
  <1>5. sent \in Deployment /\ sent.of = b
    BY Zenon, <1>3, <1>4, AppliedType
  <1> HIDE DEF sent, b
  <1>6. presentApps' \in SUBSET Apps /\ managedApps' \in SUBSET Apps /\ adCached' \in [Apps -> Deployment]
    BY Zenon, <1>1, <1>2 DEF appMaps, TypeOK
  <1>7. ASSUME Sent
        PROVE  AppRest' /\ Rebuilt /\ adep'[aCur].of.own = aSnap.gen
    <2>1. adep \in [Apps -> Deployment] /\ adWatch \in [Apps -> Seq(Deployment)]
      BY Zenon, <1>1 DEF TypeOK
    <2>2. /\ adep' \in [Apps -> Deployment] /\ adep'[aCur] = sent
          /\ \A c \in Apps \ {aCur} : adep'[c] = adep[c]
      BY Zenon, <1>1, <1>5, <1>7, <2>1
    <2>3. adWatch' \in [Apps -> Seq(Deployment)]
      <3>1. Append(adWatch[aCur], sent) \in Seq(Deployment)
        BY <1>1, <1>5, <2>1
      <3> QED
        BY Zenon, <1>1, <1>7, <2>1, <3>1
    <2> QED
      BY Zenon, <1>1, <1>3, <1>5, <1>6, <2>2, <2>3 DEF AppRest, Rebuilt
  <1>8. ASSUME Failed
        PROVE  faults' \in 0..MaxFaults /\ AppStores(app[aCur].st.gen) /\ Ended
    <2>1. faults' \in 0..MaxFaults
      BY Zenon, <1>1, <1>8, FaultCounts DEF TypeOK
    <2>2. "apply" \in AppErrors /\ "providers" \in AppErrors
      BY Zenon DEF AppErrors
    <2>3. AppFails("apply", TRUE) \/ AppFails("providers", TRUE)
      BY Zenon, <1>8
    <2>4. AppStores(app[aCur].st.gen) /\ Ended
      BY Zenon, <1>1, <2>2, <2>3, FailsPut
    <2> QED
      BY Zenon, <2>1, <2>4
  <1>9. CASE Sent /\ Goes
    <2>1. EnvMoves /\ UNCHANGED <<env, eCached>>
      BY Zenon, <1>9, FaultsKept, AppWorkerEnv
    <2>2. AppRest' /\ Rebuilt /\ adep'[aCur].of.own = aSnap.gen
      BY Zenon, <1>7, <1>9
    <2>3. AppStores(app[aCur].st.gen)
      BY Zenon, <1>9 DEF AppStores
    <2>4. aSnap' \in AppObject /\ aSnap'.gen = aSnap.gen /\ AppSnapOK' /\ aEnv' \in EnvObject
      BY Zenon, <1>1, <1>9 DEF AppSnapOK, appObject, TypeOK
    <2>5. aPc' \in AppSteps \ {"idle"} /\ aPc' # "provide"
      BY Zenon, <1>9 DEF AppSteps
    <2>6. aSnap.gen \in Nat
      BY Zenon, AppNumbers DEF AInv
    <2> QED
      BY SMTT(30), <1>1, <1>2, <1>9, <2>1, <2>2, <2>3, <2>4, <2>5, <2>6, AppStays
  <1>10. CASE Sent /\ Failed
    <2>1. EnvMoves /\ UNCHANGED <<env, eCached>>
      BY Zenon, <1>8, <1>10, AppWorkerEnv
    <2> QED
      BY Zenon, <1>1, <1>2, <1>7, <1>8, <1>10, <2>1, AppEnds
  <1>11. CASE Failed /\ UNCHANGED <<adep, adWatch>>
    <2>1. EnvMoves /\ UNCHANGED <<env, eCached>>
      BY Zenon, <1>8, <1>11, AppWorkerEnv
    <2>2. AppRest' /\ Rebuilt
      BY Zenon, <1>1, <1>2, <1>6, <1>11, RestKept
    <2> QED
      BY Zenon, <1>1, <1>2, <1>8, <1>11, <2>1, <2>2, AppEnds
  <1> QED
    BY Zenon, <1>2, <1>9, <1>10, <1>11

LEMMA ResourceStatusMoves ==
    ASSUME AInv, setAppResourceStatus, UNCHANGED <<envSide, eQueued, edits>>
    PROVE  AppMoves
  <1> DEFINE c == countDeployments(adCached[aCur])
  <1>1. TypeOK /\ AppSnapOK /\ aPc = "count" /\ aCur \in Apps
    BY Zenon, AtWork DEF AInv, setAppResourceStatus
  <1>2. faults' \in 0..MaxFaults
    BY Zenon, <1>1, FaultsKept, FaultCounts DEF setAppResourceStatus, TypeOK
  <1>3. EnvMoves /\ UNCHANGED <<env, eCached>>
    BY Zenon, <1>2, AppWorkerEnv
  <1>4. AppRest' /\ Rebuilt /\ UNCHANGED aCached /\ adep'[aCur].of = adep[aCur].of
    BY Zenon, <1>1, RestKept DEF setAppResourceStatus, appDeps, appMaps, TypeOK
  <1>5. UNCHANGED appObject /\ AppStores(app[aCur].st.gen)
    BY Zenon DEF setAppResourceStatus, AppStores
  <1>6. CASE aSnap' = [aSnap EXCEPT !.st.count = c] /\ aPc' = "success" /\ UNCHANGED <<aCur, aOld, aEnv, aQueue>>
    <2>1. c \in Nat \X Nat
      BY Zenon, <1>1, CountType DEF TypeOK
    <2> HIDE DEF c
    <2>2. /\ aSnap' \in AppObject /\ aSnap'.rv = aSnap.rv /\ aSnap'.gen = aSnap.gen
          /\ aSnap'.st.gen = aSnap.st.gen
      BY Zenon, <1>1, <1>6, <2>1, AppCountUpdate DEF TypeOK
    <2>3. AppSnapOK' /\ aEnv' \in EnvObject
      BY Zenon, <1>1, <1>5, <1>6, <2>2 DEF AppSnapOK, appObject, TypeOK
    <2>4. aPc' \in AppSteps \ {"idle"} /\ aPc' # "provide"
      BY Zenon, <1>6 DEF AppSteps
    <2>5. adep'[aCur].of.own = aSnap.gen /\ adep'[aCur].of.own <= aSnap.gen
      BY Zenon, <1>1, <1>4 DEF AInv, AppBuilds
    <2> QED
      BY Zenon, <1>1, <1>3, <1>4, <1>5, <1>6, <2>2, <2>3, <2>4, <2>5, AppStays
  <1>7. CASE EndApp(TRUE)
    <2>1. Ended
      BY Zenon, <1>1, <1>7 DEF EndApp, Ended, TypeOK
    <2> QED
      BY Zenon, <1>1, <1>3, <1>4, <1>5, <2>1, AppEnds
  <1> QED
    BY Zenon, <1>6, <1>7 DEF setAppResourceStatus

LEMMA SuccessMoves ==
    ASSUME AInv, setReconciliationSuccessful, UNCHANGED <<envSide, eQueued, edits>>
    PROVE  AppMoves
  <1> DEFINE s == AppStatus("Successful", "none")
             new == [s EXCEPT !.gen = aSnap.gen]
  <1>1. EnvMoves /\ UNCHANGED <<env, eCached>>
    BY Zenon, FaultsKept, AppWorkerEnv DEF setReconciliationSuccessful
  <1>2. TypeOK /\ AppSnapOK /\ aPc = "success" /\ aCur \in Apps
    BY Zenon, AtWork DEF AInv, setReconciliationSuccessful
  <1>3. /\ SetClowdAppConditions(new) /\ EndApp(AppConflict(new))
        /\ managedApps' = IF AppConflict(new) THEN managedApps ELSE managedApps \cup {aCur}
        /\ UNCHANGED <<aCached, appDeps, presentApps>>
    BY Zenon DEF setReconciliationSuccessful
  <1>4. s \in AppStatuses
    <2>1. "none" \in AppErrors
      BY Zenon DEF AppErrors
    <2> QED
      BY Zenon, <1>2, <2>1, AppStatusType
  <1>5. new \in AppStatuses /\ new.gen = aSnap.gen
    <2>1. aSnap.gen \in Nat
      BY Zenon, AppNumbers DEF AInv
    <2> HIDE DEF s
    <2> QED
      BY Zenon, <1>4, <2>1 DEF AppStatuses
  <1> HIDE DEF s, new
  <1>6. AppRest' /\ Rebuilt /\ UNCHANGED aCached /\ adep'[aCur].of = adep[aCur].of
    <2>1. presentApps' \in SUBSET Apps /\ managedApps' \in SUBSET Apps
      BY Zenon, <1>2, <1>3 DEF TypeOK
    <2> QED
      BY Zenon, <1>2, <1>3, <2>1, RestKept DEF appDeps
  <1>7. Ended
    BY Zenon, <1>2, <1>3 DEF EndApp, Ended, TypeOK
  <1>8. adep[aCur].of.own = aSnap.gen
    BY Zenon, <1>2 DEF AInv, AppBuilds
  <1>9. AppStores(adep[aCur].of.own)
    <2>1. UNCHANGED appObject \/ AppStores(new.gen)
      BY Zenon, <1>2, <1>3, <1>5, ConditionsPut
    <2> QED
      BY Zenon, <1>5, <1>8, <2>1 DEF AppStores
  <1> QED
    BY Zenon, <1>1, <1>2, <1>6, <1>7, <1>9, AppEnds

\* Everything but the place in the reconcile stays, or the worker takes a
\* ClowdApp as its informer has it.
LEMMA AppBeginMoves ==
    ASSUME AInv, NEW a \in Apps, AppBegin(a), UNCHANGED <<envSide, eQueued, edits>>
    PROVE  AInv' /\ UNCHANGED <<env, app, adep>>
  <1>1. EnvMoves /\ UNCHANGED <<env, eCached>>
    BY Zenon, FaultsKept, AppWorkerEnv DEF AppBegin
  <1>2. UNCHANGED <<app, aWatch, aCached, adep, adWatch, adCached>> /\ aPc = "idle"
    BY Zenon DEF AppBegin, appObject, appDeps
  <1>3. IInv' /\ EnvTypeOK' /\ StatusTrail(env', eCached', eWatch')
    BY Zenon, <1>1 DEF EnvMoves, IInv
  <1>4. Trails'
    BY Zenon, <1>2, <1>3 DEF AInv, Trails
  <1>5. CASE aCached[a].there
    <2>1. /\ aPc' = "finalizer" /\ aCur' = a /\ aSnap' = aCached[a] /\ aOld' = aCached[a].st
          /\ presentApps' = presentApps \cup {a} /\ managedApps' = managedApps \ {a}
          /\ UNCHANGED aEnv /\ aQueue' = aQueue \ {a}
      BY Zenon, <1>5 DEF AppBegin
    <2>2. TypeOK'
      <3>1. aSnap' \in AppObject /\ aOld' \in AppStatuses
        BY Zenon, <2>1, AppFields DEF AInv, TypeOK
      <3>2. aCur' \in Apps /\ aCur' # ""
        BY Zenon, <2>1, AppAssumption
      <3> QED
        BY Zenon, <1>2, <1>3, <2>1, <3>1, <3>2 DEF AInv, TypeOK, AppSteps
    <2>3. AppSnapOK'
      <3>1. AppTrail(app[a], aCached[a], aWatch[a])
        BY Zenon DEF AInv, Trails
      <3> QED
        BY Zenon, <1>2, <2>1, <3>1 DEF AppSnapOK, AppTrail
    <2>4. AppBuilds'
      <3>1. aCached[a].gen \in Nat
        BY Zenon, AppNumbers DEF AInv
      <3> QED
        BY SMTT(30), <1>1, <1>2, <2>1, <3>1 DEF AInv, AppBuilds
    <2> QED
      BY Zenon, <1>1, <1>2, <1>3, <1>4, <2>2, <2>3, <2>4 DEF AInv
  <1>6. CASE ~aCached[a].there
    <2>1. UNCHANGED <<aPc, aCur, aSnap, aOld, aEnv, presentApps, managedApps>> /\ aQueue' = aQueue \ {a}
      BY Zenon, <1>6 DEF AppBegin, appRun, appMaps
    <2>2. TypeOK' /\ AppSnapOK' /\ AppBuilds'
      BY Zenon, <1>1, <1>2, <1>3, <2>1 DEF AInv, TypeOK, AppSnapOK, AppBuilds
    <2> QED
      BY Zenon, <1>1, <1>2, <1>3, <1>4, <2>2 DEF AInv
  <1> QED
    BY Zenon, <1>5, <1>6

\* Every step of the worker.
LEMMA AppWorkerMoves ==
    ASSUME AInv, AppWorker, UNCHANGED <<envSide, eQueued, edits>>
    PROVE  AInv' /\ UNCHANGED env /\ (UNCHANGED <<app, adep>> \/ \E a \in Apps : BuildMove(a) \/ PublishMove(a))
  <1>1. CASE \E a \in Apps : AppBegin(a)
    BY Zenon, <1>1, AppBeginMoves
  <1>2. CASE \/ finalizeApp \/ addFinalizer \/ isEnvLocked \/ getClowdEnv \/ runAppProviders
             \/ setAppResourceStatus \/ setReconciliationSuccessful
    <2>1. AppMoves
      BY Zenon, <1>2, FinalizeAppMoves, AddFinalizerMoves, LockMoves, GetEnvMoves, RunAppProvidersMoves,
         ResourceStatusMoves, SuccessMoves
    <2>2. aPc # "idle"
      BY Zenon, <1>2 DEF finalizeApp, addFinalizer, isEnvLocked, getClowdEnv, runAppProviders,
                  setAppResourceStatus, setReconciliationSuccessful
    <2>3. aCur \in Apps
      BY Zenon, <2>2, AtWork DEF AInv
    <2>4. UNCHANGED env
      BY Zenon DEF envSide
    <2> QED
      BY Zenon, <2>1, <2>3, <2>4 DEF AppMoves
  <1> QED
    BY Zenon, <1>1, <1>2 DEF AppWorker

----------------------------------------------------------------------------
(* Steps beside the worker *)

\* No generation of an app moves.
AppsRest ==
    \A b \in Apps : app'[b].gen = app[b].gen /\ app'[b].st.gen = app[b].st.gen /\ adep'[b].of = adep[b].of

\* The user edits a.
EditMove(a) ==
    /\ app'[a].gen = app[a].gen + 1
    /\ \A b \in Apps \ {a} : app'[b].gen = app[b].gen
    /\ \A b \in Apps : app'[b].st.gen = app[b].st.gen /\ adep'[b].of = adep[b].of

\* A completed rollout is of the same build.
LEMMA RolledType ==
    ASSUME NEW d \in Deployment
    PROVE  /\ [d EXCEPT !.obs = d.gen, !.pod = 3, !.old = 0] \in Deployment
           /\ [d EXCEPT !.obs = d.gen, !.pod = 3, !.old = 0].of = d.of
  <1>1. d.gen \in Nat /\ 3 \in 0..3 /\ 0 \in 0..1
    BY DEF Deployment
  <1> QED
    BY Zenon, <1>1 DEF Deployment

\* A step that leaves the worker where it is and builds nothing.
LEMMA AppAside ==
    ASSUME AInv, EnvMoves, UNCHANGED <<appRun>>, AppSnapOK',
           app' \in [Apps -> AppObject], aCached' \in [Apps -> AppObject],
           aWatch' \in [Apps -> Seq(AppObject)], aQueue' \in SUBSET Apps, AppRest',
           \A b \in Apps : /\ AppTrail(app'[b], aCached'[b], aWatch'[b])
                           /\ aCached[b].gen <= aCached'[b].gen
                           /\ app'[b].st.gen = app[b].st.gen /\ adep'[b].of = adep[b].of
    PROVE  AInv'
  <1>1. IInv' /\ EnvTypeOK' /\ StatusTrail(env', eCached', eWatch') /\ eCached.st.gen <= eCached'.st.gen
    BY Zenon DEF EnvMoves, IInv
  <1>2. UNCHANGED <<aPc, aCur, aSnap, aOld, aEnv>>
    BY Zenon DEF appRun
  <1>3. TypeOK'
    BY Zenon, <1>1, <1>2 DEF AInv, TypeOK, AppRest
  <1>4. Trails'
    BY Zenon, <1>1 DEF Trails
  <1>5. /\ \A b \in Apps : /\ aCached[b].gen \in Nat /\ aCached'[b].gen \in Nat
                           /\ adep[b].of.own \in Nat /\ adep[b].of.env \in Nat
        /\ aSnap.gen \in Nat /\ aEnv.gen \in Nat /\ eCached.st.gen \in Nat /\ eCached'.st.gen \in Nat
    <2>1. \A b \in Apps : aCached'[b].gen \in Nat
      BY Zenon, AppFields
    <2>2. eCached'.st.gen \in Nat
      BY Zenon, <1>1, EnvFields DEF EnvTypeOK
    <2> QED
      BY Zenon, <2>1, <2>2, AppNumbers DEF AInv
  <1>6. AppBuilds'
    <2>1. ASSUME NEW b \in Apps PROVE InOrder(b)'
      <3>1. InOrder(b)
        BY Zenon DEF AInv, AppBuilds, InOrder
      <3>2. app'[b].st.gen = app[b].st.gen /\ adep'[b].of = adep[b].of /\ aCached[b].gen <= aCached'[b].gen
        BY Zenon
      <3> QED
        BY SMTT(30), <1>1, <1>5, <3>1, <3>2 DEF InOrder
    <2>2. aPc' # "idle" => adep'[aCur'].of.own <= aSnap'.gen /\ aSnap'.gen <= aCached'[aCur'].gen
      <3> SUFFICES ASSUME aPc # "idle"
                   PROVE  adep'[aCur].of.own <= aSnap.gen /\ aSnap.gen <= aCached'[aCur].gen
        BY Zenon, <1>2
      <3>1. aCur \in Apps
        BY Zenon, AtWork DEF AInv
      <3>2. adep[aCur].of.own <= aSnap.gen /\ aSnap.gen <= aCached[aCur].gen
        BY Zenon DEF AInv, AppBuilds
      <3> QED
        BY SMTT(30), <1>5, <3>1, <3>2
    <2>3. aPc' \in {"count", "success"} => adep'[aCur'].of.own = aSnap'.gen
      <3> SUFFICES ASSUME aPc \in {"count", "success"}
                   PROVE  adep'[aCur].of.own = aSnap.gen
        BY Zenon, <1>2
      <3>1. aCur \in Apps
        BY Zenon, AtWork DEF AInv
      <3> QED
        BY Zenon, <3>1 DEF AInv, AppBuilds
    <2>4. aPc' = "provide" => aEnv'.gen <= eCached'.st.gen /\ \A b \in Apps : adep'[b].of.env <= aEnv'.gen
      BY SMTT(30), <1>1, <1>2, <1>5 DEF AInv, AppBuilds
    <2> QED
      BY Zenon, <2>1, <2>2, <2>3, <2>4 DEF AppBuilds, InOrder
  <1> QED
    BY Zenon, <1>1, <1>3, <1>4, <1>6 DEF AInv

\* The ClowdApp controller does nothing, but for keys in its queue.
LEMMA AppsUntouched ==
    ASSUME AInv, EnvMoves, UNCHANGED <<appObject, aCached, appRun, appDeps, appMaps>>, aQueue' \in SUBSET Apps
    PROVE  AInv' /\ AppsRest
  <1>1. UNCHANGED <<app, aWatch, aCached, adep, adWatch, adCached, presentApps, managedApps>>
    BY Zenon DEF appObject, appDeps, appMaps
  <1>2. AppRest' /\ aCached' \in [Apps -> AppObject] /\ app' \in [Apps -> AppObject] /\ aWatch' \in [Apps -> Seq(AppObject)]
    BY Zenon, <1>1 DEF AInv, TypeOK, AppRest
  <1>3. AppSnapOK'
    BY Zenon, <1>1 DEF AInv, AppSnapOK, appRun
  <1>4. \A b \in Apps : AppTrail(app'[b], aCached'[b], aWatch'[b]) /\ aCached[b].gen <= aCached'[b].gen
    BY SMTT(30), <1>1, AppNumbers DEF AInv, Trails
  <1>5. AppsRest
    BY Zenon, <1>1 DEF AppsRest
  <1> QED
    BY Zenon, <1>2, <1>3, <1>4, <1>5, AppAside DEF AppsRest

LEMMA DeliverAppMoves ==
    ASSUME AInv, NEW a \in Apps, DeliverApp(a)
    PROVE  AInv' /\ UNCHANGED env /\ AppsRest
  <1>1. /\ UNCHANGED <<app, appRun, adep, adWatch, adCached, presentApps, managedApps>>
        /\ aWatch[a] # <<>> /\ aCached' = [aCached EXCEPT ![a] = Head(aWatch[a])]
        /\ aWatch' = [aWatch EXCEPT ![a] = Tail(aWatch[a])] /\ aQueue' = aQueue \cup {a}
    BY Zenon DEF DeliverApp, appDeps, appMaps
  <1>2. EnvMoves /\ UNCHANGED <<env, eCached>>
    <2>1. eQueued' \in BOOLEAN
      BY Zenon DEF DeliverApp, AInv, TypeOK, EnvTypeOK
    <2>2. edits' \in 0..MaxEdits /\ faults' \in 0..MaxFaults
      BY Zenon DEF DeliverApp, AInv, TypeOK, EnvTypeOK
    <2>3. UNCHANGED <<envSide>>
      BY Zenon DEF DeliverApp
    <2> QED
      BY Zenon, <2>1, <2>2, <2>3, EnvRests DEF AInv, Trails
  <1>3. /\ app \in [Apps -> AppObject] /\ aCached \in [Apps -> AppObject] /\ aWatch \in [Apps -> Seq(AppObject)]
        /\ \A b \in Apps : AppTrail(app[b], aCached[b], aWatch[b])
    BY Zenon DEF AInv, TypeOK, Trails
  <1>4. /\ Head(aWatch[a]) \in AppObject /\ Tail(aWatch[a]) \in Seq(AppObject)
        /\ AppTrail(app[a], Head(aWatch[a]), Tail(aWatch[a])) /\ aCached[a].gen <= Head(aWatch[a]).gen
    BY Zenon, <1>1, <1>3, AppTrailMoves
  <1>5. aCached' \in [Apps -> AppObject] /\ aWatch' \in [Apps -> Seq(AppObject)]
    BY Zenon, <1>1, <1>3, <1>4
  <1>6. ASSUME NEW b \in Apps
        PROVE  AppTrail(app'[b], aCached'[b], aWatch'[b]) /\ aCached[b].gen <= aCached'[b].gen
    <2>1. CASE b = a
      BY Zenon, <1>1, <1>3, <1>4, <2>1
    <2>2. CASE b # a
      <3>1. aCached'[b] = aCached[b] /\ aWatch'[b] = aWatch[b] /\ aCached[b].gen \in Nat
        BY Zenon, <1>1, <1>3, <2>2, AppFields
      <3> QED
        BY SMTT(30), <1>1, <1>3, <3>1
    <2> QED
      BY Zenon, <2>1, <2>2
  <1>7. AppRest' /\ app' \in [Apps -> AppObject] /\ aQueue' \in SUBSET Apps
    BY Zenon, <1>1 DEF AInv, TypeOK, AppRest
  <1>8. AppSnapOK'
    BY Zenon, <1>1 DEF AInv, AppSnapOK, appRun
  <1>9. AppsRest
    BY Zenon, <1>1 DEF AppsRest
  <1> QED
    BY Zenon, <1>1, <1>2, <1>5, <1>6, <1>7, <1>8, <1>9, AppAside DEF AppsRest

LEMMA DeliverAppDeploymentMoves ==
    ASSUME AInv, NEW a \in Apps, DeliverAppDeployment(a)
    PROVE  AInv' /\ UNCHANGED env /\ AppsRest
  <1>1. /\ UNCHANGED <<app, aWatch, aCached, appRun, adep, presentApps, managedApps>>
        /\ adWatch[a] # <<>> /\ adCached' = [adCached EXCEPT ![a] = Head(adWatch[a])]
        /\ adWatch' = [adWatch EXCEPT ![a] = Tail(adWatch[a])]
        /\ aQueue' \in SUBSET Apps
    BY Zenon DEF DeliverAppDeployment, appObject, appMaps, AInv, TypeOK
  <1>2. EnvMoves /\ UNCHANGED <<env, eCached>>
    BY Zenon, FaultsKept, AppWorkerEnv DEF DeliverAppDeployment
  <1>3. adCached \in [Apps -> Deployment] /\ adWatch \in [Apps -> Seq(Deployment)]
    BY Zenon DEF AInv, TypeOK
  <1>4. Head(adWatch[a]) \in Deployment /\ Tail(adWatch[a]) \in Seq(Deployment)
    <2>1. adWatch[a] \in Seq(Deployment)
      BY Zenon, <1>3
    <2> QED
      BY SMTT(30), <1>1, <2>1
  <1>5. AppRest'
    <2>1. adCached' \in [Apps -> Deployment] /\ adWatch' \in [Apps -> Seq(Deployment)]
      BY Zenon, <1>1, <1>3, <1>4
    <2> QED
      BY Zenon, <1>1, <2>1 DEF AInv, TypeOK, AppRest
  <1>6. /\ aCached' \in [Apps -> AppObject] /\ app' \in [Apps -> AppObject]
        /\ aWatch' \in [Apps -> Seq(AppObject)]
    BY Zenon, <1>1 DEF AInv, TypeOK
  <1>7. AppSnapOK'
    BY Zenon, <1>1 DEF AInv, AppSnapOK, appRun
  <1>8. \A b \in Apps : AppTrail(app'[b], aCached'[b], aWatch'[b]) /\ aCached[b].gen <= aCached'[b].gen
    BY SMTT(30), <1>1, AppNumbers DEF AInv, Trails
  <1>9. AppsRest
    BY Zenon, <1>1 DEF AppsRest
  <1> QED
    BY Zenon, <1>1, <1>2, <1>5, <1>6, <1>7, <1>8, <1>9, AppAside DEF AppsRest

LEMMA SyncAppDeploymentMoves ==
    ASSUME AInv, NEW a \in Apps, SyncAppDeployment(a)
    PROVE  AInv' /\ UNCHANGED env /\ AppsRest
  <1> DEFINE d == [adep[a] EXCEPT !.obs = adep[a].gen, !.pod = 3, !.old = 0]
  <1>1. /\ UNCHANGED <<app, aWatch, aCached, aQueue, appRun, adCached, presentApps, managedApps>>
        /\ adep' = [adep EXCEPT ![a] = d] /\ adWatch' = [adWatch EXCEPT ![a] = Append(adWatch[a], d)]
        /\ UNCHANGED <<envSide, eQueued, edits, faults>>
    BY Zenon DEF SyncAppDeployment, appObject, appMaps, envVars, envSide
  <1>2. EnvMoves /\ UNCHANGED <<env, eCached>>
    BY Zenon, <1>1, FaultsKept, AppWorkerEnv
  <1>3. adep \in [Apps -> Deployment] /\ adWatch \in [Apps -> Seq(Deployment)]
    BY Zenon DEF AInv, TypeOK
  <1>4. d \in Deployment /\ d.of = adep[a].of
    <2>1. adep[a] \in Deployment
      BY Zenon, <1>3
    <2> QED
      BY Zenon, <2>1, RolledType
  <1> HIDE DEF d
  <1>5. AppRest'
    <2>1. Append(adWatch[a], d) \in Seq(Deployment)
      BY <1>3, <1>4
    <2>2. adep' \in [Apps -> Deployment] /\ adWatch' \in [Apps -> Seq(Deployment)]
      BY Zenon, <1>1, <1>3, <1>4, <2>1
    <2> QED
      BY Zenon, <1>1, <2>2 DEF AInv, TypeOK, AppRest
  <1>6. /\ aCached' \in [Apps -> AppObject] /\ app' \in [Apps -> AppObject]
        /\ aWatch' \in [Apps -> Seq(AppObject)] /\ aQueue' \in SUBSET Apps
    BY Zenon, <1>1 DEF AInv, TypeOK
  <1>7. AppSnapOK'
    BY Zenon, <1>1 DEF AInv, AppSnapOK, appRun
  <1>8. \A b \in Apps : AppTrail(app'[b], aCached'[b], aWatch'[b]) /\ aCached[b].gen <= aCached'[b].gen
    BY SMTT(30), <1>1, AppNumbers DEF AInv, Trails
  <1>9. AppsRest
    BY Zenon, <1>1, <1>3, <1>4 DEF AppsRest
  <1> QED
    BY Zenon, <1>1, <1>2, <1>5, <1>6, <1>7, <1>8, <1>9, AppAside DEF AppsRest

LEMMA AppEditCounts ==
    ASSUME AInv, NEW kind, UserAppEdit(kind)
    PROVE  edits' \in 0..MaxEdits
  <1>1. edits \in 0..MaxEdits /\ MaxEdits \in Nat
    BY Zenon, EnvBoundsAssumption DEF AInv, TypeOK, EnvTypeOK
  <1>2. edits < MaxEdits /\ edits' = edits + 1
    BY Zenon DEF UserAppEdit
  <1> QED
    BY <1>1, <1>2

\* An edit makes the version the worker may hold an old one.
LEMMA EditAppMoves ==
    ASSUME AInv, NEW a \in Apps, EditApp(a)
    PROVE  AInv' /\ UNCHANGED env /\ EditMove(a)
  <1>1. UNCHANGED <<aCached, aQueue, appRun, adep, adWatch, adCached, presentApps, managedApps>>
    BY Zenon DEF EditApp, appDeps, appMaps
  <1>2. EnvMoves /\ UNCHANGED <<env, eCached>>
    <2>1. edits' \in 0..MaxEdits
      BY Zenon, AppEditCounts DEF EditApp
    <2>2. faults' \in 0..MaxFaults /\ eQueued' \in BOOLEAN /\ UNCHANGED <<envSide>>
      BY Zenon DEF EditApp, AInv, TypeOK, EnvTypeOK
    <2> QED
      BY Zenon, <2>1, <2>2, EnvRests DEF AInv, Trails
  <1>3. /\ app \in [Apps -> AppObject] /\ aCached \in [Apps -> AppObject] /\ aWatch \in [Apps -> Seq(AppObject)]
        /\ \A b \in Apps : AppTrail(app[b], aCached[b], aWatch[b])
    BY Zenon DEF AInv, TypeOK, Trails
  <1>4. PICK o \in AppObject : o.gen = app[a].gen + 1 /\ o.st = app[a].st /\ PutApp(a, o)
    <2>1. app[a] \in AppObject /\ app[a].gen + 1 \in Nat
      BY SMTT(30), <1>3, AppFields
    <2>2. CASE PutApp(a, [app[a] EXCEPT !.gen = @ + 1])
      <3>1. [app[a] EXCEPT !.gen = @ + 1] \in AppObject
        BY Zenon, <2>1, AppUpdate
      <3> QED
        BY Zenon, <2>1, <2>2, <3>1 DEF AppObject
    <2>3. CASE PutApp(a, [app[a] EXCEPT !.gen = @ + 1, !.disabled = ~@])
      <3>1. [app[a] EXCEPT !.gen = @ + 1, !.disabled = ~@] \in AppObject
        BY Zenon, <2>1 DEF AppObject
      <3> QED
        BY Zenon, <2>1, <2>3, <3>1 DEF AppObject
    <2>4. CASE PutApp(a, [app[a] EXCEPT !.gen = @ + 1, !.deleting = TRUE, !.there = app[a].fin])
      <3>1. [app[a] EXCEPT !.gen = @ + 1, !.deleting = TRUE, !.there = app[a].fin] \in AppObject
        BY Zenon, <2>1 DEF AppObject
      <3> QED
        BY Zenon, <2>1, <2>4, <3>1 DEF AppObject
    <2> QED
      BY Zenon, <2>2, <2>3, <2>4 DEF EditApp
  <1>5. app[a].gen \in Nat /\ app[a].rv \in Nat
    BY Zenon, <1>3, AppFields
  <1>6. /\ app' \in [Apps -> AppObject] /\ aWatch' \in [Apps -> Seq(AppObject)]
        /\ \A b \in Apps : AppTrail(app'[b], aCached'[b], aWatch'[b])
        /\ \A b \in Apps \ {a} : app'[b] = app[b]
        /\ app'[a].gen = o.gen /\ app'[a].st = o.st
        /\ UNCHANGED appObject \/ app'[a].rv = app[a].rv + 1
    <2>1. o.gen >= app[a].gen
      BY SMTT(30), <1>4, <1>5
    <2> QED
      BY Zenon, <1>1, <1>3, <1>4, <2>1, PutAppEffect
  <1>7. app'[a].rv = app[a].rv + 1
    BY SMTT(30), <1>4, <1>5, <1>6 DEF appObject
  <1>8. AppSnapOK'
    <2> SUFFICES ASSUME aPc # "idle"
                 PROVE  /\ aSnap.rv <= app'[aCur].rv
                        /\ aSnap.rv = app'[aCur].rv =>
                             aSnap.gen = app'[aCur].gen /\ aSnap.st.gen = app'[aCur].st.gen
      BY Zenon, <1>1 DEF AppSnapOK, appRun
    <2>1. aCur \in Apps /\ aSnap.rv \in Nat /\ aSnap.rv <= app[aCur].rv
      BY Zenon, AtWork, AppNumbers DEF AInv, AppSnapOK
    <2>2. CASE aCur = a
      BY SMTT(30), <1>5, <1>7, <2>1, <2>2
    <2>3. CASE aCur # a
      BY Zenon, <1>6, <2>1, <2>3 DEF AInv, AppSnapOK
    <2> QED
      BY Zenon, <2>2, <2>3
  <1>9. AppRest' /\ aCached' \in [Apps -> AppObject] /\ aQueue' \in SUBSET Apps
    BY Zenon, <1>1 DEF AInv, TypeOK, AppRest
  <1>10. \A b \in Apps : /\ aCached[b].gen <= aCached'[b].gen
                         /\ app'[b].st.gen = app[b].st.gen /\ adep'[b].of = adep[b].of
    <2> SUFFICES ASSUME NEW b \in Apps
                 PROVE  /\ aCached[b].gen <= aCached'[b].gen
                        /\ app'[b].st.gen = app[b].st.gen /\ adep'[b].of = adep[b].of
      BY Zenon
    <2>1. aCached[b].gen \in Nat
      BY Zenon, <1>3, AppFields
    <2>2. app'[b].st = app[b].st
      BY Zenon, <1>4, <1>6
    <2> QED
      BY SMTT(30), <1>1, <2>1, <2>2
  <1>11. EditMove(a)
    BY Zenon, <1>4, <1>6, <1>10 DEF EditMove
  <1> QED
    BY Zenon, <1>1, <1>2, <1>6, <1>8, <1>9, <1>10, <1>11, AppAside

\* After a restart the informers hold what is stored, and nobody is at work.
LEMMA CrashMoves ==
    ASSUME AInv, Crash
    PROVE  AInv' /\ UNCHANGED env /\ AppsRest
  <1>1. EnvMoves /\ UNCHANGED env /\ eCached' = env
    BY Zenon, EnvCrashMoves DEF Crash, AInv, Trails
  <1>2. /\ UNCHANGED <<app, adep>> /\ aCached' = app /\ aWatch' = [a \in Apps |-> <<>>]
        /\ adCached' = adep /\ adWatch' = [a \in Apps |-> <<>>]
        /\ presentApps' = {} /\ managedApps' = {}
    BY Zenon DEF Crash
  <1>3. Ended
    BY Zenon DEF Crash, Ended
  <1>4. IInv' /\ EnvTypeOK' /\ StatusTrail(env', eCached', eWatch') /\ eCached.st.gen <= eCached'.st.gen
    BY Zenon, <1>1 DEF EnvMoves, IInv
  <1>5. app \in [Apps -> AppObject] /\ adep \in [Apps -> Deployment]
    BY Zenon DEF AInv, TypeOK
  <1>6. TypeOK'
    <2>1. <<>> \in Seq(AppObject) /\ <<>> \in Seq(Deployment)
      OBVIOUS
    <2>2. aWatch' \in [Apps -> Seq(AppObject)] /\ adWatch' \in [Apps -> Seq(Deployment)]
      BY Zenon, <1>2, <2>1
    <2>3. aSnap' \in AppObject /\ aOld' \in AppStatuses /\ aEnv' \in EnvObject
      BY Zenon, <1>3, FreshAppTypes, FreshTypes DEF Ended
    <2>4. aPc' = "idle" /\ aCur' = "" /\ aQueue' \in SUBSET Apps
      BY Zenon, <1>3 DEF Ended
    <2> QED
      BY Zenon, <1>2, <1>4, <1>5, <2>2, <2>3, <2>4 DEF TypeOK, AppSteps
  <1>7. Trails'
    <2>1. ASSUME NEW b \in Apps PROVE AppTrail(app'[b], aCached'[b], aWatch'[b])
      <3>1. app[b] \in AppObject /\ app[b].rv >= 1
        BY Zenon, <1>5 DEF AInv, Trails, AppTrail
      <3> QED
        BY Zenon, <1>2, <3>1, AppTrailStarts
    <2> QED
      BY Zenon, <1>4, <2>1 DEF Trails
  <1>8. AppSnapOK' /\ AppBuilds'
    <2>1. ASSUME NEW b \in Apps PROVE InOrder(b)'
      <3>1. InOrder(b) /\ aCached[b].gen <= app[b].gen
        BY Zenon DEF AInv, AppBuilds, InOrder, Trails, AppTrail
      <3>2. /\ app[b].gen \in Nat /\ aCached[b].gen \in Nat /\ adep[b].of.own \in Nat /\ adep[b].of.env \in Nat
            /\ eCached.st.gen \in Nat /\ env.st.gen \in Nat
        BY Zenon, AppNumbers DEF AInv
      <3>3. eCached.st.gen <= env.st.gen
        BY Zenon, <1>1, <1>4
      <3> QED
        BY SMTT(30), <1>1, <1>2, <3>1, <3>2, <3>3 DEF InOrder
    <2> QED
      BY Zenon, <1>3, <2>1 DEF Ended, AppSnapOK, AppBuilds, InOrder
  <1>9. AppsRest
    BY Zenon, <1>2 DEF AppsRest
  <1> QED
    BY Zenon, <1>1, <1>4, <1>6, <1>7, <1>8, <1>9 DEF AInv

\* Every step of the environment's side.
LEMMA EnvSideMoves ==
    ASSUME AInv,
           \/ /\ \/ EnvWorker(LiveApps) \/ EnvCluster
                 \/ DeliverDeployment \/ \E n \in Namespaces : DeliverNamespace(n)
              /\ UNCHANGED appVars
           \/ DeliverEnvToApps
    PROVE  AInv' /\ EnvMoves /\ AppsRest
  <1>1. EnvMoves
    <2>1. IInv /\ StatusTrail(env, eCached, eWatch) /\ LiveApps \in SUBSET Apps
      BY Zenon DEF AInv, Trails, LiveApps, GetAppsInEnv
    <2> QED
      BY Zenon, <2>1, EnvWorkerMoves, EnvClusterMoves, OtherInformersMove, DeliverEnvMoves DEF DeliverEnvToApps
  <1>2. UNCHANGED <<appObject, aCached, appRun, appDeps, appMaps>> /\ aQueue' \in SUBSET Apps
    <2>1. aQueue \in SUBSET Apps /\ GetAppsInEnv \in SUBSET Apps
      BY Zenon DEF AInv, TypeOK, GetAppsInEnv
    <2>2. CASE UNCHANGED appVars
      BY Zenon, <2>1, <2>2 DEF appVars, appObject, appRun, appDeps, appMaps
    <2>3. CASE DeliverEnvToApps
      BY Zenon, <2>1, <2>3 DEF DeliverEnvToApps
    <2> QED
      BY Zenon, <2>2, <2>3
  <1> QED
    BY Zenon, <1>1, <1>2, AppsUntouched

----------------------------------------------------------------------------
(* The invariant, and what a step does to the generations *)

LEMMA AppInitInv == Init => AInv
  <1> SUFFICES ASSUME Init PROVE AInv
    BY Zenon
  <1>1. IInv /\ EnvTypeOK
    BY Zenon, InitInv DEF Init, IInv
  <1>2. /\ SettledAppDeployment \in Deployment /\ NoDeployment \in Deployment
        /\ SettledAppDeployment.of.own = 1 /\ SettledAppDeployment.of.env = 1
        /\ NoDeployment.of.own = 0 /\ NoDeployment.of.env = 0
    BY SMTT(30) DEF SettledAppDeployment, NoDeployment, NoBuild, Deployment, Build
  <1>3. SettledApp \in AppObject /\ SettledApp.rv = 1 /\ SettledApp.gen = 1 /\ SettledApp.st.gen = 1
    <2> DEFINE st == [gen |-> 1, ready |-> TRUE, cond |-> "Successful", err |-> "none", obs |-> 1,
                      dcond |-> TRUE, count |-> countDeployments(SettledAppDeployment)]
    <2>1. countDeployments(SettledAppDeployment) \in Nat \X Nat
      BY Zenon, <1>2, CountType
    <2>2. st \in AppStatuses /\ st.gen = 1
      BY Zenon, <2>1 DEF AppStatuses, AppErrors
    <2>3. SettledApp = [NewApp EXCEPT !.fin = TRUE, !.st = st]
      BY Zenon DEF SettledApp
    <2> HIDE DEF st
    <2> QED
      BY Zenon, <2>2, <2>3, FreshAppTypes DEF AppObject
  <1>4. /\ env.gen = 1 /\ eCached = env /\ eWatch = <<>>
        /\ env.st.gen = IF Established THEN 1 ELSE 0
    <2>1. \A b : /\ NewEnv(b).gen = 1 /\ NewEnv(b).st.gen = 0
                 /\ SettledEnv(b).gen = 1 /\ SettledEnv(b).st.gen = 1
      BY Zenon DEF SettledEnv, NewEnv, NoEnv, FreshEnvStatus
    <2> QED
      BY Zenon, <2>1 DEF Init, EnvInit
  <1>5. /\ app = [a \in Apps |-> IF Established THEN SettledApp ELSE NewApp]
        /\ adep = [a \in Apps |-> IF Established THEN SettledAppDeployment ELSE NoDeployment]
        /\ aWatch = [a \in Apps |-> <<>>] /\ aCached = app /\ aQueue = Apps
        /\ adWatch = [a \in Apps |-> <<>>] /\ adCached = adep
        /\ aPc = "idle" /\ aCur = "" /\ aSnap = NoApp /\ aOld = FreshAppStatus /\ aEnv = NoEnv
        /\ presentApps = {} /\ managedApps = {}
    BY Zenon DEF Init
  <1>6. \A a \in Apps : /\ app[a] \in AppObject /\ app[a].rv = 1 /\ app[a].gen = 1
                        /\ app[a].st.gen = IF Established THEN 1 ELSE 0
                        /\ adep[a] \in Deployment
                        /\ adep[a].of.own = IF Established THEN 1 ELSE 0
                        /\ adep[a].of.env = IF Established THEN 1 ELSE 0
    BY Zenon, <1>2, <1>3, <1>5, FreshAppTypes
  <1>7. TypeOK
    <2>1. <<>> \in Seq(AppObject) /\ <<>> \in Seq(Deployment)
      OBVIOUS
    <2>2. aWatch \in [Apps -> Seq(AppObject)] /\ adWatch \in [Apps -> Seq(Deployment)]
      BY Zenon, <1>5, <2>1
    <2>3. app \in [Apps -> AppObject] /\ adep \in [Apps -> Deployment]
      BY Zenon, <1>2, <1>3, <1>5, FreshAppTypes
    <2>4. aSnap \in AppObject /\ aOld \in AppStatuses /\ aEnv \in EnvObject
      BY Zenon, <1>5, FreshAppTypes, FreshTypes
    <2> QED
      BY Zenon, <1>1, <1>5, <2>2, <2>3, <2>4 DEF TypeOK, AppSteps
  <1>8. Trails
    <2>1. env \in EnvObject
      BY Zenon, <1>1 DEF EnvTypeOK
    <2>2. env.st.gen <= env.gen
      BY <1>4
    <2>3. StatusTrail(env, eCached, eWatch)
      BY Zenon, <1>4, <2>1, <2>2, StatusTrailStarts
    <2>4. ASSUME NEW a \in Apps PROVE AppTrail(app[a], aCached[a], aWatch[a])
      <3>1. app[a] \in AppObject /\ app[a].rv >= 1
        BY SMTT(30), <1>6
      <3> QED
        BY Zenon, <1>5, <3>1, AppTrailStarts
    <2> QED
      BY Zenon, <2>3, <2>4 DEF Trails
  <1>9. AppSnapOK /\ AppBuilds
    <2>1. ASSUME NEW a \in Apps PROVE InOrder(a)
      <3>1. aCached[a] = app[a] /\ eCached.st.gen = IF Established THEN 1 ELSE 0
        BY Zenon, <1>4, <1>5
      <3>2. /\ app[a].gen = 1 /\ app[a].st.gen = adep[a].of.own /\ adep[a].of.own \in {0, 1}
            /\ adep[a].of.env = eCached.st.gen /\ eCached.st.gen \in {0, 1}
        BY Zenon, <1>6, <3>1
      <3> QED
        BY SMTT(30), <3>1, <3>2 DEF InOrder
    <2> QED
      BY Zenon, <1>5, <2>1 DEF AppSnapOK, AppBuilds, InOrder
  <1> QED
    BY Zenon, <1>1, <1>7, <1>8, <1>9 DEF AInv

\* A step of the environment's generations, of an app's, or of none.
EnvGenMove ==
    \/ env'.gen = env.gen /\ env.st.gen <= env'.st.gen /\ env'.st.gen <= env.gen
    \/ env'.gen = env.gen + 1 /\ env'.st.gen = env.st.gen

GenerationMove ==
    \/ EnvGenMove /\ AppsRest
    \/ UNCHANGED env /\ AppsRest
    \/ UNCHANGED env /\ \E a \in Apps : BuildMove(a) \/ PublishMove(a) \/ EditMove(a)

\* AInv is inductive, and no step does more to the generations than one move.
LEMMA AppStepInv ==
    ASSUME AInv, [Next]_vars
    PROVE  AInv' /\ GenerationMove
  <1>1. CASE EnvWorker(LiveApps) /\ UNCHANGED appVars
    BY Zenon, <1>1, EnvSideMoves DEF EnvMoves, EnvGenMove, GenerationMove
  <1>2. CASE AppWorker /\ UNCHANGED <<envSide, eQueued, edits>>
    <2>1. AInv' /\ UNCHANGED env /\ (UNCHANGED <<app, adep>> \/ \E a \in Apps : BuildMove(a) \/ PublishMove(a))
      BY Zenon, <1>2, AppWorkerMoves
    <2> QED
      BY Zenon, <2>1 DEF GenerationMove, AppsRest
  <1>3. CASE DeliverEnvToApps
    BY Zenon, <1>3, EnvSideMoves DEF EnvMoves, EnvGenMove, GenerationMove
  <1>4. CASE (DeliverDeployment \/ \E n \in Namespaces : DeliverNamespace(n)) /\ UNCHANGED appVars
    BY Zenon, <1>4, EnvSideMoves DEF EnvMoves, EnvGenMove, GenerationMove
  <1>5. CASE \E a \in Apps : DeliverApp(a) \/ DeliverAppDeployment(a)
    BY Zenon, <1>5, DeliverAppMoves, DeliverAppDeploymentMoves DEF GenerationMove
  <1>6. CASE EnvCluster /\ UNCHANGED appVars
    BY Zenon, <1>6, EnvSideMoves DEF EnvMoves, EnvGenMove, GenerationMove
  <1>7. CASE \E a \in Apps : EditApp(a) \/ SyncAppDeployment(a)
    BY Zenon, <1>7, EditAppMoves, SyncAppDeploymentMoves DEF GenerationMove
  <1>8. CASE Crash
    BY Zenon, <1>8, CrashMoves DEF GenerationMove
  <1>9. CASE UNCHANGED vars
    <2>1. UNCHANGED <<envSide, eQueued, edits, faults>> /\ UNCHANGED appVars
      BY Zenon, <1>9 DEF vars, envVars, envSide
    <2>2. EnvMoves /\ UNCHANGED <<env, eCached>>
      BY Zenon, <2>1, FaultsKept, AppWorkerEnv
    <2>3. UNCHANGED <<appObject, aCached, appRun, appDeps, appMaps>> /\ aQueue' \in SUBSET Apps
      BY Zenon, <2>1 DEF appVars, appObject, appRun, appDeps, appMaps, AInv, TypeOK
    <2> QED
      BY Zenon, <2>2, <2>3, AppsUntouched DEF GenerationMove
  <1> QED
    BY Zenon, <1>1, <1>2, <1>3, <1>4, <1>5, <1>6, <1>7, <1>8, <1>9 DEF Next, Workers, Informers, Cluster

\* Every variable of both controllers keeps its shape, however reconciles, events,
\* edits, faults and restarts interleave.
THEOREM AppTypeInvariant == Spec => []TypeOK
  <1>1. AInv => TypeOK
    BY Zenon DEF AInv
  <1>2. AInv /\ [Next]_vars => AInv'
    BY Zenon, AppStepInv
  <1> QED
    BY <1>1, <1>2, AppInitInv, PTL DEF Spec

\* A move of the generations is a step of Rollout.
LEMMA MovesRefine ==
    ASSUME AInv, AInv', GenerationMove
    PROVE  [Generations!Next]_<<env.gen, env.st.gen, [a \in Apps |-> app[a].gen],
                                [a \in Apps |-> app[a].st.gen], [a \in Apps |-> adep[a].of]>>
  <1> DEFINE gens == [a \in Apps |-> app[a].gen]
             status == [a \in Apps |-> app[a].st.gen]
             built == [a \in Apps |-> adep[a].of]
  <1>1. env.gen \in Nat /\ env.st.gen \in Nat /\ env'.gen \in Nat /\ env'.st.gen \in Nat
    <2>1. env \in EnvObject /\ env' \in EnvObject
      BY Zenon DEF AInv, TypeOK, EnvTypeOK
    <2> QED
      BY Zenon, <2>1, EnvFields
  <1>2. CASE AppsRest
    <2>1. gens' = gens /\ status' = status /\ built' = built
      BY Zenon, <1>2 DEF AppsRest
    <2>2. CASE EnvGenMove
      <3>1. CASE env'.gen = env.gen /\ env.st.gen <= env'.st.gen /\ env'.st.gen <= env.gen
        <4>1. env'.st.gen \in env.st.gen..env.gen
          BY SMTT(30), <1>1, <3>1
        <4> QED
          BY Zenon, <2>1, <3>1, <4>1 DEF Generations!Next, Generations!EnvPublish
      <3>2. CASE env'.gen = env.gen + 1 /\ env'.st.gen = env.st.gen
        BY Zenon, <2>1, <3>2 DEF Generations!Next, Generations!EnvEdit
      <3> QED
        BY Zenon, <2>2, <3>1, <3>2 DEF EnvGenMove
    <2>3. CASE UNCHANGED env
      BY Zenon, <2>1, <2>3
    <2> QED
      BY Zenon, <1>2, <2>2, <2>3 DEF GenerationMove
  <1>3. ASSUME UNCHANGED env, NEW a \in Apps, EditMove(a)
        PROVE  Generations!AppEdit(a)
    <2>1. gens' = [gens EXCEPT ![a] = gens[a] + 1]
      BY Zenon, <1>3 DEF EditMove
    <2>2. status' = status /\ built' = built
      BY Zenon, <1>3 DEF EditMove
    <2> QED
      BY Zenon, <1>3, <2>1, <2>2 DEF Generations!AppEdit
  <1>4. \A b \in Apps : /\ app[b].gen \in Nat /\ app[b].st.gen \in Nat
                        /\ adep[b].of.own \in Nat /\ adep[b].of.env \in Nat
    BY Zenon, AppNumbers DEF AInv
  <1>5. \A b \in Apps : /\ app'[b].st.gen \in Nat
                        /\ adep'[b].of = [own |-> adep'[b].of.own, env |-> adep'[b].of.env]
                        /\ adep'[b].of.own \in Nat /\ adep'[b].of.env \in Nat
    <2>1. \A b \in Apps : adep'[b] \in Deployment /\ app'[b] \in AppObject
      BY Zenon DEF AInv, TypeOK
    <2>2. \A b \in Apps : adep'[b].of \in Build /\ app'[b].st.gen \in Nat
      BY Zenon, <2>1, BuildFields, AppFields
    <2> QED
      BY Zenon, <2>2 DEF Build
  <1>6. ASSUME UNCHANGED env, NEW a \in Apps, BuildMove(a)
        PROVE  Generations!Build(a)
    <2> DEFINE o == adep'[a].of.own
               e == adep'[a].of.env
    <2>1. o \in adep[a].of.own..app[a].gen /\ e \in adep[a].of.env..env.st.gen
      <3>1. adep[a].of.own <= o /\ o <= app[a].gen /\ adep[a].of.env <= e /\ e <= env.st.gen
        BY Zenon, <1>6 DEF BuildMove
      <3>2. o \in Nat /\ e \in Nat
        BY Zenon, <1>5
      <3>3. app[a].gen \in Nat /\ adep[a].of.own \in Nat /\ adep[a].of.env \in Nat
        BY Zenon, <1>4
      <3> HIDE DEF o, e
      <3> QED
        BY SMTT(30), <1>1, <3>1, <3>2, <3>3
    <2>2. adep'[a].of = [own |-> o, env |-> e]
      BY Zenon, <1>5
    <2> HIDE DEF o, e
    <2>3. built' = [built EXCEPT ![a] = [own |-> o, env |-> e]]
      BY Zenon, <1>6, <2>2 DEF BuildMove
    <2>4. gens' = gens /\ status' = status
      BY Zenon, <1>6 DEF BuildMove
    <2>5. o \in built[a].own..gens[a] /\ e \in built[a].env..env.st.gen
      BY Zenon, <2>1
    <2> QED
      BY Zenon, <1>6, <2>3, <2>4, <2>5 DEF Generations!Build
  <1>7. ASSUME UNCHANGED env, NEW a \in Apps, PublishMove(a)
        PROVE  Generations!AppPublish(a)
    <2> DEFINE g == app'[a].st.gen
    <2>1. g \in app[a].st.gen..adep[a].of.own
      <3>1. app[a].st.gen <= g /\ g <= adep[a].of.own
        BY Zenon, <1>7 DEF PublishMove
      <3>2. g \in Nat
        BY Zenon, <1>5
      <3>3. app[a].st.gen \in Nat /\ adep[a].of.own \in Nat
        BY Zenon, <1>4
      <3> HIDE DEF g
      <3> QED
        BY SMTT(30), <3>1, <3>2, <3>3
    <2>2. status' = [status EXCEPT ![a] = g]
      BY Zenon, <1>7 DEF PublishMove
    <2>3. gens' = gens /\ built' = built
      BY Zenon, <1>7 DEF PublishMove
    <2> HIDE DEF g
    <2>4. g \in status[a]..built[a].own
      BY Zenon, <2>1
    <2> QED
      BY Zenon, <1>7, <2>2, <2>3, <2>4 DEF Generations!AppPublish
  <1> QED
    BY Zenon, <1>2, <1>3, <1>6, <1>7 DEF GenerationMove, Generations!Next

\* Both controllers together implement Rollout.  Every write is of an object that
\* was not stale when it was accepted, what the informers see of an app and of
\* an environment never goes back, and a ClowdApp is built from an environment
\* only when its informer has it as reconciled: so resources are never rebuilt
\* from older specifications, and no generation is recorded before it is built.
THEOREM RolloutRefinement == Spec => RolloutSpec
  <1>1. AInv => Generations!Init
    <2> SUFFICES ASSUME AInv PROVE Generations!Init
      BY Zenon
    <2>1. env.gen \in Nat /\ env.st.gen \in 0..env.gen
      BY SMTT(30), AppNumbers DEF AInv, Trails, StatusTrail
    <2>2. /\ [a \in Apps |-> app[a].gen] \in [Apps -> Nat]
          /\ [a \in Apps |-> app[a].st.gen] \in [Apps -> Nat]
      BY Zenon, AppNumbers DEF AInv
    <2>3. [a \in Apps |-> adep[a].of] \in [Apps -> [own : Nat, env : Nat]]
      <3>1. \A a \in Apps : adep[a] \in Deployment
        BY Zenon DEF AInv, TypeOK
      <3>2. \A a \in Apps : adep[a].of \in [own : Nat, env : Nat]
        BY Zenon, <3>1, BuildFields DEF Build
      <3> QED
        BY Zenon, <3>2
    <2>4. ASSUME NEW a \in Apps
          PROVE  /\ app[a].st.gen <= adep[a].of.own /\ adep[a].of.own <= app[a].gen
                 /\ adep[a].of.env <= env.st.gen
      <3>1. InOrder(a) /\ aCached[a].gen <= app[a].gen /\ eCached.st.gen <= env.st.gen
        BY Zenon DEF AInv, AppBuilds, InOrder, Trails, AppTrail, StatusTrail
      <3>2. /\ app[a].gen \in Nat /\ aCached[a].gen \in Nat /\ adep[a].of.own \in Nat /\ adep[a].of.env \in Nat
            /\ eCached.st.gen \in Nat /\ env.st.gen \in Nat
        BY Zenon, AppNumbers DEF AInv
      <3> QED
        BY SMTT(30), <3>1, <3>2 DEF InOrder
    <2> QED
      BY Zenon, <2>1, <2>2, <2>3, <2>4 DEF Generations!Init
  <1>2. AInv /\ [Next]_vars => AInv' /\ GenerationMove
    BY Zenon, AppStepInv
  <1>3. AInv /\ AInv' /\ [Next]_vars =>
          [Generations!Next]_<<env.gen, env.st.gen, [a \in Apps |-> app[a].gen],
                               [a \in Apps |-> app[a].st.gen], [a \in Apps |-> adep[a].of]>>
    BY Zenon, <1>2, MovesRefine
  <1> QED
    BY <1>1, <1>2, <1>3, AppInitInv, PTL DEF Spec, RolloutSpec, Generations!Spec

=============================================================================
