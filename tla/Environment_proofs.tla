------------------------ MODULE Environment_proofs ------------------------
(* Theorems about the ClowdEnvironment controller, for every set of         *)
(* namespaces and apps and every number of edits and faults.                *)
EXTENDS Environment, TLAPS

----------------------------------------------------------------------------
(* The inductive invariant *)

\* The lock is held exactly while the worker is busy.
Locking == ePc # "idle" <=> cEnv = "env"

\* What the informer holds or is about to receive are earlier versions, with
\* generations that never go back; the same version is the same object.
Chain ==
    /\ env.rv >= 1
    /\ eCached.rv <= env.rv /\ (eCached.rv = env.rv => eCached = env) /\ eCached.gen <= env.gen
    /\ \A i \in 1..Len(eWatch) :
         /\ eWatch[i].rv <= env.rv /\ (eWatch[i].rv = env.rv => eWatch[i] = env)
         /\ eCached.gen <= eWatch[i].gen /\ eWatch[i].gen <= env.gen
    /\ \A i, j \in 1..Len(eWatch) : i <= j => eWatch[i].gen <= eWatch[j].gen

\* The worker's object, unless it is stale, differs from the stored one only in
\* what a reconcile changes in memory.
SnapOK ==
    /\ eSnap.rv <= env.rv
    /\ eSnap.rv = env.rv =>
         /\ eSnap.gen = env.gen /\ eSnap.st.gen = env.st.gen
         /\ env.st.tns # NoNamespace => eSnap.st.tns = env.st.tns

\* The Deployment is built from the worker's generation or an earlier one, and
\* the stored status.generation is not ahead of it.
Builds ==
    /\ dep.of.own <= eCached.gen
    /\ ePc # "idle" => dep.of.own <= eSnap.gen /\ eSnap.gen <= eCached.gen
    /\ EnvDeploys /\ ePc \in {"count", "final", "prune"} => dep.of.own = eSnap.gen
    /\ EnvGenerationHonest

IInv == EnvTypeOK /\ Locking /\ Chain /\ SnapOK /\ Builds

\* What a reconcile may store before the resources are applied, or after a failure.
Storable(o) ==
    /\ o \in EnvObject
    /\ o.gen = env.gen /\ o.st.gen = env.st.gen
    /\ env.st.tns # NoNamespace => o.st.tns = env.st.tns

\* What a step of the worker does to the stored object.
StatusStep ==
    /\ env'.gen = env.gen /\ env'.st.gen \in {env.st.gen, env.gen}
    /\ env.st.tns # NoNamespace => env'.st.tns = env.st.tns

----------------------------------------------------------------------------
(* Types *)

LEMMA EnvFields ==
    ASSUME NEW o \in EnvObject
    PROVE  /\ o.there \in BOOLEAN /\ o.rv \in Nat /\ o.gen \in Nat /\ o.disabled \in BOOLEAN /\ o.auto \in BOOLEAN
           /\ o.deleting \in BOOLEAN /\ o.fin \in BOOLEAN /\ o.held \in BOOLEAN
           /\ o.st \in EnvStatuses /\ o.st.gen \in Nat
           /\ o.st.tns \in Namespaces \cup {NoNamespace}
  BY Zenon DEF EnvObject, EnvStatuses

\* Changing a field of an environment keeps it an environment.
LEMMA EnvUpdate ==
    ASSUME NEW o \in EnvObject
    PROVE  /\ \A r \in Nat : [o EXCEPT !.rv = r] \in EnvObject
           /\ \A s \in EnvStatuses : [o EXCEPT !.st = s] \in EnvObject
           /\ \A f \in BOOLEAN : [o EXCEPT !.fin = f] \in EnvObject
           /\ \A f, t \in BOOLEAN : [o EXCEPT !.fin = f, !.there = t] \in EnvObject
           /\ \A h, t \in BOOLEAN : [o EXCEPT !.held = h, !.there = t] \in EnvObject
           /\ \A g \in Nat : [o EXCEPT !.gen = g] \in EnvObject
           /\ \A g \in Nat, d \in BOOLEAN : [o EXCEPT !.gen = g, !.disabled = d] \in EnvObject
           /\ \A g \in Nat, d, t \in BOOLEAN :
                [o EXCEPT !.gen = g, !.deleting = d, !.there = t] \in EnvObject
  BY Zenon DEF EnvObject

LEMMA StatusUpdate ==
    ASSUME NEW o \in EnvObject
    PROVE  /\ \A n \in Namespaces : [o EXCEPT !.st.tns = n] \in EnvObject
           /\ \A b \in BOOLEAN, g \in Nat : [o EXCEPT !.st.ready = b, !.st.gen = g] \in EnvObject
           /\ \A a \in SUBSET Apps, c \in Nat \X Nat : [o EXCEPT !.st.apps = a, !.st.count = c] \in EnvObject
  <1>1. o.st \in EnvStatuses
    BY Zenon, EnvFields
  <1>2. \A n \in Namespaces : [o.st EXCEPT !.tns = n] \in EnvStatuses
    BY Zenon, <1>1 DEF EnvStatuses
  <1>3. \A b \in BOOLEAN, g \in Nat : [[o.st EXCEPT !.ready = b] EXCEPT !.gen = g] \in EnvStatuses
    BY Zenon, <1>1 DEF EnvStatuses
  <1>4. \A a \in SUBSET Apps, c \in Nat \X Nat :
           [[o.st EXCEPT !.apps = a] EXCEPT !.count = c] \in EnvStatuses
    BY Zenon, <1>1 DEF EnvStatuses
  <1>5. ASSUME NEW n \in Namespaces
        PROVE  [o EXCEPT !.st.tns = n] \in EnvObject
    BY Zenon, <1>2, <1>5 DEF EnvObject
  <1>6. ASSUME NEW b \in BOOLEAN, NEW g \in Nat
        PROVE  [o EXCEPT !.st.ready = b, !.st.gen = g] \in EnvObject
    BY Zenon, <1>3, <1>6 DEF EnvObject
  <1>7. ASSUME NEW a \in SUBSET Apps, NEW c \in Nat \X Nat
        PROVE  [o EXCEPT !.st.apps = a, !.st.count = c] \in EnvObject
    BY Zenon, <1>4, <1>7 DEF EnvObject
  <1> QED
    BY Zenon, <1>5, <1>6, <1>7

LEMMA CountType ==
    ASSUME NEW d \in Deployment
    PROVE  countDeployments(d) \in Nat \X Nat /\ ResourcesReady(d) \in BOOLEAN
  BY Zenon DEF countDeployments, ResourcesReady

LEMMA EnvStatusType ==
    ASSUME NEW o \in EnvObject, dCached \in Deployment,
           NEW state \in {"None", "Successful", "Failed"}, NEW err \in EnvErrors
    PROVE  /\ EnvStatus(o, state, err) \in EnvStatuses
           /\ EnvStatus(o, state, err).gen = o.st.gen
           /\ EnvStatus(o, state, err).tns = o.st.tns
  <1>1. ResourcesReady(dCached) \in BOOLEAN
    BY Zenon, CountType
  <1>2. o.st \in EnvStatuses /\ o.gen \in Nat
    BY Zenon, EnvFields
  <1> QED
    BY Zenon, <1>1, <1>2 DEF EnvStatus, EnvStatuses

LEMMA FreshTypes ==
    /\ FreshEnvStatus \in EnvStatuses /\ NoEnv \in EnvObject
    /\ \A b \in BOOLEAN : NewEnv(b) \in EnvObject
  <1>1. FreshEnvStatus \in EnvStatuses
    BY Zenon DEF FreshEnvStatus, EnvStatuses, EnvErrors
  <1>2. NoEnv \in EnvObject
    BY Zenon, <1>1 DEF NoEnv, EnvObject
  <1> QED
    BY Zenon, <1>1, <1>2, EnvBoundsAssumption DEF NewEnv, EnvObject

----------------------------------------------------------------------------
(* Writes *)

\* Storing an object appends the stored version to what the informer will see.
LEMMA PutEffect ==
    ASSUME env \in EnvObject, eWatch \in Seq(EnvObject), eCached \in EnvObject, Chain,
           NEW o \in EnvObject, o.gen >= env.gen, Put(o), eCached' = eCached
    PROVE  /\ env' \in EnvObject /\ eWatch' \in Seq(EnvObject)
           /\ Chain'
           /\ env'.gen = o.gen /\ env'.st = o.st
           /\ env' = env \/ env'.rv = env.rv + 1
  <1>1. CASE o = env
    BY Zenon, <1>1 DEF Put, envObject, Chain
  <1>2. CASE o # env
    <2>1. env' = [o EXCEPT !.rv = env.rv + 1] /\ eWatch' = Append(eWatch, env')
      BY Zenon, <1>2 DEF Put
    <2>2. env.rv \in Nat /\ env.gen \in Nat /\ o.gen \in Nat /\ env.rv + 1 \in Nat
      BY EnvFields
    <2>3. env' \in EnvObject
      <3>1. \A r \in Nat : [o EXCEPT !.rv = r] \in EnvObject
        BY Zenon, EnvUpdate
      <3> QED
        BY Zenon, <2>1, <2>2, <3>1
    <2>4. env'.rv = env.rv + 1 /\ env'.gen = o.gen /\ env'.st = o.st
      BY Zenon, <2>1 DEF EnvObject
    <2>5. /\ eWatch' \in Seq(EnvObject) /\ Len(eWatch') = Len(eWatch) + 1
          /\ Len(eWatch) \in Nat
          /\ \A i \in 1..Len(eWatch) : eWatch'[i] = eWatch[i]
          /\ eWatch'[Len(eWatch) + 1] = env'
      BY <2>1, <2>3
    <2>6. \A i \in 1..Len(eWatch) : eWatch[i] \in EnvObject /\ eWatch[i].rv \in Nat /\ eWatch[i].gen \in Nat
      BY EnvFields
    <2>7. eCached.rv \in Nat /\ eCached.gen \in Nat
      BY Zenon, EnvFields
    <2>8. ASSUME NEW i \in 1..Len(eWatch')
          PROVE  /\ eWatch'[i].rv <= env'.rv /\ (eWatch'[i].rv = env'.rv => eWatch'[i] = env')
                 /\ eCached.gen <= eWatch'[i].gen /\ eWatch'[i].gen <= env'.gen
      <3>1. CASE i = Len(eWatch) + 1
        BY <3>1, <2>2, <2>4, <2>5, <2>7 DEF Chain
      <3>2. CASE i # Len(eWatch) + 1
        <4>1. i \in 1..Len(eWatch)
          BY <2>5, <2>8, <3>2
        <4>2. /\ eWatch[i].rv <= env.rv
              /\ eCached.gen <= eWatch[i].gen /\ eWatch[i].gen <= env.gen
          BY Zenon, <4>1 DEF Chain
        <4>3. eWatch'[i] = eWatch[i] /\ eWatch[i].rv \in Nat /\ eWatch[i].gen \in Nat
          BY Zenon, <4>1, <2>5, <2>6
        <4> QED
          BY <4>2, <4>3, <2>2, <2>4
      <3> QED
        BY Zenon, <3>1, <3>2
    <2>9. ASSUME NEW i \in 1..Len(eWatch'), NEW j \in 1..Len(eWatch'), i <= j
          PROVE  eWatch'[i].gen <= eWatch'[j].gen
      <3>1. CASE j = Len(eWatch) + 1
        BY Zenon, <3>1, <2>5, <2>8
      <3>2. CASE j # Len(eWatch) + 1
        <4>1. i \in 1..Len(eWatch) /\ j \in 1..Len(eWatch)
          BY <2>5, <2>9, <3>2
        <4> QED
          BY Zenon, <4>1, <2>5, <2>9 DEF Chain
      <3> QED
        BY Zenon, <3>1, <3>2
    <2>10. /\ env'.rv >= 1 /\ eCached.rv <= env'.rv /\ eCached.rv # env'.rv
           /\ eCached.gen <= env'.gen
      BY <2>2, <2>4, <2>7 DEF Chain
    <2> QED
      BY Zenon, <2>3, <2>4, <2>5, <2>8, <2>9, <2>10 DEF Chain
  <1> QED
    BY Zenon, <1>1, <1>2

\* Either nothing is stored or something storable.
Stores == UNCHANGED envObject \/ \E o : Storable(o) /\ Put(o)

LEMMA StoresEffect ==
    ASSUME EnvTypeOK, Chain, Stores, eCached' = eCached
    PROVE  /\ env' \in EnvObject /\ eWatch' \in Seq(EnvObject)
           /\ Chain' /\ StatusStep /\ env'.st.gen = env.st.gen
           /\ env' = env \/ env'.rv = env.rv + 1
  <1>1. CASE UNCHANGED envObject
    BY Zenon, <1>1 DEF envObject, Chain, StatusStep, EnvTypeOK
  <1>2. CASE \E o : Storable(o) /\ Put(o)
    <2>1. PICK o : Storable(o) /\ Put(o)
      BY Zenon, <1>2
    <2>2. o \in EnvObject /\ o.gen >= env.gen
      <3>1. env.gen \in Nat
        BY Zenon, EnvFields DEF EnvTypeOK
      <3> QED
        BY <2>1, <3>1 DEF Storable
    <2>3. /\ env' \in EnvObject /\ eWatch' \in Seq(EnvObject)
          /\ Chain'
          /\ env'.gen = o.gen /\ env'.st = o.st
          /\ env' = env \/ env'.rv = env.rv + 1
      BY Zenon, <2>1, <2>2, PutEffect DEF EnvTypeOK
    <2> QED
      BY Zenon, <2>1, <2>3 DEF Storable, StatusStep
  <1> QED
    BY Zenon, <1>1, <1>2 DEF Stores

LEMMA ConditionsStore ==
    ASSUME EnvTypeOK, SnapOK, NEW new \in EnvStatuses,
           new.gen = eSnap.st.gen, eSnap.st.tns # NoNamespace => new.tns = eSnap.st.tns,
           SetClowdEnvConditions(new)
    PROVE  Stores
  <1>1. CASE new # eOld /\ Fits
    <2>1. Put([eSnap EXCEPT !.st = new])
      BY Zenon, <1>1 DEF SetClowdEnvConditions
    <2>2. [eSnap EXCEPT !.st = new] \in EnvObject
      BY Zenon, EnvUpdate DEF EnvTypeOK
    <2>3. [eSnap EXCEPT !.st = new].gen = eSnap.gen /\ [eSnap EXCEPT !.st = new].st = new
      BY Zenon DEF EnvTypeOK, EnvObject
    <2>4. Storable([eSnap EXCEPT !.st = new])
      BY Zenon, <1>1, <2>2, <2>3 DEF Storable, Fits, SnapOK
    <2> QED
      BY Zenon, <2>1, <2>4 DEF Stores
  <1> QED
    BY Zenon, <1>1 DEF SetClowdEnvConditions, Stores

LEMMA FailsStore ==
    ASSUME EnvTypeOK, SnapOK, NEW o \in EnvObject, NEW err \in EnvErrors,
           o.st.gen = eSnap.st.gen, eSnap.st.tns # NoNamespace => o.st.tns = eSnap.st.tns,
           EnvFails(o, err)
    PROVE  Stores /\ EndEnv(TRUE)
  <1>1. /\ EnvStatus(o, "Failed", err) \in EnvStatuses
        /\ EnvStatus(o, "Failed", err).gen = o.st.gen
        /\ EnvStatus(o, "Failed", err).tns = o.st.tns
    BY Zenon, EnvStatusType DEF EnvTypeOK
  <1> QED
    BY Zenon, <1>1, ConditionsStore DEF EnvFails

----------------------------------------------------------------------------
(* The end of a reconcile, and a step within it *)

\* The part of the state that the worker's own bookkeeping does not touch.
RestTypeOK ==
    /\ present \in BOOLEAN /\ managed \in BOOLEAN
    /\ ns \in [Namespaces -> NsStates] /\ nsView \in [Namespaces -> NsStates]
    /\ dep \in Deployment /\ dCached \in Deployment /\ dWatch \in Seq(Deployment)
    /\ edits \in 0..MaxEdits /\ faults \in 0..MaxFaults

LEMMA Numbers ==
    ASSUME EnvTypeOK
    PROVE  /\ env.rv \in Nat /\ env.gen \in Nat /\ env.st.gen \in Nat
           /\ eCached.rv \in Nat /\ eCached.gen \in Nat
           /\ eSnap.rv \in Nat /\ eSnap.gen \in Nat
           /\ dep.of.own \in Nat
  <1>1. dep.of.own \in Nat
    BY Zenon DEF EnvTypeOK, Deployment, Build
  <1> QED
    BY Zenon, <1>1, EnvFields DEF EnvTypeOK

LEMMA EndKeeps ==
    ASSUME IInv, ePc # "idle", Stores, NEW b \in BOOLEAN, EndEnv(b), eCached' = eCached,
           RestTypeOK', dep'.of.own \in {dep.of.own, eSnap.gen}
    PROVE  IInv' /\ StatusStep
  <1>1. /\ env' \in EnvObject /\ eWatch' \in Seq(EnvObject)
        /\ Chain' /\ StatusStep /\ env'.st.gen = env.st.gen
    BY Zenon, StoresEffect DEF IInv
  <1>2. EnvTypeOK'
    <2>1. eSnap' \in EnvObject /\ eOld' \in EnvStatuses
      BY Zenon, FreshTypes DEF EndEnv
    <2>2. ePc' \in EnvSteps /\ cEnv' \in {"", "env"} /\ eQueued' \in BOOLEAN
      BY Zenon DEF EndEnv, EnvSteps, IInv, EnvTypeOK
    <2> QED
      BY Zenon, <1>1, <2>1, <2>2 DEF IInv, EnvTypeOK, RestTypeOK
  <1>3. Locking'
    BY Zenon DEF EndEnv, Locking
  <1>4. SnapOK'
    <2>1. eSnap'.rv = 0
      BY Zenon DEF EndEnv, NoEnv
    <2>2. env'.rv >= 1 /\ env'.rv \in Nat
      BY Zenon, <1>1, EnvFields DEF Chain
    <2> QED
      BY <2>1, <2>2 DEF SnapOK
  <1>5. Builds'
    <2>1. dep'.of.own <= eCached'.gen /\ dep.of.own <= dep'.of.own
      BY Numbers DEF IInv, Builds
    <2>2. EnvGenerationHonest'
      <3>1. dep'.of.own \in Nat /\ dep.of.own \in Nat /\ env.st.gen \in Nat
        BY Zenon, Numbers DEF IInv
      <3> QED
        BY <1>1, <2>1, <3>1 DEF IInv, Builds, EnvGenerationHonest
    <2> QED
      BY Zenon, <2>1, <2>2 DEF Builds, EndEnv
  <1> QED
    BY Zenon, <1>1, <1>2, <1>3, <1>4, <1>5 DEF IInv

LEMMA StayKeeps ==
    ASSUME IInv, ePc # "idle", Stores, ePc' \in EnvSteps \ {"idle"},
           UNCHANGED <<eCached, eQueued, eOld, cEnv>>,
           eSnap' \in EnvObject, eSnap'.gen = eSnap.gen, SnapOK',
           RestTypeOK', dep'.of.own \in {dep.of.own, eSnap.gen},
           EnvDeploys /\ ePc' \in {"count", "final", "prune"} => dep'.of.own = eSnap.gen
    PROVE  IInv' /\ StatusStep
  <1>1. /\ env' \in EnvObject /\ eWatch' \in Seq(EnvObject)
        /\ Chain' /\ StatusStep /\ env'.st.gen = env.st.gen
    BY Zenon, StoresEffect DEF IInv
  <1>2. EnvTypeOK'
    BY Zenon, <1>1 DEF IInv, EnvTypeOK, RestTypeOK
  <1>3. Locking'
    BY Zenon DEF Locking, IInv
  <1>4. Builds'
    <2>1. /\ dep'.of.own <= eCached'.gen /\ dep.of.own <= dep'.of.own
          /\ dep'.of.own <= eSnap'.gen /\ eSnap'.gen <= eCached'.gen
      BY Numbers DEF IInv, Builds
    <2>2. EnvGenerationHonest'
      <3>1. dep'.of.own \in Nat /\ dep.of.own \in Nat /\ env.st.gen \in Nat
        BY Zenon, Numbers DEF IInv
      <3> QED
        BY <1>1, <2>1, <3>1 DEF IInv, Builds, EnvGenerationHonest
    <2> QED
      BY Zenon, <2>1, <2>2 DEF Builds
  <1> QED
    BY Zenon, <1>1, <1>2, <1>3, <1>4 DEF IInv

----------------------------------------------------------------------------
(* The worker's steps *)

LEMMA RestStays ==
    ASSUME EnvTypeOK, UNCHANGED <<present, managed, nsVars, depVars, edits>>, faults' \in 0..MaxFaults
    PROVE  RestTypeOK' /\ dep'.of.own = dep.of.own
  BY Zenon DEF EnvTypeOK, RestTypeOK, nsVars, depVars

LEMMA FaultCounts ==
    ASSUME EnvTypeOK, NEW kind, Fault(kind)
    PROVE  faults' \in 0..MaxFaults
  <1>1. faults \in 0..MaxFaults /\ MaxFaults \in Nat
    BY Zenon, EnvBoundsAssumption DEF EnvTypeOK
  <1>2. faults < MaxFaults /\ faults' = faults + 1
    BY Zenon DEF Fault
  <1> QED
    BY <1>1, <1>2

\* In memory nothing but the status changes, and not its generation.
LEMMA SnapStays ==
    ASSUME SnapOK, env' = env, eSnap'.rv = eSnap.rv, eSnap'.gen = eSnap.gen,
           eSnap'.st.gen = eSnap.st.gen,
           eSnap.st.tns # NoNamespace => eSnap'.st.tns = eSnap.st.tns
    PROVE  SnapOK'
  BY Zenon DEF SnapOK

LEMMA BeginKeeps == IInv /\ EnvBegin => IInv'
  <1> SUFFICES ASSUME IInv, EnvBegin PROVE IInv'
    BY Zenon
  <1>1. CASE eCached.there
    <2>1. EnvTypeOK'
      BY Zenon, <1>1, EnvFields DEF IInv, EnvTypeOK, EnvBegin, EnvSteps, envObject, nsVars, depVars
    <2>2. Locking' /\ Chain' /\ SnapOK'
      BY Zenon, <1>1 DEF IInv, EnvBegin, Locking, Chain, SnapOK, envObject
    <2>3. Builds'
      <3>1. UNCHANGED <<env, eCached, dep>> /\ eSnap' = eCached /\ ePc' = "finalizer"
        BY Zenon, <1>1 DEF EnvBegin, envObject, depVars
      <3>2. eCached.gen \in Nat
        BY Zenon, Numbers DEF IInv
      <3> QED
        BY <3>1, <3>2 DEF IInv, Builds, EnvGenerationHonest
    <2> QED
      BY Zenon, <2>1, <2>2, <2>3 DEF IInv
  <1>2. CASE ~eCached.there
    BY Zenon, <1>2 DEF IInv, EnvTypeOK, Locking, Chain, SnapOK, Builds, EnvGenerationHonest, EnvBegin,
                envObject, envWorker, nsVars, depVars
  <1> QED
    BY Zenon, <1>1, <1>2

LEMMA FinalizeKeeps == IInv /\ finalizeEnvironmentImplementation => IInv' /\ StatusStep
  <1> SUFFICES ASSUME IInv, finalizeEnvironmentImplementation PROVE IInv' /\ StatusStep
    BY Zenon
  <1>1. faults' \in 0..MaxFaults
    BY Zenon, FaultCounts DEF finalizeEnvironmentImplementation, IInv, EnvTypeOK
  <1>2. ns' \in [Namespaces -> NsStates]
    BY Zenon DEF finalizeEnvironmentImplementation, IInv, EnvTypeOK, NsStates
  <1>3. RestTypeOK' /\ dep'.of.own = dep.of.own
    BY Zenon, <1>1, <1>2 DEF finalizeEnvironmentImplementation, IInv, EnvTypeOK, RestTypeOK, depVars
  <1>4. SnapOK'
    BY Zenon, SnapStays DEF finalizeEnvironmentImplementation, IInv, envObject
  <1> QED
    BY Zenon, <1>3, <1>4, StayKeeps
    DEF finalizeEnvironmentImplementation, IInv, EnvTypeOK, Stores, EnvSteps

LEMMA FinalizeFailsKeeps == IInv /\ FinalizeFails => IInv' /\ StatusStep
  <1> SUFFICES ASSUME IInv, FinalizeFails PROVE IInv' /\ StatusStep
    BY Zenon
  <1>1. faults' \in 0..MaxFaults
    BY Zenon, FaultCounts DEF FinalizeFails, IInv
  <1> QED
    BY Zenon, <1>1, RestStays, EndKeeps DEF FinalizeFails, IInv, Stores

LEMMA RemoveFinalizerKeeps == IInv /\ RemoveFinalizer => IInv' /\ StatusStep
  <1> SUFFICES ASSUME IInv, RemoveFinalizer PROVE IInv' /\ StatusStep
    BY Zenon
  <1>1. Stores
    <2>1. CASE Fits
      <3> DEFINE o == [env EXCEPT !.fin = FALSE, !.there = env.held]
      <3>1. o \in EnvObject
        BY Zenon, EnvUpdate, EnvFields DEF IInv, EnvTypeOK
      <3>2. o.gen = env.gen /\ o.st = env.st
        BY Zenon DEF IInv, EnvTypeOK, EnvObject
      <3>3. Storable(o)
        BY Zenon, <3>1, <3>2 DEF Storable
      <3> QED
        BY Zenon, <2>1, <3>3 DEF RemoveFinalizer, Stores
    <2> QED
      BY Zenon, <2>1 DEF RemoveFinalizer, Stores
  <1>2. PICK b \in BOOLEAN : EndEnv(b)
    BY Zenon DEF RemoveFinalizer, Fits
  <1> QED
    BY Zenon, <1>1, <1>2, RestStays, EndKeeps DEF RemoveFinalizer, IInv, EnvTypeOK

LEMMA DeletedUnfinalizedKeeps == IInv /\ DeletedUnfinalized => IInv' /\ StatusStep
  BY Zenon, RestStays, EndKeeps DEF DeletedUnfinalized, IInv, EnvTypeOK, Stores

LEMMA AddFinalizerKeeps == IInv /\ addFinalizerIfRequired => IInv' /\ StatusStep
  <1> SUFFICES ASSUME IInv, addFinalizerIfRequired PROVE IInv' /\ StatusStep
    BY Zenon
  <1>1. Stores
    <2>1. CASE ~eSnap.fin /\ Fits
      <3> DEFINE o == [eSnap EXCEPT !.fin = TRUE]
      <3>1. o \in EnvObject
        BY Zenon, EnvUpdate DEF IInv, EnvTypeOK
      <3>2. o.gen = eSnap.gen /\ o.st = eSnap.st
        BY Zenon DEF IInv, EnvTypeOK, EnvObject
      <3>3. Storable(o)
        BY Zenon, <2>1, <3>1, <3>2 DEF Storable, IInv, SnapOK, Fits
      <3> QED
        BY Zenon, <2>1, <3>3 DEF addFinalizerIfRequired, Stores
    <2> QED
      BY Zenon, <2>1 DEF addFinalizerIfRequired, Stores
  <1>2. RestTypeOK' /\ dep'.of.own = dep.of.own
    BY Zenon, RestStays DEF addFinalizerIfRequired, IInv, EnvTypeOK
  <1>3. CASE \E b \in BOOLEAN : EndEnv(b)
    BY Zenon, <1>1, <1>2, <1>3, EndKeeps DEF addFinalizerIfRequired
  <1>4. CASE /\ eSnap.fin \/ Fits
             /\ ePc' = "namespace" /\ eSnap' = (IF eSnap.fin THEN eSnap ELSE env')
             /\ UNCHANGED <<eOld, cEnv, eQueued>>
    <2>1. env' \in EnvObject /\ env'.gen = env.gen
      BY Zenon, <1>1, StoresEffect DEF IInv, addFinalizerIfRequired, StatusStep
    <2>2. eSnap' \in EnvObject /\ eSnap'.gen = eSnap.gen
      BY Zenon, <1>4, <2>1 DEF IInv, EnvTypeOK, Fits, SnapOK
    <2>3. SnapOK'
      <3>1. CASE eSnap.fin
        BY Zenon, <1>4, <3>1 DEF addFinalizerIfRequired, IInv, SnapOK, envObject
      <3>2. CASE ~eSnap.fin
        BY <1>4, <3>2, <2>1, EnvFields DEF SnapOK
      <3> QED
        BY Zenon, <3>1, <3>2
    <2> QED
      BY Zenon, <1>1, <1>2, <1>4, <2>2, <2>3, StayKeeps DEF addFinalizerIfRequired, EnvSteps
  <1> QED
    BY Zenon, <1>3, <1>4 DEF addFinalizerIfRequired

LEMMA MakeNamespaceKeeps == IInv /\ makeTargetNamespace => IInv' /\ StatusStep
  <1> SUFFICES ASSUME IInv, makeTargetNamespace PROVE IInv' /\ StatusStep
    BY Zenon
  <1>1. PICK n \in Namespaces :
           LET named == [eSnap EXCEPT !.st.tns = n]
           IN  \/ /\ ns' = [ns EXCEPT ![n] = "active"]
                  /\ eSnap' = named /\ ePc' = "record"
                  /\ UNCHANGED <<envObject, eQueued, eOld, cEnv, faults>>
               \/ Fault("create") /\ EnvFails(named, "create") /\ UNCHANGED ns
    BY Zenon DEF makeTargetNamespace
  <1> DEFINE named == [eSnap EXCEPT !.st.tns = n]
  <1>2. named \in EnvObject
    BY Zenon, StatusUpdate DEF IInv, EnvTypeOK
  <1>3. named.gen = eSnap.gen /\ named.rv = eSnap.rv /\ named.st.gen = eSnap.st.gen
    BY Zenon DEF IInv, EnvTypeOK, EnvObject, EnvStatuses
  <1>4. CASE /\ ns' = [ns EXCEPT ![n] = "active"]
             /\ eSnap' = named /\ ePc' = "record"
             /\ UNCHANGED <<envObject, eQueued, eOld, cEnv, faults>>
    <2>1. RestTypeOK' /\ dep'.of.own = dep.of.own
      BY Zenon, <1>4 DEF makeTargetNamespace, IInv, EnvTypeOK, RestTypeOK, NsStates, depVars
    <2>2. SnapOK'
      BY Zenon, <1>3, <1>4, SnapStays DEF makeTargetNamespace, IInv, envObject
    <2> QED
      BY Zenon, <1>2, <1>3, <1>4, <2>1, <2>2, StayKeeps DEF makeTargetNamespace, Stores, EnvSteps
  <1>5. CASE Fault("create") /\ EnvFails(named, "create") /\ UNCHANGED ns
    <2>1. Stores /\ EndEnv(TRUE)
      BY Zenon, <1>2, <1>3, <1>5, FailsStore DEF makeTargetNamespace, IInv, EnvErrors
    <2>2. faults' \in 0..MaxFaults
      BY Zenon, <1>5, FaultCounts DEF IInv
    <2>3. RestTypeOK' /\ dep'.of.own = dep.of.own
      BY Zenon, <1>5, <2>2, RestStays DEF makeTargetNamespace, IInv, nsVars
    <2> QED
      BY Zenon, <2>1, <2>3, EndKeeps DEF makeTargetNamespace
  <1> QED
    BY Zenon, <1>1, <1>4, <1>5

LEMMA GetNamespaceKeeps == IInv /\ getTargetNamespace => IInv' /\ StatusStep
  <1> SUFFICES ASSUME IInv, getTargetNamespace PROVE IInv' /\ StatusStep
    BY Zenon
  <1>1. RestTypeOK' /\ dep'.of.own = dep.of.own
    BY Zenon, RestStays DEF getTargetNamespace, IInv, EnvTypeOK
  <1>2. CASE /\ eSnap' = [eSnap EXCEPT !.st.tns = 1] /\ ePc' = "record"
             /\ UNCHANGED <<envObject, eQueued, eOld, cEnv>>
    <2>1. eSnap' \in EnvObject
      BY Zenon, <1>2, StatusUpdate, NamespacesAssumption DEF IInv, EnvTypeOK
    <2>2. eSnap'.gen = eSnap.gen /\ eSnap'.rv = eSnap.rv /\ eSnap'.st.gen = eSnap.st.gen
      BY Zenon, <1>2 DEF IInv, EnvTypeOK, EnvObject, EnvStatuses
    <2>3. SnapOK'
      BY Zenon, <1>2, <2>2, SnapStays DEF getTargetNamespace, IInv, envObject
    <2> QED
      BY Zenon, <1>1, <1>2, <2>1, <2>2, <2>3, StayKeeps DEF getTargetNamespace, Stores, EnvSteps
  <1>3. CASE EnvFails(eSnap, "namespace")
    <2>1. Stores /\ EndEnv(TRUE)
      BY Zenon, <1>3, FailsStore DEF IInv, EnvTypeOK, EnvErrors
    <2> QED
      BY Zenon, <1>1, <2>1, EndKeeps DEF getTargetNamespace
  <1> QED
    BY Zenon, <1>2, <1>3 DEF getTargetNamespace

LEMMA RecordKeeps == IInv /\ updateTargetNamespace => IInv' /\ StatusStep
  <1> SUFFICES ASSUME IInv, updateTargetNamespace PROVE IInv' /\ StatusStep
    BY Zenon
  <1>1. RestTypeOK' /\ dep'.of.own = dep.of.own
    BY Zenon, RestStays DEF updateTargetNamespace, IInv, EnvTypeOK
  <1>2. CASE Fits
    <2>1. Put(eSnap) /\ Storable(eSnap)
      BY Zenon, <1>2 DEF updateTargetNamespace, Storable, Fits, IInv, SnapOK, EnvTypeOK
    <2>2. Stores
      BY Zenon, <2>1 DEF Stores
    <2>3. env' \in EnvObject /\ env'.gen = env.gen
      BY Zenon, <2>2, StoresEffect DEF IInv, updateTargetNamespace, StatusStep
    <2>4. eSnap' = env' /\ env'.gen = eSnap.gen
      BY Zenon, <1>2, <2>3 DEF updateTargetNamespace, Fits, IInv, SnapOK
    <2>5. SnapOK'
      BY <2>3, <2>4, EnvFields DEF SnapOK
    <2> QED
      BY Zenon, <1>1, <1>2, <2>2, <2>3, <2>4, <2>5, StayKeeps DEF updateTargetNamespace, EnvSteps
  <1>3. CASE ~Fits
    BY Zenon, <1>1, <1>3, EndKeeps DEF updateTargetNamespace, Stores
  <1> QED
    BY Zenon, <1>2, <1>3

LEMMA CheckKeeps == IInv /\ isTargetNamespaceMarkedForDeletion => IInv' /\ StatusStep
  <1> SUFFICES ASSUME IInv, isTargetNamespaceMarkedForDeletion PROVE IInv' /\ StatusStep
    BY Zenon
  <1>1. RestTypeOK' /\ dep'.of.own = dep.of.own
    BY Zenon, RestStays DEF isTargetNamespaceMarkedForDeletion, IInv, EnvTypeOK
  <1>2. CASE ePc' = "provide" /\ UNCHANGED <<envObject, eQueued, eSnap, eOld, cEnv>>
    <2>1. SnapOK'
      BY Zenon, <1>2 DEF IInv, SnapOK, envObject
    <2> QED
      BY Zenon, <1>1, <1>2, <2>1, StayKeeps
      DEF isTargetNamespaceMarkedForDeletion, Stores, EnvSteps, IInv, EnvTypeOK
  <1>3. CASE EndEnv(FALSE) /\ UNCHANGED envObject
    BY Zenon, <1>1, <1>3, EndKeeps DEF isTargetNamespaceMarkedForDeletion, Stores
  <1>4. CASE EnvFails(eSnap, "namespace")
    <2>1. Stores /\ EndEnv(TRUE)
      BY Zenon, <1>4, FailsStore DEF IInv, EnvTypeOK, EnvErrors
    <2> QED
      BY Zenon, <1>1, <2>1, EndKeeps DEF isTargetNamespaceMarkedForDeletion
  <1> QED
    BY Zenon, <1>2, <1>3, <1>4 DEF isTargetNamespaceMarkedForDeletion

LEMMA AppliedType ==
    ASSUME NEW d \in Deployment, NEW b \in Build
    PROVE  Applied(d, b) \in Deployment /\ Applied(d, b).of = b
  <1>1. CASE ~d.there
    <2>1. Applied(d, b) = [there |-> TRUE, gen |-> 1, obs |-> 0, pod |-> 0, old |-> 0, of |-> b]
      BY Zenon, <1>1 DEF Applied, NoDeployment
    <2> QED
      BY <2>1 DEF Deployment
  <1>2. CASE d.there /\ d.of = b
    BY Zenon, <1>2 DEF Applied
  <1>3. CASE d.there /\ d.of # b
    <2>1. d.gen + 1 \in Nat
      BY DEF Deployment
    <2>2. Applied(d, b) = [d EXCEPT !.gen = d.gen + 1, !.of = b]
      BY Zenon, <1>3 DEF Applied
    <2> QED
      BY Zenon, <2>1, <2>2 DEF Deployment
  <1> QED
    BY Zenon, <1>1, <1>2, <1>3

LEMMA ProvidersKeep == IInv /\ runProviders => IInv' /\ StatusStep
  <1> SUFFICES ASSUME IInv, runProviders PROVE IInv' /\ StatusStep
    BY Zenon
  <1> DEFINE b == [own |-> eSnap.gen, env |-> eSnap.gen]
             sent == IF EnvDeploys THEN Applied(dep, b) ELSE dep
  <1>1. b \in Build
    BY Zenon, Numbers DEF IInv, Build
  <1>2. /\ sent \in Deployment /\ sent.of.own \in {dep.of.own, eSnap.gen}
        /\ EnvDeploys => sent.of.own = eSnap.gen
    <2>1. dep \in Deployment /\ b.own = eSnap.gen
      BY Zenon DEF IInv, EnvTypeOK
    <2>2. Applied(dep, b) \in Deployment /\ Applied(dep, b).of = b
      BY Zenon, <1>1, <2>1, AppliedType
    <2> HIDE DEF b
    <2> QED
      BY Zenon, <2>1, <2>2
  <1>3. dep' \in {dep, sent} /\ dWatch' = IF dep' = dep THEN dWatch ELSE Append(dWatch, dep')
    BY Zenon DEF runProviders
  <1>4. \/ /\ dep' = sent /\ ePc' = "count"
           /\ UNCHANGED <<envObject, eQueued, eSnap, eOld, cEnv, faults>>
        \/ Fault("apply") /\ EnvFails(eSnap, "apply")
        \/ Fault("provider") /\ EnvFails(eSnap, "providers")
    BY Zenon DEF runProviders
  <1> HIDE DEF sent, b
  <1>5. faults' \in 0..MaxFaults
    BY Zenon, <1>4, FaultCounts DEF IInv, EnvTypeOK
  <1>6. dep' \in Deployment /\ dWatch' \in Seq(Deployment)
    <2>1. dep \in Deployment /\ dWatch \in Seq(Deployment)
      BY Zenon DEF IInv, EnvTypeOK
    <2>2. dep' \in Deployment
      BY Zenon, <1>2, <1>3, <2>1
    <2> QED
      BY <1>3, <2>1, <2>2
  <1>7. RestTypeOK' /\ dep'.of.own \in {dep.of.own, eSnap.gen}
    BY Zenon, <1>2, <1>3, <1>5, <1>6 DEF runProviders, IInv, EnvTypeOK, RestTypeOK, nsVars
  <1>8. ePc # "idle" /\ eCached' = eCached
    BY Zenon DEF runProviders
  <1>9. CASE /\ dep' = sent /\ ePc' = "count"
             /\ UNCHANGED <<envObject, eQueued, eSnap, eOld, cEnv, faults>>
    <2>1. SnapOK'
      BY Zenon, <1>9 DEF IInv, SnapOK, envObject
    <2> QED
      BY Zenon, <1>2, <1>7, <1>8, <1>9, <2>1, StayKeeps DEF Stores, EnvSteps, IInv, EnvTypeOK
  <1>10. CASE EnvFails(eSnap, "apply") \/ EnvFails(eSnap, "providers")
    <2>1. Stores /\ EndEnv(TRUE)
      BY Zenon, <1>10, FailsStore DEF IInv, EnvTypeOK, EnvErrors
    <2> QED
      BY Zenon, <1>7, <1>8, <2>1, EndKeeps
  <1> QED
    BY Zenon, <1>4, <1>9, <1>10

LEMMA CountKeeps ==
    ASSUME NEW apps \in SUBSET Apps, IInv, setEnvResourceStatus(apps)
    PROVE  IInv' /\ StatusStep
  <1>1. RestTypeOK' /\ dep'.of.own = dep.of.own
    BY Zenon, RestStays DEF setEnvResourceStatus, IInv, EnvTypeOK
  <1>2. countDeployments(dCached) \in Nat \X Nat
    BY Zenon, CountType DEF IInv, EnvTypeOK
  <1>3. eSnap' \in EnvObject
    BY Zenon, <1>2, StatusUpdate DEF setEnvResourceStatus, IInv, EnvTypeOK
  <1>4. /\ eSnap'.gen = eSnap.gen /\ eSnap'.rv = eSnap.rv /\ eSnap'.st.gen = eSnap.st.gen
        /\ eSnap'.st.tns = eSnap.st.tns
    BY Zenon DEF setEnvResourceStatus, IInv, EnvTypeOK, EnvObject, EnvStatuses
  <1>5. SnapOK'
    BY Zenon, <1>4, SnapStays DEF setEnvResourceStatus, IInv, envObject
  <1> QED
    BY Zenon, <1>1, <1>3, <1>4, <1>5, StayKeeps
    DEF setEnvResourceStatus, Stores, EnvSteps, IInv, Builds

LEMMA FinalKeeps == IInv /\ finalStatusError => IInv' /\ StatusStep
  <1> SUFFICES ASSUME IInv, finalStatusError PROVE IInv' /\ StatusStep
    BY Zenon
  <1>1. RestTypeOK' /\ dep' = dep
    BY Zenon, RestStays DEF finalStatusError, IInv, EnvTypeOK, depVars
  <1>2. CASE Fits
    <2> DEFINE o == [eSnap EXCEPT !.st.ready = ResourcesReady(dCached) /\ eSnap.st.cond = "Successful",
                                  !.st.gen = eSnap.gen]
    <2>1. Put(o) /\ eSnap' = env' /\ ePc' = "prune" /\ UNCHANGED <<eQueued, eOld, cEnv, eCached>>
      BY Zenon, <1>2 DEF finalStatusError
    <2>2. o \in EnvObject
      BY Zenon, StatusUpdate, Numbers DEF IInv, EnvTypeOK
    <2>3. o.gen = eSnap.gen /\ o.st.gen = eSnap.gen /\ o.st.tns = eSnap.st.tns
      BY Zenon DEF IInv, EnvTypeOK, EnvObject, EnvStatuses
    <2>4. eSnap.gen = env.gen /\ (env.st.tns # NoNamespace => eSnap.st.tns = env.st.tns)
      BY Zenon, <1>2 DEF Fits, IInv, SnapOK
    <2> HIDE DEF o
    <2>5. o.gen >= env.gen
      BY <2>3, <2>4, Numbers DEF IInv
    <2>6. /\ env' \in EnvObject /\ eWatch' \in Seq(EnvObject) /\ Chain'
          /\ env'.gen = o.gen /\ env'.st = o.st
      BY Zenon, <2>1, <2>2, <2>5, PutEffect DEF IInv, EnvTypeOK
    <2>7. StatusStep
      BY Zenon, <2>3, <2>4, <2>6 DEF StatusStep
    <2>8. EnvTypeOK' /\ Locking'
      BY Zenon, <1>1, <2>1, <2>6 DEF finalStatusError, IInv, EnvTypeOK, RestTypeOK, EnvSteps, Locking
    <2>9. SnapOK'
      BY <2>1, <2>6, EnvFields DEF SnapOK
    <2>10. Builds'
      BY Zenon, <1>1, <2>1, <2>3, <2>4, <2>6, Numbers
      DEF finalStatusError, IInv, Builds, EnvGenerationHonest
    <2> QED
      BY Zenon, <2>6, <2>7, <2>8, <2>9, <2>10 DEF IInv
  <1>3. CASE ~Fits
    BY Zenon, <1>1, <1>3, EndKeeps DEF finalStatusError, Stores
  <1> QED
    BY Zenon, <1>2, <1>3

LEMMA ConditionsKeep == IInv /\ setClowdEnvConditions => IInv' /\ StatusStep
  <1> SUFFICES ASSUME IInv, setClowdEnvConditions PROVE IInv' /\ StatusStep
    BY Zenon
  <1> DEFINE new == EnvStatus(eSnap, "Successful", "none")
  <1>1. new \in EnvStatuses /\ new.gen = eSnap.st.gen /\ new.tns = eSnap.st.tns
    BY Zenon, EnvStatusType DEF IInv, EnvTypeOK, EnvErrors
  <1>2. Conflict(new) \in BOOLEAN
    BY Zenon DEF Conflict
  <1>3. \/ /\ SetClowdEnvConditions(new) /\ EndEnv(Conflict(new)) /\ managed' = ~Conflict(new)
           /\ UNCHANGED faults
        \/ Fault("prune") /\ EndEnv(TRUE) /\ UNCHANGED <<envObject, managed>>
    BY Zenon DEF setClowdEnvConditions
  <1> HIDE DEF new
  <1>4. Stores
    BY Zenon, <1>1, <1>3, ConditionsStore DEF IInv, Stores
  <1>5. PICK b \in BOOLEAN : EndEnv(b)
    BY Zenon, <1>2, <1>3
  <1>6. faults' \in 0..MaxFaults
    BY Zenon, <1>3, FaultCounts DEF IInv, EnvTypeOK
  <1>7. RestTypeOK' /\ dep'.of.own = dep.of.own
    BY Zenon, <1>2, <1>3, <1>6 DEF setClowdEnvConditions, IInv, EnvTypeOK, RestTypeOK, nsVars, depVars
  <1> QED
    BY Zenon, <1>4, <1>5, <1>7, EndKeeps DEF setClowdEnvConditions

LEMMA WorkerKeeps ==
    ASSUME NEW apps \in SUBSET Apps, IInv, EnvWorker(apps)
    PROVE  IInv' /\ (EnvBegin \/ (ePc # "idle" /\ StatusStep))
  <1>1. CASE EnvBegin
    BY Zenon, <1>1, BeginKeeps
  <1>2. CASE ~EnvBegin
    <2>1. ePc # "idle"
      BY Zenon, <1>2 DEF EnvWorker, finalizeEnvironmentImplementation, FinalizeFails, RemoveFinalizer,
                  DeletedUnfinalized, addFinalizerIfRequired, makeTargetNamespace, getTargetNamespace,
                  updateTargetNamespace, isTargetNamespaceMarkedForDeletion, runProviders,
                  setEnvResourceStatus, finalStatusError, setClowdEnvConditions
    <2> QED
      BY Zenon, <1>2, <2>1, FinalizeKeeps, FinalizeFailsKeeps, RemoveFinalizerKeeps, DeletedUnfinalizedKeeps,
         AddFinalizerKeeps, MakeNamespaceKeeps, GetNamespaceKeeps, RecordKeeps, CheckKeeps,
         ProvidersKeep, CountKeeps, FinalKeeps, ConditionsKeep DEF EnvWorker
  <1> QED
    BY Zenon, <1>1, <1>2

----------------------------------------------------------------------------
(* The informers and the rest of the cluster *)

LEMMA DeliverKeeps == IInv /\ DeliverEnv => IInv' /\ UNCHANGED <<env, cEnv>>
  <1> SUFFICES ASSUME IInv, DeliverEnv PROVE IInv'
    BY Zenon DEF DeliverEnv, envWorker
  <1>1. /\ eWatch \in Seq(EnvObject) /\ eWatch # <<>>
        /\ eCached' = Head(eWatch) /\ eWatch' = Tail(eWatch)
    BY Zenon DEF IInv, EnvTypeOK, DeliverEnv
  <1>2. /\ 1 \in 1..Len(eWatch) /\ Head(eWatch) = eWatch[1]
        /\ eCached' \in EnvObject /\ eWatch' \in Seq(EnvObject)
    BY <1>1
  <1>3. /\ Len(eWatch') = Len(eWatch) - 1 /\ Len(eWatch) \in Nat
        /\ \A i \in 1..Len(eWatch') : i + 1 \in 1..Len(eWatch) /\ eWatch'[i] = eWatch[i + 1]
    BY <1>1
  <1>4. UNCHANGED <<env, ePc, eSnap, dep, cEnv>>
    BY Zenon DEF DeliverEnv, envWorker, depVars
  <1>5. EnvTypeOK'
    BY Zenon, <1>2 DEF IInv, EnvTypeOK, DeliverEnv, envWorker, nsVars, depVars
  <1>6. Chain'
    <2>1. eCached'.rv <= env.rv /\ (eCached'.rv = env.rv => eCached' = env) /\ eCached'.gen <= env.gen
      BY Zenon, <1>1, <1>2 DEF IInv, Chain
    <2>2. ASSUME NEW i \in 1..Len(eWatch')
          PROVE  /\ eWatch'[i].rv <= env.rv /\ (eWatch'[i].rv = env.rv => eWatch'[i] = env)
                 /\ eCached'.gen <= eWatch'[i].gen /\ eWatch'[i].gen <= env.gen
      <3>1. i + 1 \in 1..Len(eWatch) /\ eWatch'[i] = eWatch[i + 1] /\ 1 <= i + 1
        BY <1>3, <2>2
      <3> QED
        BY Zenon, <1>1, <1>2, <3>1 DEF IInv, Chain
    <2>3. ASSUME NEW i \in 1..Len(eWatch'), NEW j \in 1..Len(eWatch'), i <= j
          PROVE  eWatch'[i].gen <= eWatch'[j].gen
      <3>1. /\ i + 1 \in 1..Len(eWatch) /\ eWatch'[i] = eWatch[i + 1]
            /\ j + 1 \in 1..Len(eWatch) /\ eWatch'[j] = eWatch[j + 1]
        BY Zenon, <1>3, <2>3
      <3>2. i + 1 <= j + 1
        BY <1>3, <2>3
      <3> QED
        BY Zenon, <3>1, <3>2 DEF IInv, Chain
    <2> QED
      BY Zenon, <1>4, <2>1, <2>2, <2>3 DEF IInv, Chain
  <1>7. Locking' /\ SnapOK'
    BY Zenon, <1>4 DEF IInv, Locking, SnapOK
  <1>8. Builds'
    <2>1. eCached.gen <= eCached'.gen
      BY Zenon, <1>1, <1>2 DEF IInv, Chain
    <2>2. eCached'.gen \in Nat
      BY Zenon, <1>2, EnvFields
    <2> QED
      BY <1>4, <2>1, <2>2, Numbers DEF IInv, Builds, EnvGenerationHonest
  <1> QED
    BY Zenon, <1>5, <1>6, <1>7, <1>8 DEF IInv

\* The environment's Deployment is only ever rebuilt by the worker.
LEMMA RollTypes ==
    ASSUME NEW d \in Deployment, NEW e \in RollSteps(d)
    PROVE  e \in Deployment /\ e.of = d.of
  <1>1. CASE d.there /\ d.obs < d.gen
    <2> DEFINE left == IF d.pod = 3 THEN 1 ELSE d.old
    <2>1. d.gen \in Nat /\ left \in 0..1 /\ 0 \in 0..3
      BY DEF Deployment
    <2>2. e = [d EXCEPT !.obs = d.gen] \/ e = [d EXCEPT !.obs = d.gen, !.pod = 0, !.old = left]
      BY Zenon, <1>1 DEF RollSteps
    <2> HIDE DEF left
    <2>3. CASE e = [d EXCEPT !.obs = d.gen]
      BY Zenon, <2>1, <2>3 DEF Deployment
    <2>4. CASE e = [d EXCEPT !.obs = d.gen, !.pod = 0, !.old = left]
      BY Zenon, <2>1, <2>4 DEF Deployment
    <2> QED
      BY Zenon, <2>2, <2>3, <2>4
  <1>2. CASE d.there /\ ~(d.obs < d.gen) /\ d.pod < 3
    <2>1. d.pod + 1 \in 0..3
      BY <1>2 DEF Deployment
    <2>2. e = [d EXCEPT !.pod = d.pod + 1]
      BY Zenon, <1>2 DEF RollSteps
    <2> QED
      BY Zenon, <2>1, <2>2 DEF Deployment
  <1>3. CASE d.there /\ ~(d.obs < d.gen) /\ ~(d.pod < 3)
    BY <1>3 DEF RollSteps, Deployment
  <1> QED
    BY Zenon, <1>1, <1>2, <1>3 DEF RollSteps

\* Steps that leave the environment and the worker alone.
LEMMA AsideKeeps ==
    ASSUME IInv, UNCHANGED <<env, eWatch, eCached, ePc, eSnap, eOld, cEnv>>, eQueued' \in BOOLEAN,
           RestTypeOK', dep'.of = dep.of
    PROVE  IInv'
  <1>1. EnvTypeOK'
    BY Zenon DEF IInv, EnvTypeOK, RestTypeOK
  <1> QED
    BY Zenon, <1>1 DEF IInv, Locking, Chain, SnapOK, Builds, EnvGenerationHonest

LEMMA InformersKeep == IInv /\ EnvInformers => IInv' /\ UNCHANGED <<env, cEnv>>
  <1> SUFFICES ASSUME IInv, EnvInformers PROVE IInv' /\ UNCHANGED <<env, cEnv>>
    BY Zenon
  <1>1. CASE DeliverEnv
    BY Zenon, <1>1, DeliverKeeps
  <1>2. CASE DeliverDeployment
    <2>1. dWatch \in Seq(Deployment) /\ dWatch # <<>>
      BY Zenon, <1>2 DEF IInv, EnvTypeOK, DeliverDeployment
    <2>2. dCached' \in Deployment /\ dWatch' \in Seq(Deployment)
      BY <1>2, <2>1 DEF DeliverDeployment
    <2>3. eQueued' \in BOOLEAN
      BY Zenon, <1>2 DEF IInv, EnvTypeOK, DeliverDeployment, DeploymentWakes, deploymentUpdateFunc
    <2>4. RestTypeOK'
      BY Zenon, <1>2, <2>2 DEF IInv, EnvTypeOK, RestTypeOK, DeliverDeployment, envWorker, nsVars
    <2> QED
      BY Zenon, <1>2, <2>3, <2>4, AsideKeeps DEF DeliverDeployment, envObject, envWorker
  <1>3. CASE \E n \in Namespaces : DeliverNamespace(n)
    <2>1. PICK n \in Namespaces : DeliverNamespace(n)
      BY Zenon, <1>3
    <2>2. nsView' \in [Namespaces -> NsStates]
      BY Zenon, <2>1 DEF IInv, EnvTypeOK, DeliverNamespace
    <2>3. RestTypeOK' /\ dep' = dep /\ eQueued' \in BOOLEAN
      BY Zenon, <2>1, <2>2 DEF IInv, EnvTypeOK, RestTypeOK, DeliverNamespace, envWorker, depVars
    <2> QED
      BY Zenon, <2>1, <2>3, AsideKeeps DEF DeliverNamespace, envObject, envWorker
  <1> QED
    BY Zenon, <1>1, <1>2, <1>3 DEF EnvInformers

LEMMA EditCounts ==
    ASSUME EnvTypeOK, NEW kind, UserEdit(kind)
    PROVE  edits' \in 0..MaxEdits
  <1>1. edits \in 0..MaxEdits /\ MaxEdits \in Nat
    BY Zenon, EnvBoundsAssumption DEF EnvTypeOK
  <1>2. edits < MaxEdits /\ edits' = edits + 1
    BY Zenon DEF UserEdit
  <1> QED
    BY <1>1, <1>2

\* A change by someone else makes every version the worker holds stale.
LEMMA OutsideKeeps ==
    ASSUME IInv, NEW o \in EnvObject, Put(o), o # env, o.gen >= env.gen, o.st = env.st,
           UNCHANGED <<eCached, eQueued, envWorker, nsVars, depVars, faults>>, edits' \in 0..MaxEdits
    PROVE  IInv' /\ env'.st = env.st /\ env'.gen = o.gen /\ UNCHANGED cEnv
  <1>1. /\ env' \in EnvObject /\ eWatch' \in Seq(EnvObject) /\ Chain'
        /\ env'.gen = o.gen /\ env'.st = o.st
    BY Zenon, PutEffect DEF IInv, EnvTypeOK
  <1>2. env'.rv = env.rv + 1
    <2>1. env' = [o EXCEPT !.rv = env.rv + 1]
      BY Zenon DEF Put
    <2> QED
      BY Zenon, <2>1 DEF EnvObject
  <1>3. EnvTypeOK'
    BY Zenon, <1>1 DEF IInv, EnvTypeOK, envWorker, nsVars, depVars
  <1>4. Locking' /\ UNCHANGED cEnv
    BY Zenon DEF IInv, Locking, envWorker
  <1>5. SnapOK'
    <2>1. eSnap.rv <= env.rv /\ eSnap.rv \in Nat /\ env.rv \in Nat /\ eSnap' = eSnap
      BY Zenon, Numbers DEF IInv, SnapOK, envWorker
    <2>2. eSnap'.rv <= env'.rv /\ eSnap'.rv # env'.rv
      BY <1>2, <2>1
    <2> QED
      BY Zenon, <2>2 DEF SnapOK
  <1>6. Builds'
    BY Zenon, <1>1 DEF IInv, Builds, EnvGenerationHonest, envWorker, depVars
  <1> QED
    BY Zenon, <1>1, <1>3, <1>4, <1>5, <1>6 DEF IInv

LEMMA EditKeeps == IInv /\ EditEnv => IInv' /\ env'.st = env.st /\ env'.gen = env.gen + 1 /\ UNCHANGED cEnv
  <1> SUFFICES ASSUME IInv, EditEnv
               PROVE  IInv' /\ env'.st = env.st /\ env'.gen = env.gen + 1 /\ UNCHANGED cEnv
    BY Zenon
  <1>1. PICK o : /\ Put(o)
                 /\ \/ o = [env EXCEPT !.gen = env.gen + 1]
                    \/ o = [env EXCEPT !.gen = env.gen + 1, !.disabled = ~env.disabled]
                    \/ o = [env EXCEPT !.gen = env.gen + 1, !.deleting = TRUE,
                                       !.there = env.fin \/ env.held]
    BY Zenon DEF EditEnv
  <1>2. edits' \in 0..MaxEdits
    BY Zenon, EditCounts DEF EditEnv, IInv
  <1>3. env \in EnvObject /\ env.gen \in Nat /\ env.gen + 1 \in Nat
    <2>1. env \in EnvObject /\ env.gen \in Nat
      BY Zenon, Numbers DEF IInv, EnvTypeOK
    <2> QED
      BY <2>1
  <1>4. (~env.disabled) \in BOOLEAN /\ (env.fin \/ env.held) \in BOOLEAN
    BY Zenon
  <1>5. o \in EnvObject
    <2> DEFINE g == env.gen + 1
               d == ~env.disabled
               t == env.fin \/ env.held
    <2>1. g \in Nat /\ d \in BOOLEAN /\ t \in BOOLEAN
      BY Zenon, <1>3, <1>4
    <2>2. \/ o = [env EXCEPT !.gen = g] \/ o = [env EXCEPT !.gen = g, !.disabled = d]
          \/ o = [env EXCEPT !.gen = g, !.deleting = TRUE, !.there = t]
      BY Zenon, <1>1
    <2> HIDE DEF g, d, t
    <2>3. [env EXCEPT !.gen = g] \in EnvObject
      BY Zenon, <1>3, <2>1, EnvUpdate
    <2>4. [env EXCEPT !.gen = g, !.disabled = d] \in EnvObject
      BY Zenon, <1>3, <2>1, EnvUpdate
    <2>5. [env EXCEPT !.gen = g, !.deleting = TRUE, !.there = t] \in EnvObject
      BY Zenon, <1>3, <2>1, EnvUpdate
    <2> QED
      BY Zenon, <2>2, <2>3, <2>4, <2>5
  <1>6. o.gen = env.gen + 1 /\ o.st = env.st
    BY Zenon, <1>1, <1>3 DEF EnvObject
  <1>7. o # env /\ o.gen >= env.gen
    BY <1>3, <1>6
  <1> QED
    BY Zenon, <1>1, <1>2, <1>5, <1>6, <1>7, OutsideKeeps DEF EditEnv

LEMMA ReleaseKeeps == IInv /\ ReleaseHold => IInv' /\ env'.st = env.st /\ env'.gen = env.gen /\ UNCHANGED cEnv
  <1> SUFFICES ASSUME IInv, ReleaseHold
               PROVE  IInv' /\ env'.st = env.st /\ env'.gen = env.gen /\ UNCHANGED cEnv
    BY Zenon
  <1> DEFINE o == [env EXCEPT !.held = FALSE, !.there = env.fin]
  <1>1. env \in EnvObject /\ env.gen \in Nat /\ edits' \in 0..MaxEdits
    BY Zenon, Numbers DEF IInv, EnvTypeOK, ReleaseHold
  <1>2. o \in EnvObject
    BY Zenon, <1>1, EnvUpdate, EnvFields
  <1>3. o.gen = env.gen /\ o.st = env.st /\ o.held = FALSE
    BY Zenon, <1>1 DEF EnvObject
  <1>4. o # env /\ o.gen >= env.gen
    <2>1. env.held = TRUE
      BY Zenon, <1>1, EnvFields DEF ReleaseHold
    <2> HIDE DEF o
    <2> QED
      BY <1>1, <1>3, <2>1
  <1>5. Put(o)
    BY Zenon DEF ReleaseHold
  <1> HIDE DEF o
  <1> QED
    BY Zenon, <1>1, <1>2, <1>3, <1>4, <1>5, OutsideKeeps DEF ReleaseHold

\* GiveNamespace, DropNamespace, SyncDeployment and PodFails.
LEMMA ClusterKeeps ==
    ASSUME IInv, EnvCluster, ~EditEnv, ~ReleaseHold
    PROVE  IInv' /\ UNCHANGED <<env, cEnv>>
  <1>1. CASE GiveNamespace
    <2>1. ns' \in [Namespaces -> NsStates]
      BY Zenon, <1>1 DEF IInv, EnvTypeOK, GiveNamespace, NsStates
    <2>2. RestTypeOK' /\ dep' = dep /\ eQueued' \in BOOLEAN
      BY Zenon, <1>1, <2>1 DEF IInv, EnvTypeOK, RestTypeOK, GiveNamespace, envWorker, depVars
    <2> QED
      BY Zenon, <1>1, <2>2, AsideKeeps DEF GiveNamespace, envObject, envWorker
  <1>2. CASE \E n \in Namespaces : DropNamespace(n)
    <2>1. PICK n \in Namespaces : DropNamespace(n)
      BY Zenon, <1>2
    <2>2. ns' \in [Namespaces -> NsStates]
      BY Zenon, <2>1 DEF IInv, EnvTypeOK, DropNamespace, NsStates
    <2>3. edits' \in 0..MaxEdits
      BY Zenon, <2>1, EditCounts DEF IInv, EnvTypeOK, DropNamespace
    <2>4. RestTypeOK' /\ dep' = dep /\ eQueued' \in BOOLEAN
      BY Zenon, <2>1, <2>2, <2>3 DEF IInv, EnvTypeOK, RestTypeOK, DropNamespace, envWorker, depVars
    <2> QED
      BY Zenon, <2>1, <2>4, AsideKeeps DEF DropNamespace, envObject, envWorker
  <1>3. CASE SyncDeployment
    <2>1. dep \in Deployment /\ dWatch \in Seq(Deployment)
      BY Zenon DEF IInv, EnvTypeOK
    <2>2. dep' \in Deployment /\ dep'.of = dep.of
      BY Zenon, <1>3, <2>1, RollTypes DEF SyncDeployment
    <2>3. dWatch' \in Seq(Deployment)
      BY <1>3, <2>1, <2>2 DEF SyncDeployment
    <2>4. RestTypeOK' /\ eQueued' \in BOOLEAN
      BY Zenon, <1>3, <2>2, <2>3 DEF IInv, EnvTypeOK, RestTypeOK, SyncDeployment, envWorker, nsVars
    <2> QED
      BY Zenon, <1>3, <2>2, <2>4, AsideKeeps DEF SyncDeployment, envObject, envWorker
  <1>4. CASE PodFails
    <2>1. dep \in Deployment /\ dWatch \in Seq(Deployment)
      BY Zenon DEF IInv, EnvTypeOK
    <2>2. dep' \in Deployment /\ dep'.of = dep.of
      <3>1. dep' = [dep EXCEPT !.pod = 1]
        BY Zenon, <1>4 DEF PodFails
      <3>2. 1 \in 0..3
        OBVIOUS
      <3> QED
        BY Zenon, <2>1, <3>1, <3>2 DEF Deployment
    <2>3. dWatch' \in Seq(Deployment)
      BY <1>4, <2>1, <2>2 DEF PodFails
    <2>4. faults' \in 0..MaxFaults
      BY Zenon, <1>4, FaultCounts DEF PodFails, IInv
    <2>5. RestTypeOK' /\ eQueued' \in BOOLEAN
      BY Zenon, <1>4, <2>2, <2>3, <2>4 DEF IInv, EnvTypeOK, RestTypeOK, PodFails, envWorker, nsVars
    <2> QED
      BY Zenon, <1>4, <2>2, <2>5, AsideKeeps DEF PodFails, envObject, envWorker
  <1> QED
    BY Zenon, <1>1, <1>2, <1>3, <1>4 DEF EnvCluster

LEMMA EmptyQueues ==
    <<>> \in Seq(EnvObject) /\ <<>> \in Seq(Deployment) /\ 1..Len(<<>>) = {}
  <1>1. Len(<<>>) = 0
    BY Zenon
  <1> QED
    BY <1>1

LEMMA CrashKeeps == IInv /\ EnvCrash => IInv' /\ UNCHANGED env /\ cEnv' = ""
  <1> SUFFICES ASSUME IInv, EnvCrash PROVE IInv' /\ UNCHANGED env /\ cEnv' = ""
    BY Zenon
  <1>1. faults' \in 0..MaxFaults
    BY Zenon, FaultCounts DEF EnvCrash, IInv
  <1>2. eSnap' \in EnvObject /\ eOld' \in EnvStatuses /\ eSnap'.rv = 0
    BY Zenon, FreshTypes DEF EnvCrash, NoEnv
  <1>3. eWatch' \in Seq(EnvObject) /\ dWatch' \in Seq(Deployment) /\ 1..Len(eWatch') = {}
    BY Zenon, EmptyQueues DEF EnvCrash
  <1>4. eQueued' \in BOOLEAN
    BY Zenon, EnvFields DEF EnvCrash, IInv, EnvTypeOK
  <1>5. EnvTypeOK'
    BY Zenon, <1>1, <1>2, <1>3, <1>4 DEF EnvCrash, IInv, EnvTypeOK, EnvSteps
  <1>6. Locking'
    BY Zenon DEF EnvCrash, Locking
  <1>7. /\ env' = env /\ eCached' = env /\ dep' = dep /\ ePc' = "idle"
        /\ env.rv \in Nat /\ env.rv >= 1 /\ env.gen \in Nat
    BY Zenon, Numbers DEF EnvCrash, IInv, Chain
  <1>8. Chain'
    <2>1. env'.rv >= 1 /\ eCached'.rv <= env'.rv /\ eCached'.gen <= env'.gen /\ eCached' = env'
      BY <1>7
    <2> QED
      BY Zenon, <1>3, <2>1 DEF Chain
  <1>9. SnapOK'
    BY <1>2, <1>7 DEF SnapOK
  <1>10. Builds'
    <2>1. dep.of.own <= env.gen
      <3>1. dep.of.own <= eCached.gen /\ eCached.gen <= env.gen
        BY Zenon DEF IInv, Chain, Builds
      <3>2. dep.of.own \in Nat /\ eCached.gen \in Nat /\ env.gen \in Nat
        BY Zenon, Numbers DEF IInv
      <3> QED
        BY <3>1, <3>2
    <2> QED
      BY Zenon, <1>7, <2>1 DEF IInv, Builds, EnvGenerationHonest
  <1> QED
    BY Zenon, <1>5, <1>6, <1>8, <1>9, <1>10 DEF IInv, EnvCrash

----------------------------------------------------------------------------
(* Theorems *)

LEMMA InitInv == EnvInit => IInv
  <1> SUFFICES ASSUME EnvInit PROVE IInv
    BY Zenon
  <1> PICK auto \in AutoChoices : env = IF Established THEN SettledEnv(auto) ELSE NewEnv(auto)
    BY Zenon DEF EnvInit
  <1>0. NewEnv(auto) \in EnvObject
    BY Zenon, FreshTypes, EnvBoundsAssumption
  <1>1. NewEnv(auto).rv = 1 /\ NewEnv(auto).gen = 1 /\ NewEnv(auto).st.gen = 0
    BY Zenon DEF NewEnv, NoEnv, FreshEnvStatus
  <1>2. SettledDeployment \in Deployment /\ NoDeployment \in Deployment
    BY DEF SettledDeployment, NoDeployment, NoBuild, Deployment, Build
  <1>3. /\ SettledEnv(auto) \in EnvObject /\ SettledEnv(auto).rv = 1 /\ SettledEnv(auto).gen = 1
        /\ SettledEnv(auto).st.gen = 1
    <2> DEFINE st == [tns |-> 1, gen |-> 1, ready |-> TRUE, cond |-> "Successful", err |-> "none",
                      obs |-> 1, dcond |-> TRUE, count |-> countDeployments(SettledDeployment),
                      apps |-> Apps]
    <2>1. countDeployments(SettledDeployment) \in Nat \X Nat
      BY Zenon, <1>2, CountType
    <2>2. st \in EnvStatuses /\ st.gen = 1
      BY Zenon, <2>1, NamespacesAssumption DEF EnvStatuses, EnvErrors
    <2>3. SettledEnv(auto) = [NewEnv(auto) EXCEPT !.fin = TRUE, !.st = st]
      BY Zenon DEF SettledEnv
    <2> HIDE DEF st
    <2> QED
      BY Zenon, <1>0, <1>1, <2>2, <2>3 DEF EnvObject
  <1>4. env \in EnvObject /\ env.rv = 1 /\ env.gen = 1 /\ env.st.gen \in {0, 1}
    BY Zenon, <1>0, <1>1, <1>3
  <1>5. dep \in Deployment
    BY Zenon, <1>2 DEF EnvInit
  <1>6. dep.of.own \in {0, 1} /\ (EnvDeploys => env.st.gen <= dep.of.own)
    <2>1. NoDeployment.of.own = 0
      BY Zenon DEF NoDeployment, NoBuild
    <2>2. SettledDeployment.of.own = IF EnvDeploys THEN 1 ELSE 0
      BY Zenon, <2>1 DEF SettledDeployment
    <2>3. CASE Established
      <3>1. env = SettledEnv(auto) /\ dep = SettledDeployment
        BY Zenon, <2>3 DEF EnvInit
      <3>2. env.st.gen = 1 /\ dep.of.own = IF EnvDeploys THEN 1 ELSE 0
        BY Zenon, <1>3, <2>2, <3>1
      <3> QED
        BY <3>2
    <2>4. CASE ~Established
      <3>1. env = NewEnv(auto) /\ dep = NoDeployment
        BY Zenon, <2>4 DEF EnvInit
      <3>2. env.st.gen = 0 /\ dep.of.own = 0
        BY Zenon, <1>1, <2>1, <3>1
      <3> QED
        BY <3>2
    <2> QED
      BY Zenon, <2>3, <2>4
  <1>7. EnvTypeOK
    <2>1. eWatch \in Seq(EnvObject) /\ dWatch \in Seq(Deployment)
      BY Zenon, EmptyQueues DEF EnvInit
    <2>2. ns \in [Namespaces -> NsStates] /\ nsView \in [Namespaces -> NsStates]
      BY Zenon DEF EnvInit, NsStates
    <2>3. edits \in 0..MaxEdits /\ faults \in 0..MaxFaults
      <3>1. edits = 0 /\ faults = 0 /\ MaxEdits \in Nat /\ MaxFaults \in Nat
        BY Zenon, EnvBoundsAssumption DEF EnvInit
      <3> QED
        BY <3>1
    <2>4. eSnap \in EnvObject /\ eOld \in EnvStatuses /\ eCached \in EnvObject /\ dCached \in Deployment
      BY Zenon, <1>4, <1>5, FreshTypes DEF EnvInit
    <2>5. ePc \in EnvSteps /\ cEnv \in {"", "env"} /\ eQueued \in BOOLEAN
      BY Zenon DEF EnvInit, EnvSteps
    <2>6. present \in BOOLEAN /\ managed \in BOOLEAN
      BY Zenon DEF EnvInit
    <2> QED
      BY Zenon, <1>4, <1>5, <2>1, <2>2, <2>3, <2>4, <2>5, <2>6 DEF EnvTypeOK
  <1>8. Locking /\ Chain /\ SnapOK
    <2>1. eSnap.rv = 0 /\ 1..Len(eWatch) = {} /\ eCached = env /\ ePc = "idle" /\ cEnv = ""
      BY Zenon, EmptyQueues DEF EnvInit, NoEnv
    <2>2. env.rv = 1 /\ env.gen \in Nat
      BY <1>4
    <2>3. Chain
      <3>1. env.rv >= 1 /\ env.rv <= env.rv /\ env.gen <= env.gen
        BY <2>2
      <3> QED
        BY Zenon, <2>1, <3>1 DEF Chain
    <2>4. SnapOK
      <3>1. eSnap.rv = 0 /\ env.rv = 1
        BY Zenon, <2>1, <2>2
      <3>2. eSnap.rv <= env.rv /\ eSnap.rv # env.rv
        BY <3>1
      <3> QED
        BY Zenon, <3>2 DEF SnapOK
    <2> QED
      BY Zenon, <2>1, <2>3, <2>4 DEF Locking
  <1>9. Builds
    <2>1. eCached = env /\ ePc = "idle"
      BY Zenon DEF EnvInit
    <2> QED
      BY <1>4, <1>6, <2>1 DEF Builds, EnvGenerationHonest
  <1> QED
    BY Zenon, <1>7, <1>8, <1>9 DEF IInv

LEMMA StepInv == IInv /\ [EnvNext]_envVars => IInv'
  <1> SUFFICES ASSUME IInv, [EnvNext]_envVars PROVE IInv'
    BY Zenon
  <1>1. CASE EnvWorker({})
    BY Zenon, <1>1, WorkerKeeps
  <1>2. CASE EnvCluster
    BY Zenon, <1>2, EditKeeps, ReleaseKeeps, ClusterKeeps
  <1>3. CASE UNCHANGED envVars
    BY Zenon, <1>3 DEF envVars, IInv, EnvTypeOK, Locking, Chain, SnapOK, Builds, EnvGenerationHonest
  <1> QED
    BY Zenon, <1>1, <1>2, <1>3, InformersKeep, CrashKeeps DEF EnvNext

\* Every variable of the ClowdEnvironment controller keeps its shape, for any
\* number of namespaces, apps, edits and faults.
THEOREM EnvTypeInvariant == EnvSpec => []EnvTypeOK
  <1>1. IInv => EnvTypeOK
    BY Zenon DEF IInv
  <1> QED
    BY <1>1, InitInv, StepInv, PTL DEF EnvSpec

\* status.generation is never ahead of what has been applied: the reconcile that
\* records it is the only one that builds the Deployment, and its object is not
\* stale when the write is accepted.
THEOREM GenerationTheorem == EnvSpec => []EnvGenerationHonest
  <1>1. IInv => EnvGenerationHonest
    BY Zenon DEF IInv, Builds
  <1> QED
    BY <1>1, InitInv, StepInv, PTL DEF EnvSpec

\* What each step does to the stored object.
LEMMA StepEffect ==
    ASSUME IInv, [EnvNext]_envVars
    PROVE  \/ env'.st = env.st /\ env'.gen \in {env.gen, env.gen + 1} /\ UNCHANGED cEnv
           \/ UNCHANGED env /\ cEnv' = ""
           \/ UNCHANGED env /\ ePc = "idle" /\ ePc' # "idle"
           \/ ePc # "idle" /\ StatusStep
  <1>1. CASE EnvWorker({})
    <2>1. CASE EnvBegin
      <3>1. UNCHANGED env
        BY Zenon, <2>1 DEF EnvBegin, envObject
      <3>2. CASE eCached.there
        BY Zenon, <2>1, <3>1, <3>2 DEF EnvBegin
      <3>3. CASE ~eCached.there
        BY Zenon, <2>1, <3>1, <3>3 DEF EnvBegin, envWorker
      <3> QED
        BY Zenon, <3>2, <3>3
    <2> QED
      BY Zenon, <1>1, <2>1, WorkerKeeps
  <1>2. CASE EnvCluster
    BY Zenon, <1>2, EditKeeps, ReleaseKeeps, ClusterKeeps
  <1>3. CASE UNCHANGED envVars
    BY Zenon, <1>3 DEF envVars
  <1> QED
    BY Zenon, <1>1, <1>2, <1>3, InformersKeep, CrashKeeps DEF EnvNext

\* A stored target namespace is never replaced, however stale the object a
\* reconcile started from: its version no longer fits and the write is refused.
THEOREM TargetStableTheorem == EnvSpec => TargetStable
  <1>1. IInv /\ [EnvNext]_envVars => [env.st.tns # NoNamespace => env'.st.tns = env.st.tns]_env
    BY Zenon, StepEffect DEF StatusStep
  <1> QED
    BY <1>1, InitInv, StepInv, PTL DEF EnvSpec, TargetStable

\* The controller implements the contract ClowdApps rely on: the status changes
\* only under the lock, and reports an earlier report or the current generation.
THEOREM ContractRefinement == EnvSpec => EnvContractSpec
  <1>1. EnvInit => Contract!Init
    <2> SUFFICES ASSUME EnvInit PROVE Contract!Init
      BY Zenon
    <2>1. env \in EnvObject
      BY Zenon, InitInv DEF IInv, EnvTypeOK
    <2>2. env.gen = 1 /\ env.st.gen \in {0, 1}
      <3>1. \A b : /\ NewEnv(b).gen = 1 /\ NewEnv(b).st.gen = 0
                   /\ SettledEnv(b).gen = 1 /\ SettledEnv(b).st.gen = 1
        BY Zenon DEF SettledEnv, NewEnv, NoEnv, FreshEnvStatus
      <3> QED
        BY Zenon, <3>1 DEF EnvInit
    <2>3. env.st.ready \in BOOLEAN /\ (cEnv = "env") = FALSE
      BY Zenon, <2>1 DEF EnvObject, EnvStatuses, EnvInit
    <2> QED
      BY <2>2, <2>3 DEF Contract!Init
  <1>2. IInv /\ IInv' /\ [EnvNext]_envVars
        => [Contract!Next]_<<env.gen, env.st.gen, env.st.ready, cEnv = "env">>
    <2> SUFFICES ASSUME IInv, IInv', [EnvNext]_envVars
                 PROVE  [Contract!Next]_<<env.gen, env.st.gen, env.st.ready, cEnv = "env">>
      BY Zenon
    <2>1. CASE env'.st = env.st /\ env'.gen \in {env.gen, env.gen + 1} /\ UNCHANGED cEnv
      BY Zenon, <2>1 DEF Contract!Next, Contract!Edit
    <2>2. (env.st.ready)' \in BOOLEAN /\ (cEnv = "env")' \in BOOLEAN
      BY Zenon DEF IInv, EnvTypeOK, EnvObject, EnvStatuses
    <2>3. CASE UNCHANGED env /\ cEnv' = ""
      BY Zenon, <2>2, <2>3 DEF Contract!Next, Contract!Publish
    <2>4. CASE UNCHANGED env /\ ePc = "idle" /\ ePc' # "idle"
      BY Zenon, <2>4 DEF IInv, Locking, Contract!Next, Contract!Lock
    <2>5. CASE ePc # "idle" /\ StatusStep
      BY Zenon, <2>2, <2>5 DEF IInv, Locking, StatusStep, Contract!Next, Contract!Publish
    <2> QED
      BY Zenon, <2>1, <2>3, <2>4, <2>5, StepEffect
  <1> QED
    BY <1>1, <1>2, InitInv, StepInv, PTL DEF EnvSpec, EnvContractSpec, Contract!Spec

=============================================================================
