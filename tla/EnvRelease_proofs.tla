------------------------ MODULE EnvRelease_proofs -------------------------
(* The namespace generated for a ClowdEnvironment is not left active when   *)
(* the environment is gone.  The finalizer goes only in a reconcile that     *)
(* has read the mark of deletion; from then on every version the worker can  *)
(* read has the mark, so no reconcile gets as far as drawing a name again.   *)
EXTENDS Environment_proofs

----------------------------------------------------------------------------
(* The inductive invariant *)

\* Once marked for deletion an environment stays marked, and its namespace
\* generated or given, in every version on its way to the informer.
Marks ==
    /\ eCached.deleting => env.deleting
    /\ eCached.auto = env.auto
    /\ \A i \in 1..Len(eWatch) : eWatch[i].auto = env.auto
    /\ \A i \in 1..Len(eWatch) : /\ eCached.deleting => eWatch[i].deleting
                                 /\ eWatch[i].deleting => env.deleting
    /\ \A i, j \in 1..Len(eWatch) : i <= j /\ eWatch[i].deleting => eWatch[j].deleting

Carries(o, p) == o.there = p.there /\ o.deleting = p.deleting /\ o.fin = p.fin /\ o.auto = p.auto

\* The worker's object, unless it is stale, is as alive as the stored one.
Reading == eSnap.rv = env.rv => Carries(eSnap, env)

Finalizing == {"finalizer", "unfinalize"}

\* Beyond the finalizer the environment was not marked and has its finalizer.
Phases ==
    /\ ePc # "idle" /\ eSnap.deleting => eCached.deleting
    /\ ePc \notin {"idle"} \cup Finalizing => ~eSnap.deleting /\ eSnap.fin
    /\ ePc = "unfinalize" => eSnap.deleting
    /\ ePc # "idle" => eSnap.auto = env.auto

\* Namespace t has been given back, if that is to be expected.
Released(t) == env.auto /\ "nsdelete" \notin Faults => ns[t] # "active"

\* What holds once the finalizer is gone, or is about to go.
Freed ==
    /\ ePc = "unfinalize" /\ eSnap.st.tns # NoNamespace => Released(eSnap.st.tns)
    /\ env.st.tns # NoNamespace /\ ~env.fin =>
         /\ env.deleting /\ eCached.deleting /\ (ePc # "idle" => eSnap.deleting)
         /\ Released(env.st.tns)
    /\ ~env.there => ~env.fin

RInv == IInv /\ Marks /\ Reading /\ Phases /\ Freed

----------------------------------------------------------------------------
(* Writes *)

\* A version that is stored is marked if the one before it was.
LEMMA MarksGrow ==
    ASSUME EnvTypeOK, Marks, eCached' = eCached, env' \in EnvObject,
           eWatch' = Append(eWatch, env'), env.deleting => env'.deleting, env'.auto = env.auto
    PROVE  Marks'
  <1>1. /\ Len(eWatch) \in Nat /\ Len(eWatch') = Len(eWatch) + 1
        /\ \A i \in 1..Len(eWatch) : eWatch'[i] = eWatch[i]
        /\ eWatch'[Len(eWatch) + 1] = env'
    <2>1. eWatch \in Seq(EnvObject)
      BY Zenon DEF EnvTypeOK
    <2> QED
      BY <2>1
  <1>2. \A i \in 1..Len(eWatch') : i = Len(eWatch) + 1 \/ i \in 1..Len(eWatch)
    BY <1>1
  <1>3. ASSUME NEW i \in 1..Len(eWatch')
        PROVE  /\ eWatch'[i].auto = env'.auto
               /\ (eCached.deleting => eWatch'[i].deleting) /\ (eWatch'[i].deleting => env'.deleting)
    BY Zenon, <1>1, <1>2 DEF Marks
  <1>4. ASSUME NEW i \in 1..Len(eWatch'), NEW j \in 1..Len(eWatch'), i <= j, eWatch'[i].deleting
        PROVE  eWatch'[j].deleting
    <2>1. CASE j = Len(eWatch) + 1
      BY Zenon, <1>1, <1>3, <1>4, <2>1
    <2>2. CASE j \in 1..Len(eWatch)
      <3>1. i \in 1..Len(eWatch)
        BY <1>1, <1>4, <2>2
      <3> QED
        BY Zenon, <1>1, <1>4, <2>2, <3>1 DEF Marks
    <2> QED
      BY Zenon, <1>2, <2>1, <2>2
  <1> QED
    BY Zenon, <1>3, <1>4 DEF Marks

\* What a step may write: a version as alive as the worker's, which is not stale.
Writes ==
    \/ UNCHANGED envObject
    \/ Fits /\ eWatch' = Append(eWatch, env') /\ Carries(env', eSnap)

LEMMA PutWrites ==
    ASSUME NEW o \in EnvObject, Fits, Put(o), Carries(o, eSnap), Reading
    PROVE  Writes /\ Carries(env', eSnap)
  <1>1. CASE o = env
    BY Zenon, <1>1 DEF Put, Writes, envObject, Fits, Reading, Carries
  <1>2. CASE o # env
    <2>1. env' = [o EXCEPT !.rv = env.rv + 1] /\ eWatch' = Append(eWatch, env')
      BY Zenon, <1>2 DEF Put
    <2>2. env'.there = o.there /\ env'.deleting = o.deleting /\ env'.fin = o.fin /\ env'.auto = o.auto
      BY Zenon, <2>1 DEF EnvObject
    <2> QED
      BY Zenon, <2>1, <2>2 DEF Writes, Carries
  <1> QED
    BY Zenon, <1>1, <1>2

LEMMA ConditionsWrite ==
    ASSUME eSnap \in EnvObject, Reading, NEW new \in EnvStatuses, SetClowdEnvConditions(new)
    PROVE  Writes
  <1> DEFINE o == [eSnap EXCEPT !.st = new]
  <1>1. o \in EnvObject
    BY Zenon, EnvUpdate
  <1>2. Carries(o, eSnap)
    BY Zenon DEF Carries, EnvObject
  <1>3. UNCHANGED envObject \/ (Fits /\ Put(o))
    BY Zenon DEF SetClowdEnvConditions
  <1> HIDE DEF o
  <1> QED
    BY Zenon, <1>1, <1>2, <1>3, PutWrites DEF Writes

LEMMA FailsWrite ==
    ASSUME RInv, NEW o \in EnvObject, NEW err \in EnvErrors, EnvFails(o, err)
    PROVE  Writes /\ EndEnv(TRUE)
  <1>1. EnvStatus(o, "Failed", err) \in EnvStatuses
    BY Zenon, EnvStatusType DEF RInv, IInv, EnvTypeOK
  <1> QED
    BY Zenon, <1>1, ConditionsWrite DEF EnvFails, RInv, IInv, EnvTypeOK

\* Such a write keeps the marks, and an environment with its finalizer.
LEMMA WritesKeep ==
    ASSUME RInv, IInv', Writes, eCached' = eCached, ePc \notin {"idle"} \cup Finalizing
    PROVE  Marks' /\ env'.auto = env.auto /\ (env' = env \/ (env'.fin /\ env'.there))
  <1>1. CASE UNCHANGED envObject
    BY Zenon, <1>1 DEF RInv, Marks, envObject
  <1>2. CASE Fits /\ eWatch' = Append(eWatch, env') /\ Carries(env', eSnap)
    <2>1. env'.deleting = env.deleting /\ env'.auto = env.auto /\ env'.fin /\ env'.there
      BY Zenon, <1>2 DEF RInv, Reading, Carries, Fits, Phases
    <2>2. env' \in EnvObject /\ EnvTypeOK
      BY Zenon DEF RInv, IInv, EnvTypeOK
    <2> QED
      BY Zenon, <1>2, <2>1, <2>2, MarksGrow DEF RInv
  <1> QED
    BY Zenon, <1>1, <1>2 DEF Writes

----------------------------------------------------------------------------
(* The worker *)

\* The end of a reconcile.
LEMMA EndFrees ==
    ASSUME RInv, IInv', Marks', NEW b, EndEnv(b), UNCHANGED <<eCached, ns>>, env'.auto = env.auto,
           env' = env \/ (env'.fin /\ env'.there)
    PROVE  RInv'
  <1>1. ePc' = "idle" /\ eSnap'.rv = 0
    BY Zenon DEF EndEnv, NoEnv
  <1>2. env'.rv >= 1 /\ env'.rv \in Nat
    BY Zenon, EnvFields DEF IInv, EnvTypeOK, Chain
  <1>3. Reading' /\ Phases'
    BY <1>1, <1>2 DEF Reading, Phases
  <1>4. Freed'
    BY Zenon, <1>1 DEF RInv, Freed, Released
  <1> QED
    BY Zenon, <1>3, <1>4 DEF RInv

\* A step beyond the finalizer: the environment has its finalizer or no namespace.
LEMMA StayFrees ==
    ASSUME RInv, IInv', Marks', ePc # "idle", ~eSnap.deleting, ePc' \in EnvSteps \ ({"idle"} \cup Finalizing),
           ~eSnap'.deleting, eSnap'.fin, eSnap'.auto = env'.auto, Reading', env' = env \/ (env'.fin /\ env'.there)
    PROVE  RInv'
  <1>1. Phases'
    BY Zenon DEF Phases, Finalizing
  <1>2. Freed'
    BY Zenon DEF RInv, Freed, Finalizing
  <1> QED
    BY Zenon, <1>1, <1>2 DEF RInv

\* The same for a step that keeps the worker's object or changes its status.
LEMMA SnapFrees ==
    ASSUME RInv, IInv', Writes, UNCHANGED eCached, ePc \notin {"idle"} \cup Finalizing,
           ePc' \in EnvSteps \ ({"idle"} \cup Finalizing),
           \/ UNCHANGED envObject /\ Carries(eSnap', eSnap) /\ eSnap'.rv = eSnap.rv
           \/ eSnap' = env' /\ Carries(env', eSnap)
    PROVE  RInv'
  <1>1. Marks' /\ env'.auto = env.auto /\ (env' = env \/ (env'.fin /\ env'.there))
    BY Zenon, WritesKeep
  <1>2. ~eSnap.deleting /\ eSnap.fin
    BY Zenon DEF RInv, Phases
  <1>3. ~eSnap'.deleting /\ eSnap'.fin /\ eSnap'.auto = env'.auto
    BY Zenon, <1>1, <1>2 DEF Carries, RInv, Phases
  <1>4. Reading'
    BY Zenon DEF RInv, Reading, Carries, envObject
  <1> QED
    BY Zenon, <1>1, <1>2, <1>3, <1>4, StayFrees

\* A step beyond the finalizer that fails.
LEMMA FailFrees ==
    ASSUME RInv, IInv', Writes, UNCHANGED <<eCached, ns>>, ePc \notin {"idle"} \cup Finalizing,
           NEW b, EndEnv(b)
    PROVE  RInv'
  <1>1. Marks' /\ env'.auto = env.auto /\ (env' = env \/ (env'.fin /\ env'.there))
    BY Zenon, WritesKeep
  <1> QED
    BY Zenon, <1>1, EndFrees

LEMMA BeginFrees == RInv /\ EnvBegin => RInv'
  <1> SUFFICES ASSUME RInv, EnvBegin PROVE RInv'
    BY Zenon
  <1>1. IInv'
    BY Zenon, BeginKeeps DEF RInv
  <1>2. UNCHANGED <<env, eWatch, eCached, ns>> /\ ePc = "idle"
    BY Zenon DEF EnvBegin, envObject, nsVars
  <1>3. Marks'
    BY Zenon, <1>2 DEF RInv, Marks
  <1>4. CASE ePc' = "finalizer" /\ eSnap' = eCached
    <2>1. Reading'
      BY Zenon, <1>2, <1>4 DEF Reading, Carries, RInv, IInv, Chain
    <2>2. Phases' /\ Freed'
      BY Zenon, <1>2, <1>4 DEF RInv, Marks, Phases, Freed, Released, Finalizing
    <2> QED
      BY Zenon, <1>1, <1>3, <2>1, <2>2 DEF RInv
  <1>5. CASE UNCHANGED <<ePc, eSnap>>
    BY Zenon, <1>1, <1>2, <1>3, <1>5 DEF RInv, Reading, Phases, Freed, Released
  <1> QED
    BY Zenon, <1>4, <1>5 DEF EnvBegin, envWorker

\* The namespace is given back before the finalizer goes.
LEMMA FinalizeFrees == RInv /\ finalizeEnvironmentImplementation => RInv'
  <1> SUFFICES ASSUME RInv, finalizeEnvironmentImplementation PROVE RInv'
    BY Zenon
  <1>1. IInv'
    BY Zenon, FinalizeKeeps DEF RInv
  <1>2. /\ UNCHANGED <<env, eWatch, eCached, eSnap>> /\ ePc = "finalizer" /\ ePc' = "unfinalize"
        /\ eSnap.deleting /\ eSnap.auto = env.auto
    BY Zenon DEF finalizeEnvironmentImplementation, envObject, RInv, Phases
  <1>3. Marks' /\ Reading' /\ Phases'
    BY Zenon, <1>2 DEF RInv, Marks, Reading, Phases, Finalizing
  <1>4. ns \in [Namespaces -> NsStates] /\ eSnap.st.tns \in Namespaces \cup {NoNamespace}
        /\ env.st.tns \in Namespaces \cup {NoNamespace}
    BY Zenon, EnvFields DEF RInv, IInv, EnvTypeOK
  <1> DEFINE t == eSnap.st.tns
  <1>5. \/ ns' = IF eSnap.auto /\ t # NoNamespace /\ ns[t] = "active"
                 THEN [ns EXCEPT ![t] = "terminating"] ELSE ns
        \/ "nsdelete" \in Faults /\ ns' = ns
    BY Zenon DEF finalizeEnvironmentImplementation, Fault
  <1>6. ASSUME NEW n \in Namespaces, Released(n)
        PROVE  Released(n)'
    BY Zenon, <1>2, <1>4, <1>5, <1>6 DEF Released
  <1>7. t # NoNamespace => Released(t)'
    BY Zenon, <1>2, <1>4, <1>5 DEF Released
  <1>8. Freed'
    BY Zenon, <1>2, <1>4, <1>6, <1>7 DEF RInv, Freed
  <1> QED
    BY Zenon, <1>1, <1>3, <1>8 DEF RInv

\* The finalizer goes in a reconcile that read the marked environment.
LEMMA RemoveFrees == RInv /\ RemoveFinalizer => RInv'
  <1> SUFFICES ASSUME RInv, RemoveFinalizer PROVE RInv'
    BY Zenon
  <1>1. IInv'
    BY Zenon, RemoveFinalizerKeeps DEF RInv
  <1>2. /\ ePc = "unfinalize" /\ eSnap.deleting /\ eCached.deleting
        /\ UNCHANGED <<eCached, ns>> /\ EndEnv(~Fits)
    BY Zenon DEF RInv, Phases, RemoveFinalizer, nsVars
  <1>3. CASE UNCHANGED envObject
    <2>1. Marks' /\ env' = env
      BY Zenon, <1>2, <1>3 DEF RInv, Marks, envObject
    <2> QED
      BY Zenon, <1>1, <1>2, <2>1, EndFrees
  <1>4. CASE Fits /\ ~UNCHANGED envObject
    <2> DEFINE o == [env EXCEPT !.fin = FALSE, !.there = env.held]
    <2>1. Put(o)
      BY Zenon, <1>4 DEF RemoveFinalizer
    <2>2. o # env
      BY Zenon, <1>4, <2>1 DEF Put
    <2>3. env' = [o EXCEPT !.rv = env.rv + 1] /\ eWatch' = Append(eWatch, env')
      BY Zenon, <2>1, <2>2 DEF Put
    <2>4. /\ env \in EnvObject /\ env' \in EnvObject /\ EnvTypeOK
          /\ eSnap.st.tns \in Namespaces \cup {NoNamespace}
      BY Zenon, <1>1, EnvFields DEF RInv, IInv, EnvTypeOK
    <2>5. env'.fin = FALSE /\ env'.deleting = env.deleting /\ env'.auto = env.auto /\ env'.st = env.st
      BY Zenon, <2>3, <2>4 DEF EnvObject
    <2> HIDE DEF o
    <2>6. env.deleting
      BY Zenon, <1>2, <1>4 DEF Fits, RInv, Reading, Carries
    <2>7. Marks'
      BY Zenon, <1>2, <2>3, <2>4, <2>5, <2>6, MarksGrow DEF RInv
    <2>8. env.st.tns # NoNamespace => Released(env.st.tns)
      BY Zenon, <1>2, <1>4 DEF Fits, RInv, IInv, SnapOK, Freed
    <2>9. ePc' = "idle" /\ eSnap'.rv = 0
      BY Zenon, <1>2 DEF EndEnv, NoEnv
    <2>10. env'.rv >= 1 /\ env'.rv \in Nat
      BY Zenon, <1>1, EnvFields DEF IInv, EnvTypeOK, Chain
    <2>11. Reading' /\ Phases'
      BY <2>9, <2>10 DEF Reading, Phases
    <2>12. Freed'
      BY Zenon, <1>2, <2>5, <2>6, <2>8, <2>9 DEF Freed, Released
    <2> QED
      BY Zenon, <1>1, <2>7, <2>11, <2>12 DEF RInv
  <1> QED
    BY Zenon, <1>3, <1>4 DEF RemoveFinalizer

\* A deletion that ends without a change.
LEMMA NotFinalizedFrees == RInv /\ (FinalizeFails \/ DeletedUnfinalized) => RInv'
  <1> SUFFICES ASSUME RInv, FinalizeFails \/ DeletedUnfinalized PROVE RInv'
    BY Zenon
  <1>1. IInv'
    BY Zenon, FinalizeFailsKeeps, DeletedUnfinalizedKeeps DEF RInv
  <1>2. UNCHANGED <<env, eWatch, eCached, ns>> /\ \E b \in BOOLEAN : EndEnv(b)
    BY Zenon DEF FinalizeFails, DeletedUnfinalized, envObject, nsVars
  <1>3. Marks'
    BY Zenon, <1>2 DEF RInv, Marks
  <1> QED
    BY Zenon, <1>1, <1>2, <1>3, EndFrees

LEMMA AddFinalizerFrees == RInv /\ addFinalizerIfRequired => RInv'
  <1> SUFFICES ASSUME RInv, addFinalizerIfRequired PROVE RInv'
    BY Zenon
  <1>1. IInv'
    BY Zenon, AddFinalizerKeeps DEF RInv
  <1>2. ePc = "finalizer" /\ ~eSnap.deleting /\ UNCHANGED <<eCached, ns>>
    BY Zenon DEF addFinalizerIfRequired, nsVars
  <1>3. EnvTypeOK /\ eSnap \in EnvObject /\ env' \in EnvObject
    BY Zenon, <1>1 DEF RInv, IInv, EnvTypeOK
  <1> DEFINE o == [eSnap EXCEPT !.fin = TRUE]
  <1>4. o.fin /\ o.there = eSnap.there /\ o.deleting = eSnap.deleting /\ o.auto = eSnap.auto
    BY Zenon, <1>3 DEF EnvObject
  <1>5. o \in EnvObject
    BY Zenon, <1>3, EnvUpdate
  <1>6. \/ UNCHANGED envObject /\ (eSnap.fin \/ ~Fits)
        \/ Fits /\ ~eSnap.fin /\ Put(o)
    BY Zenon DEF addFinalizerIfRequired
  <1> HIDE DEF o
  <1>7. /\ Marks' /\ env'.auto = env.auto /\ (env' = env \/ (env'.fin /\ env'.there))
        /\ Fits /\ ~eSnap.fin => ~env'.deleting /\ env'.fin
    <2>1. CASE UNCHANGED envObject /\ (eSnap.fin \/ ~Fits)
      BY Zenon, <1>2, <2>1 DEF RInv, Marks, envObject
    <2>2. CASE Fits /\ ~eSnap.fin /\ Put(o)
      <3>1. Carries(eSnap, env) /\ env.there
        BY Zenon, <2>2 DEF Fits, RInv, Reading
      <3>2. o # env
        BY Zenon, <1>4, <2>2, <3>1 DEF Carries
      <3>3. env' = [o EXCEPT !.rv = env.rv + 1] /\ eWatch' = Append(eWatch, env')
        BY Zenon, <2>2, <3>2 DEF Put
      <3>4. Carries(env', o)
        BY Zenon, <1>5, <3>3 DEF EnvObject, Carries
      <3>5. env'.fin /\ env'.there /\ ~env'.deleting /\ ~env.deleting /\ env'.auto = env.auto
        BY Zenon, <1>2, <1>4, <3>1, <3>4 DEF Carries
      <3>6. Marks'
        BY Zenon, <1>2, <1>3, <3>3, <3>5, MarksGrow DEF RInv
      <3> QED
        BY Zenon, <3>5, <3>6
    <2> QED
      BY Zenon, <1>6, <2>1, <2>2
  <1>8. CASE \E b \in BOOLEAN : EndEnv(b)
    BY Zenon, <1>1, <1>2, <1>7, <1>8, EndFrees
  <1>9. CASE ePc' = "namespace" /\ eSnap' = (IF eSnap.fin THEN eSnap ELSE env') /\ (eSnap.fin \/ Fits)
    <2>1. ~eSnap'.deleting /\ eSnap'.fin /\ eSnap'.auto = env'.auto
      BY Zenon, <1>2, <1>7, <1>9 DEF RInv, Phases
    <2>2. Reading'
      BY Zenon, <1>6, <1>9 DEF RInv, Reading, Carries, envObject
    <2>3. ePc' \in EnvSteps \ ({"idle"} \cup Finalizing)
      BY Zenon, <1>9 DEF EnvSteps, Finalizing
    <2> QED
      BY Zenon, <1>1, <1>2, <1>7, <2>1, <2>2, <2>3, StayFrees
  <1> QED
    BY Zenon, <1>8, <1>9 DEF addFinalizerIfRequired

LEMMA MakeFrees == RInv /\ makeTargetNamespace => RInv'
  <1> SUFFICES ASSUME RInv, makeTargetNamespace PROVE RInv'
    BY Zenon
  <1>1. IInv'
    BY Zenon, MakeNamespaceKeeps DEF RInv
  <1>2. ePc = "namespace" /\ UNCHANGED eCached /\ eSnap \in EnvObject
    BY Zenon DEF makeTargetNamespace, RInv, IInv, EnvTypeOK
  <1>3. PICK n \in Namespaces :
          \/ /\ ns' = [ns EXCEPT ![n] = "active"]
             /\ eSnap' = [eSnap EXCEPT !.st.tns = n] /\ ePc' = "record"
             /\ UNCHANGED envObject
          \/ EnvFails([eSnap EXCEPT !.st.tns = n], "create") /\ UNCHANGED ns
    BY Zenon DEF makeTargetNamespace
  <1> DEFINE named == [eSnap EXCEPT !.st.tns = n]
  <1>4. named \in EnvObject /\ Carries(named, eSnap) /\ named.rv = eSnap.rv
    <2>1. named \in EnvObject
      BY Zenon, <1>2, StatusUpdate
    <2>2. Carries(named, eSnap) /\ named.rv = eSnap.rv
      BY Zenon, <1>2 DEF Carries, EnvObject
    <2> QED
      BY Zenon, <2>1, <2>2
  <1>5. ePc \notin {"idle"} \cup Finalizing /\ "create" \in EnvErrors
        /\ "record" \in EnvSteps \ ({"idle"} \cup Finalizing)
    BY Zenon, <1>2 DEF Finalizing, EnvErrors, EnvSteps
  <1>6. CASE eSnap' = named /\ ePc' = "record" /\ UNCHANGED envObject
    <2> HIDE DEF named
    <2> QED
      BY Zenon, <1>1, <1>2, <1>4, <1>5, <1>6, SnapFrees DEF Writes
  <1>7. CASE EnvFails(named, "create") /\ UNCHANGED ns
    <2> HIDE DEF named
    <2>1. Writes /\ EndEnv(TRUE)
      BY Zenon, <1>4, <1>5, <1>7, FailsWrite
    <2> QED
      BY Zenon, <1>1, <1>2, <1>5, <1>7, <2>1, FailFrees
  <1> QED
    BY Zenon, <1>3, <1>6, <1>7

LEMMA GetFrees == RInv /\ getTargetNamespace => RInv'
  <1> SUFFICES ASSUME RInv, getTargetNamespace PROVE RInv'
    BY Zenon
  <1>1. IInv'
    BY Zenon, GetNamespaceKeeps DEF RInv
  <1>2. ePc = "namespace" /\ UNCHANGED <<eCached, ns>> /\ eSnap \in EnvObject
    BY Zenon DEF getTargetNamespace, RInv, IInv, EnvTypeOK, nsVars
  <1>3. ePc \notin {"idle"} \cup Finalizing /\ "namespace" \in EnvErrors
        /\ "record" \in EnvSteps \ ({"idle"} \cup Finalizing)
    BY Zenon, <1>2 DEF Finalizing, EnvErrors, EnvSteps
  <1>4. CASE eSnap' = [eSnap EXCEPT !.st.tns = 1] /\ ePc' = "record" /\ UNCHANGED envObject
    <2>1. Carries(eSnap', eSnap) /\ eSnap'.rv = eSnap.rv
      BY Zenon, <1>2, <1>4 DEF Carries, EnvObject
    <2> QED
      BY Zenon, <1>1, <1>2, <1>3, <1>4, <2>1, SnapFrees DEF Writes
  <1>5. CASE EnvFails(eSnap, "namespace")
    <2>1. Writes /\ EndEnv(TRUE)
      BY Zenon, <1>2, <1>3, <1>5, FailsWrite
    <2> QED
      BY Zenon, <1>1, <1>2, <1>3, <2>1, FailFrees
  <1> QED
    BY Zenon, <1>4, <1>5 DEF getTargetNamespace

LEMMA RecordFrees == RInv /\ updateTargetNamespace => RInv'
  <1> SUFFICES ASSUME RInv, updateTargetNamespace PROVE RInv'
    BY Zenon
  <1>1. IInv'
    BY Zenon, RecordKeeps DEF RInv
  <1>2. ePc = "record" /\ UNCHANGED <<eCached, ns>> /\ eSnap \in EnvObject
    BY Zenon DEF updateTargetNamespace, RInv, IInv, EnvTypeOK, nsVars
  <1>3. ePc \notin {"idle"} \cup Finalizing /\ "check" \in EnvSteps \ ({"idle"} \cup Finalizing)
    BY Zenon, <1>2 DEF Finalizing, EnvSteps
  <1>4. CASE Fits /\ Put(eSnap) /\ eSnap' = env' /\ ePc' = "check"
    <2>1. Writes /\ Carries(env', eSnap)
      BY Zenon, <1>2, <1>4, PutWrites DEF Carries, RInv
    <2> QED
      BY Zenon, <1>1, <1>2, <1>3, <1>4, <2>1, SnapFrees
  <1>5. CASE EndEnv(TRUE) /\ UNCHANGED envObject
    BY Zenon, <1>1, <1>2, <1>3, <1>5, FailFrees DEF Writes
  <1> QED
    BY Zenon, <1>4, <1>5 DEF updateTargetNamespace

LEMMA CheckFrees == RInv /\ isTargetNamespaceMarkedForDeletion => RInv'
  <1> SUFFICES ASSUME RInv, isTargetNamespaceMarkedForDeletion PROVE RInv'
    BY Zenon
  <1>1. IInv'
    BY Zenon, CheckKeeps DEF RInv
  <1>2. ePc \in {"check", "namespace"} /\ UNCHANGED <<eCached, ns>> /\ eSnap \in EnvObject
    BY Zenon DEF isTargetNamespaceMarkedForDeletion, RInv, IInv, EnvTypeOK, nsVars
  <1>3. ePc \notin {"idle"} \cup Finalizing /\ "namespace" \in EnvErrors
        /\ "provide" \in EnvSteps \ ({"idle"} \cup Finalizing)
    BY Zenon, <1>2 DEF Finalizing, EnvErrors, EnvSteps
  <1>4. CASE ePc' = "provide" /\ UNCHANGED <<envObject, eSnap>>
    BY Zenon, <1>1, <1>2, <1>3, <1>4, SnapFrees DEF Writes, Carries
  <1>5. CASE EndEnv(FALSE) /\ UNCHANGED envObject
    BY Zenon, <1>1, <1>2, <1>3, <1>5, FailFrees DEF Writes
  <1>6. CASE EnvFails(eSnap, "namespace")
    <2>1. Writes /\ EndEnv(TRUE)
      BY Zenon, <1>2, <1>3, <1>6, FailsWrite
    <2> QED
      BY Zenon, <1>1, <1>2, <1>3, <2>1, FailFrees
  <1> QED
    BY Zenon, <1>4, <1>5, <1>6 DEF isTargetNamespaceMarkedForDeletion

LEMMA ProvidersFree == RInv /\ runProviders => RInv'
  <1> SUFFICES ASSUME RInv, runProviders PROVE RInv'
    BY Zenon
  <1>1. IInv'
    BY Zenon, ProvidersKeep DEF RInv
  <1>2. ePc = "provide" /\ UNCHANGED <<eCached, ns>> /\ eSnap \in EnvObject
    BY Zenon DEF runProviders, RInv, IInv, EnvTypeOK, nsVars
  <1>3. ePc \notin {"idle"} \cup Finalizing /\ {"apply", "providers"} \subseteq EnvErrors
        /\ "count" \in EnvSteps \ ({"idle"} \cup Finalizing)
    BY Zenon, <1>2 DEF Finalizing, EnvErrors, EnvSteps
  <1>4. CASE ePc' = "count" /\ UNCHANGED <<envObject, eSnap>>
    BY Zenon, <1>1, <1>2, <1>3, <1>4, SnapFrees DEF Writes, Carries
  <1>5. CASE \E err \in {"apply", "providers"} : EnvFails(eSnap, err)
    <2>1. Writes /\ EndEnv(TRUE)
      BY Zenon, <1>2, <1>3, <1>5, FailsWrite
    <2> QED
      BY Zenon, <1>1, <1>2, <1>3, <2>1, FailFrees
  <1> QED
    BY Zenon, <1>4, <1>5 DEF runProviders

LEMMA CountFrees == RInv /\ setEnvResourceStatus({}) => RInv'
  <1> SUFFICES ASSUME RInv, setEnvResourceStatus({}) PROVE RInv'
    BY Zenon
  <1>1. IInv'
    BY Zenon, CountKeeps DEF RInv
  <1>2. /\ ePc = "count" /\ ePc' = "final" /\ UNCHANGED <<envObject, eCached>> /\ eSnap \in EnvObject
        /\ eSnap' = [eSnap EXCEPT !.st.apps = {}, !.st.count = countDeployments(dCached)]
    BY Zenon DEF setEnvResourceStatus, RInv, IInv, EnvTypeOK
  <1>3. ePc \notin {"idle"} \cup Finalizing /\ ePc' \in EnvSteps \ ({"idle"} \cup Finalizing)
    BY Zenon, <1>2 DEF Finalizing, EnvSteps
  <1>4. Carries(eSnap', eSnap) /\ eSnap'.rv = eSnap.rv
    BY Zenon, <1>2 DEF Carries, EnvObject
  <1> QED
    BY Zenon, <1>1, <1>2, <1>3, <1>4, SnapFrees DEF Writes

LEMMA FinalFrees == RInv /\ finalStatusError => RInv'
  <1> SUFFICES ASSUME RInv, finalStatusError PROVE RInv'
    BY Zenon
  <1>1. IInv'
    BY Zenon, FinalKeeps DEF RInv
  <1>2. ePc = "final" /\ UNCHANGED <<eCached, ns>> /\ eSnap \in EnvObject /\ dCached \in Deployment
    BY Zenon DEF finalStatusError, RInv, IInv, EnvTypeOK, nsVars
  <1>3. ePc \notin {"idle"} \cup Finalizing /\ "prune" \in EnvSteps \ ({"idle"} \cup Finalizing)
    BY Zenon, <1>2 DEF Finalizing, EnvSteps
  <1> DEFINE r == ResourcesReady(dCached) /\ eSnap.st.cond = "Successful"
             o == [eSnap EXCEPT !.st.ready = r, !.st.gen = eSnap.gen]
  <1>4. o \in EnvObject
    <2>1. r \in BOOLEAN /\ eSnap.gen \in Nat
      BY Zenon, <1>2, EnvFields
    <2> HIDE DEF r
    <2> QED
      BY Zenon, <1>2, <2>1, StatusUpdate
  <1>5. Carries(o, eSnap)
    BY Zenon, <1>2 DEF Carries, EnvObject
  <1>6. \/ Fits /\ Put(o) /\ eSnap' = env' /\ ePc' = "prune"
        \/ EndEnv(TRUE) /\ UNCHANGED envObject
    BY Zenon DEF finalStatusError
  <1> HIDE DEF o
  <1>7. CASE Fits /\ Put(o) /\ eSnap' = env' /\ ePc' = "prune"
    <2>1. Writes /\ Carries(env', eSnap)
      BY Zenon, <1>4, <1>5, <1>7, PutWrites DEF RInv
    <2> QED
      BY Zenon, <1>1, <1>2, <1>3, <1>7, <2>1, SnapFrees
  <1>8. CASE EndEnv(TRUE) /\ UNCHANGED envObject
    BY Zenon, <1>1, <1>2, <1>3, <1>8, FailFrees DEF Writes
  <1> QED
    BY Zenon, <1>6, <1>7, <1>8

LEMMA ConditionsFree == RInv /\ setClowdEnvConditions => RInv'
  <1> SUFFICES ASSUME RInv, setClowdEnvConditions PROVE RInv'
    BY Zenon
  <1>1. IInv'
    BY Zenon, ConditionsKeep DEF RInv
  <1>2. ePc = "prune" /\ UNCHANGED <<eCached, ns>> /\ eSnap \in EnvObject /\ dCached \in Deployment
    BY Zenon DEF setClowdEnvConditions, RInv, IInv, EnvTypeOK, nsVars
  <1>3. ePc \notin {"idle"} \cup Finalizing
    BY Zenon, <1>2 DEF Finalizing
  <1> DEFINE new == EnvStatus(eSnap, "Successful", "none")
  <1>4. new \in EnvStatuses
    BY Zenon, <1>2, EnvStatusType DEF EnvErrors
  <1>5. \/ SetClowdEnvConditions(new) /\ EndEnv(Conflict(new))
        \/ EndEnv(TRUE) /\ UNCHANGED envObject
    BY Zenon DEF setClowdEnvConditions
  <1> HIDE DEF new
  <1>6. Writes /\ \E b : EndEnv(b)
    <2>1. CASE SetClowdEnvConditions(new) /\ EndEnv(Conflict(new))
      BY Zenon, <1>2, <1>4, <2>1, ConditionsWrite DEF RInv
    <2>2. CASE EndEnv(TRUE) /\ UNCHANGED envObject
      BY Zenon, <2>2 DEF Writes
    <2> QED
      BY Zenon, <1>5, <2>1, <2>2
  <1> QED
    BY Zenon, <1>1, <1>2, <1>3, <1>6, FailFrees

----------------------------------------------------------------------------
(* The informers and the rest of the cluster *)

\* Steps that leave the environment, the worker and active namespaces alone.
LEMMA AsideFrees ==
    ASSUME RInv, IInv', UNCHANGED <<env, eWatch, eCached, ePc, eSnap>>,
           \A n \in Namespaces : Released(n) => Released(n)'
    PROVE  RInv'
  <1>1. /\ eSnap.st.tns \in Namespaces \cup {NoNamespace}
        /\ env.st.tns \in Namespaces \cup {NoNamespace}
    BY Zenon, EnvFields DEF RInv, IInv, EnvTypeOK
  <1>2. Freed'
    <2>1. ePc = "unfinalize" /\ eSnap.st.tns # NoNamespace => Released(eSnap.st.tns)'
      BY Zenon, <1>1 DEF RInv, Freed
    <2>2. env.st.tns # NoNamespace /\ ~env.fin => Released(env.st.tns)'
      BY Zenon, <1>1 DEF RInv, Freed
    <2> QED
      BY Zenon, <2>1, <2>2 DEF RInv, Freed
  <1> QED
    BY Zenon, <1>2 DEF RInv, Marks, Reading, Phases

LEMMA DeliverFrees == RInv /\ DeliverEnv => RInv'
  <1> SUFFICES ASSUME RInv, DeliverEnv PROVE RInv'
    BY Zenon
  <1>1. IInv'
    BY Zenon, DeliverKeeps DEF RInv
  <1>2. /\ eWatch \in Seq(EnvObject) /\ eWatch # <<>>
        /\ eCached' = Head(eWatch) /\ eWatch' = Tail(eWatch)
        /\ UNCHANGED <<env, ePc, eSnap, ns>>
    BY Zenon DEF RInv, IInv, EnvTypeOK, DeliverEnv, envWorker, nsVars
  <1>3. 1 \in 1..Len(eWatch) /\ eCached' = eWatch[1]
    BY <1>2
  <1>4. /\ Len(eWatch') = Len(eWatch) - 1 /\ Len(eWatch) \in Nat
        /\ \A i \in 1..Len(eWatch') : i + 1 \in 1..Len(eWatch) /\ eWatch'[i] = eWatch[i + 1]
    BY <1>2
  <1>5. eCached.deleting => eCached'.deleting
    BY Zenon, <1>3 DEF RInv, Marks
  <1>6. Marks'
    <2>1. (eCached'.deleting => env'.deleting) /\ eCached'.auto = env'.auto
      BY Zenon, <1>2, <1>3 DEF RInv, Marks
    <2>2. ASSUME NEW i \in 1..Len(eWatch')
          PROVE  /\ eWatch'[i].auto = env'.auto
                 /\ (eCached'.deleting => eWatch'[i].deleting) /\ (eWatch'[i].deleting => env'.deleting)
      <3>1. i + 1 \in 1..Len(eWatch) /\ eWatch'[i] = eWatch[i + 1] /\ 1 <= i + 1
        BY <1>4, <2>2
      <3> QED
        BY Zenon, <1>2, <1>3, <3>1 DEF RInv, Marks
    <2>3. ASSUME NEW i \in 1..Len(eWatch'), NEW j \in 1..Len(eWatch'), i <= j, eWatch'[i].deleting
          PROVE  eWatch'[j].deleting
      <3>1. /\ i + 1 \in 1..Len(eWatch) /\ eWatch'[i] = eWatch[i + 1]
            /\ j + 1 \in 1..Len(eWatch) /\ eWatch'[j] = eWatch[j + 1]
        BY Zenon, <1>4, <2>3
      <3>2. i + 1 <= j + 1
        BY <1>4, <2>3
      <3> QED
        BY Zenon, <2>3, <3>1, <3>2 DEF RInv, Marks
    <2> QED
      BY Zenon, <2>1, <2>2, <2>3 DEF Marks
  <1>7. Reading' /\ Phases' /\ Freed'
    BY Zenon, <1>2, <1>5 DEF RInv, Reading, Phases, Freed, Released
  <1> QED
    BY Zenon, <1>1, <1>6, <1>7 DEF RInv

\* Someone else changes the object: its mark stays, its finalizer too.
LEMMA OutsideFrees ==
    ASSUME RInv, IInv', NEW o \in EnvObject, Put(o), o.fin = env.fin, o.st = env.st, o.auto = env.auto,
           env.deleting => o.deleting, ~o.there => ~o.fin,
           UNCHANGED <<eCached, ePc, eSnap, ns>>
    PROVE  RInv'
  <1>1. CASE o = env
    <2>1. UNCHANGED <<env, eWatch>>
      BY Zenon, <1>1 DEF Put, envObject
    <2> QED
      BY Zenon, <2>1 DEF RInv, Marks, Reading, Phases, Freed, Released
  <1>2. CASE o # env
    <2>1. env' = [o EXCEPT !.rv = env.rv + 1] /\ eWatch' = Append(eWatch, env')
      BY Zenon, <1>2 DEF Put
    <2>2. env'.rv = env.rv + 1 /\ Carries(env', o) /\ env'.st = env.st
      BY Zenon, <2>1 DEF EnvObject, Carries
    <2>3. Marks'
      BY Zenon, <2>1, <2>2, MarksGrow DEF Carries, RInv, IInv, EnvTypeOK
    <2>4. eSnap.rv <= env.rv /\ eSnap.rv \in Nat /\ env.rv \in Nat
      BY Zenon, Numbers DEF RInv, IInv, SnapOK
    <2>5. eSnap'.rv # env'.rv
      BY <2>2, <2>4
    <2>6. Freed'
      BY Zenon, <2>2 DEF RInv, Freed, Released, Carries
    <2>7. Phases'
      BY Zenon, <2>2 DEF RInv, Phases, Carries
    <2> QED
      BY Zenon, <2>3, <2>5, <2>6, <2>7 DEF RInv, Reading
  <1> QED
    BY Zenon, <1>1, <1>2

LEMMA EditFrees == RInv /\ EditEnv => RInv'
  <1> SUFFICES ASSUME RInv, EditEnv PROVE RInv'
    BY Zenon
  <1>1. IInv'
    BY Zenon, EditKeeps DEF RInv
  <1>2. /\ env \in EnvObject /\ env.there /\ UNCHANGED <<eCached, ePc, eSnap, ns>>
        /\ env.gen + 1 \in Nat /\ (~env.disabled) \in BOOLEAN /\ (env.fin \/ env.held) \in BOOLEAN
    <2>1. env \in EnvObject /\ env.gen \in Nat
      BY Zenon, Numbers DEF RInv, IInv, EnvTypeOK
    <2>2. env.gen + 1 \in Nat
      BY <2>1
    <2> QED
      BY Zenon, <2>1, <2>2 DEF EditEnv, envWorker, nsVars
  <1>3. PICK o : /\ Put(o)
                 /\ \/ o = [env EXCEPT !.gen = env.gen + 1]
                    \/ o = [env EXCEPT !.gen = env.gen + 1, !.disabled = ~env.disabled]
                    \/ o = [env EXCEPT !.gen = env.gen + 1, !.deleting = TRUE,
                                       !.there = env.fin \/ env.held]
    BY Zenon DEF EditEnv
  <1> DEFINE g == env.gen + 1
             d == ~env.disabled
             t == env.fin \/ env.held
  <1>4. /\ g \in Nat /\ d \in BOOLEAN /\ t \in BOOLEAN /\ (~t => ~env.fin)
        /\ \/ o = [env EXCEPT !.gen = g]
           \/ o = [env EXCEPT !.gen = g, !.disabled = d]
           \/ o = [env EXCEPT !.gen = g, !.deleting = TRUE, !.there = t]
    BY Zenon, <1>2, <1>3
  <1> HIDE DEF g, d, t
  <1> DEFINE Kept == /\ o \in EnvObject /\ o.fin = env.fin /\ o.st = env.st /\ o.auto = env.auto
                     /\ env.deleting => o.deleting
                     /\ ~o.there => ~o.fin
  <1>5. ASSUME o = [env EXCEPT !.gen = g] PROVE Kept
    <2>1. o \in EnvObject
      BY Zenon, <1>2, <1>4, <1>5, EnvUpdate
    <2>2. o.fin = env.fin /\ o.st = env.st /\ o.auto = env.auto /\ o.deleting = env.deleting /\ o.there = env.there
      BY Zenon, <1>2, <1>5 DEF EnvObject
    <2> QED
      BY Zenon, <1>2, <2>1, <2>2
  <1>6. ASSUME o = [env EXCEPT !.gen = g, !.disabled = d] PROVE Kept
    <2>1. o \in EnvObject
      BY Zenon, <1>2, <1>4, <1>6, EnvUpdate
    <2>2. o.fin = env.fin /\ o.st = env.st /\ o.auto = env.auto /\ o.deleting = env.deleting /\ o.there = env.there
      BY Zenon, <1>2, <1>6 DEF EnvObject
    <2> QED
      BY Zenon, <1>2, <2>1, <2>2
  <1>7. ASSUME o = [env EXCEPT !.gen = g, !.deleting = TRUE, !.there = t] PROVE Kept
    <2>1. o \in EnvObject
      BY Zenon, <1>2, <1>4, <1>7, EnvUpdate
    <2>2. o.fin = env.fin /\ o.st = env.st /\ o.auto = env.auto /\ o.deleting = TRUE /\ o.there = t
      BY Zenon, <1>2, <1>7 DEF EnvObject
    <2> QED
      BY Zenon, <1>4, <2>1, <2>2
  <1>8. Kept
    BY Zenon, <1>4, <1>5, <1>6, <1>7
  <1>9. Put(o)
    BY Zenon, <1>3
  <1> QED
    BY Zenon, <1>1, <1>2, <1>8, <1>9, OutsideFrees

LEMMA ReleaseFrees == RInv /\ ReleaseHold => RInv'
  <1> SUFFICES ASSUME RInv, ReleaseHold PROVE RInv'
    BY Zenon
  <1>1. IInv'
    BY Zenon, ReleaseKeeps DEF RInv
  <1>2. env \in EnvObject /\ env.fin \in BOOLEAN /\ UNCHANGED <<eCached, ePc, eSnap, ns>>
    BY Zenon, EnvFields DEF RInv, IInv, EnvTypeOK, ReleaseHold, envWorker, nsVars
  <1> DEFINE o == [env EXCEPT !.held = FALSE, !.there = env.fin]
  <1>3. o \in EnvObject
    BY Zenon, <1>2, EnvUpdate
  <1>4. o.fin = env.fin /\ o.st = env.st /\ o.auto = env.auto /\ o.deleting = env.deleting /\ o.there = env.fin
    BY Zenon, <1>2 DEF EnvObject
  <1>5. Put(o)
    BY Zenon DEF ReleaseHold
  <1> HIDE DEF o
  <1> QED
    BY Zenon, <1>1, <1>2, <1>3, <1>4, <1>5, OutsideFrees

LEMMA CrashFrees == RInv /\ EnvCrash => RInv'
  <1> SUFFICES ASSUME RInv, EnvCrash PROVE RInv'
    BY Zenon
  <1>1. IInv'
    BY Zenon, CrashKeeps DEF RInv
  <1>2. /\ UNCHANGED <<env, ns>> /\ eCached' = env /\ ePc' = "idle"
        /\ 1..Len(eWatch') = {} /\ eSnap'.rv = 0
    BY Zenon, EmptyQueues DEF EnvCrash, NoEnv
  <1>3. env.rv >= 1 /\ env.rv \in Nat
    BY Zenon, Numbers DEF RInv, IInv, Chain
  <1>4. Marks'
    BY Zenon, <1>2 DEF Marks
  <1>5. eSnap'.rv # env'.rv
    BY <1>2, <1>3
  <1>6. Freed'
    BY Zenon, <1>2 DEF RInv, Freed, Released
  <1>7. Reading' /\ Phases'
    BY Zenon, <1>2, <1>5 DEF Reading, Phases
  <1> QED
    BY Zenon, <1>1, <1>4, <1>6, <1>7 DEF RInv

----------------------------------------------------------------------------
(* The theorem *)

LEMMA ReleaseInit == EnvInit => RInv
  <1> SUFFICES ASSUME EnvInit PROVE RInv
    BY Zenon
  <1>1. IInv
    BY Zenon, InitInv
  <1>2. /\ eCached = env /\ 1..Len(eWatch) = {} /\ ePc = "idle" /\ eSnap.rv = 0
    BY Zenon, EmptyQueues DEF EnvInit, NoEnv
  <1>3. env.there /\ (env.fin \/ env.st.tns = NoNamespace)
    <2>1. \A b : NewEnv(b).there /\ NewEnv(b).st = FreshEnvStatus /\ FreshEnvStatus.tns = NoNamespace
      BY Zenon DEF NewEnv, NoEnv, FreshEnvStatus
    <2>2. \A b : SettledEnv(b).there /\ SettledEnv(b).fin
      BY Zenon, FreshTypes DEF SettledEnv, NewEnv, NoEnv
    <2> QED
      BY Zenon, <2>1, <2>2 DEF EnvInit
  <1>4. env.rv >= 1 /\ env.rv \in Nat
    BY Zenon, <1>1, Numbers DEF IInv, Chain
  <1>5. eSnap.rv # env.rv
    BY <1>2, <1>4
  <1>6. Marks
    BY Zenon, <1>2 DEF Marks
  <1>7. Freed
    BY Zenon, <1>2, <1>3 DEF Freed
  <1> QED
    BY Zenon, <1>1, <1>2, <1>5, <1>6, <1>7 DEF RInv, Reading, Phases

LEMMA ReleaseStep == RInv /\ [EnvNext]_envVars => RInv'
  <1> SUFFICES ASSUME RInv, [EnvNext]_envVars PROVE RInv'
    BY Zenon
  <1>1. IInv'
    BY Zenon, StepInv DEF RInv
  <1>2. CASE EnvWorker({})
    BY Zenon, <1>2, BeginFrees, FinalizeFrees, RemoveFrees, NotFinalizedFrees, AddFinalizerFrees, MakeFrees,
       GetFrees, RecordFrees, CheckFrees, ProvidersFree, CountFrees, FinalFrees, ConditionsFree
       DEF EnvWorker
  <1>3. CASE DeliverDeployment \/ SyncDeployment \/ PodFails \/ (\E n \in Namespaces : DeliverNamespace(n))
             \/ UNCHANGED envVars
    <2>1. UNCHANGED <<env, eWatch, eCached, ePc, eSnap, ns>>
      BY Zenon, <1>3 DEF DeliverDeployment, SyncDeployment, PodFails, DeliverNamespace, envVars, envObject,
                  envWorker, nsVars
    <2>2. \A n \in Namespaces : Released(n) => Released(n)'
      BY Zenon, <2>1 DEF Released
    <2> QED
      BY Zenon, <1>1, <2>1, <2>2, AsideFrees
  <1>4. CASE GiveNamespace
    <2>1. UNCHANGED <<env, eWatch, eCached, ePc, eSnap>> /\ ~env.auto
      BY Zenon, <1>4 DEF GiveNamespace, envObject, envWorker
    <2> QED
      BY Zenon, <1>1, <2>1, AsideFrees DEF Released
  <1>5. CASE \E n \in Namespaces : DropNamespace(n)
    <2>1. UNCHANGED <<env, eWatch, eCached, ePc, eSnap>> /\ ns \in [Namespaces -> NsStates]
      BY Zenon, <1>5 DEF DropNamespace, envObject, envWorker, RInv, IInv, EnvTypeOK
    <2>2. \A n \in Namespaces : Released(n) => Released(n)'
      BY Zenon, <1>5, <2>1 DEF Released, DropNamespace
    <2> QED
      BY Zenon, <1>1, <2>1, <2>2, AsideFrees
  <1> QED
    BY Zenon, <1>2, <1>3, <1>4, <1>5, DeliverFrees, EditFrees, ReleaseFrees, CrashFrees
       DEF EnvNext, EnvInformers, EnvCluster

\* The namespace generated for an environment does not outlive it as an active
\* one, for any number of namespaces, edits and restarts, however stale the
\* object is that finalization runs on (finalizeEnvironmentImplementation).
THEOREM ReleaseTheorem == EnvSpec => []NamespaceReleased
  <1>1. RInv => NamespaceReleased
    BY Zenon DEF RInv, Freed, Released, NamespaceReleased
  <1> QED
    BY <1>1, ReleaseInit, ReleaseStep, PTL DEF EnvSpec
=============================================================================
