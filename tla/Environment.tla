---------------------------- MODULE Environment ----------------------------
(***************************************************************************)
(* The ClowdEnvironment controller: one environment, its single reconcile  *)
(* worker, its target namespace, the Deployment its providers create and   *)
(* the informer caches the worker reads through.  The worker runs one      *)
(* reconcile at a time for all environments, so the lock cEnv is this      *)
(* environment's name exactly while this environment is reconciled.        *)
(*                                                                         *)
(* A reconcile is cut at its calls to the API server and at its reads of   *)
(* the caches; ePc names the next step.                                    *)
(***************************************************************************)
EXTENDS Naturals, Sequences, FiniteSets, Workload

CONSTANTS
    Apps,          \* names of the ClowdApps of the environment
    Namespaces,    \* names GenerateTargetNamespace can draw; the given one is 1
    AutoChoices,   \* whether spec.targetNamespace is empty: the values it may have
    EnvDeploys,    \* some provider of the environment creates a Deployment
    ForeignHold,   \* another finalizer keeps the deleted object for a while
    Established,   \* the operator starts on an environment that has settled before
    EnvEdits,      \* what users do: "edit", "disable", "delete", "namespace"
    Faults,        \* what goes wrong: "crash", "provider", "apply", "prune",
                   \* "create", "nsdelete", "pod"
    MaxEdits,      \* bound on user actions
    MaxFaults      \* bound on faults

ASSUME NamespacesAssumption == Namespaces \subseteq Nat \ {0} /\ 1 \in Namespaces
ASSUME EnvBoundsAssumption ==
    /\ MaxEdits \in Nat /\ MaxFaults \in Nat
    /\ AutoChoices \subseteq BOOLEAN /\ EnvDeploys \in BOOLEAN /\ ForeignHold \in BOOLEAN
    /\ Established \in BOOLEAN

VARIABLES
    env,      \* the ClowdEnvironment as the API server holds it
    eWatch,   \* versions of it not yet delivered to the informer
    eCached,  \* the version in the informer cache
    eQueued,  \* its key is in the work queue (or the rate limiter)
    ePc,      \* where the worker is
    eSnap,    \* the worker's in-memory object
    eOld,     \* oldStatus: the status at the start of the reconcile
    cEnv,     \* name of the locked environment, "" for none
    present,  \* presentEnvironments has the environment
    managed,  \* managedEnvironments has the environment
    ns,       \* per namespace: none, active, terminating, gone
    nsView,   \* what the namespace informer has seen
    dep,      \* the environment's Deployment
    dWatch,   \* its versions not yet delivered
    dCached,  \* its version in the informer cache
    edits,    \* user actions so far
    faults    \* faults so far

envObject == <<env, eWatch>>
envWorker == <<ePc, eSnap, eOld, cEnv, present, managed>>
nsVars == <<ns, nsView>>
depVars == <<dep, dWatch, dCached>>
envVars == <<env, eWatch, eCached, eQueued, ePc, eSnap, eOld, cEnv, present, managed,
             ns, nsView, dep, dWatch, dCached, edits, faults>>

----------------------------------------------------------------------------
(* Values *)

NoNamespace == 0
EnvErrors == {"none", "namespace", "create", "providers", "apply"}

FreshEnvStatus ==
    [tns |-> NoNamespace, gen |-> 0, ready |-> FALSE, cond |-> "None", err |-> "none", obs |-> 0,
     dcond |-> FALSE, count |-> <<0, 0>>, apps |-> {}]

NoEnv == [there |-> FALSE, rv |-> 0, gen |-> 0, auto |-> FALSE, disabled |-> FALSE, deleting |-> FALSE,
          fin |-> FALSE, held |-> FALSE, st |-> FreshEnvStatus]

NewEnv(auto) ==
    [NoEnv EXCEPT !.there = TRUE, !.rv = 1, !.gen = 1, !.auto = auto, !.held = ForeignHold]

\* What a first reconcile with nothing in its way leaves behind.
SettledDeployment ==
    IF EnvDeploys
    THEN [there |-> TRUE, gen |-> 1, obs |-> 1, pod |-> 3, old |-> 0, of |-> [own |-> 1, env |-> 1]]
    ELSE NoDeployment
SettledEnv(auto) ==
    [NewEnv(auto) EXCEPT !.fin = TRUE,
                   !.st = [tns |-> 1, gen |-> 1, ready |-> TRUE, cond |-> "Successful", err |-> "none",
                           obs |-> 1, dcond |-> TRUE, count |-> countDeployments(SettledDeployment),
                           apps |-> Apps]]

\* Ready as ClowdApps see it: the condition only has to be there.
IsReady(o) == o.st.ready /\ o.st.cond # "None"

Fault(kind) == kind \in Faults /\ faults < MaxFaults /\ faults' = faults + 1

----------------------------------------------------------------------------
(* Writes *)

\* An update is accepted if the object has not changed since it was read.
Fits == env.there /\ eSnap.rv = env.rv

\* Storing an unchanged object changes nothing and notifies no one.
Put(o) ==
    IF o = env THEN UNCHANGED envObject
    ELSE /\ env' = [o EXCEPT !.rv = env.rv + 1]
         /\ eWatch' = Append(eWatch, env')

\* Mutant: the state and the error change places.
EnvStatus_Swapped(o, state, err) ==
    [o.st EXCEPT !.cond = err, !.err = state, !.obs = o.gen,
                 !.dcond = ResourcesReady(dCached), !.ready = ResourcesReady(dCached)]

\* Mutant: the generation is recorded with every outcome.
EnvStatus_RecordsGeneration(o, state, err) ==
    [o.st EXCEPT !.cond = state, !.err = err, !.obs = o.gen, !.gen = o.gen,
                 !.dcond = ResourcesReady(dCached), !.ready = ResourcesReady(dCached)]

\* The status SetClowdEnvConditions computes.
EnvStatus(o, state, err) ==
    [o.st EXCEPT !.cond = state, !.err = err, !.obs = o.gen,
                 !.dcond = ResourcesReady(dCached), !.ready = ResourcesReady(dCached)]

\* It is written only if it differs from the status the reconcile began with.
SetClowdEnvConditions(new) ==
    IF new # eOld /\ Fits THEN Put([eSnap EXCEPT !.st = new]) ELSE UNCHANGED envObject

Conflict(new) == new # eOld /\ ~Fits

\* The reconcile returns: the lock is released, the key is put back or not.
EndEnv(requeue) ==
    /\ ePc' = "idle" /\ eSnap' = NoEnv /\ eOld' = FreshEnvStatus
    /\ cEnv' = ""
    /\ eQueued' = (eQueued \/ requeue)

\* A step failed: the condition is set, if possible, and the reconcile retried.
EnvFails(o, err) ==
    /\ SetClowdEnvConditions(EnvStatus(o, "Failed", err))
    /\ EndEnv(TRUE)

----------------------------------------------------------------------------
(* The reconcile worker *)

\* Mutant: the lock is not taken.
EnvBegin_NoLock ==
    /\ ePc = "idle" /\ eQueued
    /\ eQueued' = FALSE
    /\ IF eCached.there
       THEN /\ ePc' = "finalizer" /\ eSnap' = eCached /\ eOld' = eCached.st
            /\ UNCHANGED cEnv
            /\ present' = TRUE /\ managed' = FALSE
       ELSE UNCHANGED envWorker
    /\ UNCHANGED <<envObject, eCached, nsVars, depVars, edits, faults>>

EnvBegin ==
    /\ ePc = "idle" /\ eQueued
    /\ eQueued' = FALSE
    /\ IF eCached.there
       THEN /\ ePc' = "finalizer" /\ eSnap' = eCached /\ eOld' = eCached.st
            /\ cEnv' = "env"
            /\ present' = TRUE /\ managed' = FALSE
       ELSE UNCHANGED envWorker
    /\ UNCHANGED <<envObject, eCached, nsVars, depVars, edits, faults>>

\* Mutant: only a namespace that is in the cache is deleted.
finalizeEnvironmentImplementation_IfSeen ==
    /\ ePc = "finalizer" /\ eSnap.deleting /\ eSnap.fin
    /\ LET t == eSnap.st.tns
       IN  ns' = IF eSnap.auto /\ t # NoNamespace /\ ns[t] = "active" /\ nsView[t] = "active"
                 THEN [ns EXCEPT ![t] = "terminating"] ELSE ns
    /\ present' = FALSE /\ managed' = FALSE
    /\ ePc' = "unfinalize"
    /\ UNCHANGED <<envObject, eCached, eQueued, eSnap, eOld, cEnv, nsView, depVars, edits, faults>>

\* The generated namespace is deleted, whether or not the call succeeds, before
\* the finalizer goes.
finalizeEnvironmentImplementation ==
    /\ ePc = "finalizer" /\ eSnap.deleting /\ eSnap.fin
    /\ LET t == eSnap.st.tns
       IN  \/ /\ ns' = IF eSnap.auto /\ t # NoNamespace /\ ns[t] = "active"
                       THEN [ns EXCEPT ![t] = "terminating"] ELSE ns
              /\ UNCHANGED faults
           \/ eSnap.auto /\ Fault("nsdelete") /\ UNCHANGED ns
    /\ present' = FALSE /\ managed' = FALSE
    /\ ePc' = "unfinalize"
    /\ UNCHANGED <<envObject, eCached, eQueued, eSnap, eOld, cEnv, nsView, depVars, edits>>

FinalizeFails ==
    /\ ePc = "finalizer" /\ eSnap.deleting /\ eSnap.fin
    /\ Fault("provider")
    /\ EndEnv(TRUE)
    /\ UNCHANGED <<envObject, eCached, present, managed, nsVars, depVars, edits>>

\* Without finalizers the object is gone.
RemoveFinalizer ==
    /\ ePc = "unfinalize"
    /\ IF Fits THEN Put([env EXCEPT !.fin = FALSE, !.there = env.held]) ELSE UNCHANGED envObject
    /\ EndEnv(~Fits)
    /\ UNCHANGED <<eCached, present, managed, nsVars, depVars, edits, faults>>

DeletedUnfinalized ==
    /\ ePc = "finalizer" /\ eSnap.deleting /\ ~eSnap.fin
    /\ EndEnv(FALSE)
    /\ UNCHANGED <<envObject, eCached, present, managed, nsVars, depVars, edits, faults>>

\* addFinalizerIfRequired, then setToBeDisabled.
addFinalizerIfRequired ==
    /\ ePc = "finalizer" /\ ~eSnap.deleting
    /\ IF ~eSnap.fin /\ Fits THEN Put([eSnap EXCEPT !.fin = TRUE]) ELSE UNCHANGED envObject
    /\ IF ~eSnap.fin /\ ~Fits THEN EndEnv(TRUE)
       ELSE IF eSnap.disabled THEN EndEnv(FALSE)
       ELSE /\ ePc' = "namespace"
            /\ eSnap' = IF eSnap.fin THEN eSnap ELSE env'
            /\ UNCHANGED <<eOld, cEnv, eQueued>>
    /\ UNCHANGED <<eCached, present, managed, nsVars, depVars, edits, faults>>

\* initTargetNamespace: a name is drawn into the in-memory status, then the
\* namespace is created; a given namespace only has to be in the cache.
makeTargetNamespace ==
    /\ ePc = "namespace" /\ eSnap.auto /\ eSnap.st.tns = NoNamespace
    /\ \E n \in {m \in Namespaces : ns[m] = "none"} :
         LET named == [eSnap EXCEPT !.st.tns = n]
         IN  \/ /\ ns' = [ns EXCEPT ![n] = "active"]
                /\ eSnap' = named /\ ePc' = "record"
                /\ UNCHANGED <<envObject, eQueued, eOld, cEnv, faults>>
             \/ Fault("create") /\ EnvFails(named, "create") /\ UNCHANGED ns
    /\ UNCHANGED <<eCached, present, managed, nsView, depVars, edits>>

getTargetNamespace ==
    /\ ePc = "namespace" /\ ~eSnap.auto /\ eSnap.st.tns = NoNamespace
    /\ IF nsView[1] \in {"active", "terminating"}
       THEN /\ eSnap' = [eSnap EXCEPT !.st.tns = 1] /\ ePc' = "record"
            /\ UNCHANGED <<envObject, eQueued, eOld, cEnv>>
       ELSE EnvFails(eSnap, "namespace")
    /\ UNCHANGED <<eCached, present, managed, nsVars, depVars, edits, faults>>

\* Mutant: the name is patched in, whatever the stored version.
updateTargetNamespace_Patch ==
    /\ ePc = "record"
    /\ IF env.there
       THEN /\ Put([env EXCEPT !.st.tns = eSnap.st.tns]) /\ eSnap' = env' /\ ePc' = "check"
            /\ UNCHANGED <<eQueued, eOld, cEnv>>
       ELSE EndEnv(TRUE) /\ UNCHANGED envObject
    /\ UNCHANGED <<eCached, present, managed, nsVars, depVars, edits, faults>>

\* A conflict here is met again when the failure is to be recorded.
updateTargetNamespace ==
    /\ ePc = "record"
    /\ IF Fits
       THEN /\ Put(eSnap) /\ eSnap' = env' /\ ePc' = "check"
            /\ UNCHANGED <<eQueued, eOld, cEnv>>
       ELSE EndEnv(TRUE) /\ UNCHANGED envObject
    /\ UNCHANGED <<eCached, present, managed, nsVars, depVars, edits, faults>>

isTargetNamespaceMarkedForDeletion ==
    /\ \/ ePc = "check"
       \/ ePc = "namespace" /\ eSnap.st.tns # NoNamespace
    /\ LET seen == nsView[eSnap.st.tns]
       IN  IF seen = "active"
           THEN ePc' = "provide" /\ UNCHANGED <<envObject, eQueued, eSnap, eOld, cEnv>>
           ELSE IF seen = "terminating" THEN EndEnv(FALSE) /\ UNCHANGED envObject
           ELSE EnvFails(eSnap, "namespace")
    /\ UNCHANGED <<eCached, present, managed, nsVars, depVars, edits, faults>>

\* The providers build the resources in memory, applyCache sends the
\* Deployment; ApplyAll may fail before or after that.
runProviders ==
    /\ ePc = "provide"
    /\ LET b == [own |-> eSnap.gen, env |-> eSnap.gen]
           sent == IF EnvDeploys THEN Applied(dep, b) ELSE dep
       IN  /\ dep' \in {dep, sent}
           /\ dWatch' = IF dep' = dep THEN dWatch ELSE Append(dWatch, dep')
           /\ \/ /\ dep' = sent
                 /\ ePc' = "count"
                 /\ UNCHANGED <<envObject, eQueued, eSnap, eOld, cEnv, faults>>
              \/ Fault("apply") /\ EnvFails(eSnap, "apply")
              \/ dep' = dep /\ Fault("provider") /\ EnvFails(eSnap, "providers")
    /\ UNCHANGED <<eCached, present, managed, nsVars, dCached, edits>>

\* setAppInfo, given the apps in the cache, and setEnvResourceStatus.
setEnvResourceStatus(apps) ==
    /\ ePc = "count"
    /\ eSnap' = [eSnap EXCEPT !.st.apps = apps, !.st.count = countDeployments(dCached)]
    /\ ePc' = "final"
    /\ UNCHANGED <<envObject, eCached, eQueued, eOld, cEnv, present, managed, nsVars, depVars,
                   edits, faults>>

\* setEnvStatus and finalStatusError: readiness is read again, the generation
\* is recorded and the status stored.
finalStatusError ==
    /\ ePc = "final"
    /\ LET o == [eSnap EXCEPT !.st.ready = ResourcesReady(dCached) /\ eSnap.st.cond = "Successful",
                              !.st.gen = eSnap.gen]
       IN  IF Fits
           THEN /\ Put(o) /\ eSnap' = env' /\ ePc' = "prune"
                /\ UNCHANGED <<eQueued, eOld, cEnv>>
           ELSE EndEnv(TRUE) /\ UNCHANGED envObject
    /\ UNCHANGED <<eCached, present, managed, nsVars, depVars, edits, faults>>

\* deleteUnusedResources, then the last condition.
setClowdEnvConditions ==
    /\ ePc = "prune"
    /\ LET new == EnvStatus(eSnap, "Successful", "none")
       IN  \/ /\ SetClowdEnvConditions(new)
              /\ EndEnv(Conflict(new))
              /\ managed' = ~Conflict(new)
              /\ UNCHANGED faults
           \/ Fault("prune") /\ EndEnv(TRUE) /\ UNCHANGED <<envObject, managed>>
    /\ UNCHANGED <<eCached, present, nsVars, depVars, edits>>

EnvWorker(apps) ==
    \/ EnvBegin \/ finalizeEnvironmentImplementation \/ FinalizeFails \/ RemoveFinalizer
    \/ DeletedUnfinalized \/ addFinalizerIfRequired \/ makeTargetNamespace \/ getTargetNamespace
    \/ updateTargetNamespace \/ isTargetNamespaceMarkedForDeletion \/ runProviders
    \/ setEnvResourceStatus(apps) \/ finalStatusError \/ setClowdEnvConditions

----------------------------------------------------------------------------
(* Informers *)

\* Every event of the environment itself adds its key.
DeliverEnv ==
    /\ eWatch # <<>>
    /\ eCached' = Head(eWatch) /\ eWatch' = Tail(eWatch)
    /\ eQueued' = TRUE
    /\ UNCHANGED <<env, envWorker, nsVars, depVars, edits, faults>>

DeliverDeployment ==
    /\ dWatch # <<>>
    /\ dCached' = Head(dWatch) /\ dWatch' = Tail(dWatch)
    /\ eQueued' = (eQueued \/ DeploymentWakes(dCached, Head(dWatch)))
    /\ UNCHANGED <<envObject, eCached, envWorker, nsVars, dep, edits, faults>>

DeliverNamespace(n) ==
    /\ nsView[n] # ns[n]
    /\ nsView' = [nsView EXCEPT ![n] = ns[n]]
    /\ UNCHANGED <<envObject, eCached, eQueued, envWorker, ns, depVars, edits, faults>>

\* The informers replay what they hold every few hours.
EnvResync ==
    /\ eCached.there /\ ~eQueued
    /\ eQueued' = TRUE
    /\ UNCHANGED <<envObject, eCached, envWorker, nsVars, depVars, edits, faults>>

EnvInformers == DeliverEnv \/ DeliverDeployment \/ \E n \in Namespaces : DeliverNamespace(n)

----------------------------------------------------------------------------
(* The rest of the cluster *)

UserEdit(kind) == kind \in EnvEdits /\ edits < MaxEdits /\ edits' = edits + 1

EditEnv ==
    /\ env.there
    /\ \/ UserEdit("edit") /\ Put([env EXCEPT !.gen = @ + 1])
       \/ UserEdit("disable") /\ Put([env EXCEPT !.gen = @ + 1, !.disabled = ~@])
       \/ /\ UserEdit("delete") /\ ~env.deleting
          /\ Put([env EXCEPT !.gen = @ + 1, !.deleting = TRUE, !.there = env.fin \/ env.held])
    /\ UNCHANGED <<eCached, eQueued, envWorker, nsVars, depVars, faults>>

ReleaseHold ==
    /\ env.there /\ env.deleting /\ env.held
    /\ Put([env EXCEPT !.held = FALSE, !.there = env.fin])
    /\ UNCHANGED <<eCached, eQueued, envWorker, nsVars, depVars, edits, faults>>

GiveNamespace ==
    /\ ~env.auto /\ ns[1] = "none"
    /\ ns' = [ns EXCEPT ![1] = "active"]
    /\ UNCHANGED <<envObject, eCached, eQueued, envWorker, nsView, depVars, edits, faults>>

DropNamespace(n) ==
    /\ \/ ns[n] = "active" /\ UserEdit("namespace") /\ ns' = [ns EXCEPT ![n] = "terminating"]
       \/ ns[n] = "terminating" /\ ns' = [ns EXCEPT ![n] = "gone"] /\ UNCHANGED edits
    /\ UNCHANGED <<envObject, eCached, eQueued, envWorker, nsView, depVars, faults>>

SyncDeployment ==
    /\ dep' \in RollSteps(dep)
    /\ dWatch' = Append(dWatch, dep')
    /\ UNCHANGED <<envObject, eCached, eQueued, envWorker, nsVars, dCached, edits, faults>>

\* A running pod stops being ready.
PodFails ==
    /\ dep.pod = 3 /\ dep.gen = dep.obs /\ Fault("pod")
    /\ dep' = [dep EXCEPT !.pod = 1]
    /\ dWatch' = Append(dWatch, dep')
    /\ UNCHANGED <<envObject, eCached, eQueued, envWorker, nsVars, dCached, edits>>

\* The operator restarts: it lists everything and reconciles every environment.
EnvCrash ==
    /\ Fault("crash")
    /\ eWatch' = <<>> /\ eCached' = env
    /\ dWatch' = <<>> /\ dCached' = dep
    /\ nsView' = ns
    /\ ePc' = "idle" /\ eSnap' = NoEnv /\ eOld' = FreshEnvStatus /\ cEnv' = ""
    /\ present' = FALSE /\ managed' = FALSE
    /\ eQueued' = env.there
    /\ UNCHANGED <<env, ns, dep, edits>>

EnvCluster ==
    \/ EditEnv \/ ReleaseHold \/ GiveNamespace \/ SyncDeployment \/ PodFails
    \/ \E n \in Namespaces : DropNamespace(n)

----------------------------------------------------------------------------
EnvInit ==
    /\ \E auto \in AutoChoices : env = IF Established THEN SettledEnv(auto) ELSE NewEnv(auto)
    /\ eWatch = <<>> /\ eCached = env /\ eQueued = TRUE
    /\ ePc = "idle" /\ eSnap = NoEnv /\ eOld = FreshEnvStatus /\ cEnv = ""
    /\ present = FALSE /\ managed = FALSE
    /\ ns = [n \in Namespaces |-> IF Established /\ n = 1 THEN "active" ELSE "none"] /\ nsView = ns
    /\ dep = (IF Established THEN SettledDeployment ELSE NoDeployment) /\ dWatch = <<>> /\ dCached = dep
    /\ edits = 0 /\ faults = 0

EnvNext == EnvWorker({}) \/ EnvInformers \/ EnvCluster \/ EnvCrash

EnvSpec == EnvInit /\ [][EnvNext]_envVars

\* The queue, the informers and the Deployment controller keep working; a given
\* namespace is created in the end and a foreign finalizer is dropped.
EnvFairness ==
    /\ WF_envVars(EnvWorker({}) /\ UNCHANGED faults)
    /\ WF_envVars(DeliverEnv) /\ WF_envVars(DeliverDeployment)
    /\ \A n \in Namespaces : WF_envVars(DeliverNamespace(n))
    /\ WF_envVars(SyncDeployment) /\ WF_envVars(GiveNamespace) /\ WF_envVars(ReleaseHold)

\* The informers replay what they hold.
ResyncEnvSpec == EnvInit /\ [][EnvNext \/ EnvResync]_envVars /\ EnvFairness /\ WF_envVars(EnvResync)

----------------------------------------------------------------------------
(* Properties *)

EnvStatuses ==
    [tns : Namespaces \cup {NoNamespace}, gen : Nat, ready : BOOLEAN,
     cond : {"None", "Successful", "Failed"}, err : EnvErrors, obs : Nat, dcond : BOOLEAN,
     count : Nat \X Nat, apps : SUBSET Apps]
EnvObject == [there : BOOLEAN, rv : Nat, gen : Nat, auto : BOOLEAN, disabled : BOOLEAN,
              deleting : BOOLEAN, fin : BOOLEAN, held : BOOLEAN, st : EnvStatuses]
NsStates == {"none", "active", "terminating", "gone"}
EnvSteps == {"idle", "finalizer", "unfinalize", "namespace", "record", "check", "provide", "count",
             "final", "prune"}

\* Every variable of the ClowdEnvironment controller keeps its shape.
EnvTypeOK ==
    /\ env \in EnvObject /\ eCached \in EnvObject /\ eSnap \in EnvObject
    /\ eWatch \in Seq(EnvObject) /\ eOld \in EnvStatuses
    /\ eQueued \in BOOLEAN /\ present \in BOOLEAN /\ managed \in BOOLEAN
    /\ ePc \in EnvSteps /\ cEnv \in {"", "env"}
    /\ ns \in [Namespaces -> NsStates] /\ nsView \in [Namespaces -> NsStates]
    /\ dep \in Deployment /\ dCached \in Deployment /\ dWatch \in Seq(Deployment)
    /\ edits \in 0..MaxEdits /\ faults \in 0..MaxFaults

\* Once status.targetNamespace is stored no later reconcile, however stale the
\* object it read, replaces it by another generated name.
TargetStable ==
    [][env.st.tns # NoNamespace => env'.st.tns = env.st.tns]_env

\* The finalizer holds the environment until the namespace generated for it has
\* been deleted, although finalization may run on a stale object or be repeated.
NamespaceReleased ==
    env.auto /\ ~env.there /\ env.st.tns # NoNamespace /\ "nsdelete" \notin Faults
      => ns[env.st.tns] # "active"

\* status.generation is stored only after the resources built from that
\* generation, or a later one, have been applied.
EnvGenerationHonest == EnvDeploys => env.st.gen <= dep.of.own

\* ClowdApps may rely on the published status: it changes only under the lock
\* and reports a generation that was current when it was written.
Contract == INSTANCE EnvContract WITH
    gen <- env.gen, statusGen <- env.st.gen, ready <- env.st.ready, locked <- (cEnv = "env")
EnvContractSpec == Contract!Spec

\* An environment that is left alone is deleted if it was to be deleted, and
\* otherwise ends up ready with its current generation recorded.
EnvSettles ==
    <>[](env.there => ~env.deleting /\ (env.disabled \/ (env.st.ready /\ env.st.gen = env.gen)))

\* "It also creates and manages the targetNamespace if it does not exist": the
\* recorded target namespace has been created.
TargetNamespaceCreated == env.st.tns # NoNamespace => ns[env.st.tns] # "none"

=============================================================================
