---------------------------- MODULE Application ----------------------------
(***************************************************************************)
(* The ClowdApp controller next to the ClowdEnvironment controller: the    *)
(* ClowdApps of the environment, their reconcile worker, their             *)
(* Deployments, and the events each controller sends the other.  The two   *)
(* workers share the lock cEnv and the informer cache of environments.     *)
(*                                                                         *)
(* A reconcile is cut at its calls to the API server and at its reads of   *)
(* the lock and the caches; aPc names the next step.                       *)
(***************************************************************************)
EXTENDS Environment

CONSTANTS
    AppNamespace, \* the namespace the ClowdApps live in
    AppEdits,     \* what users do to a ClowdApp: "edit", "disable", "delete"
    Rollouts      \* the Deployments of the ClowdApps make progress

ASSUME AppAssumption ==
    /\ AppNamespace \in Namespaces
    /\ Rollouts \in BOOLEAN
    /\ "" \notin Apps

VARIABLES
    app,         \* per ClowdApp: the object as the API server holds it
    aWatch,      \* per ClowdApp: versions not yet delivered to the informer
    aCached,     \* per ClowdApp: the version in the informer cache
    aQueue,      \* ClowdApps whose key is in the work queue
    aPc,         \* where the worker is
    aCur,        \* the ClowdApp it reconciles, "" for none
    aSnap,       \* its in-memory object
    aOld,        \* oldStatus
    aEnv,        \* the environment it read
    adep,        \* per ClowdApp: its Deployment
    adWatch,     \* per ClowdApp: versions of it not yet delivered
    adCached,    \* per ClowdApp: its version in the informer cache
    presentApps, \* presentApps
    managedApps  \* managedApps

appObject == <<app, aWatch>>
appRun == <<aPc, aCur, aSnap, aOld, aEnv>>
appMaps == <<presentApps, managedApps>>
appDeps == <<adep, adWatch, adCached>>
appVars == <<app, aWatch, aCached, aQueue, aPc, aCur, aSnap, aOld, aEnv, adep, adWatch, adCached,
             presentApps, managedApps>>
vars == <<envVars, appVars>>

\* The environment's side but for the bounds and its queue.
envSide == <<env, eWatch, eCached, ePc, eSnap, eOld, cEnv, present, managed, ns, nsView,
             dep, dWatch, dCached>>

----------------------------------------------------------------------------
(* Values *)

AppErrors == {"none", "environment", "notready", "providers", "apply"}

FreshAppStatus == [gen |-> 0, ready |-> FALSE, cond |-> "None", err |-> "none", obs |-> 0,
                   dcond |-> FALSE, count |-> <<0, 0>>]
NoApp == [there |-> FALSE, rv |-> 0, gen |-> 0, disabled |-> FALSE, deleting |-> FALSE,
          fin |-> FALSE, st |-> FreshAppStatus]
NewApp == [NoApp EXCEPT !.there = TRUE, !.rv = 1, !.gen = 1]

SettledAppDeployment ==
    [there |-> TRUE, gen |-> 1, obs |-> 1, pod |-> 3, old |-> 0, of |-> [own |-> 1, env |-> 1]]
SettledApp ==
    [NewApp EXCEPT !.fin = TRUE,
                   !.st = [gen |-> 1, ready |-> TRUE, cond |-> "Successful", err |-> "none", obs |-> 1,
                           dcond |-> TRUE, count |-> countDeployments(SettledAppDeployment)]]

\* GetAppsInEnv; setAppInfo leaves out the ones being deleted.
GetAppsInEnv == {a \in Apps : aCached[a].there}
LiveApps == {a \in GetAppsInEnv : ~aCached[a].deleting}

----------------------------------------------------------------------------
(* Writes *)

AppFits == app[aCur].there /\ aSnap.rv = app[aCur].rv

PutApp(a, o) ==
    IF o = app[a] THEN UNCHANGED appObject
    ELSE /\ app' = [app EXCEPT ![a] = [o EXCEPT !.rv = app[a].rv + 1]]
         /\ aWatch' = [aWatch EXCEPT ![a] = Append(@, app'[a])]

\* Mutant: the state and the error change places.
AppStatus_Swapped(state, err) ==
    [aSnap.st EXCEPT !.cond = err, !.err = state, !.obs = aSnap.gen,
                     !.dcond = ResourcesReady(adCached[aCur]), !.ready = ResourcesReady(adCached[aCur])]

\* The status SetClowdAppConditions computes.
AppStatus(state, err) ==
    [aSnap.st EXCEPT !.cond = state, !.err = err, !.obs = aSnap.gen,
                     !.dcond = ResourcesReady(adCached[aCur]), !.ready = ResourcesReady(adCached[aCur])]

\* Mutant: a status with the same outcome as before is not written.
SetClowdAppConditions_SameOutcome(new) ==
    IF eCached.there /\ new.cond # aOld.cond /\ AppFits THEN PutApp(aCur, [aSnap EXCEPT !.st = new])
    ELSE UNCHANGED appObject

\* It counts Deployments in the namespaces of the environment, so it fails when
\* the environment is missing; otherwise it writes if the status changed.
SetClowdAppConditions(new) ==
    IF eCached.there /\ new # aOld /\ AppFits THEN PutApp(aCur, [aSnap EXCEPT !.st = new])
    ELSE UNCHANGED appObject

AppConflict(new) == ~eCached.there \/ (new # aOld /\ ~AppFits)

\* The reconcile returns.
EndApp(requeue) ==
    /\ aPc' = "idle" /\ aCur' = "" /\ aSnap' = NoApp /\ aOld' = FreshAppStatus /\ aEnv' = NoEnv
    /\ aQueue' = IF requeue THEN aQueue \cup {aCur} ELSE aQueue

\* A step failed with err; again says whether the key is put back in any case.
AppFails(err, again) ==
    LET new == AppStatus("Failed", err)
    IN  SetClowdAppConditions(new) /\ EndApp(again \/ AppConflict(new))

----------------------------------------------------------------------------
(* The reconcile worker *)

\* getApp and setPresentAndManagedApps.
AppBegin(a) ==
    /\ aPc = "idle" /\ a \in aQueue
    /\ aQueue' = aQueue \ {a}
    /\ IF aCached[a].there
       THEN /\ aPc' = "finalizer" /\ aCur' = a /\ aSnap' = aCached[a] /\ aOld' = aCached[a].st
            /\ presentApps' = presentApps \cup {a} /\ managedApps' = managedApps \ {a}
            /\ UNCHANGED aEnv
       ELSE UNCHANGED <<appRun, appMaps>>
    /\ UNCHANGED <<appObject, aCached, appDeps, faults>>

\* isAppMarkedForDeletion with the finalizer still in place.
finalizeApp ==
    /\ aPc = "finalizer" /\ aSnap.deleting /\ aSnap.fin
    /\ presentApps' = presentApps \ {aCur} /\ managedApps' = managedApps \ {aCur}
    /\ IF AppFits THEN PutApp(aCur, [aSnap EXCEPT !.fin = FALSE, !.there = FALSE])
       ELSE UNCHANGED appObject
    /\ EndApp(~AppFits)
    /\ UNCHANGED <<aCached, appDeps, faults>>

addFinalizer ==
    /\ aPc = "finalizer" /\ ~aSnap.deleting
    /\ IF ~aSnap.fin /\ AppFits THEN PutApp(aCur, [aSnap EXCEPT !.fin = TRUE])
       ELSE UNCHANGED appObject
    /\ IF ~aSnap.fin /\ ~AppFits THEN EndApp(TRUE)
       ELSE /\ aPc' = "lock"
            /\ aSnap' = IF aSnap.fin THEN aSnap ELSE app'[aCur]
            /\ UNCHANGED <<aCur, aOld, aEnv, aQueue>>
    /\ UNCHANGED <<aCached, appDeps, appMaps, faults>>

\* isEnvLocked, isAppDisabled and isAppNamespaceDeleted.
isEnvLocked ==
    /\ aPc = "lock"
    /\ LET locked == cEnv = "env"
           seen == nsView[AppNamespace]
       IN  IF locked \/ aSnap.disabled \/ seen # "active"
           THEN EndApp(locked \/ (~aSnap.disabled /\ seen # "terminating"))
           ELSE aPc' = "env" /\ UNCHANGED <<aCur, aSnap, aOld, aEnv, aQueue>>
    /\ UNCHANGED <<appObject, aCached, appDeps, appMaps, faults>>

\* Mutant: the environment need not be reconciled.
EnvObstacle_ReadyOnly ==
    CASE ~eCached.there -> "missing"
      [] eCached.there /\ (eCached.st.tns = NoNamespace
                           \/ nsView[eCached.st.tns] \in {"none", "gone"}) -> "namespace"
      [] OTHER -> IF nsView[eCached.st.tns] = "terminating" THEN "deleted"
                  ELSE IF ~IsReady(eCached) THEN "notready" ELSE "none"

\* What getClowdEnv, isEnvNamespaceDeleted, isClowdEnvReconciled and isEnvReady
\* find wrong with the cached environment, in this order.
EnvObstacle ==
    CASE ~eCached.there -> "missing"
      [] eCached.there /\ (eCached.st.tns = NoNamespace
                           \/ nsView[eCached.st.tns] \in {"none", "gone"}) -> "namespace"
      [] OTHER -> IF nsView[eCached.st.tns] = "terminating" THEN "deleted"
                  ELSE IF eCached.gen # eCached.st.gen THEN "environment"
                  ELSE IF ~IsReady(eCached) THEN "notready" ELSE "none"

\* An environment that is not reconciled ends the reconcile without a retry.
getClowdEnv ==
    /\ aPc = "env"
    /\ CASE EnvObstacle = "none" ->
              /\ aPc' = "provide" /\ aEnv' = eCached
              /\ UNCHANGED <<appObject, aCur, aSnap, aOld, aQueue>>
         [] EnvObstacle \in {"environment", "notready"} -> AppFails(EnvObstacle, EnvObstacle = "notready")
         [] OTHER -> EndApp(EnvObstacle # "deleted") /\ UNCHANGED appObject
    /\ UNCHANGED <<aCached, appDeps, appMaps, faults>>

\* The providers build the resources in memory, applyCache sends the
\* Deployment; ApplyAll may fail before or after that.
runAppProviders ==
    /\ aPc = "provide"
    /\ LET d == adep[aCur]
           sent == Applied(d, [own |-> aSnap.gen, env |-> aEnv.gen])
       IN  \/ /\ adep' = [adep EXCEPT ![aCur] = sent]
              /\ adWatch' = IF sent = d THEN adWatch ELSE [adWatch EXCEPT ![aCur] = Append(@, sent)]
              /\ \/ aPc' = "count" /\ UNCHANGED <<appObject, aCur, aSnap, aOld, aEnv, aQueue, faults>>
                 \/ Fault("appapply") /\ AppFails("apply", TRUE)
           \/ /\ \/ Fault("appapply") /\ AppFails("apply", TRUE)
                 \/ Fault("appprovider") /\ AppFails("providers", TRUE)
              /\ UNCHANGED <<adep, adWatch>>
    /\ UNCHANGED <<aCached, adCached, appMaps>>

\* setAppResourceStatus and deletedUnusedResources.
setAppResourceStatus ==
    /\ aPc = "count"
    /\ \/ /\ eCached.there
          /\ aSnap' = [aSnap EXCEPT !.st.count = countDeployments(adCached[aCur])]
          /\ aPc' = "success"
          /\ UNCHANGED <<aCur, aOld, aEnv, aQueue, faults>>
       \/ ~eCached.there /\ EndApp(TRUE) /\ UNCHANGED faults
       \/ eCached.there /\ Fault("appprune") /\ EndApp(TRUE)
    /\ UNCHANGED <<appObject, aCached, appDeps, appMaps>>

setReconciliationSuccessful ==
    /\ aPc = "success"
    /\ LET new == [AppStatus("Successful", "none") EXCEPT !.gen = aSnap.gen]
       IN  /\ SetClowdAppConditions(new)
           /\ EndApp(AppConflict(new))
           /\ managedApps' = IF AppConflict(new) THEN managedApps ELSE managedApps \cup {aCur}
    /\ UNCHANGED <<aCached, appDeps, presentApps, faults>>

AppWorker ==
    \/ \E a \in Apps : AppBegin(a)
    \/ finalizeApp \/ addFinalizer \/ isEnvLocked \/ getClowdEnv \/ runAppProviders
    \/ setAppResourceStatus \/ setReconciliationSuccessful

----------------------------------------------------------------------------
(* Informers *)

\* Every event of a ClowdApp adds its key.  The environment's key is added for
\* a new ClowdApp and for a new generation; for one that is gone it is not.
DeliverApp(a) ==
    /\ aWatch[a] # <<>>
    /\ LET o == aCached[a]
           n == Head(aWatch[a])
       IN  /\ aCached' = [aCached EXCEPT ![a] = n]
           /\ eQueued' = (eQueued \/ (n.there /\ (~o.there \/ n.gen # o.gen)))
    /\ aWatch' = [aWatch EXCEPT ![a] = Tail(@)]
    /\ aQueue' = aQueue \cup {a}
    /\ UNCHANGED <<app, appRun, appDeps, appMaps, envSide, edits, faults>>

environmentUpdateFunc(o, n) == (~o.st.ready /\ n.st.ready) \/ o.gen # n.gen

\* The environment's events reach both controllers.
DeliverEnvToApps ==
    /\ DeliverEnv
    /\ aQueue' = IF eCached'.there /\ (~eCached.there \/ environmentUpdateFunc(eCached, eCached'))
                 THEN aQueue \cup GetAppsInEnv ELSE aQueue
    /\ UNCHANGED <<appObject, aCached, appRun, appDeps, appMaps>>

DeliverAppDeployment(a) ==
    /\ adWatch[a] # <<>>
    /\ adCached' = [adCached EXCEPT ![a] = Head(adWatch[a])]
    /\ adWatch' = [adWatch EXCEPT ![a] = Tail(@)]
    /\ aQueue' = IF DeploymentWakes(adCached[a], Head(adWatch[a])) THEN aQueue \cup {a} ELSE aQueue
    /\ UNCHANGED <<appObject, aCached, appRun, adep, appMaps, envSide, eQueued, edits, faults>>

\* Nothing is on its way.
Quiet ==
    /\ ePc = "idle" /\ ~eQueued /\ eWatch = <<>> /\ dWatch = <<>> /\ nsView = ns
    /\ aPc = "idle" /\ aQueue = {}
    /\ \A a \in Apps : aWatch[a] = <<>> /\ adWatch[a] = <<>>

----------------------------------------------------------------------------
(* The rest of the cluster *)

UserAppEdit(kind) == kind \in AppEdits /\ edits < MaxEdits /\ edits' = edits + 1

EditApp(a) ==
    /\ app[a].there
    /\ \/ UserAppEdit("edit") /\ PutApp(a, [app[a] EXCEPT !.gen = @ + 1])
       \/ UserAppEdit("disable") /\ PutApp(a, [app[a] EXCEPT !.gen = @ + 1, !.disabled = ~@])
       \/ /\ UserAppEdit("delete") /\ ~app[a].deleting
          /\ PutApp(a, [app[a] EXCEPT !.gen = @ + 1, !.deleting = TRUE, !.there = app[a].fin])
    /\ UNCHANGED <<aCached, aQueue, appRun, appDeps, appMaps, envSide, eQueued, faults>>

\* The Deployment controller completes a rollout.  Its steps in between, which
\* Environment has, are left out here.
SyncAppDeployment(a) ==
    /\ Rollouts /\ RollSteps(adep[a]) # {}
    /\ LET d == [adep[a] EXCEPT !.obs = adep[a].gen, !.pod = 3, !.old = 0]
       IN  /\ adep' = [adep EXCEPT ![a] = d]
           /\ adWatch' = [adWatch EXCEPT ![a] = Append(@, d)]
    /\ UNCHANGED <<appObject, aCached, aQueue, appRun, adCached, appMaps, envVars>>

Crash ==
    /\ EnvCrash
    /\ aWatch' = [a \in Apps |-> <<>>] /\ aCached' = app
    /\ adWatch' = [a \in Apps |-> <<>>] /\ adCached' = adep
    /\ aQueue' = {a \in Apps : app[a].there}
    /\ aPc' = "idle" /\ aCur' = "" /\ aSnap' = NoApp /\ aOld' = FreshAppStatus /\ aEnv' = NoEnv
    /\ presentApps' = {} /\ managedApps' = {}
    /\ UNCHANGED <<app, adep>>

----------------------------------------------------------------------------
Init ==
    /\ EnvInit
    /\ app = [a \in Apps |-> IF Established THEN SettledApp ELSE NewApp]
    /\ aWatch = [a \in Apps |-> <<>>] /\ aCached = app /\ aQueue = Apps
    /\ aPc = "idle" /\ aCur = "" /\ aSnap = NoApp /\ aOld = FreshAppStatus /\ aEnv = NoEnv
    /\ adep = [a \in Apps |-> IF Established THEN SettledAppDeployment ELSE NoDeployment]
    /\ adWatch = [a \in Apps |-> <<>>] /\ adCached = adep
    /\ presentApps = {} /\ managedApps = {}

Workers ==
    \/ EnvWorker(LiveApps) /\ UNCHANGED appVars
    \/ AppWorker /\ UNCHANGED <<envSide, eQueued, edits>>

Informers ==
    \/ DeliverEnvToApps
    \/ (DeliverDeployment \/ \E n \in Namespaces : DeliverNamespace(n)) /\ UNCHANGED appVars
    \/ \E a \in Apps : DeliverApp(a) \/ DeliverAppDeployment(a)

Cluster ==
    \/ EnvCluster /\ UNCHANGED appVars
    \/ \E a \in Apps : EditApp(a) \/ SyncAppDeployment(a)

Next == Workers \/ Informers \/ Cluster \/ Crash

Spec == Init /\ [][Next]_vars

\* The queues, the informers and the Deployment controller keep working.
Fairness ==
    /\ WF_vars(EnvWorker(LiveApps) /\ UNCHANGED <<appVars, faults>>)
    /\ \A a \in Apps : SF_vars(AppBegin(a) /\ UNCHANGED <<envSide, eQueued, edits>>)
    /\ WF_vars(aPc # "idle" /\ AppWorker /\ UNCHANGED <<envSide, eQueued, edits, faults>>)
    /\ WF_vars(DeliverEnvToApps)
    /\ WF_vars((DeliverDeployment \/ \E n \in Namespaces : DeliverNamespace(n)) /\ UNCHANGED appVars)
    /\ \A a \in Apps : WF_vars(DeliverApp(a)) /\ WF_vars(DeliverAppDeployment(a)) /\ WF_vars(SyncAppDeployment(a))
    /\ WF_vars((SyncDeployment \/ GiveNamespace) /\ UNCHANGED appVars)

\* Every few hours the informers replay what they hold.  The retries of a
\* reconcile are at most a minute apart, so a replay finds nothing on its way.
Resync ==
    /\ Quiet
    /\ eQueued' = eCached.there
    /\ aQueue' = GetAppsInEnv
    /\ UNCHANGED <<appObject, aCached, appRun, appDeps, appMaps, envSide, edits, faults>>

ResyncSpec == Init /\ [][Next \/ Resync]_vars /\ Fairness /\ WF_vars(Resync)

----------------------------------------------------------------------------
(* Properties *)

AppStatuses == [gen : Nat, ready : BOOLEAN, cond : {"None", "Successful", "Failed"},
                err : AppErrors, obs : Nat, dcond : BOOLEAN, count : Nat \X Nat]
AppObject == [there : BOOLEAN, rv : Nat, gen : Nat, disabled : BOOLEAN, deleting : BOOLEAN,
              fin : BOOLEAN, st : AppStatuses]
AppSteps == {"idle", "finalizer", "lock", "env", "provide", "count", "success"}

\* Every variable of the ClowdApp controller keeps its shape, and a reconcile
\* is always of one of the environment's apps.
TypeOK ==
    /\ EnvTypeOK
    /\ app \in [Apps -> AppObject] /\ aCached \in [Apps -> AppObject]
    /\ aWatch \in [Apps -> Seq(AppObject)]
    /\ aQueue \in SUBSET Apps
    /\ aPc \in AppSteps /\ aCur \in Apps \cup {""} /\ (aPc = "idle" <=> aCur = "")
    /\ aSnap \in AppObject /\ aOld \in AppStatuses /\ aEnv \in EnvObject
    /\ adep \in [Apps -> Deployment] /\ adCached \in [Apps -> Deployment]
    /\ adWatch \in [Apps -> Seq(Deployment)]
    /\ presentApps \in SUBSET Apps /\ managedApps \in SUBSET Apps

\* Both controllers together implement Rollout: no reconcile, however stale
\* what it read, builds a ClowdApp from an environment that was not reconciled
\* or rolls it back, or records a generation that was not applied.
Generations == INSTANCE Rollout WITH
    gen <- env.gen, statusGen <- env.st.gen,
    appGen <- [a \in Apps |-> app[a].gen], appStatusGen <- [a \in Apps |-> app[a].st.gen],
    built <- [a \in Apps |-> adep[a].of]
RolloutSpec == Generations!Spec

\* The environment is there to be used.
EnvInUse == env.there /\ ~env.deleting /\ ~env.disabled

\* The ClowdApp's resources match both specifications, and its status says so.
UpToDate(a) ==
    /\ app[a].st.gen = app[a].gen
    /\ adep[a].of = [own |-> app[a].gen, env |-> env.gen]

\* A ClowdApp that is left alone is deleted if it was to be deleted, and
\* otherwise ends up built from the current specifications and, if its pods
\* come up, reported ready.  That takes an environment that can be reconciled:
\* one whose namespace was deleted never is again, and its apps wait for it.
AppsSettle ==
    <>[](EnvInUse /\ (\E n \in Namespaces : ns[n] = "active") => \A a \in Apps : app[a].there =>
           /\ ~app[a].deleting
           /\ app[a].disabled \/ (UpToDate(a) /\ (Rollouts => app[a].st.ready)))

\* "Changes to an ClowdEnvironment will propagate to all the associated
\* ClowdApps": once nothing is on its way they have.
AppsFollowEnv ==
    Quiet /\ EnvInUse /\ env.st.gen = env.gen /\ IsReady(env) =>
      \A a \in Apps : app[a].there /\ ~app[a].disabled => adep[a].of.env = env.gen

\* "your app will not come up until the all ClowdEnv's managed deployments are
\* marked as ready": the first Deployment of an app finds the environment's ready.
AppsComeUpAfterEnv ==
    [][\A a \in Apps : ~adep[a].there /\ adep'[a].there => ResourcesReady(dep) /\ (EnvDeploys => dep.there)]_adep

=============================================================================
