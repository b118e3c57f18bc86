--------------------------- MODULE JobInvocation ---------------------------
(***************************************************************************)
(* The ClowdJobInvocation (CJI) controller: one CJI, its single reconcile  *)
(* worker, the Jobs it creates, and the informer caches the worker reads   *)
(* through.  Different CJIs share nothing but the worker, so one CJI is    *)
(* the whole component.                                                    *)
(*                                                                         *)
(* A reconcile is cut where other actors can get in between: the read of   *)
(* the cached CJI (Begin), the direct read of the ClowdApp with the        *)
(* in-memory construction of the Jobs (Prepare), each Job sent to the API  *)
(* server (ApplyJob), the status computation and write (SetConditions) and *)
(* the wait for the informer to catch up (PollDone, PollTimeout).          *)
(***************************************************************************)
EXTENDS Naturals, Sequences, FiniteSets

CONSTANTS
    JobIds,        \* names InvokeJob and GenerateJobName can draw: 1..n
    JobNames,      \* names of jobs
    JobLists,      \* values spec.jobs can take (sequences of job names)
    IqeItem,       \* stands for the IQE job among the items to invoke
    HasIqe,        \* spec.testing.iqe is set
    RunOnNotReady, \* spec.runOnNotReady
    OldImages,     \* jobs whose image may lack the expected tag; {} if none is expected
    BadItems,      \* items that may be missing, disabled or have too long a name
    Edits,         \* spec edits the user may make: "disable", "enable", "jobs"
    Faults,        \* disturbances: "crash", "timeout", "apply", "delete"
    MaxGen,        \* bound on ClowdApp generations
    MaxFails,      \* bound on failed ClowdApp reconciles
    MaxEdits,      \* bound on user edits
    MaxFaults      \* bound on disturbances

ASSUME JobIdsAssumption == JobIds \subseteq Nat
ASSUME FiniteAssumption == IsFiniteSet(JobIds)
ASSUME ItemsAssumption ==
    /\ JobLists \subseteq Seq(JobNames)
    /\ (JobNames \cup {IqeItem}) \cap
         {"none", "ClowdAppMissing", "Generation", "ImageTag", "ClowdAppNotReady", "ClowdEnvMissing",
          "ApplyAll"} = {}
ASSUME BoundsAssumption ==
    /\ MaxGen \in Nat /\ MaxFails \in Nat /\ MaxEdits \in Nat /\ MaxFaults \in Nat
    /\ HasIqe \in BOOLEAN /\ RunOnNotReady \in BOOLEAN

VARIABLES
    cji,      \* the CJI as the API server holds it
    watch,    \* versions of the CJI not yet delivered to the informer
    cached,   \* the CJI in the informer cache
    app,      \* the ClowdApp named by spec.appName (read through APIReader)
    envThere, \* the ClowdEnvironment of the app exists
    phase,    \* per Job name: 0 not created, 1 running, 2 finished, 3 deleted
    outcome,  \* per Job name: how it finished
    made,     \* per Job name: the items of its invocation and its place among them
    view,     \* per Job name: the phase the Job informer has seen
    queued,   \* the CJI's key is in the work queue (or its rate limiter)
    pc,       \* where the worker is
    snap,     \* the worker's in-memory CJI
    pend,     \* Jobs in the resource cache, not yet applied
    verdict,  \* condition the worker is about to set: [state, err]
    nextId,   \* next fresh Job name
    edits,    \* user edits so far
    faults    \* disturbances so far

vars == <<cji, watch, cached, app, envThere, phase, outcome, made, view, queued,
          pc, snap, pend, verdict, nextId, edits, faults>>

jobVars == <<phase, outcome, made, view>>
workerVars == <<pc, snap, pend, verdict>>

----------------------------------------------------------------------------
(* Values *)

JobStates == {"none", "Invoked", "Complete", "Failed"}
Final == {"Complete", "Failed"}
EmptyMap == [i \in JobIds |-> "none"]

NoError == "none"
\* What goes wrong before any item is looked at.
Obstacles == {"ClowdAppMissing", "Generation", "ImageTag", "ClowdAppNotReady", "ClowdEnvMissing"}
Errors == {NoError, "ApplyAll"} \cup Obstacles \cup JobNames \cup {IqeItem}

Fresh == [completed |-> FALSE, jobMap |-> EmptyMap, cond |-> "None", err |-> NoError, obs |-> 0]

\* An idle worker holds nothing.
NoObject == [rv |-> 0, gen |-> 0, legacy |-> FALSE, disabled |-> FALSE, jobs |-> <<>>, st |-> Fresh]
Success == [state |-> "Successful", err |-> NoError]
Discard == snap' = NoObject /\ pend' = {} /\ verdict' = Success

NoApp == [there |-> FALSE, gen |-> 0, statusGen |-> 0, ready |-> FALSE, bad |-> {}, old |-> {}, fails |-> 0]

Items(o) == o.jobs \o (IF HasIqe THEN <<IqeItem>> ELSE <<>>)

----------------------------------------------------------------------------
(* Status computation *)

\* The Job list served by the informer shows a Complete or Failed condition.
SeenFinished(i) == view[i] = 2 /\ outcome[i] # "none"

\* Mutant: counts the Jobs the informer shows, whatever their conditions.
countCompletedJobs_AnyCondition(o) ==
    Cardinality({i \in JobIds : o.st.jobMap[i] # "none" /\ view[i] >= 1})

countCompletedJobs(o) ==
    Cardinality({i \in JobIds : o.st.jobMap[i] # "none" /\ SeenFinished(i)})

\* Mutant: the finished Jobs are counted against the entries of the map.
GetJobsStatus_OfMap(o) ==
    o.disabled \/ countCompletedJobs(o) = Cardinality({i \in JobIds : o.st.jobMap[i] # "none"})

GetJobsStatus(o) == o.disabled \/ countCompletedJobs(o) = Len(Items(o))

\* Mutant: the default branch records the phase as it is.
UpdateInvokedJobStatus_Raw(o) ==
    [i \in JobIds |-> IF o.st.jobMap[i] # "none" /\ view[i] > 0
                      THEN IF SeenFinished(i) THEN outcome[i] ELSE "Running" ELSE o.st.jobMap[i]]

\* Mutant: a Job that is no longer listed counts as invoked again.
UpdateInvokedJobStatus_Resets(o) ==
    [i \in JobIds |-> IF o.st.jobMap[i] = "none" THEN "none"
                      ELSE IF SeenFinished(i) THEN outcome[i] ELSE "Invoked"]

\* Mutant: a Failed condition is taken for completion.
UpdateInvokedJobStatus_AllComplete(o) ==
    [i \in JobIds |-> IF o.st.jobMap[i] # "none" /\ SeenFinished(i)
                      THEN "Complete" ELSE o.st.jobMap[i]]

UpdateInvokedJobStatus(o) ==
    [i \in JobIds |-> IF o.st.jobMap[i] # "none" /\ SeenFinished(i)
                      THEN outcome[i] ELSE o.st.jobMap[i]]

\* SetClowdJobInvocationConditions up to the write.
NewStatus(o) ==
    [completed |-> GetJobsStatus(o), jobMap |-> UpdateInvokedJobStatus(o),
     cond |-> verdict.state, err |-> verdict.err, obs |-> o.gen]

----------------------------------------------------------------------------
(* The reconcile worker *)

\* The image of a requested job lacks the expected tag.  A disabled job is
\* looked at, one the app does not have is passed over, and so is the IQE job.
TagMissing(o, a) == \E k \in 1..Len(o.jobs) : o.jobs[k] \in a.old

HandleNotReady(a) == ~a.ready /\ ~RunOnNotReady

\* The first obstacle the invocation meets, in the order the code checks.
Obstacle(o, a) ==
    IF ~a.there THEN "ClowdAppMissing"
    ELSE IF a.statusGen > 0 /\ a.gen # a.statusGen THEN "Generation"
    ELSE IF TagMissing(o, a) THEN "ImageTag"
    ELSE IF HandleNotReady(a) THEN "ClowdAppNotReady"
    ELSE IF ~envThere THEN "ClowdEnvMissing"
    ELSE NoError

\* Mutant: entries in the job map do not prevent an invocation.
MustInvoke_IgnoresMap(o) == ~o.legacy /\ ~o.st.completed /\ ~o.disabled

\* Nothing is invoked again for a CJI that is legacy, completed, has entries
\* in its job map or is disabled: only its status is refreshed.
MustInvoke(o) ==
    ~o.legacy /\ ~o.st.completed /\ o.st.jobMap = EmptyMap /\ ~o.disabled

Begin ==
    /\ pc = "idle" /\ queued
    /\ queued' = FALSE
    /\ snap' = IF cached.legacy THEN [cached EXCEPT !.st.jobMap = EmptyMap] ELSE cached
    /\ pc' = IF MustInvoke(cached) THEN "prepare" ELSE "status"
    /\ UNCHANGED <<cji, watch, cached, app, envThere, jobVars, pend, verdict, nextId, edits, faults>>

PrepareBlocked ==
    /\ pc = "prepare" /\ Obstacle(snap, app) # NoError
    /\ snap' = [snap EXCEPT !.st.jobMap = EmptyMap]
    /\ verdict' = [state |-> "Failed", err |-> Obstacle(snap, app)]
    /\ pc' = "status"
    /\ UNCHANGED <<cji, watch, cached, app, envThere, jobVars, queued, pend, nextId, edits, faults>>

\* The first n items are accepted by getJobFromName, InvokeJob and
\* CreateIqeJobResource, the next one, if any, is rejected.
Accepted(n) ==
    /\ \A k \in 1..n : Items(snap)[k] \notin app.bad
    /\ n < Len(Items(snap)) => Items(snap)[n + 1] \in app.bad

\* The job map after the names ids were drawn.
InvokeJob(ids) == [i \in JobIds |-> IF i \in ids THEN "Invoked" ELSE "none"]

\* Accepted items get a name and enter the job map; a rejection drops the
\* resource cache but keeps the map for the status.
PrepareJobs ==
    \E n \in 0..Len(Items(snap)) :
        LET failed == n < Len(Items(snap))
            ids == nextId .. (nextId + n - 1)
        IN  /\ pc = "prepare" /\ Obstacle(snap, app) = NoError
            /\ Accepted(n)
            /\ ids \subseteq JobIds
            /\ snap' = [snap EXCEPT !.st.jobMap = InvokeJob(ids)]
            /\ made' = [i \in JobIds |-> IF i \in ids THEN [pos |-> i - nextId + 1, items |-> Items(snap)]
                                         ELSE made[i]]
            /\ nextId' = nextId + n
            /\ pend' = IF failed THEN {} ELSE ids
            /\ pc' = IF failed \/ n = 0 THEN "status" ELSE "apply"
            /\ verdict' = IF failed THEN [state |-> "Failed", err |-> Items(snap)[n + 1]] ELSE verdict
            /\ UNCHANGED <<cji, watch, cached, app, envThere, phase, outcome, view, queued, edits, faults>>

\* ObjectCache.ApplyAll sends the Jobs one by one.
ApplyJob(i) ==
    /\ pc = "apply" /\ i \in pend
    /\ phase' = [phase EXCEPT ![i] = 1]
    /\ pend' = pend \ {i}
    /\ pc' = IF pend = {i} THEN "status" ELSE "apply"
    /\ UNCHANGED <<cji, watch, cached, app, envThere, outcome, made, view, queued,
                   snap, verdict, nextId, edits, faults>>

\* ApplyAll fails: the rest is not sent, yet the state is set to Successful.
ApplyError ==
    /\ pc = "apply" /\ "apply" \in Faults /\ faults < MaxFaults
    /\ faults' = faults + 1
    /\ pend' = {}
    /\ verdict' = [state |-> "Successful", err |-> "ApplyAll"]
    /\ pc' = "status"
    /\ UNCHANGED <<cji, watch, cached, app, envThere, jobVars, queued, snap, nextId, edits>>

\* SetClowdJobInvocationConditions up to the wait.  The status is written only
\* if it differs from the in-memory one, whose job map is already the new one.
SetConditions ==
    LET new == [snap EXCEPT !.st = NewStatus(snap)]
        stored == [new EXCEPT !.rv = cji.rv + 1]
    IN  /\ pc = "status"
        /\ \/ /\ new.st = snap.st
              /\ pc' = "poll"
              /\ UNCHANGED <<cji, watch, snap, pend, verdict, queued>>
           \/ /\ new.st # snap.st /\ snap.rv = cji.rv
              /\ cji' = stored
              /\ watch' = Append(watch, stored)
              /\ snap' = stored
              /\ pc' = "poll"
              /\ UNCHANGED <<pend, verdict, queued>>
           \/ /\ new.st # snap.st /\ snap.rv # cji.rv   \* conflict: return the error
              /\ pc' = "idle"
              /\ queued' = TRUE
              /\ Discard
              /\ UNCHANGED <<cji, watch>>
        /\ UNCHANGED <<cached, app, envThere, jobVars, nextId, edits, faults>>

\* Mutant: the error is swallowed, the key is not put back.
PollDone_NoRequeue ==
    /\ pc = "poll" /\ cached.st = snap.st
    /\ pc' = "idle"
    /\ Discard
    /\ UNCHANGED <<cji, watch, cached, app, envThere, jobVars, queued, nextId, edits, faults>>

\* The cache shows the status just set; Reconcile returns its own error, if any.
PollDone ==
    /\ pc = "poll" /\ cached.st = snap.st
    /\ pc' = "idle"
    /\ queued' = (queued \/ verdict.err # NoError)
    /\ Discard
    /\ UNCHANGED <<cji, watch, cached, app, envThere, jobVars, nextId, edits, faults>>

\* The wait gives up after two seconds: a disturbance while versions are still
\* on their way, the normal course when the cache has nothing more to learn.
PollTimeout ==
    /\ pc = "poll" /\ cached.st # snap.st
    /\ \/ watch = <<>> /\ UNCHANGED faults
       \/ watch # <<>> /\ "timeout" \in Faults /\ faults < MaxFaults /\ faults' = faults + 1
    /\ pc' = "idle"
    /\ queued' = TRUE
    /\ Discard
    /\ UNCHANGED <<cji, watch, cached, app, envThere, jobVars, nextId, edits>>

\* The operator dies; its successor lists everything and starts afresh.
Crash ==
    /\ "crash" \in Faults /\ faults < MaxFaults
    /\ faults' = faults + 1
    /\ watch' = <<>>
    /\ cached' = cji
    /\ view' = phase
    /\ queued' = TRUE
    /\ pc' = "idle"
    /\ Discard
    /\ UNCHANGED <<cji, app, envThere, phase, outcome, made, nextId, edits>>

----------------------------------------------------------------------------
(* Informers: every event of the CJI and of an owned Job adds the key. *)

DeliverCji ==
    /\ watch # <<>>
    /\ cached' = Head(watch)
    /\ watch' = Tail(watch)
    /\ queued' = TRUE
    /\ UNCHANGED <<cji, app, envThere, jobVars, workerVars, nextId, edits, faults>>

DeliverJob(i) ==
    /\ view[i] < phase[i]
    /\ view' = [view EXCEPT ![i] = @ + 1]
    /\ queued' = TRUE
    /\ UNCHANGED <<cji, watch, cached, app, envThere, phase, outcome, made, workerVars,
                   nextId, edits, faults>>

----------------------------------------------------------------------------
(* The rest of the cluster *)

FinishJob(i, how) ==
    /\ phase[i] = 1
    /\ phase' = [phase EXCEPT ![i] = 2]
    /\ outcome' = [outcome EXCEPT ![i] = how]
    /\ UNCHANGED <<cji, watch, cached, app, envThere, made, view, queued, workerVars,
                   nextId, edits, faults>>

DeleteJob(i) ==
    /\ "delete" \in Faults /\ faults < MaxFaults
    /\ phase[i] \in {1, 2}
    /\ faults' = faults + 1
    /\ phase' = [phase EXCEPT ![i] = 3]
    /\ UNCHANGED <<cji, watch, cached, app, envThere, outcome, made, view, queued, workerVars,
                   nextId, edits>>

EditSpec(o) ==
    LET stored == [o EXCEPT !.rv = cji.rv + 1, !.gen = cji.gen + 1]
    IN  /\ edits < MaxEdits
        /\ edits' = edits + 1
        /\ cji' = stored
        /\ watch' = Append(watch, stored)
        /\ UNCHANGED <<cached, app, envThere, jobVars, queued, workerVars, nextId, faults>>

UserEdits ==
    \/ "disable" \in Edits /\ ~cji.disabled /\ EditSpec([cji EXCEPT !.disabled = TRUE])
    \/ "enable" \in Edits /\ cji.disabled /\ EditSpec([cji EXCEPT !.disabled = FALSE])
    \/ "jobs" \in Edits /\ \E l \in JobLists \ {cji.jobs} : EditSpec([cji EXCEPT !.jobs = l])

AppSpecChange ==
    /\ app.gen < MaxGen
    /\ \E bad \in SUBSET BadItems, old \in SUBSET OldImages, ready \in {FALSE, app.ready} :
         app' = [app EXCEPT !.there = TRUE, !.gen = @ + 1, !.bad = bad, !.old = old, !.ready = ready]
    /\ UNCHANGED <<cji, watch, cached, envThere, jobVars, queued, workerVars, nextId, edits, faults>>

\* The ClowdApp controller succeeds with the current generation.
AppReconciled ==
    /\ app.there /\ (app.statusGen # app.gen \/ ~app.ready)
    /\ app' = [app EXCEPT !.statusGen = app.gen, !.ready = TRUE]
    /\ UNCHANGED <<cji, watch, cached, envThere, jobVars, queued, workerVars, nextId, edits, faults>>

\* It fails: the generation stays, Ready is recomputed from the deployments
\* alone, and IsReady accepts the condition's presence whatever its status.
AppReconcileFailed ==
    /\ app.there /\ app.fails < MaxFails
    /\ \E ready \in BOOLEAN : app' = [app EXCEPT !.ready = ready, !.fails = @ + 1]
    /\ UNCHANGED <<cji, watch, cached, envThere, jobVars, queued, workerVars, nextId, edits, faults>>

EnvCreated ==
    /\ ~envThere
    /\ envThere' = TRUE
    /\ UNCHANGED <<cji, watch, cached, app, jobVars, queued, workerVars, nextId, edits, faults>>

----------------------------------------------------------------------------
Init ==
    /\ \E legacy, disabled \in BOOLEAN, l \in JobLists :
         cji = [rv |-> 1, gen |-> 1, legacy |-> legacy, disabled |-> disabled, jobs |-> l, st |-> Fresh]
    /\ watch = <<>>
    /\ cached = cji
    /\ app = NoApp
    /\ envThere \in BOOLEAN
    /\ phase = [i \in JobIds |-> 0]
    /\ outcome = [i \in JobIds |-> "none"]
    /\ made = [i \in JobIds |-> [pos |-> 0, items |-> <<>>]]
    /\ view = [i \in JobIds |-> 0]
    /\ queued = TRUE
    /\ pc = "idle"
    /\ snap = NoObject
    /\ pend = {}
    /\ verdict = Success
    /\ nextId = 1
    /\ edits = 0
    /\ faults = 0

Worker ==
    \/ Begin
    \/ PrepareBlocked
    \/ PrepareJobs
    \/ \E i \in JobIds : ApplyJob(i)
    \/ SetConditions
    \/ PollDone

Informers == DeliverCji \/ \E i \in JobIds : DeliverJob(i)

Disturbances == ApplyError \/ PollTimeout \/ Crash \/ \E i \in JobIds : DeleteJob(i)

Cluster ==
    \/ \E i \in JobIds, how \in Final : FinishJob(i, how)
    \/ UserEdits
    \/ AppSpecChange
    \/ AppReconciled
    \/ AppReconcileFailed
    \/ EnvCreated

Next == Worker \/ Informers \/ Disturbances \/ Cluster

Spec == Init /\ [][Next]_vars

\* The work queue, the informers, the Job controller and the ClowdApp and
\* ClowdEnvironment controllers keep running; the wait always ends.  Each of
\* them has finitely much to do, so one condition serves all its actions.
Fairness ==
    /\ WF_vars(Worker \/ (PollTimeout /\ watch = <<>>))
    /\ WF_vars(Informers)
    /\ WF_vars(\E i \in JobIds, how \in Final : FinishJob(i, how))
    /\ WF_vars((app.gen = 0 /\ AppSpecChange) \/ AppReconciled \/ EnvCreated)

FairSpec == Spec /\ Fairness

----------------------------------------------------------------------------
(* Properties *)

Status == [completed : BOOLEAN, jobMap : [JobIds -> JobStates],
           cond : {"None", "Successful", "Failed"}, err : Errors, obs : Nat]
Object == [rv : Nat, gen : Nat, legacy : BOOLEAN, disabled : BOOLEAN,
           jobs : Seq(JobNames), st : Status]

AppObject == [there : BOOLEAN, gen : Nat, statusGen : Nat, ready : BOOLEAN,
              bad : SUBSET BadItems, old : SUBSET OldImages, fails : 0..MaxFails]

\* Every variable of the CJI controller keeps its shape.
TypeOK ==
    /\ cji \in Object /\ cached \in Object /\ snap \in Object
    /\ watch \in Seq(Object)
    /\ app \in AppObject
    /\ envThere \in BOOLEAN
    /\ phase \in [JobIds -> 0..3] /\ view \in [JobIds -> 0..3]
    /\ outcome \in [JobIds -> {"none"} \cup Final]
    /\ made \in [JobIds -> [pos : Nat, items : Seq(JobNames \cup {IqeItem})]]
    /\ queued \in BOOLEAN
    /\ pc \in {"idle", "prepare", "apply", "status", "poll"}
    /\ pend \in SUBSET JobIds
    /\ verdict \in [state : {"Successful", "Failed"}, err : Errors]
    /\ nextId \in Nat /\ edits \in 0..MaxEdits /\ faults \in 0..MaxFaults

\* An outcome recorded in status.jobMap is the outcome that Job really had,
\* whatever was stale, lost or repeated when UpdateInvokedJobStatus ran.
OutcomesTrue ==
    \A i \in JobIds : cji.st.jobMap[i] \in Final => outcome[i] = cji.st.jobMap[i]

\* No item has two Jobs.
InvokedOnce ==
    \A i, j \in JobIds : phase[i] > 0 /\ phase[j] > 0 /\ made[i].pos = made[j].pos => i = j

\* While nothing is lost, slow or edited, the wait in
\* SetClowdJobInvocationConditions suffices: no reconcile started by a status
\* write, a Job event or an error invokes a job a second time.
InvokedOnceUndisturbed == edits = 0 /\ faults = 0 => InvokedOnce

\* status.completed is set only for a disabled CJI, once every Job in the map it
\* is stored with has finished, or if spec.jobs was cut short after the
\* invocation: then countCompletedJobs counts against fewer items.
CompletedOnlyWhenDone ==
    [][cji'.st.completed /\ ~cji.st.completed =>
         \/ cji'.disabled
         \/ \A i \in JobIds : cji'.st.jobMap[i] \in {"none"} \cup Final
         \/ Len(Items(cji')) < Cardinality({i \in JobIds : cji'.st.jobMap[i] # "none"})]_cji

\* As long as spec.jobs is the list the Jobs were made for, status.completed is
\* set on an enabled CJI only when a Job of every item has finished and its
\* outcome is stored.  GetJobsStatus compares two numbers; that no entry of the
\* map is left from an earlier invocation, stands for no item or shares one
\* with another entry is up to the rest of the controller.
EveryItemRan ==
    [][/\ cji'.st.completed /\ ~cji.st.completed /\ ~cji'.disabled
       /\ \A i \in JobIds : cji'.st.jobMap[i] # "none" => made[i].items = Items(cji')
       => \A k \in 1..Len(Items(cji')) :
            \E i \in JobIds : made[i].pos = k /\ cji'.st.jobMap[i] \in Final]_cji

\* status.jobMap is a ledger: entered once, then only completed.
Ledger == INSTANCE JobLedger WITH ledger <- cji.st.jobMap
LedgerSpec == Ledger!Spec

\* A CJI whose jobs exist in the app completes and stays completed.
EventuallyCompleted == <>[](cji.legacy \/ cji.st.completed)

\* "JobMap is a map of the job names run by Job invocation and their outcomes":
\* between reconciles every Job that was created has its entry.
RunJobsRecorded == pc = "idle" => \A i \in JobIds : phase[i] > 0 => cji.st.jobMap[i] # "none"

=============================================================================
