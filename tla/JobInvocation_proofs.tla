------------------------ MODULE JobInvocation_proofs ------------------------
(* Theorems about the ClowdJobInvocation controller, for every set of names, *)
(* every list of jobs and every number of edits, failures and disturbances.  *)
EXTENDS JobInvocation, FiniteSetTheorems, TLAPS

LEMMA ItemsType ==
    ASSUME NEW o \in Object
    PROVE  /\ Items(o) \in Seq(JobNames \cup {IqeItem})
           /\ Len(Items(o)) \in Nat
           /\ \A k \in 1..Len(Items(o)) : Items(o)[k] \in Errors
  <1>1. o.jobs \in Seq(JobNames \cup {IqeItem})
    BY DEF Object
  <1>2. <<IqeItem>> \in Seq(JobNames \cup {IqeItem}) /\ <<>> \in Seq(JobNames \cup {IqeItem})
    OBVIOUS
  <1>3. Items(o) \in Seq(JobNames \cup {IqeItem})
    <2>1. o.jobs \o <<IqeItem>> \in Seq(JobNames \cup {IqeItem})
      BY <1>1, <1>2
    <2>2. o.jobs \o <<>> \in Seq(JobNames \cup {IqeItem})
      BY <1>1, <1>2
    <2>3. Items(o) = o.jobs \o <<IqeItem>> \/ Items(o) = o.jobs \o <<>>
      BY Zenon DEF Items
    <2> QED
      BY Zenon, <2>1, <2>2, <2>3
  <1> QED
    BY <1>3 DEF Errors

LEMMA ObjectNumbers == \A o \in Object : o.rv \in Nat /\ o.gen \in Nat
  BY Zenon DEF Object

\* Changing a field of an object keeps it an object.
LEMMA ObjectUpdate ==
    ASSUME NEW o \in Object
    PROVE  /\ o.st \in Status
           /\ \A r \in Nat : [o EXCEPT !.rv = r] \in Object
           /\ \A r, g \in Nat : [o EXCEPT !.rv = r, !.gen = g] \in Object
           /\ \A d \in BOOLEAN : [o EXCEPT !.disabled = d] \in Object
           /\ \A l \in Seq(JobNames) : [o EXCEPT !.jobs = l] \in Object
           /\ \A s \in Status : [o EXCEPT !.st = s] \in Object
           /\ \A m \in [JobIds -> JobStates] : [o EXCEPT !.st.jobMap = m] \in Object
  <1>1. o.st \in Status
    BY Zenon DEF Object
  <1>2. \A m \in [JobIds -> JobStates] : [o.st EXCEPT !.jobMap = m] \in Status
    BY Zenon, <1>1 DEF Status
  <1>3. \A m \in [JobIds -> JobStates] : [o EXCEPT !.st.jobMap = m] \in Object
    BY Zenon, <1>2 DEF Object
  <1> QED
    BY Zenon, <1>1, <1>3 DEF Object

LEMMA FreshType == Fresh \in Status /\ NoObject \in Object /\ EmptyMap \in [JobIds -> JobStates]
  <1>1. EmptyMap \in [JobIds -> JobStates]
    BY Zenon DEF EmptyMap, JobStates
  <1>2. Fresh \in Status
    BY Zenon, <1>1 DEF Fresh, Status, NoError, Errors
  <1>3. <<>> \in Seq(JobNames)
    OBVIOUS
  <1> QED
    BY Zenon, <1>1, <1>2, <1>3 DEF NoObject, Object

LEMMA NewStatusType ==
    ASSUME TypeOK
    PROVE  NewStatus(snap) \in Status
  BY Zenon DEF NewStatus, GetJobsStatus, UpdateInvokedJobStatus, TypeOK, Status, Object, JobStates, Final

LEMMA StoredType ==
    ASSUME TypeOK
    PROVE  LET stored == [[snap EXCEPT !.st = NewStatus(snap)] EXCEPT !.rv = cji.rv + 1]
           IN  /\ stored \in Object
               /\ stored.rv = cji.rv + 1 /\ stored.st = NewStatus(snap)
               /\ stored.legacy = snap.legacy
  <1> DEFINE o == [snap EXCEPT !.st = NewStatus(snap)]
  <1>1. cji.rv + 1 \in Nat
    BY ObjectNumbers DEF TypeOK
  <1>2. o \in Object
    BY Zenon, NewStatusType, ObjectUpdate DEF TypeOK
  <1>3. o.st = NewStatus(snap) /\ o.legacy = snap.legacy
    BY Zenon DEF TypeOK, Object
  <1> HIDE DEF o
  <1>4. [o EXCEPT !.rv = cji.rv + 1] \in Object
    BY Zenon, <1>1, <1>2, ObjectUpdate
  <1>5. /\ [o EXCEPT !.rv = cji.rv + 1].rv = cji.rv + 1 /\ [o EXCEPT !.rv = cji.rv + 1].st = o.st
        /\ [o EXCEPT !.rv = cji.rv + 1].legacy = o.legacy
    BY Zenon, <1>2 DEF Object
  <1> QED
    BY Zenon, <1>3, <1>4, <1>5 DEF o

\* A user's edit stores a new version with the same status.
LEMMA EditEffect ==
    ASSUME TypeOK, UserEdits
    PROVE  \E s \in Object :
             /\ s.rv = cji.rv + 1 /\ s.st = cji.st /\ s.legacy = cji.legacy
             /\ edits < MaxEdits /\ edits' = edits + 1
             /\ cji' = s /\ watch' = Append(watch, s)
             /\ UNCHANGED <<cached, app, envThere, jobVars, queued, workerVars, nextId, faults>>
  <1>1. cji \in Object /\ cji.rv + 1 \in Nat /\ cji.gen + 1 \in Nat
    BY ObjectNumbers DEF TypeOK
  <1>2. PICK o : EditSpec(o) /\ \/ o = [cji EXCEPT !.disabled = TRUE]
                                \/ o = [cji EXCEPT !.disabled = FALSE]
                                \/ \E l \in JobLists : o = [cji EXCEPT !.jobs = l]
    BY Zenon DEF UserEdits
  <1>3. o \in Object /\ o.st = cji.st /\ o.legacy = cji.legacy
    BY Zenon, <1>1, <1>2, ItemsAssumption DEF Object
  <1> DEFINE s == [o EXCEPT !.rv = cji.rv + 1, !.gen = cji.gen + 1]
  <1>4. s \in Object
    BY Zenon, <1>1, <1>3, ObjectUpdate
  <1>5. s.rv = cji.rv + 1 /\ s.st = cji.st /\ s.legacy = cji.legacy
    BY Zenon, <1>3 DEF Object
  <1> QED
    BY Zenon, <1>2, <1>4, <1>5 DEF EditSpec

LEMMA TypeInit == Init => TypeOK
  <1> SUFFICES ASSUME Init PROVE TypeOK
    BY Zenon
  <1>1. cji \in Object
    BY FreshType, ItemsAssumption DEF Init, Object
  <1>2. watch \in Seq(Object)
    BY DEF Init
  <1>3. verdict \in [state : {"Successful", "Failed"}, err : Errors]
    BY Zenon DEF Init, Success, NoError, Errors
  <1> QED
    BY <1>1, <1>2, <1>3, FreshType, BoundsAssumption DEF Init, TypeOK, NoApp, AppObject

LEMMA TypeStep == TypeOK /\ [Next]_vars => TypeOK'
  <1> SUFFICES ASSUME TypeOK, [Next]_vars PROVE TypeOK'
    BY Zenon
  <1>1. CASE Begin
    <2>1. snap' \in Object
      BY Zenon, <1>1, FreshType, ObjectUpdate DEF Begin, TypeOK
    <2> QED
      BY Zenon, <1>1, <2>1 DEF Begin, TypeOK, jobVars
  <1>2. CASE PrepareBlocked
    <2>1. snap' \in Object
      BY Zenon, <1>2, FreshType, ObjectUpdate DEF PrepareBlocked, TypeOK
    <2>2. verdict' \in [state : {"Successful", "Failed"}, err : Errors]
      BY Zenon, <1>2 DEF PrepareBlocked, Obstacle, Errors, Obstacles, NoError
    <2> QED
      BY Zenon, <1>2, <2>1, <2>2 DEF PrepareBlocked, TypeOK, jobVars
  <1>3. CASE PrepareJobs
    <2>1. PICK n \in 0..Len(Items(snap)) : PrepareJobs!(n)
      BY Zenon, <1>3 DEF PrepareJobs
    <2>2. /\ Len(Items(snap)) \in Nat
          /\ \A k \in 1..Len(Items(snap)) : Items(snap)[k] \in Errors
      BY Zenon, ItemsType DEF TypeOK
    <2>3. snap' \in Object
      <3>1. InvokeJob(nextId .. (nextId + n - 1)) \in [JobIds -> JobStates]
        BY Zenon DEF InvokeJob, JobStates
      <3> QED
        BY Zenon, <2>1, <3>1, ObjectUpdate DEF TypeOK
    <2>4. verdict' \in [state : {"Successful", "Failed"}, err : Errors]
      <3>1. n < Len(Items(snap)) => Items(snap)[n + 1] \in Errors
        BY <2>2
      <3> QED
        BY Zenon, <2>1, <3>1 DEF TypeOK
    <2>5. made' \in [JobIds -> [pos : Nat, items : Seq(JobNames \cup {IqeItem})]]
      <3>1. Items(snap) \in Seq(JobNames \cup {IqeItem}) /\ nextId \in Nat
        BY Zenon, ItemsType DEF TypeOK
      <3>2. \A i \in JobIds : i \in nextId .. (nextId + n - 1) => i - nextId + 1 \in Nat
        BY <3>1, JobIdsAssumption
      <3>3. \A i \in JobIds : i \in nextId .. (nextId + n - 1)
              => [pos |-> i - nextId + 1, items |-> Items(snap)]
                   \in [pos : Nat, items : Seq(JobNames \cup {IqeItem})]
        BY Zenon, <3>1, <3>2
      <3>4. made \in [JobIds -> [pos : Nat, items : Seq(JobNames \cup {IqeItem})]]
        BY Zenon DEF TypeOK
      <3> QED
        BY Zenon, <2>1, <3>3, <3>4
    <2> QED
      BY <2>1, <2>2, <2>3, <2>4, <2>5 DEF TypeOK
  <1>4. ASSUME NEW i \in JobIds, ApplyJob(i) PROVE TypeOK'
    BY <1>4 DEF ApplyJob, TypeOK
  <1>5. CASE ApplyError
    BY <1>5, BoundsAssumption DEF ApplyError, Errors, TypeOK, jobVars
  <1>6. CASE SetConditions
    <2>3. [[snap EXCEPT !.st = NewStatus(snap)] EXCEPT !.rv = cji.rv + 1] \in Object
      BY Zenon, StoredType
    <2>4. Append(watch, [[snap EXCEPT !.st = NewStatus(snap)] EXCEPT !.rv = cji.rv + 1]) \in Seq(Object)
      BY <2>3 DEF TypeOK
    <2>5. cji' \in Object /\ watch' \in Seq(Object) /\ snap' \in Object
      BY Zenon, <1>6, <2>3, <2>4, FreshType DEF SetConditions, TypeOK, Discard
    <2>6. pc' \in {"idle", "poll"} /\ queued' \in BOOLEAN /\ pend' \in SUBSET JobIds
      BY Zenon, <1>6 DEF SetConditions, TypeOK, Discard
    <2>7. verdict' \in [state : {"Successful", "Failed"}, err : Errors]
      <3>1. Success \in [state : {"Successful", "Failed"}, err : Errors]
        BY Zenon DEF Success, NoError, Errors
      <3> QED
        BY Zenon, <1>6, <3>1 DEF SetConditions, TypeOK, Discard
    <2> QED
      BY Zenon, <1>6, <2>5, <2>6, <2>7 DEF SetConditions, TypeOK, jobVars
  <1>7. CASE PollDone
    BY Zenon, <1>7, FreshType DEF PollDone, TypeOK, jobVars, Discard, Success, NoError, Errors
  <1>8. CASE PollTimeout
    BY <1>8, FreshType, BoundsAssumption DEF PollTimeout, TypeOK, jobVars, Discard, Success, NoError, Errors
  <1>9. CASE Crash
    BY <1>9, FreshType, BoundsAssumption DEF Crash, TypeOK, Discard, Success, NoError, Errors
  <1>10. CASE DeliverCji
    BY <1>10 DEF DeliverCji, TypeOK, jobVars, workerVars
  <1>11. ASSUME NEW i \in JobIds, DeliverJob(i) PROVE TypeOK'
    <2>1. view[i] + 1 \in 0..3
      <3>1. view[i] \in 0..3 /\ phase[i] \in 0..3
        BY Zenon DEF TypeOK
      <3>2. view[i] < phase[i]
        BY Zenon, <1>11 DEF DeliverJob
      <3> QED
        BY <3>1, <3>2
    <2> QED
      BY Zenon, <1>11, <2>1 DEF DeliverJob, TypeOK, workerVars
  <1>12. ASSUME NEW i \in JobIds, NEW how \in Final, FinishJob(i, how) PROVE TypeOK'
    BY <1>12 DEF FinishJob, TypeOK, workerVars, Final
  <1>13. ASSUME NEW i \in JobIds, DeleteJob(i) PROVE TypeOK'
    BY <1>13, BoundsAssumption DEF DeleteJob, TypeOK, workerVars
  <1>14. CASE UserEdits
    <2>1. cji' \in Object /\ watch' = Append(watch, cji') /\ edits' \in 0..MaxEdits
          /\ UNCHANGED <<cached, app, envThere, jobVars, queued, workerVars, nextId, faults>>
      BY <1>14, EditEffect, BoundsAssumption DEF TypeOK
    <2>2. watch' \in Seq(Object)
      BY <2>1 DEF TypeOK
    <2> QED
      BY Zenon, <2>1, <2>2 DEF TypeOK, jobVars, workerVars
  <1>15. CASE AppSpecChange
    <2>1. app' \in AppObject
      <3>1. PICK bad \in SUBSET BadItems, old \in SUBSET OldImages, ready \in {FALSE, app.ready} :
              app' = [app EXCEPT !.there = TRUE, !.gen = @ + 1, !.bad = bad, !.old = old, !.ready = ready]
        BY Zenon, <1>15 DEF AppSpecChange
      <3>2. app \in AppObject
        BY Zenon DEF TypeOK
      <3>3. app.gen + 1 \in Nat
        BY <3>2 DEF AppObject
      <3>4. ready \in BOOLEAN
        BY Zenon, <3>2 DEF AppObject
      <3> QED
        BY Zenon, <3>1, <3>2, <3>3, <3>4 DEF AppObject
    <2> QED
      BY Zenon, <1>15, <2>1 DEF AppSpecChange, TypeOK, jobVars, workerVars
  <1>16. CASE AppReconciled
    <2>1. app' \in AppObject
      BY Zenon, <1>16 DEF AppReconciled, TypeOK, AppObject
    <2> QED
      BY Zenon, <1>16, <2>1 DEF AppReconciled, TypeOK, jobVars, workerVars
  <1>17. CASE AppReconcileFailed
    <2>1. app' \in AppObject
      <3>1. PICK ready \in BOOLEAN : app' = [app EXCEPT !.ready = ready, !.fails = @ + 1]
        BY Zenon, <1>17 DEF AppReconcileFailed
      <3>2. app \in AppObject
        BY Zenon DEF TypeOK
      <3>3. app.fails + 1 \in 0..MaxFails
        BY <1>17, <3>2, BoundsAssumption DEF AppReconcileFailed, AppObject
      <3> QED
        BY Zenon, <3>1, <3>2, <3>3 DEF AppObject
    <2> QED
      BY Zenon, <1>17, <2>1 DEF AppReconcileFailed, TypeOK, jobVars, workerVars
  <1>18. CASE EnvCreated
    BY Zenon, <1>18 DEF EnvCreated, TypeOK, jobVars, workerVars
  <1>19. CASE UNCHANGED vars
    BY Zenon, <1>19 DEF vars, TypeOK
  <1> QED
    BY Zenon, <1>1, <1>2, <1>3, <1>4, <1>5, <1>6, <1>7, <1>8, <1>9, <1>10, <1>11, <1>12, <1>13,
       <1>14, <1>15, <1>16, <1>17, <1>18, <1>19
       DEF Next, Worker, Informers, Disturbances, Cluster

\* Every step keeps every variable in its type.
THEOREM TypeInvariant == Spec => []TypeOK
  BY TypeInit, TypeStep, PTL DEF Spec

----------------------------------------------------------------------------
(* Outcomes *)

\* A name is fresh until its Job is applied.
NamesFresh ==
    /\ \A i \in JobIds : i >= nextId \/ i \in pend => phase[i] = 0
    /\ \A i \in pend : i < nextId
    /\ \A i \in JobIds : phase[i] <= 1 => outcome[i] = "none"

\* A status reports no outcome a Job did not have, and none for a legacy CJI.
Honest(o, out) ==
    /\ \A i \in JobIds : o.st.jobMap[i] \in Final => out[i] = o.st.jobMap[i]
    /\ o.legacy => o.st.jobMap = EmptyMap

AllHonest ==
    /\ Honest(cji, outcome) /\ Honest(cached, outcome) /\ Honest(snap, outcome)
    /\ \A k \in 1..Len(watch) : Honest(watch[k], outcome)

OutcomeInv ==
    TypeOK /\ NamesFresh /\ AllHonest /\ (pc = "prepare" => ~snap.legacy)

LEMMA NamesStep == TypeOK /\ NamesFresh /\ [Next]_vars => NamesFresh'
  <1> SUFFICES ASSUME TypeOK, NamesFresh, [Next]_vars PROVE NamesFresh'
    BY Zenon
  <1> USE JobIdsAssumption
  <1>1. CASE PrepareJobs
    <2>1. PICK n \in 0..Len(Items(snap)) : PrepareJobs!(n)
      BY Zenon, <1>1 DEF PrepareJobs
    <2>2. n \in Nat /\ nextId \in Nat
      BY <2>1, ItemsType DEF TypeOK
    <2>3. nextId' = nextId + n /\ pend' \subseteq nextId .. (nextId + n - 1)
      BY Zenon, <2>1
    <2> QED
      BY <2>1, <2>2, <2>3 DEF NamesFresh
  <1>2. ASSUME NEW i \in JobIds, ApplyJob(i) PROVE NamesFresh'
    BY <1>2 DEF ApplyJob, NamesFresh, TypeOK
  <1>3. CASE ApplyError \/ SetConditions \/ PollDone \/ PollTimeout \/ Crash
    BY Zenon, <1>3 DEF ApplyError, SetConditions, PollDone, PollTimeout, Crash, Discard, jobVars, NamesFresh
  <1>4. ASSUME NEW i \in JobIds, NEW how \in Final, FinishJob(i, how) PROVE NamesFresh'
    BY <1>4 DEF FinishJob, NamesFresh, TypeOK, workerVars
  <1>5. ASSUME NEW i \in JobIds, DeleteJob(i) PROVE NamesFresh'
    BY <1>5 DEF DeleteJob, NamesFresh, TypeOK, workerVars
  <1>6. CASE UNCHANGED <<phase, outcome, pend, nextId>>
    BY Zenon, <1>6 DEF NamesFresh
  <1>7. CASE Begin \/ PrepareBlocked \/ DeliverCji \/ UserEdits \/ AppSpecChange \/ AppReconciled
             \/ AppReconcileFailed \/ EnvCreated \/ UNCHANGED vars
    BY Zenon, <1>6, <1>7 DEF Begin, PrepareBlocked, DeliverCji, UserEdits, EditSpec, AppSpecChange,
         AppReconciled, AppReconcileFailed, EnvCreated, vars, jobVars, workerVars
  <1>8. ASSUME NEW i \in JobIds, DeliverJob(i) PROVE NamesFresh'
    BY Zenon, <1>6, <1>8 DEF DeliverJob, workerVars
  <1> QED
    BY Zenon, <1>1, <1>2, <1>3, <1>4, <1>5, <1>7, <1>8
       DEF Next, Worker, Informers, Disturbances, Cluster

\* The status SetClowdJobInvocationConditions computes is honest.
LEMMA NewStatusHonest ==
    ASSUME TypeOK, AllHonest
    PROVE  /\ \A i \in JobIds : NewStatus(snap).jobMap[i] \in Final => outcome[i] = NewStatus(snap).jobMap[i]
           /\ snap.legacy => NewStatus(snap).jobMap = EmptyMap
  <1>1. NewStatus(snap).jobMap = UpdateInvokedJobStatus(snap)
    BY Zenon DEF NewStatus
  <1>2. \A i \in JobIds : UpdateInvokedJobStatus(snap)[i] \in {outcome[i], snap.st.jobMap[i]}
    BY Zenon DEF UpdateInvokedJobStatus
  <1>3. snap.legacy => UpdateInvokedJobStatus(snap) = EmptyMap
    BY DEF UpdateInvokedJobStatus, AllHonest, Honest, EmptyMap
  <1> QED
    BY Zenon, <1>1, <1>2, <1>3 DEF AllHonest, Honest

LEMMA HonestStep ==
    OutcomeInv /\ [Next]_vars => AllHonest' /\ (pc' = "prepare" => ~snap'.legacy)
  <1> SUFFICES ASSUME OutcomeInv, [Next]_vars
               PROVE  AllHonest' /\ (pc' = "prepare" => ~snap'.legacy)
    BY Zenon
  <1> USE DEF OutcomeInv
  <1>0. (\A out : Honest(NoObject, out)) /\ ~NoObject.legacy
    BY Zenon DEF Honest, NoObject, Fresh, EmptyMap, Final
  <1>1. CASE Begin
    <2>1. snap'.legacy = cached.legacy /\ snap'.st.jobMap \in {cached.st.jobMap, EmptyMap}
      BY Zenon, <1>1 DEF Begin, TypeOK, Object, Status
    <2>2. Honest(snap', outcome')
      BY <1>1, <2>1 DEF Begin, AllHonest, Honest, EmptyMap, Final, jobVars
    <2>3. pc' = "prepare" => ~snap'.legacy
      BY Zenon, <1>1, <2>1 DEF Begin, MustInvoke
    <2> QED
      BY Zenon, <1>1, <2>2, <2>3 DEF Begin, AllHonest, Honest, jobVars
  <1>2. CASE PrepareBlocked
    <2>1. snap'.st.jobMap = EmptyMap
      BY Zenon, <1>2 DEF PrepareBlocked, TypeOK, Object, Status
    <2>2. Honest(snap', outcome')
      BY Zenon, <2>1 DEF Honest, EmptyMap, Final
    <2> QED
      BY Zenon, <1>2, <2>2 DEF PrepareBlocked, AllHonest, Honest, jobVars
  <1>3. CASE PrepareJobs
    <2>1. PICK n \in 0..Len(Items(snap)) : PrepareJobs!(n)
      BY Zenon, <1>3 DEF PrepareJobs
    <2>2. ~snap'.legacy /\ \A i \in JobIds : snap'.st.jobMap[i] \in {"Invoked", "none"}
      BY Zenon, <2>1 DEF InvokeJob, TypeOK, Object, Status
    <2>3. Honest(snap', outcome')
      BY Zenon, <2>2 DEF Honest, Final
    <2> QED
      BY Zenon, <2>1, <2>3 DEF AllHonest, Honest
  <1>4. CASE SetConditions
    <2> DEFINE stored == [[snap EXCEPT !.st = NewStatus(snap)] EXCEPT !.rv = cji.rv + 1]
    <2>1. stored \in Object /\ stored.st = NewStatus(snap) /\ stored.legacy = snap.legacy
      BY Zenon, StoredType
    <2>2. Honest(stored, outcome)
      BY Zenon, <2>1, NewStatusHonest DEF Honest
    <2>3. outcome' = outcome /\ cached' = cached /\ pc' # "prepare"
      BY Zenon, <1>4 DEF SetConditions, jobVars
    <2>4. /\ cji' \in {cji, stored} /\ snap' \in {snap, stored, NoObject}
          /\ watch' \in {watch, Append(watch, stored)}
      BY Zenon, <1>4 DEF SetConditions, Discard
    <2>5. Honest(cji', outcome) /\ Honest(snap', outcome)
      BY Zenon, <1>0, <2>2, <2>3, <2>4 DEF AllHonest
    <2>7. \A k \in 1..Len(watch') : Honest(watch'[k], outcome)
      <3> HIDE DEF stored
      <3>1. watch \in Seq(Object)
        BY Zenon DEF TypeOK
      <3> QED
        BY <2>1, <2>2, <2>4, <3>1 DEF AllHonest
    <2> QED
      BY Zenon, <2>3, <2>5, <2>7 DEF AllHonest
  <1>5. CASE PollDone \/ PollTimeout \/ Crash
    BY <1>0, <1>5 DEF PollDone, PollTimeout, Crash, Discard, AllHonest, jobVars
  <1>6. CASE DeliverCji
    <2>1. watch \in Seq(Object) /\ watch # <<>>
      BY Zenon, <1>6 DEF DeliverCji, TypeOK
    <2>2. cached' = watch[1] /\ \A k \in 1..Len(watch') : watch'[k] = watch[k + 1] /\ k + 1 \in 1..Len(watch)
      BY <1>6, <2>1 DEF DeliverCji
    <2>3. 1 \in 1..Len(watch)
      BY <2>1
    <2> QED
      BY Zenon, <1>6, <2>2, <2>3 DEF DeliverCji, AllHonest, jobVars, workerVars
  <1>7. ASSUME NEW i \in JobIds, NEW how \in Final, FinishJob(i, how)
        PROVE  AllHonest' /\ (pc' = "prepare" => ~snap'.legacy)
    <2>1. outcome[i] = "none"
      BY <1>7 DEF FinishJob, NamesFresh
    <2>2. outcome' = [outcome EXCEPT ![i] = how]
      BY Zenon, <1>7 DEF FinishJob
    <2>3. \A o : Honest(o, outcome) => Honest(o, outcome')
      BY Zenon, <2>1, <2>2 DEF Honest, Final, TypeOK
    <2> QED
      BY Zenon, <1>7, <2>3 DEF FinishJob, AllHonest, workerVars
  <1>8. CASE UserEdits
    <2>1. PICK s \in Object : /\ s.st = cji.st /\ s.legacy = cji.legacy
                              /\ cji' = s /\ watch' = Append(watch, s)
                              /\ UNCHANGED <<cached, outcome, snap, pc>>
      BY Zenon, <1>8, EditEffect DEF jobVars, workerVars
    <2>2. Honest(s, outcome)
      BY Zenon, <2>1 DEF Honest, AllHonest
    <2>3. \A k \in 1..Len(watch') : Honest(watch'[k], outcome)
      <3>1. watch \in Seq(Object)
        BY Zenon DEF TypeOK
      <3> QED
        BY <2>1, <2>2, <3>1 DEF AllHonest
    <2> QED
      BY Zenon, <2>1, <2>2, <2>3 DEF AllHonest
  <1>9. CASE UNCHANGED <<cji, cached, snap, watch, outcome>> /\ (pc' = pc \/ pc' # "prepare")
    BY Zenon, <1>9 DEF AllHonest
  <1>10. ASSUME NEW i \in JobIds, ApplyJob(i) \/ DeleteJob(i) \/ DeliverJob(i)
         PROVE  AllHonest' /\ (pc' = "prepare" => ~snap'.legacy)
    BY Zenon, <1>9, <1>10 DEF ApplyJob, DeleteJob, DeliverJob, workerVars
  <1>11. CASE ApplyError \/ AppSpecChange \/ AppReconciled \/ AppReconcileFailed \/ EnvCreated
              \/ UNCHANGED vars
    BY Zenon, <1>9, <1>11 DEF ApplyError, AppSpecChange, AppReconciled, AppReconcileFailed, EnvCreated,
         vars, jobVars, workerVars
  <1> QED
    BY Zenon, <1>1, <1>2, <1>3, <1>4, <1>5, <1>6, <1>7, <1>8, <1>10, <1>11
       DEF Next, Worker, Informers, Disturbances, Cluster

LEMMA OutcomeInit == Init => OutcomeInv
  <1> SUFFICES ASSUME Init PROVE OutcomeInv
    BY Zenon
  <1>1. NamesFresh
    BY Zenon DEF Init, NamesFresh
  <1>2. Honest(cji, outcome) /\ Honest(snap, outcome)
    BY DEF Init, Honest, Fresh, NoObject, EmptyMap, Final
  <1> QED
    BY <1>1, <1>2, TypeInit DEF Init, OutcomeInv, AllHonest

\* An outcome reported in status.jobMap is the one the Job had.
THEOREM OutcomesTheorem == Spec => []OutcomesTrue
  <1>2. OutcomeInv /\ [Next]_vars => OutcomeInv'
    BY Zenon, TypeStep, NamesStep, HonestStep DEF OutcomeInv
  <1>3. OutcomeInv => OutcomesTrue
    BY Zenon DEF OutcomeInv, AllHonest, Honest, OutcomesTrue
  <1> QED
    BY OutcomeInit, <1>2, <1>3, PTL DEF Spec

----------------------------------------------------------------------------
(* Versions *)

\* An object someone holds is the stored one or has an older version.
Behind(o) == o.rv <= cji.rv /\ (o.rv = cji.rv => o = cji)

\* A worker whose write would succeed started from the stored job map.
VersionInv ==
    /\ OutcomeInv
    /\ Behind(cached)
    /\ \A k \in 1..Len(watch) : Behind(watch[k])
    /\ snap.rv <= cji.rv
    /\ pc = "prepare" => /\ snap.st.jobMap = EmptyMap
                         /\ snap.rv = cji.rv => cji.st.jobMap = EmptyMap
    /\ pc \in {"apply", "status"} /\ snap.rv = cji.rv =>
         cji.st.jobMap \in {EmptyMap, snap.st.jobMap}

LEMMA VersionStep == VersionInv /\ [Next]_vars => VersionInv'
  <1> SUFFICES ASSUME VersionInv, [Next]_vars PROVE VersionInv'
    BY Zenon
  <1>0. OutcomeInv'
    BY Zenon, TypeStep, NamesStep, HonestStep DEF VersionInv, OutcomeInv
  <1>t. /\ watch \in Seq(Object) /\ cji \in Object /\ snap \in Object /\ cached \in Object
        /\ cji.rv \in Nat /\ snap.rv \in Nat /\ cached.rv \in Nat
        /\ \A k \in 1..Len(watch) : watch[k].rv \in Nat
    BY ObjectNumbers DEF VersionInv, OutcomeInv, TypeOK
  <1>1. CASE Begin
    <2>1. snap'.rv = cached.rv /\ UNCHANGED <<cji, cached, watch>> /\ pc' \in {"prepare", "status"}
      BY Zenon, <1>1, <1>t DEF Begin, Object
    <2>2. pc' = "prepare" => snap'.st.jobMap = EmptyMap /\ cached.st.jobMap = EmptyMap
      BY Zenon, <1>1, <1>t DEF Begin, MustInvoke
    <2>3. pc' = "status" => cached.st.jobMap \in {EmptyMap, snap'.st.jobMap}
      BY Zenon, <1>1 DEF Begin, VersionInv, OutcomeInv, AllHonest, Honest
    <2> QED
      BY Zenon, <1>0, <2>1, <2>2, <2>3 DEF VersionInv, Behind
  <1>2. CASE PrepareBlocked
    <2>1. snap'.rv = snap.rv /\ UNCHANGED <<cji, cached, watch>> /\ pc' = "status" /\ pc = "prepare"
      BY Zenon, <1>2, <1>t DEF PrepareBlocked, Object
    <2> QED
      BY Zenon, <1>0, <2>1 DEF VersionInv, Behind
  <1>3. CASE PrepareJobs
    <2>1. snap'.rv = snap.rv /\ UNCHANGED <<cji, cached, watch>> /\ pc' # "prepare" /\ pc = "prepare"
      BY Zenon, <1>3, <1>t DEF PrepareJobs, Object
    <2> QED
      BY Zenon, <1>0, <2>1 DEF VersionInv, Behind
  <1>4. CASE SetConditions
    <2> DEFINE stored == [[snap EXCEPT !.st = NewStatus(snap)] EXCEPT !.rv = cji.rv + 1]
    <2>1. stored \in Object /\ stored.rv = cji.rv + 1
      BY Zenon, StoredType DEF VersionInv, OutcomeInv
    <2>2. pc' \in {"poll", "idle"} /\ cached' = cached
      BY Zenon, <1>4 DEF SetConditions
    <2>3. \/ UNCHANGED <<cji, watch>> /\ snap' \in {snap, NoObject}
          \/ cji' = stored /\ watch' = Append(watch, stored) /\ snap' = stored
      BY Zenon, <1>4 DEF SetConditions, Discard
    <2> HIDE DEF stored
    <2>4. CASE UNCHANGED <<cji, watch>> /\ snap' \in {snap, NoObject}
      <3>1. snap'.rv <= cji.rv
        BY <1>t, <2>4 DEF NoObject, VersionInv
      <3> QED
        BY Zenon, <1>0, <2>2, <2>4, <3>1 DEF VersionInv, Behind
    <2>5. CASE cji' = stored /\ watch' = Append(watch, stored) /\ snap' = stored
      <3>1. \A k \in 1..Len(watch') : watch'[k] = stored \/ (k \in 1..Len(watch) /\ watch'[k] = watch[k])
        BY <1>t, <2>1, <2>5
      <3>2. \A k \in 1..Len(watch') : Behind(watch[k])'
        BY <1>t, <2>1, <2>5, <3>1 DEF VersionInv, Behind
      <3>3. Behind(cached)'
        BY <1>t, <2>1, <2>2, <2>5 DEF VersionInv, Behind
      <3>4. snap'.rv <= cji'.rv
        BY <1>t, <2>1, <2>5
      <3>5. pc' # "prepare" /\ pc' \notin {"apply", "status"}
        BY Zenon, <2>2
      <3> QED
        BY Zenon, <1>0, <3>2, <3>3, <3>4, <3>5 DEF VersionInv
    <2> QED
      BY Zenon, <2>3, <2>4, <2>5
  <1>5. CASE PollDone \/ PollTimeout \/ Crash
    <2>1. pc' = "idle" /\ snap'.rv = 0 /\ cji' = cji
      <3>1. NoObject.rv = 0
        BY Zenon DEF NoObject
      <3>2. pc' = "idle" /\ snap' = NoObject /\ cji' = cji
        BY Zenon, <1>5 DEF PollDone, PollTimeout, Crash, Discard
      <3> QED
        BY Zenon, <3>1, <3>2
    <2>2. \/ UNCHANGED <<cached, watch>>
          \/ cached' = cji /\ watch' = <<>>
      BY Zenon, <1>5 DEF PollDone, PollTimeout, Crash
    <2> QED
      BY <1>0, <1>t, <2>1, <2>2 DEF VersionInv, Behind
  <1>6. CASE DeliverCji
    <2>1. watch # <<>> /\ UNCHANGED <<cji, snap, pc>>
      BY Zenon, <1>6 DEF DeliverCji, workerVars
    <2>2. cached' = watch[1] /\ \A k \in 1..Len(watch') : watch'[k] = watch[k + 1] /\ k + 1 \in 1..Len(watch)
      BY <1>6, <1>t, <2>1 DEF DeliverCji
    <2>3. 1 \in 1..Len(watch)
      BY <1>t, <2>1
    <2> QED
      BY Zenon, <1>0, <2>1, <2>2, <2>3 DEF VersionInv, Behind
  <1>7. CASE UserEdits
    <2>1. PICK s \in Object : /\ s.rv = cji.rv + 1
                              /\ cji' = s /\ watch' = Append(watch, s)
                              /\ UNCHANGED <<cached, snap, pc>>
      BY Zenon, <1>7, EditEffect DEF VersionInv, OutcomeInv, workerVars
    <2>2. \A k \in 1..Len(watch') : watch'[k] = s \/ (k \in 1..Len(watch) /\ watch'[k] = watch[k])
      BY <1>t, <2>1
    <2>3. \A k \in 1..Len(watch') : Behind(watch[k])'
      BY <1>t, <2>1, <2>2 DEF VersionInv, Behind
    <2>4. Behind(cached)'
      BY <1>t, <2>1 DEF VersionInv, Behind
    <2>5. snap'.rv < cji'.rv
      <3>1. cji'.rv = cji.rv + 1 /\ snap'.rv = snap.rv
        BY Zenon, <2>1
      <3>2. snap.rv <= cji.rv
        BY Zenon DEF VersionInv
      <3> QED
        BY <1>t, <3>1, <3>2
    <2> QED
      BY <1>0, <1>t, <2>1, <2>3, <2>4, <2>5 DEF VersionInv
  <1>8. CASE UNCHANGED <<cji, cached, watch, snap>> /\ (pc' = pc \/ (pc = "apply" /\ pc' = "status"))
    BY Zenon, <1>0, <1>8 DEF VersionInv, Behind
  <1>9. ASSUME NEW i \in JobIds, ApplyJob(i) \/ DeliverJob(i) \/ DeleteJob(i) \/ \E how \in Final : FinishJob(i, how)
        PROVE  VersionInv'
    BY Zenon, <1>8, <1>9 DEF ApplyJob, DeliverJob, DeleteJob, FinishJob, workerVars
  <1>10. CASE ApplyError \/ AppSpecChange \/ AppReconciled \/ AppReconcileFailed \/ EnvCreated
              \/ UNCHANGED vars
    BY Zenon, <1>8, <1>10 DEF ApplyError, AppSpecChange, AppReconciled, AppReconcileFailed, EnvCreated,
         vars, jobVars, workerVars
  <1> QED
    BY Zenon, <1>1, <1>2, <1>3, <1>4, <1>5, <1>6, <1>7, <1>9, <1>10
       DEF Next, Worker, Informers, Disturbances, Cluster

LEMMA VersionInit == Init => VersionInv
  BY OutcomeInit DEF Init, VersionInv, Behind, NoObject

\* A step of the controller is a step of the ledger or leaves it alone.
LEMMA LedgerStep == VersionInv /\ [Next]_vars => [Ledger!Next]_(cji.st.jobMap)
  <1> SUFFICES ASSUME VersionInv, [Next]_vars, cji'.st.jobMap # cji.st.jobMap PROVE Ledger!Next
    BY Zenon
  <1>1. SetConditions
    <2>1. ~UserEdits
      BY Zenon, EditEffect DEF VersionInv, OutcomeInv
    <2> QED
      BY Zenon, <2>1 DEF Next, Worker, Informers, Disturbances, Cluster, Begin, PrepareBlocked, PrepareJobs,
           ApplyJob, ApplyError, PollDone, PollTimeout, Crash, DeliverCji, DeliverJob, FinishJob,
           DeleteJob, AppSpecChange, AppReconciled, AppReconcileFailed, EnvCreated, vars
  <1>2. snap.rv = cji.rv /\ cji'.st = NewStatus(snap) /\ pc = "status"
    BY Zenon, <1>1, StoredType DEF SetConditions, VersionInv, OutcomeInv
  <1>3. cji.st.jobMap \in {EmptyMap, snap.st.jobMap}
    BY Zenon, <1>2 DEF VersionInv
  <1>4. cji'.st.jobMap = UpdateInvokedJobStatus(snap)
    <2>1. NewStatus(snap).jobMap = UpdateInvokedJobStatus(snap)
      BY Zenon DEF NewStatus
    <2> QED
      BY Zenon, <1>2, <2>1
  <1>5. cji'.st.jobMap \in [JobIds -> JobStates]
    BY Zenon, <1>2, NewStatusType DEF VersionInv, OutcomeInv, Status
  <1>6. CASE cji.st.jobMap = EmptyMap
    BY Zenon, <1>5, <1>6 DEF Ledger!Next, Ledger!Enter, Ledger!Blank, EmptyMap, JobStates
  <1>7. CASE cji.st.jobMap = snap.st.jobMap
    <2>1. ASSUME NEW i \in JobIds, cji'.st.jobMap[i] # cji.st.jobMap[i]
          PROVE  cji.st.jobMap[i] = "Invoked" /\ cji'.st.jobMap[i] \in {"Complete", "Failed"}
      <3>1. snap.st.jobMap[i] # "none" /\ outcome[i] # "none" /\ cji'.st.jobMap[i] = outcome[i]
        BY Zenon, <1>4, <1>7, <2>1 DEF UpdateInvokedJobStatus, SeenFinished
      <3>2. outcome[i] \in Final
        BY Zenon, <3>1 DEF VersionInv, OutcomeInv, TypeOK
      <3>3. snap.st.jobMap[i] \notin Final
        BY Zenon, <1>7, <2>1, <3>1 DEF VersionInv, OutcomeInv, AllHonest, Honest
      <3>4. snap.st.jobMap[i] \in JobStates
        BY Zenon DEF VersionInv, OutcomeInv, TypeOK, Object, Status
      <3> QED
        BY Zenon, <1>7, <3>1, <3>2, <3>3, <3>4 DEF JobStates, Final
    <2> QED
      BY Zenon, <1>5, <2>1 DEF Ledger!Next, Ledger!Settle, JobStates
  <1> QED
    BY Zenon, <1>3, <1>6, <1>7

\* The job map stored in the status implements the ledger: entries appear in
\* one step, are never withdrawn, and an outcome is never changed.
THEOREM LedgerRefinement == Spec => LedgerSpec
  <1>1. Init => Ledger!Init
    <2>1. Fresh.jobMap = Ledger!Blank
      BY Zenon DEF Fresh, EmptyMap, Ledger!Blank
    <2>2. Init => cji.st = Fresh
      BY DEF Init
    <2> QED
      BY Zenon, <2>1, <2>2 DEF Ledger!Init
  <1> QED
    BY <1>1, VersionInit, VersionStep, LedgerStep, PTL DEF Spec, LedgerSpec, Ledger!Spec

----------------------------------------------------------------------------
(* Without edits and disturbances no item of a ClowdJobInvocation gets a     *)
(* second Job.  The wait for the cache makes every reconcile start from the  *)
(* stored object; the conditions of an uninvoked CJI differ from those of an *)
(* invoked one, so that the job map is written with them.                    *)

Undisturbed == edits = 0 /\ faults = 0

\* The job map in force: the worker's own once it has drawn names.
Current == IF pc \in {"apply", "status"} THEN snap.st.jobMap ELSE cji.st.jobMap

\* The worker's object is the stored one but for the job map.
FromStored ==
    /\ snap.rv = cji.rv /\ snap.jobs = cji.jobs
    /\ snap.legacy = cji.legacy /\ snap.disabled = cji.disabled
    /\ snap.st.completed = cji.st.completed /\ snap.st.cond = cji.st.cond
    /\ snap.st.err = cji.st.err /\ snap.st.obs = cji.st.obs

\* Errors an uninvoked CJI can be left with.
EarlyError(o, err) == err \in Obstacles \/ (Len(Items(o)) > 0 /\ err = Items(o)[1])

\* An uninvoked CJI is not marked successful unless it has nothing to invoke.
Uninvoked(o) == ~o.legacy /\ ~o.disabled /\ o.st.jobMap = EmptyMap
UninvokedStatus ==
    Uninvoked(cji) =>
      /\ cji.st.completed => Len(Items(cji)) = 0
      /\ ~cji.st.completed => /\ cji.st.cond # "Successful"
                              /\ cji.st.cond = "Failed" => EarlyError(cji, cji.st.err)

QuietInv ==
    /\ pc # "poll" => watch = <<>> /\ cached = cji
    /\ pc = "poll" => /\ snap.st = cji.st
                      /\ \/ watch = <<>> /\ cached = cji
                         \/ watch = <<cji>> /\ cached.st # cji.st
    /\ pc \in {"prepare", "apply", "status"} => FromStored
    /\ pc \in {"idle", "prepare"} => verdict = Success
    /\ pc = "prepare" => ~snap.disabled /\ ~snap.st.completed
    /\ pc # "apply" => pend = {}
    /\ pc = "apply" => snap.st.jobMap # EmptyMap
    /\ pc \in {"apply", "status"} =>
         \/ snap.st.jobMap = cji.st.jobMap
         \/ cji.st.jobMap = EmptyMap /\ (verdict.state # cji.st.cond \/ verdict.err # cji.st.err)
    /\ pc = "status" /\ Uninvoked(snap) =>
         \/ verdict = Success /\ Len(Items(snap)) = 0
         \/ verdict.state = "Failed" /\ EarlyError(snap, verdict.err)
    /\ UninvokedStatus
    /\ \A i \in JobIds : phase[i] > 0 \/ i \in pend => Current[i] # "none"
    /\ \A i, j \in JobIds :
         Current[i] # "none" /\ Current[j] # "none" /\ made[i].pos = made[j].pos => i = j

OnceInv == VersionInv /\ (Undisturbed => QuietInv)

LEMMA NothingCounted ==
    ASSUME NEW o, o.st.jobMap = EmptyMap
    PROVE  countCompletedJobs(o) = 0
  <1>1. {i \in JobIds : o.st.jobMap[i] # "none" /\ SeenFinished(i)} = {}
    BY Zenon DEF EmptyMap
  <1> QED
    BY Zenon, <1>1, FS_EmptySet DEF countCompletedJobs

\* Updating the outcomes neither adds nor removes entries.
LEMMA SameEntries ==
    ASSUME TypeOK, NEW i \in JobIds
    PROVE  UpdateInvokedJobStatus(snap)[i] # "none" <=> snap.st.jobMap[i] # "none"
  BY Zenon DEF UpdateInvokedJobStatus, SeenFinished

LEMMA EmptyStaysEmpty ==
    ASSUME TypeOK
    PROVE  UpdateInvokedJobStatus(snap) = EmptyMap <=> snap.st.jobMap = EmptyMap
  <1>1. snap.st.jobMap \in [JobIds -> JobStates]
    BY Zenon DEF TypeOK, Object, Status
  <1>2. snap.st.jobMap = EmptyMap => UpdateInvokedJobStatus(snap) = EmptyMap
    BY Zenon DEF UpdateInvokedJobStatus, EmptyMap
  <1>3. UpdateInvokedJobStatus(snap) = EmptyMap => \A i \in JobIds : snap.st.jobMap[i] = "none"
    BY Zenon, SameEntries DEF EmptyMap
  <1> QED
    BY Zenon, <1>1, <1>2, <1>3 DEF EmptyMap

LEMMA QuietStep ==
    ASSUME VersionInv, QuietInv, Undisturbed, Undisturbed', [Next]_vars
    PROVE  QuietInv'
  <1>t. /\ TypeOK /\ cji \in Object /\ snap \in Object /\ cached \in Object /\ watch \in Seq(Object)
        /\ cji.st \in Status /\ snap.st \in Status
    BY Zenon, ObjectUpdate DEF VersionInv, OutcomeInv, TypeOK
  <1>i. \A o, p : o.jobs = p.jobs => Items(o) = Items(p)
    BY Zenon DEF Items
  <1>1. CASE Begin
    <2>1. cached = cji /\ watch = <<>> /\ verdict = Success /\ pend = {}
      BY Zenon, <1>1 DEF Begin, QuietInv
    <2>2. UNCHANGED <<cji, watch, cached, phase, made, pend, verdict>> /\ pc' \in {"prepare", "status"}
      BY Zenon, <1>1 DEF Begin, jobVars
    <2>3. snap'.st.jobMap = cji.st.jobMap
      BY Zenon, <1>1, <1>t, <2>1 DEF Begin, VersionInv, OutcomeInv, AllHonest, Honest, Object, Status
    <2>4. FromStored'
      BY Zenon, <1>1, <1>t, <2>1, <2>2 DEF Begin, FromStored, Object, Status
    <2>5. pc' = "prepare" => ~snap'.disabled /\ ~snap'.st.completed
      BY Zenon, <1>1 DEF Begin, MustInvoke
    <2>6. pc' = "status" /\ Uninvoked(snap') => Len(Items(snap')) = 0
      <3> SUFFICES ASSUME pc' = "status", Uninvoked(snap') PROVE Len(Items(snap')) = 0
        BY Zenon
      <3>1. Uninvoked(cji)
        BY Zenon, <2>2, <2>3, <2>4 DEF Uninvoked, FromStored
      <3>2. cji.st.completed
        BY Zenon, <1>1, <2>1, <3>1 DEF Begin, MustInvoke, Uninvoked
      <3> QED
        BY <1>i, <2>2, <2>4, <3>1, <3>2 DEF QuietInv, UninvokedStatus, FromStored
    <2>7. Current' = Current
      BY Zenon, <1>1, <2>2, <2>3 DEF Current, Begin
    <2>8. UninvokedStatus'
      BY Zenon, <2>2 DEF QuietInv, UninvokedStatus, Uninvoked, EarlyError, Items
    <2> QED
      BY Zenon, <2>1, <2>2, <2>3, <2>4, <2>5, <2>6, <2>7, <2>8 DEF QuietInv, Uninvoked
  <1>2. CASE PrepareBlocked
    <2>1. /\ UNCHANGED <<cji, watch, cached, phase, made, pend>> /\ pc = "prepare" /\ pc' = "status"
          /\ verdict'.state = "Failed" /\ verdict'.err \in Obstacles
      BY Zenon, <1>2 DEF PrepareBlocked, jobVars, Obstacle, Obstacles, NoError
    <2>2. snap'.st.jobMap = EmptyMap /\ cji.st.jobMap = EmptyMap
      BY Zenon, <1>2, <1>t, <2>1 DEF PrepareBlocked, Object, Status, VersionInv, QuietInv, FromStored
    <2>3. FromStored'
      BY <1>2, <1>t, <2>1 DEF PrepareBlocked, QuietInv, FromStored, Object, Status
    <2>4. Current' = Current
      BY Zenon, <2>1, <2>2 DEF Current
    <2>5. UninvokedStatus'
      BY Zenon, <2>1 DEF QuietInv, UninvokedStatus, Uninvoked, EarlyError, Items
    <2>6. EarlyError(snap', verdict'.err)
      BY Zenon, <2>1 DEF EarlyError
    <2> QED
      BY Zenon, <2>1, <2>2, <2>3, <2>4, <2>5, <2>6 DEF QuietInv
  <1>3. CASE PrepareJobs
    <2>1. PICK n \in 0..Len(Items(snap)) : PrepareJobs!(n)
      BY Zenon, <1>3 DEF PrepareJobs
    <2> DEFINE ids == nextId .. (nextId + n - 1)
    <2>2. /\ n \in Nat /\ nextId \in Nat /\ Len(Items(snap)) \in Nat /\ JobIds \subseteq Nat
          /\ Items(snap) \in Seq(JobNames \cup {IqeItem})
      BY <1>t, <2>1, ItemsType, JobIdsAssumption DEF TypeOK
    <2>3. /\ UNCHANGED <<cji, watch, cached, phase>> /\ pc = "prepare" /\ pc' \in {"apply", "status"}
          /\ verdict = Success /\ pend = {}
      BY Zenon, <2>1 DEF QuietInv
    <2>4. cji.st.jobMap = EmptyMap
      BY Zenon, <2>3 DEF VersionInv, QuietInv, FromStored
    <2>5. FromStored'
      BY Zenon, <1>t, <2>1, <2>3 DEF QuietInv, FromStored, Object, Status
    <2>6. \A i \in JobIds : snap'.st.jobMap[i] # "none" <=> i \in ids
      BY Zenon, <1>t, <2>1 DEF InvokeJob, Object, Status
    <2>7. Items(snap') = Items(snap)
      BY <1>i, <2>3, <2>5 DEF FromStored, QuietInv
    <2>8. n = 0 <=> snap'.st.jobMap = EmptyMap
      <3>1. n > 0 => nextId \in ids
        BY <2>2
      <3>2. n > 0 => snap'.st.jobMap # EmptyMap
        BY Zenon, <2>1, <2>6, <3>1 DEF EmptyMap
      <3>3. n = 0 => snap'.st.jobMap = EmptyMap
        <4>1. n = 0 => ids = {}
          BY <2>2
        <4>2. n = 0 => InvokeJob(ids) = EmptyMap
          BY Zenon, <4>1 DEF InvokeJob, EmptyMap
        <4>3. snap'.st.jobMap = InvokeJob(ids)
          BY Zenon, <1>t, <2>1 DEF Object, Status
        <4> QED
          BY Zenon, <4>2, <4>3
      <3> QED
        BY <2>2, <3>2, <3>3
    <2>9. pend' \subseteq ids /\ (pc' # "apply" => pend' = {}) /\ (pc' = "apply" => n # 0)
      BY <2>1, <2>2
    <2>10. \A i \in JobIds : phase[i] = 0
      <3>1. Current = EmptyMap
        BY Zenon, <2>3, <2>4 DEF Current
      <3>2. \A i \in JobIds : ~(phase[i] > 0)
        BY Zenon, <3>1 DEF QuietInv, EmptyMap
      <3>3. \A i \in JobIds : phase[i] \in 0..3
        BY Zenon, <1>t DEF TypeOK
      <3> QED
        BY <3>2, <3>3
    <2>11. Current' = snap'.st.jobMap
      BY Zenon, <2>3 DEF Current
    <2>12. \A i, j \in ids : made'[i].pos = made'[j].pos => i = j
      BY <2>1, <2>2
    <2>13. /\ \A i \in JobIds : phase'[i] > 0 \/ i \in pend' => Current'[i] # "none"
           /\ \A i, j \in JobIds : Current'[i] # "none" /\ Current'[j] # "none"
                /\ made'[i].pos = made'[j].pos => i = j
      <3>1. \A i \in JobIds : Current'[i] # "none" <=> i \in ids
        BY Zenon, <2>6, <2>11
      <3>2. \A i \in JobIds : ~(phase'[i] > 0)
        BY <2>3, <2>10
      <3> HIDE DEF ids
      <3> QED
        BY Zenon, <2>9, <2>12, <3>1, <3>2
    <2>14. UninvokedStatus'
      BY Zenon, <2>3 DEF QuietInv, UninvokedStatus, Uninvoked, EarlyError, Items
    <2>15. CASE n = 0
      <3>1. CASE Len(Items(snap)) = 0
        BY <2>1, <2>3, <2>4, <2>5, <2>7, <2>8, <2>9, <2>13, <2>14, <2>15, <3>1
           DEF QuietInv
      <3>2. CASE Len(Items(snap)) # 0
        <4>1. verdict'.state = "Failed" /\ verdict'.err = Items(snap')[1] /\ Len(Items(snap')) > 0
          BY <2>1, <2>2, <2>7, <2>15, <3>2
        <4>2. EarlyError(snap', verdict'.err)
          BY Zenon, <4>1 DEF EarlyError
        <4> QED
          BY Zenon, <2>3, <2>4, <2>5, <2>8, <2>9, <2>13, <2>14, <2>15, <4>1, <4>2
             DEF QuietInv
      <3> QED
        BY Zenon, <3>1, <3>2
    <2>16. CASE n # 0
      <3>1. Uninvoked(cji) /\ ~cji.st.completed
        BY Zenon, <2>3, <2>4 DEF QuietInv, FromStored, Uninvoked, VersionInv, OutcomeInv
      <3>2. /\ cji.st.cond # "Successful"
            /\ cji.st.cond = "Failed" => EarlyError(snap, cji.st.err)
        BY Zenon, <3>1, <2>3, <1>i DEF QuietInv, UninvokedStatus, EarlyError, FromStored
      <3>3. verdict'.state # cji.st.cond \/ verdict'.err # cji.st.err
        <4>1. CASE n = Len(Items(snap))
          BY <2>1, <2>3, <3>2, <4>1 DEF Success
        <4>2. CASE n < Len(Items(snap))
          <5>1. verdict' = [state |-> "Failed", err |-> Items(snap)[n + 1]]
            BY Zenon, <2>1, <4>2
          <5>2. Items(snap)[1] \notin app.bad /\ Items(snap)[n + 1] \in app.bad
            <6>1. Accepted(n)
              BY Zenon, <2>1
            <6>2. 1 \in 1..n
              BY <2>2, <2>16
            <6> QED
              BY Zenon, <4>2, <6>1, <6>2 DEF Accepted
          <5>3. Items(snap)[n + 1] \notin Obstacles
            BY <2>2, <4>2, ItemsAssumption DEF Obstacles
          <5> QED
            BY Zenon, <3>2, <5>1, <5>2, <5>3 DEF EarlyError
        <4> QED
          BY <2>1, <2>2, <4>1, <4>2
      <3>4. ~Uninvoked(snap')
        BY Zenon, <2>8, <2>16 DEF Uninvoked
      <3> QED
        BY Zenon, <2>3, <2>4, <2>5, <2>8, <2>9, <2>13, <2>14, <2>16, <3>3, <3>4
           DEF QuietInv
    <2> QED
      BY Zenon, <2>15, <2>16
  <1>4. ASSUME NEW i \in JobIds, ApplyJob(i) PROVE QuietInv'
    <2>1. /\ UNCHANGED <<cji, watch, cached, snap, made, verdict>>
          /\ pc = "apply" /\ pc' \in {"apply", "status"} /\ i \in pend
          /\ pend' = pend \ {i} /\ (pc' = "status" => pend = {i})
          /\ \A j \in JobIds : phase'[j] > 0 => phase[j] > 0 \/ j = i
      BY Zenon, <1>4, <1>t DEF ApplyJob, TypeOK
    <2>2. Current' = Current
      BY Zenon, <2>1 DEF Current
    <2>3. UninvokedStatus' /\ FromStored'
      BY Zenon, <2>1 DEF QuietInv, UninvokedStatus, Uninvoked, EarlyError, Items, FromStored
    <2>4. ~Uninvoked(snap)'
      BY Zenon, <2>1 DEF QuietInv, Uninvoked
    <2> QED
      BY Zenon, <2>1, <2>2, <2>3, <2>4 DEF QuietInv
  <1>5. CASE SetConditions
    <2> DEFINE stored == [[snap EXCEPT !.st = NewStatus(snap)] EXCEPT !.rv = cji.rv + 1]
    <2>1. /\ pc = "status" /\ watch = <<>> /\ cached = cji /\ FromStored /\ pend = {}
          /\ UNCHANGED <<cached, phase, made>>
      BY Zenon, <1>5 DEF SetConditions, QuietInv, jobVars
    <2>2. /\ stored \in Object /\ stored.st = NewStatus(snap) /\ stored.legacy = snap.legacy
          /\ stored.disabled = snap.disabled /\ stored.jobs = snap.jobs
      BY Zenon, <1>t, StoredType DEF Object
    <2>3. /\ NewStatus(snap).jobMap = UpdateInvokedJobStatus(snap)
          /\ NewStatus(snap).cond = verdict.state /\ NewStatus(snap).err = verdict.err
          /\ NewStatus(snap).completed = GetJobsStatus(snap)
      BY Zenon DEF NewStatus
    <2>4. [snap EXCEPT !.st = NewStatus(snap)].st = NewStatus(snap)
      BY Zenon, <1>t DEF Object
    <2>5. CASE NewStatus(snap) = snap.st
      <3>1. snap.st.jobMap = cji.st.jobMap
        BY Zenon, <2>1, <2>3, <2>5 DEF QuietInv, FromStored
      <3>2. snap.st = cji.st
        BY <1>t, <2>1, <3>1 DEF FromStored, Status
      <3>3. UNCHANGED <<cji, watch, snap, pend, verdict>> /\ pc' = "poll"
        BY Zenon, <1>5, <2>1, <2>4, <2>5 DEF SetConditions, FromStored
      <3>4. Current' = Current
        BY Zenon, <2>1, <3>1, <3>3 DEF Current
      <3>5. UninvokedStatus'
        BY Zenon, <3>3 DEF QuietInv, UninvokedStatus, Uninvoked, EarlyError, Items
      <3> QED
        BY Zenon, <2>1, <3>2, <3>3, <3>4, <3>5 DEF QuietInv
    <2>6. CASE NewStatus(snap) # snap.st
      <3>1. /\ cji' = stored /\ watch' = Append(watch, stored) /\ snap' = stored
            /\ pc' = "poll" /\ UNCHANGED <<pend, verdict>>
        BY Zenon, <1>5, <2>1, <2>4, <2>6 DEF SetConditions, FromStored
      <3> HIDE DEF stored
      <3>2. watch' = <<cji'>>
        BY <2>1, <3>1
      <3>3. cached'.st # cji'.st
        <4> SUFFICES ASSUME cji.st = NewStatus(snap) PROVE FALSE
          BY Zenon, <2>1, <2>2, <3>1
        <4>1. cji.st.jobMap = snap.st.jobMap
          <5>1. verdict.state = cji.st.cond /\ verdict.err = cji.st.err
            BY Zenon, <2>3
          <5> QED
            BY Zenon, <2>1, <5>1 DEF QuietInv
        <4> QED
          BY <1>t, <2>1, <2>6, <4>1 DEF FromStored, Status
      <3>4. \A i \in JobIds : Current'[i] # "none" <=> Current[i] # "none"
        <4>1. Current' = UpdateInvokedJobStatus(snap) /\ Current = snap.st.jobMap
          BY Zenon, <2>1, <2>2, <2>3, <3>1 DEF Current
        <4> QED
          BY Zenon, <1>t, <4>1, SameEntries
      <3>5. UninvokedStatus'
        <4> SUFFICES ASSUME Uninvoked(stored)
                     PROVE  /\ stored.st.completed => Len(Items(stored)) = 0
                            /\ ~stored.st.completed => /\ stored.st.cond # "Successful"
                                                       /\ EarlyError(stored, stored.st.err)
          BY Zenon, <3>1 DEF UninvokedStatus, Uninvoked, EarlyError, Items
        <4>1. Uninvoked(snap)
          BY Zenon, <1>t, <2>2, <2>3, EmptyStaysEmpty DEF Uninvoked
        <4>2. Items(stored) = Items(snap)
          BY Zenon, <1>i, <2>2
        <4>3. GetJobsStatus(snap) <=> Len(Items(snap)) = 0
          <5>1. countCompletedJobs(snap) = 0
            BY Zenon, <4>1, NothingCounted DEF Uninvoked
          <5> QED
            BY Zenon, <4>1, <5>1 DEF GetJobsStatus, Uninvoked
        <4>4. \/ verdict = Success /\ Len(Items(snap)) = 0
              \/ verdict.state = "Failed" /\ EarlyError(snap, verdict.err)
          BY Zenon, <2>1, <4>1 DEF QuietInv
        <4> QED
          BY Zenon, <2>2, <2>3, <4>2, <4>3, <4>4 DEF EarlyError
      <3> QED
        BY Zenon, <2>1, <3>1, <3>2, <3>3, <3>4, <3>5 DEF QuietInv
    <2> QED
      BY Zenon, <2>5, <2>6
  <1>6. CASE PollDone
    <2>1. watch = <<>> /\ cached = cji /\ pc = "poll"
      BY Zenon, <1>6 DEF PollDone, QuietInv
    <2>2. UNCHANGED <<cji, watch, cached, phase, made>> /\ pc' = "idle" /\ pend' = {} /\ verdict' = Success
      BY Zenon, <1>6 DEF PollDone, Discard, jobVars
    <2>3. Current' = Current
      BY Zenon, <2>1, <2>2 DEF Current
    <2>4. UninvokedStatus'
      BY Zenon, <2>2 DEF QuietInv, UninvokedStatus, Uninvoked, EarlyError, Items
    <2> QED
      BY Zenon, <2>1, <2>2, <2>3, <2>4 DEF QuietInv
  <1>7. CASE PollTimeout
    <2>1. watch = <<>> /\ cached.st # snap.st /\ pc = "poll"
      BY <1>7, <1>t DEF PollTimeout, Undisturbed
    <2> QED
      BY Zenon, <2>1 DEF QuietInv
  <1>8. CASE DeliverCji
    <2>1. watch # <<>> /\ cached' = Head(watch) /\ watch' = Tail(watch)
          /\ UNCHANGED <<cji, phase, made, pc, snap, pend, verdict>>
      BY Zenon, <1>8 DEF DeliverCji, jobVars, workerVars
    <2>2. pc = "poll" /\ watch = <<cji>>
      BY Zenon, <2>1 DEF QuietInv
    <2>3. cached' = cji /\ watch' = <<>>
      BY <2>1, <2>2
    <2>4. UninvokedStatus' /\ Current' = Current
      BY Zenon, <2>1 DEF QuietInv, UninvokedStatus, Uninvoked, EarlyError, Items, Current
    <2> QED
      BY Zenon, <2>1, <2>2, <2>3, <2>4 DEF QuietInv
  <1>9. CASE UNCHANGED <<cji, watch, cached, made, pc, snap, pend, verdict>>
             /\ \A i \in JobIds : phase'[i] > 0 => phase[i] > 0
    <2>1. /\ UninvokedStatus' = UninvokedStatus /\ Current' = Current /\ FromStored' = FromStored
          /\ Uninvoked(snap)' = Uninvoked(snap)
          /\ EarlyError(snap, verdict.err)' = EarlyError(snap, verdict.err)
          /\ Items(snap)' = Items(snap)
      BY Zenon, <1>9 DEF UninvokedStatus, Uninvoked, EarlyError, Items, Current, FromStored
    <2> QED
      BY Zenon, <1>9, <2>1 DEF QuietInv
  <1>10. ASSUME NEW i \in JobIds, DeliverJob(i) \/ \E how \in Final : FinishJob(i, how) PROVE QuietInv'
    <2>1. UNCHANGED <<cji, watch, cached, made, pc, snap, pend, verdict>>
      BY Zenon, <1>10 DEF DeliverJob, FinishJob, workerVars
    <2>2. \A j \in JobIds : phase'[j] > 0 => phase[j] > 0
      <3>1. phase \in [JobIds -> 0..3]
        BY Zenon, <1>t DEF TypeOK
      <3>2. phase' = phase \/ (phase[i] = 1 /\ phase' = [phase EXCEPT ![i] = 2])
        BY Zenon, <1>10 DEF DeliverJob, FinishJob
      <3> QED
        BY <3>1, <3>2
    <2> QED
      BY Zenon, <1>9, <2>1, <2>2
  <1>11. CASE AppSpecChange \/ AppReconciled \/ AppReconcileFailed \/ EnvCreated \/ UNCHANGED vars
    BY Zenon, <1>9, <1>11 DEF AppSpecChange, AppReconciled, AppReconcileFailed, EnvCreated, vars,
         jobVars, workerVars
  <1>12. ~UserEdits
    BY <1>t, EditEffect DEF Undisturbed
  <1>13. ~ApplyError /\ ~Crash /\ \A i \in JobIds : ~DeleteJob(i)
    BY DEF ApplyError, Crash, DeleteJob, Undisturbed
  <1> QED
    BY Zenon, <1>1, <1>2, <1>3, <1>4, <1>5, <1>6, <1>7, <1>8, <1>10, <1>11, <1>12, <1>13
       DEF Next, Worker, Informers, Disturbances, Cluster

\* Edits and disturbances are never forgotten.
LEMMA DisturbedForever == TypeOK /\ [Next]_vars /\ Undisturbed' => Undisturbed
  <1> SUFFICES ASSUME TypeOK, [Next]_vars, Undisturbed' PROVE Undisturbed
    BY Zenon
  <1>1. edits \in Nat /\ faults \in Nat
    BY DEF TypeOK
  <1>2. edits' \in {edits, edits + 1} /\ faults' \in {faults, faults + 1}
    BY Zenon, EditEffect DEF Next, Worker, Informers, Disturbances, Cluster, Begin, PrepareBlocked, PrepareJobs,
         ApplyJob, ApplyError, SetConditions, PollDone, PollTimeout, Crash, DeliverCji, DeliverJob, FinishJob,
         DeleteJob, AppSpecChange, AppReconciled, AppReconcileFailed, EnvCreated, vars
  <1> QED
    BY <1>1, <1>2 DEF Undisturbed

\* Without edits, restarts, lost or slow caches no job of a CJI is run twice.
THEOREM OnceTheorem == Spec => []InvokedOnceUndisturbed
  <1>1. Init => OnceInv
    <2> SUFFICES ASSUME Init PROVE QuietInv
      BY Zenon, VersionInit DEF OnceInv
    <2>1. cji.st.jobMap = EmptyMap /\ cji.st.cond = "None" /\ ~cji.st.completed
      <3>1. cji.st = Fresh
        BY DEF Init
      <3> QED
        BY <3>1 DEF Fresh
    <2>2. UninvokedStatus
      BY Zenon, <2>1 DEF UninvokedStatus
    <2>3. \A i \in JobIds : Current[i] = "none" /\ phase[i] = 0
      BY Zenon, <2>1 DEF Init, Current, EmptyMap
    <2>4. pc = "idle" /\ watch = <<>> /\ cached = cji /\ verdict = Success /\ pend = {}
      BY Zenon DEF Init
    <2>5. \A i \in JobIds : ~(phase[i] > 0 \/ i \in pend)
      BY <2>3, <2>4
    <2> QED
      BY Zenon, <2>2, <2>3, <2>4, <2>5 DEF QuietInv
  <1>2. OnceInv /\ [Next]_vars => OnceInv'
    BY Zenon, VersionStep, QuietStep, DisturbedForever DEF OnceInv, VersionInv, OutcomeInv
  <1>3. OnceInv => InvokedOnceUndisturbed
    BY Zenon DEF OnceInv, QuietInv, Undisturbed, InvokedOnceUndisturbed, InvokedOnce
  <1> QED
    BY <1>1, <1>2, <1>3, PTL DEF Spec

----------------------------------------------------------------------------
(* A ClowdJobInvocation that is not disabled is marked as completed only     *)
(* with a job map whose Jobs have all finished, unless spec.jobs was cut     *)
(* short.  The status counts as many finished Jobs as there are items; if    *)
(* one entry of the map has not finished, the entries outnumber the items.   *)

\* The entries of a job map.
Entries(map) == {i \in JobIds : map[i] # "none"}

\* Either all entries have finished or fewer are counted than there are.
LEMMA CountBelow ==
    ASSUME TypeOK, NEW o \in Object
    PROVE  \/ \A i \in Entries(o.st.jobMap) : SeenFinished(i)
           \/ countCompletedJobs(o) < Cardinality(Entries(o.st.jobMap))
  <1> DEFINE A == {i \in JobIds : o.st.jobMap[i] # "none" /\ SeenFinished(i)}
             B == Entries(o.st.jobMap)
  <1>1. A \subseteq B /\ B \subseteq JobIds
    BY Zenon DEF Entries
  <1>2. IsFiniteSet(B)
    BY Zenon, <1>1, FiniteAssumption, FS_Subset
  <1>3. IsFiniteSet(A) /\ Cardinality(A) <= Cardinality(B) /\ (Cardinality(A) = Cardinality(B) => A = B)
    BY Zenon, <1>1, <1>2, FS_Subset
  <1>4. Cardinality(A) \in Nat /\ Cardinality(B) \in Nat
    BY Zenon, <1>2, <1>3, FS_CardinalityType
  <1>5. A = B => \A i \in B : SeenFinished(i)
    BY Zenon DEF Entries
  <1>6. countCompletedJobs(o) = Cardinality(A)
    BY Zenon DEF countCompletedJobs
  <1> HIDE DEF A
  <1> QED
    BY <1>3, <1>4, <1>5, <1>6

\* Refreshing the outcomes keeps the entries and ends the finished ones.
LEMMA Refreshed ==
    ASSUME TypeOK
    PROVE  LET map == UpdateInvokedJobStatus(snap)
           IN  /\ Entries(map) = Entries(snap.st.jobMap)
               /\ \A i \in JobIds : SeenFinished(i) => map[i] \in {"none"} \cup Final
  <1>1. \A i \in JobIds : SeenFinished(i) => outcome[i] \in Final
    BY Zenon DEF SeenFinished, TypeOK
  <1>2. \A i \in JobIds : UpdateInvokedJobStatus(snap)[i]
            = IF snap.st.jobMap[i] # "none" /\ SeenFinished(i) THEN outcome[i] ELSE snap.st.jobMap[i]
    BY Zenon DEF UpdateInvokedJobStatus
  <1>3. \A i \in JobIds : UpdateInvokedJobStatus(snap)[i] # "none" <=> snap.st.jobMap[i] # "none"
    BY Zenon, <1>1, <1>2 DEF Final
  <1> QED
    BY Zenon, <1>1, <1>2, <1>3 DEF Entries

\* The step that stores a status, SetClowdJobInvocationConditions.
LEMMA StoredCompletion ==
    ASSUME TypeOK, SetConditions, cji'.st.completed, ~cji.st.completed
    PROVE  \/ cji'.disabled
           \/ \A i \in JobIds : cji'.st.jobMap[i] \in {"none"} \cup Final
           \/ Len(Items(cji')) < Cardinality(Entries(cji'.st.jobMap))
  <1>1. snap \in Object
    BY Zenon DEF TypeOK
  <1> DEFINE o == [snap EXCEPT !.st = NewStatus(snap)]
             stored == [o EXCEPT !.rv = cji.rv + 1]
  <1>2. cji' = stored
    BY Zenon DEF SetConditions
  <1>3. stored.st = NewStatus(snap)
    BY Zenon, StoredType
  <1>4. o \in Object /\ o.jobs = snap.jobs /\ o.disabled = snap.disabled
    BY Zenon, <1>1, NewStatusType, ObjectUpdate DEF Object
  <1> HIDE DEF o
  <1>5. stored.jobs = snap.jobs /\ stored.disabled = snap.disabled
    BY Zenon, <1>4 DEF Object
  <1> HIDE DEF stored
  <1>6. cji'.disabled = snap.disabled /\ Items(cji') = Items(snap)
    BY Zenon, <1>2, <1>5 DEF Items
  <1>7. cji'.st.completed = GetJobsStatus(snap) /\ cji'.st.jobMap = UpdateInvokedJobStatus(snap)
    BY <1>2, <1>3 DEF NewStatus
  <1>8. CASE snap.disabled
    BY Zenon, <1>6, <1>8
  <1>9. CASE countCompletedJobs(snap) = Len(Items(snap))
    <2>1. CASE \A i \in Entries(snap.st.jobMap) : SeenFinished(i)
      <3>1. \A i \in JobIds : UpdateInvokedJobStatus(snap)[i] \in {"none"} \cup Final
        BY Zenon, <2>1, Refreshed DEF Entries
      <3> QED
        BY Zenon, <1>7, <3>1
    <2>2. CASE countCompletedJobs(snap) < Cardinality(Entries(snap.st.jobMap))
      BY Zenon, <1>6, <1>7, <1>9, <2>2, Refreshed
    <2> QED
      BY Zenon, <1>1, <2>1, <2>2, CountBelow
  <1> QED
    BY Zenon, <1>7, <1>8, <1>9 DEF GetJobsStatus

\* status.completed is not set while a Job of the map is running, for any
\* number of items and Jobs, restarts and stale caches included.
THEOREM CompletionTheorem == Spec => CompletedOnlyWhenDone
  <1> DEFINE Done ==
        \/ cji'.disabled
        \/ \A i \in JobIds : cji'.st.jobMap[i] \in {"none"} \cup Final
        \/ Len(Items(cji')) < Cardinality({i \in JobIds : cji'.st.jobMap[i] # "none"})
  <1>1. ASSUME TypeOK, [Next]_vars PROVE cji'.st.completed /\ ~cji.st.completed => Done
    <2>1. CASE SetConditions
      BY Zenon, <1>1, <2>1, StoredCompletion DEF Entries
    <2>2. CASE UserEdits
      <3>1. cji'.st = cji.st
        BY Zenon, <1>1, <2>2, EditEffect
      <3> QED
        BY Zenon, <3>1
    <2>3. CASE UNCHANGED cji
      BY Zenon, <2>3
    <2> QED
      BY Zenon, <1>1, <2>1, <2>2, <2>3 DEF Next, Worker, Informers, Disturbances, Cluster, Begin, PrepareBlocked,
         PrepareJobs, ApplyJob, ApplyError, PollDone, PollTimeout, Crash, DeliverCji, DeliverJob, FinishJob,
         DeleteJob, AppSpecChange, AppReconciled, AppReconcileFailed, EnvCreated, vars
  <1>2. TypeOK /\ [Next]_vars => [cji'.st.completed /\ ~cji.st.completed => Done]_cji
    BY Zenon, <1>1
  <1> QED
    BY <1>2, TypeInvariant, PTL DEF Spec, CompletedOnlyWhenDone
----------------------------------------------------------------------------
(* Completion covers every item.  The entries of every version of the job    *)
(* map have different places among the items they were made for, so as many  *)
(* finished entries as there are items leave no place out.                   *)

\* The entries of a job map have places of their own, and names that are not
\* drawn again.
Placed(map, md, next) ==
    /\ \A i \in Entries(map) : i < next /\ md[i].pos \in 1..Len(md[i].items)
    /\ \A i, j \in Entries(map) : md[i].pos = md[j].pos => i = j

AllPlaced ==
    /\ Placed(cji.st.jobMap, made, nextId) /\ Placed(cached.st.jobMap, made, nextId)
    /\ Placed(snap.st.jobMap, made, nextId)
    /\ \A k \in 1..Len(watch) : Placed(watch[k].st.jobMap, made, nextId)

LEMMA EmptyPlaced == \A md, next : Placed(EmptyMap, md, next)
  BY Zenon DEF Placed, Entries, EmptyMap

LEMMA EmptyPlacedObject == \A md, next : Placed(NoObject.st.jobMap, md, next)
  BY Zenon, EmptyPlaced DEF NoObject, Fresh

LEMMA PlacedInit == Init => AllPlaced
  <1> SUFFICES ASSUME Init PROVE AllPlaced
    BY Zenon
  <1>1. cji.st.jobMap = EmptyMap /\ cached = cji /\ snap = NoObject
    BY DEF Init, Fresh
  <1>2. 1..Len(watch) = {}
    BY DEF Init
  <1> QED
    BY Zenon, <1>1, <1>2, EmptyPlaced, EmptyPlacedObject DEF AllPlaced

\* New names leave the places of the entries there are alone.
LEMMA PlacedKept ==
    ASSUME TypeOK, NEW n \in Nat, NEW map,
           nextId' = nextId + n,
           \A i \in JobIds : i \notin nextId .. (nextId + n - 1) => made'[i] = made[i],
           Placed(map, made, nextId)
    PROVE  Placed(map, made', nextId')
  <1>1. nextId \in Nat
    BY Zenon DEF TypeOK
  <1>2. ASSUME NEW i \in Entries(map) PROVE i < nextId' /\ made'[i] = made[i]
    <2>1. i \in JobIds /\ i < nextId
      BY Zenon DEF Placed, Entries
    <2>2. i < nextId + n /\ i \notin nextId .. (nextId + n - 1)
      BY <1>1, <2>1, JobIdsAssumption
    <2> QED
      BY Zenon, <2>1, <2>2
  <1> QED
    BY Zenon, <1>2 DEF Placed

LEMMA PlacedStep == TypeOK /\ AllPlaced /\ [Next]_vars => AllPlaced'
  <1> SUFFICES ASSUME TypeOK, AllPlaced, [Next]_vars PROVE AllPlaced'
    BY Zenon
  <1>1. CASE Begin
    <2>1. snap'.st.jobMap \in {cached.st.jobMap, EmptyMap}
      BY Zenon, <1>1 DEF Begin, TypeOK, Object, Status
    <2> QED
      BY Zenon, <1>1, <2>1, EmptyPlaced DEF Begin, AllPlaced, jobVars
  <1>2. CASE PrepareBlocked
    <2>1. snap'.st.jobMap = EmptyMap
      BY Zenon, <1>2 DEF PrepareBlocked, TypeOK, Object, Status
    <2> QED
      BY Zenon, <1>2, <2>1, EmptyPlaced DEF PrepareBlocked, AllPlaced, jobVars
  <1>3. CASE PrepareJobs
    <2>1. PICK n \in 0..Len(Items(snap)) : PrepareJobs!(n)
      BY Zenon, <1>3 DEF PrepareJobs
    <2> DEFINE ids == nextId .. (nextId + n - 1)
    <2>2. n \in Nat /\ nextId \in Nat /\ Len(Items(snap)) \in Nat /\ n <= Len(Items(snap))
      BY <2>1, ItemsType DEF TypeOK
    <2>3. /\ nextId' = nextId + n /\ UNCHANGED <<cji, watch, cached>>
          /\ \A i \in JobIds : made'[i] = IF i \in ids THEN [pos |-> i - nextId + 1, items |-> Items(snap)]
                                          ELSE made[i]
          /\ snap'.st.jobMap = InvokeJob(ids)
      BY Zenon, <2>1 DEF TypeOK, Object, Status
    <2>4. \A map : Placed(map, made, nextId) => Placed(map, made', nextId')
      BY Zenon, <2>2, <2>3, PlacedKept
    <2>5. Placed(InvokeJob(ids), made', nextId')
      <3>1. Entries(InvokeJob(ids)) = JobIds \cap ids
        BY Zenon DEF Entries, InvokeJob
      <3>2. ASSUME NEW i \in JobIds \cap ids
            PROVE  i < nextId' /\ made'[i].pos = i - nextId + 1 /\ made'[i].pos \in 1..Len(made'[i].items)
        <4>1. made'[i] = [pos |-> i - nextId + 1, items |-> Items(snap)]
          BY Zenon, <2>3
        <4>2. made'[i].pos = i - nextId + 1 /\ made'[i].items = Items(snap)
          BY <4>1
        <4>3. i < nextId + n /\ i - nextId + 1 \in 1..Len(Items(snap))
          BY <2>2, JobIdsAssumption
        <4> QED
          BY Zenon, <2>3, <4>2, <4>3
      <3>3. ASSUME NEW i \in JobIds \cap ids, NEW j \in JobIds \cap ids, made'[i].pos = made'[j].pos
            PROVE  i = j
        <4>1. i - nextId + 1 = j - nextId + 1
          BY Zenon, <3>2, <3>3
        <4> QED
          BY <2>2, <4>1, JobIdsAssumption
      <3> QED
        BY Zenon, <3>1, <3>2, <3>3 DEF Placed
    <2> HIDE DEF ids
    <2> QED
      BY Zenon, <2>3, <2>4, <2>5 DEF AllPlaced
  <1>4. CASE SetConditions
    <2> DEFINE stored == [[snap EXCEPT !.st = NewStatus(snap)] EXCEPT !.rv = cji.rv + 1]
    <2>1. stored \in Object /\ stored.st = NewStatus(snap)
      BY Zenon, StoredType
    <2>2. Placed(stored.st.jobMap, made, nextId)
      <3>1. stored.st.jobMap = UpdateInvokedJobStatus(snap)
        BY <2>1 DEF NewStatus
      <3> QED
        BY Zenon, <3>1, Refreshed DEF AllPlaced, Placed
    <2>3. UNCHANGED <<made, nextId, cached>>
      BY Zenon, <1>4 DEF SetConditions, jobVars
    <2>4. /\ cji' \in {cji, stored} /\ snap' \in {snap, stored, NoObject}
          /\ watch' \in {watch, Append(watch, stored)}
      BY Zenon, <1>4 DEF SetConditions, Discard
    <2>5. \A k \in 1..Len(watch') : Placed(watch'[k].st.jobMap, made, nextId)
      <3> HIDE DEF stored
      <3>1. watch \in Seq(Object)
        BY Zenon DEF TypeOK
      <3> QED
        BY <2>1, <2>2, <2>4, <3>1 DEF AllPlaced
    <2> HIDE DEF stored
    <2> QED
      BY Zenon, <2>2, <2>3, <2>4, <2>5, EmptyPlacedObject DEF AllPlaced
  <1>5. CASE PollDone \/ PollTimeout \/ Crash
    <2>1. /\ UNCHANGED <<cji, made, nextId>> /\ snap' = NoObject /\ cached' \in {cached, cji}
          /\ watch' \in {watch, <<>>}
      BY Zenon, <1>5 DEF PollDone, PollTimeout, Crash, Discard, jobVars
    <2>2. watch' = <<>> => 1..Len(watch') = {}
      OBVIOUS
    <2> QED
      BY Zenon, <2>1, <2>2, EmptyPlacedObject DEF AllPlaced
  <1>6. CASE DeliverCji
    <2>1. watch \in Seq(Object) /\ watch # <<>>
      BY Zenon, <1>6 DEF DeliverCji, TypeOK
    <2>2. cached' = watch[1] /\ \A k \in 1..Len(watch') : watch'[k] = watch[k + 1] /\ k + 1 \in 1..Len(watch)
      BY <1>6, <2>1 DEF DeliverCji
    <2>3. 1 \in 1..Len(watch)
      BY <2>1
    <2> QED
      BY Zenon, <1>6, <2>2, <2>3 DEF DeliverCji, AllPlaced, jobVars, workerVars
  <1>7. CASE UserEdits
    <2>1. PICK s \in Object : /\ s.st = cji.st /\ cji' = s /\ watch' = Append(watch, s)
                              /\ UNCHANGED <<cached, made, snap, nextId>>
      BY Zenon, <1>7, EditEffect DEF jobVars, workerVars
    <2>2. \A k \in 1..Len(watch') : Placed(watch'[k].st.jobMap, made, nextId)
      <3>1. watch \in Seq(Object)
        BY Zenon DEF TypeOK
      <3> QED
        BY <2>1, <3>1 DEF AllPlaced
    <2> QED
      BY Zenon, <2>1, <2>2 DEF AllPlaced
  <1>8. CASE UNCHANGED <<cji, cached, snap, watch, made, nextId>>
    BY Zenon, <1>8 DEF AllPlaced
  <1>9. ASSUME NEW i \in JobIds, ApplyJob(i) \/ DeleteJob(i) \/ DeliverJob(i) PROVE AllPlaced'
    BY Zenon, <1>8, <1>9 DEF ApplyJob, DeleteJob, DeliverJob, workerVars
  <1>10. ASSUME NEW i \in JobIds, NEW how \in Final, FinishJob(i, how) PROVE AllPlaced'
    BY Zenon, <1>8, <1>10 DEF FinishJob, workerVars
  <1>11. CASE ApplyError \/ AppSpecChange \/ AppReconciled \/ AppReconcileFailed \/ EnvCreated
              \/ UNCHANGED vars
    BY Zenon, <1>8, <1>11 DEF ApplyError, AppSpecChange, AppReconciled, AppReconcileFailed, EnvCreated,
         vars, jobVars, workerVars
  <1> QED
    BY Zenon, <1>1, <1>2, <1>3, <1>4, <1>5, <1>6, <1>7, <1>9, <1>10, <1>11
       DEF Next, Worker, Informers, Disturbances, Cluster

\* As many finished entries as items leave no place without one.
LEMMA PlacesFilled ==
    ASSUME NEW F, NEW L \in Nat, Cardinality(F) = L,
           \A i \in F : made[i].pos \in 1..L,
           \A i, j \in F : made[i].pos = made[j].pos => i = j
    PROVE  \A k \in 1..L : \E i \in F : made[i].pos = k
  <1> DEFINE f == [i \in F |-> made[i].pos]
  <1>1. f \in [F -> 1..L]
    BY Zenon
  <1>2. \A i, j \in F : f[i] = f[j] => i = j
    BY Zenon
  <1>3. f \in Injection(F, 1..L)
    BY Zenon, <1>1, <1>2 DEF Injection, IsInjective
  <1>4. IsFiniteSet(1..L) /\ Cardinality(1..L) = L
    BY FS_Interval
  <1>5. f \in Surjection(F, 1..L)
    BY Zenon, <1>3, <1>4, FS_Injection
  <1>6. \A k \in 1..L : \E i \in F : f[i] = k
    BY Zenon, <1>5 DEF Surjection
  <1> QED
    BY Zenon, <1>6

\* The step that stores a status, SetClowdJobInvocationConditions.
LEMMA StoredCoverage ==
    ASSUME TypeOK, AllPlaced, SetConditions, cji'.st.completed, ~cji.st.completed, ~cji'.disabled,
           \A i \in JobIds : cji'.st.jobMap[i] # "none" => made[i].items = Items(cji')
    PROVE  \A k \in 1..Len(Items(cji')) :
             \E i \in JobIds : made[i].pos = k /\ cji'.st.jobMap[i] \in Final
  <1>1. snap \in Object
    BY Zenon DEF TypeOK
  <1> DEFINE o == [snap EXCEPT !.st = NewStatus(snap)]
             stored == [o EXCEPT !.rv = cji.rv + 1]
             F == {i \in JobIds : snap.st.jobMap[i] # "none" /\ SeenFinished(i)}
  <1>2. cji' = stored
    BY Zenon DEF SetConditions
  <1>3. stored.st = NewStatus(snap)
    BY Zenon, StoredType
  <1>4. o \in Object /\ o.jobs = snap.jobs /\ o.disabled = snap.disabled
    BY Zenon, <1>1, NewStatusType, ObjectUpdate DEF Object
  <1> HIDE DEF o
  <1>5. stored.jobs = snap.jobs /\ stored.disabled = snap.disabled
    BY Zenon, <1>4 DEF Object
  <1> HIDE DEF stored
  <1>6. cji'.disabled = snap.disabled /\ Items(cji') = Items(snap)
    BY Zenon, <1>2, <1>5 DEF Items
  <1>7. cji'.st.completed = GetJobsStatus(snap) /\ cji'.st.jobMap = UpdateInvokedJobStatus(snap)
    BY <1>2, <1>3 DEF NewStatus
  <1>8. Cardinality(F) = Len(Items(snap)) /\ Len(Items(snap)) \in Nat
    BY Zenon, <1>1, <1>6, <1>7, ItemsType DEF GetJobsStatus, countCompletedJobs
  <1>9. ASSUME NEW i \in F
        PROVE  i \in JobIds /\ i \in Entries(snap.st.jobMap) /\ cji'.st.jobMap[i] \in Final
               /\ made[i].items = Items(snap)
    <2>1. i \in JobIds /\ i \in Entries(snap.st.jobMap) /\ SeenFinished(i)
      BY Zenon DEF Entries
    <2>2. i \in Entries(UpdateInvokedJobStatus(snap)) /\ UpdateInvokedJobStatus(snap)[i] \in {"none"} \cup Final
      BY Zenon, <2>1, Refreshed
    <2> QED
      BY Zenon, <1>6, <1>7, <2>1, <2>2 DEF Entries
  <1> HIDE DEF F
  <1>10. \A i \in F : made[i].pos \in 1..Len(Items(snap))
    BY Zenon, <1>9 DEF AllPlaced, Placed
  <1>11. \A i, j \in F : made[i].pos = made[j].pos => i = j
    BY Zenon, <1>9 DEF AllPlaced, Placed
  <1>12. \A k \in 1..Len(Items(snap)) : \E i \in F : made[i].pos = k
    BY Zenon, <1>8, <1>10, <1>11, PlacesFilled
  <1> QED
    BY Zenon, <1>6, <1>9, <1>12

\* While spec.jobs is the list the Jobs were made for, an enabled CJI is stored
\* as completed only when a Job of every item has finished, for every list of
\* jobs, every number of invocations, restarts and stale caches.
THEOREM CoverageTheorem == Spec => EveryItemRan
  <1> DEFINE Covered ==
        /\ cji'.st.completed /\ ~cji.st.completed /\ ~cji'.disabled
        /\ \A i \in JobIds : cji'.st.jobMap[i] # "none" => made[i].items = Items(cji')
        => \A k \in 1..Len(Items(cji')) :
             \E i \in JobIds : made[i].pos = k /\ cji'.st.jobMap[i] \in Final
  <1>1. ASSUME TypeOK, AllPlaced, [Next]_vars PROVE Covered
    <2>1. CASE SetConditions
      BY Zenon, <1>1, <2>1, StoredCoverage
    <2>2. CASE UserEdits
      <3>1. cji'.st = cji.st
        BY Zenon, <1>1, <2>2, EditEffect
      <3> QED
        BY Zenon, <3>1
    <2>3. CASE UNCHANGED cji
      BY Zenon, <2>3
    <2> QED
      BY Zenon, <1>1, <2>1, <2>2, <2>3 DEF Next, Worker, Informers, Disturbances, Cluster, Begin, PrepareBlocked,
         PrepareJobs, ApplyJob, ApplyError, PollDone, PollTimeout, Crash, DeliverCji, DeliverJob, FinishJob,
         DeleteJob, AppSpecChange, AppReconciled, AppReconcileFailed, EnvCreated, vars
  <1>2. TypeOK /\ AllPlaced /\ [Next]_vars => [Covered]_cji
    BY Zenon, <1>1
  <1>3. Init => TypeOK /\ AllPlaced
    BY Zenon, TypeInit, PlacedInit
  <1>4. TypeOK /\ AllPlaced /\ [Next]_vars => TypeOK' /\ AllPlaced'
    BY Zenon, TypeStep, PlacedStep
  <1> QED
    BY <1>2, <1>3, <1>4, PTL DEF Spec, EveryItemRan
=============================================================================
