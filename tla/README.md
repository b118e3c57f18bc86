# Clowder in TLA+

Clowder is a Kubernetes operator. Users describe an environment
(ClowdEnvironment), the applications that run in it (ClowdApp) and one-off runs
of their jobs (ClowdJobInvocation, CJI); Clowder creates the Deployments, Jobs,
topics, databases and configuration that make them so. This directory holds a
TLA+ model of its controllers and of what their providers build, the TLC runs
that check it on small instances and TLAPS proofs of its main theorems for every
instance.

Source paths below are relative to `src/`; `controllers/` stands for
`controllers/cloud.redhat.com/`.

## The system

Three controllers run in one process (`controllers/run.go`). Each has a work
queue and one worker (`MaxConcurrentReconciles` is 1), so reconciles of one kind
never overlap, while reconciles of different kinds do. They share:

* the **API server**, which refuses an update whose `resourceVersion` is not the
  stored one and ignores an update that changes nothing;
* the **informer caches**, from which all objects are read (only the ClowdApp of
  a CJI is read directly). They lag behind the API server by any amount;
* **events**, which put keys into queues, after a filter (`controllers/filters.go`);
* the **lock** `cEnv`: the name of the environment that is being reconciled,
  which ClowdApp reconciles look at;
* the **resource cache** of `rhc-osdk-utils` (external): providers register
  objects in it, `ApplyAll` sends them one after another;
* the **hash caches**, one per controller: the content of Secrets and
  ConfigMaps, and who is to be reconciled when it changes;
* plain maps of present and managed objects, for metrics and the HTTP API.

### Inventory

| Part | Source | State | Operations | Talks to |
|---|---|---|---|---|
| ClowdEnvironment controller | `controllers/clowdenvironment_*.go` | the object, its target namespace, lock, present/managed | reconcile in 16 steps, finalization | API server, namespaces, providers |
| ClowdApp controller | `controllers/clowdapp_*.go` | the objects, present/managed | reconcile in 19 steps, finalization | environment status, lock, providers |
| CJI controller | `controllers/clowdjobinvocation_controller.go` | the object, `status.jobMap` | reconcile, invoke, wait for cache | ClowdApp, Jobs |
| Status and readiness | `controllers/status.go` | conditions, counters | count resources, set conditions | caches |
| Event filters and handlers | `controllers/filters.go`, `handlers.go` | none / hash cache | pass or drop an event, hash an object, wake its readers | queues |
| Hash cache | `controllers/hashcache/` | hashes of ConfigMaps and Secrets, subscribers | create, read, subscribe, forget | confighash provider, handlers |
| Provider registry | `controllers/providers/providers.go` | ordered list | run all, clean up | every provider |
| Kafka, database, object store, in-memory database, feature flags | `controllers/providers/*` | topics, credentials, shared services | derive configuration over all apps | resource cache, Strimzi, servers outside |
| Web, deployment, autoscaler, cron job, job, IQE, sidecar, metrics, service account, pull secret, reverse proxy, logging, namespace, service mesh, dependencies, confighash | `controllers/providers/*` | objects | build the objects of apps and environment | resource cache, other apps |
| Webhooks | `apis/.../clowdapp_webhook.go`, `controllers/pod_mutator.go` | none | admit or refuse an app, add a container to a pod | API server |
| Metrics, HTTP API, start-up | `controllers/metrics.go`, `api.go`, `run.go`, `main.go` | maps, configuration | serve, start | |

`PROJECT.json` lists all parts with their status.

### What is hard about it

* Reconciles start from a cached, possibly old object, write several times, and
  compare the new status with one remembered earlier in the same reconcile.
* A crash, an error or a conflict may come between any two writes; the
  successor knows only what was stored.
* A step that gives up without a retry relies on an event that a filter may drop.
* Two controllers run side by side and wait for each other's status; the lock
  is only looked at.
* Readiness is a count of what the cache happens to list.
* "Run this job once" has to survive all of the above.
* A Secret may change, and its event be handled, at any point of a reconcile that
  reads it, while that reconcile renews its own subscriptions.
* Some twenty providers write parts of the same objects, in two controllers, and
  only equal names and labels tie the parts together; generated credentials have
  to stay the same through retries, races and restarts.

The 39 hazards in `PROJECT.json` name the lines.

## The modules

| Module | Models | Extends |
|---|---|---|
| `Workload` | a Deployment as Clowder judges it: `deploymentStatusChecker`, `countDeployments`, `deploymentUpdateFunc`; the Deployment controller and `ApplyAll` (external) | |
| `Environment` | the ClowdEnvironment controller | `Workload` |
| `EnvContract` | abstract: what a ClowdApp may rely on in an environment's status | |
| `Application` | the ClowdApp controller composed with `Environment` | `Environment` |
| `Rollout` | abstract: what both controllers promise about generations | |
| `JobInvocation` | the CJI controller | |
| `JobLedger` | abstract: `status.jobMap` as a ledger | |
| `ConfigWatch` | hash cache, watch handlers, and what the providers register there | |
| `Resources` | objects, the resource cache (external), helpers of the providers, sizes | |
| `Stores` | providers of databases, in-memory databases, object stores, feature flags | `Resources` |
| `KafkaProviders` | the Kafka provider in its modes | `Stores` |
| `WebProviders` | Services, TLS proxy, Keycloak, mocks, Ingresses, gateway | `KafkaProviders` |
| `EnvVars` | the environment variables of containers and how they are merged | |
| `WorkloadProviders` | deployments, scheduled jobs, invoked jobs, sidecars, metrics | `WebProviders`, `EnvVars` |
| `SupportProviders` | autoscalers, reverse proxy, accounts, mesh, logging, namespaces, pull secrets, test jobs, the configuration Secret and its hash | `WorkloadProviders` |
| `Dependencies` | the endpoints an app is told | `WebProviders` |
| `Admission` | the webhooks | `Dependencies`, `SupportProviders` |
| `Providers` | the providers at work in the reconciles of both controllers | `Admission` |
| `MC*` | instances for TLC | |
| `Environment_proofs`, `EnvRelease_proofs` | theorems about `Environment` | |
| `Application_proofs` | theorems about `Application` | `Environment_proofs` |
| `JobInvocation_proofs` | theorems about `JobInvocation` | |
| `ConfigWatch_proofs`, `ConfigListing_proofs` | theorems about `ConfigWatch` | |
| `EnvVars_proofs`, `Providers_proofs` | theorems about operators of the providers | |

The three controller models treat the providers as one step that succeeds or
fails, and `Providers` treats the controllers' bookkeeping as a queue: what wakes
a reconcile is checked there, what a reconcile builds is checked here.

### Conventions of the controller models

An object of the API server is a record with its resource version `rv`, its
generation `gen`, the fields a property tells apart and its status `st`. The
rest of the specification is present only as the generation: two generations
are two different specifications. For every object there are three copies: the
stored one, a queue of versions on their way to the informer, and the cached
one. A write appends to the queue, `Deliver...` moves the head into the cache and
adds keys to work queues as the filters say. Deliveries of one object keep their
order; those of different objects do not. An operator restart empties the
queues, fills the caches from the stored objects and adds every key.

A reconcile is cut into actions at its calls to the API server and at its reads
of caches and the lock; `pc` (`ePc`, `aPc`) names the next one. Computation
between two such points is part of one action. An action ends with everything
the code does on that path: setting conditions on a failure, releasing the lock,
handing the key back. Operations of `ApplyAll` and of status updates use the
code's rule for writing (only if the status differs from the remembered one) and
the API server's (version fits; no change, no event).

User actions and faults are bounded by `MaxEdits` and `MaxFaults`; `EnvEdits`,
`AppEdits`, `Edits` and `Faults` say which kinds a run allows. These bounds are
in guards, so proofs hold for all of them.

### `Environment`

One environment. The worker serves all environments, one at a time, and holds
`cEnv` for the one it serves; with another environment in its hands it does
nothing to this one, so one environment is enough.

| Action | Code |
|---|---|
| `EnvBegin` | `Reconcile`, `getEnv`, lock, present and managed environments |
| `finalizeEnvironmentImplementation`, `FinalizeFails`, `RemoveFinalizer`, `DeletedUnfinalized` | `markedForDeletion`, `finalizeEnvironmentImplementation` |
| `addFinalizerIfRequired` | the same, `perProviderMetrics` (no state), `setToBeDisabled` |
| `makeTargetNamespace`, `getTargetNamespace`, `updateTargetNamespace` | `initTargetNamespace` |
| `isTargetNamespaceMarkedForDeletion` | the same |
| `runProviders` | `runProviders`, `applyCache` |
| `setEnvResourceStatus` | `setAppInfo`, `setEnvResourceStatus` |
| `finalStatusError` | `setPrometheusStatus` (an address that only KEDA manifests carry), `setEnvStatus`, `finalStatusError` |
| `setClowdEnvConditions` | `deleteUnusedResources`, `setClowdEnvConditions` |

Whether the target namespace is generated or given is a choice of the initial
state (`auto`, from `AutoChoices`). The namespace is `none`, `active`, `terminating` or `gone`.
Deployments of providers are one Deployment that remembers the generation it was
built from.

### `Application`

The ClowdApps of that environment in one application namespace, each with one
Deployment that remembers the generations of app and environment it was built
from. `Next` interleaves the two workers, the informers and the cluster. An
event of the environment reaches both controllers in one step, each through its
own filter; `appsToEnqueueUponEnvUpdate` says which apps it wakes, and
`envToEnqueueUponAppUpdate` whether an app's event wakes the environment.

| Action | Code |
|---|---|
| `AppBegin` | `Reconcile`, `getApp`, `setPresentAndManagedApps` |
| `finalizeApp`, `addFinalizer` | `isAppMarkedForDeletion`, `addFinalizer` |
| `isEnvLocked` | `isEnvLocked`, `isAppDisabled`, `isAppNamespaceDeleted` |
| `getClowdEnv` | `getClowdEnv`, `isEnvNamespaceDeleted`, `isClowdEnvReconciled`, `isEnvReady` |
| `runAppProviders` | `runProviders`, `applyCache` |
| `setAppResourceStatus` | `setAppResourceStatus`, `deletedUnusedResources` |
| `setReconciliationSuccessful` | the same |

In this composition an app's Deployment completes its rollout in one step (the
steps in between are in `Environment`), since the readiness of an app is not
read by any other reconcile.

### `JobInvocation`

One CJI, the Jobs it creates and the ClowdApp it names. Job names are numbers
drawn in order, standing for the random suffixes of `GenerateJobName`. `Begin`
reads the cached CJI, `PrepareBlocked` and `PrepareJobs` read the ClowdApp and
build the Jobs in memory, `ApplyJob` sends one Job, `SetConditions` computes and
writes the status, `PollDone` and `PollTimeout` end the two-second wait for the
cache (`status.go:641`). The ClowdApp moves as `Application` lets it: a new
generation, a reconcile that succeeds or fails.

### `ConfigWatch`

How a change of a Secret or ConfigMap reaches those who read it. The content of
an object is a number and its own hash. The two controllers have a hash cache
each and share none of this state, so a behaviour follows one of them (`ctrl`).

| Action | Code |
|---|---|
| `StartReconcile` | takes a request and drops its subscriptions: `RemoveClowdObjectFromObjects` |
| `GetObject`, `NoteObject`, `AddObject` | one read of a provider: `Get`, `CreateOrUpdateObject`, `AddClowdObjectToObject`, three steps between which handlers run |
| `Apply` | `ApplyAll`: the configuration Secret, its hash, copied Secrets; or it fails |
| `Handle` | `Create`, `Update`, `Delete` of the handler in `handlers.go`, for one event |
| `HandleOwned` | the event of an object the reconcile itself wrote |
| `Edit`, `Restart` | users; a new process with an empty cache |

`Reads(r)` lists what a reconcile registers, in provider order: the cloudwatch
Secret, feature flags, MinIO, Kafka in four modes, pull secrets, and last the
objects the pods name (`updateHashCache`). Two history variables record what the
properties have to except: `blind`, the objects whose change met a reconcile that
reads them, and `unheard`, those a reconcile hashed while the handlers took them
for absent. Left out: in Strimzi mode a missing CA Secret is registered as an
empty Secret without a name, which stays the same for ever.

`GetSuperHashForClowdObject` is a set of hashes. Its comparison
(`hashcache.go:182`) uses the kind of its left argument for both sides and its
keys come out of a map, so a Secret and a ConfigMap of the same name are hashed in
either order.

### `Providers` and the modules below it

An object is a record of what tells two objects apart: owner, labels, selector,
ports, what its pods read, credentials, replicas, annotations. A name is the
sequence of its parts. A provider is an operator from a session (the reconcile's
resource cache, its specifications, the configuration built so far, an error) and
a cluster to a session; `XProvide` runs in the reconcile of an app, `XEnvProvide`
in that of the environment. A random string is the reconcile and the key it was
made for, so that two reconciles never make the same one.

| Action | Code |
|---|---|
| `BeginEnv`, `BeginApp` | the start of a reconcile; an app is skipped until its environment is reconciled |
| `RunProviders` | the registry, in three steps: up to metrics; dependencies, stores and Kafka; the rest. Providers of equal order run in both directions, since `sort.Sort` is not stable. Objects with `WriteNow` are in the cluster when the step ends. A request may fail after any number of providers |
| `ApplyAll` | kind by kind in the order of `applyOrder`; a conflict when somebody else wrote the object since it was read, or a fault. Objects come out of a map, so a step that fails has written any part of the rest; the model takes none, one, all but one and all (`SomeOf`) |
| `DeleteUnusedResources` | what carries owner and label, is of a kind the providers may make and was not made |
| `Wake` | the informers' resync: everybody is reconciled after a change |
| `Strimzi`, `Scale` | external: listeners and user Secrets; an autoscaler |
| `Edit` | new specifications, if the webhook admits them |
| `Restart`, `DeleteSecret` | a new process without what the old one held in memory; a user wants new credentials |
| `Invoke` | `InvokeJob` and the test job, as to the objects they build |

An instance is a set of worlds, each an environment, its apps, objects of users and
a budget of faults, deletions, scalings and edits; an edit leads to another world.

The read and the write of an object with `WriteNow` are one step together with
the provider between them; against a change in between the API server's version
check protects the code. Two orders are simplified, since no property tells them
apart: the peers of a network policy are a set, where `createNetworkPolicies`
lists them unsorted, and the Secrets that `genObjStoreConfig` goes through come by
name; no world has two that offer the same bucket.

## What is checked

| Run | Instance | Properties | Distinct states |
|---|---|---|---|
| `cji_safety` | lists `<<a, b>>` and `<<a>>`, `b` possibly rejected or without the expected tag, one edit, one of crash/timeout/apply/delete | `TypeOK`, `OutcomesTrue`, `InvokedOnceUndisturbed`, `CompletedOnlyWhenDone`, `EveryItemRan`, `LedgerSpec` | 1.0 M |
| `cji_live` | one IQE test, two app generations, one failed app reconcile, two crashes | `EventuallyCompleted` | 0.4 M |
| `env_namespace` | generated or given namespace, three names, two edits (edit, delete, drop the namespace), one crash or failed creation | `EnvTypeOK`, `NamespaceReleased`, `TargetStable`, `EnvContractSpec` | 1.4 M |
| `env_settle` | settled environment with a Deployment, second finalizer, one edit/pause/deletion, one crash, failing provider, apply, prune, namespace deletion or pod | `EnvGenerationHonest`, `EnvSettles` | 0.6 M |
| `app_settle` | settled app and environment, one edit/deletion of environment, namespace or app, one crash or failing app step | `TypeOK`, `RolloutSpec`, `AppsSettle` | 0.3 M |
| `watch` | two apps, ten set-ups (pods that name a Secret both apps share, a Secret and a ConfigMap of one name, a Secret that is also a pull secret; logging, feature flags, MinIO, four Kafka modes), two contents, two edits, restarts or failed writes | `TypeOK`, `ListedAreCurrent`, `AnnotatedAreListed`, `ComesToRest` | 0.3 M |
| `providers` | fourteen worlds, see below | the 14 properties of `Providers` | 0.03 M |

Five runs are expected to be violated, see below.

**What the properties say.**
`OutcomesTrue`: a recorded outcome is the one the Job had.
`LedgerSpec`: the stored job map is filled once and then only completed.
`InvokedOnceUndisturbed`: without crash, timeout, failure, deletion or edit no
item gets a second Job, although reconciles start from the cache.
`CompletedOnlyWhenDone`: completion is not announced early.
`EveryItemRan`: it is not announced while an item has no finished Job either,
although the code only compares two numbers.
`EventuallyCompleted`: a CJI completes and stays completed.
`TargetStable`: a stored target namespace is never replaced.
`NamespaceReleased`: a deleted environment leaves its generated namespace deleted.
`EnvGenerationHonest`: `status.generation` is never ahead of what was applied.
`EnvContractSpec`: the status changes only under the lock and reports its old or
the current generation.
`RolloutSpec`: an app is only rebuilt from the same or newer specifications, of
an environment that had been reconciled; recorded generations never run ahead.
`EnvSettles`, `AppsSettle`: what is left alone comes to rest in the state its
specification asks for; for an app, in an environment that is in use and whose
namespace is active (one whose namespace was deleted never is again).

`ListedAreCurrent`: at rest, whoever is listed under an object has written its
present content, unless the change met a reconcile that reads the object
(`watch_race` shows what happens then).
`AnnotatedAreListed`: an annotated object lists every app whose pods name it,
however often it was deleted and made again, unless a reconcile hashed it while
the handlers took it for absent.
`ComesToRest`: reconciles that wake themselves through the Secret they write
come to an end, unless an object they cannot do without is missing, or a Secret
and a ConfigMap of one name make the hash ambiguous.

At rest, in every world:
`Wired`: what pods, accounts and proxies refer to exists, with the keys they use.
`ServicesLead`: a Service selects one deployment, which listens on its ports; the
TLS proxy and every Ingress lead to such a port.
`CredentialsAgree`: an app is told the credentials its servers run with, and what
it names exists there.
`HashCovers`: the hash on the pods is that of the present configuration.
`EndpointsServed`: an endpoint told to an app is a port of that Service.
`TopicsCover`: a shared topic satisfies every app that asks for it.
`WorkloadsExact`: an app runs what its specification asks for and nothing else.
`OwnVariablesWin`: what the more specific specification says about a variable holds.
In every step:
`SecretsStable`: generated credentials are never replaced.
`ReplicasKept`: no reconcile takes back what an autoscaler added.
`RolledOutAfter`: pods get the hash of a configuration only once it is stored.
`ForeignKept`: objects of others are not deleted and stay as they are, except
those Clowder writes without looking whose they are (`Unchecked`).
`Settles`: everything is reconciled in the end, unless a specification cannot be
satisfied (`Unsatisfiable` lists the ways).

**Bounds.** The dangerous schedules need one stale read, one interruption and one
concurrent change; one fault with one or two edits gives each of them at every
point of a reconcile. Three namespace names let a lost draw be followed by two
more. Two positions and two Job names let a second invocation of an item
appear. One app is enough for `Application`: apps do not read each other's state
there (what they tell each other is in `Providers`), and they share only the queue.
Two apps, an object they share and two contents let one app be listed while the
other is being reconciled; two events give a change met by a second change, a
restart or a failed write.

The worlds of `providers` use every mode of every provider: `local` (everything
Clowder runs by itself; then without a worker, with a second database, and with the
in-memory database and the object store turned off), `secrets`
(the same, a Secret deleted), `tls` (TLS proxy, shared databases, sidecars, an
invocation), `kafka`, `foreign` (while a reconcile runs another
environment makes a cluster of the same name, with a network policy, metrics and a
topic), `foreign connect` (the same with Kafka Connect), `managed`,
`msk`, `app-interface`, `waiting` (a Secret that arrives late), `topics` (apps that
share a topic while one drops and enlarges it). Those are large, and the two
controllers take turns there; edits come at any time only in `topics`,
`waiting` and `foreign`. In `deleted`, `scaled` and `edited`, with one small app, both controllers
work at once and a failed write or call, a restart, a deleted Secret, a scaling or
an edit comes at any point. Values generated in more than two failed reconciles
are not told apart (`MaxRound`).

Deadlock is not an error in any run: a cluster in
which nothing is left to do stands still.

**Fairness.** Weak fairness of each informer, of the Deployment and Job
controllers and of each worker: `controller-runtime` runs them as goroutines
that only wait for work. Faults are never forced. Strong fairness of `AppBegin`
for each app: the queue hands out keys in order, so that a key is not passed over
for ever while others come back. `Resync` is the informers' replay of
everything they hold, every ten hours by default; retries are at most a minute
apart, so in `Application` it happens only when nothing else is on its way.
`EnvSettles` and `AppsSettle` need it, for the two reasons given under
`app_follow` and "Seen while modelling".
`ConfigWatch` assumes weak fairness of the worker and of the handlers, each as a
whole. `Providers` states its fairness as formulas over what enables a step and
what the step does: a queued environment or app that can begin again and again
does begin (failing reconciles back off), a reconcile goes on, the resync comes,
Strimzi answers. No fault, edit or scaling is forced.

### Where the code disagrees with its documentation

* `cji_reenable` (`RunJobsRecorded`): `status.go:565` copies the old status after
  `InvokeJob` has changed the map it shares with the object. For a CJI that is
  disabled and enabled again the comparison finds no difference and the job map
  is never stored; the wait times out and the job is invoked again.
* `env_create` (`TargetNamespaceCreated`): a failed namespace creation leaves the
  generated name in the stored status, and no later reconcile creates it.
* `app_follow` (`AppsFollowEnv`): an app that meets an environment whose
  generation is not recorded yet ends its reconcile without a retry. The write
  that records the generation passes the filter only if `ready` turns on. An
  environment that stays ready leaves its apps with the old configuration until
  the replay.
* `app_early` (`AppsComeUpAfterEnv`): right after the first `ApplyAll` the cache
  lists no Deployment, zero of zero are ready, and apps come up before the
  environment's Deployments.
* `watch_race` (`UpdatesReachListed`): "Future updates to the secret will then
  trigger reconciliations for each ClowdApp listed" (`docs/providers/confighash.md`).
  If a reconcile of one app hashes the update before the handler sees its event,
  the handler finds the hash unchanged (`hashcache.go:151`, `handlers.go:190`) and
  wakes nobody; the other apps on the list keep the old hash until the replay.
  An app whose reconcile read the old content before the event was handled, and
  registers it after, is left behind too. `ListedAreCurrent` says that nothing goes
  wrong where no change meets a reconcile that reads the object.

### Seen while modelling

The model shows these too; no run is about them.

* An object deleted before its finalizer is stored stays in
  `presentEnvironments` or `presentApps` until a restart.
* A crash or conflict between creating the generated namespace and storing its
  name leaves a namespace nobody deletes. So does a failed deletion of it, whose
  error is ignored (`clowdenvironment_reconciliation.go:156`).
* `IsReady` asks for the presence of the ReconciliationSuccessful condition, not
  for its status.
* An update that only advances a Deployment's `observedGeneration` is filtered
  out (`filters.go:59`), yet it is what makes the Deployment ready when no pod is
  replaced; the owner learns of it with the replay.
* `status.apps` keeps a deleted app's name until the next reconcile.
* A crash, or a wait that times out, between creating Jobs and storing the job
  map invokes the jobs again.
* An item that is rejected after others were accepted leaves their names in the
  job map without Jobs.
* The generation check of a CJI is skipped while the app's `status.generation` is 0.
* Deleting a finished Job, or changing the number of jobs, turns a CJI's
  Completed off again.
* An annotated object that is deleted and created again may end up without some of
  its apps: a reconcile that hashes it before the handlers hear of the creation
  makes the creation no news (`unheard`).
* An app whose pods name an annotated Secret and an annotated ConfigMap of the same
  name may get another hash, and a rollout, in every reconcile.
* The network policy and the metrics ConfigMap of a Kafka cluster are written
  before `strimzi.go:168` looks whether the cluster is another environment's, and
  topics without such a look: those of another environment are taken over.
* Providers of an app's reconcile register logging, feature flag and Kafka Secrets
  for the environment in the ClowdApp controller's cache, whose handler enqueues
  ClowdApps only: a rotated Secret of these wakes no app.
* `Always` is set only when an entry of the hash cache is made.
* An app without a database version makes the size of a shared database's claim a
  nil dereference, for the environment and for every app (`shareddb.go:154`); a
  topic that an edit drops between two reads of one reconcile makes another, which
  the next reconcile gets past (`kafka/provider.go:279`).
* A scheduled job with unnamed init containers passes the webhook, and no
  reconcile of its app succeeds.
* The Cyndi Secret is first written with an empty host.
* After a restart an app that is reconciled before its environment is told an empty
  CA bundle, until its next reconcile (`database/appinterface.go:180`).
* The Secret of a local database keeps its first database name when the
  specification changes it; the server does not.
* The deprecated `web: true` announces a TLS port that no Service has.
* An edit of an app wakes no reconcile of the apps that are told its ports.

## What is proved

TLAPS checks these for every value of the constants, under the named
assumptions of the modules: bounds are naturals, flags are Boolean, namespace
names are non-zero numbers with 1 among them, Job names are a finite set of
numbers, items are different from the names of errors; contents are positive
numbers and there is one, environment, apps and `"none"` are different names, pull
secrets are Secrets, and pods name objects of their own namespace. The theorems
about operators state what they assume of their arguments.

| Theorem | Statement |
|---|---|
| `EnvTypeInvariant` | `EnvSpec => []EnvTypeOK` |
| `GenerationTheorem` | `EnvSpec => []EnvGenerationHonest` |
| `TargetStableTheorem` | `EnvSpec => TargetStable` |
| `ContractRefinement` | `EnvSpec => EnvContractSpec` |
| `ReleaseTheorem` | `EnvSpec => []NamespaceReleased` |
| `TypeInvariant` | `Spec => []TypeOK` (CJI) |
| `OutcomesTheorem` | `Spec => []OutcomesTrue` |
| `CompletionTheorem` | `Spec => CompletedOnlyWhenDone` |
| `CoverageTheorem` | `Spec => EveryItemRan` |
| `LedgerRefinement` | `Spec => LedgerSpec` |
| `OnceTheorem` | `Spec => []InvokedOnceUndisturbed` |
| `WatchTypeTheorem` | `Spec => []TypeOK` (`ConfigWatch`) |
| `ListedTheorem` | `Spec => []ListedAreCurrent` |
| `AnnotatedTheorem` | `Spec => []AnnotatedAreListed` |
| `AppTypeInvariant` | `Spec => []TypeOK` (`Application`) |
| `RolloutRefinement` | `Spec => RolloutSpec` |
| `TopicsTheorem` | the values `processTopicValues` works out cover every app that asks for the topic |
| `EndpointsTheorem` | a port `makeDependencies` tells is a port of the Service `makeService` makes |
| `MergeTheorem` | `Overrides(MergeEnvVars(vars, appVars), appVars, vars)` |
| `InheritTheorem` | `Overrides(InitVars(ic, vars), ic.env, vars)` if `ic.inheritEnv` |
| `UpdateTheorem` | `updateEnvVars` keeps names unique and takes the last value given |
| `TestJobTheorem` | no variable twice in `createIqeContainer`'s list |

**The environment.** None of the properties is inductive: whether a write by a
stale worker is harmless depends on what it read and when. `IInv` adds four
facts to the types. `Locking`: the lock is held exactly while the worker is
busy. `Chain`: every cached or travelling version is no newer than the stored
one, generations along the way never go back, and a version number determines
the object. `SnapOK`: a worker whose version still fits holds the stored
generation, the stored `status.generation` and the stored target namespace; this
is what optimistic concurrency gives, and it makes a write by a stale worker
impossible. `Builds`: the Deployment was built from a generation no later than
the worker's, and from exactly the worker's once it has been applied. One lemma
per action shows that `IInv` is kept, most of them through `EndKeeps` (the
reconcile returns) and `StayKeeps` (it goes on). `StepEffect` says what a step
may do to the stored object; the two action properties follow from it.

**The namespace.** `NamespaceReleased` speaks of an environment that is gone, so
its invariant `RInv` follows the mark of deletion. `Marks`: once set it stays, in
every version on its way to the informer. `Reading`: a worker whose version fits
knows whether the environment is marked and has its finalizer. `Phases`: a
reconcile beyond the finalizer has not seen the mark. `Freed`: once the finalizer
is gone, or about to go, the namespace has been given back and whatever the worker
may still read is marked, so that no reconcile draws a name again.

**App and environment.** `AInv` is `IInv` for the environment together with its
counterparts for every app. `Trails`: the versions of an app that the informer
holds or is about to receive are no newer than the stored one and their
generations never go back; neither do the generations an environment has reported.
`AppSnapOK`: a worker whose version still fits holds the stored generations.
`AppBuilds` carries the argument: a Deployment was built from no later
specification than the *informer* has seen, and from no later generation of the
environment than the cache shows as reported. So a reconcile that starts from a
stale app or environment still builds from nothing older than what runs, although
the lock is only looked at and the environment may move on at any point in
between. `EnvSideMoves` shows that the environment's steps leave the apps'
generations alone, `AppWorkerMoves` what those of an app's worker do with both, and
`MovesRefine` maps each such move to a step of `Rollout` or to none.

**The job map.** `VersionInv` plays the part of `Chain`: equal versions are equal
objects, and no copy of the job map is ahead of the stored one. `OutcomesTheorem`
and `LedgerRefinement` follow, since every recorded outcome is read from a Job
that has finished. `CompletionTheorem` counts: completion is
set when as many Jobs of the map have finished as there are items, so if an entry
is still running the entries outnumber the items, which only an edit that shortens
`spec.jobs` brings about. `CoverageTheorem` counts the other way. `AllPlaced` says
of every copy of the map, stored, cached, travelling or in the worker's hands, that
its entries stand for different places of the list they were made for. As many
finished entries as items then fill every place (`PlacesFilled`).

**Invoked once.** `OnceInv` adds, while nothing has been disturbed, that outside
the wait the cache shows the stored object, and that an uninvoked CJI cannot
already have the conditions an invocation would set. The second part is what
saves the undisturbed case from the defect of `cji_reenable`.

**The hash cache.** At rest nobody is queued and no event is on its way; before
that, what a listed app has written agrees with what the handlers were last
*told*, which is what is stored only once all events are handled. `WInv` is stated
with `Told(o)`: events follow on one another up to the stored state (`Linked`); an
app is listed only under what it reads (`Listing`); what the worker holds and has
copied is what the handlers know (`Holding`, `Copied`); and whoever is listed and
not queued shows it, with the hash in the cache (`Served`). Objects whose change
met a reconcile are excepted throughout. Per action one lemma shows that each
conjunct is kept; several cite lemmas that say a conjunct depends on a few
variables only (`ServedSame`, `CopiedSame`, `ListingSame`).

**Annotated objects.** That a listed app is current says nothing of an app that
is not listed. `LInv` adds to `WInv`: an object the handlers know to be gone has no
entry in the cache, so that its return is news to them (`Forgotten`); if the worker
holds a state of an object without the annotation the handlers know of, its app is
queued again or the handlers will hear of the loss (`InHand`, `Losing`); and an app
whose pods name an object that the handlers know to be annotated is listed, or
queued, or still going to read it in the reconcile that runs, or the handlers are
still to hear that the annotation or the object is gone (`Enlisted`). `Forgotten`
fails for an object that a reconcile hashed while the handlers took it for absent;
such objects (`unheard`) are excepted until they are deleted once more.

**Operators of the providers.** These hold for every specification of environment
and apps, not for the fourteen worlds only.
`TopicsTheorem` is the step from one app's wishes to the shared topic that
`TopicsCover` rests on; it assumes that counts and sizes have a bound, as machine integers do, and
that every value parses. `EndpointsTheorem` compares the two places that work out ports, each
with its own defaults; it is what `EndpointsServed` checks between two reconciles.
The theorems of `EnvVars_proofs` are the three parts of `OwnVariablesWin`, one for
each way the code merges variables. `MergeTheorem` says which variable wins in a
sidecar. It needs that the environment sets no name twice: only the first of
several is replaced, while the last one counts. `InheritTheorem` says the same of
an init container and needs no such assumption, since the inherited variables of a
name are all kept or all left out. `UpdateTheorem` is about a test job, where a
variable without a value changes nothing; `TestJobTheorem` shows that the list the
code starts from is one it applies to. The three share one argument: the library's
fold is a recursive function on sets of indices, which is shown to exist
(`FoldExists`) and to pass through one list per variable (`SolutionTrace`); then an
invariant of those lists (`Merged`, `Inherited`) is carried from each to the next.
Induction is by the least counterexample (`LeastNatural`, `UpTo`), which needs no
induction scheme.

**Only model-checked.** The liveness properties (`EventuallyCompleted`,
`EnvSettles`, `AppsSettle`, `ComesToRest`, `Settles`): liveness under fairness is
beyond TLAPS. The invariants and action properties of `Providers`: sessions and
objects are put together with `:>` and `@@`, which TLAPS knows no rules for, and
a reconcile is a fold over a registry of operators, of which it cannot take an
induction hypothesis; they are also about how some hundred operators fit together. Of them only the
operators named above are proved correct.

**Reading the proofs.** Most leaves name `Zenon`: the controllers' contexts are
large, and handing them to SMT takes longer than proving the step. The leaves
without it need arithmetic, functions or sequences. `Application_proofs` takes
longest, some ten minutes.

## Not modelled

* Which app's edit wakes another app, and the ClowdAppRef watch: `Providers` has
  the resync instead.
* Counters of Kafka, KafkaConnect and KafkaTopic objects and their event filters:
  the same code as for Deployments.
* Switches of the operator's configuration for Strimzi's finalizer and an external
  Strimzi.
* Probes, resource requests, security contexts, JVM options, CPU and memory per
  size, metrics of autoscalers: values copied into objects, which no state depends
  on.
* The text of the gateway's routes and the realm imported into Keycloak; which
  objects carry them is modelled.
* The HTTP API and Prometheus metrics, which only read; the plain maps they read
  without a lock have no outcome the code could define.
* Leader election: one process is assumed to run at a time.
* Generated code and the JSON types.

## Layout

`PROJECT.json` lists components, runs, mutants (a plausible bug for every
property, which the run must find), the source lines of every definition,
findings, hazards and theorems. To repeat a run:
`tlc -config MCEnvironment_settle.cfg MCEnvironment`; a proof:
`tlapm Environment_proofs.tla`.
