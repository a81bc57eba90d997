# A TLA+ development of the OpenShift Lightspeed operator

The operator (`src/`, Go, controller-runtime) turns one cluster-scoped custom
resource, the singleton `OLSConfig` named `cluster`, into a set of operands: an
application server, a PostgreSQL database, a console plugin and optional
companions. This directory holds TLA+ modules of its control logic, TLC
configurations that check them on small instances, and proofs that TLAPS checks
for instances of every size. `PROJECT.json` is the index: which definition
models which lines, which run checks which property, which hazards the
properties are for.

## 1. The system

### Components, their state and their operations

| Component | Code (`src/`) | State | Operations |
|---|---|---|---|
| Reconcile loop | `internal/controller/olsconfig_controller.go`, `olsconfig_helpers.go` | CR (spec, generation, finalizers, deletion timestamp, status), informer cache, work queue and its failure count | `Reconcile`: read and validate the CR, finalizer, disabled operands, Phase 1 (resources, goes on after an error), Phase 2 (Deployments), status update |
| Finalizer and cleanup | same file | finalizer, owned objects | `handleFinalizer`, `finalizeOLSConfig`, `listOwnedResources`, `deleteOwnedResources`, `waitForOwnedResourcesDeletion` |
| Status | `olsconfig_helpers.go` | one condition per operand, `OverallStatus`, `ObservedGeneration`, diagnostics | `UpdateStatusCondition`, `checkDeploymentStatus`, `collectDeploymentDiagnostics` |
| External resource watchers | `internal/controller/watchers`, `annotateExternalResources` | watcher annotation on Secrets and ConfigMaps, maps resource -> Deployments, watch flags | predicates and handlers of Create and Update events, restarts |
| Operand reconcilers | `internal/controller/{appserver,postgres,console,agenticconsole,alertsadapter,ocpmcp,rhokp,otelcollector}` | ConfigMaps, Secrets, Services, Deployments and more; resource versions recorded as annotations of the Deployment | two task lists per operand, `Restart*`, `Remove*` |
| Client CA Secrets | `appserver/assets.go`, `appserver/deployment.go` | one Secret per endpoint with the service CA | `RefreshClientCASecrets`, `RestartAppServer`, called by the worker and by handlers |
| Agentic handoff | `internal/controller/agenticintegration` | a ConfigMap read by another operator | create when prerequisites exist, update, touch on a new certificate |
| Database credentials | `postgres/`, `otelcollector/assets.go` | bootstrap and password Secret, volume claim, connection string | created when missing, never changed; cleanup of old Secrets |
| Configuration of the application server | `appserver/assets.go`, `appserver/deployment.go`, `utils/utils.go` | ConfigMap `olsconfig`, exporter ConfigMap, pod template | validation of credentials, generation in two phases, comparison |
| RAG images | `appserver/rag.go`, `reconcileImageStreams` | ImageStreams, init containers, trigger annotation | apply and prune, follow new contents |
| Start-up, TLS profile, other asset builders, CLI, ISA check | `cmd/`, `internal/tls`, `*/assets.go`, `cli/` | none that lasts | one-shot or pure |

How they interact. The components share the API server and call each other only
through `Reconcile`. An event of the CR or of an owned object of a kind
registered with `Owns()` puts the one key into the work queue; controller-runtime
runs one worker. The worker reads through informer caches that lag, and writes
with optimistic concurrency (a stale resource version is refused). The handlers
of the external resources run on the informers' goroutines, concurrently with the
worker, and share with it the unsynchronised maps of `WatcherConfig`. Outside the
operator, the user edits and deletes the CR, other controllers touch external
resources, service-ca issues certificates, and the garbage collector and the
Deployment controller act in their own time. The process may crash at any point;
everything but the API server's state is lost.

### What is hard

* **Stale reads**: decisions about the finalizer, about disabled operands and
  about resource versions are taken on cached copies.
* **Order of writes**: the finalizer before the first object, the wait before the
  removal of the finalizer, the certificate before the Deployment.
* **Races** between the worker, which clears and refills the maps, and handlers.
* **Failure half way**: a task list that stops, an annotation that is refused, a
  crash between two writes.
* **Feedback**: each write of an owned object queues the key again, so a
  comparison that never settles would restart pods for ever.
* **Time-outs**: the deletion wait gives up; what it leaves, and what it could not
  see, must be the only thing that outlives the CR.

The list with its lines is `"hazards"` in `PROJECT.json`.

### What makes each component correct

* Loop and finalizer: no object of a CR without the finalizer; nothing that is
  listed outlives the CR unless the wait timed out or no cache showed it; the
  finalizer of a live CR is never taken away; a deletion ends; after the last
  disturbance a live CR becomes Ready; Ready describes the generation it names.
* Watchers: what is mounted is watched; a change reaches the pods; a lost
  annotation comes back.
* Client CA Secrets and handoff: no restart over an older CA than it began with, but
  where a read that was out of date set a Secret back; no first publication without what it names; no announced reload lost; both agree with
  the CR and the service CA in the end.
* Operands: a stamp that is up to date means pods that are up to date; pods follow
  the CR; tasks take effect in the end; no restart loop.
* Database: a password, once a database was initialised with it, stays, but for three
  cases the code does not guard against; database and Collector run in the end, and
  connect unless one of these happened.
* Configuration: every file the service is told of is mounted; the API server takes
  the Deployment; the operator stops writing when nothing changes.
* RAG images: an ImageStream for exactly the images of the CR; operator and trigger
  controller do not fight over the same fields; new content reaches the pods.

## 2. Modules and how they correspond to the code

| Module | Models | Extended by |
|---|---|---|
| `OLSConfigReconciler` | `Reconcile` with everything it calls, at one step per API write or critical read | `MCLifecycle`, `OLSConfigReconciler_proofs` |
| `OLSConfigLifecycle` | abstract promise: a CR is absent, bare, guarded or terminating | instantiated by `OLSConfigReconciler` |
| `OLSConfigReconciler_proofs` | theorems and proofs | |
| `Watchers` | annotation, maps, predicates, handlers, restarts | `MCWatchers`, `Watchers_proofs` |
| `Watchers_proofs` | theorems and proofs | |
| `OperandRollout` | the task lists of the eight operands over lagging caches | `MCRollout`, `OperandRollout_proofs` |
| `OperandRollout_proofs` | theorems and proofs | |
| `AgenticHandoff` | client CA Secrets, `RestartAppServer`, the handoff ConfigMap | `MCHandoff`, `AgenticHandoff_proofs` |
| `AgenticHandoff_proofs` | theorems and proofs | |
| `ConsolePlugin` | the operator's entries in the cluster's Console and its `ConsolePlugin` objects | `MCConsolePlugin`, `ConsolePlugin_proofs` |
| `ConsolePlugin_proofs` | theorems and proofs | |
| `PostgresCredentials` | the database's Secrets, volume and pods, the Collector's connection string | `MCPostgres`, `PostgresCredentials_proofs` |
| `PostgresCredentials_proofs` | theorems and proofs | |
| `AppServerConfig` | validation, `GenerateOLSConfigMap`, `GenerateOLSDeployment`, `updateOLSDeployment` as functions of the CR and the cluster | `MCAppServerConfig`, `AppServerConfig_proofs` |
| `AppServerConfig_proofs` | theorems and proofs | |
| `RAGImages` | ImageStreams, RAG init containers, the image trigger controller | `MCRAG` |

### `OLSConfigReconciler`

`cr` is the CR in the API server and `cache` the informer's copy, which
`SyncCache` brings up to date whenever it likes. `queued` and `backoff` are the
work queue. `pc` with `olsconfig`, `todo`, `failures` and `newStatus` are the
worker's locals; `owner`, `terminating` and `health` the operands' objects, in
three groups per operand (`res`: Phase 1; `dep`: Phase 2; `cluster`: objects
that finalization does not list). `hidden` are the objects that exist and that the
informer of their kind has not delivered yet (`ShowObject` delivers one): a Create of
one meets AlreadyExists, `listOwnedResources` does not list it, so the finalization
neither deletes it nor waits for it. `timedOut` and `overlooked` record what a
finalization leaves behind: the CRs whose wait was given up, and the objects that were
hidden when the wait looked for the last time. Each worker action is a stretch of `Reconcile`
between two API calls:

| Action | Code |
|---|---|
| `StartReconcile` | `getAndValidateCR`, the branch of `handleFinalizer` |
| `AddFinalizer` | the Update that adds the finalizer and the early return |
| `Preflight` | operator resources, annotation, credential and TLS checks |
| `RemoveDisabled`, `EnterPhase1`, `ReconcileResources`, `FailPhase1` | Phase 1 |
| `EnterPhase2`, `RemoveAlertsAdapterAgain`, `EnterDeployments`, `ReconcileDeployment`, `PublishHandoff` | Phase 2 |
| `UpdateStatus` | `UpdateStatusCondition` |
| `FinalizeRemove`, `FinalizeDeleteOwned`, `FinalizeWait`, `FinalizeRefetch`, `RemoveFinalizer` | `handleFinalizer` on a CR being deleted |

The environment is `CreateCR`, `EditSpec`, `DeleteCR`, `OtherEvent`,
`CollectGarbage`, `Vanish`, `DeploymentAvailable`, `DeploymentFails` and
`Restart` (a crash and a new process, perhaps with other images).

Abstractions: of the operands' objects the caches hide the new ones; that they also
show old contents is in `OperandRollout`, and that an object is gone is seen with the
step in which it goes. The objects that no list asks for (`cluster`) are not hidden. A
group of objects is created, or deleted, in one step or in
a failing step that stops part-way; messages and diagnostics are left out; a
removal that fails may have removed some of its groups. Two overlapping processes
(a leader that lost its lease and still writes) are not modelled.

### `OLSConfigLifecycle`

Four stages, the objects of the current CR with those that the operator cannot see yet
and those it missed when it looked for the last time, the objects of earlier CRs, and
whether waiting was given up. `Stage`, and the set expressions of the `INSTANCE`, are the
refinement mapping: worker, cache, queue, status, faults and crashes disappear.

### `Watchers`

One record per external resource (data version, annotation, resource version) and
one queue of events per resource, filled by every write. The worker's actions are
`StartReconcile` (clears the maps), `Annotate` (one resource of
`annotateExternalResources`), `Annotated` (its end: return on error, or set the
watch flag) and `Rollout` (both phases: Deployments whose volumes change start
anew). `Handle` is a handler's whole run for one event: predicate, filter,
annotation of a recreated resource, restart of the affected Deployments.
`loaded[r][d]` is the data version the pods of `d` read when they started.
`Source` says what a resource is: LLM credentials, TLS secret, CA, alerts adapter
ConfigMap, system secret, system secret behind a flag (`gated`).

### `OperandRollout`

One operand per behaviour, chosen in `Init`; `Tasks` are the two task lists in the
code's order. A task is a kind of step and an object: `Apply` (Get, then Create or
Update), `Ensure` (Create only), `Overwrite` (Update without a resource version),
`Delete`, `Wait` (poll for the Secret of service-ca), `WaitAndTouch` (same, and
write the Secret back) and `Deploy`. Every Get reads the object's own lagging
cache (`Sync` brings it up to date), so a Create can meet AlreadyExists and an
Update a conflict. `GenerateDeployment` and `Deploy` are two steps: the stamps are
looked up in one and written in the other. An object's data is the version of the
CR it was generated from, 0 when somebody else wrote it. `RollPods` is the
Deployment controller; it fixes which ConfigMap and certificate the pods run with, and
starts none before the certificate exists, but for the alerts adapter, which mounts none.
The CR is read without lag here, and `Tamper` changes only fields the update
compares.

### `ConsolePlugin`

The cluster's `Console` object lists the active plugins and is shared with every
other plugin and with the administrator; each plugin of the operator also has a
`ConsolePlugin` object. The list is a set of names here. A pass over a live CR runs
`ReconcileConsolePluginCR` and the activation for each plugin, the finalization the
deactivation and `DeleteConsolePluginCR`; an error ends the list of that plugin
only. Activation and deactivation are `ReadConsole`, which reads a lagging cache,
and `WriteConsole`, which the API server refuses for an old version
(`Accepted`); `RetryOnConflict` reads the cache again until its attempts are used
up (`AttemptsLeft`). Others edit, delete and restore the Console. The CR is read
without lag, and the removal of the agentic plugin when its image is gone is in
`OLSConfigReconciler`.

### `AgenticHandoff`

Three goroutines: the worker, and the handlers of the ConfigMap and of the Secret
informer (`thread`). Each reads the CR, `openshift-service-ca.crt`, the Secrets, the
Deployment and the handoff through caches that lag (`cache`, `stale`, `Sync`), and
each of its writes is refused when the copy it read is not the last version. A CA is
a version number. Each Secret of the table takes two steps. `RefreshClientCASecrets`
deletes it or reads the CA it shall hold (`generateClientCA`, into `desired`);
`reconcileClientCASecret` then reads the Secret and writes that CA, however old it is by
now. So a goroutine can set back a Secret that another has refreshed in between, and its
Update is not refused; `late` are the Secrets last written with a CA that was not the
cached one any more. The two steps serve both callers: the worker's task (`pc = "refresh"`) and `RestartAppServer`
(`"restart"`), which then rolls the Deployment (`RollAppServer`). The worker comes to
`RestartAppServer` through `updateOLSDeployment`, when the Deployment was generated
for another spec (`ReconcileDeployment`). `reconcileConfigurationConfigMap` ends the
pass. `HandleEvent` begins a handler's restart; the handler of a serving certificate
goes on to `TouchAgenticConfiguration`, the next name in its list. `RollPods` is the
Deployment controller, whose pods the worker waits for. The
other operands are one boolean, the MCP server's Service, and the other tasks of the
application server are in `OperandRollout`.

### `PostgresCredentials`

A password is a number, fresh whenever one is generated. The database takes it when
its volume is initialised (`data`) and keeps it; pods read theirs when they start. The
three Secrets come through one informer: `history` is the sequence of their states from
what the cache shows to what the API server has. The tasks of Phase 1 are
`ReconcileBootstrap`, `ReconcilePassword`, `DeleteOld` (the label it selects on is also
the bootstrap Secret's, so a fresh bootstrap Secret goes with the old ones),
`CreatePassword` and `ReconcileDSN`; those of Phase 2 `ReconcilePVC` and
`ReconcileDeployment`. `DeleteOwned` and `EndWait` are the finalization. The garbage
collector, the protection of claims that are in use, evictions, deletions by others and
crashes are the environment. A pass may start at any moment, with any lag and with
whatever an earlier CR left. `upset` records what the code does not guard the password
against: that somebody else deleted the Secret, that a pass missed one that is there, that
one began over the database of an earlier CR, and that a connection string was made from
a Secret that is out of date.

### `AppServerConfig`

The generators are operators over the CR's spec and the cluster's Secrets, ConfigMaps
and pull secret. `Files` is what `olsconfig.yaml` names, `Volumes` what the pods mount;
a file is a directory and a key. `Credential` has the rules per provider,
`UserCAs` the order of a Go map (any order), `DeploymentSpecEqual` and `Changed` the
comparison with what it leaves out, `Acceptable` the API server's check. The worker
runs `Validate`, `ReconcileOLSConfigMap`, `ReconcileExporterConfigMap` and
`ReconcileDeployment`, each on the spec it read at the start and on the cluster as it
is at that moment; `EditCR` and `ChangeCluster` come at any point.

### `RAGImages`

`stream` are the ImageStreams in the API server, `cached` what the informer shows.
`StartReconcile` takes the list, `ApplyStream` creates or updates one, `PruneStream`
deletes what the list has and the CR has not. `Created` and `Updated` are the two ways
to write the Deployment: only the first writes the triggers. `Trigger` is OpenShift's
controller, `Import` the scheduled import, `Push` a new content under the same tag.

## 3. Runs

All runs use `-workers 2` comfortably; the largest take about three minutes.

| Run | Instance | Shows |
|---|---|---|
| `lifecycle` | RHOKP; two CRs, any two of a recreation, a fault, an event and a crash; only worker and informers fair | type, `FinalizerInv` and its two consequences, `CreatedForLiveCR`, `FinalizerKeptWhileLive`, refinement of the life cycle, `DeletionCompletes` even when objects never go |
| `convergence` | alerts adapter (gated by a field and by an image, removed in either phase); one of an edit, a second CR, a fault, a crash, a failing Deployment | `Converges`, `ReadyCoversSpec` |
| `watch` | TLS secret; three data versions, a deletion, a touch, an edit, a fault, a lost restart, a crash | `MountedIsWatched`, `WatchHeals`, `ChangeReachesAppServer`, type |
| `handoff` | MCP server; an edit, a CA rotation, a certificate rotation, a deletion, a fault, a crash, and six pairs of them | `RollsWithFreshCA`, `CAOrder`, `PublishedAfterTrust`, `ReloadKept`, `HandoffSettles`, type |
| `rollout` | seven operands; an edit, a tamper, a rotation, a fault, a crash, and five pairs of them | `StampCoversPods`, `DeploymentAfterCert`, `PodsFollowCR`, `TasksTakeEffect`, `NoRestartLoop`, type |
| `postgres_config_edit` | the database, one edit of its ConfigMap | **violated**: `ManagedConfigRestored` |
| `console_plugin` | the chat plugin; two CRs, two writes by others, a fault, a crash, five attempts as in the code | `OthersUntouched`, `ActiveInTheEnd`, type (no sixth attempt) |
| `disabled_leak` | one CR, one edit, no fault | **violated**: `DisabledIsTornDown` |
| `postgres` | with and without the Collector, on an emptyDir, a claim and a claim without a class; a second CR, an API error, a crash, an eviction, a deletion by others, a missed Secret, and seven pairs of them | `NeverLockedOut`, `ConnectsInTheEnd`, type (no connection string without a password) |
| `appserver_config` | four families: every provider with every kind of Secret; Secrets shared by providers, MCP headers and TLS; proxy and user certificates; data collection and RAG; one or two edits or changes at any point | `AgreesInTheEnd`, `FollowsCR`, `AcceptedWhenDistinct`, `SettlesUnlessSeveral`, type |
| `rag` | two images, three lists; any two of an edit, a push, an edited or deleted ImageStream, an API error | `StreamsFollowRAG`, `NoImageFight`, `ContentReachesPods` |
| `ca_churn` | the certificates of `appserver_config` | **violated**: `Settles` |

What the violated runs mean:

* `disabled_leak`: `wasComponentEnabled` looks for the operand's condition in a
  cached status. A pass that begins before that status reaches the cache finds no
  condition, removes nothing and reports the operand as disabled. From then on the
  condition says Disabled, no later pass removes anything, and the objects stay.
* `postgres_config_edit`: `reconcilePostgresConfigMap` creates its ConfigMap and never
  updates it. An edit by somebody else queues the CR, whose pass leaves the edit alone and
  rolls the database onto it, while rule 5 of `resource-lifecycle.md` says that the
  operator overwrites such an edit. `TasksTakeEffect` therefore claims of what is only
  created that it exists.
* `ca_churn`: `addAdditionalCAFileNames` ranges over a Go map. With two certificates the
  list in `olsconfig.yaml` changes its order from pass to pass, the ConfigMap is
  updated, its event queues the CR, its new resource version rolls the pods, and the
  next pass does the same. `SettlesUnlessSeveral`, which passes, is the same property
  for every other input.

### Bounds, and why they are enough

Every bound is a budget that an action spends (`MaxTrouble`, `MaxFaults`,
`MaxTampers`, ...) or a cap in a guard (`MaxUid`, `MaxGen`, `MaxWrites`). The races
above take two or three disturbances: one edit while a pass is in flight, one
recreation, one conflict, one crash between two writes; each run allows the
combination its question needs, at any moment. Two CRs one after the other are
what tells a recreated CR from the old one; two versions of an object are what
tells a stale copy from a fresh one. Lag, conflicts, hidden objects and time-outs are
not budgeted: they may happen in every pass. The exception is a pass that misses a live
password (`MaxMisses`): each one generates another password.

`handoff`, `rollout` and `postgres` name in `Meet` the pairs of different disturbances
that may meet in one behaviour (a single one is always allowed, and more of its kind up
to its own budget). The pairs kept are those that touch the same objects or that one
catches in the middle: a rotation of the CA and the event of a certificate, a second CR
and a crash of the pass that serves it. The proofs of
safety in these modules hold for every budget and every `Meet`, so the bound matters for
the liveness properties only.

`lifecycle` and `convergence` share one budget, `MaxTrouble`, for faults, crashes,
recreations, edits, failing pods and stray events. `lifecycle` takes RHOKP, which a field
of the CR switches and which Phase 1 and the finalization both remove, and `convergence`
the alerts adapter, gated by a field and an image and removed once more in Phase 2; runs
with one operand are enough where the operands are
independent (each has its own objects and condition), and the proofs hold for every set of
operands. In `rollout` resource versions wrap at `RvModulus` (they are never reused with
`RvModulus = 0`, as in the proofs): the application server updates its Service without a
resource version in every pass that finds an old copy in the cache, so there the version
has no bound, and the modulus is larger than the number of versions a cached copy or a
stamp can be behind within the budgets. It keeps seven operands, the agentic console
having the tasks of the console, and of their objects the ConfigMap, the Service and the
legacy Role beside the Deployment and the certificate (`Modelled`): one object for each
kind of task that some property tells apart.

`watch` uses the TLS secret, the one resource with an entry
in the map and a Deployment of its own beside the application server; `MountedIsWatched`
and `ChangeReachesAppServer` speak of resources that nobody deletes, `WatchHeals` of
all. `appserver_config` enumerates inputs in families, because the
parts of a spec meet only within one (a provider's Secret and an MCP header's, say),
and gives each family its own number of events. `rag` needs two images so that one can
move to another entry or be named twice, and a shared budget. In
`postgres` two CRs are what brings an old volume together with a new Secret; the
informer may be behind by two writes (`MaxLag` states).
`CHECK_DEADLOCK FALSE` stands in the loop's, the rollout, console, `postgres`, `rag` and
`appserver_config` runs, where a system that is settled, with all budgets spent, has
nothing to do.

### Fairness

Weak fairness only, and only where something retries for ever:

* the worker: controller-runtime runs the key as long as it is queued, and a
  failed pass puts it back;
* the informers (`SyncCache`, `ShowObject`, `Sync`, `Deliver`, `Handle`): watches
  deliver every event;
* `ClusterFairness` (`convergence`, `disabled_leak`): deletions complete, garbage is
  collected and Deployments come up. `lifecycle` does without it;
* service-ca, the Deployment controller and the kubelet (`IssueCert`, `RestoreCA`,
  `RollPods`, `StartPostgres`, `StartOtel`), the scheduled import and the image trigger
  controller (`Import`, `Triggers`);
* `ResyncSpec` adds the periodic resync of the CR's informer, where a property
  needs a pass that no event asks for (nobody watches the Console, for one); in
  `ConsolePlugin` also the garbage collector and whoever restores the Console.
  `PodsFollowCR` has the resync as a premise (`WF_vars(OtherEvent)`), since the event of
  a renewed certificate queues nothing; the other properties of `rollout` do without.

The user, faults, rotations, tampering, conflicts and crashes are never fair, and
their budgets end, which is what "after the last disturbance" means.

## 4. Proofs

`OLSConfigReconciler_proofs` proves, for every set of operands and every bound,
from the two assumptions of the module (the operands are known ones, the bounds are
naturals):

| Theorem | Statement |
|---|---|
| `TypeCorrect` | `Spec => []TypeOK` |
| `FinalizerInvariant` | `Spec => []FinalizerInv` |
| `FinalizerGuardsObjects` | `Spec => []FinalizerBeforeObjects` |
| `DeletionIsClean` | `Spec => []CleanDeletion` |
| `ObjectsForLiveCR` | `Spec => CreatedForLiveCR` |
| `FinalizerIsKept` | `Spec => FinalizerKeptWhileLive` |
| `LoopImplementsLifecycle` | `Spec => ImplementsLifecycle` |
| `ReadyIsTruthful` | `Spec => []ReadyCoversSpec` |

`FinalizerBeforeObjects` and `CleanDeletion` are not inductive: whether a step
keeps them depends on what the worker believes. `FinalizerInv` adds what makes it
so:

* `UidInv`: uids are handed out once, and only a CR being deleted is waited for;
* `CacheInv`: what the lagging copy may be trusted for. A CR that has the finalizer
  has been seen by the cache (the operator itself put it there, after reading
  it), and one that the cache shows live with the finalizer is still the current
  one: a finalizer, once seen, is only removed from a CR that is being deleted;
* `WorkerInv`: at every `pc` after the finalizer check the worker's copy is of the
  current CR and that CR has the finalizer; on the deletion path no CR is live;
* `WaitInv`: between the wait and the removal of the finalizer what is left of the
  listed kinds was overlooked, or the wait timed out;
* `LagInv`: what is hidden, and what was overlooked, exists and is of a listed kind.

Most actions change none of the variables these read (`Frame`), and two lemmas
(`FrameReturn`, `FrameMove`) settle them; the others (starting, adding and removing
the finalizer, the wait, the re-fetch, creating and deleting the CR, a
synchronisation, a vanishing object) have a lemma each. The two action properties
and the refinement follow from a description of what a step can do to the objects,
`cr` and what a finalization leaves (`OwnerStep`, `CRStep`, `TimedOutStep`). `FinalizerInv` is also an
invariant of `lifecycle`, so TLC checks the strengthening itself.

`ReadyCoversSpec` needs to know why a status that was built over several steps, from a
copy of the CR, may be written onto the CR as it is at the end of the pass. `ReadyInv`
says it: a copy of the CR, in the cache or in the worker's hands, that has the CR's uid
is not of a later generation, and one of the same generation has the same spec
(`CopyOf`); the observed generation never exceeds the generation; and the conditions
collected so far cover what the tasks before `pc` had to look at in the worker's copy
(`BuildingInv`). The re-read CR has the worker's uid by `WorkerInv`, so a status whose
observed generation is current was built from the current spec.

`ConsolePlugin_proofs` proves, for any number of attempts, CRs, edits, faults and
crashes, from the assumption that the operator's plugins are the two known ones and
nobody else uses their names:

| Theorem | Statement |
|---|---|
| `ConsoleInvariant` | `Spec => []ConsoleInv` |
| `ConsoleTypeCorrect` | `Spec => []TypeOK` |
| `OtherEntriesAreKept` | `Spec => OthersUntouched` |

The write puts back a list that was read earlier, so the step alone says nothing
about the list it replaces. `VersionInv` supplies it: no copy, in the cache or in
the worker's hands, is newer than the object, and one with the object's version is
equal to the object. `RetryInv` (a task that has to read again has an attempt left)
makes the type of the attempt counter inductive.

`AgenticHandoff_proofs` proves, for every set of endpoints and any number of
rotations, deletions, faults and crashes, from the assumption that the endpoints are
the two known ones:

| Theorem | Statement |
|---|---|
| `HandoffInvariant` | `Spec => []HandoffInv` |
| `HandoffTypeCorrect` | `Spec => []TypeOK` |
| `CAsStayInOrder` | `Spec => []CAOrder` |
| `RestartIsFailClosed` | `Spec => []RollsWithFreshCA` |
| `ReloadsAreKept` | `Spec => ReloadKept` |
| `HandoffIsTrusted` | `Spec => []PublishedAfterTrust` |

`RollsWithFreshCA` is not inductive: it says nothing of a restart that is half way
through the table, nor of what the other goroutines may write. `CAOrder` has both:
`CopiesOrdered` (no CA is ahead of the cached service CA, and a copy of a Secret is ahead
of it only if the Secret is in `late`) and `RefreshedSoFar` (what a restart has dealt
with is as new as the CA it began with, or in `late`, and the CA it has read for the next
Secret is as new). A step of one goroutine leaves every Secret as it was, or writes the
CA of the shared cache, or an older one and puts the Secret into `late` (`Advances`); that
is the whole argument, and each action only has to show `Advances`. That `late` is needed
is the code's doing: TLC finds both properties violated without it.
`FreshCopies` (a copy not marked stale is the object) gives `ReloadKept`.

Only the first publication is gated, so `PublishedAfterTrust` also has to rule out that
an update publishes more than it. `TrustInv` does: while nobody edits or deletes, every
goroutine works for the spec there is, a client CA Secret that the cache shows is there,
and a published handoff, or a copy of one, names exactly what the spec switches on
(`Trusted`), so that an update finds nothing to change in the names.

`PostgresCredentials_proofs` proves, for every value of the bounds:

| Theorem | Statement |
|---|---|
| `CredentialTypeCorrect` | `Spec => []TypeOK` |
| `NotLockedOut` | `Spec => []NeverLockedOut` |

The step that matters is `CreatePassword`: it must not happen while a database exists.
What the worker knows then is that the cache did not show the Secret some steps ago, and
it takes these facts to get from there to an empty volume (`CredentialInv`), as long as
none of the three cases has happened that the code does not guard against (`Guarded`):

* `BeliefInv`: between the look and the creation there is no Secret;
* `SecretInv`: in a cluster with nothing of an earlier CR, the database of a live CR, and
  that of the CR a pass works for, has its Secret;
* `CleanInv`: a reconciliation, and every object it creates, find nothing of an earlier
  CR;
* `DataInv`: a database is in a pod or on a claim, which has an owner;
* `PassInv`: a pass works for a CR that exists, a finalization for one being deleted;
* `OwnersInv`: no owner is a CR yet to come, so a new CR in a clean cluster has no
  database.

`SecretInv` speaks only of a clean cluster and the garbage collector can make one clean;
`Removal` is the lemma for that: if a database remains, its pod or claim belongs to the
current CR, so the cluster was clean before. `PassStep` settles the tasks. No assumption
on the informer or the garbage collector is made: that a pass missed the Secret, or began
over leftovers, is recorded where it happens (`upset`, which only grows: `Remembered`)
and excepted by the property. The type invariant includes that a generated
password is a number that is not in use (`Generated`), which needs that the set of those
in use is finite.

`Watchers_proofs` proves, for every set of resources and Deployments and any number of
edits, refused annotations, touches, lost restarts and crashes:

| Theorem | Statement |
|---|---|
| `WatchersTyped` | `Spec => []TypeOK` |
| `MountedStaysWatched` | `Spec => []MountedIsWatched` |

What a pass mounts it has annotated some steps before, from a list it read before that.
`WatchInv` carries it over: while nothing has been deleted, every resource has data, what
is mounted is annotated, and what the worker has already annotated for the references it
read still is (no step but a deletion takes an annotation away); once it is past the
annotation without an error, that is all of them.

`OperandRollout_proofs` proves, for every choice of operands and kept objects and every
value of the bounds:

| Theorem | Statement |
|---|---|
| `RolloutInvariant` | `Spec => []RolloutInv` |
| `RolloutTyped` | `Spec => []TypeOK` |
| `CertBeforeDeployment` | `Spec => []DeploymentAfterCert` |
| `StampsAreTruthful` | `Spec => [](RvModulus = 0 => StampCoversPods)` |

`RolloutInv` has four parts beside the type:

* `TasksInv`: the tasks left are of the phase, and only `Deploy` works on the Deployment;
* `EditsInv`: the versions of the CR and the edits left add up, which bounds the data;
* `CertInv`: for the operands that wait, the certificate is there, or the list that is
  left has no `Deploy` or still has the `Wait` before it (`Guarded`). `TailLeft` shows
  that a task that ends keeps this, `KeptGuarded` that each of the three lists starts
  with it, whichever of its objects are kept;
* `StampsInv`: no copy, no generated stamp, no stamp of the Deployment and no pod
  template is ahead of the object's version. A write of the ConfigMap or the certificate
  therefore makes a version no stamp has (`StampsCarried`), and a write of the Deployment
  a template no pods have (`StampsNewDep`): in both cases the premise of
  `StampCoversPods` fails, until new pods start with what is there.

The stamps need versions that are not reused, as the API server guarantees; the theorem
says so.

`AppServerConfig_proofs` proves, for every family of CRs and clusters and any number of
events:

| Theorem | Statement |
|---|---|
| `ConfigInvariant` | `Spec => []ConfigInv` |
| `ConfigTyped` | `Spec => []TypeOK` |
| `DistinctIsAccepted` | `Spec => []AcceptedWhenDistinct` |

The type invariant includes that a Deployment has its ConfigMap; `ConfigInv` adds that
the ConfigMap is there once its task has passed. For the second theorem the list of
volumes is taken apart into its twelve sources. `Part` says that a list has no name and
no path twice and where its names and paths come from, and `JoinParts` that two lists
with nothing in common can be joined; what is left is to show that the sources have
nothing in common. The assumption `SecretLists` (the names of a CR's Secrets form a list)
is there because what `SelectSeq` and `FlattenSeq` return for every input needs an
induction; TLC evaluates it for the CRs of the run.

Only model-checked: everything about liveness and fairness, which is out of the prover's
reach. That is all of `RAGImages`, whose three properties are about what holds in the
end, and the `...InTheEnd`, `Settles`, `Follows` and `Converges` properties of the other
modules. Every invariant and every action property of the runs has a theorem.

## 5. What is not modelled, and why

* Builders of the other operands' objects (`*/assets.go`, the `Generate*` functions):
  no state and no input but the CR; their result is a version number.
* Diagnostics of failing pods and message texts: no decision depends on them.
* The content of the handoff (sandbox PodSpec) and of the certificates.
* The API server's TLS profile: a read-only conversion.
* The generated deep copies and the schema of the CRD; limits, quotas, tool filtering
  and query filters in `olsconfig.yaml`: values that are copied.
* Flag parsing, metrics, webhooks of the manager, the CLI and the ISA check:
  one-shot programs.
* Departures from the docs that no run checks: the error of Phase 1 names the
  failed tasks and not their causes, so a RESTMapping error of a task is never
  recognised (`Phase1Backoff`). The Create handler of an external resource returns,
  without a restart, when the Update that annotates it meets a conflict (`HandleCreate`),
  though its comment says that it handles recreated resources. The comment of
  `RestartAppServer` and `tls.md` say that it touches the handoff, which only the list of
  a serving certificate's targets does (`AfterAppServer`). The gate of the first
  publication looks at the MCP server only: the check of the OTEL Collector is commented
  out and the Secret of RHOKP is not looked at (`handoffCreatePrerequisites`).
* Departures that a model showed and no run is kept for, since the passing property
  excludes the case by name:
  * the TLS Secret changes between the clearing of the maps and its re-entry: the
    handler falls back to the application server, the console keeps the old certificate
    (`AffectedDeployments`; `ChangeReachesAppServer` speaks of the application server);
  * the restart after a rotation of the service CA meets a conflict and is only logged;
    later passes refresh the Secrets and never roll the pods, though the comment at
    `appserver/deployment.go:699` says that a later reconcile retries (`RollAppServer`);
  * the finalization reads a Console that does not show the operator's own activation
    yet, succeeds without a write, and the entry stays (`ReadConsole`);
  * the finalization cannot see an object that was created just before: it is neither
    deleted nor waited for, and the finalizer goes without a time-out, although
    `finalizeOLSConfig` "ensures all resources are properly cleaned up before removing
    the finalizer" and the wait "prevents race conditions when recreating OLSConfig CR
    quickly" (`olsconfig_controller.go:791`, `857`, `1068`). The garbage collector takes
    the object later (`overlooked` in `CleanDeletion`);
  * a goroutine that has read the service CA before the cache got a newer one sets a
    client CA Secret back that another has refreshed in between, and the Deployment is
    rolled over it, although `RestartAppServer` is fail-closed "so pods are not rolled
    with stale CA material" (`appserver/deployment.go:697`). The next pass refreshes the
    Secret (`late` in `CAOrder` and `RollsWithFreshCA`);
  * a second pass starts while the Secret cache does not show the password yet, or a
    pass starts while the database of an earlier CR is still there:
    `deleteOldPostgresSecrets` deletes the live Secret, or there is none, and a new
    password is generated for a database that has another one, against "never change the
    password once created" at `postgres/reconciler.go:258` (`missed` and `left` in
    `NeverLockedOut`). The database and the Collector then run and cannot connect;
  * after an edit of `spec.ols.rag` the Deployment keeps the triggers it was created
    with, since `updateOLSDeployment` copies three other annotations: the trigger
    controller puts the old image back (`edited` in `ContentReachesPods`), against
    `.ai/spec/how/deployment-generation.md:85`;
  * `imagePullSecrets` edited on a CR with the same RAG images never reach the
    Deployment (`FollowsCR` leaves them aside);
  * two providers, or two MCP headers, with one Secret, or a provider's Secret named
    like the database's or the generated TLS Secret, give two volumes of one name and a
    Deployment that is refused for ever (`SecretsDistinct`); the key `header` of an MCP
    header's Secret is never checked (`Provided`), and the Secrets of MCP headers are
    mounted even when the feature gate is off (`HeaderSecrets`).
* A restart that fails in a handler is not retried by the code; a property would only
  restate that. `UpdatePostgresDeployment` writes into the annotations of the found
  Deployment without a check for nil; the Deployment controller's revision annotation is
  there in practice.

## 6. Plan

Done, in this order: `OLSConfigReconciler` with `OLSConfigLifecycle`; its proofs;
`Watchers`; `OperandRollout`; `ConsolePlugin` and its proofs; `AgenticHandoff` and its
proofs; `PostgresCredentials` and its proofs; `RAGImages`; `AppServerConfig`; the proofs
of `Watchers`, `OperandRollout` and `AppServerConfig`.

Next:

1. Proofs of the safety behind the liveness properties: that an ImageStream the CR
   names is never pruned by the pass that applies it (`RAGImages`), and what a settled
   pass leaves (`AppServerConfig`).
2. The aggregation of pod failures in `collectDeploymentDiagnostics`, against a
   reference definition.
3. The composition of `Watchers` and `AppServerConfig`: a handler's restart racing the
   update of the Deployment.
