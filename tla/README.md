# Verification of the kubernetes-landscape-orchestrator

The kubernetes-landscape-orchestrator (KLO) connects the Star control plane of konfidence to one
Kubernetes landscape.  It is an operator with six controllers, and a small HTTP service that serves
the configuration which one of the controllers materializes.  This directory holds TLA+ models of
its components, TLC runs that check them on small instances, and TLAPS proofs of their safety
properties for all values of the constants.

- `*.tla`: one module per component, `MC*.tla` modules with the values of constants for TLC, and
  `*Proofs.tla`, `VectorDataPromise.tla` and `Watches.tla` with theorems and lemmas.
- `*.cfg`: one TLC configuration per run.
- `PROJECT.json`: components, runs, faulty variants ("mutants"), the map from definitions to source
  lines, findings, hazards and theorems.

To check: `tlc -workers 2 -config X.cfg M` for a run, `tlapm M.tla` for the proofs of a module (a few
seconds for `Watches`, a quarter of an hour for `StageRouteProofs`).

## 1. Inventory of the system

| Part | State it owns | Operations | Interacts with |
|---|---|---|---|
| VectorData controller (`internal/vectordata`) | finalizer and Ready condition of a VectorData, ConfigMap `vector-data-<name>` | Reconcile, renderData, handleDeletion, setReady | Star (creates, deletes VectorData), vector-data service (reads the ConfigMap) |
| ActivationTaskExecution controller (`internal/activationexecution`) | conditions of executions, HTTPRoute of a Stage, finalizer of the Stage | Reconcile, isSuperseded, ensureStageFinalizer, applyStageRoute, reportRouterGateway | cleanup controller, router Gateway, Star |
| Stage route cleanup controller (same package) | removal of the HTTPRoute and of the Stage finalizer | Reconcile, deleteStageRoute | the controller above, on the same two objects |
| Router Gateway provisioning (`router_gateway.go`) | Gateway `konfidence-router` | ensureRouterGateway, createRouterGateway, evaluateRouterGateway | admins, implementation of the GatewayClass, the timeouts |
| TaskExecution controller (`internal/taskexecution`) | Job of a TaskExecution, its verdict | Reconcile, createOrGetJob, isJobFinished | Job, TTL and garbage-collection controllers |
| Helm and Kustomize deployers (`internal/fluxdeployer`) | Flux objects of an ArtifactDeployment, its conditions and results | Reconcile of both controllers, four Flux reconcilers, two status updaters | Flux, Services of the deployment, Star |
| Flux mapping and naming (`fluxcd/mapper.go`, `utils.go`) | none | ToHelm, ToKustomize, SanitizeK8sResourceName, getSecretRef | deployers |
| Vector-data service (`cmd/vectordata`) | cache of configurations, calls in flight | evaluation handlers, getConfiguration | informer, API server |
| Vector-data informer (`informer.go`) | its store, cache invalidations | setupAndStart and its handlers | cache, process |
| Vector-data process (`main.go`) | error channel, exit status | main | service, informer |
| Deployment target validation, operator command, result types | none to speak of | | |

What makes these parts hard:

- **Reads are stale.**  Every `Get` and `List` goes to an informer cache that lags behind the API
  server by any number of events, and each kind of object lags on its own.
- **Writes are not conditional.**  Status and finalizer writes are merge patches by name, computed
  against the cached copy: they replace whole lists and may reach another incarnation of the name.
  Only `CreateOrUpdate`'s update fails with a conflict.
- **Calls fail halfway.**  A call may fail, or take effect and lose its answer; the whole reconcile
  is then repeated from the start.
- **Restarts** lose the reconcile in progress and queue every object again, in any order.
- **Two controllers write one object** (Stage and HTTPRoute), and others (admins, Flux, Gateway
  implementations, Star) write at any time.
- **Something must eventually happen** although some changes do not trigger a reconcile: Gateway
  status and Services are only polled.
- In the service, **an invalidation races a load**, several requests share one load, and two
  background goroutines may fail while the process shuts down.

`PROJECT.json` lists these as hazards, each at its line, with the properties that cover it.

## 2. Modules

All controller modules share one shape.  An API object is three variables: the stored object, the
sequence of states its informer has not seen (`...Watch`), and the informer's copy (`...Cache`).  A
write that changes the object appends to the watch; a `Deliver...` action moves the copy on, and puts
the key in the queue if the controller's predicate lets the event through.  A reconcile is a record
`worker` with the next call (`pc`) and the local values the code holds; **every API call is one
action**, so that anything may happen between two calls.  The work queue runs a key at most once at
a time, so that there is one `worker` per controller.  `Fault` is a call that fails before it takes
effect, or takes effect and loses its answer.  Operators named `X_Suffix`, commented as faulty
variants, are plausible bugs of the definition `X` that follows them: with X replaced by one of
them, TLC finds the property violated that `PROJECT.json` names.

| Module | Models | State and actions |
|---|---|---|
| `VectorData` | VectorData controller | `vd` with uid, phase, finalizer and Ready; `cm` is the uid in the label of the stored ConfigMap. `Start`, `AddFinalizer`, `Render`, `CreateCM`, `SetReady`, `DeleteCM`, `RemoveFinalizer` are the calls of Reconcile in order; `CreateVD`/`DeleteVD` let the name be used again. |
| `RouterGateway` | `router_gateway.go` | `gateway` with uid, label, requested and assigned addresses; `call` is the running `ensureRouterGateway`. Its steps are `GetGateway`, `GetGatewayClass`, `CreateGateway`, `DeleteGateway`. `evaluateRouterGateway` and `isClusterRoutable` are operators. Admins, the implementation and the two timeouts are the environment. |
| `StageRoute` | ActivationTaskExecution and cleanup controllers; EXTENDS `RouterGateway` and makes its calls | `stage` (phase, finalizers, active version), `route` (the execution whose rules it holds), `cond` of every execution, `worker` and `cleaner`; `landscape` is the setting of a behaviour: the plan of each execution, the seconds of the versions, what others do. `versions` are the StageVersions in the informer, `unseen` those it has yet to see. `Check` holds the early returns and isSuperseded; `GetStage`/`PatchStage` are ensureStageFinalizer, `CallGateway`/`GatewayAnswered` the Gateway, `GetRoute`/`ApplyRoute` CreateOrUpdate, `PatchStatus` the deferred patch. `CleanStart`, `CleanRoute`, `ReleaseStage` are the cleanup; `AddForeign` is another controller's finalizer. |
| `TaskExecution` | TaskExecution controller | `jobs` by creation order, `cond`, history of ended and expired Jobs and lost answers. `ListJobs`, `CreateJob`, `PatchStatus`. |
| `VectorDataService` | service, informer, process | versions of one ConfigMap (`Loadable` are those with a configuration that parses), `cache`, `flight` (the singleflight call), the step of each request (what it is answered is the subject of `DeploymentResults`), `errChan`, `main`. `Lookup`, `Fetch`, `Store` are getConfiguration around its API call. |
| `FluxDeployment` | both deployers, their four Flux reconcilers and the status updaters | `dep` with its conditions and results, `source` and `work` (Flux objects with the generation they were written for, their reference to a Secret, and what Flux reports), `chart`, `services`, `registry`, `target`. `ReconcileOCIRepository`, `ReconcileHelmRepository`, `ReconcileKustomization`, `ReconcileHelmRelease`, `GetChart`, `UpdateStatus`, `PatchStatus`; `getSecretRef` and `GetKubeConfigRef` are operators, and so are the updaters, `mutateResults` and `mutateReady`. |
| `DeploymentResults` | the data that passes through all components: Services to results (status updater), results to route rules (ActivationTaskExecution), to ConfigMap keys (renderData), and to answers of the service | `services`, `status` of two deployments, `vector` (results by component, as Star collects them), `route`, `vectorData`, `data` (the ConfigMap), `client` (the last answer and its ETag). `MutateStatus`, `ApplyRoute`, `Materialize`, `handleEvaluateBulk`; `Collect`, `CreateVectorData`, `DeleteVectorData` are Star. The pure functions (`SanitizeK8sResourceName`, `validateExposePorts`, `buildRouteRules`, `renderData`, `getConfiguration`, `parseFlagValue`...) are operators with the names of the code. |
| `Materialization` | what the VectorData controller promises to readers of ConfigMaps: an abstract specification without caches, retries and faults | `uid`, `phase`, `data`, `done`; `Create`, `Delete`, `Materialize`, `Erase`, `Vanish` |
| `Watches` | lemmas about a watch: the events in a sequence, the last state it tells of, what a write and a delivery do to both | see section 5 |
| `VectorDataProofs`, `VectorDataPromise`, `StageRouteProofs`, `TaskExecutionProofs`, `VectorDataServiceProofs`, `FluxDeploymentProofs`, `DeploymentResultsProofs` | theorems about the module they are named after (`StageRouteProofs` about `RouterGateway` too) | see section 5 |

Composition: `StageRoute` contains three components (two controllers and the Gateway provisioning)
acting on shared objects; `VectorDataService` contains the service, the informer and the process.
`DeploymentResults` composes five components along the data they hand on: each of its steps is one
whole operation, because how those interleave with lagging caches is the subject of the other modules.
`VectorData` implements `Materialization` (`Promise`, with uid and phase of the stored object, the
stored ConfigMap as `data` and the history of creations as `done`).

Abstractions of data, the same in all controller modules: a spec is its outcome (it renders or not, its rules
are valid, empty or invalid, the mapper accepts it or not); a condition is its type and status, with
its reason or generation where the code compares them; messages, events and logs are left out.
Objects that nobody deletes while the controller uses them are constants of the model.
In `DeploymentResults` a name is a sequence of the characters or segments that the code treats
differently, result names are numbers with their order, a flag is its JSON type and text, and a hash
is injective. A map that Go iterates in random order, and a List from an informer, come in every order.

Assumptions about code outside the repository come from how this code uses it: the API server stores
and deletes objects as finalizers say and rejects a finalizer on a deleting object; informers deliver
every state in order (the service's module also lets a broken watch skip states); controller-runtime
retries a reconcile that returns an error; Star does not edit the spec of a VectorData or of a
TaskExecution after its creation; Star records activations of a Stage in the order in which it created
their versions (`SetActive` only ascends; isSuperseded takes it for granted when it has an older version
give way); a Stage, an execution and a TaskExecution are never deleted and created again under the
same name, so that these modules have one incarnation of each (`VectorData` and `RouterGateway` have
several); Flux sets Healthy (or Released) when it reports Ready, because the
Kustomization is written with `Wait: true`.

## 3. Runs

States are distinct states; all runs finish in less than five minutes on two cores.

| Run | Configuration | Shows |
|---|---|---|
| `vectordata` | 3 incarnations (the third cannot be rendered), 2 faults, 1 restart; 179 882 states | `NoOrphan`: a stored ConfigMap has its VectorData, with the finalizer. `WrittenOnce`: "written exactly once per VectorData" through stale caches, lost answers, restarts. `ReadyExplained`: Ready=True without a ConfigMap has one cause (below). `KeepsPromise`: every step is one of `Materialization` or a stutter. `EventuallyMaterialized`, `DeletionCompletes`. |
| `vectordata_stale_ready` | 2 incarnations | Finding 1. |
| `stage_route_safety` | six landscapes: `Pruned` (2 executions, the second without rules, a prunable version, a fault), `Shared` (a foreign finalizer comes and goes, 2 faults), `Tied` (2 versions of one second, a fault), `Lagging` (the informer sees either version later than its execution, a fault), `Contested` (2 Gateway incarnations, CRDs that keep or prune the routability request), `Failing` (1 Gateway, 2 faults); 1 119 842 states | `RouteIsBound`: a live Stage with a route carries the finalizer. `SupersededSkipped`: an execution that starts after a newer version is active in the cache leaves the route alone, as long as the informer holds the versions active since then. `SucceededIsEarned`: an execution that reports success has had the route follow its plan, or a later activation is recorded, or the Stage is gone; with one exception (below). `ForeignLostUnseen`: a patch drops a foreign finalizer only if its copy did not show it. `ExposedIsDeleted`, `RoutesWithheld`, `FirstAdminGatewayKept`, `FailedIsFinal`. |
| `stage_route_live` | `FirstInvalid` (2 executions, the first invalid for ever, 2 faults) and `Provisioning` (1 execution, 1 Gateway); 62 190 states | `ExecutionSettles` next to one that fails for ever, and while the Gateway is pending, rejected, exposed or times out; `CleanupCompletes`. |
| `stage_route_orphan`, `stage_route_reverted` | 1 and 2 executions | Findings 2 and 3. |
| `task_execution` | 3 Jobs, 1 expiry, 1 fault, 1 restart; 568 986 states | `JobsExplained`: a second Job needs a lost answer. `VerdictFromJob`. `TaskSettles`. |
| `service` | 3 requests (one without a targeting key), 4 versions (every other one with a configuration), 1 relist, 1 fault; 158 025 states | `StaleOnlyByRace`, `WaitingIsAnswered`, `FailureEndsProcess`; `TypeOK` bounds the error channel by its capacity. |
| `service_exit` | 1 request | Finding 4. |
| `flux_deployment` | both types, each with: an edited spec and a fault or restart, an edited spec and a change of Services, a refused spec that then loses its resource, a change of the registry or the target; 369 145 states | `StalledNotReady`, `ReadyEarned`, `WorkAfterFetch`. `StalledRejectsResults`: no results beside Stalled, for as long as it is reported, unless a patch was torn (below). `StatusConverges`, of the Flux objects' references and of Stalled too. |
| `deployment_results` | 3 Services of 6 kinds with 2 changes and 2 pairs of deployment names; 4 pairs of component names with 4 kinds of foreign results; 3 successive VectorDatas with 6 kinds of features; 202 580 states | `PublishedIsAccepted`, `PublishesOwnServices`, `EachExposedIsRouted`, `RouteIsStable`, `ServedAsPublished`, `ClientAgrees`. |
| `deployment_results_featureless` | the VectorDatas alone | Finding 5. |

**Why the bounds are enough to be interesting.**  Every hazard above needs at most two incarnations
or two executions and one disturbance; three incarnations let a stale copy be two behind.  Two Flux
reports take either artifact type to Ready.  Landscapes and scenarios are initial states of one run, each
with the disturbances it needs: what two rare events of different landscapes do together is not
explored.  In `DeploymentResults` `MaxLength` (3) is the length a sanitized name is cut to, and each
pair of names or components is one way in which two can be told apart or confused.  Restarts and faults are bounded because TLC needs finite
state, and liveness is claimed only once they stop.  The landscape `Provisioning` has no faults where
liveness is checked: the bound on Gateways would otherwise block a re-creation that the code performs.  `CHECK_DEADLOCK FALSE`
is used because all of these systems may come to rest when their users do.

**Fairness.**  Weak fairness of a controller's own steps (the queue hands out its keys, and a retry
follows an error), and of informers' deliveries.  In `StageRoute` several keys share a queue that is
first in, first out: each key has strong fairness of `Start`, which is what such a queue gives.  The
clock (timeouts) and, in `TaskExecution`, the ends of Jobs are weakly fair.  Star, admins, Flux,
Gateway implementations, clients, faults and restarts owe nothing.

### Findings

1. `ReadyMeansMaterialized` (`vectordata_controller.go:99`): a cached ConfigMap of an earlier
   incarnation of the name is taken for the new one's. Ready=True is reported, no ConfigMap is
   created, nothing reconciles again.
2. `NoOrphanRoute` (`activation_task_execution_controller.go:194`): the route is applied again between
   the cleanup's deletion and its release of the finalizer, and outlives the Stage.
3. `RouteNotReverted` (`activation_task_execution_controller.go:128`): after a restart, an older
   execution reverts the route before the informer shows the newer active version.
4. `ErrorExitsNonZero` (`cmd/vectordata/main.go:71`): the select empties the error channel, so that the
   exit status is 0 after a background error.
5. `FeaturelessIsNotFound` (`vectordata_controller.go:185`): a VectorData without features is rendered
   as `null`, for which the service answers each flag and bulk request with status 500 instead of 404.

Observations made while modelling that are hazards or exceptions in properties, not runs: a lagging
ConfigMap informer can make Reconcile report Ready=False (`AlreadyExists`) over Ready=True; the retry
after `ConfigMapGetFailed` may patch nothing, so that Ready=False outlives its cause (the exception in
`EventuallyMaterialized`); the deletion of an exposed Gateway goes by name and can hit an admin's
replacement (hence *First* in `FirstAdminGatewayKept`); when the patch that stores Failed loses its
answer, the retry starts from the older status and may replace it (the exception `unanswered` in
`FailedIsFinal`); isSuperseded takes a StageVersion that is not in the informer for one that is gone: next
to another active version, an execution whose own version is not seen yet is skipped and reports success
without its route, although it is the newer one and the comment at
`activation_task_execution_controller.go:207` says "only a strictly newer active version supersedes" (the
exception `blind` in `SucceededIsEarned`), and one whose active version is not seen yet goes on (the
premise of `SupersededSkipped`); an invalidation between Get and
`Cache.Set` leaves a stale entry until the next change (the first case of `StaleOnlyByRace`); the
merge patch of a status replaces conditions and results each on its own, so that with a stale copy Stalled
can be stored beside results that its reconcile did not know of, or results beside a Stalled it did not
know of (`torn`, the exception in `StalledRejectsResults`); `internal/fluxdeployer/README.md:11` says that
without a matching entry "the controller uses the domain name as secretRef name", while getSecretRef does
so only if a Secret of that name exists and otherwise leaves the reference out, as its own comment and the
model have it.  In `DeploymentResults`: the selector of Services has the sanitized name of the
deployment while Flux labels them with the name as it is, so that a deployment with a dot in its name
finds none, or those of the deployment with a dash in its place (the premise of `PublishesOwnServices`);
the same result name in two components gives two rules with equal matches, in either order (the premise
of `RouteIsStable`); a component name that ends in "/" gives a key that the API server refuses, and an
empty one is left out of the ConfigMap (`Rendered` in `ServedAsPublished`).

## 4. Properties by component, and what they rule out

- A stale read, a lost answer or a restart makes a controller do its work twice: `WrittenOnce`,
  `JobsExplained`.
- Something outlives what it belongs to: `NoOrphan`, `NoOrphanRoute`, `RouteIsBound`,
  `ExposedIsDeleted`, `StaleOnlyByRace`.
- A report that is not earned: `ReadyExplained`, `VerdictFromJob`, `ReadyEarned`, `StalledNotReady`,
  `SucceededIsEarned`, `StalledRejectsResults`, `FailedIsFinal`, `ClientAgrees`.
- Two parts that do not agree: `PublishedIsAccepted`, `PublishesOwnServices`, `EachExposedIsRouted`,
  `ServedAsPublished`, `FeaturelessIsNotFound`, `RouteIsStable`.
- A promise that several steps must keep together: `KeepsPromise`.
- Steps in the wrong order: `SupersededSkipped`, `ForeignLostUnseen`, `RouteNotReverted`,
  `RoutesWithheld`, `WorkAfterFetch`, `FirstAdminGatewayKept`.
- Something that never happens: `EventuallyMaterialized`, `DeletionCompletes`, `ExecutionSettles`,
  `CleanupCompletes`, `TaskSettles`, `WaitingIsAnswered`, `FailureEndsProcess`, `StatusConverges`.

## 5. Proofs

Every invariant and every action property of the passing runs is a theorem, for every value of the
constants.  Each proof module has the same layout: the inductive invariants with the facts they are
made of, lemmas about operators and writes, one lemma per group of steps, and the theorems.  The
inductive invariants were checked by TLC on the instances of the runs before they were proved.

What makes all of them work is one idea.  No property here is inductive as it stands, because a
reconcile acts on copies: an informer's, or one that it made of that several calls ago.  The inductive
invariant says **what a copy still guarantees** of the stored object: for everything in sight (stored,
in the cache, on the watch, in a worker's locals), what it shows as past is past.  `Watches` has the
lemmas about sequences that this takes: a write adds one event, a delivery takes one away, the stored
object is what the last event tells.

| Theorem | States | For every |
|---|---|---|
| `VectorDataProofs`: `TypeCorrect`, `ConfigMapHasOwner`, `ConfigMapWrittenOnce`, `ReadyIsExplained` | `TypeOK`, `NoOrphan`, `WrittenOnce`, `ReadyExplained` | set of renderable specs, bound on incarnations, faults and restarts |
| `VectorDataPromise`: `PromiseKept` | `KeepsPromise` (refinement of `Materialization`) | the same |
| `StageRouteProofs`: `TypeCorrect`, `RouteBound`, `SuccessEarned`, `ExposedDeleted`, `RoutesAreWithheld` | `TypeOK`, `RouteIsBound`, `SucceededIsEarned`, `ExposedIsDeleted`, `RoutesWithheld` | number of executions and Gateways, set of landscapes |
| `StageRouteProofs`: `SupersededIsSkipped`, `ForeignOnlyUnseen`, `AdminGatewayKept`, `FailedStays` | the action properties `SupersededSkipped`, `ForeignLostUnseen`, `FirstAdminGatewayKept`, `FailedIsFinal` | the same |
| `TaskExecutionProofs`: `TypeCorrect`, `OneJob`, `ConditionIsVerdict` | `TypeOK`, `JobsExplained`, `VerdictFromJob` | bound on Jobs, expiries, faults and restarts |
| `VectorDataServiceProofs`: `TypeCorrect`, `CacheIsFresh` | `TypeOK`, `StaleOnlyByRace` | sets of requests and of loadable versions, bound on versions, relists and faults |
| `FluxDeploymentProofs`: `TypeCorrect`, `NeverBoth`, `ReadyIsEarned`, `SourceFirst`, `StalledRejects` | `TypeOK`, `StalledNotReady`, `ReadyEarned`, `WorkAfterFetch`, `StalledRejectsResults` | set of scenarios: any sequence of specs, any number of reports, changes, faults and restarts |
| `DeploymentResultsProofs`: `TypeCorrect`, `AcceptedByBoth`, `NoneLeftOut`, `ServedFaithfully`, `BulkAgrees` | `TypeOK`, `PublishedIsAccepted`, `EachExposedIsRouted`, `ServedAsPublished`, `ClientAgrees` | set of scenarios: any number of deployments, Services, components and VectorDatas, any names, any `MaxLength` |
| `DeploymentResultsProofs`: `OwnServices`, `RouteStaysPut` | the action properties `PublishesOwnServices`, `RouteIsStable` | the same |

### Assumptions

All are about constants, and TLC evaluates them in every run.  `BoundsAssumption`: bounds are natural
numbers (and a VectorData has at least one incarnation).  `RefusedAssumption`, `LoadableAssumption`: these
are some of the service's requests and versions.  `GatewayAssumption`: so has what a CRD stores of
a request for addresses.  `ExecutionAssumption`: executions are numbered in the order of their
creation.  `LandscapeAssumption`: a landscape has its type, and a later version is not of an earlier
second (creation timestamps are the API server's).  `ScenarioAssumption` (`FluxDeployment`): a scenario
has its type.  `ScenarioAssumption` (`DeploymentResults`): it has its type, each deployment has a name of
its own and one component, each Service one deployment; the names of objects of a namespace are
distinct.

### VectorData

`NoOrphan` is not inductive: a worker about to create a ConfigMap, or to remove a finalizer, acts on a
copy read long ago, and its patch goes by name.  `Ordered` orders the states of an object (uid, then
phase) from the informer's copy through the watch to the stored object; the lemmas `Extremes`,
`AppendKeepsOrder` and `TailKeepsOrder` keep that order under writes and deliveries.  `WorkerInv` ties
each call the worker makes next to what is still true of the stored objects: before `render` and
`create` the stored VectorData has the uid the worker holds, and the finalizer; before
`removeFinalizer` no ConfigMap is stored.  That survives a concurrent deletion and re-creation because
of `Released` (only a reconcile that saw the deletion of an incarnation releases its finalizer),
`SoleFinalizer` (a finalizer on the present incarnation is the only one in sight) and `WellFormed` (a
deleting object is one that a finalizer holds).  `Removed` carries `WrittenOnce`: a ConfigMap that was
written and is gone was removed by a reconcile that saw its VectorData being deleted, so that no worker
creates it again.  `ReadyInv` carries `ReadyExplained`: every ConfigMap in sight was written for an
incarnation that is not later than the present one, and a report of Ready, stored or about to be, is
backed by such a ConfigMap.

`PromiseKept` has one lemma per kind of step: `CreatePromise`, `DeletePromise` (a VectorData without
finalizer vanishes at once), `MaterializePromise` (from `WorkerInv` and `Removed`: data that was readable
before is never created again), `ErasePromise` (`DeleteCM` erases nothing of a VectorData whose deletion
was not requested, although it goes by name), `ReleasePromise` (nothing is readable when the finalizer
goes), `PatchPromise` and `Stutter` for everything else.

### Stage route and Gateway

The state falls into four parts, each with an invariant of its own.

- `GatewayInv`: a copy of the Gateway is of an earlier incarnation, or equal to the stored one in label
  and request, and in addresses once there are any; a labelled one was provisioned by the orchestrator; a call that
  returned "exposed" did so for an incarnation that is gone.  `ExposedIsDeleted` and
  `FirstAdminGatewayKept` follow.  `Moves` says what a write may do, so that each action is looked at once.
- `VouchInv`: every incarnation that the call, the worker or the stored route relies on as ready is
  cluster-routable for as long as it is stored.  `RoutesWithheld` follows.
- `StageInv`: `StageCopy` orders the Stages in sight (deletion is final, a live Stage keeps the route's
  finalizer, a deleting one gains none, activations ascend).  A reconcile past ensureStageFinalizer
  relies on the finalizer, the cleanup on a copy that was being deleted.  `NotSuperseded` remembers that
  some version between the one the reconcile started from and the present one let it pass `Check`;
  `VersionInv` says what the informer of StageVersions held at that start and can still come to hold.
- `CondInv`: an execution that has failed is not being worked on, and if it is queued, every copy of its
  conditions shows the failure; except where an answer was lost.

`EarnedInv` builds on them for `SucceededIsEarned`: every route in sight was applied, and every success in
sight (in the conditions, their copies and a reconcile's locals) is earned, which no step takes back
(`EarnedStays`).  `OlderSkipped` is the case of isSuperseded: it reads a Stage that lags behind, so that
what it finds active is not newer than what is recorded, and creation times follow the order of creation.

Proving `SupersededSkipped` showed that it was stated too strongly for more than two executions: with three,
the version that was active at the start may be kept while a later active one is pruned, and isSuperseded
then lets the execution pass.  The property now says "as long as the informer holds the versions active since then".

### TaskExecution, service, Flux deployers

`JobsInv`: while no Job has expired, a reconcile that could still create one (it is at its list or create
step, or queued, with an empty cache) finds at most as many Jobs as answers were lost; after a
successful creation nothing reconciles again before the cache shows a Job.  `VerdictInv`: every copy of
the Jobs is truthful about ends, every copy of the conditions is explained by them.

`FreshInv`: after the first sync, the versions on the watch rise and lead from the informer's to the
stored one, and a version that is cached, or loaded and about to be, is the informer's or still on the
watch, so that its invalidation is to come; unless one of the two races has happened.  `ErrorsSent`
counts the errors in the channel by the goroutines that failed.

`IInv` of `FluxDeploymentProofs`: every status in sight is `Sound` (not Stalled and Ready together, no
results beside Stalled unless a patch was torn, and nothing reported that Flux has not earned), and so is the one a reconcile is computing; every copy of a
Flux object is one that Flux has reported on if it says so.  That both updaters, the mapping of
conditions and the merge patch keep a status sound are lemmas about those operators.

### DeploymentResults

`IInv` follows the data: what a deployment has published has distinct names and routable ports
(`Published`), a vector is made of such results and of the other deployers' (`FromStar`), the route is a
value of `buildRouteRules`, the ConfigMap one of `renderData`, a client holds the flags of the
ConfigMap it was answered from.  The theorems then are about the pure functions, for vectors and names
of any size:

- `BuiltRules` (one rule per exposed result, sorted), `RulesExist` (an order by name exists for any finite
  set of results: `SortedListing`) and `StrictOrder` (a strictly sorted list is determined by its
  elements), which gives `RouteIsStable`;
- `MappedResults` and `PublishedAccepted` from annotated Services to what consumers accept;
- `NameInKey` and `ServedBack` from a component name to its key and back.

`SortedListing` and `StrictBeginning` are inductions on a number.  The library's induction theorems take an
operator as a parameter, which the provers cannot instantiate; `LeastNumber` (a nonempty set of
natural numbers has a least element, from the well-foundedness of `<`) takes a set, and the least
counterexample is refuted instead.

### Only model-checked

- All liveness properties (`EventuallyMaterialized`, `DeletionCompletes`, `ExecutionSettles`,
  `CleanupCompletes`, `TaskSettles`, `WaitingIsAnswered`, `FailureEndsProcess`, `StatusConverges`):
  fairness and ENABLED are out of this prover's reach.
- The properties of the findings, which the code does not have.

## 6. Plan

What remains, in order:

1. Composition of `Materialization` and `VectorDataService`: what a client of the service sees of a
   VectorData, with the controller replaced by its promise.
2. What `SanitizeK8sResourceName` computes (it is idempotent, and the identity on DNS labels), as
   theorems.
3. ConfigMaps that are deleted or changed by hand.
4. `boundedJobName` and `buildKustomizationNameSuffix` over bounded names.

## 7. Not modelled

- Names that are used again for a Stage, an execution or a TaskExecution (see the assumptions in
  section 2).
- HTTP: the answer that is the whole configuration, refusals of malformed requests, routing of requests, headers other than the ETag, encoding of responses and their messages.
- Parsing of OCI and chart URLs, `isInsecure`, the suffix of a Kustomization's name and the names of
  Jobs: pure functions on strings of which only acceptance matters to the models.
- How the settings of a registry are found (labels, ConfigMap, Secrets): `FluxDeployment` has the
  outcomes, not the lookups.
- The landscape client: only its local case is in use, and it returns the manager's client.
- Deployment target validation, a stateless check called by a library.
- Command lines, registration with the manager, metrics, generated mocks and type declarations, which
  have no behaviour of their own.
