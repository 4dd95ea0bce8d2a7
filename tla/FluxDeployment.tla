--------------------------- MODULE FluxDeployment ---------------------------
(***************************************************************************)
(* The Helm and Kustomize ArtifactDeployment controllers                   *)
(* (internal/fluxdeployer): they turn an ArtifactDeployment into Flux      *)
(* objects, and the state of those and of the deployed Services into the   *)
(* status of the ArtifactDeployment.                                       *)
(*                                                                         *)
(* One ArtifactDeployment, of either artifact type.  Its Flux objects are  *)
(* a source (OCIRepository or HelmRepository) and a workload               *)
(* (Kustomization or HelmRelease); Flux derives a HelmChart from a         *)
(* HelmRelease.  A Flux object is the generation it was written for and    *)
(* what Flux reports of it, which may be about an earlier generation.      *)
(***************************************************************************)
EXTENDS Naturals, Sequences

CONSTANTS
    Scenarios        \* the scenarios to look at, see Scenario

VARIABLES
    kind,                           \* the artifact type
    resources,                      \* what each generation of the spec holds
    dep, depWatch, depCache,        \* the ArtifactDeployment
    source, sourceWatch, sourceCache,
    work, workWatch, workCache,     \* the workload
    chart,                          \* whether the HelmChart is ready, as the informer holds it
    services,                       \* the Services, as the informer holds them
    registry,                       \* labels, settings and Secrets for the registry
    target,                         \* the DeploymentTarget, as the informer holds it
    worker, queued,                 \* the reconcile in progress, and the queue
    fetched, earned,                \* history: Flux reported a source, a workload as good
    torn,                           \* history: see Tears
    left                            \* what is left of the budget

specVars == <<kind, resources>>
depVars == <<dep, depWatch, depCache, torn>>
sourceVars == <<source, sourceWatch, sourceCache>>
workloadVars == <<work, workWatch, workCache>>
fluxVars == <<chart, fetched, earned>>
outsideVars == <<services, registry, target>>
workerVars == <<worker, queued>>
vars == <<specVars, depVars, sourceVars, workloadVars, fluxVars, outsideVars, workerVars,
          left>>

Generations == 1..Len(resources)

\* Conditions: those copied from Flux, and those of the status updaters.
Types == {"Fetched", "Deployed", "Healthy", "ResultCreated", "Ready", "Stalled"}
Statuses == {"absent", "True", "False"}

\* The spec holds one resource of the artifact type, several, or none that
\* the mapper accepts.
Matches == {"one", "many", "none"}

\* The Services of the deployment, which are found by its name and may be there
\* before it: none or some that have a result name, a port that cannot be
\* exposed, or a name used twice (module DeploymentResults has the details).
Results == {"none", "some"}
ServiceStates == Results \cup {"unexposable", "duplicate"}

\* Access to the registry is skipped by a label, there is a Secret by the
\* settings or by the name of the host, there is none, or the lookup fails.
RegistryStates == {"skipAuth", "configured", "hostSecret", "anonymous", "unresolvable"}

\* No DeploymentTarget is ready, one is, without or with a kubeconfig Secret,
\* or its parameters are something else.
TargetStates == {"absent", "local", "remote", "invalid"}

\* Reports of Flux, changes of Services, changes of registry or target, and
\* faults: API calls that fail or lose their answer, and restarts.
Happenings == {"reports", "services", "settings", "faults"}

\* What there is at first, what the generations of the spec hold in turn, and
\* the bounds: how often each of Happenings may happen.
Scenario == [kind: {"Helm", "Kustomize"}, resources: Seq(Matches) \ {<< >>},
             services: ServiceStates, registry: RegistryStates, target: TargetStates,
             left: [Happenings -> Nat]]

ASSUME ScenarioAssumption == \A s \in Scenarios : s \in Scenario

\* The spec of a Flux object refers to a Secret or to none; "error" is the
\* outcome of a failed lookup.
References == {"none", "secret", "host secret"}

\* A condition has a value and the generation it was set for.
Condition == [value: Statuses, observed: 0..Len(resources)]
NoCondition == [value |-> "absent", observed |-> 0]

Status == [cond: [Types -> Condition], results: Results]
NoStatus == [cond |-> [t \in Types |-> NoCondition], results |-> "none"]

Object == [gen: 0..Len(resources), ref: References, ready: Statuses, healthy: Statuses]
NoObject == [gen |-> 0, ref |-> "none", ready |-> "absent", healthy |-> "absent"]

Deployment == [gen: Generations, status: Status]
NewDeployment == [gen |-> 1, status |-> NoStatus]

\* A reconcile: its next step, the copy it started from, the status it wants
\* to store and the HelmRelease it holds.
Reconcile == [pc: {"idle", "source", "work", "chart", "results", "patch"},
              copy: Deployment, wanted: Status, release: Object]
Idle == [pc |-> "idle", copy |-> NewDeployment, wanted |-> NoStatus, release |-> NoObject]

TypeOK ==
    /\ \E s \in Scenarios : kind = s.kind /\ resources = s.resources
    /\ dep \in Deployment /\ depWatch \in Seq(Deployment) /\ depCache \in Deployment
    /\ source \in Object /\ sourceWatch \in Seq(Object) /\ sourceCache \in Object
    /\ work \in Object /\ workWatch \in Seq(Object) /\ workCache \in Object
    /\ chart \in Statuses /\ services \in ServiceStates
    /\ worker \in Reconcile /\ queued \in BOOLEAN
    /\ fetched \in BOOLEAN /\ earned \in BOOLEAN /\ torn \in BOOLEAN
    /\ registry \in RegistryStates /\ target \in TargetStates
    /\ left \in [Happenings -> Nat]

Init ==
    /\ \E s \in Scenarios :
         /\ kind = s.kind /\ resources = s.resources
         /\ services = s.services /\ registry = s.registry /\ target = s.target
         /\ left = s.left
    /\ dep = NewDeployment /\ depWatch = << >> /\ depCache = NewDeployment
    /\ source = NoObject /\ sourceWatch = << >> /\ sourceCache = NoObject
    /\ work = NoObject /\ workWatch = << >> /\ workCache = NoObject
    /\ chart = "absent"
    /\ worker = Idle /\ queued = TRUE
    /\ fetched = FALSE /\ earned = FALSE /\ torn = FALSE

-----------------------------------------------------------------------------
(* The API server, Star, Flux and the informers                            *)

Emit(watch, old, new) == IF new = old THEN watch ELSE Append(watch, new)

Happens(h) == left[h] > 0 /\ left' = [left EXCEPT ![h] = @ - 1]

\* The caller sees an error although the API server refused nothing.
Fault == Happens("faults")

WriteDep(new) == dep' = new /\ depWatch' = Emit(depWatch, dep, new)
WriteSource(new) == source' = new /\ sourceWatch' = Emit(sourceWatch, source, new)
WriteWork(new) == work' = new /\ workWatch' = Emit(workWatch, work, new)

EditSpec ==
    /\ dep.gen + 1 \in Generations
    /\ WriteDep([dep EXCEPT !.gen = @ + 1])
    /\ UNCHANGED <<specVars, depCache, torn, sourceVars, workloadVars, fluxVars, outsideVars,
                   workerVars, left>>

\* The source controller has fetched the artifact of an OCIRepository, or has
\* failed to.
FluxSource ==
    /\ kind = "Kustomize" /\ source.gen # 0 /\ Happens("reports")
    /\ \E ready \in {"True", "False"} \ {source.ready} :
         /\ WriteSource([source EXCEPT !.ready = ready])
         /\ fetched' = (fetched \/ ready = "True")
    /\ UNCHANGED <<specVars, depVars, sourceCache, workloadVars, chart, earned, outsideVars,
                   workerVars>>

\* The same for the HelmChart that Flux derives from a HelmRelease.  Its owner
\* is not the ArtifactDeployment, so that it does not trigger a reconcile.
FluxChart ==
    /\ kind = "Helm" /\ work.gen # 0 /\ Happens("reports")
    /\ chart' \in {"True", "False"} \ {chart}
    /\ fetched' = (fetched \/ chart' = "True")
    /\ UNCHANGED <<specVars, depVars, sourceVars, workloadVars, earned, outsideVars, workerVars>>

\* Flux has applied the workload or has failed to.  A Ready one is Healthy, or
\* Released, too.
FluxWork ==
    /\ work.gen # 0 /\ Happens("reports")
    /\ \E ready, healthy \in {"True", "False"} :
         /\ ready = "True" => healthy = "True"
         /\ <<ready, healthy>> # <<work.ready, work.healthy>>
         /\ WriteWork([work EXCEPT !.ready = ready, !.healthy = healthy])
         /\ earned' = (earned \/ ready = "True")
    /\ UNCHANGED <<specVars, depVars, sourceVars, workCache, chart, fetched, outsideVars,
                   workerVars>>

\* Nothing watches the Services, nor what belongs to the registry.
ChangeServices ==
    /\ Happens("services")
    /\ services' \in ServiceStates \ {services}
    /\ UNCHANGED <<specVars, depVars, sourceVars, workloadVars, fluxVars, workerVars, registry,
                   target>>

ChangeRegistry ==
    /\ Happens("settings")
    /\ registry' \in RegistryStates \ {registry}
    /\ UNCHANGED <<specVars, depVars, sourceVars, workloadVars, fluxVars, workerVars, services,
                   target>>

\* A DeploymentTarget queues the ArtifactDeployments of its artifact type.
ChangeTarget ==
    /\ Happens("settings")
    /\ target' \in TargetStates \ {target}
    /\ queued' = TRUE
    /\ UNCHANGED <<specVars, depVars, sourceVars, workloadVars, fluxVars, worker, services,
                   registry>>

\* An event of the ArtifactDeployment counts if its generation changed.
DeliverDep ==
    /\ depWatch # << >>
    /\ depCache' = Head(depWatch) /\ depWatch' = Tail(depWatch)
    /\ queued' = (queued \/ depCache'.gen # depCache.gen)
    /\ UNCHANGED <<specVars, dep, torn, sourceVars, workloadVars, fluxVars, outsideVars, worker,
                   left>>

DeliverSource ==
    /\ sourceWatch # << >>
    /\ sourceCache' = Head(sourceWatch) /\ sourceWatch' = Tail(sourceWatch)
    /\ queued' = TRUE
    /\ UNCHANGED <<specVars, depVars, source, workloadVars, fluxVars, outsideVars, worker, left>>

DeliverWork ==
    /\ workWatch # << >>
    /\ workCache' = Head(workWatch) /\ workWatch' = Tail(workWatch)
    /\ queued' = TRUE
    /\ UNCHANGED <<specVars, depVars, sourceVars, work, fluxVars, outsideVars, worker, left>>

-----------------------------------------------------------------------------
(* The status                                                              *)

\* meta.SetStatusCondition, with the generation that was observed.
SetCond(status, type, value, gen) ==
    [status EXCEPT !.cond[type] = [value |-> value, observed |-> gen]]

IsStatusConditionTrue(status, type) == status.cond[type].value = "True"

\* A condition that Flux has not set is not copied.
CopyCond(status, type, value, gen) ==
    IF value = "absent" THEN status ELSE SetCond(status, type, value, gen)

mapStatusConditionsFromWorkload(status, object, gen) ==
    CopyCond(CopyCond(status, "Deployed", object.ready, gen), "Healthy", object.healthy, gen)

\* Faulty variant: the results of before stay.
setExposureValidationFailure_KeepsResults(status, gen) ==
    SetCond(SetCond(SetCond(status, "ResultCreated", "False", gen),
                    "Ready", "False", gen), "Stalled", "True", gen)

setExposureValidationFailure(status, gen) ==
    [SetCond(SetCond(SetCond(status, "ResultCreated", "False", gen),
                     "Ready", "False", gen), "Stalled", "True", gen)
        EXCEPT !.results = "none"]

\* Faulty variant: two Services with the same result name are not rejected.
mutateResults_AllowsDuplicate(status, gen) ==
    IF IsStatusConditionTrue(status, "Stalled") \/ ~IsStatusConditionTrue(status, "Deployed")
    THEN status
    ELSE IF services = "unexposable" THEN setExposureValidationFailure(status, gen)
    ELSE [SetCond(status, "ResultCreated", "True", gen) EXCEPT !.results = services]

\* DeploymentResultStatusUpdater: an exposure failure is not looked at again,
\* a name that is used twice leaves everything as it is.
mutateResults(status, gen) ==
    IF IsStatusConditionTrue(status, "Stalled") \/ ~IsStatusConditionTrue(status, "Deployed")
    THEN status
    ELSE IF services = "unexposable" THEN setExposureValidationFailure(status, gen)
    ELSE IF services = "duplicate" THEN status
    ELSE [SetCond(status, "ResultCreated", "True", gen) EXCEPT !.results = services]

\* Faulty variants: Stalled, or the health of the workload, is not looked at.
mutateReady_IgnoresStalled(status, gen) ==
    IF IsStatusConditionTrue(status, "Healthy")
    THEN SetCond(status, "Ready", "True", gen) ELSE status

mutateReady_IgnoresHealth(status, gen) ==
    IF ~IsStatusConditionTrue(status, "Stalled") /\ IsStatusConditionTrue(status, "Fetched")
    THEN SetCond(status, "Ready", "True", gen) ELSE status

\* ReadyConditionStatusUpdater: Ready is never taken back here.
mutateReady(status, gen) ==
    IF /\ ~IsStatusConditionTrue(status, "Stalled")
       /\ IsStatusConditionTrue(status, "Healthy")
       /\ IsStatusConditionTrue(status, "ResultCreated")
    THEN SetCond(status, "Ready", "True", gen) ELSE status

-----------------------------------------------------------------------------
(* Reconcile of the controller of the artifact type                        *)

\* Start from the cached copy; several resources of the type are refused.
Start ==
    LET copy == depCache
        refused == SetCond(copy.status, "Ready", "False", copy.gen) IN
    /\ worker.pc = "idle" /\ queued
    /\ queued' = FALSE
    /\ \/ /\ resources[copy.gen] = "many"
          /\ worker' = [Idle EXCEPT !.pc = "patch", !.copy = copy, !.wanted = refused]
       \/ /\ resources[copy.gen] = "one"
          /\ worker' = [Idle EXCEPT !.pc = "source", !.copy = copy, !.wanted = copy.status]
       \/ /\ resources[copy.gen] = "none"
          /\ worker' = [Idle EXCEPT !.pc = "results", !.copy = copy, !.wanted = copy.status]
    /\ UNCHANGED <<specVars, depVars, sourceVars, workloadVars, fluxVars, outsideVars, left>>

getSecretRef(state) ==
    CASE state \in {"skipAuth", "anonymous"} -> "none"
      [] state = "configured" -> "secret"
      [] state = "hostSecret" -> "host secret"
      [] state = "unresolvable" -> "error"

GetKubeConfigRef(state) ==
    CASE state = "local" -> "none"
      [] state = "remote" -> "secret"
      [] state \in {"absent", "invalid"} -> "error"

\* An error is logged, and the status is determined all the same.
Skip == worker' = [worker EXCEPT !.pc = "results", !.release = NoObject] /\ UNCHANGED queued

\* CreateOrUpdate of an object with the reference ref: creates one that the
\* informer does not hold, leaves one alone whose spec is as wanted, updates
\* another if the informer's copy is the stored one.
CreateOrUpdate(stored, watch, cached, ref, Write(_), Done(_)) ==
    LET gen == worker.copy.gen
        new == [stored EXCEPT !.gen = gen, !.ref = ref]
        same == cached.gen = gen /\ cached.ref = ref
        accepted == IF cached.gen = 0 THEN stored.gen = 0 ELSE watch = << >> IN
    \/ ref = "error" /\ Write(stored) /\ Skip /\ UNCHANGED left
    \/ ref # "error" /\ same /\ Write(stored) /\ Done(cached) /\ UNCHANGED left
    \/ /\ ref # "error" /\ ~same /\ accepted
       /\ Write(new)
       /\ (Done(new) /\ UNCHANGED left) \/ (Fault /\ Skip)
    \/ ref # "error" /\ ~same /\ ~accepted /\ Write(stored) /\ Skip /\ UNCHANGED left
    \/ Fault /\ Write(stored) /\ Skip

\* Faulty variant: the Kustomization does not wait for its source.
OCIRepositoryReconciled_NeverWaits(object) ==
    /\ worker' = [worker EXCEPT !.pc = "work",
                    !.wanted = CopyCond(@, "Fetched", object.ready, worker.copy.gen)]
    /\ UNCHANGED queued

\* A Kustomization waits until its OCIRepository is ready.
OCIRepositoryReconciled(object) ==
    /\ worker' = [worker EXCEPT
                    !.pc = IF object.ready = "True" THEN "work" ELSE "results",
                    !.wanted = CopyCond(@, "Fetched", object.ready, worker.copy.gen)]
    /\ UNCHANGED queued

ReconcileOCIRepository ==
    /\ worker.pc = "source" /\ kind = "Kustomize"
    /\ CreateOrUpdate(source, sourceWatch, sourceCache, getSecretRef(registry), WriteSource,
                      OCIRepositoryReconciled)
    /\ UNCHANGED <<specVars, depVars, sourceCache, workloadVars, fluxVars, outsideVars>>

\* A HelmRepository has no conditions to copy.
HelmRepositoryReconciled(object) == worker' = [worker EXCEPT !.pc = "work"] /\ UNCHANGED queued

ReconcileHelmRepository ==
    /\ worker.pc = "source" /\ kind = "Helm"
    /\ CreateOrUpdate(source, sourceWatch, sourceCache, getSecretRef(registry), WriteSource,
                      HelmRepositoryReconciled)
    /\ UNCHANGED <<specVars, depVars, sourceCache, workloadVars, fluxVars, outsideVars>>

KustomizationReconciled(object) ==
    /\ worker' = [worker EXCEPT !.pc = "results",
                    !.wanted = mapStatusConditionsFromWorkload(@, object, worker.copy.gen)]
    /\ UNCHANGED queued

ReconcileKustomization ==
    /\ worker.pc = "work" /\ kind = "Kustomize"
    /\ CreateOrUpdate(work, workWatch, workCache, GetKubeConfigRef(target), WriteWork,
                      KustomizationReconciled)
    /\ UNCHANGED <<specVars, depVars, sourceVars, workCache, fluxVars, outsideVars>>

\* The conditions of a HelmRelease are copied once its HelmChart is known.
HelmReleaseReconciled(object) ==
    worker' = [worker EXCEPT !.pc = "chart", !.release = object] /\ UNCHANGED queued

ReconcileHelmRelease ==
    /\ worker.pc = "work" /\ kind = "Helm"
    /\ CreateOrUpdate(work, workWatch, workCache, GetKubeConfigRef(target), WriteWork,
                      HelmReleaseReconciled)
    /\ UNCHANGED <<specVars, depVars, sourceVars, workCache, fluxVars, outsideVars>>

\* A HelmChart that is missing or cannot be read is passed over; one that is
\* not ready keeps the conditions of the HelmRelease from being copied.
GetChart ==
    LET gen == worker.copy.gen
        seen == CopyCond(worker.wanted, "Fetched", chart, gen) IN
    /\ worker.pc = "chart"
    /\ \/ /\ worker' = [worker EXCEPT !.pc = "results", !.release = NoObject,
                !.wanted = IF chart = "True"
                           THEN mapStatusConditionsFromWorkload(seen, worker.release, gen)
                           ELSE seen]
          /\ UNCHANGED <<queued, left>>
       \/ Fault /\ Skip
    /\ UNCHANGED <<specVars, depVars, sourceVars, workloadVars, fluxVars, outsideVars>>

\* Both status updaters; a List that fails is logged.
UpdateStatus ==
    LET gen == worker.copy.gen IN
    /\ worker.pc = "results"
    /\ \/ /\ worker' = [worker EXCEPT !.pc = "patch",
                          !.wanted = mutateReady(mutateResults(@, gen), gen)]
          /\ UNCHANGED left
       \/ /\ Fault
          /\ worker' = [worker EXCEPT !.pc = "patch", !.wanted = mutateReady(@, gen)]
    /\ UNCHANGED <<specVars, depVars, sourceVars, workloadVars, fluxVars, outsideVars, queued>>

\* What a merge patch makes of the stored status: of the list of conditions
\* and the list of results, those that differ from the copy are replaced.
Merged(stored, copy, wanted) ==
    [cond |-> IF wanted.cond # copy.cond THEN wanted.cond ELSE stored.cond,
     results |-> IF wanted.results # copy.results THEN wanted.results ELSE stored.results]

\* The patch replaces one of the lists, and the other one is stored in another
\* form than the copy has it: what is stored then was never computed.
Tears(stored, copy, wanted) ==
    \/ wanted.cond # copy.cond /\ wanted.results = copy.results /\ copy.results # stored.results
    \/ wanted.cond = copy.cond /\ wanted.results # copy.results /\ copy.cond # stored.cond

\* Faulty variant: the end of a reconcile does not ask for another one.
PatchStatus_NoRequeue ==
    /\ worker.pc = "patch"
    /\ WriteDep([dep EXCEPT !.status = Merged(@, worker.copy.status, worker.wanted)])
    /\ torn' = (torn \/ Tears(dep.status, worker.copy.status, worker.wanted))
    /\ worker' = Idle /\ UNCHANGED queued
    /\ UNCHANGED <<specVars, depCache, sourceVars, workloadVars, fluxVars, outsideVars, left>>

\* The end of Reconcile asks for another one, in a minute or after an error.
PatchStatus ==
    /\ worker.pc = "patch"
    /\ \/ /\ WriteDep([dep EXCEPT !.status = Merged(@, worker.copy.status, worker.wanted)])
          /\ torn' = (torn \/ Tears(dep.status, worker.copy.status, worker.wanted))
          /\ UNCHANGED left \/ (worker.wanted # worker.copy.status /\ Fault)
       \/ /\ worker.wanted # worker.copy.status
          /\ Fault /\ UNCHANGED <<dep, depWatch, torn>>
    /\ worker' = Idle /\ queued' = TRUE
    /\ UNCHANGED <<specVars, depCache, sourceVars, workloadVars, fluxVars, outsideVars>>

\* The process is replaced: the reconcile is lost, the caches are listed afresh.
Restart ==
    /\ Fault
    /\ worker' = Idle /\ queued' = TRUE
    /\ depCache' = dep /\ depWatch' = << >>
    /\ sourceCache' = source /\ sourceWatch' = << >>
    /\ workCache' = work /\ workWatch' = << >>
    /\ UNCHANGED <<specVars, dep, torn, source, work, fluxVars, outsideVars>>

-----------------------------------------------------------------------------
Step == \/ Start \/ ReconcileOCIRepository \/ ReconcileHelmRepository
        \/ ReconcileKustomization \/ ReconcileHelmRelease \/ GetChart
        \/ UpdateStatus \/ PatchStatus

Environment == \/ EditSpec \/ FluxSource \/ FluxChart \/ FluxWork
               \/ ChangeServices \/ ChangeRegistry \/ ChangeTarget

Next == \/ Environment \/ DeliverDep \/ DeliverSource \/ DeliverWork
        \/ Step \/ Restart

Spec == Init /\ [][Next]_vars

\* The queue hands out its key and watches deliver; Star, Flux, the users of
\* Services and faults owe nothing.
Fairness == WF_vars(DeliverDep) /\ WF_vars(DeliverSource) /\ WF_vars(DeliverWork) /\ WF_vars(Step)

FairSpec == Spec /\ Fairness

-----------------------------------------------------------------------------
(* Properties                                                              *)

Cond(type) == dep.status.cond[type].value

\* An exposure failure (Stalled) and Ready=True are never stored together,
\* whatever stale copy a patch was computed from.
StalledNotReady == Cond("Stalled") = "True" => Cond("Ready") # "True"

\* Ready=True is only reported after Flux has fetched the artifact and has
\* applied a workload successfully.
ReadyEarned == Cond("Ready") = "True" => fetched /\ earned

\* A Kustomization is not written before its OCIRepository was ready once.
WorkAfterFetch == kind = "Kustomize" /\ work.gen # 0 => fetched

\* An exposure failure rejects all results, at once and for as long as it is
\* reported.  Results stand beside Stalled only after a torn patch: one that
\* stores Stalled and, from a copy that lacks them, leaves the stored results
\* alone, or one that stores results beside a Stalled its copy does not show.
StalledRejectsResults ==
    Cond("Stalled") = "True" /\ dep.status.results # "none" => torn

\* The status agrees with Flux and the Services: results are those of the
\* Services, a port that cannot be exposed is reported, also if a patch from a
\* stale copy has dropped an earlier report of it, and Ready follows from its
\* parts.  A report of it stays when the Services have changed: mutateResults
\* does not look at them again.
StatusAgrees ==
    LET live == Cond("Stalled") # "True" IN
    /\ live /\ Cond("Deployed") = "True" /\ services \in Results
          => Cond("ResultCreated") = "True" /\ dep.status.results = services
    /\ Cond("Deployed") = "True" /\ services = "unexposable" => ~live
    /\ ~live => Cond("ResultCreated") = "False" /\ Cond("Ready") = "False"
    /\ live /\ Cond("Healthy") = "True" /\ Cond("ResultCreated") = "True"
          => Cond("Ready") = "True"

\* The Flux objects agree with the spec, the registry and the target, as far as
\* these can be resolved, and the report on the workload is copied.
ObjectsAgree ==
    LET secretRef == getSecretRef(registry)
        kubeConfig == GetKubeConfigRef(target) IN
    secretRef # "error" =>
        /\ source.gen = dep.gen /\ source.ref = secretRef
        /\ kubeConfig # "error" /\ (kind = "Kustomize" => source.ready = "True")
              => /\ work.gen = dep.gen /\ work.ref = kubeConfig
                 /\ work.ready # "absent" /\ (kind = "Helm" => chart = "True")
                       => Cond("Deployed") = work.ready

Converged ==
    /\ resources[dep.gen] # "many" => StatusAgrees
    /\ resources[dep.gen] = "one" => ObjectsAgree

\* When nothing changes any more, the Flux objects come to agree with the spec
\* and the status with them: also with Services and Secrets, which are not
\* watched, and after lost answers, conflicts and restarts.
StatusConverges == <>[]Converged

=============================================================================
