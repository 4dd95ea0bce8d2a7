----------------------------- MODULE StageRoute -----------------------------
(***************************************************************************)
(* The per-stage HTTPRoute and the two controllers that share it: the      *)
(* ActivationTaskExecution controller points the route at the vector an    *)
(* execution activates, the stage route cleanup controller removes it when *)
(* the Stage is deleted.  They run concurrently, one reconcile each.       *)
(*                                                                         *)
(* One Stage, with executions 1..N that activate its StageVersions 1..N in *)
(* the order of their creation.  The route is the execution whose rules it *)
(* holds.  The Gateway the route attaches to is the module RouterGateway.  *)
(***************************************************************************)
EXTENDS RouterGateway

CONSTANTS
    Landscapes      \* the landscapes to look at, see Landscape

Executions == Callers
NoRoute == 0

\* buildRouteRules finds rules or none, or the configuration or the results
\* are invalid.
Plans == {"rules", "no rules", "invalid"}

Finalizers == {"route", "foreign"}

\* A landscape, its users included:
\*   provisions  the registration names a GatewayClass and no Gateway,
\*   finalizers  what the Stage carries at first,
\*   foreign     others add a finalizer of theirs, once,
\*   plan        what the inputs of each execution amount to,
\*   seconds     the creation second of each StageVersion,
\*   lagging     the StageVersions whose creation the informer may see late,
\*   prunable    the StageVersions that others may delete,
\*   deletable   the Stage may be deleted,
\*   oneAtATime  Star awaits an execution's end before it creates the next,
\*   gateways    how often a Gateway may be created, and
\*   faults      how many faults happen at most: the bounds.
Landscape == [provisions: BOOLEAN, finalizers: SUBSET Finalizers, foreign: BOOLEAN,
              plan: UNION {[1..n -> Plans] : n \in Executions}, seconds: [Executions -> Nat],
              lagging: SUBSET Executions, prunable: SUBSET Executions, deletable: BOOLEAN,
              oneAtATime: BOOLEAN, gateways: GatewayUids, faults: Nat]

ASSUME ExecutionAssumption == \E n \in Executions : Executions = 1..n

ASSUME LandscapeAssumption ==
    \A l \in Landscapes :
        /\ l \in Landscape
        /\ \A d, e \in Executions : d < e => l.seconds[d] <= l.seconds[e]

VARIABLES
    landscape,                       \* the landscape at hand, which stays
    stage, stageWatch, stageCache,   \* the Stage, its watch and its informer
    route, routeWatch, routeCache,   \* the same for the HTTPRoute
    cond, condWatch, condCache,      \* conditions of each execution that are True
    created,                         \* the number of executions that exist
    versions,                        \* the StageVersions the informer holds
    unseen,                          \* those it has not seen yet
    added,                           \* the foreign finalizer has been added
    worker, queue,                   \* the execution controller and its queue
    cleaner, cleanerQueued,          \* the cleanup controller and its queue
    checked,                         \* history: the Gateway found ready for the route
    unanswered,                      \* history: executions with a lost answer to a status patch
    applied,                         \* history: executions whose plan the route has followed
    blind                            \* history: executions skipped without their version

stageVars == <<stage, stageWatch, stageCache>>
routeVars == <<route, routeWatch, routeCache>>
condVars == <<cond, condWatch, condCache>>
envVars == <<landscape, created, versions, unseen, added>>
workVars == <<worker, queue>>
cleanVars == <<cleaner, cleanerQueued>>
histVars == <<checked, unanswered, applied, blind>>
vars == <<gatewayVars, stageVars, routeVars, condVars, envVars, workVars,
          cleanVars, histVars>>

Stage == [phase: {"live", "deleting", "gone"}, finalizers: SUBSET Finalizers,
          active: Executions \cup {0}]
Routes == Executions \cup {NoRoute}
Conditions == SUBSET {"InProgress", "Succeeded", "Failed"}

\* A reconcile: its next step, its execution, the conditions it started from
\* and wants to store, the finalizers of the Stage it read, the route it read
\* and whether that copy was the stored one.  History: the active version and
\* the StageVersions the informers held when it started, and the Gateway that
\* ensureRouterGateway found ready.
Reconcile == [pc: {"idle", "check", "getStage", "patchStage", "gateway", "gatewayCall",
                   "getRoute", "writeRoute", "deleteRoute", "status"},
              exec: Executions \cup {0}, original: Conditions, wanted: Conditions,
              finalizers: SUBSET Finalizers, route: Routes, current: BOOLEAN,
              floor: Executions \cup {0}, known: SUBSET Executions, gateway: GatewayUids]
Idle == [pc |-> "idle", exec |-> 0, original |-> {}, wanted |-> {},
         finalizers |-> {}, route |-> NoRoute, current |-> FALSE, floor |-> 0,
         known |-> {}, gateway |-> 0]

CleanIdle == [pc |-> "idle", finalizers |-> {}]

TypeOK ==
    /\ GatewayTypeOK
    /\ stage \in Stage /\ stageWatch \in Seq(Stage) /\ stageCache \in Stage
    /\ route \in Routes /\ routeWatch \in Seq(Routes) /\ routeCache \in Routes
    /\ cond \in [Executions -> Conditions]
    /\ condWatch \in [Executions -> Seq(Conditions)]
    /\ condCache \in [Executions -> Conditions]
    /\ created \in Executions \cup {0}
    /\ landscape \in Landscapes
    /\ versions \subseteq Executions /\ unseen \subseteq Executions /\ added \in BOOLEAN
    /\ worker \in Reconcile
    /\ queue \subseteq Executions
    /\ cleaner \in [pc: {"idle", "deleteRoute", "release"}, finalizers: SUBSET Finalizers]
    /\ cleanerQueued \in BOOLEAN
    /\ checked \in GatewayUids /\ unanswered \subseteq Executions
    /\ applied \subseteq Executions /\ blind \subseteq Executions

NewStage(l) == [phase |-> "live", finalizers |-> l.finalizers, active |-> 0]

Init ==
    /\ landscape \in Landscapes
    /\ GatewayInit(landscape.gateways, landscape.faults) /\ (landscape.provisions \/ gatewayClass)
    /\ stage = NewStage(landscape) /\ stageWatch = << >> /\ stageCache = stage
    /\ route = NoRoute /\ routeWatch = << >> /\ routeCache = NoRoute
    /\ cond = [e \in Executions |-> {}]
    /\ condWatch = [e \in Executions |-> << >>]
    /\ condCache = [e \in Executions |-> {}]
    /\ created = 0 /\ versions = {} /\ unseen = {} /\ added = FALSE
    /\ worker = Idle /\ queue = {}
    /\ cleaner = CleanIdle /\ cleanerQueued = TRUE
    /\ checked = 0 /\ unanswered = {} /\ applied = {} /\ blind = {}

-----------------------------------------------------------------------------
(* The API server: a write that changes an object emits one watch event.   *)

Emit(watch, old, new) == IF new = old THEN watch ELSE Append(watch, new)

WriteStage(new) == stage' = new /\ stageWatch' = Emit(stageWatch, stage, new)

WriteRoute(new) == route' = new /\ routeWatch' = Emit(routeWatch, route, new)

WriteCond(e, new) ==
    /\ cond' = [cond EXCEPT ![e] = new]
    /\ condWatch' = [condWatch EXCEPT ![e] = Emit(@, cond[e], new)]

\* The Stage with a new list of finalizers: one that is being deleted goes
\* away without any.
WithFinalizers(o, finalizers) ==
    [o EXCEPT !.finalizers = finalizers,
              !.phase = IF @ = "deleting" /\ finalizers = {} THEN "gone" ELSE @]

\* A patch finds a stored Stage and adds no finalizer to one being deleted.
Patchable(o, finalizers) ==
    \/ o.phase = "live"
    \/ o.phase = "deleting" /\ finalizers \subseteq o.finalizers

-----------------------------------------------------------------------------
(* The users of the API: Star creates executions, records the version of a *)
(* succeeded one as active and prunes versions; Stages are deleted.        *)

\* The informer may know of an execution before it knows of its StageVersion,
\* which Star creates first: each kind has a watch of its own.
CreateExecution ==
    /\ created + 1 \in DOMAIN landscape.plan
    /\ landscape.oneAtATime /\ created > 0 => cond[created] \cap {"Succeeded", "Failed"} # {}
    /\ created' = created + 1
    /\ queue' = queue \cup {created'}
    /\ versions' = versions \cup ({created'} \ landscape.lagging)
    /\ unseen' = unseen \cup ({created'} \cap landscape.lagging)
    /\ UNCHANGED <<gatewayState, stageVars, routeVars, condVars, landscape, added,
                   worker, cleanVars, faults, histVars>>

\* Star never goes back to an earlier version.
SetActive(e) ==
    /\ stage.phase # "gone" /\ e > stage.active /\ "Succeeded" \in cond[e]
    /\ WriteStage([stage EXCEPT !.active = e])
    /\ UNCHANGED <<gatewayState, stageCache, routeVars, condVars, envVars, workVars,
                   cleanVars, faults, histVars>>

PruneVersion(e) ==
    /\ e \in versions \cap landscape.prunable
    /\ versions' = versions \ {e}
    /\ UNCHANGED <<gatewayState, stageVars, routeVars, condVars, landscape, created, unseen, added,
                   workVars, cleanVars, faults, histVars>>

DeleteStage ==
    /\ landscape.deletable /\ stage.phase = "live"
    /\ WriteStage(WithFinalizers([stage EXCEPT !.phase = "deleting"], stage.finalizers))
    /\ UNCHANGED <<gatewayState, stageCache, routeVars, condVars, envVars, workVars,
                   cleanVars, faults, histVars>>

\* Another controller adds its finalizer, by a write of its own.
AddForeign ==
    /\ landscape.foreign /\ ~added /\ stage.phase = "live"
    /\ WriteStage([stage EXCEPT !.finalizers = @ \cup {"foreign"}])
    /\ added' = TRUE
    /\ UNCHANGED <<gatewayState, stageCache, routeVars, condVars, landscape, created, versions,
                   unseen, workVars, cleanVars, faults, histVars>>

\* The owner of another finalizer is done with a Stage that is being deleted.
ReleaseForeign ==
    /\ stage.phase = "deleting" /\ "foreign" \in stage.finalizers
    /\ WriteStage(WithFinalizers(stage, stage.finalizers \ {"foreign"}))
    /\ UNCHANGED <<gatewayState, stageCache, routeVars, condVars, envVars, workVars,
                   cleanVars, faults, histVars>>

-----------------------------------------------------------------------------
(* Informers.  Every event of the Stage queues it for the cleanup; a       *)
(* status change of an execution does not queue the execution.             *)

DeliverStage ==
    /\ stageWatch # << >>
    /\ stageCache' = Head(stageWatch) /\ stageWatch' = Tail(stageWatch)
    /\ cleanerQueued' = TRUE
    /\ UNCHANGED <<gatewayState, stage, routeVars, condVars, envVars, workVars, cleaner,
                   faults, histVars>>

DeliverRoute ==
    /\ routeWatch # << >>
    /\ routeCache' = Head(routeWatch) /\ routeWatch' = Tail(routeWatch)
    /\ UNCHANGED <<gatewayState, stageVars, route, condVars, envVars, workVars, cleanVars,
                   faults, histVars>>

DeliverCond(e) ==
    /\ condWatch[e] # << >>
    /\ condCache' = [condCache EXCEPT ![e] = Head(condWatch[e])]
    /\ condWatch' = [condWatch EXCEPT ![e] = Tail(@)]
    /\ UNCHANGED <<gatewayState, stageVars, routeVars, cond, envVars, workVars, cleanVars,
                   faults, histVars>>

DeliverVersion(e) ==
    /\ e \in unseen
    /\ versions' = versions \cup {e} /\ unseen' = unseen \ {e}
    /\ UNCHANGED <<gatewayState, stageVars, routeVars, condVars, landscape, created, added,
                   workVars, cleanVars, faults, histVars>>

-----------------------------------------------------------------------------
(* How a step of a reconcile ends.                                         *)

Continue(pc) == worker' = [worker EXCEPT !.pc = pc] /\ UNCHANGED queue

Report(conditions) ==
    worker' = [worker EXCEPT !.pc = "status", !.wanted = conditions] /\ UNCHANGED queue

\* Reconcile returned an error: the queue hands the key out again.
ReturnError == worker' = Idle /\ queue' = queue \cup {worker.exec}

\* Faulty variant: a condition type nobody knows.
markSucceeded_OtherType(conditions) == (conditions \ {"InProgress"}) \cup {"Success"}

markSucceeded(conditions) == (conditions \ {"InProgress"}) \cup {"Succeeded"}

reportRouterGateway(conditions, state) ==
    IF state = "pending" THEN conditions \cup {"InProgress"}
    ELSE (conditions \ {"InProgress"}) \cup {"Failed"}

-----------------------------------------------------------------------------
(* The ActivationTaskExecution controller                                  *)

Start(e) ==
    /\ worker.pc = "idle" /\ e \in queue
    /\ queue' = queue \ {e}
    /\ worker' = IF "Failed" \in condCache[e] THEN Idle
                 ELSE [Idle EXCEPT !.pc = "check", !.exec = e, !.original = condCache[e],
                                   !.floor = stageCache.active, !.known = versions]
    /\ UNCHANGED <<gatewayState, stageVars, routeVars, condVars, envVars, cleanVars,
                   faults, histVars>>

\* Faulty variant: the comparison is the other way round.
isSuperseded_Swapped(e) ==
    LET active == stageCache.active IN
    \/ stageCache.phase = "gone"
    \/ /\ active \notin {0, e}
       /\ \/ e \notin versions
          \/ active \in versions /\ landscape.seconds[active] < landscape.seconds[e]

\* Faulty variant: a version of the same second counts as newer.
isSuperseded_SameSecond(e) ==
    LET active == stageCache.active IN
    \/ stageCache.phase = "gone"
    \/ /\ active \notin {0, e}
       /\ \/ e \notin versions
          \/ active \in versions /\ landscape.seconds[e] <= landscape.seconds[active]

\* A newer version than the execution's own is active, or its Stage is gone, or
\* the informer does not hold its version: whether that is gone or not seen yet
\* makes no difference.  An active version that is not held supersedes nothing.
isSuperseded(e) ==
    LET active == stageCache.active IN
    \/ stageCache.phase = "gone"
    \/ /\ active \notin {0, e}
       /\ \/ e \notin versions
          \/ active \in versions /\ landscape.seconds[e] < landscape.seconds[active]

Check ==
    LET e == worker.exec IN
    /\ worker.pc = "check"
    /\ \/ /\ isSuperseded(e)
          /\ Report(markSucceeded(worker.original)) /\ UNCHANGED faults
          /\ blind' = blind \cup ({e} \ versions)
       \/ /\ ~isSuperseded(e)
          /\ \/ landscape.plan[e] = "invalid" /\ ReturnError
             \/ landscape.plan[e] = "no rules" /\ Continue("deleteRoute")
             \/ landscape.plan[e] = "rules" /\ Continue("getStage")
          /\ UNCHANGED <<faults, blind>>
       \/ Fault /\ ReturnError /\ UNCHANGED blind
    /\ UNCHANGED <<gatewayState, stageVars, routeVars, condVars, envVars, cleanVars, checked,
                   unanswered, applied>>

\* No routable results: the route goes, ahead of any finalizer.
DeleteRoute ==
    /\ worker.pc = "deleteRoute"
    /\ \/ /\ WriteRoute(NoRoute) /\ applied' = applied \cup {worker.exec}
          /\ \/ Report(markSucceeded(worker.original)) /\ UNCHANGED faults
             \/ Fault /\ ReturnError
       \/ Fault /\ ReturnError /\ UNCHANGED <<route, routeWatch, applied>>
    /\ UNCHANGED <<gatewayState, stageVars, routeCache, condVars, envVars, cleanVars, checked,
                   unanswered, blind>>

\* Faulty variant: the finalizer is not added.
GetStage_NoFinalizer ==
    /\ worker.pc = "getStage"
    /\ Continue(IF landscape.provisions THEN "gateway" ELSE "getRoute")
    /\ UNCHANGED <<gatewayState, stageVars, routeVars, condVars, envVars, cleanVars,
                   faults, histVars>>

\* ensureStageFinalizer: read the Stage again, then patch its finalizers by name.
GetStage ==
    LET next == IF landscape.provisions THEN "gateway" ELSE "getRoute" IN
    /\ worker.pc = "getStage"
    /\ \/ stageCache.phase = "gone" /\ ReturnError /\ UNCHANGED faults
       \/ /\ stageCache.phase # "gone" /\ "route" \in stageCache.finalizers
          /\ Continue(next) /\ UNCHANGED faults
       \/ /\ stageCache.phase # "gone" /\ "route" \notin stageCache.finalizers
          /\ worker' = [worker EXCEPT !.pc = "patchStage", !.finalizers = stageCache.finalizers]
          /\ UNCHANGED <<queue, faults>>
       \/ Fault /\ ReturnError
    /\ UNCHANGED <<gatewayState, stageVars, routeVars, condVars, envVars, cleanVars, histVars>>

\* Faulty variant: the patch carries only the controller's own finalizer.
PatchStage_OnlyOwn ==
    /\ worker.pc = "patchStage"
    /\ Patchable(stage, {"route"})
    /\ WriteStage(WithFinalizers(stage, {"route"}))
    /\ Continue(IF landscape.provisions THEN "gateway" ELSE "getRoute")
    /\ UNCHANGED <<gatewayState, stageCache, routeVars, condVars, envVars, cleanVars,
                   faults, histVars>>

PatchStage ==
    LET finalizers == worker.finalizers \cup {"route"}
        next == IF landscape.provisions THEN "gateway" ELSE "getRoute" IN
    /\ worker.pc = "patchStage"
    /\ \/ /\ Patchable(stage, finalizers)
          /\ WriteStage(WithFinalizers(stage, finalizers))
          /\ \/ Continue(next) /\ UNCHANGED faults
             \/ Fault /\ ReturnError
       \/ /\ ~Patchable(stage, finalizers)
          /\ ReturnError /\ UNCHANGED <<stage, stageWatch, faults>>
       \/ Fault /\ ReturnError /\ UNCHANGED <<stage, stageWatch>>
    /\ UNCHANGED <<gatewayState, stageCache, routeVars, condVars, envVars, cleanVars, histVars>>

\* The call of ensureRouterGateway, and what its answer leads to.
CallGateway ==
    /\ worker.pc = "gateway"
    /\ Call(worker.exec)
    /\ Continue("gatewayCall")
    /\ UNCHANGED <<stageVars, routeVars, condVars, envVars, cleanVars, histVars>>

GatewayAnswered ==
    /\ worker.pc = "gatewayCall"
    /\ EndCall
    /\ \/ call.state = "error" /\ ReturnError
       \/ /\ call.state = "ready"
          /\ worker' = [worker EXCEPT !.pc = "getRoute", !.gateway = call.uid]
          /\ UNCHANGED queue
       \/ /\ call.state \in {"pending", "failed", "exposed"}
          /\ Report(reportRouterGateway(worker.original, call.state))
    /\ UNCHANGED <<stageVars, routeVars, condVars, envVars, cleanVars, histVars>>

\* applyStageRoute is CreateOrUpdate: a copy that already has the execution's
\* rules is left alone, an update needs the copy to be the stored one.
GetRoute ==
    /\ worker.pc = "getRoute"
    /\ \/ /\ routeCache = worker.exec
          /\ Report(markSucceeded(worker.original)) /\ UNCHANGED faults
       \/ /\ routeCache # worker.exec
          /\ worker' = [worker EXCEPT !.pc = "writeRoute", !.route = routeCache,
                                      !.current = (routeWatch = << >>)]
          /\ UNCHANGED <<queue, faults>>
       \/ Fault /\ ReturnError
    /\ UNCHANGED <<gatewayState, stageVars, routeVars, condVars, envVars, cleanVars, histVars>>

\* Faulty variant: a write that is refused ends the reconcile without an error.
ApplyRoute_IgnoresRefusal ==
    LET accepted == IF worker.route = NoRoute THEN route = NoRoute
                    ELSE worker.current /\ route # NoRoute IN
    /\ worker.pc = "writeRoute"
    /\ \/ /\ accepted
          /\ WriteRoute(worker.exec) /\ checked' = worker.gateway
          /\ applied' = applied \cup {worker.exec}
          /\ \/ Report(markSucceeded(worker.original)) /\ UNCHANGED faults
             \/ Fault /\ ReturnError
       \/ /\ ~accepted
          /\ worker' = Idle /\ UNCHANGED <<queue, route, routeWatch, checked, applied, faults>>
    /\ UNCHANGED <<gatewayState, stageVars, routeCache, condVars, envVars, cleanVars, unanswered,
                   blind>>

ApplyRoute ==
    LET accepted == IF worker.route = NoRoute THEN route = NoRoute
                    ELSE worker.current /\ route # NoRoute IN
    /\ worker.pc = "writeRoute"
    /\ \/ /\ accepted
          /\ WriteRoute(worker.exec) /\ checked' = worker.gateway
          /\ applied' = applied \cup {worker.exec}
          /\ \/ Report(markSucceeded(worker.original)) /\ UNCHANGED faults
             \/ Fault /\ ReturnError
       \/ /\ ~accepted     \* AlreadyExists, Conflict or NotFound
          /\ ReturnError /\ UNCHANGED <<route, routeWatch, checked, applied, faults>>
       \/ Fault /\ ReturnError /\ UNCHANGED <<route, routeWatch, checked, applied>>
    /\ UNCHANGED <<gatewayState, stageVars, routeCache, condVars, envVars, cleanVars, unanswered,
                   blind>>

\* Faulty variants: every execution that has not succeeded is polled, or none.
PatchStatus_PollsFailed ==
    LET e == worker.exec IN
    /\ worker.pc = "status"
    /\ WriteCond(e, worker.wanted)
    /\ worker' = Idle
    /\ queue' = IF "Succeeded" \notin worker.wanted THEN queue \cup {e} ELSE queue
    /\ UNCHANGED <<gatewayState, stageVars, routeVars, condCache, envVars, cleanVars,
                   faults, histVars>>

PatchStatus_NeverPolls ==
    /\ worker.pc = "status"
    /\ WriteCond(worker.exec, worker.wanted)
    /\ worker' = Idle
    /\ UNCHANGED <<gatewayState, stageVars, routeVars, condCache, envVars, cleanVars,
                   queue, faults, histVars>>

\* The end of Reconcile: a status patch by name, with the whole list of
\* conditions, if they changed.  A pending Gateway is polled.
PatchStatus ==
    LET e == worker.exec
        Done == /\ worker' = Idle
                /\ queue' = IF "InProgress" \in worker.wanted THEN queue \cup {e} ELSE queue IN
    /\ worker.pc = "status"
    /\ \/ /\ worker.wanted = worker.original
          /\ Done /\ UNCHANGED <<cond, condWatch, faults, unanswered>>
       \/ /\ worker.wanted # worker.original
          /\ \/ /\ WriteCond(e, worker.wanted)
                /\ \/ Done /\ UNCHANGED <<faults, unanswered>>
                   \/ Fault /\ ReturnError /\ unanswered' = unanswered \cup {e}
             \/ Fault /\ ReturnError /\ UNCHANGED <<cond, condWatch, unanswered>>
    /\ UNCHANGED <<gatewayState, stageVars, routeVars, condCache, envVars, cleanVars, checked,
                   applied, blind>>

-----------------------------------------------------------------------------
(* The stage route cleanup controller                                      *)

CleanError == cleaner' = CleanIdle /\ cleanerQueued' = TRUE

CleanStart ==
    /\ cleaner.pc = "idle" /\ cleanerQueued
    /\ cleanerQueued' = FALSE
    /\ cleaner' = IF stageCache.phase = "deleting" /\ "route" \in stageCache.finalizers
                  THEN [pc |-> "deleteRoute", finalizers |-> stageCache.finalizers]
                  ELSE CleanIdle
    /\ UNCHANGED <<gatewayState, stageVars, routeVars, condVars, envVars, workVars,
                   faults, histVars>>

\* Faulty variant: a route that does not exist is an error.
CleanRoute_NeedsRoute ==
    /\ cleaner.pc = "deleteRoute"
    /\ WriteRoute(NoRoute)
    /\ IF route = NoRoute THEN CleanError
       ELSE cleaner' = [cleaner EXCEPT !.pc = "release"] /\ UNCHANGED cleanerQueued
    /\ UNCHANGED <<gatewayState, stageVars, routeCache, condVars, envVars, workVars,
                   faults, histVars>>

CleanRoute ==
    /\ cleaner.pc = "deleteRoute"
    /\ \/ /\ WriteRoute(NoRoute)
          /\ \/ cleaner' = [cleaner EXCEPT !.pc = "release"] /\ UNCHANGED <<cleanerQueued, faults>>
             \/ Fault /\ CleanError
       \/ Fault /\ CleanError /\ UNCHANGED <<route, routeWatch>>
    /\ UNCHANGED <<gatewayState, stageVars, routeCache, condVars, envVars, workVars, histVars>>

\* The patch carries the finalizers of the copy, less the route's.
ReleaseStage ==
    LET finalizers == cleaner.finalizers \ {"route"} IN
    /\ cleaner.pc = "release"
    /\ \/ /\ Patchable(stage, finalizers)
          /\ WriteStage(WithFinalizers(stage, finalizers))
          /\ \/ cleaner' = CleanIdle /\ UNCHANGED <<cleanerQueued, faults>>
             \/ Fault /\ CleanError
       \/ /\ ~Patchable(stage, finalizers)
          /\ CleanError /\ UNCHANGED <<stage, stageWatch, faults>>
       \/ Fault /\ CleanError /\ UNCHANGED <<stage, stageWatch>>
    /\ UNCHANGED <<gatewayState, stageCache, routeVars, condVars, envVars, workVars, histVars>>

\* The process is replaced: reconciles are lost, the caches are listed afresh
\* and every object is queued.
Restart ==
    /\ GatewayRestart
    /\ worker' = Idle /\ cleaner' = CleanIdle
    /\ queue' = 1..created
    /\ cleanerQueued' = (stage.phase # "gone")
    /\ stageCache' = stage /\ stageWatch' = << >>
    /\ routeCache' = route /\ routeWatch' = << >>
    /\ condCache' = cond /\ condWatch' = [e \in Executions |-> << >>]
    /\ versions' = versions \cup unseen /\ unseen' = {}
    /\ UNCHANGED <<stage, route, cond, landscape, created, added, histVars>>

-----------------------------------------------------------------------------
routeSide == <<stageVars, routeVars, condVars, envVars, workVars, cleanVars, histVars>>

Users == \/ CreateExecution \/ DeleteStage
         \/ \E e \in Executions : SetActive(e) \/ PruneVersion(e)
         \/ AddForeign \/ ReleaseForeign

Deliver == \/ DeliverStage \/ DeliverRoute
           \/ \E e \in Executions : DeliverCond(e) \/ DeliverVersion(e)

\* A reconcile runs to its end, the call of ensureRouterGateway included.
Step == \/ Check \/ DeleteRoute \/ GetStage \/ PatchStage
        \/ CallGateway \/ (EnsureRouterGateway /\ UNCHANGED routeSide) \/ GatewayAnswered
        \/ GetRoute \/ ApplyRoute \/ PatchStatus

Clean == CleanStart \/ CleanRoute \/ ReleaseStage

\* What happens to the Gateway meanwhile.  Executions age from their creation on.
Beside(step) == landscape.provisions /\ step /\ UNCHANGED routeSide
Surroundings == Beside(GatewayEnvironment /\ late' \subseteq 1..created)

Next == \/ Users \/ Deliver
        \/ (\E e \in Executions : Start(e)) \/ Step \/ Clean \/ Restart
        \/ Surroundings

Spec == Init /\ [][Next]_vars

\* The work queue is first in, first out, so that every key in it gets its
\* turn; watches deliver and the clock runs.  Users, admins, implementations
\* and faults owe nothing.
Fairness ==
    /\ \A e \in Executions : SF_vars(Start(e)) /\ WF_vars(DeliverCond(e)) /\ WF_vars(DeliverVersion(e))
    /\ WF_vars(Step) /\ WF_vars(Clean)
    /\ WF_vars(DeliverStage) /\ WF_vars(DeliverRoute)
    /\ WF_vars(Beside(DeliverGateway)) /\ WF_vars(Beside(GatewayTimeout))
    /\ \A e \in Executions : WF_vars(Beside(e <= created /\ CallerTimeout(e)))

FairSpec == Spec /\ Fairness

-----------------------------------------------------------------------------
(* Properties                                                              *)

\* "Bind the route lifecycle to the Stage before creating it": a live Stage
\* with a route carries the finalizer of the cleanup controller.
RouteIsBound ==
    route # NoRoute /\ stage.phase = "live" => "route" \in stage.finalizers

\* "Cleanup is driven by a Stage finalizer": when the Stage is gone and the
\* controllers are at rest, so is its route.
NoOrphanRoute ==
    stage.phase = "gone" /\ worker.pc = "idle" /\ queue = {} /\ cleaner.pc = "idle"
        => route = NoRoute

\* An execution never touches the route once a version newer than its own is
\* active in the informer's copy at the start of its reconcile, as long as the
\* informer holds that version and those activated after it, from the start on:
\* to isSuperseded, an active version that is gone or not seen is no obstacle.
SupersededSkipped ==
    [][/\ route' # route /\ worker' # worker
       /\ worker.floor # 0 /\ worker.floor..stage.active \subseteq worker.known \cap versions
       => landscape.seconds[worker.exec] >= landscape.seconds[worker.floor]]_vars

\* "A superseded execution (an older activation re-reconciled, e.g. on restart)
\* must not revert the stage's route": at rest, the route of a live Stage is
\* not older than the active version, and not missing.
RouteNotReverted ==
    stage.phase = "live" /\ stage.active # 0 /\ landscape.plan[stage.active] = "rules"
      /\ worker.pc = "idle" /\ queue = {} /\ stageWatch = << >> /\ created = stage.active
    => route = stage.active

\* "A failed execution fails its VectorActivation; a new activation creates a
\* new execution to retry": a failed execution stays failed, except where the
\* answer to a status patch of it was lost, so that it is reconciled again from
\* a copy that lacks the failure.
FailedIsFinal ==
    [][\A e \in Executions \ unanswered :
           "Failed" \in cond[e] => "Failed" \in cond'[e]]_vars

\* An execution that reports success has had the stage's route follow its plan,
\* or had no say any more: Star has recorded a later activation, also among
\* versions of the same second, or the Stage is gone.  The exception is an
\* execution that was checked, next to another active version, while the
\* informer did not hold its own: isSuperseded takes a version that is not seen
\* yet for one that is gone, and a newer execution then succeeds without its
\* route, although "only a strictly newer active version supersedes".
SucceededIsEarned ==
    \A e \in Executions :
        "Succeeded" \in cond[e] => \/ e \in applied \cup blind
                                   \/ stage.active > e \/ stage.phase = "gone"

\* The patches of the finalizers, which carry the whole list: the cleanup never
\* drops the finalizer of another controller, and ensureStageFinalizer only one
\* that its copy of the Stage did not show yet.
ForeignLostUnseen ==
    [][/\ "foreign" \in stage.finalizers \ stage'.finalizers
       /\ <<worker, cleaner>>' # <<worker, cleaner>>
       => worker' # worker /\ "foreign" \notin worker.finalizers]_vars

\* "Routes are withheld until every assigned address is cluster-routable": the
\* Gateway that was checked for the route has such addresses and no other, for
\* as long as it is stored.  A Gateway that replaced it is another matter.
RoutesWithheld ==
    route # NoRoute /\ gateway.stored /\ gateway.labelled /\ gateway.uid = checked
        => gateway.requested = {"Cluster"} /\ gateway.addresses = {"Cluster"}

\* Every execution with a valid plan succeeds or fails, through lagging caches,
\* conflicts, faults, restarts and a Gateway that never becomes ready, unless
\* its Stage is being deleted.
ExecutionSettles ==
    \A e \in Executions :
        e <= created /\ landscape.plan[e] # "invalid"
            ~> cond[e] \cap {"Succeeded", "Failed"} # {} \/ stage.phase = "deleting"

\* A Stage that is being deleted and that nobody else holds goes away.
CleanupCompletes ==
    stage.phase = "deleting" /\ stage.finalizers \subseteq {"route"} ~> stage.phase = "gone"

=============================================================================
