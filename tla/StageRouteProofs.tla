-------------------------- MODULE StageRouteProofs --------------------------
(***************************************************************************)
(* Proofs about the stage route and its Gateway, for any number of         *)
(* executions, Gateways and faults and for every landscape.                *)
(*                                                                         *)
(* The state falls into four parts that hardly touch each other, and each  *)
(* has an inductive invariant of its own: the Gateway and the call of      *)
(* ensureRouterGateway, the vouching of that call for a route, the Stage   *)
(* with its finalizers, and the conditions of the executions.              *)
(* Success of an execution involves three of them and has one more, at the *)
(* end of the module.                                                      *)
(***************************************************************************)
EXTENDS StageRoute, Watches

-----------------------------------------------------------------------------
(* The Gateway                                                             *)

\* What is stored, what the informer holds and what it is about to hold.
GatewaysInSight == {gateway, gatewayCache} \cup Events(gatewayWatch)

\* A copy o of the Gateway g: of an earlier incarnation, or equal to it in what
\* does not change, where addresses are assigned once.
GatewayCopy(o, g) ==
    /\ o.uid <= g.uid
    /\ o.stored => o.uid > 0
    /\ o.stored /\ g.stored /\ o.uid = g.uid
          => /\ o.labelled = g.labelled /\ o.requested = g.requested
             /\ o.addresses # {} => o.addresses = g.addresses

\* A Gateway with the label is the orchestrator's, and so is one whose deletion
\* is decided; one reported as exposed has been replaced if any is stored.
GatewayInv ==
    /\ \A o \in GatewaysInSight : GatewayCopy(o, gateway) /\ (o.labelled => provisioned)
    /\ call.uid <= gateway.uid
    /\ call.pc = "delete" => provisioned
    /\ call.pc = "returned" /\ call.state = "exposed" /\ gateway.stored => call.uid < gateway.uid

\* The incarnations found ready: by the call, by the reconcile it returned to,
\* and for the route that is stored.
Vouched == {worker.gateway, checked} \cup
           (IF call.pc = "returned" /\ call.state = "ready" THEN {call.uid} ELSE {})

\* Such an incarnation is routable in the cluster only, for as long as it is
\* stored, if it is one the orchestrator has to look at.
VouchInv ==
    \A u \in Vouched :
        /\ u <= gateway.uid
        /\ gateway.stored /\ gateway.labelled /\ gateway.uid = u => isClusterRoutable(gateway)

-----------------------------------------------------------------------------
(* The Stage                                                               *)

StagesInSight == {stage, stageCache} \cup Events(stageWatch)

\* A copy o of the Stage s: deletion is final, versions are activated in order,
\* the route's finalizer stays on a live Stage, and the Stage that is being
\* deleted gets no finalizer any more.
StageCopy(o, s) ==
    /\ o.phase = "gone" => s.phase = "gone"
    /\ o.phase # "live" => s.phase # "live" /\ s.finalizers \subseteq o.finalizers
    /\ s.phase = "live" /\ "route" \in o.finalizers => "route" \in s.finalizers
    /\ o.active <= s.active

\* What the informer goes through, from its copy c along the events w, is in the
\* order of activation.
Ascending(c, w) ==
    /\ \A o \in Events(w) : c.active <= o.active
    /\ \A i, j \in 1..Len(w) : i <= j => w[i].active <= w[j].active

\* The steps after Check, up to the one that writes the route, and among them
\* those after ensureStageFinalizer.
Cleared == {"deleteRoute", "getStage", "patchStage", "gateway", "gatewayCall", "getRoute",
            "writeRoute"}
Finalized == {"gateway", "gatewayCall", "getRoute", "writeRoute"}

\* The version that was active at Check, between the one the informer held when
\* the reconcile started and the present one, was gone, not seen or not newer.
NotSuperseded ==
    worker.floor # 0 =>
        \E a \in worker.floor..stage.active :
            \/ a \notin worker.known \cap versions
            \/ landscape.seconds[worker.exec] >= landscape.seconds[a]

\* A StageVersion that was held when the reconcile started and is gone does not
\* come back: it was seen, and versions are created once.
VersionInv ==
    /\ versions \cup unseen \cup worker.known \subseteq 1..created
    /\ versions \cap unseen = {} /\ worker.known \cap unseen = {}

StageInv ==
    /\ \A o \in StagesInSight : StageCopy(o, stage)
    /\ Ascending(stageCache, stageWatch)
    /\ worker.floor <= stageCache.active
    /\ VersionInv
    /\ worker.pc \in Cleared => NotSuperseded
    /\ worker.pc \in Finalized /\ stage.phase = "live" => "route" \in stage.finalizers
    /\ cleaner.pc # "idle" => stage.phase # "live" /\ stage.finalizers \subseteq cleaner.finalizers
    /\ RouteIsBound

-----------------------------------------------------------------------------
(* The conditions                                                          *)

CondInSight(e) == {cond[e], condCache[e]} \cup Events(condWatch[e])

\* An execution that has failed is not worked on, and if it is queued, then
\* Reconcile will see the failure first; but for those whose report of it went
\* unanswered.
CondInv ==
    /\ \A e \in Executions : cond[e] # {} => e <= created
    /\ \A e \in queue : e <= created
    /\ worker.pc # "idle" => /\ worker.exec <= created /\ worker.exec \notin queue
                             /\ "Failed" \notin worker.original
    /\ worker.pc = "status" => ~({"InProgress", "Failed"} \subseteq worker.wanted)
    /\ \A e \in Executions \ unanswered : "Failed" \in cond[e]
          => /\ worker.pc = "idle" \/ worker.exec # e
             /\ e \in queue => \A o \in CondInSight(e) : "Failed" \in o

-----------------------------------------------------------------------------
(* Types                                                                   *)

CallType == [pc: {"idle", "get", "class", "create", "delete", "returned"},
             caller: Callers \cup {0}, uid: GatewayUids, state: States]

StageTypes == stage \in Stage /\ stageWatch \in Seq(Stage) /\ stageCache \in Stage
RouteTypes == route \in Routes /\ routeWatch \in Seq(Routes) /\ routeCache \in Routes
CondTypes == /\ cond \in [Executions -> Conditions]
             /\ condWatch \in [Executions -> Seq(Conditions)]
             /\ condCache \in [Executions -> Conditions]
EnvTypes == /\ created \in Executions \cup {0} /\ landscape \in Landscapes
            /\ versions \subseteq Executions /\ unseen \subseteq Executions
            /\ added \in BOOLEAN
WorkTypes == /\ worker \in Reconcile /\ queue \subseteq Executions
             /\ worker.pc # "idle" => worker.exec \in Executions
CleanTypes == /\ cleaner \in [pc: {"idle", "deleteRoute", "release"}, finalizers: SUBSET Finalizers]
              /\ cleanerQueued \in BOOLEAN
HistTypes == /\ checked \in GatewayUids /\ unanswered \subseteq Executions
             /\ applied \subseteq Executions /\ blind \subseteq Executions

\* The types, and a reconcile in progress is one of an execution.
Typed == /\ GatewayTypeOK /\ StageTypes /\ RouteTypes /\ CondTypes /\ EnvTypes
         /\ WorkTypes /\ CleanTypes /\ HistTypes

\* The executions are numbered from 1 on.
LEMMA ExecutionNumbers ==
    /\ Executions \subseteq Nat \ {0}
    /\ \A e \in Executions : 1..e \subseteq Executions
  BY ExecutionAssumption

\* A write leaves at most one more event on the watch.
LEMMA Emitted ==
    ASSUME NEW S, NEW w \in Seq(S), NEW old, NEW new \in S
    PROVE  /\ Emit(w, old, new) \in Seq(S)
           /\ Events(Emit(w, old, new)) \subseteq Events(w) \cup {new}
  BY SendEvent DEF Emit

\* What a step does not touch keeps its type.
LEMMA FrameTypes ==
    ASSUME Typed
    PROVE  /\ UNCHANGED stageVars => StageTypes'
           /\ UNCHANGED routeVars => RouteTypes'
           /\ UNCHANGED condVars => CondTypes'
           /\ UNCHANGED envVars => EnvTypes'
           /\ UNCHANGED workVars => WorkTypes'
           /\ UNCHANGED cleanVars => CleanTypes'
           /\ UNCHANGED histVars => HistTypes'
<1>1. UNCHANGED stageVars => StageTypes'
  BY Zenon DEF Typed, stageVars, StageTypes
<1>2. UNCHANGED routeVars => RouteTypes'
  BY Zenon DEF Typed, routeVars, RouteTypes
<1>3. UNCHANGED condVars => CondTypes'
  BY Zenon DEF Typed, condVars, CondTypes
<1>4. UNCHANGED envVars => EnvTypes'
  BY Zenon DEF Typed, envVars, EnvTypes
<1>5. UNCHANGED workVars => WorkTypes'
  BY Zenon DEF Typed, workVars, WorkTypes
<1>6. UNCHANGED cleanVars => CleanTypes'
  BY Zenon DEF Typed, cleanVars, CleanTypes
<1>7. UNCHANGED histVars => HistTypes'
  BY Zenon DEF Typed, histVars, HistTypes
<1> QED BY <1>1, <1>2, <1>3, <1>4, <1>5, <1>6, <1>7

\* A write keeps the types of the object and of its watch.
LEMMA WriteTypes ==
    ASSUME Typed
    PROVE  /\ \A new \in Stage : WriteStage(new) /\ stageCache' = stageCache => StageTypes'
           /\ \A new \in Routes : WriteRoute(new) /\ routeCache' = routeCache => RouteTypes'
           /\ \A e \in Executions, new \in Conditions :
                 WriteCond(e, new) /\ condCache' = condCache => CondTypes'
<1>1. ASSUME NEW new \in Stage, WriteStage(new), stageCache' = stageCache PROVE StageTypes'
  <2>1. Emit(stageWatch, stage, new) \in Seq(Stage)
    BY Emitted DEF Typed, StageTypes
  <2> QED BY <1>1, <2>1, Zenon DEF Typed, StageTypes, WriteStage
<1>2. ASSUME NEW new \in Routes, WriteRoute(new), routeCache' = routeCache PROVE RouteTypes'
  <2>1. Emit(routeWatch, route, new) \in Seq(Routes)
    BY Emitted DEF Typed, RouteTypes
  <2> QED BY <1>2, <2>1, Zenon DEF Typed, RouteTypes, WriteRoute
<1>3. ASSUME NEW e \in Executions, NEW new \in Conditions, WriteCond(e, new), condCache' = condCache
      PROVE  CondTypes'
  <2>1. Emit(condWatch[e], cond[e], new) \in Seq(Conditions)
    BY Emitted DEF Typed, CondTypes
  <2> QED BY <1>3, <2>1, Zenon DEF Typed, CondTypes, WriteCond
<1> QED BY <1>1, <1>2, <1>3

\* A worker at rest is well typed.
LEMMA IdleTyped == Idle \in Reconcile /\ Idle.pc = "idle"
  BY GatewayAssumption DEF Idle, Reconcile, Conditions, Finalizers, Routes, NoRoute, GatewayUids

\* The ways in which a step of a reconcile ends keep the types.
LEMMA WorkerTypes ==
    ASSUME Typed, worker.pc # "idle"
    PROVE  /\ \A pc \in {"deleteRoute", "getStage", "gateway", "gatewayCall", "getRoute"} :
                 Continue(pc) => WorkTypes'
           /\ \A c \in Conditions : Report(c) => WorkTypes'
           /\ ReturnError => WorkTypes'
<1>1. worker \in Reconcile /\ queue \subseteq Executions /\ worker.exec \in Executions
  BY DEF Typed, WorkTypes
<1>2. ASSUME NEW pc \in {"deleteRoute", "getStage", "gateway", "gatewayCall", "getRoute"}, Continue(pc)
      PROVE  WorkTypes'
  <2>1. worker' \in Reconcile /\ worker'.exec = worker.exec
    BY <1>1, <1>2 DEF Continue, Reconcile
  <2> QED BY <1>1, <1>2, <2>1 DEF WorkTypes, Continue
<1>3. ASSUME NEW c \in Conditions, Report(c) PROVE WorkTypes'
  <2>1. worker' \in Reconcile /\ worker'.exec = worker.exec
    BY <1>1, <1>3, Zenon DEF Report, Reconcile
  <2> QED BY <1>1, <1>3, <2>1 DEF WorkTypes, Report
<1>4. ASSUME ReturnError PROVE WorkTypes'
  BY <1>1, <1>4, IdleTyped DEF WorkTypes, ReturnError
<1> QED BY <1>2, <1>3, <1>4

-----------------------------------------------------------------------------
(* The steps, as the Gateway sees them                                     *)

\* A step of the controllers is none of the Gateway, a step of its surroundings
\* or of the call, the begin or the end of a call, or a restart.
LEMMA GatewaySteps ==
    ASSUME Typed, [Next]_vars
    PROVE  \/ UNCHANGED gatewayState
           \/ GatewayEnvironment
           \/ EnsureRouterGateway
           \/ Call(worker.exec)
           \/ EndCall
           \/ GatewayRestart
  BY Zenon DEF Next, Users, Deliver, Step, Clean, Surroundings, Beside, CreateExecution,
  DeleteStage,
       SetActive, PruneVersion, AddForeign, ReleaseForeign, DeliverStage, DeliverRoute,
       DeliverCond, DeliverVersion, Start, Check, DeleteRoute, GetStage, PatchStage, CallGateway,
       GatewayAnswered, GetRoute, ApplyRoute, PatchStatus, CleanStart, CleanRoute, ReleaseStage,
       Restart, vars, gatewayVars

\* Every step spends a fault or none.
LEMMA FaultSteps ==
    ASSUME [Next]_vars
    PROVE  faults' = faults \/ Fault
  BY Zenon DEF Next, Users, Deliver, Step, Clean, Surroundings, Beside, CreateExecution,
  DeleteStage,
       SetActive, PruneVersion, AddForeign, ReleaseForeign, DeliverStage, DeliverRoute,
       DeliverCond, DeliverVersion, Start, Check, DeleteRoute, GetStage, PatchStage, CallGateway,
       GatewayAnswered, GetRoute, ApplyRoute, PatchStatus, CleanStart, CleanRoute, ReleaseStage,
       Restart, vars, gatewayVars, GatewayEnvironment, AdminCreate, AdminDelete,
       ImplementationReports, DeliverGateway, InstallClass, GatewayTimeout, CallerTimeout,
       EnsureRouterGateway, GetGateway, GetGatewayClass, CreateGateway, DeleteGateway, Failure,
       Call, EndCall, GatewayRestart

\* Gateways as they are created and deleted.
LEMMA GatewayValues ==
    /\ \A u \in GatewayUids, l \in BOOLEAN, r \in SUBSET Routability : Fresh(u, l, r) \in Gateway
    /\ \A u \in GatewayUids : Absent(u) \in Gateway
<1>1. \A u \in GatewayUids, l \in BOOLEAN, r \in SUBSET Routability : Fresh(u, l, r) \in Gateway
  BY DEF Fresh, Gateway
<1>2. ASSUME NEW u \in GatewayUids PROVE Absent(u) \in Gateway
  <2>1. Fresh(u, FALSE, {}) \in Gateway
    BY <1>1, Zenon
  <2> QED BY <2>1, Zenon DEF Absent, Gateway
<1> QED BY <1>1, <1>2

\* An answer is one of the call's.
LEMMA AnswerTypes ==
    ASSUME call \in CallType
    PROVE  /\ \A st \in States, u \in GatewayUids : Answer(st, u) => call' \in CallType
           /\ \A pc \in {"class", "create"} : [call EXCEPT !.pc = pc] \in CallType
           /\ \A u \in GatewayUids : [call EXCEPT !.pc = "delete", !.uid = u] \in CallType
           /\ Failure => call' \in CallType
<1>1. \A st \in States, u \in GatewayUids : Answer(st, u) => call' \in CallType
  BY Zenon DEF Answer, CallType
<1>2. /\ \A pc \in {"class", "create"} : [call EXCEPT !.pc = pc] \in CallType
      /\ \A u \in GatewayUids : [call EXCEPT !.pc = "delete", !.uid = u] \in CallType
  BY Zenon DEF CallType
<1>3. "error" \in States /\ call.uid \in GatewayUids
  BY DEF States, CallType
<1> QED BY <1>1, <1>2, <1>3, Zenon DEF Failure

\* The Gateway, its watch and the informer's copy.
GatewayTypes ==
    gateway \in Gateway /\ gatewayWatch \in Seq(Gateway) /\ gatewayCache \in Gateway

\* A write keeps them.
LEMMA GatewayWriteTypes ==
    ASSUME GatewayTypes, NEW new \in Gateway, WriteGateway(new), gatewayCache' = gatewayCache
    PROVE  GatewayTypes'
<1>1. Append(gatewayWatch, new) \in Seq(Gateway)
  BY SendEvent DEF GatewayTypes
<1> QED BY <1>1, Zenon DEF GatewayTypes, WriteGateway

\* Every step keeps the types of the Gateway and of the call.
LEMMA GatewayTyped ==
    ASSUME Typed, [Next]_vars
    PROVE  GatewayTypeOK'
<1>1. /\ GatewayTypes /\ call \in CallType
      /\ gatewayClass \in BOOLEAN /\ provisioned \in BOOLEAN /\ faults \in Nat
      /\ overdue \subseteq GatewayUids /\ late \subseteq Callers
  BY DEF Typed, GatewayTypeOK, CallType, GatewayTypes
<1>2. faults' \in Nat
  BY <1>1, FaultSteps DEF Fault
<1>3. SUFFICES /\ GatewayTypes' /\ call' \in CallType
               /\ gatewayClass' \in BOOLEAN /\ provisioned' \in BOOLEAN
               /\ overdue' \subseteq GatewayUids /\ late' \subseteq Callers
  BY <1>2, Zenon DEF GatewayTypeOK, CallType, GatewayTypes
<1>4. NoCall \in CallType
  BY GatewayAssumption DEF NoCall, CallType, States, GatewayUids
<1>5. /\ gateway.uid \in GatewayUids
      /\ gateway.uid < MaxGateways => gateway.uid + 1 \in GatewayUids
      /\ gatewayCache.uid \in GatewayUids /\ call.uid \in GatewayUids
  BY <1>1, GatewayAssumption DEF GatewayTypes, Gateway, GatewayUids, CallType
<1>6. CASE UNCHANGED gatewayState
  BY <1>1, <1>6, Zenon DEF gatewayState, gatewayObjects, gatewayEnv, GatewayTypes
<1>7. CASE AdminCreate
  <2>1. Fresh(gateway.uid + 1, FALSE, {}) \in Gateway
    BY <1>5, <1>7, GatewayValues, Zenon DEF AdminCreate
  <2> QED BY <1>1, <1>7, <2>1, GatewayWriteTypes, Zenon DEF AdminCreate, gatewayEnv
<1>8. CASE AdminDelete
  <2>1. Absent(gateway.uid) \in Gateway
    BY <1>5, GatewayValues
  <2> QED BY <1>1, <1>8, <2>1, GatewayWriteTypes, Zenon DEF AdminDelete, gatewayEnv
<1>9. CASE ImplementationReports
  <2>1. /\ [gateway EXCEPT !.rejected = TRUE] \in Gateway
        /\ [gateway EXCEPT !.programmed = TRUE] \in Gateway
        /\ \A a \in SUBSET Routability : [gateway EXCEPT !.addresses = a] \in Gateway
    BY <1>1, Zenon DEF GatewayTypes, Gateway
  <2>2. \E new \in Gateway : WriteGateway(new)
    BY <1>9, <2>1, Zenon DEF ImplementationReports
  <2> QED BY <1>1, <1>9, <2>2, GatewayWriteTypes, Zenon DEF ImplementationReports, gatewayEnv
<1>10. CASE DeliverGateway
  <2>1. Head(gatewayWatch) \in Gateway /\ Tail(gatewayWatch) \in Seq(Gateway)
    BY <1>1, <1>10, TakeEvent DEF DeliverGateway, GatewayTypes
  <2> QED BY <1>1, <1>10, <2>1, Zenon DEF DeliverGateway, gatewayEnv, GatewayTypes
<1>11. CASE InstallClass
  BY <1>1, <1>11, Zenon DEF InstallClass, gatewayObjects, GatewayTypes
<1>12. CASE GatewayTimeout
  BY <1>1, <1>5, <1>12, Zenon DEF GatewayTimeout, gatewayObjects, GatewayTypes
<1>13. ASSUME NEW e \in Callers, CallerTimeout(e)
       PROVE  /\ GatewayTypes' /\ call' \in CallType
              /\ gatewayClass' \in BOOLEAN /\ provisioned' \in BOOLEAN
              /\ overdue' \subseteq GatewayUids /\ late' \subseteq Callers
  BY <1>1, <1>13, Zenon DEF CallerTimeout, gatewayObjects, GatewayTypes
<1>14. CASE GetGateway
  <2>1. /\ {"ready", "exposed"} \subseteq States
        /\ evaluateRouterGateway(gatewayCache, gatewayCache.uid \in overdue) \in States
    BY DEF States, evaluateRouterGateway
  <2>2. call' \in CallType
    BY <1>1, <1>5, <1>14, <2>1, AnswerTypes, Zenon DEF GetGateway
  <2> QED BY <1>1, <1>14, <2>2, Zenon DEF GetGateway, gatewayObjects, gatewayEnv, GatewayTypes
<1>15. CASE GetGatewayClass
  <2>1. missingGatewayClassState(call.caller \in late) \in States
    BY DEF States, missingGatewayClassState
  <2>2. call' \in CallType
    BY <1>1, <1>5, <1>15, <2>1, AnswerTypes, Zenon DEF GetGatewayClass
  <2> QED BY <1>1, <1>15, <2>2, Zenon DEF GetGatewayClass, gatewayObjects, gatewayEnv, GatewayTypes
<1>16. CASE CreateGateway
  <2>1. gateway.uid < MaxGateways =>
           \A r \in StoredRequests : /\ Fresh(gateway.uid + 1, TRUE, r) \in Gateway
                                     /\ Fresh(gateway.uid + 1, TRUE, r).uid \in GatewayUids
    BY <1>5, GatewayValues, GatewayAssumption, Zenon DEF Fresh
  <2>2. "pending" \in States
    BY DEF States
  <2>3. call' \in CallType
    BY <1>1, <1>5, <1>16, <2>1, <2>2, AnswerTypes, Zenon DEF CreateGateway
  <2>4. gatewayCache' = gatewayCache
        /\ (UNCHANGED <<gateway, gatewayWatch>> \/ \E new \in Gateway : WriteGateway(new))
    BY <1>16, <2>1, Zenon DEF CreateGateway
  <2>5. GatewayTypes'
    BY <1>1, <2>4, GatewayWriteTypes, Zenon DEF GatewayTypes
  <2>6. provisioned' \in BOOLEAN
    BY <1>1, <1>16, Zenon DEF CreateGateway
  <2> QED BY <1>1, <1>16, <2>3, <2>5, <2>6, Zenon DEF CreateGateway, gatewayEnv
<1>17. CASE DeleteGateway
  <2>1. Absent(gateway.uid) \in Gateway /\ "exposed" \in States
    BY <1>5, GatewayValues DEF States
  <2>2. call' \in CallType
    BY <1>1, <1>5, <1>17, <2>1, AnswerTypes, Zenon DEF DeleteGateway
  <2>3. GatewayTypes'
    BY <1>1, <1>17, <2>1, GatewayWriteTypes, Zenon DEF DeleteGateway, GatewayTypes
  <2> QED BY <1>1, <1>17, <2>2, <2>3, Zenon DEF DeleteGateway, gatewayEnv
<1>18. CASE Call(worker.exec)
  <2>1. worker.exec \in Callers \cup {0}
    BY DEF Typed, WorkTypes, Reconcile, Executions
  <2>2. [NoCall EXCEPT !.pc = "get", !.caller = worker.exec] \in CallType
    BY <1>4, <2>1, Zenon DEF CallType
  <2> QED BY <1>1, <1>18, <2>2, Zenon DEF Call, gatewayObjects, gatewayEnv, GatewayTypes
<1>19. CASE EndCall
  BY <1>1, <1>4, <1>19, Zenon DEF EndCall, gatewayObjects, gatewayEnv, GatewayTypes
<1>20. CASE GatewayRestart
  <2>1. << >> \in Seq(Gateway)
    BY NoEvent
  <2> QED BY <1>1, <1>4, <1>20, <2>1, Zenon DEF GatewayRestart, gatewayEnv, GatewayTypes
<1> QED
  BY GatewaySteps, <1>6, <1>7, <1>8, <1>9, <1>10, <1>11, <1>12, <1>13, <1>14, <1>15, <1>16,
     <1>17, <1>18, <1>19, <1>20, Zenon
  DEF GatewayEnvironment, EnsureRouterGateway

-----------------------------------------------------------------------------
(* Every step keeps the types                                              *)

\* What the reports of Reconcile are made of.
LEMMA ReportTypes ==
    ASSUME NEW c \in Conditions
    PROVE  markSucceeded(c) \in Conditions /\ \A st : reportRouterGateway(c, st) \in Conditions
  BY DEF markSucceeded, reportRouterGateway, Conditions

\* A Stage with another list of finalizers is one.
LEMMA FinalizerTypes ==
    ASSUME NEW o \in Stage, NEW f \in SUBSET Finalizers
    PROVE  WithFinalizers(o, f) \in Stage
  BY Zenon DEF WithFinalizers, Stage

\* Every step of the controllers, of the users and of the Gateway keeps the types.
LEMMA TypedNext == Typed /\ [Next]_vars => Typed'
<1> SUFFICES ASSUME Typed, [Next]_vars PROVE Typed'
  OBVIOUS
<1>1. GatewayTypeOK'
  BY GatewayTyped
<1>2. SUFFICES /\ StageTypes' /\ RouteTypes' /\ CondTypes' /\ EnvTypes'
               /\ WorkTypes' /\ CleanTypes' /\ HistTypes'
  BY <1>1 DEF Typed
<1> DEFINE Goal == /\ StageTypes' /\ RouteTypes' /\ CondTypes' /\ EnvTypes'
                   /\ WorkTypes' /\ CleanTypes' /\ HistTypes'
<1>3. /\ stage \in Stage /\ worker \in Reconcile /\ queue \subseteq Executions
      /\ created \in Executions \cup {0} /\ landscape \in Landscape
      /\ stage.finalizers \in SUBSET Finalizers /\ stageCache.finalizers \in SUBSET Finalizers
      /\ stageCache.active \in Executions \cup {0}
      /\ worker.finalizers \in SUBSET Finalizers /\ cleaner.finalizers \in SUBSET Finalizers
      /\ worker.original \in Conditions /\ worker.wanted \in Conditions
      /\ worker.gateway \in GatewayUids
      /\ worker.pc # "idle" => worker.exec \in Executions /\ worker.exec \in Routes
      /\ NoRoute \in Routes /\ {"route", "foreign"} \subseteq Finalizers
  BY LandscapeAssumption DEF Typed, StageTypes, WorkTypes, EnvTypes, CleanTypes, Stage, Reconcile,
     Routes, Finalizers
<1>4. Idle \in Reconcile /\ Idle.pc = "idle"
  BY IdleTyped
<1>5. /\ CleanIdle \in [pc: {"idle", "deleteRoute", "release"}, finalizers: SUBSET Finalizers]
      /\ CleanError => CleanTypes'
  <2>1. CleanIdle \in [pc: {"idle", "deleteRoute", "release"}, finalizers: SUBSET Finalizers]
    BY DEF CleanIdle
  <2> QED BY <2>1, Zenon DEF CleanError, CleanTypes
<1>6. ASSUME UNCHANGED routeSide PROVE Goal
  BY <1>6, FrameTypes, Zenon DEF routeSide
<1>7. ASSUME CreateExecution PROVE Goal
  <2>1. PICK n \in Executions : landscape.plan \in [1..n -> Plans]
    BY <1>3 DEF Landscape
  <2>2. created + 1 \in Executions
    BY <1>7, <2>1, ExecutionNumbers DEF CreateExecution
  <2>3. EnvTypes' /\ WorkTypes'
    BY <1>7, <2>2, Zenon DEF CreateExecution, Typed, EnvTypes, WorkTypes
  <2> QED BY <1>7, <2>3, FrameTypes, Zenon DEF CreateExecution
<1>8. ASSUME NEW e \in Executions, SetActive(e) PROVE Goal
  <2>1. [stage EXCEPT !.active = e] \in Stage
    BY <1>3 DEF Stage
  <2> QED BY <1>8, <2>1, WriteTypes, FrameTypes, Zenon DEF SetActive
<1>9. ASSUME NEW e \in Executions, PruneVersion(e) PROVE Goal
  <2>1. EnvTypes'
    BY <1>9, Zenon DEF PruneVersion, Typed, EnvTypes
  <2> QED BY <1>9, <2>1, FrameTypes, Zenon DEF PruneVersion
<1>10. ASSUME DeleteStage PROVE Goal
  <2>1. [stage EXCEPT !.phase = "deleting"] \in Stage
    BY <1>3 DEF Stage
  <2>2. WithFinalizers([stage EXCEPT !.phase = "deleting"], stage.finalizers) \in Stage
    BY <1>3, <2>1, FinalizerTypes
  <2> QED BY <1>10, <2>2, WriteTypes, FrameTypes, Zenon DEF DeleteStage
<1>11. ASSUME AddForeign PROVE Goal
  <2>1. [stage EXCEPT !.finalizers = @ \cup {"foreign"}] \in Stage
    BY <1>3 DEF Stage
  <2>2. EnvTypes'
    BY <1>11, Zenon DEF AddForeign, Typed, EnvTypes
  <2> QED BY <1>11, <2>1, <2>2, WriteTypes, FrameTypes, Zenon DEF AddForeign
<1>12. ASSUME ReleaseForeign PROVE Goal
  <2>1. WithFinalizers(stage, stage.finalizers \ {"foreign"}) \in Stage
    BY <1>3, FinalizerTypes
  <2> QED BY <1>12, <2>1, WriteTypes, FrameTypes, Zenon DEF ReleaseForeign
<1>13. ASSUME DeliverStage PROVE Goal
  <2>1. Head(stageWatch) \in Stage /\ Tail(stageWatch) \in Seq(Stage)
    BY <1>13, TakeEvent DEF DeliverStage, Typed, StageTypes
  <2>2. StageTypes' /\ CleanTypes'
    BY <1>13, <2>1, Zenon DEF DeliverStage, Typed, StageTypes, CleanTypes
  <2> QED BY <1>13, <2>2, FrameTypes, Zenon DEF DeliverStage
<1>14. ASSUME DeliverRoute PROVE Goal
  <2>1. Head(routeWatch) \in Routes /\ Tail(routeWatch) \in Seq(Routes)
    BY <1>14, TakeEvent DEF DeliverRoute, Typed, RouteTypes
  <2>2. RouteTypes'
    BY <1>14, <2>1, Zenon DEF DeliverRoute, Typed, RouteTypes
  <2> QED BY <1>14, <2>2, FrameTypes, Zenon DEF DeliverRoute
<1>15. ASSUME NEW e \in Executions, DeliverCond(e) PROVE Goal
  <2>1. Head(condWatch[e]) \in Conditions /\ Tail(condWatch[e]) \in Seq(Conditions)
    BY <1>15, TakeEvent DEF DeliverCond, DeliverVersion, Typed, CondTypes
  <2>2. CondTypes'
    BY <1>15, <2>1, Zenon DEF DeliverCond, DeliverVersion, Typed, CondTypes
  <2> QED BY <1>15, <2>2, FrameTypes, Zenon DEF DeliverCond
<1>v. ASSUME NEW e \in Executions, DeliverVersion(e) PROVE Goal
  <2>1. EnvTypes'
    BY <1>v, Zenon DEF DeliverVersion, Typed, EnvTypes
  <2> QED BY <1>v, <2>1, FrameTypes, Zenon DEF DeliverVersion
<1>16. ASSUME NEW e \in Executions, Start(e) PROVE Goal
  <2>1. condCache[e] \in Conditions /\ versions \in SUBSET Executions
    BY DEF Typed, CondTypes, EnvTypes
  <2>2. PICK new : new = [Idle EXCEPT !.pc = "check", !.exec = e, !.original = condCache[e],
                                      !.floor = stageCache.active, !.known = versions]
    OBVIOUS
  <2>3. new \in Reconcile /\ new.exec \in Executions
    BY <1>3, <1>4, <2>1, <2>2, Zenon DEF Reconcile
  <2>4. worker' \in {Idle, new} /\ queue' \subseteq Executions
    BY <1>3, <1>16, <2>2, Zenon DEF Start
  <2>5. WorkTypes'
    BY <1>4, <2>3, <2>4 DEF WorkTypes
  <2> QED BY <1>16, <2>5, FrameTypes, Zenon DEF Start
<1>17. ASSUME Check PROVE Goal
  <2>1. WorkTypes'
    BY <1>3, <1>17, WorkerTypes, ReportTypes, Zenon DEF Check
  <2>2. HistTypes'
    BY <1>3, <1>17, Zenon DEF Check, Typed, HistTypes
  <2> QED BY <1>17, <2>1, <2>2, FrameTypes, Zenon DEF Check
<1>18. ASSUME DeleteRoute PROVE Goal
  <2>1. WorkTypes'
    BY <1>3, <1>18, WorkerTypes, ReportTypes, Zenon DEF DeleteRoute
  <2>2. RouteTypes'
    BY <1>3, <1>18, WriteTypes, FrameTypes, Zenon DEF DeleteRoute, routeVars
  <2>3. HistTypes'
    BY <1>3, <1>18, Zenon DEF DeleteRoute, Typed, HistTypes
  <2> QED BY <1>18, <2>1, <2>2, <2>3, FrameTypes, Zenon DEF DeleteRoute
<1>19. ASSUME GetStage PROVE Goal
  <2>1. PICK new : new = [worker EXCEPT !.pc = "patchStage", !.finalizers = stageCache.finalizers]
    OBVIOUS
  <2>2. worker.pc # "idle" => new \in Reconcile /\ new.exec \in Executions
    BY <1>3, <2>1, Zenon DEF Reconcile
  <2>3. worker' = new /\ UNCHANGED queue /\ worker.pc # "idle" => WorkTypes'
    BY <1>3, <2>2 DEF WorkTypes
  <2>4. WorkTypes'
    BY <1>3, <1>19, <2>1, <2>3, WorkerTypes, Zenon DEF GetStage
  <2> QED BY <1>19, <2>4, FrameTypes, Zenon DEF GetStage
<1>20. ASSUME PatchStage PROVE Goal
  <2>1. WithFinalizers(stage, worker.finalizers \cup {"route"}) \in Stage
    BY <1>3, FinalizerTypes
  <2>2. WorkTypes'
    BY <1>3, <1>20, WorkerTypes, Zenon DEF PatchStage
  <2>3. StageTypes'
    BY <1>20, <2>1, WriteTypes, FrameTypes, Zenon DEF PatchStage, stageVars
  <2> QED BY <1>20, <2>2, <2>3, FrameTypes, Zenon DEF PatchStage
<1>21. ASSUME CallGateway PROVE Goal
  <2>1. WorkTypes'
    BY <1>3, <1>21, WorkerTypes, Zenon DEF CallGateway
  <2> QED BY <1>21, <2>1, FrameTypes, Zenon DEF CallGateway
<1>22. ASSUME GatewayAnswered PROVE Goal
  <2>1. call.uid \in GatewayUids /\ worker.pc # "idle"
    BY <1>22 DEF Typed, GatewayTypeOK, GatewayAnswered
  <2>2. PICK new : new = [worker EXCEPT !.pc = "getRoute", !.gateway = call.uid]
    OBVIOUS
  <2>3. new \in Reconcile /\ new.exec \in Executions
    BY <1>3, <2>1, <2>2, Zenon DEF Reconcile
  <2>4. worker' = new /\ UNCHANGED queue => WorkTypes'
    BY <1>3, <2>3 DEF WorkTypes
  <2>5. WorkTypes'
    BY <1>3, <1>22, <2>1, <2>2, <2>4, WorkerTypes, ReportTypes, Zenon DEF GatewayAnswered
  <2> QED BY <1>22, <2>5, FrameTypes, Zenon DEF GatewayAnswered
<1>23. ASSUME GetRoute PROVE Goal
  <2>1. routeCache \in Routes /\ (routeWatch = << >>) \in BOOLEAN /\ worker.pc # "idle"
    BY <1>23 DEF Typed, RouteTypes, GetRoute
  <2>2. PICK new : new = [worker EXCEPT !.pc = "writeRoute", !.route = routeCache,
                                        !.current = (routeWatch = << >>)]
    OBVIOUS
  <2>3. new \in Reconcile /\ new.exec \in Executions
    BY <1>3, <2>1, <2>2, Zenon DEF Reconcile
  <2>4. worker' = new /\ UNCHANGED queue => WorkTypes'
    BY <1>3, <2>3 DEF WorkTypes
  <2>5. WorkTypes'
    BY <1>3, <1>23, <2>1, <2>2, <2>4, WorkerTypes, ReportTypes, Zenon DEF GetRoute
  <2> QED BY <1>23, <2>5, FrameTypes, Zenon DEF GetRoute
<1>24. ASSUME ApplyRoute PROVE Goal
  <2>1. WorkTypes'
    BY <1>3, <1>24, WorkerTypes, ReportTypes, Zenon DEF ApplyRoute
  <2>2. RouteTypes'
    BY <1>3, <1>24, WriteTypes, FrameTypes, Zenon DEF ApplyRoute, routeVars
  <2>3. HistTypes'
    BY <1>3, <1>24, Zenon DEF ApplyRoute, Typed, HistTypes
  <2> QED BY <1>24, <2>1, <2>2, <2>3, FrameTypes, Zenon DEF ApplyRoute
<1>25. ASSUME PatchStatus PROVE Goal
  <2>1. worker.exec \in Executions /\ worker.pc # "idle"
    BY <1>3, <1>25 DEF PatchStatus
  <2>2. worker' = Idle /\ queue' \subseteq queue \cup {worker.exec}
    BY <1>25, Zenon DEF PatchStatus, ReturnError
  <2>3. WorkTypes'
    BY <1>3, <1>4, <2>1, <2>2 DEF WorkTypes
  <2>4. CondTypes'
    BY <1>3, <1>25, <2>1, WriteTypes, FrameTypes, Zenon DEF PatchStatus, condVars
  <2>5. HistTypes'
    BY <1>25, <2>1, Zenon DEF PatchStatus, Typed, HistTypes
  <2> QED BY <1>25, <2>3, <2>4, <2>5, FrameTypes, Zenon DEF PatchStatus
<1>26. ASSUME CleanStart PROVE Goal
  <2>1. [pc |-> "deleteRoute", finalizers |-> stageCache.finalizers]
           \in [pc: {"idle", "deleteRoute", "release"}, finalizers: SUBSET Finalizers]
    BY <1>3
  <2>2. CleanTypes'
    BY <1>5, <1>26, <2>1, Zenon DEF CleanStart, CleanTypes
  <2> QED BY <1>26, <2>2, FrameTypes, Zenon DEF CleanStart
<1>27. ASSUME CleanRoute PROVE Goal
  <2>1. [cleaner EXCEPT !.pc = "release"]
           \in [pc: {"idle", "deleteRoute", "release"}, finalizers: SUBSET Finalizers]
    BY DEF Typed, CleanTypes
  <2>2. CleanTypes'
    BY <1>5, <1>27, <2>1, Zenon DEF CleanRoute, Typed, CleanTypes
  <2>3. RouteTypes'
    BY <1>3, <1>27, WriteTypes, FrameTypes, Zenon DEF CleanRoute, routeVars
  <2> QED BY <1>27, <2>2, <2>3, FrameTypes, Zenon DEF CleanRoute
<1>28. ASSUME ReleaseStage PROVE Goal
  <2>1. WithFinalizers(stage, cleaner.finalizers \ {"route"}) \in Stage
    BY <1>3, FinalizerTypes
  <2>2. CleanTypes'
    BY <1>5, <1>28, Zenon DEF ReleaseStage, Typed, CleanTypes
  <2>3. StageTypes'
    BY <1>28, <2>1, WriteTypes, FrameTypes, Zenon DEF ReleaseStage, stageVars
  <2> QED BY <1>28, <2>2, <2>3, FrameTypes, Zenon DEF ReleaseStage
<1>29. ASSUME Restart PROVE Goal
  <2>1. 1..created \subseteq Executions
    BY <1>3, ExecutionNumbers
  <2>2. /\ << >> \in Seq(Stage) /\ << >> \in Seq(Routes)
        /\ [e \in Executions |-> << >>] \in [Executions -> Seq(Conditions)]
    BY NoEvent
  <2>3. StageTypes' /\ RouteTypes' /\ CondTypes'
    BY <1>29, <2>2, Zenon DEF Restart, Typed, StageTypes, RouteTypes, CondTypes
  <2>4. CleanTypes'
    BY <1>5, <1>29, Zenon DEF Restart, CleanTypes
  <2>5. WorkTypes'
    BY <1>4, <1>29, <2>1 DEF Restart, WorkTypes
  <2>6. EnvTypes'
    BY <1>29, Zenon DEF Restart, Typed, EnvTypes
  <2> QED BY <1>29, <2>3, <2>4, <2>5, <2>6, FrameTypes, Zenon DEF Restart
<1>30. ASSUME UNCHANGED vars PROVE Goal
  BY <1>6, <1>30, Zenon DEF vars, routeSide
<1> QED
  BY <1>6, <1>7, <1>8, <1>9, <1>10, <1>11, <1>12, <1>13, <1>14, <1>15, <1>v, <1>16, <1>17, <1>18, <1>19,
     <1>20, <1>21, <1>22, <1>23, <1>24, <1>25, <1>26, <1>27, <1>28, <1>29, <1>30, Zenon
  DEF Next, Users, Deliver, Step, Clean, Surroundings, Beside

\* The initial state is well typed, in every landscape.
LEMMA TypedInit == Init => Typed
<1> SUFFICES ASSUME Init PROVE Typed
  OBVIOUS
<1>1. landscape \in Landscapes /\ landscape \in Landscape
  BY LandscapeAssumption DEF Init
<1>2. /\ landscape.gateways \in GatewayUids /\ landscape.faults \in Nat
      /\ landscape.finalizers \in SUBSET Finalizers
  BY <1>1 DEF Landscape
<1>3. MaxGateways - landscape.gateways \in GatewayUids
  BY <1>2, GatewayAssumption DEF GatewayUids
<1>4. Absent(MaxGateways - landscape.gateways) \in Gateway
  BY <1>3, GatewayValues
<1>5. NoCall \in CallType
  BY GatewayAssumption DEF NoCall, CallType, States, GatewayUids
<1>6. << >> \in Seq(Gateway) /\ << >> \in Seq(Stage) /\ << >> \in Seq(Routes)
      /\ [e \in Executions |-> << >>] \in [Executions -> Seq(Conditions)]
      /\ [e \in Executions |-> {}] \in [Executions -> Conditions]
  BY NoEvent DEF Conditions
<1>7. GatewayTypeOK
  BY <1>2, <1>4, <1>5, <1>6, Zenon DEF Init, GatewayInit, GatewayTypeOK, CallType
<1>8. StageTypes
  <2>1. NewStage(landscape) \in Stage
    BY <1>2 DEF NewStage, Stage
  <2> QED BY <1>6, <2>1, Zenon DEF Init, StageTypes
<1>9. RouteTypes /\ CondTypes
  BY <1>6, Zenon DEF Init, RouteTypes, CondTypes, Routes
<1>10. EnvTypes
  BY <1>1, Zenon DEF Init, EnvTypes
<1>11. WorkTypes
  BY IdleTyped DEF Init, WorkTypes
<1>12. CleanTypes /\ HistTypes
  BY GatewayAssumption DEF Init, CleanTypes, HistTypes, CleanIdle, GatewayUids
<1> QED BY <1>7, <1>8, <1>9, <1>10, <1>11, <1>12 DEF Typed

\* Every state that the two controllers, the call of ensureRouterGateway and
\* their environment reach is well typed, and no step works on an execution that
\* does not exist.
THEOREM TypeCorrect == Spec => []TypeOK
<1>1. Typed => TypeOK
  BY Zenon DEF Typed, TypeOK, StageTypes, RouteTypes, CondTypes, EnvTypes, WorkTypes, CleanTypes,
               HistTypes
<1> QED BY <1>1, TypedInit, TypedNext, PTL DEF Spec

-----------------------------------------------------------------------------
(* The Gateway: how it moves on, and what is said of its copies            *)

\* From the Gateway g, a write may lead to the Gateway h: within an incarnation
\* the label and the request stay, and addresses once they are assigned.
Moves(g, h) ==
    /\ g.uid <= h.uid
    /\ h.stored => h.uid > 0
    /\ h.stored /\ g.uid = h.uid
          => /\ g.stored /\ g.labelled = h.labelled /\ g.requested = h.requested
             /\ g.addresses # {} => g.addresses = h.addresses

\* A copy stays a copy, and a Gateway found routable stays so.
LEMMA MovesKeeps ==
    ASSUME NEW g \in Gateway, NEW h \in Gateway, Moves(g, h)
    PROVE  /\ \A o \in Gateway : GatewayCopy(o, g) => GatewayCopy(o, h)
           /\ GatewayCopy(h, h)
           /\ \A u \in GatewayUids :
                 /\ u <= g.uid
                 /\ g.stored /\ g.labelled /\ g.uid = u => isClusterRoutable(g)
                 => /\ u <= h.uid
                    /\ h.stored /\ h.labelled /\ h.uid = u => isClusterRoutable(h)
<1>1. g.uid \in Nat /\ h.uid \in Nat /\ \A u \in GatewayUids : u \in Nat
  BY GatewayAssumption DEF Gateway, GatewayUids
<1>2. ASSUME NEW o \in Gateway, GatewayCopy(o, g) PROVE GatewayCopy(o, h)
  <2>1. o.uid \in Nat
    BY GatewayAssumption DEF Gateway, GatewayUids
  <2> QED BY <1>1, <1>2, <2>1 DEF Moves, GatewayCopy
<1>3. GatewayCopy(h, h)
  BY <1>1 DEF Moves, GatewayCopy
<1>4. ASSUME NEW u \in GatewayUids, u <= g.uid,
             g.stored /\ g.labelled /\ g.uid = u => isClusterRoutable(g)
      PROVE  /\ u <= h.uid
             /\ h.stored /\ h.labelled /\ h.uid = u => isClusterRoutable(h)
  BY <1>1, <1>4 DEF Moves, isClusterRoutable, requestsClusterRoutability
<1> QED BY <1>2, <1>3, <1>4

\* A write brings one more Gateway into sight.
LEMMA GatewayWritten ==
    ASSUME GatewayTypes, NEW new \in Gateway, WriteGateway(new), gatewayCache' = gatewayCache
    PROVE  gateway' = new /\ GatewaysInSight' \subseteq GatewaysInSight \cup {new}
<1>1. Events(Append(gatewayWatch, new)) = Events(gatewayWatch) \cup {new}
  BY SendEvent DEF GatewayTypes
<1>2. CASE new = gateway
  BY <1>2 DEF WriteGateway, GatewaysInSight
<1>3. CASE new # gateway
  BY <1>1, <1>3 DEF WriteGateway, GatewaysInSight
<1> QED BY <1>2, <1>3

\* No step takes the Gateway back, and one with the label comes from the
\* orchestrator.
LEMMA GatewayMoves ==
    ASSUME Typed, GatewayInv, [Next]_vars
    PROVE  /\ Moves(gateway, gateway')
           /\ GatewaysInSight' \subseteq GatewaysInSight \cup {gateway'}
           /\ provisioned => provisioned'
           /\ gateway'.labelled => gateway.labelled \/ provisioned'
<1> DEFINE Goal == /\ Moves(gateway, gateway')
                   /\ GatewaysInSight' \subseteq GatewaysInSight \cup {gateway'}
                   /\ provisioned => provisioned'
                   /\ gateway'.labelled => gateway.labelled \/ provisioned'
<1>1. GatewayTypes /\ gateway \in Gateway /\ gateway.uid \in Nat
  BY GatewayAssumption DEF Typed, GatewayTypeOK, GatewayTypes, Gateway, GatewayUids
<1>2. Moves(gateway, gateway)
  BY <1>1 DEF Moves, GatewayInv, GatewaysInSight, GatewayCopy
<1>3. ASSUME NEW u \in GatewayUids, NEW l \in BOOLEAN, NEW r \in SUBSET Routability,
             u = gateway.uid + 1
      PROVE  Fresh(u, l, r) \in Gateway /\ Moves(gateway, Fresh(u, l, r)) /\ Fresh(u, l, r).labelled = l
  BY <1>1, <1>3, GatewayValues DEF Fresh, Moves
<1>4. Absent(gateway.uid) \in Gateway /\ Moves(gateway, Absent(gateway.uid))
      /\ ~Absent(gateway.uid).labelled
  <2>1. gateway.uid \in GatewayUids
    BY <1>1 DEF Gateway
  <2>2. Absent(gateway.uid).uid = gateway.uid /\ ~Absent(gateway.uid).stored
        /\ ~Absent(gateway.uid).labelled
    BY DEF Absent, Fresh
  <2> QED BY <1>1, <2>1, <2>2, GatewayValues DEF Moves
<1>5. gateway.uid < MaxGateways => gateway.uid + 1 \in GatewayUids
  BY <1>1, GatewayAssumption DEF GatewayUids
<1>6. ASSUME NEW new \in Gateway, WriteGateway(new), gatewayCache' = gatewayCache
      PROVE  gateway' = new /\ GatewaysInSight' \subseteq GatewaysInSight \cup {gateway'}
  BY <1>1, <1>6, GatewayWritten
<1>7. ASSUME UNCHANGED gatewayObjects, UNCHANGED provisioned PROVE Goal
  BY <1>2, <1>7 DEF gatewayObjects, GatewaysInSight
<1>8. CASE AdminCreate
  <2>1. PICK new \in Gateway : WriteGateway(new) /\ Moves(gateway, new) /\ new.labelled = FALSE
    BY <1>3, <1>5, <1>8, Zenon DEF AdminCreate
  <2> QED BY <1>6, <1>8, <2>1 DEF AdminCreate
<1>9. CASE AdminDelete
  BY <1>4, <1>6, <1>9 DEF AdminDelete
<1>10. CASE ImplementationReports
  <2>1. PICK new \in Gateway :
           /\ WriteGateway(new)
           /\ new.uid = gateway.uid /\ new.stored = gateway.stored
           /\ new.labelled = gateway.labelled /\ new.requested = gateway.requested
           /\ gateway.addresses # {} => new.addresses = gateway.addresses
    <3>1. \A b \in BOOLEAN :
             /\ [gateway EXCEPT !.rejected = b] \in Gateway
             /\ [gateway EXCEPT !.programmed = b] \in Gateway
      BY <1>1 DEF Gateway
    <3>2. \A a \in SUBSET Routability : [gateway EXCEPT !.addresses = a] \in Gateway
      BY <1>1 DEF Gateway
    <3>3. CASE WriteGateway([gateway EXCEPT !.rejected = TRUE])
      BY <1>1, <3>1, <3>3, Zenon DEF Gateway
    <3>4. CASE WriteGateway([gateway EXCEPT !.programmed = TRUE])
      BY <1>1, <3>1, <3>4, ZenonT(40) DEF Gateway
    <3>5. ASSUME NEW a \in SUBSET Routability, gateway.addresses = {},
                 WriteGateway([gateway EXCEPT !.addresses = a])
          PROVE  \E new \in Gateway :
                   /\ WriteGateway(new)
                   /\ new.uid = gateway.uid /\ new.stored = gateway.stored
                   /\ new.labelled = gateway.labelled /\ new.requested = gateway.requested
                   /\ gateway.addresses # {} => new.addresses = gateway.addresses
      BY <1>1, <3>2, <3>5 DEF Gateway
    <3> QED BY <1>10, <3>3, <3>4, <3>5, Zenon DEF ImplementationReports
  <2>2. Moves(gateway, new)
    BY <1>1, <1>2, <2>1 DEF Moves
  <2> QED BY <1>6, <1>10, <2>1, <2>2 DEF ImplementationReports
<1>11. CASE DeliverGateway
  <2>1. Events(gatewayWatch) = {Head(gatewayWatch)} \cup Events(Tail(gatewayWatch))
    BY <1>1, <1>11, TakeEvent DEF DeliverGateway, GatewayTypes
  <2> QED BY <1>2, <1>11, <2>1 DEF DeliverGateway, GatewaysInSight
<1>12. CASE CreateGateway
  <2>1. gatewayCache' = gatewayCache
    BY <1>12, Zenon DEF CreateGateway
  <2>2. CASE UNCHANGED <<gateway, gatewayWatch, provisioned>>
    BY <1>7, <2>1, <2>2 DEF gatewayObjects
  <2>3. CASE provisioned' = TRUE /\ \E r \in StoredRequests : gateway.uid < MaxGateways
                                       /\ WriteGateway(Fresh(gateway.uid + 1, TRUE, r))
    <3>1. PICK new \in Gateway : WriteGateway(new) /\ Moves(gateway, new)
      BY <1>3, <1>5, <2>3, GatewayAssumption, Zenon
    <3> QED BY <1>6, <2>1, <2>3, <3>1
  <2> QED BY <1>12, <2>2, <2>3, ZenonT(40) DEF CreateGateway
<1>13. CASE DeleteGateway
  <2>1. CASE UNCHANGED <<gateway, gatewayWatch>>
    BY <1>7, <1>13, <2>1 DEF DeleteGateway, gatewayObjects
  <2>2. CASE WriteGateway(Absent(gateway.uid))
    BY <1>4, <1>6, <1>13, <2>2 DEF DeleteGateway
  <2> QED BY <1>13, <2>1, <2>2, Zenon DEF DeleteGateway
<1>14. CASE GatewayRestart
  BY <1>2, <1>14, NoEvent DEF GatewayRestart, GatewaysInSight
<1> QED
  BY GatewaySteps, <1>7, <1>8, <1>9, <1>10, <1>11, <1>12, <1>13, <1>14, Zenon
  DEF gatewayState, GatewayEnvironment, EnsureRouterGateway, InstallClass, GatewayTimeout,
      CallerTimeout, GetGateway, GetGatewayClass, Call, EndCall

\* What a call may say after a step that moves it: it deletes what the
\* orchestrator has created, calls exposed only what is no longer stored, and
\* ready only what some copy shows to be so.
CallSays ==
    /\ call'.uid \in {0, call.uid} \cup {o.uid : o \in GatewaysInSight'}
    /\ call'.pc = "delete" => provisioned'
    /\ call'.pc = "returned" /\ call'.state = "exposed" => ~gateway'.stored
    /\ call'.pc = "returned" /\ call'.state = "ready"
          => /\ gatewayCache.stored /\ gatewayCache.uid = call'.uid
             /\ gatewayCache.labelled => isClusterRoutable(gatewayCache)

\* Every step leaves the call alone or moves it in that way.
LEMMA CallSteps ==
    ASSUME Typed, GatewayInv, [Next]_vars
    PROVE  call' = call \/ CallSays
<1>1. call \in CallType /\ GatewayTypes
  BY DEF Typed, GatewayTypeOK, CallType, GatewayTypes
<1>2. NoCall.uid = 0 /\ NoCall.pc = "idle"
  BY DEF NoCall
<1>3. ASSUME NEW st, NEW u, Answer(st, u)
      PROVE  call'.pc = "returned" /\ call'.state = st /\ call'.uid = u
  BY <1>1, <1>3 DEF Answer, CallType
<1>4. ASSUME Failure PROVE CallSays
  <2>1. call'.pc = "returned" /\ call'.state = "error" /\ call'.uid = call.uid
    BY <1>3, <1>4 DEF Failure
  <2> QED BY <2>1 DEF CallSays
<1>5. CASE GetGateway
  <2>1. UNCHANGED <<gatewayObjects, provisioned>> /\ GatewaysInSight' = GatewaysInSight
    BY <1>5 DEF GetGateway, gatewayObjects, GatewaysInSight
  <2>2. gatewayCache \in GatewaysInSight
    BY DEF GatewaysInSight
  <2>3. CASE call' = [call EXCEPT !.pc = "class"]
    BY <1>1, <2>3 DEF CallSays, CallType
  <2>4. CASE gatewayCache.stored /\ ~gatewayCache.labelled /\ Answer("ready", gatewayCache.uid)
    <3>1. call'.pc = "returned" /\ call'.state = "ready" /\ call'.uid = gatewayCache.uid
      BY <1>3, <2>4
    <3> QED BY <2>1, <2>2, <2>4, <3>1 DEF CallSays
  <2>5. CASE /\ gatewayCache.labelled
             /\ call' = [call EXCEPT !.pc = "delete", !.uid = gatewayCache.uid]
    <3>1. call'.pc = "delete" /\ call'.uid = gatewayCache.uid
      BY <1>1, <2>5 DEF CallType
    <3>2. provisioned
      BY <2>2, <2>5 DEF GatewayInv
    <3> QED BY <2>1, <2>2, <3>1, <3>2 DEF CallSays
  <2>6. ASSUME NEW st, st # "exposed", gatewayCache.stored, Answer(st, gatewayCache.uid),
               st = evaluateRouterGateway(gatewayCache, gatewayCache.uid \in overdue)
        PROVE  CallSays
    <3>1. call'.pc = "returned" /\ call'.state = st /\ call'.uid = gatewayCache.uid
      BY <1>3, <2>6
    <3>2. st = "ready" => isClusterRoutable(gatewayCache)
      BY <2>6 DEF evaluateRouterGateway
    <3> QED BY <2>1, <2>2, <2>6, <3>1, <3>2 DEF CallSays
  <2> QED BY <1>4, <1>5, <2>3, <2>4, <2>5, <2>6, Zenon DEF GetGateway
<1>6. CASE GetGatewayClass
  <2>1. CASE call' = [call EXCEPT !.pc = "create"]
    BY <1>1, <2>1 DEF CallSays, CallType
  <2>2. CASE Answer(missingGatewayClassState(call.caller \in late), call.uid)
    <3>1. /\ call'.uid = call.uid /\ call'.pc = "returned"
          /\ call'.state \in {"failed", "pending"}
      BY <1>3, <2>2 DEF missingGatewayClassState
    <3> QED BY <3>1 DEF CallSays
  <2> QED BY <1>4, <1>6, <2>1, <2>2, Zenon DEF GetGatewayClass
<1>7. CASE CreateGateway
  <2>1. CASE Answer("pending", call.uid)
    <3>1. call'.pc = "returned" /\ call'.state = "pending" /\ call'.uid = call.uid
      BY <1>3, <2>1
    <3> QED BY <3>1 DEF CallSays
  <2>2. ASSUME NEW r \in StoredRequests, NEW new, new = Fresh(gateway.uid + 1, TRUE, r),
               WriteGateway(new), provisioned',
               \/ Answer("pending", new.uid)
               \/ call' = [call EXCEPT !.pc = "delete", !.uid = new.uid]
        PROVE  CallSays
    <3>1. gateway' = new /\ gateway' \in GatewaysInSight'
      BY <2>2 DEF WriteGateway, GatewaysInSight
    <3>2. CASE Answer("pending", new.uid)
      <4>1. call'.pc = "returned" /\ call'.state = "pending" /\ call'.uid = new.uid
        BY <1>3, <3>2
      <4> QED BY <3>1, <4>1 DEF CallSays
    <3>3. CASE call' = [call EXCEPT !.pc = "delete", !.uid = new.uid]
      <4>1. call'.pc = "delete" /\ call'.uid = new.uid
        BY <1>1, <3>3 DEF CallType
      <4> QED BY <2>2, <3>1, <4>1, Zenon DEF CallSays
    <3> QED BY <2>2, <3>2, <3>3, Zenon
  <2>3. CASE provisioned' = TRUE /\ \E r \in StoredRequests :
               LET new == Fresh(gateway.uid + 1, TRUE, r) IN
               WriteGateway(new) /\ (\/ Answer("pending", new.uid)
                                     \/ call' = [call EXCEPT !.pc = "delete", !.uid = new.uid]
                                     \/ Failure)
    <3>1. provisioned'
      BY <2>3
    <3> QED BY <1>4, <2>2, <2>3, <3>1, Zenon
  <2> QED BY <1>4, <1>7, <2>1, <2>3, Zenon DEF CreateGateway
<1>8. CASE DeleteGateway
  <2>1. CASE WriteGateway(Absent(gateway.uid)) /\ Answer("exposed", call.uid)
    <3>1. ~gateway'.stored
      BY <2>1 DEF WriteGateway, Absent, Fresh
    <3>2. call'.pc = "returned" /\ call'.state = "exposed" /\ call'.uid = call.uid
      BY <1>3, <2>1
    <3> QED BY <3>1, <3>2 DEF CallSays
  <2> QED BY <1>4, <1>8, <2>1, Zenon DEF DeleteGateway
<1>9. CASE Call(worker.exec)
  <2>1. call'.pc = "get" /\ call'.uid = 0
    BY <1>9 DEF Call, NoCall
  <2> QED BY <2>1 DEF CallSays
<1>10. CASE call' = NoCall
  BY <1>2, <1>10 DEF CallSays
<1> QED
  BY GatewaySteps, <1>5, <1>6, <1>7, <1>8, <1>9, <1>10, Zenon
  DEF gatewayState, GatewayEnvironment, EnsureRouterGateway, AdminCreate, AdminDelete,
      ImplementationReports, DeliverGateway, InstallClass, GatewayTimeout, CallerTimeout,
      EndCall, GatewayRestart

\* Every step keeps what is known of the Gateway.
LEMMA GatewayNext ==
    ASSUME Typed, Typed', GatewayInv, [Next]_vars
    PROVE  GatewayInv'
<1>1. /\ gateway \in Gateway /\ gateway' \in Gateway /\ GatewaysInSight \subseteq Gateway
      /\ call \in CallType /\ call' \in CallType
  BY EventType DEF Typed, GatewayTypeOK, CallType, GatewaysInSight
<1>2. /\ Moves(gateway, gateway')
      /\ GatewaysInSight' \subseteq GatewaysInSight \cup {gateway'}
      /\ provisioned => provisioned'
      /\ gateway'.labelled => gateway.labelled \/ provisioned'
  BY GatewayMoves
<1>3. gateway \in GatewaysInSight
  BY DEF GatewaysInSight
<1>4. ASSUME NEW o \in GatewaysInSight' PROVE GatewayCopy(o, gateway') /\ (o.labelled => provisioned')
  BY <1>1, <1>2, <1>3, MovesKeeps DEF GatewayInv
<1>5. gateway.uid \in Nat /\ gateway'.uid \in Nat /\ call.uid \in Nat /\ call'.uid \in Nat
  BY <1>1, GatewayAssumption DEF Gateway, CallType, GatewayUids
<1>6. gateway.uid <= gateway'.uid
  BY <1>2 DEF Moves
<1>7. CASE call' = call
  <2>1. call'.uid <= gateway'.uid
    BY <1>5, <1>6, <1>7 DEF GatewayInv
  <2>2. call'.pc = "delete" => provisioned'
    BY <1>2, <1>7 DEF GatewayInv
  <2>3. ASSUME call'.pc = "returned", call'.state = "exposed", gateway'.stored
        PROVE  call'.uid < gateway'.uid
    <3>1. CASE gateway'.uid = gateway.uid
      <4>1. gateway.stored
        BY <1>2, <2>3, <3>1 DEF Moves
      <4> QED BY <1>5, <1>7, <2>3, <3>1, <4>1 DEF GatewayInv
    <3>2. CASE gateway'.uid # gateway.uid
      BY <1>5, <1>6, <1>7, <3>2 DEF GatewayInv
    <3> QED BY <3>1, <3>2
  <2> QED BY <1>4, <2>1, <2>2, <2>3 DEF GatewayInv
<1>8. CASE CallSays
  <2>1. call'.uid <= gateway'.uid
    <3>1. \A o \in GatewaysInSight' : o.uid <= gateway'.uid
      BY <1>4 DEF GatewayCopy
    <3>2. call.uid <= gateway.uid
      BY DEF GatewayInv
    <3>3. call'.uid = 0 \/ call'.uid = call.uid \/ \E o \in GatewaysInSight' : call'.uid = o.uid
      BY <1>8 DEF CallSays
    <3> QED BY <1>5, <1>6, <3>1, <3>2, <3>3
  <2>2. /\ call'.pc = "delete" => provisioned'
        /\ call'.pc = "returned" /\ call'.state = "exposed" => ~gateway'.stored
    BY <1>8 DEF CallSays
  <2> QED BY <1>4, <2>1, <2>2 DEF GatewayInv
<1> QED BY <1>7, <1>8, CallSteps

\* Nothing is in sight at first but the absence of a Gateway.
LEMMA GatewayInitially ==
    ASSUME Init
    PROVE  GatewayInv
<1>1. MaxGateways - landscape.gateways \in Nat
  BY LandscapeAssumption, GatewayAssumption DEF Init, Landscape, GatewayUids
<1>2. /\ gateway = Absent(MaxGateways - landscape.gateways) /\ gatewayWatch = << >>
      /\ gatewayCache = gateway /\ call = NoCall
  BY DEF Init, GatewayInit
<1>3. ~gateway.stored /\ ~gateway.labelled /\ gateway.uid \in Nat
  BY <1>1, <1>2 DEF Absent, Fresh
<1>4. GatewaysInSight = {gateway}
  BY <1>2, NoEvent DEF GatewaysInSight
<1> QED BY <1>2, <1>3, <1>4 DEF GatewayInv, GatewayCopy, NoCall

-----------------------------------------------------------------------------
(* What the call vouches for                                               *)

\* Faults, other steps of the worker and a restart vouch for nothing new.
LEMMA WorkerVouches ==
    ASSUME Typed, [Next]_vars
    PROVE  /\ worker'.gateway \in Vouched \cup {0}
           /\ checked' \in Vouched
<1>1. worker \in Reconcile
  BY DEF Typed, WorkTypes
<1>2. /\ \A pc : Continue(pc) => worker'.gateway = worker.gateway
      /\ \A c : Report(c) => worker'.gateway = worker.gateway
      /\ ReturnError => worker'.gateway = 0
      /\ Idle.gateway = 0
  <2>1. ASSUME NEW pc, Continue(pc) PROVE worker'.gateway = worker.gateway
    BY <1>1, <2>1 DEF Continue, Reconcile
  <2>2. ASSUME NEW c, Report(c) PROVE worker'.gateway = worker.gateway
    BY <1>1, <2>2 DEF Report, Reconcile
  <2>3. Idle.gateway = 0
    BY DEF Idle
  <2> QED BY <2>1, <2>2, <2>3 DEF ReturnError
<1>3. worker.gateway \in Vouched /\ checked \in Vouched
  BY DEF Vouched
<1>4. CASE UNCHANGED <<worker, checked>>
  BY <1>3, <1>4
<1>5. ASSUME NEW e \in Executions, Start(e)
      PROVE  worker'.gateway = 0 /\ checked' = checked
  BY <1>2, <1>5 DEF Start, Idle, histVars
<1>6. CASE Check
  BY <1>2, <1>3, <1>6, Zenon DEF Check, histVars
<1>7. CASE DeleteRoute
  BY <1>2, <1>3, <1>7, Zenon DEF DeleteRoute, histVars
<1>8. CASE GetStage
  <2>1. worker' = [worker EXCEPT !.pc = "patchStage", !.finalizers = stageCache.finalizers]
           => worker'.gateway = worker.gateway
    BY <1>1 DEF Reconcile
  <2> QED BY <1>2, <1>3, <1>8, <2>1, Zenon DEF GetStage, histVars
<1>9. CASE PatchStage
  BY <1>2, <1>3, <1>9, Zenon DEF PatchStage, histVars
<1>10. CASE CallGateway
  BY <1>2, <1>3, <1>10, Zenon DEF CallGateway, histVars
<1>11. CASE GatewayAnswered
  <2>1. worker' = [worker EXCEPT !.pc = "getRoute", !.gateway = call.uid]
           => worker'.gateway = call.uid
    BY <1>1 DEF Reconcile
  <2>2. call.pc = "returned" /\ call.state = "ready" => call.uid \in Vouched
    BY DEF Vouched
  <2> QED BY <1>2, <1>3, <1>11, <2>1, <2>2, Zenon DEF GatewayAnswered, EndCall, histVars
<1>12. CASE GetRoute
  <2>1. worker' = [worker EXCEPT !.pc = "writeRoute", !.route = routeCache,
                                 !.current = (routeWatch = << >>)]
           => worker'.gateway = worker.gateway
    BY <1>1 DEF Reconcile
  <2> QED BY <1>2, <1>3, <1>12, <2>1, Zenon DEF GetRoute, histVars
<1>13. CASE ApplyRoute
  BY <1>2, <1>3, <1>13, Zenon DEF ApplyRoute
<1>14. CASE PatchStatus
  BY <1>2, <1>3, <1>14, Zenon DEF PatchStatus, ReturnError
<1>15. CASE Restart
  BY <1>2, <1>3, <1>15, Zenon DEF Restart, histVars
<1> QED
  BY <1>3, <1>4, <1>5, <1>6, <1>7, <1>8, <1>9, <1>10, <1>11, <1>12, <1>13, <1>14, <1>15, Zenon
  DEF Next, Users, Deliver, Step, Clean, Surroundings, Beside, routeSide, vars, workVars, histVars,
      CreateExecution, DeleteStage, SetActive, PruneVersion, AddForeign, ReleaseForeign,
      DeliverStage, DeliverRoute, DeliverCond, DeliverVersion, CleanStart, CleanRoute, ReleaseStage

\* A Gateway found ready was so in the informer's copy, and what made it so does
\* not change while it is stored.
LEMMA VouchNext ==
    ASSUME Typed, Typed', GatewayInv, VouchInv, [Next]_vars
    PROVE  VouchInv'
<1> DEFINE Good(u) == /\ u <= gateway.uid
                      /\ gateway.stored /\ gateway.labelled /\ gateway.uid = u
                            => isClusterRoutable(gateway)
           GoodNext(u) == /\ u <= gateway'.uid
                          /\ gateway'.stored /\ gateway'.labelled /\ gateway'.uid = u
                                => isClusterRoutable(gateway')
<1>1. /\ gateway \in Gateway /\ gateway' \in Gateway /\ gatewayCache \in Gateway
      /\ gateway.uid \in Nat /\ gatewayCache.uid \in GatewayUids
  BY GatewayAssumption DEF Typed, GatewayTypeOK, Gateway, GatewayUids
<1>2. Vouched \subseteq GatewayUids
  BY DEF Vouched, Typed, GatewayTypeOK, WorkTypes, HistTypes, Reconcile
<1>3. \A u \in GatewayUids : Good(u) => GoodNext(u)
  BY <1>1, GatewayMoves, MovesKeeps
<1>4. \A u \in Vouched : GoodNext(u)
  BY <1>2, <1>3 DEF VouchInv
<1>5. GatewayCopy(gatewayCache, gateway) /\ GatewayCopy(gateway, gateway)
  BY DEF GatewayInv, GatewaysInSight
<1>6. GoodNext(0)
  <2>1. Good(0) /\ 0 \in GatewayUids
    BY <1>1, <1>5, GatewayAssumption DEF GatewayCopy, GatewayUids
  <2> QED BY <1>3, <2>1
<1>7. ASSUME call'.pc = "returned", call'.state = "ready" PROVE GoodNext(call'.uid)
  <2>1. CASE call' = call
    <3>1. call'.uid \in Vouched
      BY <1>7, <2>1 DEF Vouched
    <3> QED BY <1>4, <3>1
  <2>2. CASE CallSays
    <3>1. /\ gatewayCache.stored /\ gatewayCache.uid = call'.uid
          /\ gatewayCache.labelled => isClusterRoutable(gatewayCache)
      BY <1>7, <2>2 DEF CallSays
    <3>2. Good(gatewayCache.uid)
      BY <1>1, <1>5, <3>1 DEF GatewayCopy, isClusterRoutable, requestsClusterRoutability
    <3> QED BY <1>1, <1>3, <3>1, <3>2
  <2> QED BY <2>1, <2>2, CallSteps
<1>8. worker'.gateway \in Vouched \cup {0} /\ checked' \in Vouched
  BY WorkerVouches
<1>9. \A u \in Vouched' : u = worker'.gateway \/ u = checked'
                         \/ (call'.pc = "returned" /\ call'.state = "ready" /\ u = call'.uid)
  BY DEF Vouched
<1>10. \A u \in Vouched' : GoodNext(u)
  BY <1>4, <1>6, <1>7, <1>8, <1>9
<1> QED BY <1>10 DEF VouchInv, isClusterRoutable, requestsClusterRoutability

\* What is known of the Gateway and what the call vouches for, together.
LEMMA GatewaySafe == Spec => [](Typed /\ GatewayInv /\ VouchInv)
<1>1. Init => Typed /\ GatewayInv /\ VouchInv
  <2> SUFFICES ASSUME Init PROVE VouchInv
    BY TypedInit, GatewayInitially
  <2>1. Vouched = {0}
    BY DEF Init, GatewayInit, Vouched, NoCall, Idle
  <2>2. gateway \in Gateway /\ GatewayCopy(gateway, gateway)
    BY TypedInit, GatewayInitially DEF Typed, GatewayTypeOK, GatewayInv, GatewaysInSight
  <2>3. 0 <= gateway.uid
    BY <2>2, GatewayAssumption DEF Gateway, GatewayUids
  <2> QED BY <2>1, <2>2, <2>3 DEF VouchInv, GatewayCopy
<1>2. Typed /\ GatewayInv /\ VouchInv /\ [Next]_vars => (Typed /\ GatewayInv /\ VouchInv)'
  BY TypedNext, GatewayNext, VouchNext
<1> QED BY <1>1, <1>2, PTL DEF Spec

\* A Gateway that ensureRouterGateway reports as exposed is no longer stored,
\* whatever the admin, the implementation, a lost answer or a restart did to the
\* name in the meantime.
THEOREM ExposedDeleted == Spec => []ExposedIsDeleted
<1>1. Typed /\ GatewayInv => ExposedIsDeleted
  <2> SUFFICES ASSUME Typed, GatewayInv PROVE ExposedIsDeleted
    OBVIOUS
  <2>1. call.uid \in Nat /\ gateway.uid \in Nat
    BY GatewayAssumption DEF Typed, GatewayTypeOK, Gateway, GatewayUids
  <2> QED BY <2>1 DEF ExposedIsDeleted, GatewayInv
<1> QED BY <1>1, GatewaySafe, PTL

\* Routes are withheld until every assigned address is cluster-routable: the
\* Gateway that was found ready for the stored route has no other address.
THEOREM RoutesAreWithheld == Spec => []RoutesWithheld
<1>1. VouchInv => RoutesWithheld
  BY DEF VouchInv, Vouched, RoutesWithheld, isClusterRoutable, requestsClusterRoutability
<1> QED BY <1>1, GatewaySafe, PTL

\* ensureRouterGateway leaves an admin's Gateway alone where the orchestrator
\* has provisioned none: a deletion is decided only on a Gateway with the label.
THEOREM AdminGatewayKept == Spec => FirstAdminGatewayKept
<1>1. ASSUME Typed, GatewayInv, [Next]_vars,
             call.pc \in {"get", "class", "create", "delete"}, call' # call, call'.pc # "idle",
             gateway.stored, ~gateway.labelled, ~provisioned
      PROVE  gateway' = gateway
  <2>1. call.pc # "delete"
    BY <1>1 DEF GatewayInv
  <2>2. NoCall.pc = "idle"
    BY DEF NoCall
  <2> QED
    BY <1>1, <2>1, <2>2, GatewaySteps, Zenon
    DEF gatewayState, gatewayObjects, GatewayEnvironment, EnsureRouterGateway, AdminCreate,
        AdminDelete, ImplementationReports, DeliverGateway, InstallClass, GatewayTimeout,
        CallerTimeout, GetGateway, GetGatewayClass, CreateGateway, DeleteGateway, Call, EndCall,
        GatewayRestart
<1>2. Typed /\ GatewayInv /\ [Next]_vars
        => [call.pc \in {"get", "class", "create", "delete"} /\ call' # call /\ call'.pc # "idle"
              /\ gateway.stored /\ ~gateway.labelled /\ ~provisioned
            => gateway' = gateway]_gatewayVars
  BY <1>1
<1> QED BY <1>2, GatewaySafe, PTL DEF Spec, FirstAdminGatewayKept

-----------------------------------------------------------------------------
(* The Stage: how it moves on                                              *)

\* The active version of a Stage is a number.
LEMMA ActiveNumber == \A o \in Stage : o.active \in Nat
<1>1. \A o \in Stage : o.active \in Executions \cup {0}
  BY DEF Stage
<1>2. \A e \in Executions \cup {0} : e \in Nat
  BY ExecutionNumbers
<1> QED BY <1>1, <1>2

\* The Stages that follow each other are copies of each other.
LEMMA StageOrder ==
    ASSUME NEW o \in Stage, NEW s \in Stage, NEW t \in Stage
    PROVE  /\ StageCopy(s, s)
           /\ StageCopy(o, s) /\ StageCopy(s, t) => StageCopy(o, t)
<1>1. o.active \in Nat /\ s.active \in Nat /\ t.active \in Nat
  BY ActiveNumber
<1> QED BY <1>1 DEF StageCopy

\* A write after everything the informer has yet to see keeps the order.
LEMMA AscendingAppend ==
    ASSUME NEW c, NEW w \in Seq(Stage), NEW new \in Stage, Ascending(c, w),
           c.active <= new.active, \A o \in Events(w) : o.active <= new.active
    PROVE  Ascending(c, Append(w, new))
<1> DEFINE v == Append(w, new)
<1>1. /\ Len(w) \in Nat /\ Len(v) = Len(w) + 1 /\ v[Len(w) + 1] = new
      /\ \A i \in 1..Len(w) : v[i] = w[i]
  OBVIOUS
<1>2. Events(v) = Events(w) \cup {new}
  BY SendEvent
<1>3. new.active \in Nat
  BY ActiveNumber
<1> HIDE DEF v
<1>4. ASSUME NEW i \in 1..Len(v), NEW j \in 1..Len(v), i <= j
      PROVE  v[i].active <= v[j].active
  <2>1. CASE j \in 1..Len(w)
    <3>1. i \in 1..Len(w)
      BY <1>1, <1>4, <2>1
    <3> QED BY <1>1, <1>4, <2>1, <3>1 DEF Ascending
  <2>2. CASE j = Len(w) + 1
    <3>1. i = Len(w) + 1 \/ i \in 1..Len(w)
      BY <1>1
    <3>2. i \in 1..Len(w) => v[i] \in Events(w)
      BY <1>1 DEF Events
    <3> QED BY <1>1, <1>3, <2>2, <3>1, <3>2
  <2> QED BY <1>1, <2>1, <2>2
<1> QED BY <1>2, <1>4 DEF Ascending, v

\* Delivering the next event moves the informer on.
LEMMA AscendingTail ==
    ASSUME NEW c, NEW w \in Seq(Stage), Ascending(c, w), w # << >>
    PROVE  c.active <= Head(w).active /\ Ascending(Head(w), Tail(w))
<1> DEFINE t == Tail(w)
<1>1. /\ Len(w) \in Nat \ {0} /\ Head(w) = w[1] /\ t \in Seq(Stage) /\ Len(t) = Len(w) - 1
      /\ \A i \in 1..Len(t) : t[i] = w[i + 1]
  OBVIOUS
<1>2. 1 \in 1..Len(w) /\ \A i \in 1..Len(t) : i + 1 \in 1..Len(w) /\ 1 <= i + 1
  BY <1>1
<1>3. Head(w) \in Events(w)
  BY TakeEvent
<1>4. \A i, j \in 1..Len(t) : i <= j => i + 1 <= j + 1
  BY <1>1
<1> HIDE DEF t
<1>5. \A o \in Events(t) : Head(w).active <= o.active
  BY <1>1, <1>2 DEF Ascending, Events
<1>6. \A i, j \in 1..Len(t) : i <= j => t[i].active <= t[j].active
  BY <1>1, <1>2, <1>4, Zenon DEF Ascending
<1> QED BY <1>3, <1>5, <1>6 DEF Ascending, t

\* A write that moves the Stage on keeps the order and puts one more Stage in
\* sight.
LEMMA StageWritten ==
    ASSUME Typed, StageInv, NEW new \in Stage, WriteStage(new), stageCache' = stageCache,
           StageCopy(stage, new)
    PROVE  /\ stage' = new /\ StageCopy(stage, stage')
           /\ StagesInSight' \subseteq StagesInSight \cup {stage'}
           /\ Ascending(stageCache', stageWatch')
<1>1. stage \in Stage /\ stageWatch \in Seq(Stage) /\ stageCache \in Stage
  BY DEF Typed, StageTypes
<1>2. Events(stageWatch) \subseteq Stage
  BY <1>1, EventType
<1>3. \A o \in StagesInSight : o \in Stage /\ StageCopy(o, new)
  BY <1>1, <1>2, StageOrder DEF StageInv, StagesInSight
<1>4. CASE new = stage
  BY <1>4 DEF WriteStage, Emit, StagesInSight, StageInv
<1>5. CASE new # stage
  <2>1. stageWatch' = Append(stageWatch, new) /\ stage' = new
    BY <1>5 DEF WriteStage, Emit
  <2>2. Events(stageWatch') = Events(stageWatch) \cup {new}
    BY <1>1, <2>1, SendEvent
  <2>3. Ascending(stageCache, Append(stageWatch, new))
    BY <1>1, <1>3, AscendingAppend DEF StageInv, StagesInSight, StageCopy
  <2> QED BY <2>1, <2>2, <2>3 DEF StagesInSight
<1> QED BY <1>4, <1>5

\* No step takes the Stage back: a deletion is final, finalizers only leave a
\* Stage that is being deleted, and the route's does not leave a live one.
LEMMA StageMoves ==
    ASSUME Typed, StageInv, [Next]_vars
    PROVE  /\ StageCopy(stage, stage')
           /\ StagesInSight' \subseteq StagesInSight \cup {stage'}
           /\ Ascending(stageCache', stageWatch')
           /\ stageCache.active <= stageCache'.active
<1> DEFINE Goal == /\ StageCopy(stage, stage')
                   /\ StagesInSight' \subseteq StagesInSight \cup {stage'}
                   /\ Ascending(stageCache', stageWatch')
                   /\ stageCache.active <= stageCache'.active
<1>1. /\ stage \in Stage /\ stageWatch \in Seq(Stage) /\ stageCache \in Stage
      /\ stage.active \in Nat /\ stageCache.active \in Nat /\ StageCopy(stage, stage)
      /\ stage.finalizers \in SUBSET Finalizers
  <2>1. stage \in Stage /\ stageWatch \in Seq(Stage) /\ stageCache \in Stage
    BY DEF Typed, StageTypes
  <2>2. stage.finalizers \in SUBSET Finalizers
    BY <2>1 DEF Stage
  <2> QED BY <2>1, <2>2, ActiveNumber, StageOrder
<1>2. ASSUME UNCHANGED stageVars PROVE Goal
  BY <1>1, <1>2 DEF stageVars, StagesInSight, StageInv
<1>3. ASSUME NEW new \in Stage, WriteStage(new), stageCache' = stageCache, StageCopy(stage, new)
      PROVE  Goal
  BY <1>1, <1>3, StageWritten
<1>4. ASSUME NEW f \in SUBSET Finalizers, stage.phase = "deleting", f \subseteq stage.finalizers
      PROVE  WithFinalizers(stage, f) \in Stage /\ StageCopy(stage, WithFinalizers(stage, f))
  <2>1. PICK new : new = WithFinalizers(stage, f)
    OBVIOUS
  <2>2. new.finalizers = f /\ new.active = stage.active /\ new.phase \in {"deleting", "gone"}
    BY <1>1, <1>4, <2>1 DEF WithFinalizers, Stage
  <2> QED BY <1>1, <1>4, <2>1, <2>2, FinalizerTypes DEF StageCopy
<1>5. ASSUME NEW e \in Executions, SetActive(e) PROVE Goal
  <2>1. PICK new : new = [stage EXCEPT !.active = e]
    BY Zenon
  <2>2. new \in Stage /\ new.phase = stage.phase /\ new.finalizers = stage.finalizers /\ new.active = e
    BY <1>1, <2>1 DEF Stage
  <2>3. StageCopy(stage, new)
    BY <1>1, <1>5, <2>2, ExecutionNumbers DEF StageCopy, SetActive
  <2> QED BY <1>3, <1>5, <2>1, <2>2, <2>3 DEF SetActive
<1>6. ASSUME DeleteStage PROVE Goal
  <2>1. PICK new : new = WithFinalizers([stage EXCEPT !.phase = "deleting"], stage.finalizers)
    OBVIOUS
  <2>2. /\ new \in Stage /\ new.finalizers = stage.finalizers /\ new.active = stage.active
        /\ new.phase \in {"deleting", "gone"}
    BY <1>1, <2>1, Zenon DEF WithFinalizers, Stage
  <2>3. StageCopy(stage, new)
    BY <1>1, <1>6, <2>2 DEF StageCopy, DeleteStage
  <2> QED BY <1>3, <1>6, <2>1, <2>2, <2>3 DEF DeleteStage
<1>7. ASSUME AddForeign PROVE Goal
  <2>1. PICK new : new = [stage EXCEPT !.finalizers = @ \cup {"foreign"}]
    BY Zenon
  <2>2. /\ new \in Stage /\ new.finalizers = stage.finalizers \cup {"foreign"}
        /\ new.active = stage.active /\ new.phase = stage.phase
    BY <1>1, <2>1 DEF Stage, Finalizers
  <2>3. StageCopy(stage, new)
    BY <1>1, <1>7, <2>2 DEF StageCopy, AddForeign
  <2> QED BY <1>3, <1>7, <2>1, <2>2, <2>3 DEF AddForeign
<1>8. ASSUME ReleaseForeign PROVE Goal
  <2>1. stage.finalizers \ {"foreign"} \in SUBSET Finalizers
    BY <1>1
  <2> QED BY <1>3, <1>4, <1>8, <2>1 DEF ReleaseForeign
<1>9. ASSUME DeliverStage PROVE Goal
  <2>1. /\ Events(stageWatch) = {Head(stageWatch)} \cup Events(Tail(stageWatch))
    BY <1>1, <1>9, TakeEvent DEF DeliverStage
  <2>2. stageCache.active <= Head(stageWatch).active /\ Ascending(Head(stageWatch), Tail(stageWatch))
    BY <1>1, <1>9, AscendingTail DEF DeliverStage, StageInv
  <2> QED BY <1>1, <1>9, <2>1, <2>2 DEF DeliverStage, StagesInSight
<1>10. ASSUME PatchStage PROVE Goal
  <2>1. PICK f : f = worker.finalizers \cup {"route"}
    BY Zenon
  <2>2. f \in SUBSET Finalizers /\ "route" \in f
    BY <2>1 DEF Typed, WorkTypes, Reconcile, Finalizers
  <2>3. CASE UNCHANGED <<stage, stageWatch>>
    BY <1>2, <1>10, <2>3 DEF PatchStage, stageVars
  <2>4. CASE WriteStage(WithFinalizers(stage, f)) /\ stage.phase = "live"
    <3>1. PICK new : new = WithFinalizers(stage, f)
      OBVIOUS
    <3>2. /\ new \in Stage /\ new.finalizers = f /\ new.active = stage.active /\ new.phase = "live"
      BY <1>1, <2>2, <2>4, <3>1, Zenon DEF WithFinalizers, Stage
    <3>3. StageCopy(stage, new)
      BY <1>1, <2>2, <2>4, <3>2 DEF StageCopy
    <3> QED BY <1>3, <1>10, <2>4, <3>1, <3>2, <3>3 DEF PatchStage
  <2>5. CASE WriteStage(WithFinalizers(stage, f)) /\ stage.phase = "deleting" /\ f \subseteq stage.finalizers
    BY <1>3, <1>4, <1>10, <2>2, <2>5 DEF PatchStage
  <2> QED BY <1>10, <2>1, <2>3, <2>4, <2>5, Zenon DEF PatchStage, Patchable
<1>11. ASSUME ReleaseStage PROVE Goal
  <2>1. PICK f : f = cleaner.finalizers \ {"route"}
    BY Zenon
  <2>2. f \in SUBSET Finalizers /\ stage.phase # "live"
    BY <1>11, <2>1, Zenon DEF Typed, CleanTypes, StageInv, ReleaseStage
  <2>3. CASE UNCHANGED <<stage, stageWatch>>
    BY <1>2, <1>11, <2>3, Zenon DEF ReleaseStage, stageVars
  <2>4. CASE WriteStage(WithFinalizers(stage, f)) /\ stage.phase = "deleting" /\ f \subseteq stage.finalizers
    BY <1>3, <1>4, <1>11, <2>2, <2>4, Zenon DEF ReleaseStage
  <2> QED BY <1>11, <2>1, <2>2, <2>3, <2>4, Zenon DEF ReleaseStage, Patchable
<1>12. ASSUME Restart PROVE Goal
  <2>1. stageCache.active <= stage.active
    BY Zenon DEF StageInv, StagesInSight, StageCopy
  <2>2. Ascending(stage, << >>)
    BY NoEvent DEF Ascending
  <2> QED BY <1>1, <1>12, <2>1, <2>2, NoEvent, Zenon DEF Restart, StagesInSight
<1> QED
  BY <1>2, <1>5, <1>6, <1>7, <1>8, <1>9, <1>10, <1>11, <1>12, ZenonT(40)
  DEF Next, Users, Deliver, Step, Clean, Surroundings, Beside, routeSide, vars, CreateExecution,
      PruneVersion, DeliverRoute, DeliverCond, DeliverVersion, Start, Check, DeleteRoute,
      GetStage, CallGateway, GatewayAnswered, GetRoute, ApplyRoute, PatchStatus, CleanStart,
      CleanRoute

-----------------------------------------------------------------------------
(* The reconciles around the Stage                                         *)

\* The next step of the same reconcile.
SameReconcile ==
    /\ worker'.exec = worker.exec /\ worker'.original = worker.original
    /\ worker'.floor = worker.floor /\ worker'.known = worker.known

\* How a step of a reconcile ends, field by field.
LEMMA WorkerEnds ==
    ASSUME Typed
    PROVE  /\ \A pc : Continue(pc) => SameReconcile /\ worker'.pc = pc
           /\ \A c : Report(c) => SameReconcile /\ worker'.pc = "status" /\ worker'.wanted = c
           /\ Idle.pc = "idle" /\ Idle.floor = 0 /\ Idle.known = {}
           /\ worker' = [worker EXCEPT !.pc = "patchStage", !.finalizers = stageCache.finalizers]
                 => SameReconcile /\ worker'.pc = "patchStage"
           /\ worker' = [worker EXCEPT !.pc = "getRoute", !.gateway = call.uid]
                 => SameReconcile /\ worker'.pc = "getRoute"
           /\ worker' = [worker EXCEPT !.pc = "writeRoute", !.route = routeCache,
                                       !.current = (routeWatch = << >>)]
                 => SameReconcile /\ worker'.pc = "writeRoute"
<1>1. worker \in Reconcile
  BY DEF Typed, WorkTypes
<1>2. ASSUME NEW pc, Continue(pc) PROVE SameReconcile /\ worker'.pc = pc
  BY <1>1, <1>2 DEF Continue, Reconcile, SameReconcile
<1>3. ASSUME NEW c, Report(c)
      PROVE  SameReconcile /\ worker'.pc = "status" /\ worker'.wanted = c
  BY <1>1, <1>3 DEF Report, Reconcile, SameReconcile
<1>4. Idle.pc = "idle" /\ Idle.floor = 0 /\ Idle.known = {}
  BY DEF Idle
<1>5. ASSUME NEW f, worker' = [worker EXCEPT !.pc = "patchStage", !.finalizers = f]
      PROVE  SameReconcile /\ worker'.pc = "patchStage"
  BY <1>1, <1>5 DEF Reconcile, SameReconcile
<1>6. ASSUME NEW u, worker' = [worker EXCEPT !.pc = "getRoute", !.gateway = u]
      PROVE  SameReconcile /\ worker'.pc = "getRoute"
  BY <1>1, <1>6 DEF Reconcile, SameReconcile
<1>7. ASSUME NEW r, NEW b, worker' = [worker EXCEPT !.pc = "writeRoute", !.route = r, !.current = b]
      PROVE  SameReconcile /\ worker'.pc = "writeRoute"
  BY <1>1, <1>7 DEF Reconcile, SameReconcile
<1>8. /\ worker' = [worker EXCEPT !.pc = "patchStage", !.finalizers = stageCache.finalizers]
            => SameReconcile /\ worker'.pc = "patchStage"
      /\ worker' = [worker EXCEPT !.pc = "getRoute", !.gateway = call.uid]
            => SameReconcile /\ worker'.pc = "getRoute"
  BY <1>5, <1>6, Zenon
<1>9. worker' = [worker EXCEPT !.pc = "writeRoute", !.route = routeCache,
                               !.current = (routeWatch = << >>)]
         => SameReconcile /\ worker'.pc = "writeRoute"
  BY <1>7, Zenon
<1> QED BY <1>2, <1>3, <1>4, <1>8, <1>9, Zenon

\* What a step may do to the reconcile: a new one takes note of the informer's
\* active version and StageVersions, only Check lets one pass on to the route, and only
\* ensureStageFinalizer on to the Gateway and the route.
WorkerMoves ==
    /\ \/ worker'.floor \in {0, worker.floor}
       \/ worker'.floor = stageCache.active /\ stageCache' = stageCache
    /\ \/ worker'.known \in {{}, worker.known}
       \/ worker'.known = versions /\ UNCHANGED <<versions, unseen, created>>
    /\ worker'.pc \in Cleared
          => /\ worker'.floor = worker.floor /\ worker'.exec = worker.exec
             /\ worker'.known = worker.known
             /\ \/ worker.pc \in Cleared
                \/ /\ worker.pc = "check" /\ ~isSuperseded(worker.exec)
                   /\ UNCHANGED <<stageVars, envVars>>
    /\ worker'.pc \in Finalized
          => \/ worker.pc \in Finalized
             \/ "route" \in stageCache.finalizers /\ stage' = stage
             \/ "route" \in stage'.finalizers

\* Every step moves it in that way.
LEMMA WorkerSteps ==
    ASSUME Typed, [Next]_vars
    PROVE  WorkerMoves
<1>1. \A pc \in {"idle", "check", "status"} : pc \notin Cleared /\ pc \notin Finalized
  BY DEF Cleared, Finalized
<1>2. /\ \A pc \in Finalized : pc \in Cleared
      /\ \A pc \in {"gateway", "gatewayCall", "getRoute", "writeRoute"} : pc \in Finalized
      /\ \A pc \in {"deleteRoute", "getStage", "patchStage"} : pc \in Cleared /\ pc \notin Finalized
  BY DEF Cleared, Finalized
<1>3. ASSUME worker' = worker PROVE WorkerMoves
  BY <1>2, <1>3 DEF WorkerMoves
<1>4. ASSUME worker' = Idle PROVE WorkerMoves
  BY <1>1, <1>4, WorkerEnds DEF WorkerMoves
<1>5. ASSUME NEW c, Report(c) PROVE WorkerMoves
  <2>1. worker'.floor = worker.floor /\ worker'.known = worker.known /\ worker'.pc = "status"
    BY <1>5, WorkerEnds DEF SameReconcile
  <2> QED BY <1>1, <2>1 DEF WorkerMoves
<1>6. ASSUME NEW pc, SameReconcile, worker'.pc = pc, worker.pc \in Cleared,
             pc \in Finalized => worker.pc \in Finalized
      PROVE  WorkerMoves
  BY <1>6 DEF WorkerMoves, SameReconcile
<1>7. ASSUME NEW e \in Executions, Start(e) PROVE WorkerMoves
  <2>1. CASE worker' = Idle
    BY <1>4, <2>1
  <2>2. CASE worker' = [Idle EXCEPT !.pc = "check", !.exec = e, !.original = condCache[e],
                                    !.floor = stageCache.active, !.known = versions]
    <3>1. worker'.pc = "check" /\ worker'.floor = stageCache.active /\ worker'.known = versions
      BY <2>2 DEF Idle
    <3>2. stageCache' = stageCache /\ UNCHANGED <<versions, unseen, created>>
      BY <1>7 DEF Start, stageVars, envVars
    <3> QED BY <1>1, <3>1, <3>2 DEF WorkerMoves
  <2> QED BY <1>7, <2>1, <2>2, Zenon DEF Start
<1>8. ASSUME Check PROVE WorkerMoves
  <2>1. worker.pc = "check" /\ UNCHANGED <<stageVars, envVars>>
    BY <1>8, Zenon DEF Check
  <2>2. ASSUME NEW pc \in {"deleteRoute", "getStage"}, ~isSuperseded(worker.exec), Continue(pc)
        PROVE  WorkerMoves
    <3>1. SameReconcile /\ worker'.pc = pc
      BY <2>2, WorkerEnds
    <3> QED BY <1>2, <2>1, <2>2, <3>1 DEF WorkerMoves, SameReconcile
  <2> QED BY <1>4, <1>5, <1>8, <2>2, Zenon DEF Check, ReturnError
<1>9. ASSUME DeleteRoute PROVE WorkerMoves
  BY <1>4, <1>5, <1>9, Zenon DEF DeleteRoute, ReturnError
<1>10. ASSUME GetStage PROVE WorkerMoves
  <2>1. worker.pc \in Cleared /\ stage' = stage
    BY <1>2, <1>10 DEF GetStage, stageVars
  <2>2. ASSUME NEW pc, Continue(pc), "route" \in stageCache.finalizers PROVE WorkerMoves
    <3>1. SameReconcile
      BY <2>2, WorkerEnds
    <3> QED BY <2>1, <2>2, <3>1 DEF WorkerMoves, SameReconcile
  <2>3. ASSUME worker' = [worker EXCEPT !.pc = "patchStage", !.finalizers = stageCache.finalizers]
        PROVE  WorkerMoves
    <3>1. SameReconcile /\ worker'.pc = "patchStage"
      BY <2>3, WorkerEnds
    <3> QED BY <1>2, <1>6, <2>1, <3>1
  <2> QED BY <1>4, <1>10, <2>2, <2>3, Zenon DEF GetStage, ReturnError
<1>11. ASSUME PatchStage PROVE WorkerMoves
  <2>1. worker.pc \in Cleared
    BY <1>2, <1>11 DEF PatchStage
  <2>2. ASSUME NEW pc, Continue(pc), WriteStage(WithFinalizers(stage, worker.finalizers \cup {"route"}))
        PROVE  WorkerMoves
    <3>1. SameReconcile
      BY <2>2, WorkerEnds
    <3>2. "route" \in stage'.finalizers
      BY <2>2 DEF WriteStage, WithFinalizers, Typed, StageTypes, Stage
    <3> QED BY <2>1, <3>1, <3>2 DEF WorkerMoves, SameReconcile
  <2> QED BY <1>4, <1>11, <2>2, ZenonT(40) DEF PatchStage, ReturnError
<1>12. ASSUME CallGateway PROVE WorkerMoves
  <2>1. worker.pc \in Cleared /\ worker.pc \in Finalized
    BY <1>2, <1>12 DEF CallGateway
  <2>2. SameReconcile
    BY <1>12, WorkerEnds, Zenon DEF CallGateway
  <2> QED BY <1>6, <2>1, <2>2
<1>13. ASSUME GatewayAnswered PROVE WorkerMoves
  <2>1. worker.pc \in Cleared /\ worker.pc \in Finalized
    BY <1>2, <1>13 DEF GatewayAnswered
  <2> QED BY <1>4, <1>5, <1>6, <1>13, <2>1, WorkerEnds, Zenon DEF GatewayAnswered, ReturnError
<1>14. ASSUME GetRoute PROVE WorkerMoves
  <2>1. worker.pc \in Cleared /\ worker.pc \in Finalized
    BY <1>2, <1>14 DEF GetRoute
  <2> QED BY <1>4, <1>5, <1>6, <1>14, <2>1, WorkerEnds, Zenon DEF GetRoute, ReturnError
<1>15. ASSUME ApplyRoute PROVE WorkerMoves
  BY <1>4, <1>5, <1>15, Zenon DEF ApplyRoute, ReturnError
<1>16. ASSUME PatchStatus PROVE WorkerMoves
  BY <1>4, <1>16, Zenon DEF PatchStatus, ReturnError
<1>17. ASSUME Restart PROVE WorkerMoves
  BY <1>4, <1>17, Zenon DEF Restart
<1> QED
  BY <1>3, <1>7, <1>8, <1>9, <1>10, <1>11, <1>12, <1>13, <1>14, <1>15, <1>16, <1>17, ZenonT(40)
  DEF Next, Users, Deliver, Step, Clean, Surroundings, Beside, routeSide, vars, workVars,
      CreateExecution, DeleteStage, SetActive, PruneVersion, AddForeign, ReleaseForeign,
      DeliverStage, DeliverRoute, DeliverCond, DeliverVersion, CleanStart, CleanRoute, ReleaseStage

\* The cleanup works on the finalizers of a copy that was being deleted.
CleanerMoves ==
    \/ cleaner'.pc = "idle"
    \/ cleaner'.finalizers = cleaner.finalizers /\ cleaner.pc # "idle"
    \/ /\ cleaner'.finalizers = stageCache.finalizers /\ stageCache.phase = "deleting"
       /\ stage' = stage

\* The other moves around the Stage: the cleanup's, the route's, which only
\* ApplyRoute sets, and the landscape, which stays.
LEMMA OtherSteps ==
    ASSUME Typed, [Next]_vars
    PROVE  /\ CleanerMoves
           /\ route' \in {route, NoRoute} \/ (worker.pc = "writeRoute" /\ stage' = stage)
           /\ landscape' = landscape
<1>1. CleanIdle.pc = "idle"
  BY DEF CleanIdle
<1>2. ASSUME cleaner' = cleaner PROVE CleanerMoves
  BY <1>2 DEF CleanerMoves
<1>3. ASSUME cleaner' = CleanIdle PROVE CleanerMoves
  BY <1>1, <1>3 DEF CleanerMoves
<1>4. ASSUME CleanStart PROVE CleanerMoves
  <2>1. CASE /\ stageCache.phase = "deleting"
             /\ cleaner' = [pc |-> "deleteRoute", finalizers |-> stageCache.finalizers]
    BY <1>4, <2>1 DEF CleanerMoves, CleanStart, stageVars
  <2> QED BY <1>3, <1>4, <2>1, Zenon DEF CleanStart
<1>5. ASSUME CleanRoute PROVE CleanerMoves
  <2>1. cleaner.pc # "idle"
    BY <1>5 DEF CleanRoute
  <2>2. ASSUME cleaner' = [cleaner EXCEPT !.pc = "release"] PROVE CleanerMoves
    BY <2>1, <2>2 DEF CleanerMoves, Typed, CleanTypes
  <2> QED BY <1>3, <1>5, <2>2, Zenon DEF CleanRoute, CleanError
<1>6. ASSUME ReleaseStage PROVE CleanerMoves
  BY <1>3, <1>6, Zenon DEF ReleaseStage, CleanError
<1>7. CleanerMoves
  BY <1>2, <1>3, <1>4, <1>5, <1>6, ZenonT(40)
  DEF Next, Users, Deliver, Step, Clean, Surroundings, Beside, routeSide, vars, cleanVars,
      CreateExecution, DeleteStage, SetActive, PruneVersion, AddForeign, ReleaseForeign,
      DeliverStage, DeliverRoute, DeliverCond, DeliverVersion, Start, Check, DeleteRoute,
      GetStage, PatchStage, CallGateway, GatewayAnswered, GetRoute, ApplyRoute, PatchStatus,
      Restart
<1>8. route' \in {route, NoRoute} \/ (worker.pc = "writeRoute" /\ stage' = stage)
  BY ZenonT(40)
  DEF Next, Users, Deliver, Step, Clean, Surroundings, Beside, routeSide, vars, routeVars,
  stageVars,
      CreateExecution, DeleteStage, SetActive, PruneVersion, AddForeign, ReleaseForeign,
      DeliverStage, DeliverRoute, DeliverCond, DeliverVersion, Start, Check, DeleteRoute,
      GetStage, PatchStage, CallGateway, GatewayAnswered, GetRoute, ApplyRoute, PatchStatus,
      CleanStart, CleanRoute, ReleaseStage, Restart, WriteRoute
<1>9. landscape' = landscape
  BY ZenonT(40)
  DEF Next, Users, Deliver, Step, Clean, Surroundings, Beside, routeSide, vars, envVars,
      CreateExecution, DeleteStage, SetActive, PruneVersion, AddForeign, ReleaseForeign,
      DeliverStage, DeliverRoute, DeliverCond, DeliverVersion, Start, Check, DeleteRoute,
      GetStage, PatchStage, CallGateway, GatewayAnswered, GetRoute, ApplyRoute, PatchStatus,
      CleanStart, CleanRoute, ReleaseStage, Restart
<1> QED BY <1>7, <1>8, <1>9

\* A StageVersion is created, seen or pruned, and a reconcile keeps what it noted
\* of them, up to its end.
LEMMA VersionNext ==
    ASSUME Typed, VersionInv, WorkerMoves, [Next]_vars
    PROVE  /\ VersionInv'
           /\ worker'.pc \in Cleared => worker.known \cap versions' \subseteq versions
<1>1. created \in Nat
  <2>1. \A e \in Executions \cup {0} : e \in Nat
    BY ExecutionNumbers
  <2> QED BY <2>1 DEF Typed, EnvTypes
<1>2. \/ worker'.known \in {{}, worker.known}
      \/ worker'.known = versions /\ UNCHANGED <<versions, unseen, created>>
  BY DEF WorkerMoves
<1>3. CASE CreateExecution
  <2>1. /\ created' = created + 1 /\ worker' = worker
        /\ versions' \subseteq versions \cup {created'} /\ unseen' \subseteq unseen \cup {created'}
        /\ created' \in versions' \cap unseen' => created' \in versions \cup unseen
    BY <1>3 DEF CreateExecution
  <2>2. created' \notin 1..created /\ 1..created \subseteq 1..created' /\ created' \in 1..created'
    BY <1>1, <2>1
  <2> QED BY <2>1, <2>2 DEF VersionInv
<1>4. ASSUME NEW e \in Executions, DeliverVersion(e)
      PROVE  VersionInv' /\ worker.known \cap versions' \subseteq versions
  <2>1. /\ UNCHANGED <<created, worker>> /\ e \in unseen
        /\ versions' = versions \cup {e} /\ unseen' = unseen \ {e}
    BY <1>4 DEF DeliverVersion, workVars
  <2> QED BY <2>1 DEF VersionInv
<1>5. CASE Restart
  <2>1. /\ worker'.known = {} /\ worker'.pc = "idle" /\ created' = created
        /\ versions' = versions \cup unseen /\ unseen' = {}
    BY <1>5, WorkerEnds DEF Restart
  <2> QED BY <2>1 DEF VersionInv, Cleared
<1>6. CASE versions' \subseteq versions /\ UNCHANGED <<unseen, created>>
  BY <1>2, <1>6 DEF VersionInv
<1>7. \/ CreateExecution \/ Restart \/ \E e \in Executions : DeliverVersion(e)
      \/ versions' \subseteq versions /\ UNCHANGED <<unseen, created>>
  BY Zenon
  DEF Next, Users, Deliver, Step, Clean, Surroundings, Beside, routeSide, vars, envVars,
      DeleteStage, SetActive, PruneVersion, AddForeign, ReleaseForeign, DeliverStage, DeliverRoute,
      DeliverCond, Start, Check, DeleteRoute, GetStage, PatchStage, CallGateway, GatewayAnswered,
      GetRoute, ApplyRoute, PatchStatus, CleanStart, CleanRoute, ReleaseStage
<1> QED BY <1>3, <1>4, <1>5, <1>6, <1>7

\* Check lets an execution pass only if the version active in the informer's
\* copy is gone, not seen or not newer.
LEMMA CheckedActive ==
    ASSUME Typed, StageInv, worker.pc = "check", ~isSuperseded(worker.exec)
    PROVE  NotSuperseded
<1> SUFFICES ASSUME worker.floor # 0 PROVE NotSuperseded
  BY DEF NotSuperseded
<1>1. /\ worker.exec \in Executions /\ worker.floor \in Nat /\ landscape.seconds \in [Executions -> Nat]
      /\ stageCache.active \in Executions \cup {0}
  <2>1. worker.floor \in Executions \cup {0} /\ worker.exec \in Executions
    BY DEF Typed, WorkTypes, Reconcile
  <2>2. landscape.seconds \in [Executions -> Nat]
    BY LandscapeAssumption DEF Typed, EnvTypes, Landscape
  <2>3. stageCache.active \in Executions \cup {0}
    BY DEF Typed, StageTypes, Stage
  <2> QED BY <2>1, <2>2, <2>3, ExecutionNumbers, Zenon
<1>2. worker.floor <= stageCache.active /\ stageCache.active <= stage.active
  BY DEF StageInv, StagesInSight, StageCopy
<1>3. stageCache.active \in Nat /\ stage.active \in Nat
  BY ActiveNumber DEF Typed, StageTypes
<1>4. stageCache.active \in worker.floor..stage.active /\ stageCache.active # 0
  BY <1>1, <1>2, <1>3
<1>5. \/ stageCache.active \notin versions
      \/ landscape.seconds[worker.exec] >= landscape.seconds[stageCache.active]
  BY <1>1, <1>4 DEF isSuperseded
<1> QED BY <1>4, <1>5 DEF NotSuperseded

\* Every step keeps what is known of the Stage and its reconciles.
LEMMA StageNext ==
    ASSUME Typed, Typed', StageInv, [Next]_vars
    PROVE  StageInv'
<1>1. /\ stage \in Stage /\ stage' \in Stage /\ stageCache \in Stage
      /\ StagesInSight \subseteq Stage
  BY EventType DEF Typed, StageTypes, StagesInSight
<1>2. /\ stage.active \in Nat /\ stage'.active \in Nat
      /\ stageCache.active \in Nat /\ stageCache'.active \in Nat
  BY ActiveNumber DEF Typed, StageTypes
<1>3. worker.floor \in Nat /\ worker'.floor \in Nat
  <2>1. worker.floor \in Executions \cup {0} /\ worker'.floor \in Executions \cup {0}
    BY DEF Typed, WorkTypes, Reconcile
  <2>2. \A e \in Executions \cup {0} : e \in Nat
    BY ExecutionNumbers
  <2> QED BY <2>1, <2>2
<1>4. /\ StageCopy(stage, stage')
      /\ StagesInSight' \subseteq StagesInSight \cup {stage'}
      /\ Ascending(stageCache', stageWatch')
      /\ stageCache.active <= stageCache'.active
  BY StageMoves
<1>5. WorkerMoves
  BY WorkerSteps
<1>6. /\ CleanerMoves
      /\ route' \in {route, NoRoute} \/ (worker.pc = "writeRoute" /\ stage' = stage)
      /\ landscape' = landscape
  BY OtherSteps
<1>v. VersionInv' /\ (worker'.pc \in Cleared => worker.known \cap versions' \subseteq versions)
  BY <1>5, VersionNext DEF StageInv
<1>7. \A o \in StagesInSight' : StageCopy(o, stage')
  BY <1>1, <1>4, StageOrder DEF StageInv
<1>8. worker'.floor <= stageCache'.active
  <2>1. worker.floor <= stageCache.active
    BY DEF StageInv
  <2>2. worker'.floor \in {0, worker.floor} \/ worker'.floor = stageCache.active
    BY <1>5, Zenon DEF WorkerMoves
  <2> QED BY <1>2, <1>3, <1>4, <2>1, <2>2
<1>9. ASSUME worker'.pc \in Cleared PROVE NotSuperseded'
  <2>1. worker'.floor = worker.floor /\ worker'.exec = worker.exec /\ worker'.known = worker.known
    BY <1>5, <1>9 DEF WorkerMoves
  <2>2. NotSuperseded
    BY <1>5, <1>9, CheckedActive DEF WorkerMoves, StageInv
  <2>3. stage.active <= stage'.active
    BY <1>4 DEF StageCopy
  <2>4. ASSUME worker.floor # 0
        PROVE  \E a \in worker.floor..stage'.active :
                  \/ a \notin worker.known \cap versions'
                  \/ landscape.seconds[worker.exec] >= landscape.seconds[a]
    <3>1. PICK a \in worker.floor..stage.active :
             \/ a \notin worker.known \cap versions
             \/ landscape.seconds[worker.exec] >= landscape.seconds[a]
      BY <2>2, <2>4 DEF NotSuperseded
    <3>2. a \in worker.floor..stage'.active
      BY <1>2, <1>3, <2>3
    <3> QED BY <1>v, <1>9, <3>1, <3>2
  <2> QED BY <1>6, <2>1, <2>4 DEF NotSuperseded
<1>10. ASSUME worker'.pc \in Finalized, stage'.phase = "live" PROVE "route" \in stage'.finalizers
  <2>1. stage.phase = "live" /\ ("route" \in stage.finalizers => "route" \in stage'.finalizers)
    BY <1>4, <1>10 DEF StageCopy
  <2>2. CASE worker.pc \in Finalized
    BY <2>1, <2>2 DEF StageInv
  <2>3. CASE "route" \in stageCache.finalizers
    BY <2>1, <2>3 DEF StageInv, StagesInSight, StageCopy
  <2> QED BY <1>5, <1>10, <2>2, <2>3 DEF WorkerMoves
<1>11. ASSUME cleaner'.pc # "idle"
       PROVE  stage'.phase # "live" /\ stage'.finalizers \subseteq cleaner'.finalizers
  <2>1. stage.phase # "live" => stage'.phase # "live" /\ stage'.finalizers \subseteq stage.finalizers
    BY <1>4 DEF StageCopy
  <2>2. CASE cleaner'.finalizers = cleaner.finalizers /\ cleaner.pc # "idle"
    BY <2>1, <2>2, Zenon DEF StageInv
  <2>3. CASE cleaner'.finalizers = stageCache.finalizers /\ stageCache.phase = "deleting"
    BY <2>1, <2>3, Zenon DEF StageInv, StagesInSight, StageCopy
  <2> QED BY <1>6, <1>11, <2>2, <2>3 DEF CleanerMoves
<1>12. RouteIsBound'
  <2> SUFFICES ASSUME route' # NoRoute, stage'.phase = "live" PROVE "route" \in stage'.finalizers
    BY DEF RouteIsBound
  <2>1. stage.phase = "live" /\ ("route" \in stage.finalizers => "route" \in stage'.finalizers)
    BY <1>4 DEF StageCopy
  <2>2. CASE route' = route
    BY <2>1, <2>2 DEF StageInv, RouteIsBound
  <2>3. CASE worker.pc = "writeRoute"
    BY <2>1, <2>3 DEF StageInv, Finalized
  <2> QED BY <1>6, <2>2, <2>3
<1> QED BY <1>4, <1>v, <1>7, <1>8, <1>9, <1>10, <1>11, <1>12 DEF StageInv

\* The Stage, its copies and what the reconciles take from them.
LEMMA StageSafe == Spec => [](Typed /\ StageInv)
<1>1. Init => Typed /\ StageInv
  <2> SUFFICES ASSUME Init, Typed PROVE StageInv
    BY TypedInit
  <2>1. /\ stage \in Stage /\ stage.active = 0 /\ stageCache = stage /\ stageWatch = << >>
        /\ worker.pc = "idle" /\ worker.floor = 0 /\ cleaner.pc = "idle" /\ route = NoRoute
    BY DEF Init, NewStage, Idle, CleanIdle, Typed, StageTypes
  <2>2. StagesInSight = {stage} /\ StageCopy(stage, stage)
    BY <2>1, NoEvent, StageOrder DEF StagesInSight
  <2>3. Ascending(stageCache, stageWatch)
    BY <2>1, NoEvent DEF Ascending
  <2>4. VersionInv
    BY WorkerEnds DEF Init, VersionInv
  <2> QED BY <2>1, <2>2, <2>3, <2>4 DEF StageInv, RouteIsBound, Cleared, Finalized
<1>2. Typed /\ StageInv /\ [Next]_vars => (Typed /\ StageInv)'
  BY TypedNext, StageNext
<1> QED BY <1>1, <1>2, PTL DEF Spec

\* The route of a live Stage is bound to it: ensureStageFinalizer has added the
\* finalizer, and neither a stale copy nor the cleanup takes it off again.
THEOREM RouteBound == Spec => []RouteIsBound
<1>1. StageInv => RouteIsBound
  BY DEF StageInv
<1> QED BY <1>1, StageSafe, PTL

\* An execution leaves the route alone once a newer version was active in the
\* informer's copy at the start of its reconcile, as long as the informer holds
\* that version and those activated after it.
THEOREM SupersededIsSkipped == Spec => SupersededSkipped
<1>1. ASSUME Typed, StageInv, [Next]_vars, route' # route, worker' # worker,
             worker.floor # 0, worker.floor..stage.active \subseteq worker.known \cap versions
      PROVE  landscape.seconds[worker.exec] >= landscape.seconds[worker.floor]
  <2>1. worker.pc \in {"deleteRoute", "writeRoute"}
    BY <1>1, ZenonT(40)
    DEF Next, Users, Deliver, Step, Clean, Surroundings, Beside, routeSide, vars, workVars,
    routeVars,
        CreateExecution, DeleteStage, SetActive, PruneVersion, AddForeign, ReleaseForeign,
        DeliverStage, DeliverRoute, DeliverCond, DeliverVersion, CleanStart, CleanRoute,
        ReleaseStage, Start, Check, DeleteRoute, GetStage, PatchStage, CallGateway,
        GatewayAnswered, GetRoute, ApplyRoute, PatchStatus, Restart
  <2>2. PICK a \in worker.floor..stage.active :
           \/ a \notin worker.known \cap versions
           \/ landscape.seconds[worker.exec] >= landscape.seconds[a]
    BY <1>1, <2>1 DEF StageInv, Cleared, NotSuperseded
  <2>3. /\ landscape.seconds \in [Executions -> Nat]
        /\ \A d, e \in Executions : d < e => landscape.seconds[d] <= landscape.seconds[e]
        /\ worker.exec \in Executions
    BY <1>1, <2>1, LandscapeAssumption DEF Typed, WorkTypes, EnvTypes, Landscape
  <2>4. worker.floor \in Executions /\ a \in Executions
    BY <1>1, <2>2 DEF Typed, WorkTypes, EnvTypes, Reconcile
  <2>5. worker.floor \in Nat /\ a \in Nat /\ worker.floor <= a
    <3>1. worker.floor \in Nat /\ stage.active \in Nat
      BY <1>1, <2>4, ExecutionNumbers, ActiveNumber, Zenon DEF Typed, StageTypes
    <3> QED BY <2>2, <3>1
  <2>6. landscape.seconds[worker.floor] <= landscape.seconds[a]
    <3>1. CASE worker.floor = a
      BY <2>3, <2>4, <3>1
    <3>2. CASE worker.floor # a
      BY <2>3, <2>4, <2>5, <3>2
    <3> QED BY <3>1, <3>2
  <2>7. /\ landscape.seconds[worker.floor] \in Nat /\ landscape.seconds[a] \in Nat
        /\ landscape.seconds[worker.exec] \in Nat
        /\ landscape.seconds[worker.exec] >= landscape.seconds[a]
    BY <1>1, <2>2, <2>3, <2>4
  <2> QED BY <2>6, <2>7
<1>2. Typed /\ StageInv /\ [Next]_vars
        => [/\ route' # route /\ worker' # worker
            /\ worker.floor # 0 /\ worker.floor..stage.active \subseteq worker.known \cap versions
            => landscape.seconds[worker.exec] >= landscape.seconds[worker.floor]]_vars
  BY <1>1
<1> QED BY <1>2, StageSafe, PTL DEF Spec, SupersededSkipped

\* The cleanup never drops the finalizer of another controller, and
\* ensureStageFinalizer only one that its copy of the Stage did not show yet.
THEOREM ForeignOnlyUnseen == Spec => ForeignLostUnseen
<1>1. ASSUME Typed, StageInv, [Next]_vars, "foreign" \in stage.finalizers \ stage'.finalizers,
             <<worker, cleaner>>' # <<worker, cleaner>>
      PROVE  worker' # worker /\ "foreign" \notin worker.finalizers
  <2>1. stage' # stage /\ stage \in Stage
    BY <1>1 DEF Typed, StageTypes
  <2>2. \/ PatchStage /\ WriteStage(WithFinalizers(stage, worker.finalizers \cup {"route"}))
        \/ ReleaseStage /\ WriteStage(WithFinalizers(stage, cleaner.finalizers \ {"route"}))
    BY <1>1, <2>1, ZenonT(40)
    DEF Next, Users, Deliver, Step, Clean, Surroundings, Beside, routeSide, vars, workVars,
    cleanVars,
        stageVars, CreateExecution, DeleteStage, SetActive, PruneVersion, AddForeign,
        ReleaseForeign, DeliverStage, DeliverRoute, DeliverCond, DeliverVersion, CleanStart,
        CleanRoute, ReleaseStage, Start, Check, DeleteRoute, GetStage, PatchStage, CallGateway,
        GatewayAnswered, GetRoute, ApplyRoute, PatchStatus, Restart
  <2>3. \A f : WithFinalizers(stage, f).finalizers = f
    BY <2>1 DEF WithFinalizers, Stage
  <2>4. CASE PatchStage /\ WriteStage(WithFinalizers(stage, worker.finalizers \cup {"route"}))
    <3>1. "foreign" \notin worker.finalizers
      BY <1>1, <2>3, <2>4 DEF WriteStage
    <3>2. worker.pc = "patchStage" /\ (worker' = Idle \/ \E pc \in {"gateway", "getRoute"} : Continue(pc))
      BY <2>4, Zenon DEF PatchStage, ReturnError
    <3>3. worker'.pc # "patchStage"
      BY <1>1, <3>2, WorkerEnds
    <3> QED BY <3>1, <3>2, <3>3
  <2>5. CASE ReleaseStage /\ WriteStage(WithFinalizers(stage, cleaner.finalizers \ {"route"}))
    <3>1. "foreign" \notin cleaner.finalizers
      BY <1>1, <2>3, <2>5 DEF WriteStage
    <3>2. stage.finalizers \subseteq cleaner.finalizers
      BY <1>1, <2>5 DEF StageInv, ReleaseStage
    <3> QED BY <1>1, <3>1, <3>2
  <2> QED BY <2>2, <2>4, <2>5
<1>2. Typed /\ StageInv /\ [Next]_vars
        => [/\ "foreign" \in stage.finalizers \ stage'.finalizers
            /\ <<worker, cleaner>>' # <<worker, cleaner>>
            => worker' # worker /\ "foreign" \notin worker.finalizers]_vars
  BY <1>1
<1> QED BY <1>2, StageSafe, PTL DEF Spec, ForeignLostUnseen

-----------------------------------------------------------------------------
(* Failed is terminal                                                      *)

\* What Reconcile reports of an execution that it did not find failed: never
\* that it failed and is still in progress.
LEMMA Reports ==
    ASSUME NEW c, "Failed" \notin c
    PROVE  /\ ~({"InProgress", "Failed"} \subseteq markSucceeded(c))
           /\ \A st : ~({"InProgress", "Failed"} \subseteq reportRouterGateway(c, st))
  BY DEF markSucceeded, reportRouterGateway

\* A step inside a reconcile: it goes on, with the same execution and the same
\* conditions to start from.
GoesOn ==
    /\ UNCHANGED <<cond, condWatch, condCache, created, queue, unanswered>>
    /\ SameReconcile /\ worker.pc # "idle"
    /\ worker'.pc = "status" => ~({"InProgress", "Failed"} \subseteq worker'.wanted)

\* A reconcile that ends with an error before it has reported anything.
GivesUp ==
    /\ UNCHANGED <<cond, condWatch, condCache, created, unanswered>>
    /\ worker.pc # "idle" /\ ReturnError

\* What has nothing to do with executions, but for an event that may arrive.
Aside ==
    /\ UNCHANGED <<cond, created, worker, queue, unanswered>>
    /\ \A e \in Executions : CondInSight(e)' \subseteq CondInSight(e)

\* The steps as the executions see them.
LEMMA CondSteps ==
    ASSUME Typed, CondInv, [Next]_vars
    PROVE  \/ Aside \/ GoesOn \/ GivesUp \/ CreateExecution \/ PatchStatus \/ Restart
           \/ \E e \in Executions : Start(e)
<1> DEFINE Goal == \/ Aside \/ GoesOn \/ GivesUp \/ CreateExecution \/ PatchStatus \/ Restart
                   \/ \E e \in Executions : Start(e)
<1>1. ASSUME UNCHANGED <<condVars, created, workVars, unanswered>> PROVE Goal
  <2>1. UNCHANGED <<cond, condWatch, condCache, created, worker, queue, unanswered>>
    BY <1>1 DEF condVars, workVars
  <2> QED BY <2>1, Zenon DEF Aside, CondInSight
<1>2. ASSUME NEW e \in Executions, DeliverCond(e) PROVE Goal
  <2>1. ASSUME NEW d \in Executions PROVE CondInSight(d)' \subseteq CondInSight(d)
    <3>1. /\ condWatch[e] \in Seq(Conditions) /\ condWatch[e] # << >>
          /\ condCache' = [condCache EXCEPT ![e] = Head(condWatch[e])]
          /\ condWatch' = [condWatch EXCEPT ![e] = Tail(@)]
          /\ condCache \in [Executions -> Conditions]
          /\ condWatch \in [Executions -> Seq(Conditions)] /\ cond' = cond
      BY <1>2 DEF DeliverCond, DeliverVersion, Typed, CondTypes
    <3>2. Events(condWatch[e]) = {Head(condWatch[e])} \cup Events(Tail(condWatch[e]))
      BY <3>1, TakeEvent
    <3>3. CASE d = e
      <4>1. condCache'[d] = Head(condWatch[e]) /\ condWatch'[d] = Tail(condWatch[e])
        BY <3>1, <3>3
      <4> QED BY <3>1, <3>2, <3>3, <4>1 DEF CondInSight
    <3>4. CASE d # e
      <4>1. condCache'[d] = condCache[d] /\ condWatch'[d] = condWatch[d]
        BY <3>1, <3>4
      <4> QED BY <3>1, <4>1 DEF CondInSight
    <3> QED BY <3>3, <3>4
  <2>2. UNCHANGED <<cond, created, worker, queue, unanswered>>
    BY <1>2 DEF DeliverCond, DeliverVersion, envVars, workVars, histVars
  <2> QED BY <2>1, <2>2 DEF Aside
<1>3. worker.pc # "idle" => "Failed" \notin worker.original
  BY DEF CondInv
<1>4. ASSUME UNCHANGED <<condVars, created, queue, unanswered>>, worker.pc # "idle", SameReconcile,
             worker'.pc # "status"
      PROVE  Goal
  BY <1>4 DEF GoesOn, condVars
<1>5. ASSUME UNCHANGED <<condVars, created, unanswered>>, worker.pc # "idle",
             NEW pc, Continue(pc), pc # "status"
      PROVE  Goal
  <2>1. SameReconcile /\ worker'.pc # "status" /\ queue' = queue
    BY <1>5, WorkerEnds DEF Continue
  <2> QED BY <1>4, <1>5, <2>1
<1>6. ASSUME UNCHANGED <<condVars, created, unanswered>>, worker.pc # "idle",
             NEW c, Report(c), ~({"InProgress", "Failed"} \subseteq c)
      PROVE  Goal
  <2>1. SameReconcile /\ worker'.wanted = c
    BY <1>6, WorkerEnds
  <2>2. queue' = queue
    BY <1>6 DEF Report
  <2> QED BY <1>6, <2>1, <2>2 DEF GoesOn, condVars
<1>7. ASSUME UNCHANGED <<condVars, created, unanswered>>, worker.pc # "idle",
             Report(markSucceeded(worker.original))
      PROVE  Goal
  BY <1>3, <1>6, <1>7, Reports
<1>8. ASSUME UNCHANGED <<condVars, created, unanswered>>, worker.pc # "idle", ReturnError
      PROVE  Goal
  BY <1>8 DEF GivesUp, condVars
<1>9. ASSUME Check PROVE Goal
  <2>1. worker.pc = "check" /\ UNCHANGED condVars /\ UNCHANGED envVars /\ UNCHANGED unanswered
    BY <1>9, Zenon DEF Check
  <2>2. \/ ReturnError \/ Report(markSucceeded(worker.original))
        \/ Continue("deleteRoute") \/ Continue("getStage")
    BY <1>9, Zenon DEF Check
  <2>3. worker.pc # "idle" /\ UNCHANGED <<condVars, created, unanswered>>
    BY <2>1 DEF envVars, histVars
  <2> QED BY <1>5, <1>7, <1>8, <2>2, <2>3
<1>10. ASSUME DeleteRoute PROVE Goal
  <2>1. worker.pc # "idle" /\ UNCHANGED <<condVars, created, unanswered>>
    BY <1>10 DEF DeleteRoute, envVars, histVars
  <2>2. ReturnError \/ Report(markSucceeded(worker.original))
    BY <1>10, Zenon DEF DeleteRoute
  <2> QED BY <1>7, <1>8, <2>1, <2>2
<1>11. ASSUME GetStage PROVE Goal
  <2>1. worker.pc # "idle" /\ UNCHANGED <<condVars, created, unanswered>>
    BY <1>11 DEF GetStage, envVars, histVars
  <2>2. \/ ReturnError \/ Continue("gateway") \/ Continue("getRoute")
        \/ /\ worker' = [worker EXCEPT !.pc = "patchStage", !.finalizers = stageCache.finalizers]
           /\ UNCHANGED queue
    BY <1>11, Zenon DEF GetStage
  <2>3. ASSUME worker' = [worker EXCEPT !.pc = "patchStage", !.finalizers = stageCache.finalizers],
               UNCHANGED queue
        PROVE  Goal
    <3>1. SameReconcile /\ worker'.pc # "status"
      BY <2>3, WorkerEnds
    <3> QED BY <1>4, <2>1, <2>3, <3>1
  <2> QED BY <1>5, <1>8, <2>1, <2>2, <2>3
<1>12. ASSUME PatchStage PROVE Goal
  <2>1. worker.pc # "idle" /\ UNCHANGED <<condVars, created, unanswered>>
    BY <1>12 DEF PatchStage, envVars, histVars
  <2>2. ReturnError \/ Continue("gateway") \/ Continue("getRoute")
    BY <1>12, Zenon DEF PatchStage
  <2> QED BY <1>5, <1>8, <2>1, <2>2
<1>13. ASSUME CallGateway PROVE Goal
  <2>1. worker.pc # "idle" /\ UNCHANGED <<condVars, created, unanswered>> /\ Continue("gatewayCall")
    BY <1>13 DEF CallGateway, envVars, histVars
  <2> QED BY <1>5, <2>1
<1>14. ASSUME GatewayAnswered PROVE Goal
  <2>1. worker.pc # "idle" /\ UNCHANGED <<condVars, created, unanswered>>
    BY <1>14 DEF GatewayAnswered, envVars, histVars
  <2>2. \/ ReturnError
        \/ worker' = [worker EXCEPT !.pc = "getRoute", !.gateway = call.uid] /\ UNCHANGED queue
        \/ Report(reportRouterGateway(worker.original, call.state))
    BY <1>14, Zenon DEF GatewayAnswered
  <2>3. ASSUME worker' = [worker EXCEPT !.pc = "getRoute", !.gateway = call.uid], UNCHANGED queue
        PROVE  Goal
    <3>1. SameReconcile /\ worker'.pc # "status"
      BY <2>3, WorkerEnds
    <3> QED BY <1>4, <2>1, <2>3, <3>1
  <2>4. ASSUME Report(reportRouterGateway(worker.original, call.state)) PROVE Goal
    BY <1>3, <1>6, <2>1, <2>4, Reports
  <2> QED BY <1>8, <2>1, <2>2, <2>3, <2>4
<1>15. ASSUME GetRoute PROVE Goal
  <2>1. worker.pc # "idle" /\ UNCHANGED <<condVars, created, unanswered>>
    BY <1>15 DEF GetRoute, envVars, histVars
  <2>2. \/ ReturnError \/ Report(markSucceeded(worker.original))
        \/ /\ worker' = [worker EXCEPT !.pc = "writeRoute", !.route = routeCache,
                                       !.current = (routeWatch = << >>)]
           /\ UNCHANGED queue
    BY <1>15, Zenon DEF GetRoute
  <2>3. ASSUME worker' = [worker EXCEPT !.pc = "writeRoute", !.route = routeCache,
                                        !.current = (routeWatch = << >>)],
               UNCHANGED queue
        PROVE  Goal
    <3>1. SameReconcile /\ worker'.pc # "status"
      BY <2>3, WorkerEnds
    <3> QED BY <1>4, <2>1, <2>3, <3>1
  <2> QED BY <1>7, <1>8, <2>1, <2>2, <2>3
<1>16. ASSUME ApplyRoute PROVE Goal
  <2>1. worker.pc # "idle" /\ UNCHANGED <<condVars, created, unanswered>>
    BY <1>16 DEF ApplyRoute, envVars
  <2>2. ReturnError \/ Report(markSucceeded(worker.original))
    BY <1>16, Zenon DEF ApplyRoute
  <2> QED BY <1>7, <1>8, <2>1, <2>2
<1>17. \/ UNCHANGED <<condVars, created, workVars, unanswered>>
       \/ \E e \in Executions : DeliverCond(e)
       \/ Check \/ DeleteRoute \/ GetStage \/ PatchStage \/ CallGateway \/ GatewayAnswered
       \/ GetRoute \/ ApplyRoute \/ CreateExecution \/ PatchStatus \/ Restart
       \/ \E e \in Executions : Start(e)
  BY ZenonT(40)
  DEF Next, Users, Deliver, Step, Clean, Surroundings, Beside, routeSide, vars, envVars, histVars,
      DeleteStage, SetActive, PruneVersion, AddForeign, ReleaseForeign, DeliverStage, DeliverRoute,
      DeliverVersion, CleanStart, CleanRoute, ReleaseStage
<1> QED BY <1>1, <1>2, <1>9, <1>10, <1>11, <1>12, <1>13, <1>14, <1>15, <1>16, <1>17, ZenonT(40)

\* Every step keeps a failure in the conditions of the execution, and out of
\* what Reconcile starts from.
LEMMA CondNext ==
    ASSUME Typed, Typed', CondInv, [Next]_vars
    PROVE  /\ CondInv'
           /\ \A e \in Executions \ unanswered : "Failed" \in cond[e] => "Failed" \in cond'[e]
<1> DEFINE Goal == /\ CondInv'
                   /\ \A e \in Executions \ unanswered : "Failed" \in cond[e] => "Failed" \in cond'[e]
<1>1. /\ cond \in [Executions -> Conditions] /\ condWatch \in [Executions -> Seq(Conditions)]
      /\ queue \subseteq Executions /\ (worker.pc # "idle" => worker.exec \in Executions)
      /\ queue' \subseteq Executions
  BY DEF Typed, CondTypes, WorkTypes
<1>2. Idle.pc = "idle"
  BY WorkerEnds
<1>3. created \in Nat /\ Executions \subseteq Nat
  <2>1. \A e \in Executions \cup {0} : e \in Nat
    BY ExecutionNumbers
  <2> QED BY <2>1 DEF Typed, EnvTypes
<1>4. ASSUME Aside PROVE Goal
  BY <1>4 DEF Aside, CondInv
<1>5. ASSUME GoesOn PROVE Goal
  <2>1. \A e \in Executions : CondInSight(e)' = CondInSight(e)
    BY <1>5 DEF GoesOn, CondInSight
  <2> QED BY <1>5, <2>1, ZenonT(40) DEF GoesOn, SameReconcile, CondInv
<1>6. ASSUME GivesUp PROVE Goal
  <2>1. \A e \in Executions : CondInSight(e)' = CondInSight(e)
    BY <1>6 DEF GivesUp, CondInSight
  <2>2. worker'.pc = "idle" /\ worker.pc # "idle" /\ queue' = queue \cup {worker.exec}
    BY <1>2, <1>6 DEF GivesUp, ReturnError
  <2> QED BY <1>6, <2>1, <2>2 DEF GivesUp, CondInv
<1>7. ASSUME CreateExecution PROVE Goal
  <2>1. /\ UNCHANGED <<cond, condWatch, condCache, worker, unanswered>>
        /\ created' = created + 1 /\ queue' = queue \cup {created + 1}
    BY <1>7 DEF CreateExecution, condVars, histVars
  <2>2. \A e \in Executions : CondInSight(e)' = CondInSight(e)
    BY <2>1 DEF CondInSight
  <2>3. \A e \in Executions : e <= created => e <= created' /\ e # created + 1
    BY <1>3, <2>1
  <2>4. \A e \in Executions : "Failed" \in cond[e] => e # created + 1
    BY <2>3 DEF CondInv
  <2>5. \A e \in queue' : e <= created'
    BY <1>1, <1>3, <2>1, <2>3 DEF CondInv
  <2>6. \A e \in Executions : cond'[e] # {} => e <= created'
    BY <2>1, <2>3 DEF CondInv
  <2>7. worker'.pc # "idle" => /\ worker'.exec <= created' /\ worker'.exec \notin queue'
                               /\ "Failed" \notin worker'.original
    BY <1>1, <2>1, <2>3 DEF CondInv
  <2> QED BY <2>1, <2>2, <2>4, <2>5, <2>6, <2>7 DEF CondInv
<1>8. ASSUME Restart PROVE Goal
  <2>1. /\ UNCHANGED <<cond, created, unanswered>> /\ worker'.pc = "idle" /\ queue' = 1..created
        /\ condCache' = cond /\ condWatch' = [e \in Executions |-> << >>]
    BY <1>2, <1>8 DEF Restart, envVars, histVars
  <2>2. \A e \in Executions : CondInSight(e)' = {cond'[e]}
    BY <2>1, NoEvent DEF CondInSight
  <2>3. \A e \in queue' : e <= created'
    BY <1>3, <2>1
  <2> QED BY <2>1, <2>2, <2>3 DEF CondInv
<1>9. ASSUME NEW e \in Executions, Start(e) PROVE Goal
  <2>1. /\ UNCHANGED <<cond, condWatch, condCache, created, unanswered>>
        /\ queue' = queue \ {e} /\ e \in queue
    BY <1>9 DEF Start, condVars, envVars, histVars
  <2>2. \A d \in Executions : CondInSight(d)' = CondInSight(d)
    BY <2>1 DEF CondInSight
  <2>3. CASE "Failed" \in condCache[e]
    <3>1. worker'.pc = "idle"
      BY <1>2, <1>9, <2>3 DEF Start
    <3> QED BY <2>1, <2>2, <3>1 DEF CondInv
  <2>4. CASE "Failed" \notin condCache[e]
    <3>1. /\ worker'.pc = "check" /\ worker'.exec = e /\ worker'.original = condCache[e]
      BY <1>9, <2>4 DEF Start, Idle
    <3>2. e \notin unanswered => "Failed" \notin cond[e]
      BY <2>1, <2>4, Zenon DEF CondInv, CondInSight
    <3> QED BY <2>1, <2>2, <2>4, <3>1, <3>2 DEF CondInv
  <2> QED BY <2>3, <2>4
<1>10. ASSUME PatchStatus PROVE Goal
  <2> DEFINE e == worker.exec
  <2>1. /\ worker.pc = "status" /\ worker'.pc = "idle"
        /\ UNCHANGED <<condCache, created>>
    BY <1>2, <1>10, Zenon DEF PatchStatus, ReturnError, envVars
  <2>2. /\ e \in Executions /\ e <= created /\ e \notin queue
        /\ ~({"InProgress", "Failed"} \subseteq worker.wanted)
        /\ e \notin unanswered => "Failed" \notin cond[e]
    BY <1>1, <2>1, Zenon DEF CondInv
  <2>3. unanswered \subseteq unanswered' /\ queue \subseteq queue' /\ queue' \subseteq queue \cup {e}
    BY <1>10, Zenon DEF PatchStatus, ReturnError
  <2>4. ASSUME NEW d \in Executions, d # e
        PROVE  cond'[d] = cond[d] /\ CondInSight(d)' = CondInSight(d)
    <3>1. cond'[d] = cond[d] /\ condWatch'[d] = condWatch[d]
      <4>1. WriteCond(e, worker.wanted) \/ UNCHANGED <<cond, condWatch>>
        BY <1>10, ZenonT(40) DEF PatchStatus
      <4> QED BY <1>1, <2>4, <4>1 DEF WriteCond
    <3> QED BY <2>1, <3>1 DEF CondInSight
  <2>5. e \notin unanswered' /\ "Failed" \in cond'[e] => e \notin queue'
    <3>1. ASSUME WriteCond(e, worker.wanted), unanswered' = unanswered, "Failed" \in cond'[e],
                 queue' = IF "InProgress" \in worker.wanted THEN queue \cup {e} ELSE queue
          PROVE  e \notin queue'
      <4>1. cond'[e] = worker.wanted
        BY <1>1, <2>2, <3>1 DEF WriteCond
      <4> QED BY <2>2, <3>1, <4>1
    <3>2. \/ cond' = cond /\ unanswered' = unanswered
          \/ unanswered' = unanswered \cup {e}
          \/ /\ WriteCond(e, worker.wanted) /\ unanswered' = unanswered
             /\ queue' = IF "InProgress" \in worker.wanted THEN queue \cup {e} ELSE queue
      BY <1>10, ZenonT(40) DEF PatchStatus
    <3> QED BY <2>2, <3>1, <3>2
  <2>6. \A d \in Executions : cond'[d] # {} => d <= created'
    BY <2>1, <2>2, <2>4, Zenon DEF CondInv
  <2>7. \A d \in queue' : d <= created'
    BY <2>1, <2>2, <2>3, ZenonT(40) DEF CondInv
  <2>8. ASSUME NEW d \in Executions \ unanswered', "Failed" \in cond'[d], d \in queue'
        PROVE  \A o \in CondInSight(d)' : "Failed" \in o
    <3>1. d # e
      BY <2>5, <2>8, Zenon
    <3>2. d \in Executions \ unanswered /\ "Failed" \in cond[d] /\ d \in queue
      BY <2>3, <2>4, <2>8, <3>1
    <3> QED BY <2>4, <3>1, <3>2 DEF CondInv
  <2>9. \A d \in Executions \ unanswered : "Failed" \in cond[d] => "Failed" \in cond'[d]
    BY <2>2, <2>4
  <2> QED BY <2>1, <2>6, <2>7, <2>8, <2>9, Zenon DEF CondInv
<1> QED BY <1>4, <1>5, <1>6, <1>7, <1>8, <1>9, <1>10, CondSteps

\* The conditions and the reconciles start out empty.
LEMMA CondSafe == Spec => [](Typed /\ CondInv)
<1>1. Init => Typed /\ CondInv
  <2> SUFFICES ASSUME Init, Typed PROVE CondInv
    BY TypedInit
  <2>1. (\A e \in Executions : cond[e] = {}) /\ queue = {} /\ worker.pc = "idle"
    BY WorkerEnds DEF Init
  <2> QED BY <2>1 DEF CondInv
<1>2. Typed /\ CondInv /\ [Next]_vars => (Typed /\ CondInv)'
  BY TypedNext, CondNext
<1> QED BY <1>1, <1>2, PTL DEF Spec

\* Failed is terminal: an execution that has failed stays failed, except where
\* the answer to a status patch of it was lost.
THEOREM FailedStays == Spec => FailedIsFinal
<1>1. Typed /\ CondInv /\ [Next]_vars
        => [\A e \in Executions \ unanswered :
                "Failed" \in cond[e] => "Failed" \in cond'[e]]_vars
  BY TypedNext, CondNext
<1> QED BY <1>1, CondSafe, PTL DEF Spec, FailedIsFinal

-----------------------------------------------------------------------------
(* Success is earned                                                       *)

RoutesInSight == {route, routeCache} \cup Events(routeWatch)

\* What justifies the success of an execution; a step never takes it back.
Earned(e) == \/ e \in applied \cup blind
             \/ stage.active > e \/ stage.phase = "gone"

\* A route in sight was applied, and every success in sight, in the conditions,
\* their copies or a reconcile, is earned.
EarnedInv ==
    /\ RoutesInSight \subseteq applied \cup {NoRoute}
    /\ \A e \in Executions : \A o \in CondInSight(e) : "Succeeded" \in o => Earned(e)
    /\ worker.pc # "idle" /\ "Succeeded" \in worker.original => Earned(worker.exec)
    /\ worker.pc = "status" /\ "Succeeded" \in worker.wanted => Earned(worker.exec)

\* What has been earned stays so: the route's history only grows, versions are
\* activated in order and deletion is final.
LEMMA EarnedStays ==
    ASSUME Typed, Typed', StageInv, [Next]_vars
    PROVE  /\ applied \subseteq applied'
           /\ \A e \in Executions : Earned(e) => Earned(e)'
<1>1. applied \subseteq applied' /\ blind \subseteq blind'
  BY Zenon
  DEF Next, Users, Deliver, Step, Clean, Surroundings, Beside, routeSide, vars, histVars,
      CreateExecution, DeleteStage, SetActive, PruneVersion, AddForeign, ReleaseForeign,
      DeliverStage, DeliverRoute, DeliverCond, DeliverVersion, Start, Check, DeleteRoute, GetStage,
      PatchStage, CallGateway, GatewayAnswered, GetRoute, ApplyRoute, PatchStatus, CleanStart,
      CleanRoute, ReleaseStage, Restart
<1>2. StageCopy(stage, stage')
  BY StageMoves
<1>3. stage.active \in Nat /\ stage'.active \in Nat /\ Executions \subseteq Nat
  BY ActiveNumber, ExecutionNumbers DEF Typed, StageTypes
<1> QED BY <1>1, <1>2, <1>3 DEF Earned, StageCopy

\* Every route that comes in sight was applied.
LEMMA RouteMoves ==
    ASSUME Typed, [Next]_vars
    PROVE  RoutesInSight' \subseteq RoutesInSight \cup {NoRoute} \cup applied'
<1>1. route \in Routes /\ routeWatch \in Seq(Routes) /\ NoRoute \in Routes
  BY DEF Typed, RouteTypes, Routes
<1>2. ASSUME NEW r \in Routes, WriteRoute(r), routeCache' = routeCache, r \in {NoRoute} \cup applied'
      PROVE  RoutesInSight' \subseteq RoutesInSight \cup {NoRoute} \cup applied'
  <2>1. Events(routeWatch') \subseteq Events(routeWatch) \cup {r}
    BY <1>1, <1>2, Emitted DEF WriteRoute
  <2> QED BY <1>2, <2>1 DEF WriteRoute, RoutesInSight
<1>3. CASE UNCHANGED routeVars
  BY <1>3 DEF routeVars, RoutesInSight
<1>4. CASE DeliverRoute
  <2>1. Events(routeWatch) = {Head(routeWatch)} \cup Events(Tail(routeWatch))
    BY <1>1, <1>4, TakeEvent DEF DeliverRoute
  <2> QED BY <1>4, <2>1 DEF DeliverRoute, RoutesInSight
<1>5. CASE DeleteRoute
  <2>1. routeCache' = routeCache /\ (WriteRoute(NoRoute) \/ UNCHANGED <<route, routeWatch>>)
    BY <1>5, Zenon DEF DeleteRoute
  <2> QED BY <1>1, <1>2, <1>3, <2>1 DEF routeVars
<1>6. CASE CleanRoute
  <2>1. routeCache' = routeCache /\ (WriteRoute(NoRoute) \/ UNCHANGED <<route, routeWatch>>)
    BY <1>6, Zenon DEF CleanRoute
  <2> QED BY <1>1, <1>2, <1>3, <2>1 DEF routeVars
<1>7. CASE ApplyRoute
  <2>1. /\ routeCache' = routeCache
        /\ \/ WriteRoute(worker.exec) /\ worker.exec \in applied'
           \/ UNCHANGED <<route, routeWatch>>
    BY <1>7, ZenonT(40) DEF ApplyRoute
  <2>2. worker.exec \in Routes
    BY <1>7 DEF ApplyRoute, Typed, WorkTypes, Routes
  <2> QED BY <1>2, <1>3, <2>1, <2>2 DEF routeVars
<1>8. CASE Restart
  BY <1>8, NoEvent DEF Restart, RoutesInSight
<1>9. \/ UNCHANGED routeVars \/ DeliverRoute \/ DeleteRoute \/ CleanRoute \/ ApplyRoute \/ Restart
  BY Zenon
  DEF Next, Users, Deliver, Step, Clean, Surroundings, Beside, routeSide, vars, CreateExecution,
      DeleteStage, SetActive, PruneVersion, AddForeign, ReleaseForeign, DeliverStage, DeliverCond,
      DeliverVersion, Start, Check, GetStage, PatchStage, CallGateway, GatewayAnswered, GetRoute,
      PatchStatus, CleanStart, ReleaseStage
<1> QED BY <1>3, <1>4, <1>5, <1>6, <1>7, <1>8, <1>9

\* Only an execution that is older than the active version is skipped, among
\* versions of the same second too, as long as the informer holds its version:
\* Check reads the Stage from a cache that lags behind.
LEMMA OlderSkipped ==
    ASSUME Typed, StageInv, worker.pc = "check", isSuperseded(worker.exec), worker.exec \in versions
    PROVE  stage.phase = "gone" \/ stage.active > worker.exec
<1>1. /\ worker.exec \in Executions /\ stageCache.active \in Executions \cup {0}
      /\ landscape.seconds \in [Executions -> Nat]
      /\ \A d, e \in Executions : d < e => landscape.seconds[d] <= landscape.seconds[e]
  BY LandscapeAssumption DEF Typed, WorkTypes, StageTypes, Stage, EnvTypes, Landscape
<1>2. StageCopy(stageCache, stage) /\ stage.active \in Nat /\ stageCache.active \in Nat
  BY ActiveNumber, Zenon DEF StageInv, StagesInSight, Typed, StageTypes
<1>3. CASE stageCache.phase = "gone"
  BY <1>2, <1>3 DEF StageCopy
<1>4. CASE stageCache.phase # "gone"
  <2>1. /\ stageCache.active \notin {0, worker.exec}
        /\ landscape.seconds[worker.exec] < landscape.seconds[stageCache.active]
    BY <1>4 DEF isSuperseded
  <2>2. worker.exec \in Nat /\ stageCache.active \in Executions
    BY <1>1, <2>1, ExecutionNumbers, Zenon
  <2>3. ~(stageCache.active < worker.exec)
    BY <1>1, <2>1, <2>2
  <2>4. stageCache.active <= stage.active
    BY <1>2 DEF StageCopy
  <2>5. worker.exec < stageCache.active
    BY <1>2, <2>1, <2>2, <2>3
  <2> QED BY <1>2, <2>2, <2>4, <2>5
<1> QED BY <1>3, <1>4

\* Reconcile reports a success that its copy did not show only once it is earned.
LEMMA ReportEarned ==
    ASSUME Typed, StageInv, EarnedInv, [Next]_vars, worker' # worker, worker'.pc = "status",
           "Succeeded" \in worker'.wanted
    PROVE  /\ SameReconcile /\ worker.pc # "idle"
           /\ \A e \in Executions : e = worker.exec => Earned(e) \/ Earned(e)'
<1>1. /\ Idle.pc # "status" /\ \A pc : Continue(pc) => worker'.pc = pc
      /\ \A c : Report(c) => SameReconcile /\ worker'.wanted = c
  BY WorkerEnds
<1>2. \A st : "Succeeded" \in reportRouterGateway(worker.original, st)
                => "Succeeded" \in worker.original
  BY DEF reportRouterGateway
<1>3. worker.pc # "idle" => worker.exec \in Executions
  BY DEF Typed, WorkTypes
<1>4. CASE Check
  <2>1. /\ isSuperseded(worker.exec) /\ SameReconcile
        /\ blind' = blind \cup ({worker.exec} \ versions)
    BY <1>1, <1>4, ZenonT(40) DEF Check, ReturnError
  <2>2. worker.pc = "check"
    BY <1>4, Zenon DEF Check
  <2>3. CASE worker.exec \in versions
    BY <2>1, <2>2, <2>3, OlderSkipped DEF Earned
  <2>4. CASE worker.exec \notin versions
    BY <2>1, <2>2, <2>4 DEF Earned
  <2> QED BY <2>3, <2>4
<1>5. CASE DeleteRoute \/ ApplyRoute
  <2>1. worker.pc # "idle" /\ worker.exec \in applied' /\ SameReconcile
    BY <1>1, <1>5, ZenonT(40) DEF DeleteRoute, ApplyRoute, ReturnError
  <2> QED BY <2>1 DEF Earned
<1>6. CASE GetRoute
  <2>1. worker.pc # "idle" /\ SameReconcile /\ routeCache = worker.exec
    <3>1. \A r, b : worker' = [worker EXCEPT !.pc = "writeRoute", !.route = r, !.current = b]
                      => worker'.pc # "status"
      BY DEF Typed, WorkTypes, Reconcile
    <3> QED BY <1>1, <1>6, <3>1, ZenonT(40) DEF GetRoute, ReturnError
  <2>2. worker.exec # NoRoute
    BY <1>3, <2>1, ExecutionNumbers DEF NoRoute
  <2> QED BY <2>1, <2>2 DEF EarnedInv, RoutesInSight, Earned
<1>7. CASE GatewayAnswered
  <2>1. /\ worker.pc # "idle" /\ SameReconcile
        /\ worker'.wanted = reportRouterGateway(worker.original, call.state)
    <3>1. worker' = [worker EXCEPT !.pc = "getRoute", !.gateway = call.uid]
            => worker'.pc # "status"
      BY DEF Typed, WorkTypes, Reconcile
    <3> QED BY <1>1, <1>7, <3>1, Zenon DEF GatewayAnswered, ReturnError
  <2> QED BY <1>2, <2>1 DEF EarnedInv
<1>8. Check \/ DeleteRoute \/ ApplyRoute \/ GetRoute \/ GatewayAnswered
  <2>1. ASSUME NEW e \in Executions, Start(e) PROVE FALSE
    BY <1>1, <2>1 DEF Start, Idle
  <2>2. ASSUME GetStage PROVE FALSE
    BY <1>1, <2>2, WorkerEnds DEF GetStage, ReturnError
  <2> QED
    BY <1>1, <2>1, <2>2, ZenonT(40)
    DEF Next, Users, Deliver, Step, Clean, Surroundings, Beside, routeSide, vars, workVars,
        CreateExecution, DeleteStage, SetActive, PruneVersion, AddForeign, ReleaseForeign,
        DeliverStage, DeliverRoute, DeliverCond, DeliverVersion, CleanStart, CleanRoute,
        ReleaseStage, PatchStage, CallGateway, PatchStatus, Restart, ReturnError
<1> QED BY <1>4, <1>5, <1>6, <1>7, <1>8

\* What comes in sight of an execution is what was in sight or what a reconcile
\* stores, and a reconcile starts from what is in sight.
LEMMA ConditionMoves ==
    ASSUME Typed, CondInv, [Next]_vars
    PROVE  /\ \A e \in Executions : \A o \in CondInSight(e)' :
                 \/ o \in CondInSight(e)
                 \/ o = worker.wanted /\ worker.pc = "status" /\ worker.exec = e
           /\ \/ worker'.pc = "idle"
              \/ worker.pc # "idle" /\ (worker' = worker \/ SameReconcile)
              \/ /\ worker'.exec \in Executions /\ worker'.pc # "status"
                 /\ worker'.original \in CondInSight(worker'.exec)
<1> DEFINE Seen == \A e \in Executions : \A o \in CondInSight(e)' :
                      \/ o \in CondInSight(e)
                      \/ o = worker.wanted /\ worker.pc = "status" /\ worker.exec = e
           Goes == \/ worker'.pc = "idle"
                   \/ worker.pc # "idle" /\ (worker' = worker \/ SameReconcile)
                   \/ /\ worker'.exec \in Executions /\ worker'.pc # "status"
                      /\ worker'.original \in CondInSight(worker'.exec)
<1>1. UNCHANGED <<cond, condWatch, condCache>> => Seen
  BY DEF CondInSight
<1>2. /\ cond \in [Executions -> Conditions] /\ condWatch \in [Executions -> Seq(Conditions)]
      /\ worker \in Reconcile /\ (worker.pc # "idle" => worker.exec \in Executions)
  BY DEF Typed, CondTypes, WorkTypes
<1>3. Idle.pc = "idle"
  BY WorkerEnds
<1>4. CASE Aside
  BY <1>4 DEF Aside
<1>5. CASE GoesOn
  BY <1>1, <1>5 DEF GoesOn
<1>6. CASE GivesUp
  BY <1>1, <1>3, <1>6 DEF GivesUp, ReturnError
<1>7. CASE CreateExecution
  BY <1>1, <1>7 DEF CreateExecution, condVars
<1>8. CASE Restart
  <2>1. \A e \in Executions : CondInSight(e)' = {cond[e]}
    BY <1>8, NoEvent DEF Restart, CondInSight
  <2> QED BY <1>3, <1>8, <2>1 DEF Restart, CondInSight
<1>9. ASSUME NEW e \in Executions, Start(e) PROVE Seen /\ Goes
  <2>1. worker' = Idle \/ /\ worker'.pc = "check" /\ worker'.exec = e
                          /\ worker'.original = condCache[e]
    BY <1>9 DEF Start, Idle
  <2> QED BY <1>1, <1>3, <1>9, <2>1 DEF Start, condVars, CondInSight
<1>10. CASE PatchStatus
  <2>1. /\ worker.pc = "status" /\ worker' = Idle /\ condCache' = condCache
        /\ \/ WriteCond(worker.exec, worker.wanted)
           \/ UNCHANGED <<cond, condWatch>>
    BY <1>10, Zenon DEF PatchStatus, ReturnError
  <2>2. ASSUME WriteCond(worker.exec, worker.wanted) PROVE Seen
    <3>1. worker.exec \in Executions /\ worker.wanted \in Conditions
      BY <1>2, <2>1 DEF Reconcile
    <3>2. ASSUME NEW e \in Executions, e # worker.exec PROVE CondInSight(e)' = CondInSight(e)
      BY <1>2, <2>1, <2>2, <3>2 DEF WriteCond, CondInSight
    <3>3. ASSUME NEW e \in Executions, e = worker.exec
          PROVE  CondInSight(e)' \subseteq CondInSight(e) \cup {worker.wanted}
      <4>1. /\ cond'[e] = worker.wanted
            /\ condWatch'[e] = Emit(condWatch[e], cond[e], worker.wanted)
        BY <1>2, <2>2, <3>1, <3>3 DEF WriteCond
      <4>2. Events(condWatch'[e]) \subseteq Events(condWatch[e]) \cup {worker.wanted}
        BY <1>2, <3>1, <4>1, Emitted, Zenon
      <4> QED BY <2>1, <4>1, <4>2, Zenon DEF CondInSight
    <3> QED BY <2>1, <3>2, <3>3
  <2> QED BY <1>1, <1>3, <2>1, <2>2
<1> QED BY <1>4, <1>5, <1>6, <1>7, <1>8, <1>9, <1>10, CondSteps, Zenon

\* Every step keeps what is known of the routes and the successes in sight.
LEMMA EarnedNext ==
    ASSUME Typed, Typed', StageInv, CondInv, EarnedInv, [Next]_vars
    PROVE  EarnedInv'
<1>1. applied \subseteq applied' /\ \A e \in Executions : Earned(e) => Earned(e)'
  BY EarnedStays
<1>2. RoutesInSight' \subseteq applied' \cup {NoRoute}
  BY <1>1, RouteMoves DEF EarnedInv
<1>3. worker.pc # "idle" => worker.exec \in Executions
  BY DEF Typed, WorkTypes
<1>4. ASSUME NEW e \in Executions, NEW o \in CondInSight(e)', "Succeeded" \in o PROVE Earned(e)'
  BY <1>1, <1>4, ConditionMoves, Zenon DEF EarnedInv
<1>5. ASSUME worker'.pc # "idle", "Succeeded" \in worker'.original,
             NEW e \in Executions, e = worker'.exec
      PROVE  Earned(e)'
  <2>1. CASE worker.pc # "idle" /\ (worker' = worker \/ SameReconcile)
    BY <1>1, <1>3, <1>5, <2>1 DEF EarnedInv, SameReconcile
  <2>2. CASE worker'.exec \in Executions /\ worker'.original \in CondInSight(worker'.exec)
    BY <1>1, <1>5, <2>2 DEF EarnedInv
  <2> QED BY <1>5, <2>1, <2>2, ConditionMoves
<1>6. ASSUME worker'.pc = "status", "Succeeded" \in worker'.wanted,
             NEW e \in Executions, e = worker'.exec
      PROVE  Earned(e)'
  <2>1. CASE worker' = worker
    BY <1>1, <1>3, <1>6, <2>1 DEF EarnedInv
  <2>2. CASE worker' # worker
    <3>1. /\ SameReconcile /\ worker.pc # "idle"
          /\ \A d \in Executions : d = worker.exec => Earned(d) \/ Earned(d)'
      BY <1>6, <2>2, ReportEarned
    <3> QED BY <1>1, <1>3, <1>6, <3>1 DEF SameReconcile
  <2> QED BY <2>1, <2>2
<1>7. worker'.pc # "idle" => worker'.exec \in Executions
  BY DEF Typed, WorkTypes
<1> QED BY <1>2, <1>4, <1>5, <1>6, <1>7 DEF EarnedInv, Earned

\* An execution that reports success has had the route follow its plan, or a
\* later activation was recorded, or the Stage is gone; or it was skipped while
\* the informer did not hold its version.
THEOREM SuccessEarned == Spec => []SucceededIsEarned
<1>1. Init /\ Typed => EarnedInv
  <2> SUFFICES ASSUME Init, Typed PROVE EarnedInv
    OBVIOUS
  <2>1. worker.pc = "idle" /\ RoutesInSight = {NoRoute} /\ \A e \in Executions : CondInSight(e) = {{}}
    BY NoEvent, WorkerEnds DEF Init, RoutesInSight, CondInSight
  <2> QED BY <2>1 DEF EarnedInv
<1>2. EarnedInv /\ (Typed /\ StageInv) /\ (Typed /\ StageInv)' /\ (Typed /\ CondInv) /\ [Next]_vars
        => EarnedInv'
  BY EarnedNext
<1>3. Init => Typed
  BY TypedInit
<1>4. EarnedInv => SucceededIsEarned
  BY DEF EarnedInv, CondInSight, Earned, SucceededIsEarned
<1> QED BY <1>1, <1>2, <1>3, <1>4, StageSafe, CondSafe, PTL DEF Spec

=============================================================================
