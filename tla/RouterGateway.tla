---------------------------- MODULE RouterGateway ----------------------------
(***************************************************************************)
(* Provisioning of the Gateway `konfidence-router` (router_gateway.go):    *)
(* one call of ensureRouterGateway per reconcile of an activation task     *)
(* execution, against a Gateway that an admin and the implementation of    *)
(* its GatewayClass change meanwhile.                                      *)
(*                                                                         *)
(* The call reads the Gateway from an informer cache that lags behind and  *)
(* addresses its writes by name.  A Gateway of that name may go and come   *)
(* again; an incarnation of it is its uid.                                 *)
(***************************************************************************)
EXTENDS Naturals, Sequences

CONSTANTS
    Callers,        \* the executions that call ensureRouterGateway
    StoredRequests, \* what the installed CRDs may leave of the requested addresses
    MaxGateways     \* bound: how often a Gateway of the name is created

VARIABLES
    gateway,        \* the Gateway as the API server stores it
    gatewayWatch,   \* the states of it that the informer has not yet seen
    gatewayCache,   \* the informer's copy
    gatewayClass,   \* the informer has seen the GatewayClass
    overdue,        \* uids created more than routerGatewayReadyTimeout ago
    late,           \* callers that age, while the GatewayClass is missing
    call,           \* the call of ensureRouterGateway in progress
    provisioned,    \* history: the orchestrator has created a Gateway
    faults          \* bound: API calls that fail or lose their answer, and restarts, to come

gatewayObjects == <<gateway, gatewayWatch, gatewayCache>>
gatewayEnv == <<gatewayClass, overdue, late>>
gatewayState == <<gatewayObjects, gatewayEnv, call, provisioned>>
gatewayVars == <<gatewayState, faults>>

\* Routability of an address: the cluster's, or any other value or none.
Routability == {"Cluster", "other"}
GatewayUids == 0..MaxGateways

ASSUME GatewayAssumption == /\ MaxGateways \in Nat
                            /\ StoredRequests \subseteq SUBSET Routability

Gateway == [uid: GatewayUids, stored: BOOLEAN, labelled: BOOLEAN,
            requested: SUBSET Routability, rejected: BOOLEAN,
            programmed: BOOLEAN, addresses: SUBSET Routability]

\* A Gateway whose implementation has not reported anything yet.
Fresh(u, labelled, requested) ==
    [uid |-> u, stored |-> TRUE, labelled |-> labelled, requested |-> requested,
     rejected |-> FALSE, programmed |-> FALSE, addresses |-> {}]

Absent(u) == [Fresh(u, FALSE, {}) EXCEPT !.stored = FALSE]

\* A routerGatewayState: its phase, where "exposed" is a failed one whose
\* Gateway must be deleted, or the error that ensureRouterGateway returns.
States == {"pending", "ready", "failed", "exposed", "error"}
NoCall == [pc |-> "idle", caller |-> 0, uid |-> 0, state |-> "pending"]

GatewayTypeOK ==
    /\ gateway \in Gateway
    /\ gatewayWatch \in Seq(Gateway)
    /\ gatewayCache \in Gateway
    /\ gatewayClass \in BOOLEAN
    /\ overdue \subseteq GatewayUids
    /\ late \subseteq Callers
    /\ call \in [pc: {"idle", "get", "class", "create", "delete", "returned"},
                 caller: Callers \cup {0}, uid: GatewayUids, state: States]
    /\ provisioned \in BOOLEAN
    /\ faults \in Nat

\* A Gateway of the name can be created n times, and f faults happen at most.
GatewayInit(n, f) ==
    /\ gateway = Absent(MaxGateways - n) /\ gatewayWatch = << >> /\ gatewayCache = gateway
    /\ gatewayClass \in BOOLEAN
    /\ overdue = {} /\ late = {}
    /\ call = NoCall
    /\ provisioned = FALSE
    /\ faults = f

-----------------------------------------------------------------------------
(* Pure parts                                                              *)

requestsClusterRoutability(g) == g.requested = {"Cluster"}

\* Faulty variant: one cluster-routable address is enough.
isClusterRoutable_Any(g) == requestsClusterRoutability(g) /\ "Cluster" \in g.addresses

isClusterRoutable(g) == requestsClusterRoutability(g) /\ g.addresses = {"Cluster"}

evaluateRouterGateway(g, timedOut) ==
    IF ~requestsClusterRoutability(g) THEN "exposed"
    ELSE IF g.rejected THEN "failed"
    ELSE IF isClusterRoutable(g) THEN "ready"
    ELSE IF g.programmed /\ g.addresses # {} THEN "exposed"
    ELSE IF timedOut THEN "failed"
    ELSE "pending"

missingGatewayClassState(timedOut) == IF timedOut THEN "failed" ELSE "pending"

-----------------------------------------------------------------------------
(* The API server, the admin, the implementation and the clock             *)

WriteGateway(new) ==
    /\ gateway' = new
    /\ gatewayWatch' = IF new = gateway THEN gatewayWatch ELSE Append(gatewayWatch, new)

\* An admin's Gateway carries no provisioned-by label.
AdminCreate ==
    /\ ~gateway.stored /\ gateway.uid < MaxGateways
    /\ WriteGateway(Fresh(gateway.uid + 1, FALSE, {}))
    /\ UNCHANGED <<gatewayCache, gatewayEnv, call, provisioned, faults>>

\* Within the bound, the name can be taken again.
AdminDelete ==
    /\ gateway.stored /\ gateway.uid < MaxGateways
    /\ WriteGateway(Absent(gateway.uid))
    /\ UNCHANGED <<gatewayCache, gatewayEnv, call, provisioned, faults>>

\* The implementation rejects the Gateway, or assigns addresses once and then
\* programs it.  Nobody looks at what it reports of an admin's Gateway.
ImplementationReports ==
    /\ gateway.stored /\ gateway.labelled /\ ~gateway.rejected
    /\ \/ /\ gateway.addresses = {}
          /\ \/ WriteGateway([gateway EXCEPT !.rejected = TRUE])
             \/ \E a \in SUBSET Routability \ {{}} :
                   WriteGateway([gateway EXCEPT !.addresses = a])
       \/ /\ ~gateway.programmed
          /\ WriteGateway([gateway EXCEPT !.programmed = TRUE])
    /\ UNCHANGED <<gatewayCache, gatewayEnv, call, provisioned, faults>>

DeliverGateway ==
    /\ gatewayWatch # << >>
    /\ gatewayCache' = Head(gatewayWatch)
    /\ gatewayWatch' = Tail(gatewayWatch)
    /\ UNCHANGED <<gateway, gatewayEnv, call, provisioned, faults>>

InstallClass ==
    /\ ~gatewayClass
    /\ gatewayClass' = TRUE /\ late' = {}
    /\ UNCHANGED <<gatewayObjects, overdue, call, provisioned, faults>>

\* routerGatewayReadyTimeout passes for a Gateway, or for an execution, whose
\* age only matters while the GatewayClass is missing.
GatewayTimeout ==
    /\ gateway.stored /\ gateway.labelled /\ gateway.uid \notin overdue
    /\ overdue' = overdue \cup {gateway.uid}
    /\ UNCHANGED <<gatewayObjects, gatewayClass, late, call, provisioned, faults>>

CallerTimeout(e) ==
    /\ e \in Callers \ late /\ ~gatewayClass
    /\ late' = late \cup {e}
    /\ UNCHANGED <<gatewayObjects, gatewayClass, overdue, call, provisioned, faults>>

-----------------------------------------------------------------------------
(* ensureRouterGateway                                                     *)

Answer(state, u) == call' = [call EXCEPT !.pc = "returned", !.state = state, !.uid = u]

\* The caller sees an error although the API server refused nothing.
Fault == faults > 0 /\ faults' = faults - 1

\* A call fails, and ensureRouterGateway with it.
Failure == Fault /\ Answer("error", call.uid)

Call(e) ==
    /\ call.pc = "idle"
    /\ call' = [NoCall EXCEPT !.pc = "get", !.caller = e]
    /\ UNCHANGED <<gatewayObjects, gatewayEnv, provisioned, faults>>

\* Faulty variant: the label is not looked at.
GetGateway_IgnoresLabel ==
    LET g == gatewayCache
        state == evaluateRouterGateway(g, g.uid \in overdue) IN
    /\ call.pc = "get"
    /\ \/ ~g.stored /\ call' = [call EXCEPT !.pc = "class"]
       \/ /\ g.stored /\ state = "exposed"
          /\ call' = [call EXCEPT !.pc = "delete", !.uid = g.uid]
       \/ g.stored /\ state # "exposed" /\ Answer(state, g.uid)
    /\ UNCHANGED <<gatewayObjects, gatewayEnv, provisioned, faults>>

\* The cached Gateway decides: create one, take the admin's as it is, or
\* evaluate the orchestrator's own.
GetGateway ==
    LET g == gatewayCache
        state == evaluateRouterGateway(g, g.uid \in overdue) IN
    /\ call.pc = "get"
    /\ \/ /\ ~g.stored
          /\ call' = [call EXCEPT !.pc = "class"]
          /\ UNCHANGED faults
       \/ /\ g.stored /\ ~g.labelled
          /\ Answer("ready", g.uid)
          /\ UNCHANGED faults
       \/ /\ g.stored /\ g.labelled /\ state = "exposed"
          /\ call' = [call EXCEPT !.pc = "delete", !.uid = g.uid]
          /\ UNCHANGED faults
       \/ /\ g.stored /\ g.labelled /\ state # "exposed"
          /\ Answer(state, g.uid)
          /\ UNCHANGED faults
       \/ Failure
    /\ UNCHANGED <<gatewayObjects, gatewayEnv, provisioned>>

GetGatewayClass ==
    /\ call.pc = "class"
    /\ \/ /\ gatewayClass
          /\ call' = [call EXCEPT !.pc = "create"]
          /\ UNCHANGED faults
       \/ /\ ~gatewayClass
          /\ Answer(missingGatewayClassState(call.caller \in late), call.uid)
          /\ UNCHANGED faults
       \/ Failure
    /\ UNCHANGED <<gatewayObjects, gatewayEnv, provisioned>>

\* Create answers with the stored object: a pruned request leads to its
\* deletion at once.  AlreadyExists counts as created.
CreateGateway ==
    /\ call.pc = "create"
    /\ \/ /\ ~gateway.stored /\ gateway.uid < MaxGateways
          /\ \E requested \in StoredRequests :
               LET new == Fresh(gateway.uid + 1, TRUE, requested) IN
               /\ WriteGateway(new)
               /\ \/ /\ IF requestsClusterRoutability(new) THEN Answer("pending", new.uid)
                        ELSE call' = [call EXCEPT !.pc = "delete", !.uid = new.uid]
                     /\ UNCHANGED faults
                  \/ Failure
          /\ provisioned' = TRUE
       \/ /\ gateway.stored
          /\ Answer("pending", call.uid)
          /\ UNCHANGED <<gateway, gatewayWatch, provisioned, faults>>
       \/ Failure /\ UNCHANGED <<gateway, gatewayWatch, provisioned>>
    /\ UNCHANGED <<gatewayCache, gatewayEnv>>

\* Faulty variant: the error of the deletion is dropped.
DeleteGateway_IgnoresError ==
    /\ call.pc = "delete"
    /\ WriteGateway(Absent(gateway.uid)) \/ UNCHANGED <<gateway, gatewayWatch>>
    /\ Answer("exposed", call.uid)
    /\ UNCHANGED <<gatewayCache, gatewayEnv, provisioned, faults>>

\* Delete by name, without a precondition on the uid; NotFound is no error.
DeleteGateway ==
    /\ call.pc = "delete"
    /\ \/ /\ WriteGateway(Absent(gateway.uid))
          /\ \/ Answer("exposed", call.uid) /\ UNCHANGED faults
             \/ Failure
       \/ Failure /\ UNCHANGED <<gateway, gatewayWatch>>
    /\ UNCHANGED <<gatewayCache, gatewayEnv, provisioned>>

\* The caller takes the answer.
EndCall ==
    /\ call.pc = "returned"
    /\ call' = NoCall
    /\ UNCHANGED <<gatewayObjects, gatewayEnv, provisioned, faults>>

\* The operator process is replaced: the call is lost, the cache listed afresh.
GatewayRestart ==
    /\ Fault
    /\ call' = NoCall
    /\ gatewayCache' = gateway /\ gatewayWatch' = << >>
    /\ UNCHANGED <<gateway, gatewayEnv, provisioned>>

-----------------------------------------------------------------------------
GatewayEnvironment == \/ AdminCreate \/ AdminDelete \/ ImplementationReports
                      \/ DeliverGateway \/ InstallClass \/ GatewayTimeout
                      \/ \E e \in Callers : CallerTimeout(e)

EnsureRouterGateway == \/ GetGateway \/ GetGatewayClass \/ CreateGateway \/ DeleteGateway

-----------------------------------------------------------------------------
(* Properties                                                              *)

\* When ensureRouterGateway reports a Gateway as exposed, that Gateway is no
\* longer stored, whatever else happened to the name in the meantime.
ExposedIsDeleted ==
    call.pc = "returned" /\ call.state = "exposed"
        => ~(gateway.stored /\ gateway.uid = call.uid)

\* "A Gateway of that name without the label belongs to the admin and is never
\* modified or deleted": ensureRouterGateway leaves an admin's Gateway alone in a
\* landscape where the orchestrator has provisioned none before, through every
\* race of the first provisioning.
FirstAdminGatewayKept ==
    [][call.pc \in {"get", "class", "create", "delete"} /\ call' # call /\ call'.pc # "idle"
          /\ gateway.stored /\ ~gateway.labelled /\ ~provisioned
       => gateway' = gateway]_gatewayVars

=============================================================================
