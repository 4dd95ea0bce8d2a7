-------------------------- MODULE DeploymentResults --------------------------
(***************************************************************************)
(* The way of a deployment result through the system: the Flux deployer    *)
(* derives it from an annotated Service, Star collects the results of a    *)
(* vector, the ActivationTaskExecution controller turns them into rules of *)
(* the stage's HTTPRoute, the VectorData controller renders them into a    *)
(* ConfigMap, and the vector-data service reads that back for its clients. *)
(*                                                                         *)
(* The modules of the components look at when each of them runs; this one  *)
(* looks at what they hand over, for one vector.  A collection the code    *)
(* has no order for (a list of cached objects, a map) is taken in any      *)
(* order.  JSON that is only encoded and decoded is the value it encodes.  *)
(***************************************************************************)
EXTENDS Naturals, SequencesExt

CONSTANTS
    Scenarios,     \* the scenarios to look at, see Scenario
    MaxLength      \* the length of a DNS label, 63

\* Names of results are numbers, for their order; an annotation may be empty.
NoName == 0
NoPort == ""
HTTP == "http-k8s-service"

\* A Service: its two annotations, and the protocols of its ports by name.
Protocols == {"TCP", "UDP"}
Ports == UNION {[P -> Protocols] : P \in SUBSET {"web", "rpc"}}
Service == [result: Nat, exposed: {NoPort, "web", "rpc"}, ports: Ports]

\* A result, of the type that is routed or of another, with the ServiceSpec it
\* carries: K8sName, ServicePorts and IngressExposedPortName.
Result == [name: Nat, type: {HTTP, "other"}, service: Nat, ports: Ports, exposed: {NoPort, "web", "rpc"}]

\* An OCM component is the sequence of segments between the "/" of its name.
Component == Seq(STRING)

\* A flag's value, as JSON; Nil is the nil of the code.
Value == [json: {"number", "string", "bool", "object", "nil"},
          text: {"", "1", "1e999", "true", "null", "{}", "x"}]
Nil == [json |-> "nil", text |-> ""]

\* Spec.Features of a VectorData may be left out.
Features == [given: BOOLEAN, flags: UNION {[K -> Value] : K \in SUBSET {"f", "g"}}]

\* Two deployments of Flux, by the characters of their names and by component;
\* the deployment each Service is rolled out with, what it is at first and what
\* it may become; results of another deployer by component; the features of the VectorDatas
\* that follow each other; and the bound on changes of Services.
Scenario == [name: Seq(Seq(STRING)), component: Seq(Component), owner: Seq(Nat),
             services: Seq(Service), looks: SUBSET Service, foreign: Seq(Component \X Seq(Result)),
             features: Seq(Features), changes: Nat]

\* A deployment has one component and a name of its own, a Service one owner.
ASSUME ScenarioAssumption ==
    \A s \in Scenarios :
        /\ s \in Scenario
        /\ DOMAIN s.component = DOMAIN s.name /\ DOMAIN s.owner = DOMAIN s.services
        /\ \A d, e \in DOMAIN s.name : s.name[d] = s.name[e] => d = e
        /\ \A i \in DOMAIN s.owner : s.owner[i] \in DOMAIN s.name

VARIABLES
    given,             \* the scenario
    services,          \* the Services
    changes,           \* how often they may still change
    status,            \* status.deploymentResults and its condition, by deployment
    vector,            \* status.deploymentResults of the VectorDeployment, by component
    route,             \* the rules of the HTTPRoute, and the results they are from
    vectorData,        \* the VectorData: its features and results
    left,              \* features of the VectorDatas still to come
    data,              \* the ConfigMap's data, empty if there is none
    client             \* what a client of the bulk endpoint holds

vars == <<given, services, changes, status, vector, route, vectorData, left, data, client>>

Deployments == DOMAIN given.name
NoStatus == [created |-> "Unknown", results |-> << >>]
NoRoute == [rules |-> << >>, from |-> << >>]
NoClient == [code |-> 0, etag |-> {}, flags |-> << >>, of |-> << >>]

\* No VectorDeployment, VectorData or ConfigMap.
Absent == << >>

Init ==
    /\ given \in Scenarios
    /\ services = given.services /\ changes = given.changes
    /\ status = [d \in Deployments |-> NoStatus]
    /\ vector = Absent /\ route = NoRoute
    /\ vectorData = Absent /\ left = given.features
    /\ data = Absent /\ client = NoClient

-----------------------------------------------------------------------------
(* The status updater of the Flux deployer.                                *)

Alphanumeric == {"a", "b"}

SanitizeK8sResourceName(name) ==
    LET lowered == [i \in DOMAIN name |-> IF name[i] = "A" THEN "a" ELSE name[i]]
        dashed == [i \in DOMAIN name |-> IF lowered[i] \in Alphanumeric THEN lowered[i] ELSE "-"]
        kept == {i \in DOMAIN name : dashed[i] \in Alphanumeric}
        trimmed == IF kept = {} THEN << >> ELSE SubSeq(dashed, Min(kept), Max(kept))
    IN SubSeq(trimmed, 1, Min({Len(trimmed), MaxLength}))

\* Flux labels what it rolls out with the name of the ArtifactDeployment.
Label(s) == given.name[given.owner[s]]

\* Faulty variant: those of the whole namespace.
fetchExposableServices_All(d) == DOMAIN services

\* The Services carry a label, and are selected by one.
fetchExposableServices(d) ==
    {s \in DOMAIN services : Label(s) = SanitizeK8sResourceName(given.name[d])}

hasDeploymentResultName(s) == services[s].result # NoName

\* The port an annotation names is there and is TCP.
portSelectable(ports, name) == name \in DOMAIN ports /\ ports[name] = "TCP"

\* Faulty variant: any protocol will do.
validateExposePorts_AnyProtocol(listed) ==
    \A s \in listed : hasDeploymentResultName(s) /\ services[s].exposed # NoPort =>
        services[s].exposed \in DOMAIN services[s].ports

validateExposePorts(listed) ==
    \A s \in listed :
        hasDeploymentResultName(s) /\ services[s].exposed # NoPort =>
            portSelectable(services[s].ports, services[s].exposed)

resultOf(s) == [name |-> services[s].result, type |-> HTTP, service |-> s,
                ports |-> services[s].ports, exposed |-> services[s].exposed]

resultsDistinct(opted) ==
    \A s, t \in opted : services[s].result = services[t].result => s = t

\* mapServicesToDeploymentResults gives the results in the order of the list,
\* or an error: then the status stays.
mapServicesToDeploymentResults(listed) ==
    LET opted == {s \in listed : hasDeploymentResultName(s)} IN
    IF resultsDistinct(opted)
    THEN {[i \in DOMAIN order |-> resultOf(order[i])] : order \in SetToSeqs(opted)}
    ELSE {}

\* The deployment is deployed; a reconcile for it stores its status.
MutateStatus(d) ==
    /\ status[d].created # "Stalled"
    /\ LET listed == fetchExposableServices(d) IN
       IF validateExposePorts(listed)
       THEN \E results \in mapServicesToDeploymentResults(listed) :
                status' = [status EXCEPT ![d] = [created |-> "True", results |-> results]]
       ELSE status' = [status EXCEPT ![d] = [created |-> "Stalled", results |-> << >>]]
    /\ UNCHANGED <<given, services, changes, vector, route, vectorData, left, data, client>>

\* A rollout or an admin changes a Service.
ChangeService(s) ==
    /\ changes > 0
    /\ changes' = changes - 1
    /\ \E look \in given.looks \ {services[s]} : services' = [services EXCEPT ![s] = look]
    /\ UNCHANGED <<given, status, vector, route, vectorData, left, data, client>>

-----------------------------------------------------------------------------
(* Star collects the results of all components, and makes the VectorData.  *)

\* The map of the VectorDeployment's status.
Collected ==
    [c \in ToSet(given.component) \cup {f[1] : f \in ToSet(given.foreign)} |->
        IF c \in ToSet(given.component)
        THEN status[CHOOSE d \in Deployments : given.component[d] = c].results
        ELSE (CHOOSE f \in ToSet(given.foreign) : f[1] = c)[2]]

Collect ==
    /\ \A d \in Deployments : status[d].created = "True"
    /\ vector' = Collected /\ vector' # vector
    /\ UNCHANGED <<given, services, changes, status, route, vectorData, left, data, client>>

CreateVectorData ==
    /\ vector # Absent /\ vectorData = Absent /\ left # << >>
    /\ vectorData' = [features |-> Head(left), results |-> vector]
    /\ left' = Tail(left)
    /\ UNCHANGED <<given, services, changes, status, vector, route, data, client>>

\* Faulty variant: the ConfigMap stays.
DeleteVectorData_KeepsData ==
    /\ vectorData # Absent
    /\ vectorData' = Absent
    /\ UNCHANGED <<given, services, changes, status, vector, route, left, data, client>>

\* A VectorData of the same name may follow; its ConfigMap goes before it does
\* (module VectorData has the steps).
DeleteVectorData ==
    /\ vectorData # Absent
    /\ vectorData' = Absent /\ data' = Absent
    /\ UNCHANGED <<given, services, changes, status, vector, route, left, client>>

-----------------------------------------------------------------------------
(* The ActivationTaskExecution controller builds the rules of the route.   *)

At(results, x) == results[x[1]][x[2]]

\* The results that are to be routed, with their place in the vector.
Exposed(results) ==
    {x \in UNION {{c} \X DOMAIN results[c] : c \in DOMAIN results} :
        At(results, x).type = HTTP /\ At(results, x).exposed # NoPort}

Rule(r) == [header |-> r.name, backend |-> r.service, port |-> r.exposed]

\* Faulty variant: in the order of the map, unsorted.
sortedTargets_AnyOrder(results) == SetToSeqs(Exposed(results))

\* In the order of their names; sort.Slice leaves equal ones in any order.
sortedTargets(results) ==
    {s \in SetToSeqs(Exposed(results)) :
        \A i, j \in DOMAIN s : i < j => At(results, s[i]).name <= At(results, s[j]).name}

\* Faulty variant: a result whose port cannot be used is left out.
buildRouteRules_Skips(results) ==
    LET good(s) == SelectSeq(s, LAMBDA x :
                       portSelectable(At(results, x).ports, At(results, x).exposed))
    IN {[i \in DOMAIN good(s) |-> Rule(At(results, good(s)[i]))] :
           s \in sortedTargets(results)}

\* The rules that may come out; none is an error.
buildRouteRules(results) ==
    IF \A x \in Exposed(results) :
           portSelectable(At(results, x).ports, At(results, x).exposed)
    THEN {[i \in DOMAIN s |-> Rule(At(results, s[i]))] : s \in sortedTargets(results)}
    ELSE {}

\* The route is written, or removed when there are no rules.
ApplyRoute ==
    /\ vector # Absent
    /\ \E rules \in buildRouteRules(vector) : route' = [rules |-> rules, from |-> vector]
    /\ UNCHANGED <<given, services, changes, status, vector, vectorData, left, data, client>>

-----------------------------------------------------------------------------
(* The VectorData controller renders the ConfigMap.                        *)

\* The last segment, unless the name ends in "/".
componentBasename(c) == IF Len(c) > 1 /\ Last(c) # "" THEN <<Last(c)>> ELSE c

\* A value of the ConfigMap: features or a list of results, or null.
rawOrNull(features) == IF features.given THEN [json |-> "object", flags |-> features.flags]
                       ELSE [json |-> "null", flags |-> << >>]

assertUniqueResults(results) ==
    \A i, j \in DOMAIN results :
        results[i].name = results[j].name /\ results[i].type = results[j].type => i = j

\* A key is a prefix, a base name and a suffix; "/" is no character of a key.
DeploymentResultsPrefix == "deploymentResults."
JSONSuffix == ".json"
dataKey(c) == <<DeploymentResultsPrefix>> \o componentBasename(c) \o <<JSONSuffix>>
Rendered(results) == {c \in DOMAIN results : componentBasename(c) # <<"">>}

\* Faulty variant: of two components with the same key, one is rendered.
renderData_Overwrites(vd) ==
    IF \A c \in Rendered(vd.results) : assertUniqueResults(vd.results[c])
    THEN [features |-> rawOrNull(vd.features),
          results |-> [k \in {dataKey(c) : c \in Rendered(vd.results)} |->
                          vd.results[CHOOSE c \in Rendered(vd.results) : dataKey(c) = k]]]
    ELSE Absent

renderData(vd) ==
    IF /\ \A c, e \in Rendered(vd.results) : dataKey(c) = dataKey(e) => c = e
       /\ \A c \in Rendered(vd.results) : assertUniqueResults(vd.results[c])
    THEN [features |-> rawOrNull(vd.features),
          results |-> [k \in {dataKey(c) : c \in Rendered(vd.results)} |->
                          vd.results[CHOOSE c \in Rendered(vd.results) : dataKey(c) = k]]]
    ELSE Absent

\* The API server refuses a ConfigMap with a key that has a "/".
validKeys(rendered) == \A k \in DOMAIN rendered.results : Len(k) = 3

Materialize ==
    /\ vectorData # Absent /\ data = Absent
    /\ data' = renderData(vectorData) /\ data' # Absent /\ validKeys(data')
    /\ UNCHANGED <<given, services, changes, status, vector, route, vectorData, left, client>>

-----------------------------------------------------------------------------
(* The vector-data service answers from the ConfigMap.                     *)

\* The name in a key: without its prefix and, if it has it, its suffix.
deploymentName(key) == IF Last(key) = JSONSuffix THEN SubSeq(key, 2, Len(key) - 1) ELSE Tail(key)

\* Every key has a name; Absent is the empty string of the code.
getConfiguration(cm) ==
    IF cm = Absent THEN Absent
    ELSE [features |-> cm.features,
          deploymentResults |-> [n \in {deploymentName(k) : k \in DOMAIN cm.results} |->
              cm.results[CHOOSE k \in DOMAIN cm.results : deploymentName(k) = n]]]

\* What is in a string that is JSON, and the numbers that Go has a type for.
JSONTexts == [text \in {"1", "null"} |->
                 IF text = "1" THEN [json |-> "number", text |-> "1"] ELSE Nil]
Numbers == {"1"}

parseFlagValue(value) ==
    CASE value.json = "number" -> IF value.text \in Numbers THEN value ELSE [value EXCEPT !.json = "string"]
      [] value.json = "string" -> IF value.text \in DOMAIN JSONTexts THEN JSONTexts[value.text] ELSE value
      [] value.json = "bool" -> value
      [] OTHER -> Nil

\* getAllFeatures fails on features that are no JSON object.
featuresFail(config) == config.features.json # "object"

Answer(code, value) == [code |-> code, value |-> value]

\* For a key that is not the vectorId.
handleEvaluateSingle(key) ==
    LET config == getConfiguration(data)
        value == IF key \in DOMAIN config.features.flags
                 THEN parseFlagValue(config.features.flags[key]) ELSE Nil
    IN CASE config = Absent -> Answer(404, Nil)
         [] config # Absent /\ featuresFail(config) -> Answer(500, Nil)
         [] config # Absent /\ ~featuresFail(config) -> Answer(IF value = Nil THEN 404 ELSE 200, value)

\* All flags, sorted by their keys; Nil stands for an entry with FLAG_NOT_FOUND.
allFlags(config) ==
    IF config = Absent THEN << >>
    ELSE [key \in DOMAIN config.features.flags |-> parseFlagValue(config.features.flags[key])]

\* Faulty variant: of the keys only.
generateEtag_Keys(flags) == [key \in DOMAIN flags |-> Nil]

\* A hash of the body: different ones for different bodies.
generateEtag(flags) == flags

\* A client asks for all flags and sends the ETag it has, if any.
handleEvaluateBulk ==
    LET config == getConfiguration(data)
        flags == allFlags(config)
        answer == IF config # Absent /\ featuresFail(config) THEN [client EXCEPT !.code = 500]
                  ELSE IF generateEtag(flags) \in client.etag THEN [client EXCEPT !.code = 304]
                  ELSE [client EXCEPT !.code = 200, !.etag = {generateEtag(flags)}, !.flags = flags]
    IN /\ client' = [answer EXCEPT !.of = data]
       /\ UNCHANGED <<given, services, changes, status, vector, route, vectorData, left, data>>

-----------------------------------------------------------------------------
Next ==
    \/ \E d \in Deployments : MutateStatus(d)
    \/ \E s \in DOMAIN services : ChangeService(s)
    \/ Collect
    \/ CreateVectorData
    \/ DeleteVectorData
    \/ ApplyRoute
    \/ Materialize
    \/ handleEvaluateBulk

Spec == Init /\ [][Next]_vars

-----------------------------------------------------------------------------
\* The variables keep their types; a ConfigMap is one of a VectorData.
TypeOK ==
    /\ services \in Seq(Service) /\ changes \in Nat
    /\ \A d \in Deployments :
         status[d].created \in {"Unknown", "True", "Stalled"} /\ status[d].results \in Seq(Result)
    /\ \A c \in DOMAIN vector : vector[c] \in Seq(Result)
    /\ route.rules \in Seq([header: Nat, backend: Nat, port: {"web", "rpc"}])
    /\ client.code \in {0, 200, 304, 500}
    /\ data # Absent => vectorData # Absent

\* What the Flux deployer publishes is fit for both of its consumers: buildRouteRules
\* makes rules of it and assertUniqueResults accepts it, whatever the Services
\* were like (validateExposePorts and mapServicesToDeploymentResults see to it).
PublishedIsAccepted ==
    \A d \in Deployments :
        /\ buildRouteRules([c \in {given.component[d]} |-> status[d].results]) # {}
        /\ assertUniqueResults(status[d].results)

\* A deployment whose name SanitizeK8sResourceName leaves alone publishes its
\* own annotated Services, all of them and no other's.
PublishesOwnServices ==
    [][\A d \in Deployments :
         /\ status'[d] # status[d] /\ status'[d].created = "True"
         /\ SanitizeK8sResourceName(given.name[d]) = given.name[d]
         => {r.service : r \in ToSet(status'[d].results)} =
              {s \in DOMAIN services : given.owner[s] = d /\ hasDeploymentResultName(s)}]_vars

\* Each exposed result of the vector has its one rule, to a TCP port of its
\* Service: buildRouteRules leaves none out, and would rather fail.
EachExposedIsRouted ==
    /\ Len(route.rules) = Cardinality(Exposed(route.from))
    /\ \A x \in Exposed(route.from) :
         /\ Rule(At(route.from, x)) \in ToSet(route.rules)
         /\ portSelectable(At(route.from, x).ports, At(route.from, x).exposed)

\* Building the rules again from the same results, listed in another order,
\* leaves the HTTPRoute as it is, unless a name occurs in two components.
RouteIsStable ==
    [][LET same == /\ DOMAIN route'.from = DOMAIN route.from
                   /\ \A c \in DOMAIN route.from : ToSet(route'.from[c]) = ToSet(route.from[c])
           unique == \A x, y \in Exposed(route.from) :
                         At(route.from, x).name = At(route.from, y).name => x = y
       IN same /\ unique => route'.rules = route.rules]_vars

\* The configuration that the vector-data service reads out of the ConfigMap has
\* the results of each component of the VectorData, under its base name.
ServedAsPublished ==
    data # Absent =>
        LET served == getConfiguration(data).deploymentResults
            sent == vectorData.results
        IN /\ DOMAIN served = {componentBasename(c) : c \in Rendered(sent)}
           /\ \A c \in Rendered(sent) : served[componentBasename(c)] = sent[c]

\* A client that was sent all flags, or told that those it has are still right
\* (304), has for each flag what the endpoint for a single flag answers.
ClientAgrees ==
    client.code \in {200, 304} /\ client.of = data =>
        \A key \in {"f", "g"} :
            LET held == IF key \in DOMAIN client.flags THEN client.flags[key] ELSE Nil
            IN handleEvaluateSingle(key) = Answer(IF held = Nil THEN 404 ELSE 200, held)

\* A flag of a vector that has no features is not found: it is no internal error.
\* (What vector_data_service_test.go expects of a ConfigMap without features.)
FeaturelessIsNotFound ==
    data # Absent /\ DOMAIN vectorData.features.flags = {} =>
        \A key \in {"f", "g"} : handleEvaluateSingle(key).code = 404
=============================================================================
