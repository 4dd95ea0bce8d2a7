-------------------------- MODULE VectorDataService --------------------------
(***************************************************************************)
(* The vector-data service (cmd/vectordata) for one vectorId: requests     *)
(* read its configuration through a cache, a miss loads the ConfigMap with *)
(* one call that concurrent requests share, and an informer of its own     *)
(* drops the entry when the ConfigMap changes or goes.  main ends the      *)
(* process on a signal or on an error of its two background goroutines.    *)
(*                                                                         *)
(* A configuration is the version of the ConfigMap it was read from; a     *)
(* version is never used twice.                                            *)
(***************************************************************************)
EXTENDS Naturals, Sequences

CONSTANTS
    Requests,      \* the requests that are made
    Refused,       \* those that are refused unread: they have no targeting key
    Loadable,      \* the versions with a configuration that parses; the others
                   \* have no key of one or text that is no JSON
    MaxVersion,    \* bound: writes of the ConfigMap
    MaxRelists,    \* bound: how often the watch breaks and the informer relists
    MaxFaults      \* bound: API calls that fail

None == 0
Versions == 1..MaxVersion

ASSUME BoundsAssumption == MaxVersion \in Nat /\ MaxRelists \in Nat /\ MaxFaults \in Nat
ASSUME LoadableAssumption == Loadable \subseteq Versions
ASSUME RefusedAssumption == Refused \subseteq Requests

VARIABLES
    cm, last,        \* the stored version, None if absent, and the last one used
    cmWatch,         \* the states that the informer has not yet seen
    informed,        \* the version in the informer's store
    cache,           \* the entry of the vectorId in the InMemoryCache
    request,         \* the step of each request
    flight,          \* the singleflight call: its step and what it read
    raced, skipped,  \* history: how an invalidation missed its entry
    sync,            \* the goroutine that awaits the informer's first sync
    server,          \* the goroutine of the HTTP server
    errChan,         \* the number of errors in the channel
    main, cause,     \* where main is, and what its select received
    exitCode,        \* the status it exits with
    relists, faults

cmVars == <<cm, last, cmWatch>>
cacheVars == <<informed, cache>>
loadVars == <<request, flight>>
histVars == <<raced, skipped>>
processVars == <<sync, server, errChan, main, cause, exitCode>>
boundVars == <<relists, faults>>
vars == <<cmVars, cacheVars, loadVars, histVars, processVars, boundVars>>

NoFlight == [pc |-> "none", read |-> None]

TypeOK ==
    /\ cm \in 0..MaxVersion /\ last \in 0..MaxVersion
    /\ cmWatch \in Seq(0..MaxVersion)
    /\ informed \in 0..MaxVersion /\ cache \in 0..MaxVersion
    /\ request \in [Requests -> {"new", "waiting", "answered"}]
    /\ flight \in [pc: {"none", "get", "set"}, read: 0..MaxVersion]
    /\ raced \in BOOLEAN /\ skipped \in BOOLEAN
    /\ sync \in {"waiting", "synced", "failed"} /\ server \in {"serving", "failed", "closed"}
    /\ errChan \in 0..2
    /\ main \in {"select", "shutdown", "exited"} /\ cause \in {"none", "signal", "error"}
    /\ exitCode \in {0, 1}
    /\ relists \in 0..MaxRelists /\ faults \in 0..MaxFaults

Init ==
    /\ cm \in {None, 1} \cap 0..MaxVersion /\ last = cm /\ cmWatch = << >>
    /\ informed = None /\ cache = None
    /\ request = [r \in Requests |-> "new"]
    /\ flight = NoFlight
    /\ raced = FALSE /\ skipped = FALSE
    /\ sync = "waiting" /\ server = "serving" /\ errChan = 0
    /\ main = "select" /\ cause = "none" /\ exitCode = 0
    /\ relists = 0 /\ faults = 0

-----------------------------------------------------------------------------
(* The ConfigMap is created, updated or deleted.                           *)

WriteConfigMap(new) == cm' = new /\ cmWatch' = Append(cmWatch, new)

PutConfigMap ==
    /\ last < MaxVersion
    /\ last' = last + 1
    /\ WriteConfigMap(last')
    /\ UNCHANGED <<cacheVars, loadVars, histVars, processVars, boundVars>>

DeleteConfigMap ==
    /\ cm # None
    /\ WriteConfigMap(None)
    /\ UNCHANGED <<last, cacheVars, loadVars, histVars, processVars, boundVars>>

-----------------------------------------------------------------------------
(* The informer's handlers.  There is none for an addition.                *)

Running == main # "exited"

\* Faulty variant: only updates are handled.
Invalidates_UpdateOnly(old, new) == old # None /\ new # None /\ new # old

\* UpdateFunc and DeleteFunc drop the entry.
Invalidates(old, new) == old # None /\ new # old

Inform(new) ==
    /\ informed' = new
    /\ cache' = IF Invalidates(informed, new) THEN None ELSE cache

DeliverConfigMap ==
    /\ Running /\ sync = "synced" /\ cmWatch # << >>
    /\ Inform(Head(cmWatch))
    /\ cmWatch' = Tail(cmWatch)
    /\ raced' = (raced \/ (flight.pc = "set" /\ flight.read = informed))
    /\ UNCHANGED <<cm, last, loadVars, skipped, processVars, boundVars>>

\* The watch broke: the informer sees the present state next, and a version
\* that came and went in between is never announced.
Relist ==
    /\ Running /\ sync = "synced" /\ cmWatch # << >> /\ relists < MaxRelists
    /\ relists' = relists + 1
    /\ Inform(cm)
    /\ cmWatch' = << >>
    /\ raced' = (raced \/ (flight.pc = "set" /\ flight.read # cm))
    /\ skipped' = (skipped \/ (informed = None /\ Len(cmWatch) > 1))
    /\ UNCHANGED <<cm, last, loadVars, processVars, faults>>

-----------------------------------------------------------------------------
(* Requests reach the process once its readiness probe has succeeded.      *)

\* The handlers answer, whatever the status: nobody acts on it.
Reply(rs) == request' = [r \in Requests |-> IF r \in rs THEN "answered" ELSE request[r]]

Waiting == {r \in Requests : request[r] = "waiting"}

\* The handlers up to and with getConfiguration: a bad request is refused, a
\* hit is answered from the cache, a miss joins the call in progress or starts
\* one.
Lookup(r) ==
    /\ server = "serving" /\ sync = "synced" /\ request[r] = "new"
    /\ \/ /\ r \in Refused \/ cache # None
          /\ Reply({r}) /\ UNCHANGED flight
       \/ /\ r \notin Refused /\ cache = None
          /\ request' = [request EXCEPT ![r] = "waiting"]
          /\ flight' = IF flight.pc = "none" THEN [NoFlight EXCEPT !.pc = "get"] ELSE flight
    /\ UNCHANGED <<cmVars, cacheVars, histVars, processVars, boundVars>>

\* Everyone who waits for the call gets its result, or its error.
Land == Reply(Waiting) /\ flight' = NoFlight

\* The Get of the ConfigMap.  Only a configuration is cached: the absence of
\* the ConfigMap or of its key is a result, text that is no JSON an error.
Fetch ==
    /\ Running /\ flight.pc = "get"
    /\ \/ /\ cm \notin Loadable
          /\ Land /\ UNCHANGED faults
       \/ /\ cm \in Loadable
          /\ flight' = [pc |-> "set", read |-> cm] /\ UNCHANGED <<request, faults>>
       \/ /\ faults < MaxFaults /\ faults' = faults + 1
          /\ Land
    /\ UNCHANGED <<cmVars, cacheVars, histVars, processVars, relists>>

\* Faulty variant: the followers of the call are forgotten.
Store_LeaderOnly ==
    /\ Running /\ flight.pc = "set"
    /\ cache' = flight.read
    /\ Reply({CHOOSE r \in Requests : request[r] = "waiting"})
    /\ flight' = NoFlight
    /\ UNCHANGED <<cmVars, informed, histVars, processVars, boundVars>>

Store ==
    /\ Running /\ flight.pc = "set"
    /\ cache' = flight.read
    /\ Land
    /\ UNCHANGED <<cmVars, informed, histVars, processVars, boundVars>>

-----------------------------------------------------------------------------
(* The process                                                             *)

\* The first list of the informer, or the end of the wait for it; a shutdown
\* on a signal ends the wait without an error.
InformerSyncs ==
    /\ Running /\ sync = "waiting"
    /\ sync' = "synced"
    /\ informed' = cm /\ cmWatch' = << >>
    /\ UNCHANGED <<cm, last, cache, loadVars, histVars, server, errChan, main, cause,
                   exitCode, boundVars>>

\* Faulty variant: the branch of the deadline does not return, so that the
\* general error is sent as well.
SyncTimesOut_SendsTwice ==
    /\ Running /\ sync = "waiting" /\ cause # "signal"
    /\ sync' = "failed" /\ errChan' = errChan + 2
    /\ UNCHANGED <<cmVars, cacheVars, loadVars, histVars, server, main, cause, exitCode, boundVars>>

SyncTimesOut ==
    /\ Running /\ sync = "waiting" /\ cause # "signal"
    /\ sync' = "failed" /\ errChan' = errChan + 1
    /\ UNCHANGED <<cmVars, cacheVars, loadVars, histVars, server, main, cause, exitCode, boundVars>>

ServerFails ==
    /\ Running /\ server = "serving"
    /\ server' = "failed" /\ errChan' = errChan + 1
    /\ UNCHANGED <<cmVars, cacheVars, loadVars, histVars, sync, main, cause, exitCode, boundVars>>

Signal ==
    /\ main = "select"
    /\ main' = "shutdown" /\ cause' = "signal"
    /\ UNCHANGED <<cmVars, cacheVars, loadVars, histVars, sync, server, errChan, exitCode, boundVars>>

\* Faulty variant: the select waits for a second error.
TakeError_Second ==
    /\ main = "select" /\ errChan > 1
    /\ errChan' = errChan - 1
    /\ main' = "shutdown" /\ cause' = "error"
    /\ UNCHANGED <<cmVars, cacheVars, loadVars, histVars, sync, server, exitCode, boundVars>>

TakeError ==
    /\ main = "select" /\ errChan > 0
    /\ errChan' = errChan - 1
    /\ main' = "shutdown" /\ cause' = "error"
    /\ UNCHANGED <<cmVars, cacheVars, loadVars, histVars, sync, server, exitCode, boundVars>>

Shutdown ==
    /\ main = "shutdown" /\ server = "serving"
    /\ server' = "closed"
    /\ UNCHANGED <<cmVars, cacheVars, loadVars, histVars, sync, errChan, main, cause,
                   exitCode, boundVars>>

\* Shutdown returns when the requests in flight are done or its time is up.
Exit ==
    /\ main = "shutdown" /\ server # "serving"
    /\ main' = "exited"
    /\ exitCode' = IF errChan > 0 THEN 1 ELSE 0
    /\ UNCHANGED <<cmVars, cacheVars, loadVars, histVars, sync, server, errChan, cause, boundVars>>

-----------------------------------------------------------------------------
Next == \/ PutConfigMap \/ DeleteConfigMap \/ DeliverConfigMap \/ Relist
        \/ (\E r \in Requests : Lookup(r)) \/ Fetch \/ Store
        \/ InformerSyncs \/ SyncTimesOut \/ ServerFails
        \/ Signal \/ TakeError \/ Shutdown \/ Exit

\* Goroutines and API calls proceed; nobody owes a request, a signal or a
\* failure.
Fairness == /\ WF_vars(Fetch) /\ WF_vars(Store) /\ WF_vars(DeliverConfigMap)
            /\ WF_vars(TakeError) /\ WF_vars(Shutdown) /\ WF_vars(Exit)

Spec == Init /\ [][Next]_vars
FairSpec == Spec /\ Fairness

-----------------------------------------------------------------------------
(* Properties                                                              *)

\* The informer has handled every change and no load is in progress.
Quiet == Running /\ sync = "synced" /\ cmWatch = << >> /\ flight.pc = "none"

\* An entry outlives its ConfigMap in two ways only: the invalidation ran
\* between the Get of a load and its Cache.Set, or a broken watch hid from the
\* informer that the version ever existed.
StaleOnlyByRace == Quiet /\ cache \notin {None, cm} => raced \/ skipped

\* "if we exited due to a background error, ensure we exit with status 1 so
\* k8s restarts the pod".
ErrorExitsNonZero == main = "exited" /\ cause = "error" => exitCode = 1

\* Every request that waits for a load is answered, whether it started the
\* load or joined it, unless the process ends first.
WaitingIsAnswered ==
    \A r \in Requests : request[r] = "waiting"
        ~> request[r] = "answered" \/ main = "exited"

\* A failed sync or a failed server ends the process.
FailureEndsProcess == sync = "failed" \/ server = "failed" ~> main = "exited"

=============================================================================
