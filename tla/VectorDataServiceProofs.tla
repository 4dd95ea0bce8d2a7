---------------------- MODULE VectorDataServiceProofs ----------------------
(***************************************************************************)
(* Proofs about the vector-data service, for any requests, versions and    *)
(* number of writes, relists and faults: its variables keep their types,   *)
(* its error channel never holds more than it has room for, and a cached   *)
(* configuration outlives its ConfigMap only in the two ways stated.       *)
(***************************************************************************)
EXTENDS VectorDataService, Watches

-----------------------------------------------------------------------------
(* The inductive invariants                                                *)

\* Each of the two goroutines sends one error, and only when it fails.
ErrorsSent ==
    /\ errChan = 2 => sync = "failed" /\ server = "failed"
    /\ errChan = 1 => sync = "failed" \/ server = "failed"

Typed == TypeOK /\ ErrorsSent

\* Versions are announced in the order they were written; None, which stands
\* for a deletion, may come between any two of them.
Rising(c, w) ==
    /\ \A i \in 1..Len(w) : w[i] # None => c < w[i]
    /\ \A i, j \in 1..Len(w) : i < j /\ w[i] # None /\ w[j] # None => w[i] < w[j]

\* The informer holds the version, or is still going to be told of it, so that
\* its end is going to be announced.
WillBeDropped(v) == v = informed \/ v \in Events(cmWatch)

\* Before the first sync nothing is served.  After it the informer lags behind
\* the API server by the events of the watch, and every configuration that is
\* cached or about to be cached will be dropped in time, unless one of the two
\* races has happened.
FreshInv ==
    /\ cm <= last
    /\ sync # "synced" => cache = None /\ flight.pc = "none"
    /\ sync = "synced" =>
          /\ \A v \in Events(cmWatch) : v <= last
          /\ informed <= last
          /\ Latest(informed, cmWatch) = cm
          /\ Rising(informed, cmWatch)
          /\ cache # None /\ ~raced /\ ~skipped => WillBeDropped(cache)
          /\ flight.pc = "set" /\ ~raced => WillBeDropped(flight.read)

-----------------------------------------------------------------------------
(* Types                                                                   *)

Steps == {"new", "waiting", "answered"}

\* A handler that answers leaves every request at one of its steps.
LEMMA ReplyTyped ==
    ASSUME TypeOK, NEW rs, Reply(rs)
    PROVE  request' \in [Requests -> Steps]
BY DEF TypeOK, Reply, Steps

Flight == [pc: {"none", "get", "set"}, read: 0..MaxVersion]

\* The process starts with everything of its type.
LEMMA InitTyped == Init => Typed
<1> SUFFICES ASSUME Init PROVE Typed
  OBVIOUS
<1>1. request \in [Requests -> Steps]
  BY DEF Init, Steps
<1>2. flight \in Flight
  BY BoundsAssumption DEF Init, NoFlight, Flight, None
<1>3. cmWatch \in Seq(0..MaxVersion)
  BY NoEvent DEF Init
<1>4. cm \in 0..MaxVersion /\ last \in 0..MaxVersion
  BY DEF Init
<1>5. 0 \in 0..MaxVersion /\ 0 \in 0..MaxRelists /\ 0 \in 0..MaxFaults
  BY BoundsAssumption
<1>6. /\ informed = 0 /\ cache = 0 /\ raced = FALSE /\ skipped = FALSE
      /\ sync = "waiting" /\ server = "serving" /\ errChan = 0
      /\ main = "select" /\ cause = "none" /\ exitCode = 0 /\ relists = 0 /\ faults = 0
  BY DEF Init, None
<1>7. ErrorsSent
  BY <1>6 DEF ErrorsSent
<1>8. raced \in BOOLEAN /\ skipped \in BOOLEAN
  BY <1>6, Zenon
<1>9. errChan \in 0..2 /\ exitCode \in {0, 1}
  BY <1>6
<1>10. informed \in 0..MaxVersion /\ cache \in 0..MaxVersion
  BY <1>5, <1>6
<1>11. relists \in 0..MaxRelists /\ faults \in 0..MaxFaults
  BY <1>5, <1>6
<1> QED BY <1>1, <1>2, <1>3, <1>4, <1>5, <1>6, <1>7, <1>8, <1>9, <1>10, <1>11
        DEF Typed, TypeOK, Flight, Steps

\* No step takes a variable out of its type; the two goroutines fill the
\* channel of two errors at most.
LEMMA NextTyped == Typed /\ [Next]_vars => Typed'
<1> SUFFICES ASSUME Typed, [Next]_vars PROVE Typed'
  OBVIOUS
<1>t. TypeOK /\ ErrorsSent
  BY DEF Typed
<1>f. flight \in Flight /\ NoFlight \in Flight /\ 0 \in 0..MaxVersion
  BY <1>t, BoundsAssumption DEF TypeOK, Flight, NoFlight, None
<1>1. CASE PutConfigMap \/ DeleteConfigMap
  <2>1. cm' \in 0..MaxVersion /\ last' \in 0..MaxVersion
    BY <1>1, <1>t, BoundsAssumption DEF PutConfigMap, DeleteConfigMap, WriteConfigMap, TypeOK, None
  <2>2. cmWatch' = Append(cmWatch, cm') /\ cmWatch \in Seq(0..MaxVersion)
    BY <1>1, <1>t DEF PutConfigMap, DeleteConfigMap, WriteConfigMap, TypeOK
  <2>3. cmWatch' \in Seq(0..MaxVersion)
    BY <2>1, <2>2, SendEvent
  <2>4. UNCHANGED <<cacheVars, loadVars, histVars, processVars, boundVars>>
    BY <1>1 DEF PutConfigMap, DeleteConfigMap
  <2> QED BY <1>t, <2>1, <2>3, <2>4
          DEF Typed, TypeOK, ErrorsSent, cacheVars, loadVars, histVars, processVars, boundVars
<1>2. CASE DeliverConfigMap
  <2>1. Head(cmWatch) \in 0..MaxVersion /\ cmWatch' \in Seq(0..MaxVersion)
    BY <1>2, <1>t, TakeEvent, Zenon DEF DeliverConfigMap, TypeOK
  <2>2. informed' \in 0..MaxVersion /\ cache' \in 0..MaxVersion
    BY <1>2, <1>t, <1>f, <2>1 DEF DeliverConfigMap, Inform, TypeOK, None
  <2>3. raced' \in BOOLEAN
    BY <1>2 DEF DeliverConfigMap
  <2> QED BY <1>2, <1>t, <2>1, <2>2, <2>3
          DEF DeliverConfigMap, Typed, TypeOK, ErrorsSent, loadVars, processVars, boundVars
<1>3. CASE Relist
  <2>1. informed' \in 0..MaxVersion /\ cache' \in 0..MaxVersion
    BY <1>3, <1>t, <1>f DEF Relist, Inform, TypeOK, None
  <2>2. cmWatch' \in Seq(0..MaxVersion)
    BY <1>3, NoEvent DEF Relist
  <2>3. raced' \in BOOLEAN /\ skipped' \in BOOLEAN
    BY <1>3 DEF Relist
  <2>4. relists' \in 0..MaxRelists
    BY <1>3, <1>t, BoundsAssumption DEF Relist, TypeOK
  <2> QED BY <1>3, <1>t, <2>1, <2>2, <2>3, <2>4
          DEF Relist, Typed, TypeOK, ErrorsSent, loadVars, processVars
<1>4. ASSUME NEW r \in Requests, Lookup(r) PROVE Typed'
  <2>1. request' \in [Requests -> Steps] /\ flight' \in Flight
    <3>1. CASE Reply({r}) /\ UNCHANGED flight
      BY <1>t, <1>f, <3>1, ReplyTyped
    <3>2. CASE /\ request' = [request EXCEPT ![r] = "waiting"]
               /\ flight' = IF flight.pc = "none" THEN [NoFlight EXCEPT !.pc = "get"] ELSE flight
      BY <1>t, <1>f, <3>2 DEF TypeOK, Steps, Flight
    <3> QED BY <1>4, <3>1, <3>2, Zenon DEF Lookup
  <2>2. UNCHANGED <<cmVars, cacheVars, histVars, processVars, boundVars>>
    BY <1>4, Zenon DEF Lookup
  <2> QED BY <1>t, <2>1, <2>2
          DEF Typed, TypeOK, ErrorsSent, cmVars, cacheVars, histVars, processVars, boundVars,
              Steps, Flight
<1>5. CASE Fetch
  <2>1. request' \in [Requests -> Steps] /\ flight' \in Flight
    <3>1. CASE Land
      BY <1>t, <1>f, <3>1, ReplyTyped DEF Land
    <3>2. CASE flight' = [pc |-> "set", read |-> cm] /\ UNCHANGED request
      BY <1>t, <3>2 DEF TypeOK, Flight, Steps
    <3> QED BY <1>5, <3>1, <3>2, Zenon DEF Fetch
  <2>2. faults' \in 0..MaxFaults
    <3>1. UNCHANGED faults \/ (faults < MaxFaults /\ faults' = faults + 1)
      BY <1>5, Zenon DEF Fetch
    <3> QED BY <1>t, <3>1, BoundsAssumption DEF TypeOK
  <2>3. UNCHANGED <<cmVars, cacheVars, histVars, processVars, relists>>
    BY <1>5, Zenon DEF Fetch
  <2> QED BY <1>t, <2>1, <2>2, <2>3
          DEF Typed, TypeOK, ErrorsSent, cmVars, cacheVars, histVars, processVars, Steps, Flight
<1>6. CASE Store
  <2>1. flight.read \in 0..MaxVersion
    BY <1>f DEF Flight
  <2>2. request' \in [Requests -> Steps] /\ flight' \in Flight
    BY <1>6, <1>t, <1>f, ReplyTyped DEF Store, Land
  <2> QED BY <1>6, <1>t, <2>1, <2>2
          DEF Store, Typed, TypeOK, ErrorsSent, cmVars, histVars, processVars, boundVars, Steps, Flight
<1>7. CASE InformerSyncs
  <2>1. cmWatch' \in Seq(0..MaxVersion)
    BY <1>7, NoEvent DEF InformerSyncs
  <2> QED BY <1>7, <1>t, <2>1
          DEF InformerSyncs, Typed, TypeOK, ErrorsSent, loadVars, histVars, boundVars
<1>8. CASE SyncTimesOut
  BY <1>8, <1>t DEF SyncTimesOut, Typed, TypeOK, ErrorsSent, cmVars, cacheVars, loadVars,
                    histVars, boundVars
<1>9. CASE ServerFails
  BY <1>9, <1>t DEF ServerFails, Typed, TypeOK, ErrorsSent, cmVars, cacheVars, loadVars,
                    histVars, boundVars
<1>10. CASE Signal
  BY <1>10, <1>t DEF Signal, Typed, TypeOK, ErrorsSent, cmVars, cacheVars, loadVars,
                     histVars, boundVars
<1>11. CASE TakeError
  BY <1>11, <1>t DEF TakeError, Typed, TypeOK, ErrorsSent, cmVars, cacheVars, loadVars,
                     histVars, boundVars
<1>12. CASE Shutdown
  BY <1>12, <1>t DEF Shutdown, Typed, TypeOK, ErrorsSent, cmVars, cacheVars, loadVars,
                     histVars, boundVars
<1>13. CASE Exit
  BY <1>13, <1>t DEF Exit, Typed, TypeOK, ErrorsSent, cmVars, cacheVars, loadVars,
                     histVars, boundVars
<1>14. CASE UNCHANGED vars
  BY <1>14, <1>t DEF vars, Typed, TypeOK, ErrorsSent, cmVars, cacheVars, loadVars, histVars,
                     processVars, boundVars
<1> QED BY <1>1, <1>2, <1>3, <1>4, <1>5, <1>6, <1>7, <1>8, <1>9, <1>10, <1>11, <1>12, <1>13, <1>14
        DEF Next

\* Every variable keeps its type: in particular no goroutine ever blocks on
\* the channel of errors, which has room for two.
THEOREM TypeCorrect == Spec => []TypeOK
<1>1. Typed => TypeOK
  BY DEF Typed
<1> QED BY <1>1, InitTyped, NextTyped, PTL DEF Spec

-----------------------------------------------------------------------------
(* Versions are announced in order                                         *)

\* A new version, or a deletion, goes to the end of the watch.
LEMMA RisingAppend ==
    ASSUME NEW w \in Seq(Nat), NEW c \in Nat, NEW x \in Nat, Rising(c, w),
           x = None \/ (c < x /\ \A v \in Events(w) : v < x)
    PROVE  Rising(c, Append(w, x))
<1> DEFINE a == Append(w, x)
<1>1. Len(w) \in Nat /\ Len(a) = Len(w) + 1 /\ a[Len(w) + 1] = x
  OBVIOUS
<1>2. \A i \in 1..Len(w) : a[i] = w[i] /\ w[i] \in Events(w) /\ w[i] \in Nat
  BY DEF Events
<1>3. 1..Len(a) = 1..Len(w) \cup {Len(w) + 1}
  BY <1>1
<1> HIDE DEF a
<1>4. ASSUME NEW i \in 1..Len(a), a[i] # None PROVE c < a[i]
  BY <1>1, <1>2, <1>3, <1>4, SMTT(30) DEF Rising
<1>5. ASSUME NEW i \in 1..Len(a), NEW j \in 1..Len(a), i < j, a[i] # None, a[j] # None
      PROVE  a[i] < a[j]
  <2>1. i \in 1..Len(w)
    BY <1>1, <1>5
  <2>2. CASE j \in 1..Len(w)
    BY <1>2, <1>5, <2>1, <2>2, SMTT(30) DEF Rising
  <2>3. CASE j = Len(w) + 1
    BY <1>1, <1>2, <1>5, <2>1, <2>3, SMTT(30)
  <2> QED BY <1>3, <2>2, <2>3
<1> QED BY <1>4, <1>5 DEF Rising, a

\* The informer takes the events in their order.
LEMMA RisingTail ==
    ASSUME NEW w \in Seq(Nat), NEW c \in Nat, w # << >>, Rising(c, w)
    PROVE  Rising(Head(w), Tail(w))
<1>1. /\ Len(w) \in Nat /\ Len(w) >= 1 /\ Head(w) = w[1] /\ w[1] \in Nat
      /\ Len(Tail(w)) = Len(w) - 1
  OBVIOUS
<1>2. \A i \in 1..(Len(w) - 1) : Tail(w)[i] = w[i + 1] /\ i + 1 \in 1..Len(w) /\ w[i + 1] \in Nat
  BY <1>1
<1>3. ASSUME NEW i \in 1..Len(Tail(w)), Tail(w)[i] # None PROVE Head(w) < Tail(w)[i]
  <2>1. w[1] # None => w[1] < w[i + 1]
    BY <1>1, <1>2, <1>3 DEF Rising
  <2>2. w[i + 1] # None /\ w[i + 1] \in Nat
    BY <1>1, <1>2, <1>3
  <2> QED BY <1>1, <1>2, <2>1, <2>2 DEF None
<1>4. ASSUME NEW i \in 1..Len(Tail(w)), NEW j \in 1..Len(Tail(w)), i < j,
             Tail(w)[i] # None, Tail(w)[j] # None
      PROVE  Tail(w)[i] < Tail(w)[j]
  BY <1>1, <1>2, <1>4 DEF Rising
<1> QED BY <1>3, <1>4 DEF Rising

\* A version that is announced is newer than the one the informer holds.
LEMMA RisingLatest ==
    ASSUME NEW w \in Seq(Nat), NEW c \in Nat, w # << >>, Rising(c, w), Latest(c, w) # None
    PROVE  c < Latest(c, w)
BY DEF Rising, Latest

-----------------------------------------------------------------------------
(* Cached configurations are dropped                                       *)

\* FreshInv is about these variables only.
LEMMA FreshKept ==
    ASSUME FreshInv, UNCHANGED <<cmVars, cacheVars, flight, histVars, sync>>
    PROVE  FreshInv'
BY DEF FreshInv, WillBeDropped, cmVars, cacheVars, histVars

\* The end of a load leaves nothing to be cached.
LEMMA FreshAfterLoad ==
    ASSUME FreshInv, UNCHANGED <<cmVars, cacheVars, histVars, sync>>, flight'.pc # "set",
           sync = "synced"
    PROVE  FreshInv'
BY DEF FreshInv, WillBeDropped, cmVars, cacheVars, histVars

\* No step lets a configuration escape its invalidation, except by one of the
\* two races that are recorded.
LEMMA NextFresh == Typed /\ FreshInv /\ [Next]_vars => FreshInv'
<1> SUFFICES ASSUME Typed, FreshInv, [Next]_vars PROVE FreshInv'
  OBVIOUS
<1>t. /\ cm \in Nat /\ last \in Nat /\ informed \in Nat /\ cache \in Nat
      /\ cmWatch \in Seq(Nat) /\ flight \in Flight /\ raced \in BOOLEAN /\ skipped \in BOOLEAN
  <2>1. cmWatch \in Seq(0..MaxVersion) /\ 0..MaxVersion \subseteq Nat
    BY BoundsAssumption DEF Typed, TypeOK
  <2>2. cmWatch \in Seq(Nat)
    BY <2>1, SeqMonotonic, Zenon
  <2> QED BY <2>2, BoundsAssumption DEF Typed, TypeOK, Flight
<1>e. Events(cmWatch) \subseteq Nat
  BY <1>t, EventType
<1>1. CASE PutConfigMap \/ DeleteConfigMap
  <2>1. /\ cmWatch' = Append(cmWatch, cm') /\ UNCHANGED <<cacheVars, flight, histVars, sync>>
        /\ last' \in Nat /\ last <= last' /\ cm' \in Nat /\ cm' <= last'
        /\ cm' = None \/ last < cm'
    BY <1>1, <1>t DEF PutConfigMap, DeleteConfigMap, WriteConfigMap, loadVars, processVars, None
  <2>2. /\ Events(cmWatch') = Events(cmWatch) \cup {cm'}
        /\ \A c : Latest(c, cmWatch') = cm'
    BY <1>t, <2>1, SendEvent
  <2>3. CASE sync # "synced"
    BY <2>1, <2>3 DEF FreshInv, cacheVars
  <2>4. CASE sync = "synced"
    <3>1. /\ \A v \in Events(cmWatch) : v <= last
          /\ informed <= last
          /\ Rising(informed, cmWatch)
      BY <2>4 DEF FreshInv
    <3>2. cm' = None \/ (informed < cm' /\ \A v \in Events(cmWatch) : v < cm')
      BY <1>t, <1>e, <2>1, <3>1
    <3>3. Rising(informed, cmWatch')
      BY <1>t, <2>1, <3>1, <3>2, RisingAppend
    <3>4. (\A v \in Events(cmWatch') : v <= last') /\ informed <= last'
      BY <1>t, <1>e, <2>1, <2>2, <3>1
    <3>5. /\ cache # None /\ ~raced /\ ~skipped => cache = informed \/ cache \in Events(cmWatch')
          /\ flight.pc = "set" /\ ~raced => flight.read = informed \/ flight.read \in Events(cmWatch')
      BY <2>2, <2>4 DEF FreshInv, WillBeDropped
    <3> QED BY <2>1, <2>2, <2>4, <3>3, <3>4, <3>5 DEF FreshInv, WillBeDropped, cacheVars, histVars
  <2> QED BY <2>3, <2>4
<1>2. CASE DeliverConfigMap
  <2>1. /\ sync = "synced" /\ cmWatch # << >> /\ informed' = Head(cmWatch) /\ cmWatch' = Tail(cmWatch)
        /\ cache' = IF Invalidates(informed, informed') THEN None ELSE cache
        /\ raced' = (raced \/ (flight.pc = "set" /\ flight.read = informed))
        /\ UNCHANGED <<cm, last, flight, skipped, sync>>
    BY <1>2 DEF DeliverConfigMap, Inform, loadVars, processVars
  <2>2. /\ Events(cmWatch) = {informed'} \cup Events(cmWatch')
        /\ Latest(informed', cmWatch') = Latest(informed, cmWatch)
    BY <1>t, <2>1, TakeEvent
  <2>3. Rising(informed', cmWatch')
    BY <1>t, <2>1, RisingTail DEF FreshInv
  <2>4. cache' # None /\ ~raced' /\ ~skipped' => cache' = informed' \/ cache' \in Events(cmWatch')
    <3> SUFFICES ASSUME cache' # None, ~raced', ~skipped'
                 PROVE  cache' = informed' \/ cache' \in Events(cmWatch')
      OBVIOUS
    <3>1. cache' = cache /\ ~raced /\ ~skipped /\ ~Invalidates(informed, informed')
      BY <2>1, Zenon
    <3>2. cache = informed \/ cache \in Events(cmWatch)
      BY <2>1, <3>1 DEF FreshInv, WillBeDropped
    <3>3. cache = informed => informed' = informed
      BY <3>1 DEF Invalidates
    <3> QED BY <2>2, <3>1, <3>2, <3>3
  <2>5. flight'.pc = "set" /\ ~raced' => flight'.read = informed' \/ flight'.read \in Events(cmWatch')
    BY <2>1, <2>2, Zenon DEF FreshInv, WillBeDropped
  <2> QED BY <2>1, <2>2, <2>3, <2>4, <2>5 DEF FreshInv, WillBeDropped
<1>3. CASE Relist
  <2>1. /\ sync = "synced" /\ cmWatch # << >> /\ informed' = cm /\ cmWatch' = << >>
        /\ cache' = IF Invalidates(informed, cm) THEN None ELSE cache
        /\ raced' = (raced \/ (flight.pc = "set" /\ flight.read # cm))
        /\ skipped' = (skipped \/ (informed = None /\ Len(cmWatch) > 1))
        /\ UNCHANGED <<cm, last, flight, sync>>
    BY <1>3 DEF Relist, Inform, loadVars, processVars
  <2>2. Events(cmWatch') = {} /\ Latest(informed', cmWatch') = cm /\ Rising(informed', cmWatch')
    <3>1. Len(cmWatch') = 0
      BY <2>1
    <3> QED BY <2>1, <3>1, NoEvent DEF Rising
  <2>3. cache' # None /\ ~raced' /\ ~skipped' => cache' = informed'
    <3>0. SUFFICES ASSUME cache' # None, ~raced', ~skipped' PROVE cache = cm
      BY <2>1
    <3>1. cache # None /\ ~raced /\ ~skipped /\ (informed = None \/ informed = cm)
      BY <2>1, <3>0, Zenon DEF Invalidates
    <3>2. cache = informed \/ cache \in Events(cmWatch)
      BY <2>1, <3>1 DEF FreshInv, WillBeDropped
    <3>3. Latest(informed, cmWatch) = cm /\ Rising(informed, cmWatch)
      BY <2>1 DEF FreshInv
    <3>4. CASE informed = None
      <4>1. Len(cmWatch) = 1
        <5>1. ~(Len(cmWatch) > 1)
          BY <2>1, <3>0, <3>4, Zenon
        <5>2. Len(cmWatch) \in Nat \ {0}
          BY <1>t, <2>1, EmptySeq
        <5>3. \A n \in Nat \ {0} : ~(n > 1) => n = 1
          OBVIOUS
        <5> QED BY <5>1, <5>2, <5>3
      <4>2. Events(cmWatch) = {cm}
        BY <2>1, <3>3, <4>1 DEF Events, Latest
      <4> QED BY <3>1, <3>2, <3>4, <4>2
    <3>5. CASE informed # None
      <4>1. informed = cm /\ informed < cm
        BY <1>t, <2>1, <3>1, <3>3, <3>5, RisingLatest
      <4> QED BY <1>t, <4>1
    <3> QED BY <3>4, <3>5
  <2>4. flight'.pc = "set" /\ ~raced' => flight'.read = informed'
    BY <2>1, Zenon
  <2> QED BY <2>1, <2>2, <2>3, <2>4 DEF FreshInv, WillBeDropped
<1>4. ASSUME NEW r \in Requests, Lookup(r) PROVE FreshInv'
  <2>1. sync = "synced" /\ UNCHANGED <<cmVars, cacheVars, histVars, sync>>
    BY <1>4, Zenon DEF Lookup, processVars
  <2>2. CASE UNCHANGED flight
    BY <2>1, <2>2, FreshKept
  <2>3. CASE flight' = IF flight.pc = "none" THEN [NoFlight EXCEPT !.pc = "get"] ELSE flight
    <3>1. UNCHANGED flight \/ flight'.pc # "set"
      BY <2>3 DEF NoFlight
    <3> QED BY <2>1, <3>1, FreshKept, FreshAfterLoad
  <2> QED BY <1>4, <2>2, <2>3, Zenon DEF Lookup
<1>5. CASE Fetch
  <2>1. sync = "synced" /\ UNCHANGED <<cmVars, cacheVars, histVars, sync>>
    BY <1>5, Zenon DEF Fetch, processVars, FreshInv
  <2>2. CASE flight' = NoFlight
    BY <2>1, <2>2, FreshAfterLoad DEF NoFlight
  <2>3. CASE flight' = [pc |-> "set", read |-> cm]
    <3>1. Latest(informed, cmWatch) = cm
      BY <2>1 DEF FreshInv
    <3>2. cm = informed \/ cm \in Events(cmWatch)
      <4>1. CASE cmWatch = << >>
        BY <3>1, <4>1 DEF Latest
      <4>2. CASE cmWatch # << >>
        BY <1>t, <3>1, <4>2 DEF Latest, Events
      <4> QED BY <4>1, <4>2
    <3> QED BY <2>1, <2>3, <3>2 DEF FreshInv, WillBeDropped, cmVars, cacheVars, histVars
  <2> QED BY <1>5, <2>2, <2>3, Zenon DEF Fetch, Land
<1>6. CASE Store
  <2>1. /\ flight.pc = "set" /\ cache' = flight.read /\ flight' = NoFlight
        /\ UNCHANGED <<cmVars, informed, histVars, sync>> /\ sync = "synced"
    BY <1>6 DEF Store, Land, processVars, FreshInv
  <2> QED BY <2>1 DEF FreshInv, WillBeDropped, cmVars, histVars, NoFlight
<1>7. CASE InformerSyncs
  <2>1. /\ sync = "waiting" /\ sync' = "synced" /\ informed' = cm /\ cmWatch' = << >>
        /\ UNCHANGED <<cm, last, cache, flight, histVars>>
    BY <1>7 DEF InformerSyncs, loadVars
  <2>2. Events(cmWatch') = {} /\ Latest(informed', cmWatch') = cm /\ Rising(informed', cmWatch')
    <3>1. Len(cmWatch') = 0
      BY <2>1
    <3> QED BY <2>1, <3>1, NoEvent DEF Rising
  <2> QED BY <2>1, <2>2 DEF FreshInv
<1>8. CASE SyncTimesOut
  <2>1. sync = "waiting" /\ sync' = "failed" /\ UNCHANGED <<cmVars, cacheVars, flight>>
    BY <1>8 DEF SyncTimesOut, loadVars
  <2> QED BY <2>1 DEF FreshInv, cmVars, cacheVars
<1>9. CASE ServerFails \/ Signal \/ TakeError \/ Shutdown \/ Exit \/ UNCHANGED vars
  BY <1>9, FreshKept DEF ServerFails, Signal, TakeError, Shutdown, Exit, vars, loadVars, processVars
<1> QED BY <1>1, <1>2, <1>3, <1>4, <1>5, <1>6, <1>7, <1>8, <1>9 DEF Next

\* Once the informer has seen everything, what is cached is what is stored,
\* unless an invalidation ran between the Get and the Cache.Set of a load or a
\* relist passed over a version.
THEOREM CacheIsFresh == Spec => []StaleOnlyByRace
<1>1. Init => Typed /\ FreshInv
  <2> SUFFICES ASSUME Init PROVE FreshInv
    BY InitTyped
  <2>1. /\ cm \in Nat /\ last = cm /\ sync = "waiting" /\ cache = None /\ flight.pc = "none"
    BY DEF Init, NoFlight
  <2> QED BY <2>1 DEF FreshInv
<1>2. (Typed /\ FreshInv) /\ [Next]_vars => (Typed /\ FreshInv)'
  BY NextTyped, NextFresh
<1>3. FreshInv => StaleOnlyByRace
  <2>1. Latest(informed, << >>) = informed /\ Events(<< >>) = {}
    BY NoEvent
  <2> QED BY <2>1 DEF FreshInv, StaleOnlyByRace, Quiet, WillBeDropped
<1> QED BY <1>1, <1>2, <1>3, PTL DEF Spec

=============================================================================
