-------------------------- MODULE VectorDataProofs --------------------------
(***************************************************************************)
(* Proofs about the VectorData controller, for any number of incarnations, *)
(* faults and restarts: a ConfigMap never outlives its VectorData, is      *)
(* written at most once for each of them, and is there when the VectorData *)
(* reports it, but for the report that takes another one for its own.      *)
(***************************************************************************)
EXTENDS VectorData, Watches, TLAPS

-----------------------------------------------------------------------------
(* The inductive invariant                                                 *)

\* How far the life of an object has got: incarnations in order, and in each
\* of them live, deleting, gone.
PhaseNo(p) == IF p = "live" THEN 0 ELSE IF p = "deleting" THEN 1 ELSE 2

Precedes(o, p) ==
    \/ o.uid < p.uid
    \/ o.uid = p.uid /\ PhaseNo(o.phase) <= PhaseNo(p.phase)

\* The deletion of incarnation u was requested by the time of o.
Past(u, o) == u < o.uid \/ (u = o.uid /\ o.phase # "live")

\* The states the informer has yet to go through, from its present copy c
\* along the undelivered events w, are in the order of the object's life and
\* end with what the API server stores.
Sight(c, w) == {c} \cup {w[i] : i \in 1..Len(w)}

InOrder(c, w, o) ==
    /\ \A i \in 1..Len(w) : Precedes(c, w[i])
    /\ \A i, j \in 1..Len(w) : i <= j => Precedes(w[i], w[j])
    /\ o = IF Len(w) = 0 THEN c ELSE w[Len(w)]

InSight == Sight(vdCache, vdWatch)
Ordered == InOrder(vdCache, vdWatch, vd)

\* A deleting object is one that a finalizer holds.
WellFormed == /\ vd.phase = "deleting" => vd.fin
              /\ vd.phase = "gone" => ~vd.fin

Holds(u) == vd.fin /\ vd.uid = u

\* Only a reconcile that saw the deletion of u releases the finalizer of u.
Released ==
    \A o \in InSight : o.fin /\ ~Holds(o.uid)
        => /\ Past(o.uid, vdCache)
           /\ worker.pc # "idle" => Past(o.uid, worker.vd)

\* A finalizer on the present incarnation is the only one in sight.
SoleFinalizer ==
    vd.fin => \A o \in InSight : o.fin => o.uid = vd.uid

WorkerInv ==
    /\ worker.pc # "idle" => Precedes(worker.vd, vd)
    /\ worker.pc \in {"addFinalizer", "deleteCM", "removeFinalizer"}
          => Precedes(worker.vd, vdCache)
    /\ worker.pc = "addFinalizer" => worker.vd.phase = "live"
    /\ worker.pc \in {"render", "create"} => Holds(worker.vd.uid)
    /\ worker.pc \in {"deleteCM", "removeFinalizer"}
          => worker.vd.phase = "deleting" /\ (vd.fin => vd.uid = worker.vd.uid)
    /\ worker.pc = "removeFinalizer" => cm = NoCM

\* A ConfigMap that was written and is gone was removed by a reconcile that
\* saw the deletion of its VectorData.
Removed ==
    \A u \in Uids : written[u] > 0 /\ cm # u
        => /\ Past(u, vdCache)
           /\ worker.pc = "addFinalizer" => Past(u, worker.vd)
           /\ worker.pc \in {"render", "create"} => worker.vd.uid # u

IInv == /\ TypeOK /\ Ordered /\ WellFormed /\ Released /\ SoleFinalizer
        /\ WorkerInv /\ Removed /\ NoOrphan /\ WrittenOnce

-----------------------------------------------------------------------------
(* The order of an object's states                                         *)

\* Precedes orders the states of the object an informer can hold, and what is
\* past at one of them is past at every later one.
LEMMA PrecedesOrder ==
    ASSUME NEW o \in Object, NEW p \in Object, NEW q \in Object
    PROVE  /\ Precedes(o, o)
           /\ Precedes(o, p) /\ Precedes(p, q) => Precedes(o, q)
           /\ \A u \in 0..MaxUid : Past(u, o) /\ Precedes(o, p) => Past(u, p)
  BY BoundsAssumption DEF Precedes, Past, PhaseNo, Object

\* The informer's copy is the oldest state in sight and the stored object the
\* newest.
LEMMA Extremes ==
    ASSUME NEW c \in Object, NEW w \in Seq(Object), NEW o, InOrder(c, w, o)
    PROVE  /\ Sight(c, w) \subseteq Object
           /\ c \in Sight(c, w) /\ o \in Sight(c, w)
           /\ \A x \in Sight(c, w) : Precedes(c, x) /\ Precedes(x, o)
<1>1. Len(w) \in Nat /\ \A i \in 1..Len(w) : w[i] \in Object
  OBVIOUS
<1>2. Precedes(c, c)
  BY PrecedesOrder
<1>3. CASE Len(w) = 0
  BY <1>1, <1>2, <1>3 DEF InOrder, Sight
<1>4. CASE Len(w) # 0
  BY <1>1, <1>2, <1>4 DEF InOrder, Sight
<1>. QED
  BY <1>3, <1>4

\* A write that moves the object on keeps the order and puts one more state
\* in sight.
LEMMA AppendKeepsOrder ==
    ASSUME NEW c \in Object, NEW w \in Seq(Object), NEW o \in Object, InOrder(c, w, o),
           NEW new \in Object, Precedes(o, new)
    PROVE  /\ InOrder(c, Append(w, new), new)
           /\ Sight(c, Append(w, new)) = Sight(c, w) \cup {new}
           /\ Append(w, new) \in Seq(Object)
<1>. DEFINE v == Append(w, new)
<1>1. Len(w) \in Nat /\ \A i \in 1..Len(w) : w[i] \in Object
  OBVIOUS
<1>2. /\ v \in Seq(Object)
      /\ Len(v) = Len(w) + 1
      /\ v[Len(w) + 1] = new
      /\ \A i \in 1..Len(w) : v[i] = w[i]
  OBVIOUS
<1>3. \A x \in Sight(c, w) : x \in Object /\ Precedes(x, new)
  BY Extremes, PrecedesOrder
<1>4. Precedes(new, new)
  BY PrecedesOrder
<1>5. \A i \in 1..Len(v) : i \in 1..Len(w) \/ i = Len(w) + 1
  BY <1>1, <1>2
<1>6. 1..Len(w) \subseteq 1..Len(v) /\ Len(w) + 1 \in 1..Len(v)
  BY <1>1, <1>2
<1>. HIDE DEF v
<1>7. Sight(c, v) = Sight(c, w) \cup {new}
  BY <1>2, <1>5, <1>6 DEF Sight
<1>8. \A i \in 1..Len(v) : Precedes(c, v[i])
  BY <1>2, <1>3, <1>5 DEF InOrder, Sight
<1>9. ASSUME NEW i \in 1..Len(v), NEW j \in 1..Len(v), i <= j
      PROVE  Precedes(v[i], v[j])
  <2>1. CASE j = Len(w) + 1
    BY <1>2, <1>3, <1>4, <1>5, <2>1 DEF Sight
  <2>2. CASE j \in 1..Len(w)
    <3>1. i \in 1..Len(w)
      BY <1>1, <1>9, <2>2
    <3>. QED
      BY <1>2, <1>9, <2>2, <3>1 DEF InOrder
  <2>. QED
    BY <1>5, <2>1, <2>2
<1>10. new = IF Len(v) = 0 THEN c ELSE v[Len(v)]
  BY <1>1, <1>2
<1>11. InOrder(c, v, new)
  BY <1>8, <1>9, <1>10 DEF InOrder
<1>. QED
  BY <1>2, <1>7, <1>11 DEF v

\* Delivering the next event moves the informer on.
LEMMA TailKeepsOrder ==
    ASSUME NEW c \in Object, NEW w \in Seq(Object), NEW o \in Object, InOrder(c, w, o),
           w # << >>
    PROVE  /\ InOrder(Head(w), Tail(w), o)
           /\ Sight(Head(w), Tail(w)) \subseteq Sight(c, w)
           /\ Head(w) \in Object /\ Tail(w) \in Seq(Object)
           /\ Precedes(c, Head(w))
<1>. DEFINE h == Head(w)
            t == Tail(w)
<1>1. Len(w) \in Nat \ {0} /\ \A i \in 1..Len(w) : w[i] \in Object
  OBVIOUS
<1>2. /\ t \in Seq(Object) /\ h = w[1] /\ h \in Object
      /\ Len(t) = Len(w) - 1
      /\ \A i \in 1..Len(t) : t[i] = w[i + 1]
  BY <1>1
<1>3. /\ \A i \in 1..Len(t) : i + 1 \in 1..Len(w)
      /\ 1 \in 1..Len(w)
  BY <1>1, <1>2
<1>. HIDE DEF h, t
<1>4. Sight(h, t) \subseteq Sight(c, w)
  BY <1>2, <1>3 DEF Sight
<1>5. \A i \in 1..Len(t) : Precedes(h, t[i])
  BY <1>1, <1>2, <1>3 DEF InOrder
<1>6. \A i, j \in 1..Len(t) : i <= j => Precedes(t[i], t[j])
  <2>1. \A i, j \in 1..Len(t) : i <= j => i + 1 <= j + 1
    BY <1>1, <1>2
  <2>. QED
    BY <1>2, <1>3, <2>1, SMTT(30) DEF InOrder
<1>7. o = IF Len(t) = 0 THEN h ELSE t[Len(t)]
  <2>1. CASE Len(t) = 0
    <3>1. Len(w) = 1
      BY <1>1, <1>2, <2>1
    <3>2. o = w[1]
      BY <3>1 DEF InOrder
    <3>. QED
      BY <1>2, <2>1, <3>2
  <2>2. CASE Len(t) # 0
    <3>1. Len(t) \in 1..Len(t) /\ Len(t) + 1 = Len(w)
      BY <1>1, <1>2, <2>2
    <3>. QED
      BY <1>1, <1>2, <2>2, <3>1 DEF InOrder
  <2>. QED
    BY <2>1, <2>2
<1>8. InOrder(h, t, o)
  BY <1>5, <1>6, <1>7 DEF InOrder
<1>9. Precedes(c, h)
  BY <1>2, <1>3 DEF InOrder
<1>. QED
  BY <1>2, <1>4, <1>8, <1>9 DEF h, t

-----------------------------------------------------------------------------
(* Type correctness                                                        *)

WorkerType == [pc: {"idle"} \cup Calls \cup Ready, vd: Object]

\* The ends of a call move the worker, the queue and the bounds within their
\* types.
LEMMA WorkerTypes ==
    ASSUME TypeOK
    PROVE  /\ Return => worker' \in WorkerType /\ pending' \in BOOLEAN
           /\ ReturnError => worker' \in WorkerType /\ pending' \in BOOLEAN
           /\ \A pc \in Calls \cup Ready, local \in Object :
                 Continue(pc, local) => worker' \in WorkerType /\ pending' \in BOOLEAN
           /\ Fault => faults' \in 0..MaxFaults /\ restarts' \in 0..MaxRestarts
<1>1. Idle \in WorkerType
  BY BoundsAssumption DEF Idle, Gone, Object, Ready, NotReady, WorkerType
<1>2. Fault => faults' \in 0..MaxFaults /\ restarts' \in 0..MaxRestarts
  BY BoundsAssumption DEF Fault, TypeOK
<1>3. pending \in BOOLEAN
  BY DEF TypeOK
<1>4. \A pc \in Calls \cup Ready, local \in Object : [pc |-> pc, vd |-> local] \in WorkerType
  BY DEF WorkerType
<1>. QED
  BY <1>1, <1>2, <1>3, <1>4, Zenon DEF Return, ReturnError, Continue

\* A write keeps the types of the object and of its watch.
LEMMA WriteTypes ==
    ASSUME TypeOK
    PROVE  /\ \A new \in Object : WriteVD(new) => vd' \in Object /\ vdWatch' \in Seq(Object)
           /\ \A new \in 0..MaxUid : WriteCM(new) => cm' \in 0..MaxUid /\ cmWatch' \in Seq(0..MaxUid)
<1>1. ASSUME NEW S, NEW w \in Seq(S), NEW new \in S
      PROVE  Append(w, new) \in Seq(S)
  OBVIOUS
<1>2. vdWatch \in Seq(Object) /\ cmWatch \in Seq(0..MaxUid)
  BY DEF TypeOK
<1>. QED
  BY <1>1, <1>2, Zenon DEF WriteVD, WriteCM

\* Every step keeps the types.
LEMMA TypeStep == TypeOK /\ [Next]_vars => TypeOK'
<1>. SUFFICES ASSUME TypeOK, [Next]_vars PROVE TypeOK'
  OBVIOUS
<1>1. /\ vd \in Object /\ vdCache \in Object /\ worker \in WorkerType
      /\ worker.vd \in Object /\ cm \in 0..MaxUid
      /\ worker.pc \in {"idle"} \cup Calls \cup Ready
      /\ worker.vd.uid \in 0..MaxUid
  BY DEF TypeOK, WorkerType, Object
<1>2. /\ vdWatch \in Seq(Object) /\ cmWatch \in Seq(0..MaxUid) /\ cmCache \in 0..MaxUid
      /\ pending \in BOOLEAN /\ written \in [Uids -> Nat]
      /\ faults \in 0..MaxFaults /\ restarts \in 0..MaxRestarts
  BY DEF TypeOK
<1>3. \A u \in 0..MaxUid : Gone(u) \in Object
  BY DEF Gone, Object, Ready, NotReady
<1>4. Idle \in WorkerType
  BY <1>3, BoundsAssumption DEF Idle, WorkerType
<1>. USE <1>1, <1>2
<1>5. CASE CreateVD
  <2>1. [uid |-> vd.uid + 1, phase |-> "live", fin |-> FALSE, ready |-> "none"] \in Object
    BY <1>5, BoundsAssumption DEF CreateVD, Object, Ready, NotReady
  <2>2. vd' \in Object /\ vdWatch' \in Seq(Object)
    BY <1>5, <2>1, WriteTypes, Zenon DEF CreateVD
  <2>. QED
    BY <1>5, <2>2, Zenon DEF CreateVD, TypeOK, WorkerType, boundVars, cacheVars
<1>6. CASE DeleteVD
  <2>1. [vd EXCEPT !.phase = "deleting"] \in Object /\ Gone(vd.uid) \in Object
    BY <1>3, Zenon DEF Object
  <2>2. (IF vd.fin THEN [vd EXCEPT !.phase = "deleting"] ELSE Gone(vd.uid)) \in Object
    BY <2>1, Zenon
  <2>3. vd' \in Object /\ vdWatch' \in Seq(Object)
    BY <1>6, <2>2, WriteTypes, Zenon DEF DeleteVD
  <2>. QED
    BY <1>6, <2>3, Zenon DEF DeleteVD, TypeOK, WorkerType, boundVars, cacheVars
<1>7. CASE DeliverVD
  <2>1. Head(vdWatch) \in Object /\ Tail(vdWatch) \in Seq(Object)
    BY <1>7 DEF DeliverVD
  <2>2. (pending \/ Triggers(vdCache, Head(vdWatch))) \in BOOLEAN
    OBVIOUS
  <2>3. pending' \in BOOLEAN
    BY <1>7, <2>2, Zenon DEF DeliverVD
  <2>. QED
    BY <1>7, <2>1, <2>3, Zenon DEF DeliverVD, TypeOK, WorkerType, boundVars
<1>8. CASE DeliverCM
  <2>1. ASSUME NEW S, NEW w \in Seq(S), w # << >>
        PROVE  Head(w) \in S /\ Tail(w) \in Seq(S)
    BY <2>1
  <2>2. Head(cmWatch) \in 0..MaxUid /\ Tail(cmWatch) \in Seq(0..MaxUid)
    BY <1>8, <2>1, Zenon DEF DeliverCM
  <2>. QED
    BY <1>8, <2>2, Zenon DEF DeliverCM, TypeOK, WorkerType, boundVars
<1>9. CASE Start
  <2>1. worker' \in WorkerType
    <3>1. \A pc \in Calls : [pc |-> pc, vd |-> vdCache] \in WorkerType
      BY DEF WorkerType
    <3>. QED
      BY <1>4, <1>9, <3>1 DEF Start, Calls, Object
  <2>. QED
    BY <1>9, <2>1, Zenon DEF Start, TypeOK, WorkerType, apiVars, boundVars, cacheVars
<1>10. CASE AddFinalizer
  <2>1. [vd EXCEPT !.fin = TRUE] \in Object /\ "render" \in Calls \cup Ready
    BY Zenon DEF Object, Calls
  <2>2. worker' \in WorkerType /\ pending' \in BOOLEAN
        /\ faults' \in 0..MaxFaults /\ restarts' \in 0..MaxRestarts
    BY <1>10, <2>1, WorkerTypes, Zenon DEF AddFinalizer, boundVars
  <2>3. vd' \in Object /\ vdWatch' \in Seq(Object)
    BY <1>10, <2>1, WriteTypes, Zenon DEF AddFinalizer
  <2>. QED
    BY <1>10, <2>2, <2>3, Zenon DEF AddFinalizer, TypeOK, WorkerType, cacheVars
<1>11. CASE Render
  <2>1. /\ {"RenderFailed", "ConfigMapGetFailed"} \subseteq Calls \cup Ready
        /\ (IF cmCache = NoCM THEN "create" ELSE "already present") \in Calls \cup Ready
    BY Zenon DEF Calls, Ready, NotReady, ReadyTrue
  <2>2. worker' \in WorkerType /\ pending' \in BOOLEAN
        /\ faults' \in 0..MaxFaults /\ restarts' \in 0..MaxRestarts
    BY <1>11, <2>1, WorkerTypes, Zenon DEF Render, boundVars
  <2>. QED
    BY <1>11, <2>2, Zenon DEF Render, TypeOK, WorkerType, apiVars, cacheVars
<1>12. CASE CreateCM
  <2>1. {"materialized", "ConfigMapCreateFailed"} \subseteq Calls \cup Ready
    BY Zenon DEF Calls, Ready, NotReady, ReadyTrue
  <2>2. worker' \in WorkerType /\ pending' \in BOOLEAN
        /\ faults' \in 0..MaxFaults /\ restarts' \in 0..MaxRestarts
    BY <1>12, <2>1, WorkerTypes, Zenon DEF CreateCM, boundVars
  <2>3. cm' \in 0..MaxUid /\ cmWatch' \in Seq(0..MaxUid)
    BY <1>12, WriteTypes, Zenon DEF CreateCM
  <2>4. [written EXCEPT ![worker.vd.uid] = @ + 1] \in [Uids -> Nat]
    <3>1. ASSUME NEW u \in Uids PROVE written[u] + 1 \in Nat
      OBVIOUS
    <3>. QED
      BY Zenon, <3>1
  <2>5. written' \in [Uids -> Nat]
    BY <1>12, <2>4, Zenon DEF CreateCM
  <2>. QED
    BY <1>12, <2>2, <2>3, <2>5, Zenon DEF CreateCM, TypeOK, WorkerType, cacheVars
<1>13. CASE SetReady
  <2>1. worker.pc \in Ready
    BY <1>13 DEF SetReady
  <2>2. [vd EXCEPT !.ready = worker.pc] \in Object
    BY <2>1, Zenon DEF Object
  <2>3. (IF worker.pc = worker.vd.ready \/ ~(vd.phase # "gone") THEN vd
         ELSE [vd EXCEPT !.ready = worker.pc]) \in Object
    BY <2>2, Zenon
  <2>4. worker' \in WorkerType /\ pending' \in BOOLEAN
        /\ faults' \in 0..MaxFaults /\ restarts' \in 0..MaxRestarts
    BY <1>13, WorkerTypes, Zenon DEF SetReady, boundVars
  <2>5. vd' \in Object /\ vdWatch' \in Seq(Object)
    BY <1>13, <2>3, WriteTypes, Zenon DEF SetReady
  <2>. QED
    BY <1>13, <2>4, <2>5, Zenon DEF SetReady, TypeOK, WorkerType, cacheVars
<1>14. CASE DeleteCM
  <2>1. "removeFinalizer" \in Calls \cup Ready /\ NoCM \in 0..MaxUid
    BY BoundsAssumption DEF Calls, NoCM
  <2>2. worker' \in WorkerType /\ pending' \in BOOLEAN
        /\ faults' \in 0..MaxFaults /\ restarts' \in 0..MaxRestarts
    BY <1>14, <2>1, WorkerTypes, Zenon DEF DeleteCM, boundVars
  <2>3. cm' \in 0..MaxUid /\ cmWatch' \in Seq(0..MaxUid)
    BY <1>14, <2>1, WriteTypes, Zenon DEF DeleteCM
  <2>. QED
    BY <1>14, <2>2, <2>3, Zenon DEF DeleteCM, TypeOK, WorkerType, cacheVars
<1>15. CASE RemoveFinalizer
  <2>1. WithoutFinalizer(vd) \in Object
    BY <1>3, Zenon DEF WithoutFinalizer, Object
  <2>2. worker' \in WorkerType /\ pending' \in BOOLEAN
        /\ faults' \in 0..MaxFaults /\ restarts' \in 0..MaxRestarts
    BY <1>15, WorkerTypes, Zenon DEF RemoveFinalizer, boundVars
  <2>3. vd' \in Object /\ vdWatch' \in Seq(Object)
    BY <1>15, <2>1, WriteTypes, Zenon DEF RemoveFinalizer
  <2>. QED
    BY <1>15, <2>2, <2>3, Zenon DEF RemoveFinalizer, TypeOK, WorkerType, cacheVars
<1>16. CASE Restart
  <2>1. /\ << >> \in Seq(Object) /\ << >> \in Seq(0..MaxUid)
        /\ restarts' \in 0..MaxRestarts
    BY <1>16, BoundsAssumption DEF Restart
  <2>. QED
    BY <1>4, <1>16, <2>1, Zenon DEF Restart, TypeOK, WorkerType
<1>17. CASE UNCHANGED vars
  BY <1>17, Zenon DEF vars, apiVars, cacheVars, boundVars, TypeOK, WorkerType
<1>. QED
  BY <1>5, <1>6, <1>7, <1>8, <1>9, <1>10, <1>11, <1>12, <1>13, <1>14, <1>15, <1>16, <1>17
  DEF Next, Reconcile

\* The initial state is well typed.
LEMMA TypeCorrectInit == Init => TypeOK
<1>1. Gone(0) \in Object /\ NoCM \in 0..MaxUid
  BY BoundsAssumption DEF Gone, Object, Ready, NotReady, NoCM
<1>2. Idle \in WorkerType
  BY <1>1 DEF Idle, WorkerType
<1>3. << >> \in Seq(Object) /\ << >> \in Seq(0..MaxUid)
  OBVIOUS
<1>4. 0 \in 0..MaxFaults /\ 0 \in 0..MaxRestarts /\ [u \in Uids |-> 0] \in [Uids -> Nat]
  BY BoundsAssumption
<1>. QED
  BY <1>1, <1>2, <1>3, <1>4, Zenon DEF Init, TypeOK, WorkerType

\* Every state the controller and its environment reach is well typed.
THEOREM TypeCorrect == Spec => []TypeOK
  BY TypeCorrectInit, TypeStep, PTL DEF Spec

-----------------------------------------------------------------------------
(* The steps of the inductive invariant                                    *)

\* What the invariant says of the states in sight, as the steps use it.
LEMMA SightFacts ==
    ASSUME IInv
    PROVE  /\ InSight \subseteq Object
           /\ vdCache \in InSight /\ vd \in InSight
           /\ \A o \in InSight : Precedes(vdCache, o) /\ Precedes(o, vd)
           /\ vd \in Object /\ vdCache \in Object /\ worker.vd \in Object
  BY Extremes DEF IInv, TypeOK, Ordered, InSight

\* A write of a state that does not precede the stored one.
LEMMA WriteStep ==
    ASSUME IInv, NEW new \in Object, Precedes(vd, new), WriteVD(new), vdCache' = vdCache
    PROVE  /\ Ordered'
           /\ InSight' \subseteq InSight \cup {new}
<1>1. /\ vdCache \in Object /\ vdWatch \in Seq(Object) /\ vd \in Object
      /\ InOrder(vdCache, vdWatch, vd)
  BY DEF IInv, TypeOK, Ordered
<1>2. CASE new = vd
  BY <1>1, <1>2 DEF WriteVD, Ordered, InSight
<1>3. CASE new # vd
  BY <1>1, <1>3, AppendKeepsOrder DEF WriteVD, Ordered, InSight
<1>. QED
  BY <1>2, <1>3

\* The creation of a VectorData starts an incarnation without a finalizer.
LEMMA CreateVDStep == IInv /\ CreateVD /\ TypeOK' => IInv'
<1>. SUFFICES ASSUME IInv, CreateVD, TypeOK' PROVE IInv'
  OBVIOUS
<1>. DEFINE new == [uid |-> vd.uid + 1, phase |-> "live", fin |-> FALSE, ready |-> "none"]
<1>1. /\ vd' = new /\ new \in Object /\ Precedes(vd, new) /\ vd.phase = "gone"
      /\ ~vd.fin /\ cm = NoCM
  BY BoundsAssumption
  DEF IInv, CreateVD, WriteVD, TypeOK, Object, Ready, NotReady, Precedes, WellFormed, NoOrphan
<1>2. /\ vdCache' = vdCache /\ cm' = cm /\ worker' = worker /\ written' = written
  BY DEF CreateVD, cacheVars
<1>3. Ordered' /\ InSight' \subseteq InSight \cup {new}
  BY <1>1, <1>2, WriteStep DEF CreateVD
<1>4. WellFormed' /\ SoleFinalizer' /\ NoOrphan' /\ WrittenOnce'
  BY <1>1, <1>2 DEF IInv, WellFormed, SoleFinalizer, NoOrphan, WrittenOnce
<1>5. Released'
  BY <1>1, <1>2, <1>3 DEF IInv, Released, Holds
<1>6. WorkerInv'
  BY <1>1, <1>2, PrecedesOrder, SightFacts DEF IInv, WorkerInv, Holds
<1>7. Removed'
  BY <1>2 DEF IInv, Removed
<1>. QED
  BY <1>3, <1>4, <1>5, <1>6, <1>7 DEF IInv

\* A deletion is held by the finalizer, or removes an object that has no
\* ConfigMap.
LEMMA DeleteVDStep == IInv /\ DeleteVD /\ TypeOK' => IInv'
<1>. SUFFICES ASSUME IInv, DeleteVD, TypeOK' PROVE IInv'
  OBVIOUS
<1>. DEFINE new == IF vd.fin THEN [vd EXCEPT !.phase = "deleting"] ELSE Gone(vd.uid)
<1>1. /\ vd' = new /\ new \in Object /\ Precedes(vd, new) /\ vd.phase = "live"
      /\ vd'.uid = vd.uid /\ vd'.fin = vd.fin
      /\ vd.fin => vd'.phase = "deleting"
      /\ ~vd.fin => vd'.phase = "gone"
  <2>1. vd' = new /\ vd.phase = "live" /\ vd \in Object
    BY DEF DeleteVD, WriteVD, IInv, TypeOK
  <2>2. CASE vd.fin
    <3>1. new = [vd EXCEPT !.phase = "deleting"]
      BY <2>2
    <3>2. /\ new \in Object /\ new.uid = vd.uid /\ new.fin = vd.fin
          /\ new.phase = "deleting"
      BY <2>1, <3>1 DEF Object
    <3>3. Precedes(vd, new)
      BY <2>1, <3>2 DEF Precedes, PhaseNo
    <3>. QED
      BY <2>1, <2>2, <3>2, <3>3, Zenon
  <2>3. CASE ~vd.fin
    <3>1. vd.fin = FALSE
      BY <2>1, <2>3 DEF Object
    <3>2. new = Gone(vd.uid)
      BY <2>3
    <3>3. new \in Object /\ Precedes(vd, new)
      BY <2>1, <3>2, BoundsAssumption DEF Gone, Object, Ready, NotReady, Precedes, PhaseNo
    <3>. QED
      BY <2>1, <2>3, <3>1, <3>2, <3>3, Zenon DEF Gone
  <2>. QED
    BY <2>2, <2>3
<1>2. /\ vdCache' = vdCache /\ cm' = cm /\ worker' = worker /\ written' = written
  BY DEF DeleteVD, cacheVars
<1>3. Ordered' /\ InSight' \subseteq InSight \cup {new}
  BY <1>1, <1>2, WriteStep DEF DeleteVD
<1>. HIDE DEF new
<1>4. WellFormed' /\ NoOrphan' /\ WrittenOnce'
  BY <1>1, <1>2 DEF IInv, WellFormed, NoOrphan, WrittenOnce
<1>5. SoleFinalizer'
  BY <1>1, <1>2, <1>3 DEF IInv, SoleFinalizer
<1>6. Released'
  <2>1. \A u : Holds(u)' <=> Holds(u)
    BY <1>1 DEF Holds
  <2>2. new.fin => Holds(new.uid)
    BY <1>1 DEF Holds
  <2>. QED
    BY <1>2, <1>3, <2>1, <2>2 DEF IInv, Released
<1>7. WorkerInv'
  BY <1>1, <1>2, PrecedesOrder, SightFacts DEF IInv, WorkerInv, Holds
<1>8. Removed'
  BY <1>2 DEF IInv, Removed
<1>. QED
  BY <1>3, <1>4, <1>5, <1>6, <1>7, <1>8 DEF IInv

\* The informers move on along the states in sight.
LEMMA DeliverVDStep == IInv /\ DeliverVD /\ TypeOK' => IInv'
<1>. SUFFICES ASSUME IInv, DeliverVD, TypeOK' PROVE IInv'
  OBVIOUS
<1>1. /\ vd' = vd /\ cm' = cm /\ worker' = worker /\ written' = written
      /\ vdWatch # << >> /\ vdCache' = Head(vdWatch) /\ vdWatch' = Tail(vdWatch)
  BY DEF DeliverVD
<1>2. /\ Ordered' /\ InSight' \subseteq InSight
      /\ vdCache' \in Object /\ Precedes(vdCache, vdCache')
  BY <1>1, TailKeepsOrder, SMTT(30) DEF IInv, TypeOK, Ordered, InSight
<1>3. \A u \in 0..MaxUid : Past(u, vdCache) => Past(u, vdCache')
  BY <1>2, PrecedesOrder, SightFacts
<1>4. WellFormed' /\ NoOrphan' /\ WrittenOnce' /\ SoleFinalizer'
  BY <1>1, <1>2 DEF IInv, WellFormed, NoOrphan, WrittenOnce, SoleFinalizer
<1>5. Released'
  <2>1. \A o \in InSight : o.uid \in 0..MaxUid
    BY SightFacts DEF Object
  <2>. QED
    BY <1>1, <1>2, <1>3, <2>1 DEF IInv, Released, Holds
<1>6. WorkerInv'
  BY <1>1, <1>2, PrecedesOrder, SightFacts DEF IInv, WorkerInv, Holds
<1>7. Removed'
  <2>1. Uids \subseteq 0..MaxUid
    BY BoundsAssumption DEF Uids
  <2>. QED
    BY <1>1, <1>3, <2>1, Zenon DEF IInv, Removed
<1>. QED
  BY <1>2, <1>4, <1>5, <1>6, <1>7 DEF IInv

\* Steps that leave the VectorData, its informer and the ConfigMap alone have
\* only the claims about the worker to establish.
LEMMA QuietStep ==
    ASSUME IInv, TypeOK', UNCHANGED <<vd, vdWatch, vdCache, cm, written>>,
           Released', WorkerInv', Removed'
    PROVE  IInv'
  BY DEF IInv, Ordered, InSight, WellFormed, SoleFinalizer, NoOrphan, WrittenOnce

\* The informer of the ConfigMap moves on without a claim on the others.
LEMMA DeliverCMStep == IInv /\ DeliverCM /\ TypeOK' => IInv'
<1>. SUFFICES ASSUME IInv, DeliverCM, TypeOK' PROVE IInv'
  OBVIOUS
<1>1. UNCHANGED <<vd, vdWatch, vdCache, cm, written>> /\ worker' = worker
  BY DEF DeliverCM
<1>2. Released' /\ WorkerInv' /\ Removed'
  BY <1>1 DEF IInv, Released, WorkerInv, Removed, Holds, InSight
<1>. QED
  BY <1>1, <1>2, QuietStep

\* Reconcile works on the informer's copy: a live copy with the finalizer is
\* of the stored incarnation, and so is a stored finalizer when the copy is
\* deleting and carries one.
LEMMA StartStep == IInv /\ Start /\ TypeOK' => IInv'
<1>. SUFFICES ASSUME IInv, Start, TypeOK' PROVE IInv'
  OBVIOUS
<1>1. UNCHANGED <<vd, vdWatch, vdCache, cm, written>>
  BY DEF Start, apiVars, cacheVars
<1>2. \/ worker' = Idle
      \/ worker' = [pc |-> "deleteCM", vd |-> vdCache] /\ vdCache.phase = "deleting" /\ vdCache.fin
      \/ worker' = [pc |-> "addFinalizer", vd |-> vdCache] /\ vdCache.phase = "live"
      \/ worker' = [pc |-> "render", vd |-> vdCache] /\ vdCache.phase = "live" /\ vdCache.fin
  <2>1. vdCache.phase \in {"live", "deleting", "gone"} /\ vdCache.fin \in BOOLEAN
    BY SightFacts DEF Object
  <2>. QED
    BY <2>1 DEF Start
<1>3. worker'.pc # "idle" => worker'.vd = vdCache
  BY <1>2 DEF Idle
<1>4. Released'
  BY <1>1, <1>3 DEF IInv, Released, Holds, InSight
<1>5. WorkerInv'
  <2>1. Precedes(vdCache, vd) /\ Precedes(vdCache, vdCache)
    BY SightFacts
  <2>2. vdCache.phase = "live" /\ vdCache.fin => Holds(vdCache.uid)
    BY SightFacts DEF IInv, Released, Past, Object
  <2>3. vdCache.fin /\ vd.fin => vd.uid = vdCache.uid
    BY SightFacts DEF IInv, SoleFinalizer
  <2>. QED
    BY <1>1, <1>2, <2>1, <2>2, <2>3 DEF WorkerInv, Holds, Idle
<1>6. Removed'
  <2>1. \A u \in Uids : Past(u, vdCache) /\ vdCache.phase = "live" => vdCache.uid # u
    BY SightFacts, BoundsAssumption DEF Past, Uids, Object
  <2>. QED
    BY <1>1, <1>2, <2>1 DEF IInv, Removed, Idle
<1>. QED
  BY <1>1, <1>4, <1>5, <1>6, QuietStep

\* The finalizer lands on the stored incarnation, of which the reconcile has
\* seen no deletion.
LEMMA AddFinalizerStep == IInv /\ AddFinalizer /\ TypeOK' => IInv'
<1>. SUFFICES ASSUME IInv, AddFinalizer, TypeOK' PROVE IInv'
  OBVIOUS
<1>. DEFINE new == [vd EXCEPT !.fin = TRUE]
<1>1. UNCHANGED <<cm, vdCache, written>> /\ worker.pc = "addFinalizer"
  BY DEF AddFinalizer, cacheVars
<1>2. \/ worker' = Idle
      \/ worker' = [pc |-> "render", vd |-> new] /\ WriteVD(new) /\ AddFinalizerAllowed(vd)
  BY DEF AddFinalizer, Continue, ReturnError
<1>3. CASE UNCHANGED <<vd, vdWatch>> /\ worker' = Idle
  <2>1. Released' /\ WorkerInv' /\ Removed'
    BY <1>1, <1>3 DEF IInv, Released, WorkerInv, Removed, Holds, InSight, Idle
  <2>. QED
    BY SMTT(30), <1>1, <1>3, <2>1, QuietStep
<1>4. CASE WriteVD(new) /\ AddFinalizerAllowed(vd)
  <2>1. /\ vd' = new /\ new \in Object /\ new.uid = vd.uid /\ new.phase = vd.phase /\ new.fin = TRUE
    BY <1>4, SightFacts, Zenon DEF WriteVD, Object
  <2>2. Precedes(vd, new) /\ Precedes(new, new)
    BY <2>1, SightFacts DEF Precedes, Object
  <2>3. Ordered' /\ InSight' \subseteq InSight \cup {new}
    BY <1>1, <1>4, <2>1, <2>2, WriteStep
  <2>4. vd.phase # "gone"
    BY <1>4 DEF AddFinalizerAllowed
  <2>. HIDE DEF new
  <2>5. WellFormed' /\ NoOrphan' /\ WrittenOnce'
    BY <1>1, <2>1, <2>4 DEF IInv, WellFormed, NoOrphan, WrittenOnce
  <2>6. \A o \in InSight : o.fin => o.uid = vd.uid
    <3>1. SUFFICES ASSUME NEW o \in InSight, o.fin, o.uid # vd.uid PROVE FALSE
      OBVIOUS
    <3>2. Past(o.uid, worker.vd)
      BY <1>1, <3>1 DEF IInv, Released, Holds
    <3>3. worker.vd.phase = "live" /\ Precedes(worker.vd, vdCache) /\ Precedes(vdCache, o)
      BY <1>1, SightFacts DEF IInv, WorkerInv
    <3>4. Precedes(worker.vd, o) /\ o \in Object /\ worker.vd \in Object
      BY <3>3, SightFacts, PrecedesOrder
    <3>. QED
      BY <3>2, <3>3, <3>4, BoundsAssumption DEF Past, Precedes, Object
  <2>7. SoleFinalizer'
    BY <2>1, <2>3, <2>6 DEF SoleFinalizer
  <2>8. Released'
    BY <2>1, <2>3, <2>6 DEF Released, Holds
  <2>9. WorkerInv'
    BY <1>2, <2>1, <2>2 DEF WorkerInv, Holds, Idle
  <2>10. Removed'
    <3>1. ASSUME NEW u \in Uids, written[u] > 0, cm # u
          PROVE  Past(u, vdCache) /\ new.uid # u
      <4>1. Past(u, vdCache) /\ Past(u, worker.vd)
        BY <1>1, <3>1 DEF IInv, Removed
      <4>2. worker.vd.phase = "live" /\ Precedes(worker.vd, vd)
        BY <1>1 DEF IInv, WorkerInv
      <4>3. worker.vd.uid \in Nat /\ vd.uid \in Nat /\ u \in Nat
        BY SightFacts, BoundsAssumption DEF Object, Uids
      <4>. QED
        BY <2>1, <4>1, <4>2, <4>3 DEF Past, Precedes
    <3>. QED
      BY <1>1, <1>2, <3>1 DEF Removed, Idle
  <2>. QED
    BY <2>3, <2>5, <2>7, <2>8, <2>9, <2>10 DEF IInv
<1>. QED
  BY <1>3, <1>4 DEF AddFinalizer, ReturnError

\* Rendering moves only the worker.
LEMMA RenderStep == IInv /\ Render /\ TypeOK' => IInv'
<1>. SUFFICES ASSUME IInv, Render, TypeOK' PROVE IInv'
  OBVIOUS
<1>1. /\ UNCHANGED <<vd, vdWatch, vdCache, cm, written>>
      /\ worker.pc = "render" /\ worker'.vd = worker.vd
      /\ worker'.pc \in {"create", "already present", "RenderFailed", "ConfigMapGetFailed"}
  <2>1. /\ UNCHANGED <<vd, vdWatch, vdCache, cm, written>> /\ worker.pc = "render"
    BY Zenon DEF Render, apiVars, cacheVars
  <2>2. PICK call \in {"create", "already present", "RenderFailed", "ConfigMapGetFailed"} :
           worker' = [pc |-> call, vd |-> worker.vd]
    BY Zenon DEF Render, Continue
  <2>3. worker'.pc = call /\ worker'.vd = worker.vd
    BY Zenon, <2>2
  <2>. QED
    BY <2>1, <2>3, Zenon
<1>2. Released' /\ WorkerInv' /\ Removed'
  BY <1>1, Zenon DEF IInv, Released, WorkerInv, Removed, Holds, InSight
<1>. QED
  BY Zenon, <1>1, <1>2, QuietStep

\* A ConfigMap is created under the finalizer of its VectorData, and for the
\* first time.
LEMMA CreateCMStep == IInv /\ CreateCM /\ TypeOK' => IInv'
<1>. SUFFICES ASSUME IInv, CreateCM, TypeOK' PROVE IInv'
  OBVIOUS
<1>1. /\ UNCHANGED <<vd, vdWatch, vdCache>>
      /\ worker.pc = "create" /\ worker'.vd = worker.vd
      /\ worker'.pc \in {"materialized", "ConfigMapCreateFailed"}
  BY DEF CreateCM, Continue, cacheVars
<1>2. Released' /\ WorkerInv'
  BY <1>1 DEF IInv, Released, WorkerInv, Holds, InSight
<1>3. CASE UNCHANGED <<cm, written>>
  <2>1. Removed'
    BY <1>1, <1>3 DEF IInv, Removed
  <2>. QED
    BY <1>1, <1>2, <1>3, <2>1, QuietStep
<1>4. CASE /\ cm = NoCM /\ cm' = worker.vd.uid
           /\ written' = [written EXCEPT ![worker.vd.uid] = @ + 1]
  <2>1. Holds(worker.vd.uid) /\ vd.phase # "gone"
    BY <1>1 DEF IInv, WorkerInv, WellFormed, Holds
  <2>2. worker.vd.uid \in Uids => written[worker.vd.uid] = 0
    <3>1. ASSUME worker.vd.uid \in Uids, written[worker.vd.uid] > 0 PROVE FALSE
      BY <1>1, <1>4, <3>1, BoundsAssumption DEF IInv, Removed, NoCM, Uids
    <3>. QED
      BY <3>1, SMTT(30) DEF IInv, TypeOK
  <2>3. /\ written \in [Uids -> Nat]
        /\ \A u \in Uids : written'[u] = IF u = worker.vd.uid THEN 1 ELSE written[u]
    BY <1>4, <2>2, SMTT(30) DEF IInv, TypeOK
  <2>4. WrittenOnce'
    BY <2>3 DEF IInv, WrittenOnce
  <2>5. Removed'
    <3>1. ASSUME NEW u \in Uids, written'[u] > 0, cm' # u
          PROVE  written[u] > 0 /\ cm # u
      BY <1>4, <2>3, <3>1, BoundsAssumption DEF Uids, NoCM
    <3>. QED
      BY <1>1, <3>1 DEF IInv, Removed
  <2>6. NoOrphan'
    BY <1>1, <1>4, <2>1 DEF NoOrphan, Holds
  <2>. QED
    BY <1>1, <1>2, <2>4, <2>5, <2>6 DEF IInv, Ordered, WellFormed, SoleFinalizer, InSight
<1>. QED
  BY <1>3, <1>4 DEF CreateCM, WriteCM

\* A condition changes neither the incarnation nor its phase and finalizer.
LEMMA SetReadyStep == IInv /\ SetReady /\ TypeOK' => IInv'
<1>. SUFFICES ASSUME IInv, SetReady, TypeOK' PROVE IInv'
  OBVIOUS
<1>. DEFINE new == IF worker.pc = worker.vd.ready \/ ~(vd.phase # "gone") THEN vd
                   ELSE [vd EXCEPT !.ready = worker.pc]
<1>1. UNCHANGED <<cm, vdCache, written>> /\ worker' = Idle /\ worker.pc \in Ready
  BY DEF SetReady, cacheVars, Return, ReturnError
<1>2. CASE UNCHANGED <<vd, vdWatch>>
  <2>1. Released' /\ WorkerInv' /\ Removed'
    BY <1>1, <1>2 DEF IInv, Released, WorkerInv, Removed, Holds, InSight, Idle
  <2>. QED
    BY SMTT(30), <1>1, <1>2, <2>1, QuietStep
<1>3. CASE WriteVD(new)
  <2>1. /\ vd' = new /\ new \in Object /\ new.uid = vd.uid /\ new.phase = vd.phase
        /\ new.fin = vd.fin
    BY <1>1, <1>3, SightFacts DEF WriteVD, Object
  <2>2. Precedes(vd, new)
    BY <2>1, SightFacts DEF Precedes, Object
  <2>3. Ordered' /\ InSight' \subseteq InSight \cup {new}
    BY <1>1, <1>3, <2>1, <2>2, WriteStep
  <2>. HIDE DEF new
  <2>4. WellFormed' /\ NoOrphan' /\ WrittenOnce'
    BY <1>1, <2>1 DEF IInv, WellFormed, NoOrphan, WrittenOnce
  <2>5. SoleFinalizer'
    BY <2>1, <2>3 DEF IInv, SoleFinalizer
  <2>6. Released'
    <3>1. \A u : Holds(u)' <=> Holds(u)
      BY <2>1 DEF Holds
    <3>2. new.fin => Holds(new.uid)
      BY <2>1, SMTT(30) DEF Holds
    <3>. QED
      BY <1>1, <2>3, <3>1, <3>2 DEF IInv, Released, Idle
  <2>7. WorkerInv' /\ Removed'
    BY <1>1, SMTT(30) DEF IInv, WorkerInv, Removed, Idle
  <2>. QED
    BY <2>3, <2>4, <2>5, <2>6, <2>7 DEF IInv
<1>. QED
  BY <1>2, <1>3 DEF SetReady

\* The ConfigMap that handleDeletion deletes is that of the VectorData it
\* handles.
LEMMA DeleteCMStep == IInv /\ DeleteCM /\ TypeOK' => IInv'
<1>. SUFFICES ASSUME IInv, DeleteCM, TypeOK' PROVE IInv'
  OBVIOUS
<1>1. /\ UNCHANGED <<vd, vdWatch, vdCache, written>> /\ worker.pc = "deleteCM"
      /\ cm' = cm \/ cm' = NoCM
      /\ worker' = Idle \/ (cm' = NoCM /\ worker' = [pc |-> "removeFinalizer", vd |-> worker.vd])
  BY DEF DeleteCM, WriteCM, Continue, ReturnError, cacheVars
<1>2. /\ worker.vd.phase = "deleting" /\ Precedes(worker.vd, vdCache)
      /\ vd.fin => vd.uid = worker.vd.uid
  BY <1>1 DEF IInv, WorkerInv
<1>3. Released'
  BY <1>1, SMTT(30) DEF IInv, Released, Holds, InSight, Idle
<1>4. WorkerInv'
  BY <1>1 DEF IInv, WorkerInv, Idle
<1>5. NoOrphan' /\ WrittenOnce'
  BY <1>1 DEF IInv, NoOrphan, WrittenOnce
<1>6. Removed'
  <2>1. ASSUME NEW u \in Uids, written[u] > 0, cm' # u
        PROVE  Past(u, vdCache)
    <3>1. CASE cm # u
      BY <2>1, <3>1 DEF IInv, Removed
    <3>2. CASE cm = u
      <4>1. u = worker.vd.uid
        BY <1>2, <3>2, BoundsAssumption DEF IInv, NoOrphan, NoCM, Uids
      <4>2. Past(u, worker.vd)
        BY <1>2, <4>1 DEF Past
      <4>3. u \in 0..MaxUid
        BY BoundsAssumption DEF Uids
      <4>. QED
        BY <1>2, <4>2, <4>3, PrecedesOrder, SightFacts
    <3>. QED
      BY <3>1, <3>2
  <2>. QED
    BY <1>1, <2>1 DEF Removed, Idle
<1>. QED
  BY <1>1, <1>3, <1>4, <1>5, <1>6 DEF IInv, Ordered, WellFormed, SoleFinalizer, InSight

\* The finalizer that handleDeletion releases is that of the incarnation whose
\* deletion it saw, and there is no ConfigMap left under it.
LEMMA RemoveFinalizerStep == IInv /\ RemoveFinalizer /\ TypeOK' => IInv'
<1>. SUFFICES ASSUME IInv, RemoveFinalizer, TypeOK' PROVE IInv'
  OBVIOUS
<1>. DEFINE new == WithoutFinalizer(vd)
<1>1. UNCHANGED <<cm, vdCache, written>> /\ worker' = Idle /\ worker.pc = "removeFinalizer"
  BY DEF RemoveFinalizer, cacheVars, Return, ReturnError
<1>2. CASE UNCHANGED <<vd, vdWatch>>
  <2>1. Released' /\ WorkerInv' /\ Removed'
    BY <1>1, <1>2 DEF IInv, Released, WorkerInv, Removed, Holds, InSight, Idle
  <2>. QED
    BY SMTT(30), <1>1, <1>2, <2>1, QuietStep
<1>3. CASE WriteVD(new) /\ vd.phase # "gone"
  <2>1. /\ vd' = new /\ new \in Object /\ new.uid = vd.uid /\ new.fin = FALSE
        /\ new.phase = IF vd.phase = "deleting" THEN "gone" ELSE vd.phase
    BY <1>3, SightFacts, Zenon DEF WriteVD, WithoutFinalizer, Gone, Object, Ready, NotReady
  <2>2. Precedes(vd, new)
    BY <2>1, SightFacts DEF Precedes, PhaseNo, Object
  <2>3. Ordered' /\ InSight' \subseteq InSight \cup {new}
    BY <1>1, <1>3, <2>1, <2>2, WriteStep
  <2>. HIDE DEF new
  <2>4. /\ worker.vd.phase = "deleting" /\ cm = NoCM
        /\ Precedes(worker.vd, vdCache)
        /\ vd.fin => vd.uid = worker.vd.uid
    BY <1>1 DEF IInv, WorkerInv
  <2>5. WellFormed' /\ NoOrphan' /\ WrittenOnce' /\ SoleFinalizer'
    BY <1>1, <1>3, <2>1, <2>4, SightFacts
    DEF IInv, WellFormed, NoOrphan, WrittenOnce, SoleFinalizer, Object
  <2>6. Released'
    <3>1. ASSUME NEW o \in InSight, o.fin PROVE Past(o.uid, vdCache)
      <4>1. CASE ~Holds(o.uid)
        BY <3>1, <4>1 DEF IInv, Released
      <4>2. CASE Holds(o.uid)
        <5>1. Past(o.uid, worker.vd) /\ o.uid \in 0..MaxUid
          BY <2>4, <4>2, SightFacts, SMTT(30) DEF Holds, Past, Object
        <5>. QED
          BY <2>4, <5>1, PrecedesOrder, SightFacts
      <4>. QED
        BY <4>1, <4>2
    <3>. QED
      BY <1>1, <2>1, <2>3, <3>1 DEF Released, Idle
  <2>7. WorkerInv' /\ Removed'
    BY <1>1 DEF IInv, WorkerInv, Removed, Idle
  <2>. QED
    BY <2>3, <2>5, <2>6, <2>7 DEF IInv
<1>. QED
  BY <1>2, <1>3 DEF RemoveFinalizer

\* A restart lists the stored objects afresh.
LEMMA RestartStep == IInv /\ Restart /\ TypeOK' => IInv'
<1>. SUFFICES ASSUME IInv, Restart, TypeOK' PROVE IInv'
  OBVIOUS
<1>1. /\ UNCHANGED <<vd, cm, written>> /\ vdCache' = vd /\ vdWatch' = << >> /\ worker' = Idle
  BY DEF Restart
<1>2. Ordered' /\ InSight' = {vd}
  BY <1>1, SMTT(30) DEF Ordered, InOrder, InSight, Sight
<1>3. WellFormed' /\ NoOrphan' /\ WrittenOnce' /\ SoleFinalizer' /\ WorkerInv'
  BY <1>1, <1>2 DEF IInv, WellFormed, NoOrphan, WrittenOnce, SoleFinalizer, WorkerInv, Idle
<1>4. Released'
  BY <1>1, <1>2, SMTT(30) DEF Released, Holds
<1>5. Removed'
  <2>1. \A u \in Uids : Past(u, vdCache) => Past(u, vd)
    BY PrecedesOrder, SightFacts, BoundsAssumption DEF Uids
  <2>. QED
    BY <1>1, <2>1 DEF IInv, Removed, Idle
<1>. QED
  BY <1>2, <1>3, <1>4, <1>5 DEF IInv

-----------------------------------------------------------------------------
(* Safety                                                                  *)

\* The invariant holds in every reachable state.
THEOREM Inductive == Spec => []IInv
<1>1. Init => IInv
  <2>. SUFFICES ASSUME Init, TypeOK PROVE IInv
    BY TypeCorrectInit
  <2>1. Ordered /\ InSight = {Gone(0)}
    BY DEF Init, Ordered, InOrder, InSight, Sight
  <2>. QED
    BY <2>1 DEF Init, IInv, WellFormed, Released, SoleFinalizer, WorkerInv, Removed,
                NoOrphan, WrittenOnce, Gone, Idle, NoCM
<1>2. IInv /\ [Next]_vars => IInv'
  <2>. SUFFICES ASSUME IInv, [Next]_vars PROVE IInv'
    OBVIOUS
  <2>1. TypeOK'
    BY TypeStep DEF IInv
  <2>2. CASE UNCHANGED vars
    <3>1. UNCHANGED <<vd, vdWatch, vdCache, cm, written>> /\ worker' = worker
      BY <2>2, SMTT(30) DEF vars, apiVars, cacheVars
    <3>2. Released' /\ WorkerInv' /\ Removed'
      BY <3>1 DEF IInv, Released, WorkerInv, Removed, Holds, InSight
    <3>. QED
      BY <2>1, <3>1, <3>2, QuietStep
  <2>3. CASE Next
    BY <2>1, <2>3, CreateVDStep, DeleteVDStep, DeliverVDStep, DeliverCMStep, StartStep,
       AddFinalizerStep, RenderStep, CreateCMStep, SetReadyStep, DeleteCMStep,
       RemoveFinalizerStep, RestartStep
    DEF Next, Reconcile
  <2>. QED
    BY <2>2, <2>3
<1>. QED
  BY <1>1, <1>2, PTL DEF Spec

\* No ConfigMap outlives its VectorData: the finalizer protocol of Reconcile
\* and handleDeletion keeps NoOrphan under stale caches, failed calls,
\* re-creation of the name and restarts.
THEOREM ConfigMapHasOwner == Spec => []NoOrphan
  BY Inductive, PTL DEF IInv

\* The ConfigMap is written at most once per VectorData.
THEOREM ConfigMapWrittenOnce == Spec => []WrittenOnce
  BY Inductive, PTL DEF IInv

-----------------------------------------------------------------------------
(* What a report of Ready rests on                                         *)

\* A ready condition r for incarnation u: a ConfigMap was written for it, or
\* the one that was found may be of an earlier incarnation.
Backed(r, u) ==
    r \in ReadyTrue /\ ~(u > 1 /\ r = "already present") => written[u] > 0

\* The ConfigMaps that are stored or that the informer holds or will hold.
CMInSight == {cm, cmCache} \cup Events(cmWatch)

\* Every ConfigMap in sight was written, none for a later incarnation than the
\* stored one, and a report of Ready is about the incarnation it is patched
\* into.
ReadyInv ==
    /\ vd.phase # "gone" => vd.uid \in Uids
    /\ \A u \in CMInSight \ {NoCM} : u \in Uids /\ written[u] > 0
    /\ \A u \in Uids : written[u] > 0 => u <= vd.uid
    /\ vd.phase # "gone" => Backed(vd.ready, vd.uid)
    /\ worker.pc \in ReadyTrue => Holds(worker.vd.uid) /\ Backed(worker.pc, worker.vd.uid)


\* A write of the ConfigMap brings no other one into sight.
LEMMA CMWritten ==
    ASSUME TypeOK, NEW new \in 0..MaxUid, WriteCM(new), cmCache' = cmCache
    PROVE  CMInSight' \subseteq CMInSight \cup {new}
<1>1. cmWatch \in Seq(0..MaxUid) /\ 0..MaxUid \subseteq Nat /\ new \in Nat
  BY BoundsAssumption DEF TypeOK
<1>2. Events(Append(cmWatch, new)) = Events(cmWatch) \cup {new}
  <2>1. cmWatch \in Seq(Nat)
    BY <1>1, SeqMonotonic, Zenon
  <2>. QED
    BY <1>1, <2>1, SendEvent
<1>3. CASE new = cm
  BY <1>3 DEF WriteCM, CMInSight
<1>4. CASE new # cm
  BY <1>2, <1>4 DEF WriteCM, CMInSight
<1>. QED
  BY <1>3, <1>4

\* Steps that write no ConfigMap keep what the invariant says of the ones in
\* sight, as long as the stored incarnation does not fall back.
LEMMA SightKept ==
    ASSUME IInv, TypeOK', ReadyInv, written' = written, CMInSight' \subseteq CMInSight \cup {NoCM},
           vd'.uid >= vd.uid
    PROVE  /\ \A u \in CMInSight' \ {NoCM} : u \in Uids /\ written'[u] > 0
           /\ \A u \in Uids : written'[u] > 0 => u <= vd'.uid
           /\ \A r, u : Backed(r, u)' <=> Backed(r, u)
<1>1. vd.uid \in Nat /\ vd'.uid \in Nat /\ Uids \subseteq Nat
  BY BoundsAssumption DEF IInv, TypeOK, Object, Uids
<1>2. \A u \in CMInSight' \ {NoCM} : u \in Uids /\ written'[u] > 0
  BY DEF ReadyInv
<1>3. \A u \in Uids : written'[u] > 0 => u <= vd'.uid
  <2>1. \A u \in Uids : written[u] > 0 => u <= vd.uid
    BY DEF ReadyInv
  <2>2. \A u \in Uids : u <= vd.uid => u <= vd'.uid
    BY <1>1
  <2>. QED
    BY <2>1, <2>2, Zenon
<1>4. \A r, u : Backed(r, u)' <=> Backed(r, u)
  BY DEF Backed
<1>. QED
  BY <1>2, <1>3, <1>4

\* Every step keeps the ground of the reports.
LEMMA ReadyStep == IInv /\ IInv' /\ ReadyInv /\ [Next]_vars => ReadyInv'
<1>. SUFFICES ASSUME IInv, IInv', ReadyInv, [Next]_vars PROVE ReadyInv'
  OBVIOUS
<1>1. /\ TypeOK /\ TypeOK' /\ vd \in Object /\ vd' \in Object /\ vd.uid \in Nat /\ vd'.uid \in Nat
      /\ worker.vd \in Object /\ cmWatch \in Seq(0..MaxUid)
  BY BoundsAssumption, SMTT(30) DEF IInv, TypeOK, Object
<1>2. ~(worker.pc \in ReadyTrue) \/ (vd.fin /\ vd.phase # "gone")
  BY DEF ReadyInv, Holds, IInv, WellFormed
<1>3. Idle.pc \notin ReadyTrue /\ \A pc \in Calls \cup NotReady : pc \notin ReadyTrue
  BY DEF Idle, ReadyTrue, Calls, NotReady
<1>4. CASE CreateVD
  <2>1. /\ vd'.uid = vd.uid + 1 /\ vd'.ready = "none" /\ vd.phase = "gone" /\ vd.uid < MaxUid
        /\ written' = written /\ worker' = worker /\ CMInSight' = CMInSight
    BY <1>4 DEF CreateVD, WriteVD, cacheVars, CMInSight
  <2>2. vd'.uid >= vd.uid /\ vd'.uid \in Uids /\ worker'.pc \notin ReadyTrue /\ vd'.ready \notin ReadyTrue
    <3>1. vd'.uid >= vd.uid /\ vd'.uid \in Uids
      BY <1>1, <2>1, BoundsAssumption DEF Uids
    <3>2. worker'.pc \notin ReadyTrue
      BY <1>2, <2>1
    <3>3. vd'.ready \notin ReadyTrue
      BY <2>1 DEF ReadyTrue
    <3>. QED
      BY <3>1, <3>2, <3>3
  <2>. QED
    BY <1>1, <2>1, <2>2, SightKept, Zenon DEF ReadyInv, Backed
<1>5. CASE DeleteVD
  <2>1. /\ written' = written /\ worker' = worker /\ CMInSight' = CMInSight /\ vd.phase = "live"
        /\ vd' = IF vd.fin THEN [vd EXCEPT !.phase = "deleting"] ELSE Gone(vd.uid)
    BY <1>5 DEF DeleteVD, WriteVD, cacheVars, CMInSight
  <2>2. /\ vd'.uid = vd.uid
        /\ vd.fin => vd'.fin /\ vd'.ready = vd.ready
        /\ ~vd.fin => vd'.phase = "gone"
    BY <1>1, <2>1 DEF Gone, Object
  <2>3. /\ \A u \in CMInSight' \ {NoCM} : u \in Uids /\ written'[u] > 0
        /\ \A u \in Uids : written'[u] > 0 => u <= vd'.uid
        /\ \A r, u : Backed(r, u)' <=> Backed(r, u)
    BY <1>1, <2>1, <2>2, SightKept
  <2>. QED
    BY <1>2, <2>1, <2>2, <2>3 DEF ReadyInv, Holds
<1>6. CASE DeliverVD
  <2>1. written' = written /\ worker' = worker /\ CMInSight' = CMInSight /\ vd' = vd
    BY <1>6 DEF DeliverVD, CMInSight
  <2>. QED
    BY <2>1, Zenon DEF ReadyInv, Holds, Backed
<1>7. CASE DeliverCM
  <2>1. written' = written /\ worker' = worker /\ vd' = vd
    BY <1>7 DEF DeliverCM
  <2>2. CMInSight' \subseteq CMInSight
    BY <1>1, <1>7, TakeEvent DEF DeliverCM, CMInSight
  <2>. QED
    BY <2>1, <2>2, Zenon DEF ReadyInv, Holds, Backed
<1>8. CASE Start
  <2>1. written' = written /\ CMInSight' = CMInSight /\ vd' = vd
    BY <1>8 DEF Start, apiVars, cacheVars, CMInSight
  <2>2. worker'.pc \in {"idle"} \cup Calls
    <3>1. vdCache.phase \in {"live", "deleting", "gone"} /\ vdCache.fin \in BOOLEAN
      BY <1>1 DEF TypeOK, Object
    <3>. QED
      BY <1>8, <3>1 DEF Start, Idle, Calls
  <2>3. worker'.pc \notin ReadyTrue
    BY <2>2, Zenon DEF Calls, ReadyTrue
  <2>. QED
    BY <2>1, <2>3, Zenon DEF ReadyInv, Backed
<1>9. CASE AddFinalizer
  <2>1. written' = written /\ CMInSight' = CMInSight
    BY <1>9 DEF AddFinalizer, cacheVars, CMInSight
  <2>2. worker'.pc \notin ReadyTrue
    <3>1. worker' = Idle \/ \E local : worker' = [pc |-> "render", vd |-> local]
      BY <1>9, Zenon DEF AddFinalizer, Continue, ReturnError
    <3>2. worker'.pc \in {Idle.pc, "render"}
      BY <3>1
    <3>. QED
      BY <1>3, <3>2 DEF Calls
  <2>3. vd'.uid = vd.uid /\ vd'.ready = vd.ready /\ vd'.phase = vd.phase
    BY <1>1, <1>9 DEF AddFinalizer, WriteVD, Object
  <2>. QED
    BY <2>1, <2>2, <2>3, Zenon DEF ReadyInv, Backed
<1>10. CASE Render
  <2>1. /\ written' = written /\ CMInSight' = CMInSight /\ vd' = vd
        /\ worker.pc = "render" /\ worker'.vd = worker.vd
    <3>1. written' = written /\ CMInSight' = CMInSight /\ vd' = vd /\ worker.pc = "render"
      BY <1>10, Zenon DEF Render, apiVars, cacheVars, CMInSight
    <3>2. \E pc : worker' = [pc |-> pc, vd |-> worker.vd]
      BY <1>10, Zenon DEF Render, Continue
    <3>. QED
      BY <3>1, <3>2
  <2>2. Holds(worker.vd.uid) /\ vd.phase # "gone" /\ vd.uid \in Uids
    BY <2>1 DEF IInv, WorkerInv, WellFormed, Holds, ReadyInv
  <2>3. worker'.pc \in ReadyTrue => worker'.pc = "already present" /\ cmCache # NoCM
    <3>1. PICK pc \in {"create", "already present", "RenderFailed", "ConfigMapGetFailed"} :
             /\ worker' = [pc |-> pc, vd |-> worker.vd]
             /\ pc = "already present" => cmCache # NoCM
      BY <1>10, Zenon DEF Render, Continue
    <3>. QED
      BY <3>1, Zenon DEF ReadyTrue
  <2>4. cmCache # NoCM => cmCache \in Uids /\ written[cmCache] > 0 /\ cmCache <= vd.uid
    BY DEF ReadyInv, CMInSight
  <2>5. cmCache # NoCM /\ ~(vd.uid > 1) => written[vd.uid] > 0
    BY <2>2, <2>4, BoundsAssumption DEF Uids
  <2>6. (worker.pc \in ReadyTrue => Holds(worker.vd.uid) /\ Backed(worker.pc, worker.vd.uid))'
    BY <2>1, <2>2, <2>3, <2>5, Zenon DEF Holds, Backed
  <2>. QED
    BY <2>1, <2>6, Zenon DEF ReadyInv, Backed
<1>11. CASE CreateCM
  <2>1. /\ vd' = vd /\ cmCache' = cmCache /\ worker.pc = "create" /\ worker'.vd = worker.vd
        /\ worker'.pc \in {"materialized", "ConfigMapCreateFailed"}
    BY <1>11 DEF CreateCM, Continue, cacheVars
  <2>2. Holds(worker.vd.uid) /\ worker.vd.uid = vd.uid /\ vd.uid \in Uids /\ vd.uid \in 0..MaxUid
    BY <2>1, BoundsAssumption DEF IInv, WorkerInv, WellFormed, Holds, ReadyInv, Uids
  <2>3. CASE UNCHANGED <<cm, cmWatch, written>> /\ worker'.pc = "ConfigMapCreateFailed"
    BY <2>1, <2>3, Zenon DEF ReadyInv, Backed, CMInSight, ReadyTrue
  <2>4. CASE WriteCM(worker.vd.uid) /\ written' = [written EXCEPT ![worker.vd.uid] = @ + 1]
    <3>1. CMInSight' \subseteq CMInSight \cup {vd.uid}
      BY <1>1, <2>1, <2>2, <2>4, CMWritten
    <3>2. written \in [Uids -> Nat]
      BY <1>1 DEF TypeOK
    <3>3. \A u \in Uids : written'[u] = IF u = vd.uid THEN written[u] + 1 ELSE written[u]
      BY <2>2, <2>4, <3>2
    <3>4. written'[vd.uid] > 0 /\ \A u \in Uids : written[u] > 0 => written'[u] > 0
      BY <2>2, <3>2, <3>3
    <3>5. \A u \in CMInSight' \ {NoCM} : u \in Uids /\ written'[u] > 0
      BY <2>2, <3>1, <3>4 DEF ReadyInv
    <3>6. \A u \in Uids : written'[u] > 0 => u <= vd'.uid
      BY <1>1, <2>1, <3>3, BoundsAssumption, SMTT(30) DEF ReadyInv, Uids
    <3>7. (Backed(vd.ready, vd.uid) /\ Backed(worker.pc, worker.vd.uid))'
      BY <2>1, <2>2, <3>4, Zenon DEF Backed
    <3>8. Holds(worker.vd.uid)'
      BY <2>1, <2>2 DEF Holds
    <3>. QED
      BY <2>1, <2>2, <3>5, <3>6, <3>7, <3>8 DEF ReadyInv
  <2>. QED
    <3>1. \/ WriteCM(worker.vd.uid) /\ written' = [written EXCEPT ![worker.vd.uid] = @ + 1]
          \/ /\ UNCHANGED <<cm, cmWatch, written>>
             /\ worker' = [pc |-> "ConfigMapCreateFailed", vd |-> worker.vd]
      BY <1>11, Zenon DEF CreateCM, Continue
    <3>. QED
      BY <2>3, <2>4, <3>1
<1>12. CASE SetReady
  <2>1. /\ written' = written /\ CMInSight' = CMInSight /\ worker.pc \in Ready
        /\ worker' = Idle
    BY <1>12 DEF SetReady, cacheVars, CMInSight, Return, ReturnError
  <2>2. \/ vd' = vd
        \/ vd' = [vd EXCEPT !.ready = worker.pc] /\ vd.phase # "gone"
    BY <1>12 DEF SetReady, WriteVD
  <2>3. vd'.uid = vd.uid /\ vd'.phase = vd.phase /\ vd'.ready \in {vd.ready, worker.pc}
    BY <1>1, <2>2 DEF Object
  <2>4. worker.pc \in ReadyTrue => worker.vd.uid = vd.uid /\ Backed(worker.pc, vd.uid)
    BY DEF ReadyInv, Holds
  <2>5. vd'.phase # "gone" => Backed(vd'.ready, vd'.uid)
    BY <2>3, <2>4, Zenon DEF ReadyInv, Backed
  <2>. QED
    BY <1>3, <2>1, <2>3, <2>5, Zenon DEF ReadyInv, Backed
<1>13. CASE DeleteCM
  <2>1. written' = written /\ vd' = vd /\ cmCache' = cmCache
    BY <1>13 DEF DeleteCM, cacheVars
  <2>2. worker'.pc \notin ReadyTrue
    <3>1. worker' = Idle \/ \E local : worker' = [pc |-> "removeFinalizer", vd |-> local]
      BY <1>13, Zenon DEF DeleteCM, Continue, ReturnError
    <3>2. worker'.pc \in {Idle.pc, "removeFinalizer"}
      BY <3>1
    <3>. QED
      BY <1>3, <3>2 DEF Calls
  <2>3. NoCM \in 0..MaxUid
    BY BoundsAssumption DEF NoCM
  <2>4. CMInSight' \subseteq CMInSight \cup {NoCM}
    <3>1. CASE WriteCM(NoCM)
      BY <1>1, <2>1, <2>3, <3>1, CMWritten
    <3>2. CASE UNCHANGED <<cm, cmWatch>>
      BY <2>1, <3>2 DEF CMInSight
    <3>. QED
      BY <1>13, <3>1, <3>2 DEF DeleteCM
  <2>. QED
    BY <2>1, <2>2, <2>4, Zenon DEF ReadyInv, Backed
<1>14. CASE RemoveFinalizer
  <2>1. written' = written /\ CMInSight' = CMInSight /\ worker' = Idle
    BY <1>14 DEF RemoveFinalizer, cacheVars, CMInSight, Return, ReturnError
  <2>2. /\ vd'.uid = vd.uid
        /\ vd'.phase # "gone" => vd'.ready = vd.ready /\ vd.phase # "gone"
    BY <1>1, <1>14 DEF RemoveFinalizer, WriteVD, WithoutFinalizer, Gone, Object
  <2>. QED
    BY <1>3, <2>1, <2>2, Zenon DEF ReadyInv, Backed
<1>15. CASE Restart
  <2>1. written' = written /\ vd' = vd /\ worker' = Idle
    BY <1>15 DEF Restart
  <2>2. CMInSight' \subseteq CMInSight
    BY <1>15, NoEvent DEF Restart, CMInSight
  <2>. QED
    BY <1>3, <2>1, <2>2, Zenon DEF ReadyInv, Backed
<1>16. CASE UNCHANGED vars
  <2>1. written' = written /\ worker' = worker /\ CMInSight' = CMInSight /\ vd' = vd
    BY <1>16 DEF vars, apiVars, cacheVars, CMInSight
  <2>. QED
    BY <2>1, Zenon DEF ReadyInv, Holds, Backed
<1>. QED
  BY <1>4, <1>5, <1>6, <1>7, <1>8, <1>9, <1>10, <1>11, <1>12, <1>13, <1>14, <1>15, <1>16
  DEF Next, Reconcile

\* A ConfigMap that was written for a live VectorData is still there: it was
\* removed only under a deletion that the informer has seen.
LEMMA ReadyIsBacked == IInv /\ ReadyInv => ReadyExplained
<1>. SUFFICES ASSUME IInv, ReadyInv, vd.phase = "live", vd.ready \in ReadyTrue, ~TakenForOwn
              PROVE  cm = vd.uid
  BY DEF ReadyExplained, ReadyMeansMaterialized
<1>1. vd.uid \in Uids /\ written[vd.uid] > 0
  BY Zenon DEF ReadyInv, Backed, TakenForOwn
<1>2. SUFFICES ASSUME cm # vd.uid PROVE FALSE
  OBVIOUS
<1>3. Past(vd.uid, vdCache) /\ Precedes(vdCache, vd) /\ vd.uid \in 0..MaxUid
  BY <1>1, <1>2, SightFacts, BoundsAssumption DEF IInv, Removed, Uids
<1>4. Past(vd.uid, vd)
  BY <1>3, PrecedesOrder, SightFacts
<1>. QED
  BY <1>1, <1>4, BoundsAssumption DEF Past, Uids

\* A live VectorData that reports Ready has its ConfigMap, unless Reconcile took
\* the ConfigMap of an earlier incarnation, still in its cache, for this one's:
\* no lost answer, lagging cache or restart explains another false report.
THEOREM ReadyIsExplained == Spec => []ReadyExplained
<1>1. Init => ReadyInv
  BY NoEvent DEF Init, ReadyInv, CMInSight, Gone, Idle, ReadyTrue, NoCM
<1>2. IInv /\ IInv' /\ ReadyInv /\ [Next]_vars => ReadyInv'
  BY ReadyStep
<1>3. IInv /\ ReadyInv => ReadyExplained
  BY ReadyIsBacked
<1>. QED
  BY <1>1, <1>2, <1>3, Inductive, PTL DEF Spec


=============================================================================
