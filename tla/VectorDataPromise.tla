-------------------------- MODULE VectorDataPromise --------------------------
(***************************************************************************)
(* The proof that the VectorData controller implements its promise, module *)
(* Materialization, for any number of incarnations, faults and restarts.   *)
(***************************************************************************)
EXTENDS VectorDataProofs

\* The incarnations whose ConfigMap was written, as the refinement mapping has
\* them.
Done == {u \in Uids : written[u] # 0}

\* A step that changes neither incarnation, phase, ConfigMap nor history is a
\* stutter of the promise.
LEMMA Stutter ==
    ASSUME UNCHANGED <<cm, written>>, vd'.uid = vd.uid, vd'.phase = vd.phase
    PROVE  [Promise!Next]_(Promise!promiseVars)
  BY DEF Promise!promiseVars

\* The informer, the queue and the rendering are no concern of the promise.
LEMMA QuietPromise ==
    ASSUME UNCHANGED <<vd, cm, written>>
    PROVE  [Promise!Next]_(Promise!promiseVars)
  BY Stutter

\* Star's creation of the VectorData begins an incarnation.
LEMMA CreatePromise ==
    ASSUME IInv, CreateVD
    PROVE  Promise!Create
  BY DEF CreateVD, WriteVD, Promise!Create

\* Star's deletion only takes an object away at once that has no ConfigMap.
LEMMA DeletePromise ==
    ASSUME IInv, DeleteVD
    PROVE  Promise!Delete \/ Promise!Vanish
<1>1. vd.phase = "live" /\ UNCHANGED <<cm, written>> /\ vd \in Object
  BY DEF DeleteVD, IInv, TypeOK
<1>2. CASE vd.fin
  <2>1. vd' = [vd EXCEPT !.phase = "deleting"]
    BY <1>2 DEF DeleteVD, WriteVD
  <2>2. vd'.uid = vd.uid /\ vd'.phase = "deleting"
    BY <1>1, <2>1 DEF Object
  <2>. QED
    BY <1>1, <2>2 DEF Promise!Delete
<1>3. CASE ~vd.fin
  <2>1. vd' = Gone(vd.uid)
    BY <1>3 DEF DeleteVD, WriteVD
  <2>2. vd'.uid = vd.uid /\ vd'.phase = "gone"
    BY <2>1 DEF Gone
  <2>3. cm = 0
    BY <1>3 DEF IInv, NoOrphan, NoCM
  <2>. QED
    BY <1>1, <2>2, <2>3 DEF Promise!Vanish
<1>. QED
  BY <1>2, <1>3

\* Patches of the finalizer and of the condition do not move the object on.
LEMMA PatchPromise ==
    ASSUME IInv, AddFinalizer \/ SetReady
    PROVE  [Promise!Next]_(Promise!promiseVars)
<1>1. vd \in Object /\ UNCHANGED <<cm, written>>
  BY DEF IInv, TypeOK, AddFinalizer, SetReady
<1>2. vd'.uid = vd.uid /\ vd'.phase = vd.phase
  BY <1>1 DEF AddFinalizer, SetReady, WriteVD, Object
<1>. QED
  BY <1>1, <1>2, Stutter

\* The ConfigMap that Reconcile creates is the first of the present incarnation.
LEMMA MaterializePromise ==
    ASSUME IInv, CreateCM
    PROVE  [Promise!Next]_(Promise!promiseVars)
<1>1. /\ UNCHANGED vd /\ worker.pc = "create"
  BY DEF CreateCM
<1>2. /\ vd.uid = worker.vd.uid /\ vd.phase # "gone"
      /\ vd.uid \in 0..MaxUid /\ written \in [Uids -> Nat]
  BY <1>1 DEF IInv, WorkerInv, WellFormed, Holds, TypeOK, Object
<1>3. CASE UNCHANGED <<cm, written>>
  BY <1>1, <1>3, QuietPromise
<1>4. CASE /\ cm = NoCM /\ cm' = vd.uid
           /\ written' = [written EXCEPT ![vd.uid] = @ + 1]
  <2>1. CASE vd.uid \notin Uids
    <3>1. vd.uid = 0 /\ written' = written
      BY <1>2, <1>4, <2>1, BoundsAssumption DEF Uids
    <3>. QED
      BY <1>1, <1>4, <3>1, QuietPromise DEF NoCM
  <2>2. CASE vd.uid \in Uids
    <3>1. written[vd.uid] = 0
      BY <1>1, <1>2, <1>4, <2>2, BoundsAssumption DEF IInv, Removed, NoCM, Uids
    <3>2. \A u \in Uids : written'[u] = IF u = vd.uid THEN 1 ELSE written[u]
      BY <1>2, <1>4, <3>1
    <3>3. Done' = Done \cup {vd.uid} /\ vd.uid \notin Done
      BY <1>2, <2>2, <3>1, <3>2 DEF Done
    <3>. QED
      BY <1>1, <1>2, <1>4, <3>3 DEF Promise!Next, Promise!Materialize, NoCM, Done
  <2>. QED
    BY <2>1, <2>2
<1>. QED
  BY <1>2, <1>3, <1>4 DEF CreateCM, WriteCM

\* handleDeletion only ever deletes the ConfigMap of a VectorData whose deletion
\* was requested: it may work on a stale copy and retry what was done already,
\* but then nothing is stored under the name, or the same incarnation still.
LEMMA ErasePromise ==
    ASSUME IInv, DeleteCM
    PROVE  [Promise!Next]_(Promise!promiseVars)
<1>1. /\ UNCHANGED <<vd, written>> /\ worker.pc = "deleteCM"
      /\ cm' = cm \/ cm' = NoCM
  BY DEF DeleteCM, WriteCM
<1>2. CASE cm' = cm
  BY <1>1, <1>2, QuietPromise
<1>3. CASE cm' = NoCM /\ cm # NoCM
  <2>1. vd.phase # "gone" /\ vd.fin /\ vd.uid = cm
    BY <1>3 DEF IInv, NoOrphan
  <2>2. /\ worker.vd.phase = "deleting" /\ vd.uid = worker.vd.uid
        /\ Precedes(worker.vd, vd)
    BY <1>1, <2>1 DEF IInv, WorkerInv
  <2>3. vd.phase = "deleting"
    BY <2>1, <2>2 DEF Precedes, PhaseNo, IInv, TypeOK, Object
  <2>. QED
    BY <1>1, <1>3, <2>1, <2>3 DEF Promise!Next, Promise!Erase, NoCM
<1>. QED
  BY <1>1, <1>2, <1>3

\* The finalizer is released when there is no ConfigMap left.
LEMMA ReleasePromise ==
    ASSUME IInv, RemoveFinalizer
    PROVE  [Promise!Next]_(Promise!promiseVars)
<1>1. /\ UNCHANGED <<cm, written>> /\ vd \in Object /\ cm = 0
  BY DEF RemoveFinalizer, IInv, WorkerInv, TypeOK, NoCM
<1>2. CASE vd' = vd
  BY <1>1, <1>2, QuietPromise
<1>3. CASE vd' = WithoutFinalizer(vd) /\ vd.phase = "deleting"
  <2>1. vd'.uid = vd.uid /\ vd'.phase = "gone"
    BY <1>3 DEF WithoutFinalizer, Gone
  <2>. QED
    BY <1>1, <1>3, <2>1 DEF Promise!Next, Promise!Vanish
<1>4. CASE vd' = WithoutFinalizer(vd) /\ vd.phase # "deleting"
  <2>1. vd'.uid = vd.uid /\ vd'.phase = vd.phase
    BY <1>1, <1>4 DEF WithoutFinalizer, Object
  <2>. QED
    BY <1>1, <2>1, Stutter
<1>. QED
  BY <1>2, <1>3, <1>4 DEF RemoveFinalizer, WriteVD

\* The VectorData controller keeps its promise: the readers of ConfigMaps see
\* the behaviour of Materialization, whatever the caches, retries, faults and
\* restarts of Reconcile.
THEOREM PromiseKept == Spec => KeepsPromise
<1>1. Init => Promise!Init
  <2>. SUFFICES ASSUME Init PROVE Promise!Init
    OBVIOUS
  <2>1. vd.uid = 0 /\ vd.phase = "gone" /\ cm = 0
    BY DEF Init, Gone, NoCM
  <2>2. Done = {}
    BY DEF Init, Done
  <2>. QED
    BY <2>1, <2>2 DEF Promise!Init, Done
<1>2. IInv /\ [Next]_vars => [Promise!Next]_(Promise!promiseVars)
  <2>. SUFFICES ASSUME IInv, [Next]_vars PROVE [Promise!Next]_(Promise!promiseVars)
    OBVIOUS
  <2>1. CASE CreateVD
    BY <2>1, CreatePromise DEF Promise!Next
  <2>2. CASE DeleteVD
    BY <2>2, DeletePromise DEF Promise!Next
  <2>3. CASE DeliverVD \/ DeliverCM \/ Start \/ Render \/ Restart \/ UNCHANGED vars
    <3>1. UNCHANGED <<vd, cm, written>>
      BY <2>3, Zenon DEF DeliverVD, DeliverCM, Start, Render, Restart, vars, apiVars
    <3>. QED
      BY <3>1, QuietPromise
  <2>4. CASE AddFinalizer \/ SetReady
    BY <2>4, PatchPromise
  <2>5. CASE CreateCM
    BY <2>5, MaterializePromise
  <2>6. CASE DeleteCM
    BY <2>6, ErasePromise
  <2>7. CASE RemoveFinalizer
    BY <2>7, ReleasePromise
  <2>. QED
    BY <2>1, <2>2, <2>3, <2>4, <2>5, <2>6, <2>7 DEF Next, Reconcile
<1>. QED
  BY <1>1, <1>2, Inductive, PTL DEF Spec, KeepsPromise, Promise!Spec

=============================================================================
