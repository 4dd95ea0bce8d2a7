----------------------------- MODULE VectorData -----------------------------
(***************************************************************************)
(* The VectorData controller (internal/vectordata): for one VectorData     *)
(* name it keeps a ConfigMap `vector-data-<name>` in the landscape.        *)
(*                                                                         *)
(* The API server's objects change under the controller's feet: every      *)
(* API call of Reconcile is a step of its own, reads go to informer caches *)
(* that lag behind by any number of watch events, and a call may fail      *)
(* before or after it took effect.  The name may be deleted and created    *)
(* again; an incarnation of it is its uid.                                 *)
(***************************************************************************)
EXTENDS Naturals, Sequences

CONSTANTS
    Renderable,    \* the uids whose spec renderData accepts
    MaxUid,        \* bound: how often the name is created
    MaxFaults,     \* bound: API calls that fail or lose their answer
    MaxRestarts    \* bound: restarts of the operator process

ASSUME BoundsAssumption == /\ MaxUid \in Nat \ {0}
                           /\ MaxFaults \in Nat
                           /\ MaxRestarts \in Nat

VARIABLES
    vd,         \* the VectorData object as the API server stores it
    vdWatch,    \* the states of it that the informer has not yet seen
    vdCache,    \* the informer's copy
    cm,         \* the uid in the label of the stored ConfigMap, NoCM if absent
    cmWatch,    \* the same for the ConfigMap informer
    cmCache,
    worker,     \* the reconcile in progress, and its local copy `vd`
    pending,    \* the key is in the work queue
    written,    \* history: how many ConfigMaps were created for a uid
    faults, restarts

apiVars == <<vd, vdWatch, cm, cmWatch>>
cacheVars == <<vdCache, cmCache>>
boundVars == <<faults, restarts>>
vars == <<apiVars, cacheVars, worker, pending, written, boundVars>>

NoCM == 0
Uids == 1..MaxUid

\* Ready condition: absent, false with its reason, or true with its message.
NotReady == {"none", "RenderFailed", "ConfigMapGetFailed", "ConfigMapCreateFailed"}
ReadyTrue == {"materialized", "already present"}
Ready == NotReady \cup ReadyTrue

Object == [uid: 0..MaxUid, phase: {"live", "deleting", "gone"},
           fin: BOOLEAN, ready: Ready]

Gone(u) == [uid |-> u, phase |-> "gone", fin |-> FALSE, ready |-> "none"]

\* Where a reconcile stands: the call it makes next.
Calls == {"addFinalizer", "render", "create", "deleteCM", "removeFinalizer"}
Idle == [pc |-> "idle", vd |-> Gone(0)]

TypeOK ==
    /\ vd \in Object
    /\ vdWatch \in Seq(Object)
    /\ vdCache \in Object
    /\ cm \in 0..MaxUid
    /\ cmWatch \in Seq(0..MaxUid)
    /\ cmCache \in 0..MaxUid
    /\ worker \in [pc: {"idle"} \cup Calls \cup Ready, vd: Object]
    /\ pending \in BOOLEAN
    /\ written \in [Uids -> Nat]
    /\ faults \in 0..MaxFaults
    /\ restarts \in 0..MaxRestarts

Init ==
    /\ vd = Gone(0) /\ vdWatch = << >> /\ vdCache = Gone(0)
    /\ cm = NoCM /\ cmWatch = << >> /\ cmCache = NoCM
    /\ worker = Idle
    /\ pending = FALSE
    /\ written = [u \in Uids |-> 0]
    /\ faults = 0 /\ restarts = 0

-----------------------------------------------------------------------------
(***************************************************************************)
(* The API server: a write that changes an object emits one watch event,   *)
(* a deleting object without finalizers goes away, and a finalizer cannot  *)
(* be added to a deleting object.                                          *)
(***************************************************************************)
WriteVD(new) ==
    /\ vd' = new
    /\ vdWatch' = IF new = vd THEN vdWatch ELSE Append(vdWatch, new)

WriteCM(new) ==
    /\ cm' = new
    /\ cmWatch' = IF new = cm THEN cmWatch ELSE Append(cmWatch, new)

AddFinalizerAllowed(o) == o.phase = "live" \/ (o.phase = "deleting" /\ o.fin)

WithoutFinalizer(o) ==
    IF o.phase = "deleting" THEN Gone(o.uid) ELSE [o EXCEPT !.fin = FALSE]

\* The user of the API: Star creates and deletes the VectorData.
CreateVD ==
    /\ vd.phase = "gone" /\ vd.uid < MaxUid
    /\ WriteVD([uid |-> vd.uid + 1, phase |-> "live", fin |-> FALSE, ready |-> "none"])
    /\ UNCHANGED <<cm, cmWatch, cacheVars, worker, pending, written, boundVars>>

DeleteVD ==
    /\ vd.phase = "live"
    /\ WriteVD(IF vd.fin THEN [vd EXCEPT !.phase = "deleting"] ELSE Gone(vd.uid))
    /\ UNCHANGED <<cm, cmWatch, cacheVars, worker, pending, written, boundVars>>

-----------------------------------------------------------------------------
(***************************************************************************)
(* Informers.  The predicate of SetupWithManager lets creations, deletions *)
(* and every update of a deleting object through; the spec is immutable,   *)
(* so no other update changes the generation.                              *)
(***************************************************************************)
\* Faulty variant: the deletion timestamp is not looked at.
Triggers_GenerationOnly(old, new) == new.uid # old.uid

Triggers(old, new) == new.uid # old.uid \/ new.phase # "live"

DeliverVD ==
    /\ vdWatch # << >>
    /\ vdCache' = Head(vdWatch)
    /\ vdWatch' = Tail(vdWatch)
    /\ pending' = (pending \/ Triggers(vdCache, Head(vdWatch)))
    /\ UNCHANGED <<vd, cm, cmWatch, cmCache, worker, written, boundVars>>

DeliverCM ==
    /\ cmWatch # << >>
    /\ cmCache' = Head(cmWatch)
    /\ cmWatch' = Tail(cmWatch)
    /\ UNCHANGED <<vd, vdWatch, cm, vdCache, worker, pending, written, boundVars>>

-----------------------------------------------------------------------------
(* Ends of a reconcile, and the ways a call can go wrong.                  *)
Return == worker' = Idle /\ UNCHANGED pending

\* Reconcile returned an error: the queue hands the key out again.
ReturnError == worker' = Idle /\ pending' = TRUE

\* The next API call of the same reconcile, with its local copy of the object.
Continue(pc, local) == worker' = [pc |-> pc, vd |-> local] /\ UNCHANGED pending

\* The caller sees an error although the API server refused nothing.
Fault == faults < MaxFaults /\ faults' = faults + 1 /\ UNCHANGED restarts

-----------------------------------------------------------------------------
(* Reconcile                                                               *)

\* Get the VectorData from the cache and branch on what it says.
Start ==
    /\ worker.pc = "idle" /\ pending
    /\ pending' = FALSE
    /\ worker' =
         CASE vdCache.phase = "gone" -> Idle
           [] vdCache.phase = "deleting" /\ ~vdCache.fin -> Idle
           [] vdCache.phase = "deleting" /\ vdCache.fin -> [pc |-> "deleteCM", vd |-> vdCache]
           [] vdCache.phase = "live" /\ ~vdCache.fin -> [pc |-> "addFinalizer", vd |-> vdCache]
           [] vdCache.phase = "live" /\ vdCache.fin -> [pc |-> "render", vd |-> vdCache]
    /\ UNCHANGED <<apiVars, cacheVars, written, boundVars>>

\* Faulty variant: the answer of the patch is dropped.
AddFinalizer_KeepsCopy ==
    /\ worker.pc = "addFinalizer"
    /\ AddFinalizerAllowed(vd)
    /\ WriteVD([vd EXCEPT !.fin = TRUE])
    /\ Continue("render", worker.vd)
    /\ UNCHANGED <<cm, cmWatch, cacheVars, written, boundVars>>

\* The merge patch addresses the object by name; its answer replaces the
\* local copy, whatever incarnation it finds.
AddFinalizer ==
    LET new == [vd EXCEPT !.fin = TRUE] IN
    /\ worker.pc = "addFinalizer"
    /\ \/ /\ AddFinalizerAllowed(vd)
          /\ WriteVD(new)
          /\ \/ Continue("render", new) /\ UNCHANGED boundVars
             \/ Fault /\ ReturnError
       \/ /\ ~AddFinalizerAllowed(vd)
          /\ ReturnError
          /\ UNCHANGED <<vd, vdWatch, boundVars>>
       \/ Fault /\ ReturnError /\ UNCHANGED <<vd, vdWatch>>
    /\ UNCHANGED <<cm, cmWatch, cacheVars, written>>

\* Faulty variant: a failed Get is reported under a reason of its own.
Render_UnknownReason ==
    /\ worker.pc = "render"
    /\ \/ Continue(IF cmCache = NoCM THEN "create" ELSE "already present", worker.vd)
          /\ UNCHANGED boundVars
       \/ Fault /\ Continue("Failed", worker.vd)
    /\ UNCHANGED <<apiVars, cacheVars, written>>

\* renderData, then the cached Get of the ConfigMap: the uid label of a
\* ConfigMap that is found is not looked at.
Render ==
    /\ worker.pc = "render"
    /\ \/ /\ worker.vd.uid \notin Renderable
          /\ Continue("RenderFailed", worker.vd) /\ UNCHANGED boundVars
       \/ /\ worker.vd.uid \in Renderable
          /\ \/ /\ Continue(IF cmCache = NoCM THEN "create" ELSE "already present", worker.vd)
                /\ UNCHANGED boundVars
             \/ Fault /\ Continue("ConfigMapGetFailed", worker.vd)
    /\ UNCHANGED <<apiVars, cacheVars, written>>

\* Faulty variant: an existing ConfigMap is replaced.
CreateCM_Replaces ==
    /\ worker.pc = "create"
    /\ WriteCM(worker.vd.uid)
    /\ written' = [written EXCEPT ![worker.vd.uid] = @ + 1]
    /\ \/ Continue("materialized", worker.vd) /\ UNCHANGED boundVars
       \/ Fault /\ Continue("ConfigMapCreateFailed", worker.vd)
    /\ UNCHANGED <<vd, vdWatch, cacheVars>>

\* Faulty variant: the error of the creation is dropped.
CreateCM_IgnoresError ==
    /\ worker.pc = "create"
    /\ \/ /\ cm = NoCM
          /\ WriteCM(worker.vd.uid)
          /\ written' = [written EXCEPT ![worker.vd.uid] = @ + 1]
          /\ UNCHANGED boundVars
       \/ Fault /\ UNCHANGED <<cm, cmWatch, written>>
    /\ Continue("materialized", worker.vd)
    /\ UNCHANGED <<vd, vdWatch, cacheVars>>

CreateCM ==
    /\ worker.pc = "create"
    /\ \/ /\ cm = NoCM
          /\ WriteCM(worker.vd.uid)
          /\ written' = [written EXCEPT ![worker.vd.uid] = @ + 1]
          /\ \/ Continue("materialized", worker.vd) /\ UNCHANGED boundVars
             \/ Fault /\ Continue("ConfigMapCreateFailed", worker.vd)
       \/ /\ cm # NoCM      \* AlreadyExists
          /\ Continue("ConfigMapCreateFailed", worker.vd)
          /\ UNCHANGED <<cm, cmWatch, written, boundVars>>
       \/ /\ Fault /\ Continue("ConfigMapCreateFailed", worker.vd)
          /\ UNCHANGED <<cm, cmWatch, written>>
    /\ UNCHANGED <<vd, vdWatch, cacheVars>>

\* Faulty variant: after a failure is reported, no error is returned.
SetReady_SwallowsError ==
    /\ worker.pc \in Ready \ {"none"}
    /\ WriteVD([vd EXCEPT !.ready = worker.pc])
    /\ Return
    /\ UNCHANGED <<cm, cmWatch, cacheVars, written, boundVars>>

\* A status patch by name carries the difference to the local copy only.
\* After a False condition Reconcile returns an error in any case.
SetReady ==
    LET found == vd.phase # "gone"
        new == IF worker.pc = worker.vd.ready \/ ~found THEN vd
               ELSE [vd EXCEPT !.ready = worker.pc] IN
    /\ worker.pc \in Ready \ {"none"}
    /\ \/ /\ WriteVD(new)
          /\ \/ /\ IF worker.pc \in ReadyTrue /\ found THEN Return ELSE ReturnError
                /\ UNCHANGED boundVars
             \/ worker.pc \in ReadyTrue /\ Fault /\ ReturnError
       \/ Fault /\ ReturnError /\ UNCHANGED <<vd, vdWatch>>
    /\ UNCHANGED <<cm, cmWatch, cacheVars, written>>

\* Faulty variant: the error of the deletion is dropped.
DeleteCM_IgnoresError ==
    /\ worker.pc = "deleteCM"
    /\ \/ WriteCM(NoCM) /\ UNCHANGED boundVars
       \/ Fault /\ UNCHANGED <<cm, cmWatch>>
    /\ Continue("removeFinalizer", worker.vd)
    /\ UNCHANGED <<vd, vdWatch, cacheVars, written>>

\* handleDeletion: delete the ConfigMap by name, then release the finalizer.
DeleteCM ==
    /\ worker.pc = "deleteCM"
    /\ \/ /\ WriteCM(NoCM)
          /\ \/ Continue("removeFinalizer", worker.vd) /\ UNCHANGED boundVars
             \/ Fault /\ ReturnError
       \/ Fault /\ ReturnError /\ UNCHANGED <<cm, cmWatch>>
    /\ UNCHANGED <<vd, vdWatch, cacheVars, written>>

RemoveFinalizer ==
    /\ worker.pc = "removeFinalizer"
    /\ \/ /\ vd.phase # "gone"
          /\ WriteVD(WithoutFinalizer(vd))
          /\ \/ Return /\ UNCHANGED boundVars
             \/ Fault /\ ReturnError
       \/ /\ vd.phase = "gone"
          /\ ReturnError /\ UNCHANGED <<vd, vdWatch, boundVars>>
       \/ Fault /\ ReturnError /\ UNCHANGED <<vd, vdWatch>>
    /\ UNCHANGED <<cm, cmWatch, cacheVars, written>>

\* The process is replaced: its reconcile is lost, the caches are listed
\* afresh and every object is queued.
Restart ==
    /\ restarts < MaxRestarts
    /\ restarts' = restarts + 1
    /\ worker' = Idle
    /\ vdCache' = vd /\ vdWatch' = << >>
    /\ cmCache' = cm /\ cmWatch' = << >>
    /\ pending' = (vd.phase # "gone")
    /\ UNCHANGED <<vd, cm, written, faults>>

-----------------------------------------------------------------------------
Reconcile == \/ Start \/ AddFinalizer \/ Render \/ CreateCM \/ SetReady
             \/ DeleteCM \/ RemoveFinalizer

Next == \/ CreateVD \/ DeleteVD \/ DeliverVD \/ DeliverCM
        \/ Reconcile \/ Restart

\* The queue hands out every key and watches deliver; users and faults owe
\* nothing.
Fairness == /\ WF_vars(DeliverVD) /\ WF_vars(DeliverCM) /\ WF_vars(Reconcile)

Spec == Init /\ [][Next]_vars
FairSpec == Spec /\ Fairness

-----------------------------------------------------------------------------
(* Properties                                                              *)

Promise == INSTANCE Materialization WITH
    uid <- vd.uid, phase <- vd.phase, data <- cm,
    done <- {u \in Uids : written[u] # 0}

\* The controller implements its promise, module Materialization: above all, no
\* retry and no stale copy makes handleDeletion delete the ConfigMap of a live
\* VectorData, or Reconcile write one for another incarnation than the present.
KeepsPromise == Promise!Spec

\* A ConfigMap never outlives its VectorData: while one is stored, the
\* VectorData of the same uid is stored and carries the finalizer that makes
\* handleDeletion delete the ConfigMap first.
NoOrphan ==
    cm # NoCM => vd.phase # "gone" /\ vd.fin /\ vd.uid = cm

\* "The ConfigMap is written exactly once per VectorData": neither a retry, a
\* stale cache nor a restart makes Reconcile create a second one for a uid.
WrittenOnce == \A u \in Uids : written[u] <= 1

\* A live VectorData that reports Ready=True has its own ConfigMap: the
\* branches of Reconcile that set the condition say it was materialized or is
\* already present.
ReadyMeansMaterialized ==
    vd.phase = "live" /\ vd.ready \in ReadyTrue => cm = vd.uid

\* The report that Reconcile makes for the ConfigMap of an earlier incarnation
\* of the name, which the informer still holds.
TakenForOwn == vd.uid > 1 /\ vd.ready = "already present"

\* The same with the one exception that Reconcile has: no lost answer, lagging
\* cache or restart makes it report a ConfigMap that is not stored, unless the
\* name was used before.
ReadyExplained == ReadyMeansMaterialized \/ TakenForOwn

\* The VectorData of this incarnation is deleted, or replaced.
Abandoned(u) == vd.uid # u \/ vd.phase # "live"

\* A new VectorData, while nothing in the process holds the ConfigMap of an
\* earlier incarnation of the name.
Unshadowed(u) ==
    /\ vd.uid = u /\ vd.phase = "live" /\ vd.ready = "none"
    /\ cmCache \in {NoCM, u} /\ \A i \in 1..Len(cmWatch) : cmWatch[i] \in {NoCM, u}
    /\ worker.pc # "already present"

\* Such a VectorData, if it can be rendered, gets its ConfigMap and is Ready,
\* unless it is deleted first, through lagging caches, faults and restarts.  One
\* report of a failure may outlive its cause: the retry after ConfigMapGetFailed
\* patches nothing when the cached VectorData still says Ready=True.
EventuallyMaterialized ==
    \A u \in Uids \cap Renderable :
        Unshadowed(u)
            ~> \/ cm = u /\ vd.ready \in ReadyTrue \cup {"ConfigMapGetFailed"}
               \/ Abandoned(u)

\* A deletion completes: handleDeletion releases the finalizer of every
\* VectorData that is being deleted, after its ConfigMap is gone.
DeletionCompletes ==
    \A u \in Uids : vd.uid = u /\ vd.phase = "deleting" ~> vd.uid = u /\ vd.phase = "gone"

=============================================================================
