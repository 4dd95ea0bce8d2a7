--------------------------- MODULE Materialization ---------------------------
(***************************************************************************)
(* What the VectorData controller promises to the readers of ConfigMaps,   *)
(* free of caches, retries and faults: the data of a VectorData appears at *)
(* most once in its life, belongs to the present incarnation of the name,  *)
(* stays until the deletion of that is requested, and is gone before the   *)
(* VectorData is.                                                          *)
(***************************************************************************)
EXTENDS Naturals

VARIABLES
    uid, phase,    \* the present or last incarnation of the name, and its phase
    data,          \* the incarnation whose data is readable, 0 if there is none
    done           \* the incarnations whose data has been readable

promiseVars == <<uid, phase, data, done>>

Init == uid = 0 /\ phase = "gone" /\ data = 0 /\ done = {}

Create ==
    /\ phase = "gone"
    /\ uid' = uid + 1 /\ phase' = "live"
    /\ UNCHANGED <<data, done>>

Delete ==
    /\ phase = "live" /\ phase' = "deleting"
    /\ UNCHANGED <<uid, data, done>>

Materialize ==
    /\ phase # "gone" /\ data = 0 /\ uid \notin done
    /\ data' = uid /\ done' = done \cup {uid}
    /\ UNCHANGED <<uid, phase>>

Erase ==
    /\ phase = "deleting" /\ data = uid
    /\ data' = 0
    /\ UNCHANGED <<uid, phase, done>>

\* The name becomes free, also at once if nothing holds the VectorData.
Vanish ==
    /\ phase # "gone" /\ data = 0
    /\ phase' = "gone"
    /\ UNCHANGED <<uid, data, done>>

Next == Create \/ Delete \/ Materialize \/ Erase \/ Vanish

Spec == Init /\ [][Next]_promiseVars

=============================================================================
