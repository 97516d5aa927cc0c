------------------------------ MODULE Snapshots ------------------------------
(***************************************************************************)
(* What acquire_snapshot and release_snapshot promise their readers        *)
(* (master/include/master/cluster_state.h:138, "obtains immutable,         *)
(* configuration snapshots"): a reader holds a copy of the state of the    *)
(* moment it asked, and keeps exactly this copy until it gives it back.    *)
(***************************************************************************)
CONSTANTS Reader, Value, None

VARIABLES value, held

vars == <<value, held>>

Init == /\ value \in Value
        /\ held = [r \in Reader |-> None]

acquire(r) == /\ held[r] = None
              /\ held' = [held EXCEPT ![r] = value]
              /\ UNCHANGED value

release(r) == /\ held[r] # None
              /\ held' = [held EXCEPT ![r] = None]
              /\ UNCHANGED value

Change == value' \in Value /\ UNCHANGED held

Next == Change \/ \E r \in Reader : acquire(r) \/ release(r)

Spec == Init /\ [][Next]_vars
=============================================================================
