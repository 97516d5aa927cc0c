----------------------------- MODULE ChunkLeases -----------------------------
(***************************************************************************)
(* What leasing promises about a chunk: it is leased to one worker at a    *)
(* time, its result is taken once, from the worker that holds the lease    *)
(* and that has computed it, and a chunk that is done or abandoned stays   *)
(* so.  Leases may be given up at any time, several at once.               *)
(***************************************************************************)
CONSTANTS Chunk, WorkerId

VARIABLES
  status,       \* of every chunk: how it stands, or the worker it is leased to
  computed      \* the workers that have computed a chunk

vars == <<status, computed>>

Init == /\ status = [c \in Chunk |-> "waiting"]
        /\ computed = [c \in Chunk |-> {}]

Lease(c, w) == /\ status[c] = "waiting"
               /\ status' = [status EXCEPT ![c] = w]
               /\ UNCHANGED computed

Compute(c, w) == /\ computed' = [computed EXCEPT ![c] = @ \cup {w}]
                 /\ UNCHANGED status

Commit(c) == /\ status[c] \in computed[c]
             /\ status' = [status EXCEPT ![c] = "done"]
             /\ UNCHANGED computed

(* The chunks of `retry` wait again, those of `abandon` are abandoned. *)
GiveUp(retry, abandon) ==
  /\ \A c \in retry \cup abandon : status[c] \in WorkerId
  /\ status' = [c \in Chunk |-> IF c \in abandon THEN "abandoned"
                                ELSE IF c \in retry THEN "waiting"
                                ELSE status[c]]
  /\ UNCHANGED computed

Next == \/ \E retry, abandon \in SUBSET Chunk : GiveUp(retry, abandon)
        \/ \E c \in Chunk : Commit(c) \/ \E w \in WorkerId : Lease(c, w) \/ Compute(c, w)

Spec == Init /\ [][Next]_vars
=============================================================================
