---------------------------- MODULE LeaseProtocol ----------------------------
(***************************************************************************)
(* The two halves of leasing, master/src/recovery.c and                    *)
(* worker/src/recovery.c, joined by a network that loses, repeats and      *)
(* reorders messages.  No program of the repository joins them yet; the    *)
(* messages are the arguments of their calls: an assignment (a lease and   *)
(* its worker), a result, a revocation, and the list of a worker's active  *)
(* leases.  An assignment exists from the moment its lease does, and a     *)
(* revocation from the moment the lease was settled, both for ever, so     *)
(* that only results and the last list are kept.  Workers may restart with *)
(* an empty context.  A disconnect sets a flag that nothing reads, and a   *)
(* drain refuses assignments, which the network may lose anyway: neither   *)
(* call is repeated here.  The clock stands still and a sweep is given any *)
(* time, so that a worker may be found lost and a lease expired at any     *)
(* moment.                                                                 *)
(***************************************************************************)
EXTENDS MasterRecovery, WorkerLeases

CONSTANTS Chunk, Nobody,
          MaxRestarts   \* bound on the restarts of workers

VARIABLES
  ctx,          \* the context of every worker
  chunk_id,     \* the chunk of every lease
  results,      \* the leases whose result was sent
  list,         \* the last list sent, and to which worker
  restarts,     \* of workers, so far
  computed      \* history: which workers have computed a chunk

network == <<chunk_id, results, list, restarts>>
all == <<vars, ctx, network, computed>>

NoChunk == "none"
ASSUME NamesDistinct ==
  NoChunk \notin Chunk /\ {"waiting", "done", "abandoned"} \cap WorkerId = {}
NoList == [to |-> Nobody, leases |-> {}]

ProtocolInit ==
  /\ Init
  /\ ctx = [w \in WorkerId |-> recovery_init]
  /\ chunk_id = [l \in LeaseId |-> NoChunk]
  /\ results = {} /\ list = NoList /\ restarts = 0
  /\ computed = [c \in Chunk |-> {}]

LeasesOf(c) == {j \in DOMAIN leases : chunk_id[leases[j].lease_id] = c}
Holding(c) == {j \in LeasesOf(c) : leases[j].state = "ACTIVE"}
Closed(c) == {j \in LeasesOf(c) : leases[j].state = "RECONCILED"}

(* A chunk is leased when it never was, or for replacement of a lease that *)
(* has expired; every lease has an id of its own.                          *)
Grant(l, c, w, term, policy) ==
  /\ chunk_id[l] = NoChunk
  /\ Holding(c) = {} /\ Closed(c) = {}
  /\ inject_lease(l, w, term, policy)
  /\ chunk_id' = [chunk_id EXCEPT ![l] = c]
  /\ UNCHANGED <<ctx, results, list, restarts, computed>>

DeliverAssignment(j) ==
  LET l == leases[j].lease_id
      w == leases[j].assigned_worker_id
  IN  /\ Accepts(ctx[w])
      /\ ctx' = [ctx EXCEPT ![w] = accept_new_chunk(@, l, FALSE)]
      /\ UNCHANGED <<vars, network, computed>>

DeliverRevocation(j) ==
  LET l == leases[j].lease_id
      w == leases[j].assigned_worker_id
  IN  /\ leases[j].state \in {"EXPIRED", "RECONCILED"}
      /\ ctx' = [ctx EXCEPT ![w] = handle_revocation(@, l)]
      /\ UNCHANGED <<vars, network, computed>>

Complete(w, l, s) ==
  /\ RunningSlots(ctx[w], l) # {}
  /\ ctx' = [ctx EXCEPT ![w] = complete_chunk(@, l, s)]
  /\ computed' = [computed EXCEPT ![chunk_id[l]] = @ \cup {w}]
  /\ UNCHANGED <<vars, network>>

SendResult(w, l) ==
  /\ claim_result(ctx[w], l)
  /\ results' = results \cup {l}
  /\ UNCHANGED <<vars, ctx, chunk_id, list, restarts, computed>>

DeliverResult(l) ==
  /\ l \in results
  /\ process_incoming_result(l, leases[First(LeaseSlots(l))].assigned_worker_id)
  /\ UNCHANGED <<ctx, network, computed>>

ActiveOf(w) == {leases[j].lease_id : j \in
                  {k \in DOMAIN leases : /\ leases[k].state = "ACTIVE"
                                         /\ leases[k].assigned_worker_id = w}}
SendList(w) == /\ list' = [to |-> w, leases |-> ActiveOf(w)]
               /\ UNCHANGED <<vars, ctx, chunk_id, results, restarts, computed>>
DeliverList == /\ list # NoList
               /\ ctx' = [ctx EXCEPT ![list.to] =
                                 reconnect_reconcile(@, list.leases)]
               /\ UNCHANGED <<vars, network, computed>>

Restart(w) == /\ restarts < MaxRestarts
              /\ restarts' = restarts + 1
              /\ ctx' = [ctx EXCEPT ![w] = recovery_init]
              /\ UNCHANGED <<vars, chunk_id, results, list, computed>>

Heartbeat(w) == /\ register_worker_heartbeat(w)
                /\ UNCHANGED <<ctx, network, computed>>
SweepAt(now) == /\ sweep_timeouts(now)
                /\ UNCHANGED <<sweep_now, ctx, network, computed>>

ProtocolNext ==
  \/ \E w \in WorkerId : Heartbeat(w)
  \/ \E now \in 0..MaxTime : SweepAt(now)
  \/ \E l \in LeaseId, c \in Chunk, w \in WorkerId, t \in Terms, p \in {"NONE", "RETRY"} :
       Grant(l, c, w, t, p)
  \/ \E j \in DOMAIN leases : DeliverAssignment(j) \/ DeliverRevocation(j)
  \/ \E w \in WorkerId, l \in LeaseId :
       SendResult(w, l) \/ \E s \in Checksum : Complete(w, l, s)
  \/ \E l \in LeaseId : DeliverResult(l)
  \/ \E w \in WorkerId : SendList(w) \/ Restart(w)
  \/ DeliverList

ProtocolSpec == ProtocolInit /\ [][ProtocolNext]_all
-----------------------------------------------------------------------------
Standing(c) ==
  IF Holding(c) # {} THEN leases[First(Holding(c))].assigned_worker_id
  ELSE IF Closed(c) = {} THEN "waiting"
  ELSE IF \E j \in Closed(c) : committed[leases[j].lease_id] > 0 THEN "done"
  ELSE "abandoned"

Promise == INSTANCE ChunkLeases WITH status <- [c \in Chunk |-> Standing(c)]

(* Refinement: the two halves keep what leasing promises about a chunk,    *)
(* over every loss, repetition and reordering of messages and every        *)
(* restart of a worker.                                                    *)
LeasesKeepPromise == Promise!Spec

(* Action property: a result that a worker has ready under a lease the     *)
(* master still holds active stays ready; assignments delivered again,     *)
(* revocations of other leases and lists leave it alone.  Only a restart   *)
(* of the worker, or a list made before the lease was granted and          *)
(* delivered late (reconnect_reconcile drops what it does not name), costs *)
(* finished work.                                                          *)
Ready(j) == claim_result(ctx[leases[j].assigned_worker_id], leases[j].lease_id)
FinishedWorkKept ==
  [][\A j \in DOMAIN leases :
       leases[j].state = "ACTIVE" /\ Ready(j) =>
         \/ Ready(j)'
         \/ restarts' # restarts
         \/ /\ list.to = leases[j].assigned_worker_id
            /\ leases[j].lease_id \notin list.leases]_all
=============================================================================
