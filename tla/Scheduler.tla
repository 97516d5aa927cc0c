------------------------------ MODULE Scheduler ------------------------------
(***************************************************************************)
(* The chunk scheduler of the master (master/src/scheduler.c): the tables  *)
(* of workers, ready chunks and assignment leases, and the five calls that *)
(* change them.  Every call holds g_sched_mutex from its first to its last *)
(* access, so all calls but the tick are one step.  A tick is one step per *)
(* iteration of its loop over the chunks; it keeps the mutex (tick.running)*)
(* and no other call starts before it returns.                             *)
(***************************************************************************)
EXTENDS Tables, FiniteSets

CONSTANTS
  WorkerId, ChunkId,      \* identities of workers and chunks
  Platform, Runtime,      \* platform and runtime codes
  NodeNum,                \* NodeNum[w] is atoi(worker_id + 7)
  WorkerViews,            \* the views callers register
  ChunkPlans,             \* the plans callers submit
  MaxLeasesArgs,          \* the max_leases arguments callers pass to a tick
  MAX_SWORKERS, MAX_SCHUNKS,
  LEASE_MS,               \* 30000 in the code
  MaxTime                 \* bound on the callers' clock

UINT8 == 256

WorkerView == [worker_id : WorkerId, platform : Platform, runtime : Runtime,
               cpu_units : 0..(UINT8 - 1), reserv_cpu : 0..(UINT8 - 1),
               free_memory_mb : Nat, reserv_mem_mb : Nat,
               battery_pct : Int,           \* percent, negative: no battery
               active_chunks : Int,
               has_touch_input : BOOLEAN, draining : BOOLEAN,
               healthy : BOOLEAN,
               reliability_score : 0..10]   \* in tenths

ChunkPlan == [chunk_id : ChunkId,
              required_platform : Platform, required_runtime : Runtime,
              required_cpu : 0..(UINT8 - 1), required_memory_mb : Nat,
              requires_touch : BOOLEAN, is_blocked : BOOLEAN,
              preferred_node : Nat]

Lease == [chunk_id : ChunkId, assigned_worker_id : WorkerId,
          lease_expires_ms : Nat, is_active : BOOLEAN]

ASSUME TableSizes == MAX_SWORKERS \in Nat /\ MAX_SCHUNKS \in Nat
ASSUME Times == LEASE_MS \in Nat /\ MaxTime \in Nat
ASSUME CallerInputs == /\ WorkerViews \subseteq WorkerView
                       /\ ChunkPlans \subseteq ChunkPlan
                       /\ MaxLeasesArgs \subseteq Nat
ASSUME NodeNumbers == NodeNum \in [WorkerId -> Nat]

VARIABLES
  g_workers, g_chunks, g_leases,   \* the three tables, in slot order
  tick,                            \* the locals of the running tick
  clock                            \* the time the next tick is given

vars == <<g_workers, g_chunks, g_leases, tick, clock>>

NoTick == [running |-> FALSE, c |-> 1, now |-> 0, max |-> 0, out |-> <<>>]

-----------------------------------------------------------------------------
WorkerSlots(ws, id) == {i \in DOMAIN ws : ws[i].worker_id = id}
ChunkSlots(id) == {i \in DOMAIN g_chunks : g_chunks[i].chunk_id = id}
ActiveSlots(id) ==
  {l \in DOMAIN g_leases : g_leases[l].chunk_id = id /\ g_leases[l].is_active}
(* Mutant: inactive leases are not looked for. *)
FreeSlots_None(ls) == {}

FreeSlots(ls) == {l \in DOMAIN ls : ~ls[l].is_active}

evaluate_hard_filters(chunk, w) ==
  /\ w.healthy /\ ~w.draining
  /\ w.platform = chunk.required_platform
  /\ w.runtime = chunk.required_runtime
  /\ chunk.requires_touch => w.has_touch_input
  /\ Saturating(w.cpu_units, w.reserv_cpu) >= chunk.required_cpu
  /\ Saturating(w.free_memory_mb, w.reserv_mem_mb) >= chunk.required_memory_mb

(* The score of a worker, times 10 * w.cpu_units so that it is an integer. *)
calculate_worker_score(chunk, w) ==
  400 * (w.cpu_units - w.reserv_cpu)
  + w.cpu_units * ( 30 * w.reliability_score
                    + (IF NodeNum[w.worker_id] = chunk.preferred_node
                         THEN 200 ELSE 0)
                    + (IF w.battery_pct >= 0 THEN w.battery_pct ELSE 100) )

Beats(chunk, v, w) ==
  calculate_worker_score(chunk, v) * w.cpu_units
    > calculate_worker_score(chunk, w) * v.cpu_units

(* The slots the selection loop may end with: past the hard filters and    *)
(* above the initial highest_score of -1.0.  Without CPU units the score   *)
(* is 0/0 or -n/0, and no comparison with NaN or minus infinity succeeds.  *)
Candidates(chunk, ws) ==
  {i \in DOMAIN ws : /\ evaluate_hard_filters(chunk, ws[i])
                     /\ ws[i].cpu_units > 0
                     /\ calculate_worker_score(chunk, ws[i])
                          > -10 * ws[i].cpu_units}

(* The slot the loop does end with: the first of the highest score. *)
Best(chunk, ws) ==
  {i \in Candidates(chunk, ws) :
     \A j \in Candidates(chunk, ws) :
        IF j < i THEN Beats(chunk, ws[i], ws[j])
                 ELSE ~Beats(chunk, ws[j], ws[i])}

Reserve(w, chunk) ==
  [w EXCEPT !.reserv_cpu = (@ + chunk.required_cpu) % UINT8,
            !.reserv_mem_mb = @ + chunk.required_memory_mb,
            !.active_chunks = @ + 1]

(* Mutant: the memory is not given back. *)
GiveBack_NoMemory(w, chunk) ==
  [w EXCEPT !.reserv_cpu = IF @ >= chunk.required_cpu
                             THEN @ - chunk.required_cpu ELSE @,
            !.active_chunks = @ - 1]

(* What giving a lease back does to its worker: each amount only if it is  *)
(* still there to take off.                                                *)
GiveBack(w, chunk) ==
  [w EXCEPT !.reserv_cpu = IF @ >= chunk.required_cpu
                             THEN @ - chunk.required_cpu ELSE @,
            !.reserv_mem_mb = IF @ >= chunk.required_memory_mb
                                THEN @ - chunk.required_memory_mb ELSE @,
            !.active_chunks = @ - 1]

GivenBack(id, chunk) ==
  IF WorkerSlots(g_workers, id) = {} THEN g_workers
  ELSE [g_workers EXCEPT ![First(WorkerSlots(g_workers, id))] =
          GiveBack(@, chunk)]

Deactivated(l) == [g_leases EXCEPT ![l].is_active = FALSE]

(* Where a new lease goes: the first inactive slot, else a new slot, else  *)
(* nowhere.                                                                *)
Recordable(ls) == FreeSlots(ls) # {} \/ Len(ls) < MAX_SCHUNKS
Record(ls, lease) ==
  IF FreeSlots(ls) # {} THEN [ls EXCEPT ![First(FreeSlots(ls))] = lease]
  ELSE IF Len(ls) < MAX_SCHUNKS THEN Append(ls, lease)
  ELSE ls

-----------------------------------------------------------------------------
Init == /\ g_workers = <<>> /\ g_chunks = <<>> /\ g_leases = <<>>
        /\ tick = NoTick
        /\ clock = 0

(* vom_scheduler_init, also called to start over *)
Reset == /\ ~tick.running
         /\ g_workers' = <<>> /\ g_chunks' = <<>> /\ g_leases' = <<>>
         /\ UNCHANGED <<tick, clock>>

register_worker(worker) ==
  LET known == WorkerSlots(g_workers, worker.worker_id)
  IN  /\ ~tick.running
      /\ g_workers' = IF known # {}
                        THEN [g_workers EXCEPT ![First(known)] = worker]
                      ELSE IF Len(g_workers) >= MAX_SWORKERS THEN g_workers
                      ELSE Append(g_workers, worker)
      /\ UNCHANGED <<g_chunks, g_leases, tick, clock>>

submit_ready_chunk(chunk) ==
  LET known == ChunkSlots(chunk.chunk_id)
  IN  /\ ~tick.running
      /\ g_chunks' = IF known # {}
                       THEN [g_chunks EXCEPT ![First(known)] = chunk]
                     ELSE IF Len(g_chunks) >= MAX_SCHUNKS THEN g_chunks
                     ELSE Append(g_chunks, chunk)
      /\ UNCHANGED <<g_workers, g_leases, tick, clock>>

(* The body of release_lease once it found an active lease; a call that    *)
(* finds none changes nothing.                                             *)
release_lease(id) ==
  /\ ~tick.running
  /\ ActiveSlots(id) # {}
  /\ LET l == First(ActiveSlots(id))
     IN  /\ g_leases' = Deactivated(l)
         /\ IF ChunkSlots(id) = {} THEN UNCHANGED <<g_workers, g_chunks>>
            ELSE LET c == First(ChunkSlots(id))
                 IN  /\ g_workers' = GivenBack(g_leases[l].assigned_worker_id,
                                               g_chunks[c])
                     /\ g_chunks' = Remove(g_chunks, c)
  /\ UNCHANGED <<tick, clock>>

-----------------------------------------------------------------------------
TickBegin(max) ==
  /\ ~tick.running
  /\ tick' = [running |-> TRUE, c |-> 1, now |-> clock, max |-> max,
              out |-> <<>>]
  /\ UNCHANGED <<g_workers, g_chunks, g_leases, clock>>

(* Mutant: the loop stops before the last chunk. *)
InLoop_OffByOne == tick.running /\ tick.c < Len(g_chunks) /\ Len(tick.out) < tick.max

InLoop == tick.running /\ tick.c <= Len(g_chunks) /\ Len(tick.out) < tick.max

Current == g_chunks[tick.c]

(* Mutant: a chunk that has a lease is passed over, expired or not. *)
TickSkip_Expired ==
  /\ InLoop
  /\ Current.is_blocked \/ ActiveSlots(Current.chunk_id) # {}
  /\ tick' = [tick EXCEPT !.c = @ + 1]
  /\ UNCHANGED <<g_workers, g_chunks, g_leases, clock>>

(* continue: the chunk is blocked, or its lease has not expired *)
TickSkip ==
  /\ InLoop
  /\ \/ Current.is_blocked
     \/ /\ ActiveSlots(Current.chunk_id) # {}
        /\ tick.now <=
             g_leases[First(ActiveSlots(Current.chunk_id))].lease_expires_ms
  /\ tick' = [tick EXCEPT !.c = @ + 1]
  /\ UNCHANGED <<g_workers, g_chunks, g_leases, clock>>

(* The second half of an iteration, from the tables as the first half      *)
(* leaves them: choose a worker, reserve on it, write the lease down.      *)
Assign(ws, ls) ==
  \/ /\ Best(Current, ws) = {}
     /\ g_workers' = ws /\ g_leases' = ls
     /\ tick' = [tick EXCEPT !.c = @ + 1]
  \/ \E w \in Best(Current, ws) :
       LET lease == [chunk_id |-> Current.chunk_id,
                     assigned_worker_id |-> ws[w].worker_id,
                     lease_expires_ms |-> tick.now + LEASE_MS,
                     is_active |-> TRUE]
       IN  /\ g_workers' = [ws EXCEPT ![w] = Reserve(@, Current)]
           /\ g_leases' = Record(ls, lease)
           /\ tick' = [tick EXCEPT !.c = @ + 1,
                         !.out = IF Recordable(ls) THEN Append(@, lease) ELSE @]

(* Mutant: a lease the chunk has is not looked for. *)
TickAssign_Leased ==
  /\ InLoop /\ ~Current.is_blocked
  /\ Assign(g_workers, g_leases)
  /\ UNCHANGED <<g_chunks, clock>>

TickAssign ==
  /\ InLoop /\ ~Current.is_blocked
  /\ ActiveSlots(Current.chunk_id) = {}
  /\ Assign(g_workers, g_leases)
  /\ UNCHANGED <<g_chunks, clock>>

(* Mutant: the expiry is not looked at. *)
TickReassign_Early ==
  /\ InLoop /\ ~Current.is_blocked
  /\ ActiveSlots(Current.chunk_id) # {}
  /\ LET l == First(ActiveSlots(Current.chunk_id))
     IN  Assign(GivenBack(g_leases[l].assigned_worker_id, Current), Deactivated(l))
  /\ UNCHANGED <<g_chunks, clock>>

(* The lease expired: it is given back, and the chunk is assigned again in *)
(* the same iteration.                                                     *)
TickReassign ==
  /\ InLoop /\ ~Current.is_blocked
  /\ ActiveSlots(Current.chunk_id) # {}
  /\ LET l == First(ActiveSlots(Current.chunk_id))
     IN  /\ tick.now > g_leases[l].lease_expires_ms
         /\ Assign(GivenBack(g_leases[l].assigned_worker_id, Current),
                   Deactivated(l))
  /\ UNCHANGED <<g_chunks, clock>>

TickEnd ==
  /\ tick.running /\ ~InLoop
  /\ tick' = NoTick
  /\ UNCHANGED <<g_workers, g_chunks, g_leases, clock>>

TickStep == TickSkip \/ TickAssign \/ TickReassign \/ TickEnd

(* Time passes for the callers.  A running tick keeps the time it was      *)
(* given, so what passes meanwhile shows only after it.                    *)
Advance == /\ ~tick.running
           /\ clock < MaxTime
           /\ clock' = clock + 1
           /\ UNCHANGED <<g_workers, g_chunks, g_leases, tick>>

Next == \/ Reset
        \/ \E w \in WorkerViews : register_worker(w)
        \/ \E c \in ChunkPlans : submit_ready_chunk(c)
        \/ \E id \in ChunkId : release_lease(id)
        \/ \E m \in MaxLeasesArgs : TickBegin(m)
        \/ TickStep
        \/ Advance

Spec == Init /\ [][Next]_vars

(* Callers that register a worker once, with nothing reserved on it, and   *)
(* never resubmit a chunk that is still in the table.                      *)
FreshView(w) == /\ WorkerSlots(g_workers, w.worker_id) = {}
                /\ w.reserv_cpu = 0 /\ w.reserv_mem_mb = 0
                /\ w.active_chunks = 0

StableNext == \/ Reset
              \/ \E w \in WorkerViews : FreshView(w) /\ register_worker(w)
              \/ \E c \in ChunkPlans : /\ ChunkSlots(c.chunk_id) = {}
                                       /\ submit_ready_chunk(c)
              \/ \E id \in ChunkId : release_lease(id)
              \/ \E m \in MaxLeasesArgs : TickBegin(m)
              \/ TickStep
              \/ Advance

StableSpec == Init /\ [][StableNext]_vars

(* The caller keeps ticking, and a tick that started returns. *)
FairTicks == /\ WF_vars(\E m \in MaxLeasesArgs : TickBegin(m))
             /\ WF_vars(TickStep)

-----------------------------------------------------------------------------
TickType == [running : BOOLEAN, c : Nat \ {0}, now : Nat, max : Nat,
             out : Seq(Lease)]

(* Type invariant: the tables hold records of their types within their     *)
(* capacities; reserv_cpu stays a uint8_t.                                 *)
TypeOK == /\ g_workers \in Seq(WorkerView) /\ Len(g_workers) <= MAX_SWORKERS
          /\ g_chunks \in Seq(ChunkPlan) /\ Len(g_chunks) <= MAX_SCHUNKS
          /\ g_leases \in Seq(Lease) /\ Len(g_leases) <= MAX_SCHUNKS
          /\ tick \in TickType
          /\ clock \in Nat

(* Safety: the linear searches by id have one answer, because no id is     *)
(* entered twice (register_worker, submit_ready_chunk and the memmove of   *)
(* release_lease keep it so).                                              *)
UniqueIds ==
  /\ \A i, j \in DOMAIN g_workers :
       g_workers[i].worker_id = g_workers[j].worker_id => i = j
  /\ \A i, j \in DOMAIN g_chunks :
       g_chunks[i].chunk_id = g_chunks[j].chunk_id => i = j

(* Safety: a chunk is never leased to two workers at once.  The tick looks *)
(* at the first active lease only and trusts this.                         *)
OneActiveLeasePerChunk ==
  \A k, l \in DOMAIN g_leases :
    /\ g_leases[k].is_active /\ g_leases[l].is_active
    /\ g_leases[k].chunk_id = g_leases[l].chunk_id
    => k = l

(* Safety: an active lease is for a chunk that is still in the table, so   *)
(* a tick reaches it when it expires and a release finds its demand.       *)
ActiveLeaseHasChunk ==
  \A l \in DOMAIN g_leases :
    g_leases[l].is_active => ChunkSlots(g_leases[l].chunk_id) # {}

(* Safety: whenever some chunk is not leased there is a slot to write a    *)
(* lease for it, so the tick never reserves on a worker and then drops the *)
(* lease (the case where neither branch of its slot search is taken).      *)
LeaseSlotForEveryChunk ==
  (\E c \in DOMAIN g_chunks : ActiveSlots(g_chunks[c].chunk_id) = {})
    => Recordable(g_leases)

(* The leases active on a worker, and what they hold of it. *)
LeasedTo(w) == {l \in DOMAIN g_leases :
                  /\ g_leases[l].is_active
                  /\ g_leases[l].assigned_worker_id = w.worker_id}
Plan(l) == g_chunks[First(ChunkSlots(g_leases[l].chunk_id))]

LeaseKept(l) ==
  /\ g_leases[l].is_active
  /\ clock <= g_leases[l].lease_expires_ms
  => \/ l \in DOMAIN g_leases' /\ g_leases'[l] = g_leases[l]
     \/ Reset
     \/ release_lease(g_leases[l].chunk_id)

(* Action property: a lease that has not run out ends only by a release of *)
(* its chunk (or a restart); no tick takes it away, moves it to another    *)
(* worker or changes its expiry.                                           *)
LeaseHonoured == [][\A l \in DOMAIN g_leases : LeaseKept(l)]_vars

(* Liveness: a chunk that a tick would assign does not wait for ever.      *)
Waiting(id) ==
  /\ ActiveSlots(id) = {}
  /\ \E c \in ChunkSlots(id) : /\ ~g_chunks[c].is_blocked
                               /\ Candidates(g_chunks[c], g_workers) # {}
NoStarvation == \A id \in ChunkId : []<>~Waiting(id)

(* Liveness: when callers tick, an expired lease does not stay active for  *)
(* ever unless its chunk is blocked.                                       *)
Overdue(l) ==
  /\ l \in DOMAIN g_leases /\ g_leases[l].is_active
  /\ clock > g_leases[l].lease_expires_ms
  /\ \A c \in ChunkSlots(g_leases[l].chunk_id) : ~g_chunks[c].is_blocked
ExpiredLeaseReclaimed == \A l \in 1..MAX_SCHUNKS : []<>~Overdue(l)
=============================================================================
