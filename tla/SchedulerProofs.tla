-------------------------- MODULE SchedulerProofs --------------------------
(***************************************************************************)
(* Proofs about Scheduler for every number of workers and chunks, every    *)
(* table size and every set of caller inputs, and about the check that a   *)
(* plan is a DAG (ChunkPlanner), for plans of any size.                    *)
(***************************************************************************)
EXTENDS MCScheduler, ChunkPlanner, TablesProofs

-----------------------------------------------------------------------------
(* What the helpers of the tick return. *)

(* The types of the fields the reservations use. *)
LEMMA FieldTypes ==
  /\ \A w \in WorkerView : /\ w.reserv_cpu \in 0..(UINT8 - 1)
                           /\ w.reserv_mem_mb \in Nat
                           /\ w.active_chunks \in Int
  /\ \A c \in ChunkPlan : /\ c.required_cpu \in 0..(UINT8 - 1)
                          /\ c.required_memory_mb \in Nat
BY Zenon DEF WorkerView, ChunkPlan

(* The arithmetic of the reservations: uint8_t addition, and subtraction   *)
(* guarded by a comparison.                                                *)
LEMMA U8Add ==
  ASSUME NEW a \in 0..(UINT8 - 1), NEW b \in 0..(UINT8 - 1)
  PROVE  (a + b) % UINT8 \in 0..(UINT8 - 1)
BY DEF UINT8

LEMMA U8Sub ==
  ASSUME NEW a \in 0..(UINT8 - 1), NEW b \in 0..(UINT8 - 1)
  PROVE  (IF a >= b THEN a - b ELSE a) \in 0..(UINT8 - 1)
BY DEF UINT8

(* The reclaim keeps the worker table's type, length and ids. *)
LEMMA GivenBackFacts ==
  ASSUME TypeOK, NEW id, NEW chunk \in ChunkPlan
  PROVE  /\ GivenBack(id, chunk) \in Seq(WorkerView)
         /\ Len(GivenBack(id, chunk)) = Len(g_workers)
         /\ \A i \in DOMAIN g_workers :
              GivenBack(id, chunk)[i].worker_id = g_workers[i].worker_id
<1>1. ASSUME NEW w \in WorkerView
      PROVE  /\ GiveBack(w, chunk) \in WorkerView
             /\ GiveBack(w, chunk).worker_id = w.worker_id
  <2> DEFINE cpu == IF w.reserv_cpu >= chunk.required_cpu
                      THEN w.reserv_cpu - chunk.required_cpu
                      ELSE w.reserv_cpu
             mem == IF w.reserv_mem_mb >= chunk.required_memory_mb
                      THEN w.reserv_mem_mb - chunk.required_memory_mb
                      ELSE w.reserv_mem_mb
  <2>1. cpu \in 0..(UINT8 - 1) /\ mem \in Nat
    BY Zenon, FieldTypes, U8Sub, NatSub
  <2>1a. w.active_chunks - 1 \in Int
    BY FieldTypes
  <2> HIDE DEF cpu, mem
  <2>2. GiveBack(w, chunk) =
          [w EXCEPT !.reserv_cpu = cpu, !.reserv_mem_mb = mem,
                    !.active_chunks = w.active_chunks - 1]
    BY Zenon DEF GiveBack, cpu, mem
  <2> QED BY ZenonT(60), <2>1, <2>1a, <2>2 DEF WorkerView
<1>2. CASE WorkerSlots(g_workers, id) = {}
  BY Zenon, <1>2 DEF GivenBack, TypeOK
<1>3. CASE WorkerSlots(g_workers, id) # {}
  <2> DEFINE f == First(WorkerSlots(g_workers, id))
  <2>1. WorkerSlots(g_workers, id) \subseteq DOMAIN g_workers
    BY Zenon DEF WorkerSlots
  <2>. DOMAIN g_workers \subseteq Nat
    BY DEF TypeOK
  <2>1a. f \in DOMAIN g_workers
    BY Zenon, <1>3, <2>1, FirstIn
  <2>2. GivenBack(id, chunk) = [g_workers EXCEPT ![f] = GiveBack(@, chunk)]
    BY Zenon, <1>3 DEF GivenBack
  <2> HIDE DEF f
  <2> QED BY <1>1, <2>1a, <2>2 DEF TypeOK
<1> QED BY Zenon, <1>2, <1>3

(* A reservation keeps the worker table's type, length and ids. *)
LEMMA ReserveFacts ==
  ASSUME NEW ws \in Seq(WorkerView), NEW w \in DOMAIN ws,
         NEW chunk \in ChunkPlan
  PROVE  LET new == [ws EXCEPT ![w] = Reserve(@, chunk)]
         IN  /\ new \in Seq(WorkerView)
             /\ Len(new) = Len(ws)
             /\ \A i \in DOMAIN ws : new[i].worker_id = ws[i].worker_id
<1>1. ASSUME NEW v \in WorkerView
      PROVE  /\ Reserve(v, chunk) \in WorkerView
             /\ Reserve(v, chunk).worker_id = v.worker_id
  <2> DEFINE cpu == (v.reserv_cpu + chunk.required_cpu) % UINT8
             mem == v.reserv_mem_mb + chunk.required_memory_mb
  <2>1. cpu \in 0..(UINT8 - 1) /\ mem \in Nat
    BY ZenonT(60), FieldTypes, U8Add, NatAdd
  <2>1a. v.active_chunks + 1 \in Int
    BY FieldTypes
  <2> HIDE DEF cpu, mem
  <2>2. Reserve(v, chunk) =
          [v EXCEPT !.reserv_cpu = cpu, !.reserv_mem_mb = mem,
                    !.active_chunks = v.active_chunks + 1]
    BY Zenon DEF Reserve, cpu, mem
  <2> QED BY ZenonT(60), <2>1, <2>1a, <2>2 DEF WorkerView
<1> QED BY <1>1

(* The table new is ls with the lease written into slot p, which was not   *)
(* in use, and the others as they were.                                    *)
Written(new, ls, lease, p) ==
  /\ \A l \in DOMAIN new : IF l = p THEN new[l] = lease
                           ELSE l \in DOMAIN ls /\ new[l] = ls[l]
  /\ p \in DOMAIN ls => ~ls[p].is_active
  /\ Recordable(ls) => p \in DOMAIN new

(* A lease is written into at most one slot and the others stay. *)
LEMMA RecordFacts ==
  ASSUME NEW ls \in Seq(Lease), Len(ls) <= MAX_SCHUNKS, NEW lease \in Lease
  PROVE  /\ Record(ls, lease) \in Seq(Lease)
         /\ Len(Record(ls, lease)) <= MAX_SCHUNKS
         /\ Len(ls) <= Len(Record(ls, lease))
         /\ \E p \in Nat : Written(Record(ls, lease), ls, lease, p)
<1> USE DEF Written
<1>1. CASE FreeSlots(ls) # {}
  <2> DEFINE f == First(FreeSlots(ls))
  <2>1. f \in DOMAIN ls /\ ~ls[f].is_active /\ f \in Nat
    BY SMTT(30), <1>1, FirstIn DEF FreeSlots
  <2>2. Record(ls, lease) = [ls EXCEPT ![f] = lease]
    BY Zenon, <1>1 DEF Record
  <2> HIDE DEF f
  <2> QED BY <2>1, <2>2
<1>2. CASE FreeSlots(ls) = {} /\ Len(ls) < MAX_SCHUNKS
  <2> DEFINE p == Len(ls) + 1
  <2>1. Record(ls, lease) = Append(ls, lease) /\ p \in Nat
    BY <1>2 DEF Record
  <2> QED BY <1>2, <2>1, TableSizes
<1>3. CASE FreeSlots(ls) = {} /\ ~(Len(ls) < MAX_SCHUNKS)
  <2> DEFINE p == Len(ls) + 1
  <2>1. Record(ls, lease) = ls /\ p \in Nat /\ ~Recordable(ls)
    BY <1>3 DEF Record, Recordable
  <2>2. \A l \in DOMAIN ls : l # p
    OBVIOUS
  <2>3. p \notin DOMAIN ls
    OBVIOUS
  <2> HIDE DEF p
  <2> QED BY <2>1, <2>2, <2>3
<1> QED BY Zenon, <1>1, <1>2, <1>3

(* The searches for a lease, a chunk and a worker find what they look for. *)
LEMMA FirstActive ==
  ASSUME TypeOK, NEW id, ActiveSlots(id) # {}
  PROVE  First(ActiveSlots(id)) \in ActiveSlots(id)
<1>1. ActiveSlots(id) \in SUBSET Nat
  BY DEF ActiveSlots, TypeOK
<1> QED BY Zenon, <1>1, FirstIn

LEMMA FirstChunk ==
  ASSUME TypeOK, NEW id, ChunkSlots(id) # {}
  PROVE  First(ChunkSlots(id)) \in ChunkSlots(id)
<1>1. ChunkSlots(id) \in SUBSET Nat
  BY DEF ChunkSlots, TypeOK
<1> QED BY Zenon, <1>1, FirstIn

LEMMA FirstWorker ==
  ASSUME TypeOK, NEW id, WorkerSlots(g_workers, id) # {}
  PROVE  First(WorkerSlots(g_workers, id)) \in WorkerSlots(g_workers, id)
<1>1. WorkerSlots(g_workers, id) \in SUBSET Nat
  BY DEF WorkerSlots, TypeOK
<1> QED BY Zenon, <1>1, FirstIn

-----------------------------------------------------------------------------
(* The inductive invariant: what the tick relies on when it looks at the   *)
(* first active lease of a chunk only.                                     *)
Inv == TypeOK /\ UniqueIds /\ OneActiveLeasePerChunk /\ ActiveLeaseHasChunk

LEMMA InvInit == Init => Inv
BY TableSizes DEF Init, Inv, TypeOK, UniqueIds, OneActiveLeasePerChunk,
   ActiveLeaseHasChunk, TickType, NoTick

(* The lease table after a deactivation: one lease fewer is active. *)
LEMMA DeactivatedFacts ==
  ASSUME TypeOK, NEW l \in DOMAIN g_leases
  PROVE  /\ Deactivated(l) \in Seq(Lease)
         /\ Len(Deactivated(l)) = Len(g_leases)
         /\ \A k \in DOMAIN g_leases :
              /\ Deactivated(l)[k].chunk_id = g_leases[k].chunk_id
              /\ k # l => Deactivated(l)[k] = g_leases[k]
         /\ ~Deactivated(l)[l].is_active
<1> DEFINE off == [g_leases[l] EXCEPT !.is_active = FALSE]
<1>1. /\ off \in Lease
      /\ off.chunk_id = g_leases[l].chunk_id
      /\ ~off.is_active
  <2>1. g_leases[l] \in Lease
    BY DEF TypeOK
  <2> QED BY ZenonT(60), <2>1 DEF Lease
<1>2. Deactivated(l) = [g_leases EXCEPT ![l] = off]
  BY Zenon DEF Deactivated
<1> HIDE DEF off
<1> QED BY <1>1, <1>2 DEF TypeOK

(* A running tick stands at a slot of the chunk table, and moving it on    *)
(* keeps its type.                                                         *)
LEMMA TickAt ==
  ASSUME TypeOK, InLoop
  PROVE  tick.c \in DOMAIN g_chunks /\ Current \in ChunkPlan
<1>1. tick.c \in Nat \ {0} /\ tick.c <= Len(g_chunks)
  BY Zenon DEF TypeOK, TickType, InLoop
<1>2. tick.c \in DOMAIN g_chunks
  BY <1>1 DEF TypeOK
<1> QED BY <1>2 DEF TypeOK, Current

LEMMA TickMoves ==
  ASSUME TypeOK, NEW out \in Seq(Lease)
  PROVE  /\ [tick EXCEPT !.c = @ + 1] \in TickType
         /\ [tick EXCEPT !.c = @ + 1, !.out = out] \in TickType
<1>1. \A n \in Nat \ {0} : n + 1 \in Nat \ {0}
  OBVIOUS
<1>2. tick.c + 1 \in Nat \ {0}
  BY Zenon, <1>1 DEF TypeOK, TickType
<1> QED BY ZenonT(60), <1>2 DEF TypeOK, TickType

(* The lease an assignment writes is one. *)
LEMMA LeaseType ==
  ASSUME TypeOK, InLoop, NEW ws \in Seq(WorkerView), NEW w \in Best(Current, ws)
  PROVE  [chunk_id |-> Current.chunk_id,
          assigned_worker_id |-> ws[w].worker_id,
          lease_expires_ms |-> tick.now + LEASE_MS,
          is_active |-> TRUE] \in Lease
<1>1. Current.chunk_id \in ChunkId
  BY Zenon, TickAt DEF ChunkPlan
<1>2. ws[w].worker_id \in WorkerId
  <2>1. w \in DOMAIN ws
    BY Zenon DEF Best, Candidates
  <2>2. ws[w] \in WorkerView
    BY <2>1
  <2> QED BY Zenon, <2>2 DEF WorkerView
<1>3. tick.now + LEASE_MS \in Nat
  <2>1. tick.now \in Nat
    BY Zenon DEF TypeOK, TickType
  <2> QED BY Zenon, <2>1, NatAdd, Times
<1> QED BY Zenon, <1>1, <1>2, <1>3 DEF Lease

(* The second half of a tick iteration, from any tables ws and ls in which *)
(* the current chunk has no active lease.                                  *)
LEMMA AssignPreserves ==
  ASSUME Inv, InLoop,
         NEW ws \in Seq(WorkerView), Len(ws) = Len(g_workers),
         \A i \in DOMAIN g_workers : ws[i].worker_id = g_workers[i].worker_id,
         NEW ls \in Seq(Lease), Len(ls) = Len(g_leases),
         \A l \in DOMAIN g_leases :
            /\ ls[l].chunk_id = g_leases[l].chunk_id
            /\ ls[l].is_active => /\ g_leases[l].is_active
                                  /\ ls[l].chunk_id # Current.chunk_id,
         Assign(ws, ls), UNCHANGED <<g_chunks, clock>>
  PROVE  Inv'
<1> USE DEF Inv
<1>0. DOMAIN ws = DOMAIN g_workers /\ DOMAIN ls = DOMAIN g_leases
  BY DEF TypeOK
<1>1. Current \in ChunkPlan /\ tick.c \in DOMAIN g_chunks
  BY Zenon, TickAt
<1>2. CASE /\ Best(Current, ws) = {}
           /\ g_workers' = ws /\ g_leases' = ls
           /\ tick' = [tick EXCEPT !.c = @ + 1]
  <2>1. TypeOK'
    BY Zenon, <1>2, TickMoves DEF TypeOK
  <2>2. UniqueIds'
    BY <1>0, <1>2 DEF UniqueIds
  <2>3. OneActiveLeasePerChunk'
    BY <1>0, <1>2 DEF OneActiveLeasePerChunk
  <2>4. ActiveLeaseHasChunk'
    BY <1>0, <1>2 DEF ActiveLeaseHasChunk, ChunkSlots
  <2> QED BY Zenon, <2>1, <2>2, <2>3, <2>4
<1>3. ASSUME NEW w \in Best(Current, ws),
             NEW lease,
             lease = [chunk_id |-> Current.chunk_id,
                      assigned_worker_id |-> ws[w].worker_id,
                      lease_expires_ms |-> tick.now + LEASE_MS,
                      is_active |-> TRUE],
             g_workers' = [ws EXCEPT ![w] = Reserve(@, Current)],
             g_leases' = Record(ls, lease),
             tick' = [tick EXCEPT !.c = @ + 1,
                        !.out = IF Recordable(ls) THEN Append(@, lease) ELSE @]
      PROVE  Inv'
  <2>1. w \in DOMAIN ws
    BY Zenon DEF Best, Candidates
  <2>2. lease \in Lease
    BY ZenonT(60), <1>3, LeaseType
  <2>3. /\ g_workers' \in Seq(WorkerView)
        /\ Len(g_workers') = Len(ws)
        /\ \A i \in DOMAIN ws : g_workers'[i].worker_id = ws[i].worker_id
    BY <1>1, <1>3, <2>1, ReserveFacts
  <2>4. /\ g_leases' \in Seq(Lease)
        /\ Len(g_leases') <= MAX_SCHUNKS
    BY Zenon, <1>3, <2>2, RecordFacts DEF TypeOK
  <2>5. PICK p \in Nat :
          \A l \in DOMAIN g_leases' :
             IF l = p THEN g_leases'[l] = lease
             ELSE l \in DOMAIN ls /\ g_leases'[l] = ls[l]
    <3>1. Len(ls) <= MAX_SCHUNKS
      BY Zenon DEF TypeOK
    <3>2. PICK p \in Nat : Written(Record(ls, lease), ls, lease, p)
      BY Zenon, <2>2, <3>1, RecordFacts
    <3>3. Written(g_leases', ls, lease, p)
      BY Zenon, <1>3, <3>2
    <3> QED BY Zenon, <3>3 DEF Written
  <2>5a. lease.chunk_id = Current.chunk_id
    BY Zenon, <1>3
  <2>6. TypeOK'
    <3>1. (IF Recordable(ls) THEN Append(tick.out, lease) ELSE tick.out)
            \in Seq(Lease)
      BY <2>2 DEF TypeOK, TickType
    <3>2. tick' \in TickType
      BY Zenon, <1>3, <3>1, TickMoves
    <3> QED BY Zenon, <2>3, <2>4, <3>2 DEF TypeOK
  <2>7. UniqueIds'
    BY SMTT(30), <1>0, <2>3 DEF UniqueIds
  <2>8. OneActiveLeasePerChunk'
    BY SMTT(30), <1>0, <2>5, <2>5a DEF OneActiveLeasePerChunk
  <2>9. ActiveLeaseHasChunk'
    BY <1>0, <1>1, <2>5, <2>5a DEF ActiveLeaseHasChunk, ChunkSlots, Current
  <2> QED BY Zenon, <2>6, <2>7, <2>8, <2>9
<1> QED BY Zenon, <1>2, <1>3 DEF Assign

(* Every step keeps the invariant. *)
LEMMA InvNext ==
  ASSUME Inv, [Next]_vars
  PROVE  Inv'
<1> USE DEF Inv
<1>1. CASE UNCHANGED vars
  BY <1>1 DEF vars, TypeOK, UniqueIds, OneActiveLeasePerChunk,
     ActiveLeaseHasChunk, ChunkSlots
<1>2. CASE Reset
  BY <1>2, TableSizes DEF Reset, TypeOK, UniqueIds, OneActiveLeasePerChunk,
     ActiveLeaseHasChunk
<1>3. ASSUME NEW w \in WorkerViews, register_worker(w)
      PROVE  Inv'
  <2> DEFINE known == WorkerSlots(g_workers, w.worker_id)
  <2>1. UNCHANGED <<g_chunks, g_leases, tick, clock>>
    BY Zenon, <1>3 DEF register_worker
  <2>2. OneActiveLeasePerChunk' /\ ActiveLeaseHasChunk'
    BY Zenon, <2>1 DEF OneActiveLeasePerChunk, ActiveLeaseHasChunk, ChunkSlots
  <2>3. w \in WorkerView
    BY Zenon, CallerInputs
  <2>4. CASE known # {}
    <3> DEFINE f == First(known)
    <3>1. f \in DOMAIN g_workers /\ g_workers[f].worker_id = w.worker_id
      BY Zenon, <2>4, FirstWorker DEF WorkerSlots
    <3>2. g_workers' = [g_workers EXCEPT ![f] = w]
      BY Zenon, <1>3, <2>4 DEF register_worker
    <3> HIDE DEF f, known
    <3>3. TypeOK'
      BY <2>1, <2>3, <3>1, <3>2 DEF TypeOK
    <3>4. UniqueIds'
      BY <2>1, <3>1, <3>2 DEF UniqueIds, TypeOK
    <3> QED BY Zenon, <2>2, <3>3, <3>4
  <2>5. CASE known = {} /\ Len(g_workers) >= MAX_SWORKERS
    <3>1. UNCHANGED vars
      BY Zenon, <1>3, <2>1, <2>5 DEF register_worker, vars
    <3> QED BY Zenon, <1>1, <3>1
  <2>6. CASE known = {} /\ ~(Len(g_workers) >= MAX_SWORKERS)
    <3>1. g_workers' = Append(g_workers, w)
      BY Zenon, <1>3, <2>6 DEF register_worker
    <3>2. \A i \in DOMAIN g_workers : g_workers[i].worker_id # w.worker_id
      BY Zenon, <2>6 DEF WorkerSlots
    <3>3. TypeOK'
      BY <2>1, <2>3, <2>6, <3>1, TableSizes DEF TypeOK
    <3>4. UniqueIds'
      BY <2>1, <3>1, <3>2 DEF UniqueIds, TypeOK
    <3> QED BY Zenon, <2>2, <3>3, <3>4
  <2> QED BY Zenon, <2>4, <2>5, <2>6
<1>4. ASSUME NEW c \in ChunkPlans, submit_ready_chunk(c)
      PROVE  Inv'
  <2> DEFINE known == ChunkSlots(c.chunk_id)
  <2>1. UNCHANGED <<g_workers, g_leases, tick, clock>>
    BY Zenon, <1>4 DEF submit_ready_chunk
  <2>2. OneActiveLeasePerChunk'
    BY Zenon, <2>1 DEF OneActiveLeasePerChunk
  <2>3. c \in ChunkPlan
    BY Zenon, CallerInputs
  <2>4. CASE known # {}
    <3> DEFINE f == First(known)
    <3>1. f \in DOMAIN g_chunks /\ g_chunks[f].chunk_id = c.chunk_id
      BY ZenonT(60), <2>4, FirstChunk DEF ChunkSlots
    <3>2. g_chunks' = [g_chunks EXCEPT ![f] = c]
      BY Zenon, <1>4, <2>4 DEF submit_ready_chunk
    <3> HIDE DEF f, known
    <3>3. TypeOK'
      BY <2>1, <2>3, <3>1, <3>2 DEF TypeOK
    <3>4. /\ DOMAIN g_chunks' = DOMAIN g_chunks
          /\ \A i \in DOMAIN g_chunks : g_chunks'[i].chunk_id = g_chunks[i].chunk_id
      BY Zenon, <3>1, <3>2 DEF TypeOK
    <3>5. UniqueIds'
      BY Zenon, <2>1, <3>4 DEF UniqueIds
    <3>6. ActiveLeaseHasChunk'
      BY <2>1, <3>4 DEF ActiveLeaseHasChunk, ChunkSlots
    <3> QED BY Zenon, <2>2, <3>3, <3>5, <3>6
  <2>5. CASE known = {} /\ Len(g_chunks) >= MAX_SCHUNKS
    <3>1. UNCHANGED vars
      BY Zenon, <1>4, <2>1, <2>5 DEF submit_ready_chunk, vars
    <3> QED BY Zenon, <1>1, <3>1
  <2>6. CASE known = {} /\ ~(Len(g_chunks) >= MAX_SCHUNKS)
    <3>1. g_chunks' = Append(g_chunks, c)
      BY Zenon, <1>4, <2>6 DEF submit_ready_chunk
    <3>2. \A i \in DOMAIN g_chunks : g_chunks[i].chunk_id # c.chunk_id
      BY Zenon, <2>6 DEF ChunkSlots
    <3>3. TypeOK'
      BY <2>1, <2>3, <2>6, <3>1, TableSizes DEF TypeOK
    <3>4. UniqueIds'
      BY <2>1, <3>1, <3>2 DEF UniqueIds, TypeOK
    <3>5. \A i \in DOMAIN g_chunks :
             i \in DOMAIN g_chunks' /\ g_chunks'[i] = g_chunks[i]
      BY <3>1 DEF TypeOK
    <3>6. ActiveLeaseHasChunk'
      BY <2>1, <3>5 DEF ActiveLeaseHasChunk, ChunkSlots
    <3> QED BY Zenon, <2>2, <3>3, <3>4, <3>6
  <2> QED BY Zenon, <2>4, <2>5, <2>6
<1>5. ASSUME NEW id \in ChunkId, release_lease(id)
      PROVE  Inv'
  <2> DEFINE l == First(ActiveSlots(id))
             c == First(ChunkSlots(id))
  <2>1. /\ l \in DOMAIN g_leases
        /\ g_leases[l].is_active /\ g_leases[l].chunk_id = id
    BY Zenon, <1>5, FirstActive DEF release_lease, ActiveSlots
  <2>2. ChunkSlots(id) # {}
    BY Zenon, <2>1 DEF ActiveLeaseHasChunk
  <2>3. c \in DOMAIN g_chunks /\ g_chunks[c].chunk_id = id
    BY Zenon, <2>2, FirstChunk DEF ChunkSlots
  <2>4. /\ g_leases' = Deactivated(l)
        /\ g_workers' = GivenBack(g_leases[l].assigned_worker_id, g_chunks[c])
        /\ g_chunks' = Remove(g_chunks, c)
        /\ UNCHANGED <<tick, clock>>
    BY Zenon, <1>5, <2>2 DEF release_lease
  <2> HIDE DEF l, c
  <2>5. g_chunks[c] \in ChunkPlan
    BY <2>3 DEF TypeOK
  <2>6. /\ g_workers' \in Seq(WorkerView)
        /\ Len(g_workers') = Len(g_workers)
        /\ \A i \in DOMAIN g_workers :
              g_workers'[i].worker_id = g_workers[i].worker_id
    BY Zenon, <2>4, <2>5, GivenBackFacts
  <2>7. /\ g_leases' \in Seq(Lease)
        /\ Len(g_leases') = Len(g_leases)
        /\ \A k \in DOMAIN g_leases :
              /\ g_leases'[k].chunk_id = g_leases[k].chunk_id
              /\ k # l => g_leases'[k] = g_leases[k]
        /\ ~g_leases'[l].is_active
    BY Zenon, <2>1, <2>4, DeactivatedFacts
  <2>8. /\ g_chunks' \in Seq(ChunkPlan)
        /\ Len(g_chunks') = Len(g_chunks) - 1
        /\ \A i \in DOMAIN g_chunks : i < c => g_chunks'[i] = g_chunks[i]
        /\ \A i \in DOMAIN g_chunks : i > c => g_chunks'[i - 1] = g_chunks[i]
        /\ \A i \in 1..(Len(g_chunks) - 1) :
              g_chunks'[i] = IF i < c THEN g_chunks[i] ELSE g_chunks[i + 1]
    BY ZenonT(60), <2>3, <2>4, RemoveType DEF TypeOK
  <2>9. TypeOK'
    <3>1. Len(g_chunks') <= MAX_SCHUNKS
      BY <2>8, TableSizes DEF TypeOK
    <3> QED BY Zenon, <2>4, <2>6, <2>7, <2>8, <3>1 DEF TypeOK
  <2>10. DOMAIN g_workers' = DOMAIN g_workers /\ DOMAIN g_leases' = DOMAIN g_leases
    BY <2>6, <2>7 DEF TypeOK
  <2>11. UniqueIds'
    <3>1. ASSUME NEW i \in DOMAIN g_chunks', NEW j \in DOMAIN g_chunks',
                 g_chunks'[i].chunk_id = g_chunks'[j].chunk_id
          PROVE  i = j
      <4> DEFINE up(k) == IF k < c THEN k ELSE k + 1
      <4>1. \A k \in DOMAIN g_chunks' :
              up(k) \in DOMAIN g_chunks /\ g_chunks'[k] = g_chunks[up(k)]
        <5>1. DOMAIN g_chunks' = 1..(Len(g_chunks) - 1)
          BY <2>8 DEF TypeOK
        <5>2. DOMAIN g_chunks = 1..Len(g_chunks) /\ Len(g_chunks) \in Nat /\ c \in Nat
          BY <2>3 DEF TypeOK
        <5>3. \A k \in 1..(Len(g_chunks) - 1) :
                g_chunks'[k] = IF k < c THEN g_chunks[k] ELSE g_chunks[k + 1]
          BY Zenon, <2>8
        <5> QED BY <5>1, <5>2, <5>3
      <4>2. up(i) = up(j)
        BY <3>1, <4>1 DEF UniqueIds
      <4>3. i \in Int /\ j \in Int /\ c \in Int
        BY <2>3, <2>8 DEF TypeOK
      <4> QED BY <4>2, <4>3
    <3>2. ASSUME NEW i \in DOMAIN g_workers', NEW j \in DOMAIN g_workers',
                 g_workers'[i].worker_id = g_workers'[j].worker_id
          PROVE  i = j
      BY Zenon, <2>6, <2>10, <3>2 DEF UniqueIds
    <3> QED BY Zenon, <3>1, <3>2 DEF UniqueIds
  <2>12. OneActiveLeasePerChunk'
    BY Zenon, <2>7, <2>10 DEF OneActiveLeasePerChunk
  <2>13. ActiveLeaseHasChunk'
    <3> SUFFICES ASSUME NEW k \in DOMAIN g_leases', g_leases'[k].is_active
                 PROVE  \E i \in DOMAIN g_chunks' :
                          g_chunks'[i].chunk_id = g_leases'[k].chunk_id
      BY Zenon DEF ActiveLeaseHasChunk, ChunkSlots
    <3>1. k # l /\ k \in DOMAIN g_leases /\ g_leases'[k] = g_leases[k]
      BY Zenon, <2>7, <2>10
    <3>2. g_leases[k].chunk_id # id
      BY Zenon, <2>1, <3>1 DEF OneActiveLeasePerChunk
    <3>3. PICK i \in DOMAIN g_chunks : g_chunks[i].chunk_id = g_leases[k].chunk_id
      BY Zenon, <3>1 DEF ActiveLeaseHasChunk, ChunkSlots
    <3>4. i # c
      BY Zenon, <2>3, <3>2, <3>3
    <3>5. CASE i < c
      <4>1. i \in DOMAIN g_chunks' /\ g_chunks'[i] = g_chunks[i]
        BY <2>3, <2>8, <3>5 DEF TypeOK
      <4> QED BY Zenon, <3>1, <3>3, <4>1
    <3>6. CASE i > c
      <4>1. i - 1 \in DOMAIN g_chunks' /\ g_chunks'[i - 1] = g_chunks[i]
        BY <2>3, <2>8, <3>6 DEF TypeOK
      <4> QED BY Zenon, <3>1, <3>3, <4>1
    <3> QED BY <2>3, <3>4, <3>5, <3>6 DEF TypeOK
  <2> QED BY Zenon, <2>9, <2>11, <2>12, <2>13
<1>6. ASSUME NEW m \in MaxLeasesArgs, TickBegin(m)
      PROVE  Inv'
  <2>1. tick' \in TickType
    <3>1. m \in Nat /\ clock \in Nat /\ <<>> \in Seq(Lease)
      BY CallerInputs DEF TypeOK
    <3> QED BY <1>6, <3>1 DEF TickBegin, TickType
  <2> QED BY Zenon, <1>6, <2>1 DEF TickBegin, TypeOK, UniqueIds,
         OneActiveLeasePerChunk, ActiveLeaseHasChunk, ChunkSlots
<1>7. CASE TickSkip
  <2>1. tick' \in TickType
    <3>1. tick.out \in Seq(Lease)
      BY Zenon DEF TypeOK, TickType
    <3> QED BY Zenon, <1>7, <3>1, TickMoves DEF TickSkip
  <2> QED BY <1>7, <2>1 DEF TickSkip, TypeOK, UniqueIds,
         OneActiveLeasePerChunk, ActiveLeaseHasChunk, ChunkSlots
<1>8. CASE TickAssign
  <2>1. \A l \in DOMAIN g_leases :
           g_leases[l].is_active => g_leases[l].chunk_id # Current.chunk_id
    BY Zenon, <1>8 DEF TickAssign, ActiveSlots
  <2>2. g_workers \in Seq(WorkerView) /\ g_leases \in Seq(Lease)
    BY Zenon DEF TypeOK
  <2>3. /\ InLoop
        /\ Assign(g_workers, g_leases)
        /\ UNCHANGED <<g_chunks, clock>>
    BY Zenon, <1>8 DEF TickAssign
  <2> QED BY Zenon, <2>1, <2>2, <2>3, AssignPreserves
<1>9. CASE TickReassign
  <2> DEFINE l == First(ActiveSlots(Current.chunk_id))
             ws == GivenBack(g_leases[l].assigned_worker_id, Current)
             ls == Deactivated(l)
  <2>1. InLoop /\ ActiveSlots(Current.chunk_id) # {}
    BY Zenon, <1>9 DEF TickReassign
  <2>2. Assign(ws, ls) /\ UNCHANGED <<g_chunks, clock>>
    BY Zenon, <1>9 DEF TickReassign
  <2>3. /\ l \in DOMAIN g_leases
        /\ g_leases[l].is_active /\ g_leases[l].chunk_id = Current.chunk_id
    BY ZenonT(60), <2>1, FirstActive DEF ActiveSlots
  <2>4. Current \in ChunkPlan
    BY Zenon, <2>1, TickAt
  <2>5. /\ ws \in Seq(WorkerView)
        /\ Len(ws) = Len(g_workers)
        /\ \A i \in DOMAIN g_workers : ws[i].worker_id = g_workers[i].worker_id
    BY Zenon, <2>4, GivenBackFacts
  <2>6. /\ ls \in Seq(Lease)
        /\ Len(ls) = Len(g_leases)
        /\ \A k \in DOMAIN g_leases :
              /\ ls[k].chunk_id = g_leases[k].chunk_id
              /\ k # l => ls[k] = g_leases[k]
        /\ ~ls[l].is_active
    BY Zenon, <2>3, DeactivatedFacts
  <2> HIDE DEF l, ws, ls
  <2>7. \A k \in DOMAIN g_leases :
          /\ ls[k].chunk_id = g_leases[k].chunk_id
          /\ ls[k].is_active => /\ g_leases[k].is_active
                                /\ ls[k].chunk_id # Current.chunk_id
    BY Zenon, <2>3, <2>6 DEF OneActiveLeasePerChunk
  <2> QED BY Zenon, <2>1, <2>2, <2>5, <2>6, <2>7, AssignPreserves
<1>10. CASE TickEnd
  BY <1>10 DEF TickEnd, NoTick, TypeOK, TickType, UniqueIds,
     OneActiveLeasePerChunk, ActiveLeaseHasChunk, ChunkSlots
<1>11. CASE Advance
  BY <1>11 DEF Advance, TypeOK, UniqueIds,
     OneActiveLeasePerChunk, ActiveLeaseHasChunk, ChunkSlots
<1> QED BY Zenon, <1>1, <1>2, <1>3, <1>4, <1>5, <1>6, <1>7, <1>8, <1>9, <1>10, <1>11
       DEF Next, TickStep

(* The tables stay typed and within their capacities whatever the callers  *)
(* do, and reserv_cpu stays a uint8_t.                                     *)
THEOREM TypeCorrect == Spec => []TypeOK
<1>1. Inv => TypeOK
  BY Zenon DEF Inv
<1> QED BY InvInit, InvNext, <1>1, PTL DEF Spec

(* No chunk is ever leased to two workers at once. *)
THEOREM LeasesExclusive == Spec => []OneActiveLeasePerChunk
<1>1. Inv => OneActiveLeasePerChunk
  BY Zenon DEF Inv
<1> QED BY InvInit, InvNext, <1>1, PTL DEF Spec

(* An active lease always has its chunk in the table, so the tick finds it *)
(* when it expires and the release finds what to give back.                *)
THEOREM LeasesHaveChunks == Spec => []ActiveLeaseHasChunk
<1>1. Inv => ActiveLeaseHasChunk
  BY Zenon DEF Inv
<1> QED BY InvInit, InvNext, <1>1, PTL DEF Spec

(* The pigeonhole: the active leases are for distinct chunks of the table, *)
(* none of them the unleased one, and both tables have MAX_SCHUNKS slots.  *)
LEMMA SlotFree ==
  ASSUME Inv
  PROVE  LeaseSlotForEveryChunk
<1> SUFFICES ASSUME NEW c \in DOMAIN g_chunks,
                    ActiveSlots(g_chunks[c].chunk_id) = {},
                    ~Recordable(g_leases)
             PROVE  FALSE
  BY Zenon DEF LeaseSlotForEveryChunk
<1> DEFINE N == Len(g_leases)
           M == Len(g_chunks)
           S == 1..N
           T == (1..M) \ {c}
           slot(l) == First(ChunkSlots(g_leases[l].chunk_id))
           f == [l \in S |-> slot(l)]
<1>1. /\ N \in Nat /\ M \in Nat /\ N = MAX_SCHUNKS /\ M <= MAX_SCHUNKS
      /\ DOMAIN g_leases = S /\ DOMAIN g_chunks = 1..M
      /\ c \in 1..M
  BY TableSizes DEF Inv, TypeOK, Recordable
<1>2. \A l \in S : g_leases[l].is_active
  BY Zenon, <1>1 DEF Recordable, FreeSlots
<1>3. \A l \in S : /\ slot(l) \in 1..M
                   /\ g_chunks[slot(l)].chunk_id = g_leases[l].chunk_id
  <2> TAKE l \in S
  <2>1. ChunkSlots(g_leases[l].chunk_id) # {}
    BY Zenon, <1>1, <1>2 DEF Inv, ActiveLeaseHasChunk
  <2>2. slot(l) \in ChunkSlots(g_leases[l].chunk_id)
    BY Zenon, <2>1, FirstChunk DEF Inv
  <2> QED BY Zenon, <1>1, <2>2 DEF ChunkSlots
<1>4. \A l \in S : slot(l) # c
  <2> TAKE l \in S
  <2>1. g_leases[l].chunk_id # g_chunks[c].chunk_id
    BY Zenon, <1>1, <1>2 DEF ActiveSlots
  <2> QED BY Zenon, <1>3, <2>1
<1> HIDE DEF slot, N, M
<1>5. f \in [S -> T]
  BY Zenon, <1>3, <1>4
<1>6. /\ IsFiniteSet(S) /\ Cardinality(S) = N
      /\ IsFiniteSet(1..M) /\ Cardinality(1..M) = M
  <2>1. M >= 1
    BY <1>1
  <2> QED BY <1>1, <2>1, FS_Interval
<1>7. IsFiniteSet(T) /\ Cardinality(T) = M - 1
  BY ZenonT(60), <1>1, <1>6, FS_RemoveElement
<1>8. PICK k, l \in S : k # l /\ f[k] = f[l]
  <2>1. Cardinality(T) < Cardinality(S)
    BY <1>1, <1>6, <1>7, TableSizes
  <2> HIDE DEF f, S, T
  <2> QED BY <1>5, <1>6, <1>7, <2>1, FS_PigeonHole
<1>9. slot(k) = slot(l)
  BY Zenon, <1>8
<1>10. g_leases[k].chunk_id = g_leases[l].chunk_id
  BY Zenon, <1>3, <1>9
<1> QED BY Zenon, <1>1, <1>2, <1>8, <1>10 DEF Inv, OneActiveLeasePerChunk

(* A tick never reserves on a worker without a slot for the lease, for any *)
(* MAX_SCHUNKS.                                                            *)
THEOREM SlotAlwaysFree == Spec => []LeaseSlotForEveryChunk
<1>1. Inv => LeaseSlotForEveryChunk
  BY Zenon, SlotFree
<1> QED BY InvInit, InvNext, <1>1, PTL DEF Spec

(* The time a tick was given is not after the callers' clock. *)
TickTimePast == tick.now <= clock

LEMMA TickTimeNext ==
  ASSUME TypeOK, TickTimePast, [Next]_vars
  PROVE  TickTimePast'
<1>1. clock \in Nat /\ tick.now \in Nat
  BY Zenon DEF TypeOK, TickType
<1>2. clock' = clock \/ clock' = clock + 1
  BY Zenon DEF Next, vars, Reset, register_worker, submit_ready_chunk, release_lease,
     TickBegin, TickStep, TickSkip, TickAssign, TickReassign, TickEnd, Advance
<1>3. tick'.now = tick.now \/ tick'.now = clock \/ tick'.now = 0
  <2>1. CASE TickAssign \/ TickReassign
    <3>1. \E ws, ls : Assign(ws, ls)
      BY Zenon, <2>1 DEF TickAssign, TickReassign
    <3> QED BY Zenon, <3>1 DEF Assign, TypeOK, TickType
  <2>2. CASE TickSkip
    BY Zenon, <2>2 DEF TickSkip, TypeOK, TickType
  <2> QED BY <2>1, <2>2 DEF Next, vars, Reset, register_worker,
         submit_ready_chunk, release_lease, TickBegin, TickStep, TickEnd,
         NoTick, Advance
<1> QED BY <1>1, <1>2, <1>3 DEF TickTimePast

(* What an assignment does to the active leases it finds: nothing. *)
LEMMA AssignKeeps ==
  ASSUME TypeOK, InLoop,
         NEW ws \in Seq(WorkerView),
         NEW ls \in Seq(Lease), Len(ls) <= MAX_SCHUNKS,
         Assign(ws, ls),
         NEW l \in DOMAIN ls, ls[l].is_active
  PROVE  l \in DOMAIN g_leases' /\ g_leases'[l] = ls[l]
<1>1. CASE g_leases' = ls
  BY Zenon, <1>1
<1>2. ASSUME NEW w \in Best(Current, ws),
             NEW lease,
             lease = [chunk_id |-> Current.chunk_id,
                      assigned_worker_id |-> ws[w].worker_id,
                      lease_expires_ms |-> tick.now + LEASE_MS,
                      is_active |-> TRUE],
             g_leases' = Record(ls, lease)
      PROVE  l \in DOMAIN g_leases' /\ g_leases'[l] = ls[l]
  <2>1. lease \in Lease
    BY ZenonT(60), <1>2, LeaseType
  <2>2. /\ Record(ls, lease) \in Seq(Lease)
        /\ Len(ls) <= Len(Record(ls, lease))
    BY Zenon, <2>1, RecordFacts
  <2>3. PICK p \in Nat : Written(Record(ls, lease), ls, lease, p)
    BY Zenon, <2>1, RecordFacts
  <2>4. l \in DOMAIN Record(ls, lease) /\ l # p
    BY <2>2, <2>3 DEF Written
  <2>5. Record(ls, lease)[l] = ls[l]
    BY Zenon, <2>3, <2>4 DEF Written
  <2> QED BY Zenon, <1>2, <2>4, <2>5
<1> QED BY Zenon, <1>1, <1>2 DEF Assign

(* A lease that has not expired is ended by a release or a restart only.   *)
LEMMA HonouredNext ==
  ASSUME Inv, TickTimePast, [Next]_vars, NEW l \in DOMAIN g_leases
  PROVE  LeaseKept(l)
<1> SUFFICES ASSUME g_leases[l].is_active,
                    clock <= g_leases[l].lease_expires_ms,
                    ~Reset, ~release_lease(g_leases[l].chunk_id)
             PROVE  l \in DOMAIN g_leases' /\ g_leases'[l] = g_leases[l]
  BY Zenon DEF LeaseKept
<1>0. TypeOK
  BY Zenon DEF Inv
<1>1. CASE g_leases' = g_leases
  BY Zenon, <1>1
<1>2. ASSUME NEW id \in ChunkId, release_lease(id)
      PROVE  l \in DOMAIN g_leases' /\ g_leases'[l] = g_leases[l]
  <2> DEFINE k == First(ActiveSlots(id))
  <2>1. k \in DOMAIN g_leases /\ g_leases[k].chunk_id = id
    BY ZenonT(60), <1>0, <1>2, FirstActive DEF release_lease, ActiveSlots
  <2>2. g_leases' = Deactivated(k)
    BY Zenon, <1>2 DEF release_lease
  <2>3. k # l
    BY Zenon, <1>2, <2>1
  <2> HIDE DEF k
  <2> QED BY <1>0, <2>1, <2>2, <2>3, DeactivatedFacts DEF TypeOK
<1>3. CASE TickAssign
  <2>1. InLoop /\ Assign(g_workers, g_leases)
    BY Zenon, <1>3 DEF TickAssign
  <2> QED BY Zenon, <1>0, <2>1, AssignKeeps DEF TypeOK
<1>4. CASE TickReassign
  <2> DEFINE k == First(ActiveSlots(Current.chunk_id))
             ws == GivenBack(g_leases[k].assigned_worker_id, Current)
  <2>1. /\ InLoop /\ ActiveSlots(Current.chunk_id) # {}
        /\ tick.now > g_leases[k].lease_expires_ms
        /\ Assign(ws, Deactivated(k))
    BY Zenon, <1>4 DEF TickReassign
  <2>2. k \in DOMAIN g_leases
    BY ZenonT(60), <1>0, <2>1, FirstActive DEF ActiveSlots
  <2>3. ws \in Seq(WorkerView)
    BY Zenon, <1>0, <2>1, TickAt, GivenBackFacts
  <2> HIDE DEF k, ws
  <2>4. k # l
    <3>1. /\ clock \in Nat /\ tick.now \in Nat
          /\ g_leases[k].lease_expires_ms \in Nat
      <4>1. g_leases[k] \in Lease
        BY <1>0, <2>2 DEF TypeOK
      <4> QED BY Zenon, <1>0, <4>1 DEF TypeOK, TickType, Lease
    <3> QED BY <2>1, <3>1 DEF TickTimePast
  <2>5. /\ Deactivated(k) \in Seq(Lease)
        /\ Len(Deactivated(k)) <= MAX_SCHUNKS
        /\ l \in DOMAIN Deactivated(k)
        /\ Deactivated(k)[l] = g_leases[l]
    BY <1>0, <2>2, <2>4, DeactivatedFacts DEF TypeOK
  <2> QED BY Zenon, <1>0, <2>1, <2>3, <2>5, AssignKeeps
<1> QED BY Zenon, <1>1, <1>2, <1>3, <1>4 DEF Next, vars, register_worker,
       submit_ready_chunk, TickBegin, TickStep, TickSkip, TickEnd, Advance

(* No tick takes an unexpired lease away or moves it, on any run. *)
THEOREM UnexpiredLeasesHonoured == Spec => LeaseHonoured
<1>1. Init => TickTimePast
  BY DEF Init, TickTimePast, NoTick
<1>2. Inv /\ TickTimePast /\ [Next]_vars => TickTimePast'
  BY Zenon, TickTimeNext DEF Inv
<1>3. Inv /\ TickTimePast /\ [Next]_vars
        => [\A l \in DOMAIN g_leases : LeaseKept(l)]_vars
  BY Zenon, HonouredNext
<1> QED BY InvInit, InvNext, <1>1, <1>2, <1>3, PTL DEF Spec, LeaseHonoured

-----------------------------------------------------------------------------
(* The reservations.  What the leases add up to is stated for any worker   *)
(* and lease tables ws and ls, because a tick iteration that reclaims a    *)
(* lease goes on from tables that are not yet those of a state; P[id] is   *)
(* the plan of chunk id.                                                   *)
Held(ls, id) ==
  {l \in DOMAIN ls : ls[l].is_active /\ ls[l].assigned_worker_id = id}
CpuOf(ls, P) == [l \in DOMAIN ls |-> P[ls[l].chunk_id].required_cpu]
MemoryOf(ls, P) == [l \in DOMAIN ls |-> P[ls[l].chunk_id].required_memory_mb]

(* The amounts f and g of the leases L are what is reserved on w. *)
Fits(w, f, g, L) ==
  /\ w.reserv_cpu = Total(f, L) /\ Total(f, L) <= w.cpu_units
  /\ w.reserv_mem_mb = Total(g, L) /\ Total(g, L) <= w.free_memory_mb
  /\ w.active_chunks = Cardinality(L)

Balanced(ws, ls, P) ==
  \A i \in DOMAIN ws :
    Fits(ws[i], CpuOf(ls, P), MemoryOf(ls, P), Held(ls, ws[i].worker_id))

(* Every active lease is for a chunk that has a plan. *)
Planned(ls, P) ==
  \A l \in DOMAIN ls : ls[l].is_active => P[ls[l].chunk_id] \in ChunkPlan

(* The amounts held by active leases are numbers. *)
LEMMA HeldFacts ==
  ASSUME NEW ls \in Seq(Lease), NEW P, Planned(ls, P), NEW id
  PROVE  /\ IsFiniteSet(Held(ls, id))
         /\ \A l \in Held(ls, id) : /\ CpuOf(ls, P)[l] \in Nat
                                    /\ MemoryOf(ls, P)[l] \in Nat
<1>1. DOMAIN ls = 1..Len(ls) /\ Len(ls) \in Nat
  OBVIOUS
<1>2. IsFiniteSet(DOMAIN ls)
  BY <1>1, FS_Interval
<1>3. Held(ls, id) \subseteq DOMAIN ls
  BY Zenon DEF Held
<1>4. IsFiniteSet(Held(ls, id))
  BY Zenon, <1>2, <1>3, FS_Subset
<1>5. ASSUME NEW l \in Held(ls, id)
      PROVE  CpuOf(ls, P)[l] \in Nat /\ MemoryOf(ls, P)[l] \in Nat
  <2>1. l \in DOMAIN ls /\ P[ls[l].chunk_id] \in ChunkPlan
    BY Zenon DEF Held, Planned
  <2>2. /\ P[ls[l].chunk_id].required_cpu \in 0..(UINT8 - 1)
        /\ P[ls[l].chunk_id].required_memory_mb \in Nat
    BY Zenon, <2>1, FieldTypes
  <2> QED BY <2>1, <2>2 DEF CpuOf, MemoryOf
<1> QED BY Zenon, <1>4, <1>5

(* A worker that passed the hard filters has room for one more. *)
LEMMA FitsOneMore ==
  ASSUME NEW w \in WorkerView, NEW chunk \in ChunkPlan,
         evaluate_hard_filters(chunk, w),
         NEW f, NEW g, NEW L, IsFiniteSet(L),
         \A l \in L : f[l] \in Nat /\ g[l] \in Nat,
         Fits(w, f, g, L),
         NEW y, y \notin L, f[y] = chunk.required_cpu,
         g[y] = chunk.required_memory_mb
  PROVE  Fits(Reserve(w, chunk), f, g, L \cup {y})
<1> DEFINE a == w.reserv_cpu
           b == chunk.required_cpu
           m == w.reserv_mem_mb
           n == chunk.required_memory_mb
<1>1. /\ a \in 0..(UINT8 - 1) /\ b \in 0..(UINT8 - 1)
      /\ w.cpu_units \in 0..(UINT8 - 1)
      /\ m \in Nat /\ n \in Nat /\ w.free_memory_mb \in Nat
  BY Zenon, FieldTypes DEF WorkerView
<1>2. /\ Saturating(w.cpu_units, a) >= b
      /\ Saturating(w.free_memory_mb, m) >= n
  BY Zenon DEF evaluate_hard_filters
<1>3. /\ a = Total(f, L) /\ a <= w.cpu_units
      /\ m = Total(g, L) /\ m <= w.free_memory_mb
      /\ w.active_chunks = Cardinality(L)
  BY Zenon DEF Fits
<1>4. /\ Total(f, L \cup {y}) = a + b
      /\ Total(g, L \cup {y}) = m + n
  <2>1. f[y] \in Nat /\ g[y] \in Nat
    BY <1>1
  <2>2. /\ Total(f, L \cup {y}) = Total(f, L) + f[y]
        /\ Total(g, L \cup {y}) = Total(g, L) + g[y]
    BY <2>1, TotalAdd, ZenonT(60)
  <2> QED BY Zenon, <1>3, <2>2
<1>5. Cardinality(L \cup {y}) = w.active_chunks + 1
  BY ZenonT(60), <1>3, FS_AddElement
<1>6. /\ Reserve(w, chunk).reserv_cpu = (a + b) % UINT8
      /\ Reserve(w, chunk).reserv_mem_mb = m + n
      /\ Reserve(w, chunk).active_chunks = w.active_chunks + 1
      /\ Reserve(w, chunk).cpu_units = w.cpu_units
      /\ Reserve(w, chunk).free_memory_mb = w.free_memory_mb
  BY Zenon DEF Reserve, WorkerView
<1> HIDE DEF a, b, m, n
<1>7. a + b <= w.cpu_units /\ (a + b) % UINT8 = a + b
  <2>1. a \in Nat /\ b \in Nat /\ w.cpu_units \in Nat /\ w.cpu_units < 256
    BY <1>1 DEF UINT8
  <2>2. a + b <= w.cpu_units
    BY <1>2, <1>3, <2>1 DEF Saturating
  <2>3. \A k \in 0..255 : k % 256 = k
    OBVIOUS
  <2>4. a + b \in 0..255
    BY <2>1, <2>2
  <2> QED BY Zenon, <2>2, <2>3, <2>4 DEF UINT8
<1>8. m + n <= w.free_memory_mb
  BY <1>1, <1>2, <1>3 DEF Saturating
<1> QED BY Zenon, <1>4, <1>5, <1>6, <1>7, <1>8 DEF Fits

(* Giving back what one of the leases holds takes off exactly that. *)
LEMMA FitsOneLess ==
  ASSUME NEW w \in WorkerView, NEW chunk \in ChunkPlan,
         NEW f, NEW g, NEW L, IsFiniteSet(L),
         \A l \in L : f[l] \in Nat /\ g[l] \in Nat,
         Fits(w, f, g, L),
         NEW y \in L, f[y] = chunk.required_cpu,
         g[y] = chunk.required_memory_mb
  PROVE  Fits(GiveBack(w, chunk), f, g, L \ {y})
<1> DEFINE a == w.reserv_cpu
           b == chunk.required_cpu
           m == w.reserv_mem_mb
           n == chunk.required_memory_mb
           A == Total(f, L \ {y})
           M == Total(g, L \ {y})
<1>1. b \in Nat /\ n \in Nat /\ w.cpu_units \in Nat /\ w.free_memory_mb \in Nat
  BY FieldTypes DEF WorkerView, UINT8
<1>2. /\ a = Total(f, L) /\ a <= w.cpu_units
      /\ m = Total(g, L) /\ m <= w.free_memory_mb
      /\ w.active_chunks = Cardinality(L)
  BY Zenon DEF Fits
<1>3. /\ A \in Nat /\ M \in Nat
      /\ Total(f, L) = A + f[y]
      /\ Total(g, L) = M + g[y]
  BY TotalRemove, Zenon
<1>4. Cardinality(L \ {y}) = w.active_chunks - 1
  BY ZenonT(60), <1>2, FS_RemoveElement
<1>5. /\ GiveBack(w, chunk).reserv_cpu = IF a >= b THEN a - b ELSE a
      /\ GiveBack(w, chunk).reserv_mem_mb = IF m >= n THEN m - n ELSE m
      /\ GiveBack(w, chunk).active_chunks = w.active_chunks - 1
      /\ GiveBack(w, chunk).cpu_units = w.cpu_units
      /\ GiveBack(w, chunk).free_memory_mb = w.free_memory_mb
  BY Zenon DEF GiveBack, WorkerView
<1>6. a = A + b /\ m = M + n
  BY Zenon, <1>2, <1>3
<1> HIDE DEF a, b, m, n, A, M
<1>7. /\ (IF a >= b THEN a - b ELSE a) = A /\ A <= w.cpu_units
      /\ (IF m >= n THEN m - n ELSE m) = M /\ M <= w.free_memory_mb
  BY <1>1, <1>2, <1>3, <1>6
<1> QED BY Zenon, <1>4, <1>5, <1>7 DEF Fits, A, M

(* Only the amounts of the leases themselves count. *)
LEMMA FitsSame ==
  ASSUME NEW w, NEW f, NEW g, NEW h, NEW k, NEW L,
         \A l \in L : f[l] = h[l] /\ g[l] = k[l],
         Fits(w, f, g, L)
  PROVE  Fits(w, h, k, L)
<1>1. Total(f, L) = Total(h, L) /\ Total(g, L) = Total(k, L)
  BY TotalSame, ZenonT(60)
<1> QED BY Zenon, <1>1 DEF Fits

(* The plans of chunks that are not leased do not matter. *)
LEMMA BalancedPlans ==
  ASSUME NEW ws, NEW ls, NEW P, NEW Q, Balanced(ws, ls, P),
         \A l \in DOMAIN ls :
           ls[l].is_active => P[ls[l].chunk_id] = Q[ls[l].chunk_id]
  PROVE  Balanced(ws, ls, Q)
<1> SUFFICES ASSUME NEW i \in DOMAIN ws
             PROVE  Fits(ws[i], CpuOf(ls, Q), MemoryOf(ls, Q),
                         Held(ls, ws[i].worker_id))
  BY Zenon DEF Balanced
<1>1. Fits(ws[i], CpuOf(ls, P), MemoryOf(ls, P), Held(ls, ws[i].worker_id))
  BY Zenon DEF Balanced
<1>2. \A l \in Held(ls, ws[i].worker_id) :
        /\ CpuOf(ls, P)[l] = CpuOf(ls, Q)[l]
        /\ MemoryOf(ls, P)[l] = MemoryOf(ls, Q)[l]
  BY Zenon DEF Held, CpuOf, MemoryOf
<1> QED BY <1>1, <1>2, FitsSame

(* The first half of reclaiming or releasing a lease: its amounts are      *)
(* taken off the worker that held it, and off no other.                    *)
LEMMA BalancedGivenBack ==
  ASSUME Inv, NEW P, Planned(g_leases, P), Balanced(g_workers, g_leases, P),
         NEW l \in DOMAIN g_leases, g_leases[l].is_active,
         NEW chunk \in ChunkPlan, chunk = P[g_leases[l].chunk_id]
  PROVE  /\ Balanced(GivenBack(g_leases[l].assigned_worker_id, chunk),
                     Deactivated(l), P)
         /\ Planned(Deactivated(l), P)
<1> DEFINE id == g_leases[l].assigned_worker_id
           ws == GivenBack(id, chunk)
           ls == Deactivated(l)
<1>1. /\ ls \in Seq(Lease)
      /\ Len(ls) = Len(g_leases)
      /\ \A k \in DOMAIN g_leases :
           /\ ls[k].chunk_id = g_leases[k].chunk_id
           /\ k # l => ls[k] = g_leases[k]
      /\ ~ls[l].is_active
  BY Zenon, DeactivatedFacts DEF Inv
<1>2. /\ ws \in Seq(WorkerView)
      /\ Len(ws) = Len(g_workers)
      /\ \A i \in DOMAIN g_workers : ws[i].worker_id = g_workers[i].worker_id
  BY Zenon, GivenBackFacts DEF Inv
<1>3. g_workers \in Seq(WorkerView) /\ g_leases \in Seq(Lease)
  BY Zenon DEF Inv, TypeOK
<1>4. DOMAIN ls = DOMAIN g_leases /\ DOMAIN ws = DOMAIN g_workers
  BY <1>1, <1>2, <1>3
<1>5. \A i \in DOMAIN g_workers :
        ws[i] = IF g_workers[i].worker_id = id THEN GiveBack(g_workers[i], chunk)
                ELSE g_workers[i]
  <2> SUFFICES ASSUME NEW i \in DOMAIN g_workers
               PROVE  ws[i] = IF g_workers[i].worker_id = id
                                THEN GiveBack(g_workers[i], chunk)
                              ELSE g_workers[i]
    BY Zenon
  <2>1. CASE WorkerSlots(g_workers, id) = {}
    <3>1. ws = g_workers
      BY Zenon, <2>1 DEF GivenBack
    <3> QED BY Zenon, <2>1, <3>1 DEF WorkerSlots
  <2>2. CASE WorkerSlots(g_workers, id) # {}
    <3> DEFINE f == First(WorkerSlots(g_workers, id))
    <3>1. f \in DOMAIN g_workers /\ g_workers[f].worker_id = id
      BY ZenonT(60), <2>2, FirstWorker DEF Inv, WorkerSlots
    <3>2. ws = [g_workers EXCEPT ![f] = GiveBack(@, chunk)]
      BY Zenon, <2>2 DEF GivenBack
    <3> HIDE DEF f, ws
    <3>3. g_workers[i].worker_id = id => i = f
      BY Zenon, <3>1 DEF Inv, UniqueIds
    <3> QED BY Zenon, <3>1, <3>2, <3>3
  <2> QED BY Zenon, <2>1, <2>2
<1>6. /\ DOMAIN CpuOf(ls, P) = DOMAIN g_leases
      /\ \A k \in DOMAIN g_leases :
           /\ CpuOf(ls, P)[k] = CpuOf(g_leases, P)[k]
           /\ MemoryOf(ls, P)[k] = MemoryOf(g_leases, P)[k]
  BY Zenon, <1>1, <1>4 DEF CpuOf, MemoryOf
<1> HIDE DEF ws, ls
<1>7. Planned(ls, P)
  BY Zenon, <1>1, <1>4 DEF Planned
<1>8. ASSUME NEW i \in DOMAIN ws
      PROVE  Fits(ws[i], CpuOf(ls, P), MemoryOf(ls, P),
                  Held(ls, ws[i].worker_id))
  <2> DEFINE v == g_workers[i].worker_id
             L == Held(g_leases, v)
             f == CpuOf(g_leases, P)
             g == MemoryOf(g_leases, P)
  <2>1. ws[i].worker_id = v /\ i \in DOMAIN g_workers /\ g_workers[i] \in WorkerView
    BY <1>2, <1>3, <1>4
  <2>2. Fits(g_workers[i], f, g, L)
    BY Zenon, <2>1 DEF Balanced
  <2>3. L \subseteq DOMAIN g_leases
    BY Zenon DEF Held
  <2>4. CASE v = id
    <3>1. Held(ls, v) = L \ {l}
      BY Zenon, <1>1, <1>4 DEF Held
    <3>2. l \in L
      BY Zenon, <2>4 DEF Held
    <3>3. f[l] = chunk.required_cpu /\ g[l] = chunk.required_memory_mb
      BY Zenon DEF CpuOf, MemoryOf
    <3>4. ws[i] = GiveBack(g_workers[i], chunk)
      BY <1>5, <2>1, <2>4
    <3>5. /\ IsFiniteSet(L)
          /\ \A k \in L : f[k] \in Nat /\ g[k] \in Nat
      BY Zenon, <1>3, HeldFacts
    <3> HIDE DEF v, L, f, g
    <3>6. Fits(ws[i], f, g, L \ {l})
      BY <2>1, <2>2, <3>2, <3>3, <3>4, <3>5, FitsOneLess
    <3>7. \A k \in L \ {l} : /\ f[k] = CpuOf(ls, P)[k]
                             /\ g[k] = MemoryOf(ls, P)[k]
      BY Zenon, <1>6, <2>3 DEF f, g
    <3>8. Fits(ws[i], CpuOf(ls, P), MemoryOf(ls, P), L \ {l})
      BY <3>6, <3>7, FitsSame
    <3> QED BY Zenon, <2>1, <3>1, <3>8
  <2>5. CASE v # id
    <3>1. Held(ls, v) = L
      BY Zenon, <1>1, <1>4, <2>5 DEF Held
    <3>2. ws[i] = g_workers[i]
      BY Zenon, <1>5, <2>1, <2>5
    <3> HIDE DEF v, L, f, g
    <3>3. \A k \in L : f[k] = CpuOf(ls, P)[k] /\ g[k] = MemoryOf(ls, P)[k]
      BY Zenon, <1>6, <2>3 DEF f, g
    <3>4. Fits(ws[i], CpuOf(ls, P), MemoryOf(ls, P), L)
      BY <2>2, <3>2, <3>3, FitsSame
    <3> QED BY Zenon, <2>1, <3>1, <3>4
  <2> QED BY Zenon, <2>4, <2>5
<1> QED BY Zenon, <1>7, <1>8 DEF Balanced, ws, ls

(* The second half of an assignment: the amounts of the new lease are      *)
(* added to the worker it names.                                           *)
LEMMA BalancedReserved ==
  ASSUME NEW ws \in Seq(WorkerView), NEW ls \in Seq(Lease),
         NEW P, Planned(ls, P), Balanced(ws, ls, P),
         \A i, j \in DOMAIN ws : ws[i].worker_id = ws[j].worker_id => i = j,
         NEW w \in DOMAIN ws, NEW chunk \in ChunkPlan,
         evaluate_hard_filters(chunk, ws[w]),
         NEW lease, lease.is_active,
         lease.assigned_worker_id = ws[w].worker_id,
         P[lease.chunk_id] = chunk,
         NEW new \in Seq(Lease), Len(ls) <= Len(new),
         NEW p \in DOMAIN new, Written(new, ls, lease, p)
  PROVE  Balanced([ws EXCEPT ![w] = Reserve(@, chunk)], new, P)
<1> DEFINE res == [ws EXCEPT ![w] = Reserve(@, chunk)]
<1>1. /\ new[p] = lease
      /\ \A l \in DOMAIN new : l # p => l \in DOMAIN ls /\ new[l] = ls[l]
      /\ p \in DOMAIN ls => ~ls[p].is_active
      /\ DOMAIN ls \subseteq DOMAIN new
  BY DEF Written
<1>2. /\ res \in Seq(WorkerView) /\ DOMAIN res = DOMAIN ws
      /\ \A i \in DOMAIN ws : res[i].worker_id = ws[i].worker_id
      /\ res[w] = Reserve(ws[w], chunk)
      /\ \A i \in DOMAIN ws : i # w => res[i] = ws[i]
  BY Zenon, ReserveFacts
<1> HIDE DEF res
<1>3. ASSUME NEW i \in DOMAIN res
      PROVE  Fits(res[i], CpuOf(new, P), MemoryOf(new, P),
                  Held(new, res[i].worker_id))
  <2> DEFINE v == ws[i].worker_id
             L == Held(ls, v)
             f == CpuOf(new, P)
             g == MemoryOf(new, P)
  <2>1. res[i].worker_id = v /\ i \in DOMAIN ws /\ ws[i] \in WorkerView
    BY <1>2
  <2>2. p \notin L /\ L \subseteq DOMAIN ls
    BY Zenon, <1>1 DEF Held
  <2>3. \A l \in L : /\ CpuOf(ls, P)[l] = f[l]
                     /\ MemoryOf(ls, P)[l] = g[l]
    BY Zenon, <1>1, <2>2 DEF CpuOf, MemoryOf
  <2>4. /\ IsFiniteSet(L)
        /\ \A l \in L : /\ CpuOf(ls, P)[l] \in Nat
                        /\ MemoryOf(ls, P)[l] \in Nat
    BY Zenon, HeldFacts
  <2>5. Fits(ws[i], f, g, L)
    <3>1. Fits(ws[i], CpuOf(ls, P), MemoryOf(ls, P), L)
      BY Zenon, <2>1 DEF Balanced
    <3> HIDE DEF v, L, f, g
    <3> QED BY <2>3, <3>1, FitsSame
  <2>6. CASE i = w
    <3>1. Held(new, v) = L \cup {p}
      BY Zenon, <1>1, <2>6 DEF Held
    <3>2. f[p] = chunk.required_cpu /\ g[p] = chunk.required_memory_mb
      BY Zenon, <1>1 DEF CpuOf, MemoryOf
    <3> HIDE DEF v, L, f, g
    <3>3. \A l \in L : f[l] \in Nat /\ g[l] \in Nat
      BY Zenon, <2>3, <2>4
    <3>4. Fits(Reserve(ws[i], chunk), f, g, L \cup {p})
      BY Zenon, <2>1, <2>2, <2>4, <2>5, <2>6, <3>2, <3>3, FitsOneMore
    <3> QED BY ZenonT(60), <1>2, <2>1, <2>6, <3>1, <3>4 DEF f, g
  <2>7. CASE i # w
    <3>1. v # lease.assigned_worker_id
      BY Zenon, <2>1, <2>7
    <3>2. Held(new, v) = L
      BY Zenon, <1>1, <3>1 DEF Held
    <3> HIDE DEF v, L
    <3> QED BY ZenonT(60), <1>2, <2>1, <2>5, <2>7, <3>2
  <2> QED BY Zenon, <2>6, <2>7
<1> QED BY Zenon, <1>3 DEF Balanced, res

-----------------------------------------------------------------------------
PlanAt == [id \in ChunkId |-> g_chunks[First(ChunkSlots(id))]]

(* The worker of an active lease is in the table. *)
LeaseHasWorker ==
  \A l \in DOMAIN g_leases :
    g_leases[l].is_active =>
      \E i \in DOMAIN g_workers :
        g_workers[i].worker_id = g_leases[l].assigned_worker_id

(* The inductive invariant while callers are stable. *)
TablesBalanced == Balanced(g_workers, g_leases, PlanAt)
StableInv == Inv /\ LeaseHasWorker /\ TablesBalanced

LEMMA PlanIs ==
  ASSUME Inv, NEW c \in DOMAIN g_chunks
  PROVE  PlanAt[g_chunks[c].chunk_id] = g_chunks[c]
<1> DEFINE id == g_chunks[c].chunk_id
<1>1. c \in ChunkSlots(id) /\ id \in ChunkId
  <2>1. g_chunks[c] \in ChunkPlan
    BY DEF Inv, TypeOK
  <2> QED BY Zenon, <2>1 DEF ChunkSlots, ChunkPlan
<1>2. First(ChunkSlots(id)) \in ChunkSlots(id)
  BY Zenon, <1>1, FirstChunk DEF Inv
<1>3. First(ChunkSlots(id)) = c
  BY Zenon, <1>1, <1>2 DEF ChunkSlots, Inv, UniqueIds
<1> QED BY Zenon, <1>1, <1>3 DEF PlanAt

PlansFound ==
  \A c \in DOMAIN g_chunks : PlanAt[g_chunks[c].chunk_id] = g_chunks[c]

LEMMA AllPlansFound == Inv => PlansFound
BY Zenon, PlanIs DEF PlansFound

LEMMA LeasesPlanned ==
  ASSUME Inv
  PROVE  Planned(g_leases, PlanAt)
<1> SUFFICES ASSUME NEW l \in DOMAIN g_leases, g_leases[l].is_active
             PROVE  PlanAt[g_leases[l].chunk_id] \in ChunkPlan
  BY Zenon DEF Planned
<1>1. PICK c \in DOMAIN g_chunks : g_chunks[c].chunk_id = g_leases[l].chunk_id
  BY Zenon DEF Inv, ActiveLeaseHasChunk, ChunkSlots
<1>2. g_chunks[c] \in ChunkPlan
  BY DEF Inv, TypeOK
<1> QED BY Zenon, <1>1, <1>2, PlanIs

(* The second half of a tick iteration, from balanced tables. *)
LEMMA AssignBalanced ==
  ASSUME Inv, InLoop,
         NEW ws \in Seq(WorkerView), Len(ws) = Len(g_workers),
         \A i \in DOMAIN g_workers : ws[i].worker_id = g_workers[i].worker_id,
         NEW ls \in Seq(Lease), Len(ls) <= MAX_SCHUNKS, Recordable(ls),
         \A l \in DOMAIN ls :
           ls[l].is_active =>
             \E i \in DOMAIN ws : ws[i].worker_id = ls[l].assigned_worker_id,
         Planned(ls, PlanAt), Balanced(ws, ls, PlanAt),
         Assign(ws, ls), UNCHANGED <<g_chunks, clock>>
  PROVE  LeaseHasWorker' /\ TablesBalanced'
<1>0. PlanAt' = PlanAt
  BY Zenon DEF PlanAt, ChunkSlots
<1>1. Current \in ChunkPlan /\ PlanAt[Current.chunk_id] = Current
  BY Zenon, TickAt, PlanIs DEF Inv, Current
<1>2. CASE g_workers' = ws /\ g_leases' = ls
  <2>1. LeaseHasWorker'
    BY Zenon, <1>2 DEF LeaseHasWorker
  <2>2. Balanced(g_workers', g_leases', PlanAt')
    BY Zenon, <1>0, <1>2
  <2> QED BY Zenon, <2>1, <2>2 DEF TablesBalanced
<1>3. ASSUME NEW w \in Best(Current, ws),
             NEW lease,
             lease = [chunk_id |-> Current.chunk_id,
                      assigned_worker_id |-> ws[w].worker_id,
                      lease_expires_ms |-> tick.now + LEASE_MS,
                      is_active |-> TRUE],
             g_workers' = [ws EXCEPT ![w] = Reserve(@, Current)],
             g_leases' = Record(ls, lease)
      PROVE  LeaseHasWorker' /\ TablesBalanced'
  <2>1. w \in DOMAIN ws /\ evaluate_hard_filters(Current, ws[w])
    BY Zenon DEF Best, Candidates
  <2>2. lease \in Lease
    BY ZenonT(60), <1>3, LeaseType DEF Inv
  <2>3. /\ lease.is_active /\ lease.assigned_worker_id = ws[w].worker_id
        /\ lease.chunk_id = Current.chunk_id
    BY Zenon, <1>3
  <2>4. PICK p \in Nat : Written(Record(ls, lease), ls, lease, p)
    BY ZenonT(60), <2>2, RecordFacts
  <2>5. /\ g_leases' \in Seq(Lease) /\ Len(ls) <= Len(g_leases')
        /\ Written(g_leases', ls, lease, p)
    BY Zenon, <1>3, <2>2, <2>4, RecordFacts
  <2>6. p \in DOMAIN g_leases'
    BY Zenon, <2>5 DEF Written
  <2>7. \A i, j \in DOMAIN ws : ws[i].worker_id = ws[j].worker_id => i = j
    <3>1. DOMAIN ws = DOMAIN g_workers
      BY DEF Inv, TypeOK
    <3> QED BY Zenon, <3>1 DEF Inv, UniqueIds
  <2>8. Balanced(g_workers', g_leases', PlanAt)
    BY ZenonT(60), <1>1, <1>3, <2>1, <2>3, <2>5, <2>6, <2>7, BalancedReserved
  <2>9. /\ DOMAIN g_workers' = DOMAIN ws
        /\ \A i \in DOMAIN ws : g_workers'[i].worker_id = ws[i].worker_id
    BY <1>1, <1>3, <2>1, ReserveFacts
  <2>10. LeaseHasWorker'
    BY ZenonT(60), <2>1, <2>3, <2>5, <2>9 DEF LeaseHasWorker, Written
  <2> QED BY Zenon, <1>0, <2>8, <2>10 DEF TablesBalanced
<1> QED BY ZenonT(60), <1>2, <1>3 DEF Assign

LEMMA StableInvNext ==
  ASSUME StableInv, [StableNext]_vars
  PROVE  StableInv'
<1> USE DEF StableInv
<1>0. Inv'
  <2>1. [Next]_vars
    BY Zenon DEF StableNext, Next
  <2> QED BY Zenon, <2>1, InvNext
<1>p. PlansFound'
  BY <1>0, AllPlansFound, PTL
<1>1. ASSUME UNCHANGED <<g_workers, g_chunks, g_leases>>
      PROVE  LeaseHasWorker' /\ TablesBalanced'
  <2>1. PlanAt' = PlanAt
    BY Zenon, <1>1 DEF PlanAt, ChunkSlots
  <2> QED BY Zenon, <1>1, <2>1 DEF LeaseHasWorker, TablesBalanced
<1>2. CASE Reset
  <2>1. DOMAIN g_workers' = {} /\ DOMAIN g_leases' = {}
    BY <1>2 DEF Reset
  <2>2. Balanced(g_workers', g_leases', PlanAt')
    BY Zenon, <2>1 DEF Balanced
  <2> QED BY Zenon, <1>0, <2>1, <2>2 DEF LeaseHasWorker, TablesBalanced
<1>3. ASSUME NEW w \in WorkerViews, FreshView(w), register_worker(w)
      PROVE  LeaseHasWorker' /\ TablesBalanced'
  <2>1. UNCHANGED <<g_chunks, g_leases>> /\ PlanAt' = PlanAt
    BY Zenon, <1>3 DEF register_worker, PlanAt, ChunkSlots
  <2>2. \A i \in DOMAIN g_workers : g_workers[i].worker_id # w.worker_id
    BY Zenon, <1>3 DEF FreshView, WorkerSlots
  <2>3. CASE g_workers' = g_workers
    BY Zenon, <1>1, <2>1, <2>3
  <2>4. CASE g_workers' = Append(g_workers, w)
    <3> DEFINE n == Len(g_workers) + 1
    <3>1. /\ DOMAIN g_workers' = DOMAIN g_workers \cup {n}
          /\ g_workers'[n] = w
          /\ \A i \in DOMAIN g_workers : g_workers'[i] = g_workers[i]
      BY <2>4 DEF Inv, TypeOK
    <3> HIDE DEF n
    <3>2. LeaseHasWorker'
      BY <2>1, <3>1 DEF LeaseHasWorker
    <3>3. Held(g_leases, w.worker_id) = {}
      BY Zenon, <2>2 DEF Held, LeaseHasWorker
    <3>4. /\ w.reserv_cpu = 0 /\ w.reserv_mem_mb = 0 /\ w.active_chunks = 0
          /\ w.cpu_units >= 0 /\ w.free_memory_mb >= 0
      BY <1>3, CallerInputs DEF FreshView, WorkerView
    <3>5. Fits(w, CpuOf(g_leases, PlanAt), MemoryOf(g_leases, PlanAt),
               Held(g_leases, w.worker_id))
      BY Zenon, <3>3, <3>4, TotalEmpty, FS_EmptySet DEF Fits
    <3>6. Balanced(g_workers', g_leases, PlanAt)
      BY Zenon, <3>1, <3>5 DEF Balanced, TablesBalanced
    <3> QED BY Zenon, <2>1, <3>2, <3>6 DEF TablesBalanced
  <2> QED BY Zenon, <1>3, <2>3, <2>4 DEF register_worker, FreshView
<1>4. ASSUME NEW c \in ChunkPlans, ChunkSlots(c.chunk_id) = {},
             submit_ready_chunk(c)
      PROVE  LeaseHasWorker' /\ TablesBalanced'
  <2>1. UNCHANGED <<g_workers, g_leases>>
    BY Zenon, <1>4 DEF submit_ready_chunk
  <2>2. CASE g_chunks' = g_chunks
    BY Zenon, <1>1, <2>1, <2>2
  <2>3. CASE g_chunks' = Append(g_chunks, c)
    <3>1. ASSUME NEW l \in DOMAIN g_leases, g_leases[l].is_active
          PROVE  PlanAt[g_leases[l].chunk_id] = PlanAt'[g_leases[l].chunk_id]
      <4>1. PICK k \in DOMAIN g_chunks : g_chunks[k].chunk_id = g_leases[l].chunk_id
        BY Zenon, <3>1 DEF Inv, ActiveLeaseHasChunk, ChunkSlots
      <4>2. k \in DOMAIN g_chunks' /\ g_chunks'[k] = g_chunks[k]
        BY <2>3 DEF Inv, TypeOK
      <4>3. PlanAt[g_chunks[k].chunk_id] = g_chunks[k]
        BY Zenon, PlanIs
      <4>4. PlanAt'[g_chunks'[k].chunk_id] = g_chunks'[k]
        BY Zenon, <1>p, <4>2 DEF PlansFound
      <4> QED BY Zenon, <4>1, <4>2, <4>3, <4>4
    <3>2. Balanced(g_workers, g_leases, PlanAt')
      BY <3>1, BalancedPlans DEF TablesBalanced
    <3> QED BY Zenon, <2>1, <3>2 DEF LeaseHasWorker, TablesBalanced
  <2> QED BY Zenon, <1>4, <2>2, <2>3 DEF submit_ready_chunk
<1>5. ASSUME NEW id \in ChunkId, release_lease(id)
      PROVE  LeaseHasWorker' /\ TablesBalanced'
  <2> DEFINE l == First(ActiveSlots(id))
             c == First(ChunkSlots(id))
  <2>1. /\ l \in DOMAIN g_leases
        /\ g_leases[l].is_active /\ g_leases[l].chunk_id = id
    BY ZenonT(60), <1>5, FirstActive DEF release_lease, ActiveSlots, Inv
  <2>2. ChunkSlots(id) # {}
    BY Zenon, <2>1 DEF Inv, ActiveLeaseHasChunk
  <2>3. c \in DOMAIN g_chunks /\ g_chunks[c].chunk_id = id
    BY Zenon, <2>2, FirstChunk DEF Inv, ChunkSlots
  <2>4. /\ g_leases' = Deactivated(l)
        /\ g_workers' = GivenBack(g_leases[l].assigned_worker_id, g_chunks[c])
        /\ g_chunks' = Remove(g_chunks, c)
    BY Zenon, <1>5, <2>2 DEF release_lease
  <2> HIDE DEF l, c
  <2>5. g_chunks[c] \in ChunkPlan /\ PlanAt[id] = g_chunks[c]
    BY <2>3, PlanIs DEF Inv, TypeOK
  <2>6. /\ Balanced(g_workers', g_leases', PlanAt)
        /\ Planned(g_leases', PlanAt)
    BY Zenon, <2>1, <2>4, <2>5, LeasesPlanned, BalancedGivenBack DEF TablesBalanced
  <2>7. /\ DOMAIN g_workers' = DOMAIN g_workers
        /\ \A i \in DOMAIN g_workers :
             g_workers'[i].worker_id = g_workers[i].worker_id
    <3>1. /\ g_workers' \in Seq(WorkerView)
          /\ Len(g_workers') = Len(g_workers)
          /\ \A i \in DOMAIN g_workers :
               g_workers'[i].worker_id = g_workers[i].worker_id
      BY Zenon, <2>4, <2>5, GivenBackFacts DEF Inv
    <3> QED BY <3>1 DEF Inv, TypeOK
  <2>8. /\ DOMAIN g_leases' = DOMAIN g_leases
        /\ \A k \in DOMAIN g_leases : k # l => g_leases'[k] = g_leases[k]
        /\ ~g_leases'[l].is_active
    <3>1. /\ g_leases' \in Seq(Lease) /\ Len(g_leases') = Len(g_leases)
          /\ \A k \in DOMAIN g_leases : k # l => g_leases'[k] = g_leases[k]
          /\ ~g_leases'[l].is_active
      BY Zenon, <2>1, <2>4, DeactivatedFacts DEF Inv
    <3> QED BY <3>1 DEF Inv, TypeOK
  <2>9. LeaseHasWorker'
    BY <2>7, <2>8 DEF LeaseHasWorker
  <2>10. ASSUME NEW k \in DOMAIN g_leases', g_leases'[k].is_active
         PROVE  PlanAt[g_leases'[k].chunk_id] = PlanAt'[g_leases'[k].chunk_id]
    <3>1. k # l /\ k \in DOMAIN g_leases /\ g_leases'[k] = g_leases[k]
      BY Zenon, <2>8, <2>10
    <3>2. g_leases[k].chunk_id # id
      BY Zenon, <2>1, <2>10, <3>1 DEF Inv, OneActiveLeasePerChunk
    <3>3. PICK i \in DOMAIN g_chunks : g_chunks[i].chunk_id = g_leases[k].chunk_id
      BY Zenon, <2>10, <3>1 DEF Inv, ActiveLeaseHasChunk, ChunkSlots
    <3>4. PICK j \in DOMAIN g_chunks' : g_chunks'[j] = g_chunks[i]
      <4>1. i # c
        BY <2>3, <3>2, <3>3
      <4>2. /\ g_chunks \in Seq(ChunkPlan) /\ g_chunks' \in Seq(ChunkPlan)
            /\ Len(g_chunks') = Len(g_chunks) - 1
            /\ i < c => g_chunks'[i] = g_chunks[i]
            /\ i > c => g_chunks'[i - 1] = g_chunks[i]
        BY ZenonT(60), <2>3, <2>4, RemoveType DEF Inv, TypeOK
      <4>3. i < c => i \in DOMAIN g_chunks'
        BY <2>3, <4>2
      <4>4. i > c => i - 1 \in DOMAIN g_chunks'
        BY <2>3, <4>2
      <4>5. i < c \/ i > c
        BY <2>3, <4>1, <4>2
      <4> QED BY Zenon, <4>2, <4>3, <4>4, <4>5
    <3>5. PlanAt[g_chunks[i].chunk_id] = g_chunks[i]
      BY Zenon, PlanIs
    <3>6. PlanAt'[g_chunks'[j].chunk_id] = g_chunks'[j]
      BY <1>p DEF PlansFound
    <3> QED BY Zenon, <3>1, <3>3, <3>4, <3>5, <3>6
  <2>11. Balanced(g_workers', g_leases', PlanAt')
    BY <2>6, <2>10, BalancedPlans
  <2> QED BY Zenon, <2>9, <2>11 DEF TablesBalanced
<1>6. CASE TickAssign
  <2>1. /\ InLoop /\ ActiveSlots(Current.chunk_id) = {}
        /\ Assign(g_workers, g_leases)
        /\ UNCHANGED <<g_chunks, clock>>
    BY Zenon, <1>6 DEF TickAssign
  <2>2. Recordable(g_leases)
    <3>1. tick.c \in DOMAIN g_chunks
      BY ZenonT(60), <2>1, TickAt DEF Inv
    <3> QED BY Zenon, <2>1, <3>1, SlotFree DEF LeaseSlotForEveryChunk, Current
  <2>3. /\ g_workers \in Seq(WorkerView)
        /\ g_leases \in Seq(Lease) /\ Len(g_leases) <= MAX_SCHUNKS
    BY Zenon DEF Inv, TypeOK
  <2>4. Planned(g_leases, PlanAt) /\ Balanced(g_workers, g_leases, PlanAt)
    BY Zenon, LeasesPlanned DEF TablesBalanced
  <2> QED BY Zenon, <1>0, <2>1, <2>2, <2>3, <2>4, AssignBalanced DEF LeaseHasWorker
<1>7. CASE TickReassign
  <2> DEFINE l == First(ActiveSlots(Current.chunk_id))
             ws == GivenBack(g_leases[l].assigned_worker_id, Current)
             ls == Deactivated(l)
  <2>1. InLoop /\ ActiveSlots(Current.chunk_id) # {}
    BY Zenon, <1>7 DEF TickReassign
  <2>2. Assign(ws, ls) /\ UNCHANGED <<g_chunks, clock>>
    BY Zenon, <1>7 DEF TickReassign
  <2>3. /\ l \in DOMAIN g_leases
        /\ g_leases[l].is_active /\ g_leases[l].chunk_id = Current.chunk_id
    BY ZenonT(60), <2>1, FirstActive DEF ActiveSlots, Inv
  <2>4. Current \in ChunkPlan /\ PlanAt[Current.chunk_id] = Current
    BY Zenon, <2>1, TickAt, PlanIs DEF Inv, Current
  <2>5. /\ ws \in Seq(WorkerView)
        /\ Len(ws) = Len(g_workers)
        /\ \A i \in DOMAIN g_workers : ws[i].worker_id = g_workers[i].worker_id
    BY Zenon, <2>4, GivenBackFacts DEF Inv
  <2>6. /\ ls \in Seq(Lease)
        /\ Len(ls) = Len(g_leases)
        /\ \A k \in DOMAIN g_leases : k # l => ls[k] = g_leases[k]
        /\ ~ls[l].is_active
    BY Zenon, <2>3, DeactivatedFacts DEF Inv
  <2>7. Balanced(ws, ls, PlanAt) /\ Planned(ls, PlanAt)
    BY Zenon, <2>3, <2>4, LeasesPlanned, BalancedGivenBack DEF TablesBalanced
  <2> HIDE DEF l, ws, ls
  <2>8. DOMAIN ls = DOMAIN g_leases /\ DOMAIN ws = DOMAIN g_workers
        /\ Len(ls) <= MAX_SCHUNKS
    BY <2>5, <2>6 DEF Inv, TypeOK
  <2>9. Recordable(ls)
    BY Zenon, <2>3, <2>6, <2>8 DEF Recordable, FreeSlots
  <2>10. \A k \in DOMAIN ls :
           ls[k].is_active =>
             \E i \in DOMAIN ws : ws[i].worker_id = ls[k].assigned_worker_id
    BY SMTT(30), <2>5, <2>6, <2>8 DEF LeaseHasWorker
  <2> QED BY SMTT(30), <1>0, <2>1, <2>2, <2>5, <2>6, <2>7, <2>8, <2>9, <2>10,
         AssignBalanced
<1>8. CASE \/ UNCHANGED vars
           \/ \E m \in MaxLeasesArgs : TickBegin(m)
           \/ TickSkip \/ TickEnd \/ Advance
  <2>1. UNCHANGED <<g_workers, g_chunks, g_leases>>
    BY Zenon, <1>8 DEF vars, TickBegin, TickSkip, TickEnd, Advance
  <2> QED BY Zenon, <1>0, <1>1, <2>1
<1> QED BY Zenon, <1>0, <1>2, <1>3, <1>4, <1>5, <1>6, <1>7, <1>8
       DEF StableNext, TickStep

(* The same while callers may do anything: the books are exact until the   *)
(* first call that is not a stable caller's.                               *)
RecallInv == stable \in BOOLEAN /\ (stable => StableInv)

LEMMA RecallInvNext ==
  ASSUME RecallInv, [RecallNext]_<<vars, stable>>
  PROVE  RecallInv'
<1>1. CASE UNCHANGED <<vars, stable>>
  <2>1. stable => StableInv'
    BY Zenon, <1>1, StableInvNext DEF RecallInv
  <2> QED BY Zenon, <1>1, <2>1 DEF RecallInv
<1>2. CASE RecallNext
  <2>1. stable' = (stable /\ StableNext)
    BY Zenon, <1>2 DEF RecallNext
  <2>2. stable' \in BOOLEAN
    BY Zenon, <2>1
  <2>3. ASSUME stable' PROVE StableInv'
    <3>1. stable /\ StableNext
      BY ZenonT(60), <2>1, <2>3
    <3> QED BY Zenon, <3>1, StableInvNext DEF RecallInv
  <2> QED BY Zenon, <2>2, <2>3 DEF RecallInv
<1> QED BY Zenon, <1>1, <1>2

LEMMA StableExact ==
  ASSUME StableInv, NEW i \in DOMAIN g_workers
  PROVE  LET w == g_workers[i]
             held == LeasedTo(w)
             cpu == Total([l \in held |-> Plan(l).required_cpu], held)
             memory == Total([l \in held |-> Plan(l).required_memory_mb], held)
         IN  /\ w.reserv_cpu = cpu /\ cpu <= w.cpu_units
             /\ w.reserv_mem_mb = memory /\ memory <= w.free_memory_mb
             /\ w.active_chunks = Cardinality(held)
<1> DEFINE w == g_workers[i]
           held == LeasedTo(w)
           f == [l \in held |-> Plan(l).required_cpu]
           g == [l \in held |-> Plan(l).required_memory_mb]
<1>1. held = Held(g_leases, w.worker_id)
  BY Zenon DEF LeasedTo, Held
<1>2. \A l \in held : /\ CpuOf(g_leases, PlanAt)[l] = f[l]
                      /\ MemoryOf(g_leases, PlanAt)[l] = g[l]
  <2> SUFFICES ASSUME NEW l \in held
               PROVE  /\ CpuOf(g_leases, PlanAt)[l] = f[l]
                      /\ MemoryOf(g_leases, PlanAt)[l] = g[l]
    BY Zenon
  <2>1. l \in DOMAIN g_leases /\ g_leases[l] \in Lease
    BY DEF LeasedTo, StableInv, Inv, TypeOK
  <2>2. PlanAt[g_leases[l].chunk_id] = Plan(l)
    BY Zenon, <2>1 DEF PlanAt, Plan, Lease
  <2> QED BY Zenon, <2>1, <2>2 DEF CpuOf, MemoryOf
<1>3. Fits(w, CpuOf(g_leases, PlanAt), MemoryOf(g_leases, PlanAt), held)
  BY Zenon, <1>1 DEF StableInv, TablesBalanced, Balanced
<1> HIDE DEF w, held, f, g
<1>4. Fits(w, f, g, held)
  BY Zenon, <1>2, <1>3, FitsSame
<1> QED BY Zenon, <1>4 DEF Fits, w, held, f, g

(* As long as callers are stable, what is reserved on a worker is exactly  *)
(* what its active leases demand, fits on it, and has not wrapped.         *)
THEOREM ReservationsAreExact == RecallSpec => []ReservationsExact
<1>1. RecallInit => RecallInv
  <2>1. Init => LeaseHasWorker
    BY DEF Init, LeaseHasWorker
  <2>2. Init => TablesBalanced
    <3>1. Init => DOMAIN g_workers = {}
      BY DEF Init
    <3> QED BY Zenon, <3>1 DEF TablesBalanced, Balanced
  <2> QED BY Zenon, <2>1, <2>2, InvInit DEF RecallInit, RecallInv, StableInv
<1>2. RecallInv => ReservationsExact
  BY Zenon, StableExact DEF RecallInv, ReservationsExact
<1> QED BY <1>1, <1>2, RecallInvNext, PTL DEF RecallSpec
-----------------------------------------------------------------------------
(* ChunkPlanner.  An edge was relaxed when it was looked at behind a chunk *)
(* taken from the queue that it starts from.                               *)
Relaxed(e) ==
  \E m \in 1..head : /\ plan.chunks[queue[m]] = plan.edges[e].src
                     /\ m < head \/ phase = "take" \/ e < edge
Pending(j) == {e \in EdgesInto(j) : ~Relaxed(e)}

(* Every edge into a chunk in the queue starts from one before it. *)
QueueOrdered ==
  \A k \in DOMAIN queue : \A e \in EdgesInto(queue[k]) :
    \E m \in 1..(k - 1) : plan.chunks[queue[m]] = plan.edges[e].src

(* What holds while the check runs: a chunk is in the queue when its       *)
(* in-degree has reached 0, even where ids repeat; where they do not, the  *)
(* in-degree counts the edges not yet relaxed.                             *)
RunningInv ==
  /\ plan.is_valid /\ plan.chunks # <<>>
  /\ in_degree \in [PlanSlots -> Int] /\ queue \in Seq(PlanSlots)
  /\ \A j \in PlanSlots : j \in Range(queue) <=> in_degree[j] <= 0
  /\ phase = "relax" => /\ head > 0 /\ current = queue[head]
                        /\ edge \in 1..(Len(plan.edges) + 1)
  /\ IsInjective(plan.chunks) =>
       QueueOrdered /\ \A j \in PlanSlots : in_degree[j] = Cardinality(Pending(j))

Right == verdict <=> plan.is_valid /\ plan.chunks # <<>> /\ Acyclic /\ NoDanglingSource

Formed(p) == /\ p.chunks \in Seq(Range(p.chunks)) /\ p.edges \in Seq(Range(p.edges))
             /\ p.is_valid \in BOOLEAN

PlannerInv ==
  /\ PlannerTypeOK /\ Formed(plan)
  /\ IsInjective(queue)
  /\ phase \in {"idle", "check"} => queue = <<>> /\ head = 0
  /\ phase \in {"take", "relax"} => RunningInv
  /\ phase = "done" /\ IsInjective(plan.chunks) => Right

LEMMA SlotsAre ==
  ASSUME Formed(plan)
  PROVE  /\ Len(plan.chunks) \in Nat /\ PlanSlots = 1..Len(plan.chunks)
         /\ PlanSlots \in SUBSET Nat /\ IsFiniteSet(PlanSlots)
         /\ Cardinality(PlanSlots) = Len(plan.chunks)
         /\ Len(plan.edges) \in Nat /\ DOMAIN plan.edges = 1..Len(plan.edges)
<1>1. /\ Len(plan.chunks) \in Nat /\ PlanSlots = 1..Len(plan.chunks)
      /\ Len(plan.edges) \in Nat /\ DOMAIN plan.edges = 1..Len(plan.edges)
  BY Zenon, SeqDomain DEF Formed, PlanSlots
<1>2. IsFiniteSet(PlanSlots) /\ Cardinality(PlanSlots) = Len(plan.chunks)
  <2>1. PICK n \in Nat : n = Len(plan.chunks)
    BY Zenon, <1>1
  <2>2. IsFiniteSet(1..n) /\ Cardinality(1..n) = n
    BY FS_Interval
  <2> QED BY Zenon, <1>1, <2>1, <2>2
<1>3. PlanSlots \in SUBSET Nat
  BY <1>1
<1> QED BY Zenon, <1>1, <1>2, <1>3

LEMMA EdgesFinite ==
  ASSUME Formed(plan), NEW j, NEW E \in SUBSET EdgesInto(j)
  PROVE  /\ IsFiniteSet(E) /\ Cardinality(E) \in Nat
         /\ Cardinality(E) = 0 <=> E = {}
<1>1. IsFiniteSet(DOMAIN plan.edges)
  BY SlotsAre, FS_Interval
<1>2. E \in SUBSET DOMAIN plan.edges
  BY Zenon DEF EdgesInto
<1>3. IsFiniteSet(E)
  BY Zenon, <1>1, <1>2, FS_Subset
<1> QED BY Zenon, <1>3, FS_CardinalityType, FS_EmptySet

(* The slots enter the queue each once. *)
LEMMA InOrderIs ==
  ASSUME Formed(plan), NEW N \in SUBSET PlanSlots
  PROVE  /\ InOrder(N) \in Seq(PlanSlots) /\ Range(InOrder(N)) = N
         /\ IsInjective(InOrder(N))
<1> DEFINE s == [j \in PlanSlots |-> j]
<1>1. s \in Seq(PlanSlots) /\ DOMAIN s = PlanSlots /\ \A j \in PlanSlots : s[j] = j
  BY SlotsAre
<1>2. InOrder(N) = Compact(s, N)
  BY Zenon DEF InOrder
<1> HIDE DEF s
<1>3. /\ InOrder(N) \in Seq(PlanSlots)
      /\ \A i \in DOMAIN InOrder(N) : \E j \in N : Rank(N, j) = i /\ InOrder(N)[i] = j
      /\ \A j \in N : Rank(N, j) \in DOMAIN InOrder(N) /\ InOrder(N)[Rank(N, j)] = j
  <2>1. N \in SUBSET DOMAIN s
    BY Zenon, <1>1
  <2>2. /\ Compact(s, N) \in Seq(PlanSlots)
        /\ \A i \in DOMAIN Compact(s, N) :
              \E j \in N : Rank(N, j) = i /\ Compact(s, N)[i] = s[j]
        /\ \A j \in N : /\ Rank(N, j) \in DOMAIN Compact(s, N)
                        /\ Compact(s, N)[Rank(N, j)] = s[j]
    BY <1>1, <2>1, CompactFacts
  <2>3. \A j \in N : s[j] = j
    BY Zenon, <1>1
  <2> QED BY Zenon, <1>2, <2>2, <2>3
<1>4. Range(InOrder(N)) = N
  BY Zenon, <1>3 DEF Range
<1>5. IsInjective(InOrder(N))
  BY Zenon, <1>3 DEF IsInjective
<1> QED BY Zenon, <1>3, <1>4, <1>5

LEMMA JoinIs ==
  ASSUME NEW T, NEW q \in Seq(T), NEW r \in Seq(T)
  PROVE  /\ q \o r \in Seq(T) /\ Len(q \o r) = Len(q) + Len(r)
         /\ \A k \in 1..Len(q) : (q \o r)[k] = q[k]
         /\ \A k \in 1..Len(r) : (q \o r)[Len(q) + k] = r[k]
         /\ \A k \in DOMAIN (q \o r) : k \notin DOMAIN q => k - Len(q) \in DOMAIN r
OBVIOUS

LEMMA JoinInjective ==
  ASSUME NEW T, NEW q \in Seq(T), NEW r \in Seq(T), IsInjective(q), IsInjective(r),
         Range(q) \cap Range(r) = {}
  PROVE  /\ IsInjective(q \o r) /\ Range(q \o r) = Range(q) \cup Range(r)
         /\ \A k \in DOMAIN (q \o r) :
              \/ k \in DOMAIN q /\ (q \o r)[k] = q[k]
              \/ k \notin DOMAIN q /\ k > Len(q) /\ (q \o r)[k] \in Range(r)
<1> DEFINE c == q \o r
<1>1. /\ Len(q) \in Nat /\ Len(r) \in Nat /\ c \in Seq(T)
      /\ DOMAIN q = 1..Len(q) /\ DOMAIN r = 1..Len(r) /\ DOMAIN c = 1..(Len(q) + Len(r))
      /\ \A k \in DOMAIN q : c[k] = q[k]
      /\ \A k \in DOMAIN r : c[Len(q) + k] = r[k]
  BY SeqDomain, JoinIs
<1> HIDE DEF c
<1>2. \A k \in DOMAIN c : k \notin DOMAIN q =>
        k > Len(q) /\ k - Len(q) \in DOMAIN r /\ c[k] = r[k - Len(q)]
  BY <1>1
<1>3. \A k \in DOMAIN c : \/ k \in DOMAIN q /\ c[k] = q[k]
                          \/ k \notin DOMAIN q /\ k > Len(q) /\ c[k] \in Range(r)
  BY Zenon, <1>1, <1>2 DEF Range
<1>4. Range(c) = Range(q) \cup Range(r)
  <2>1. \A k \in DOMAIN q : k \in DOMAIN c
    BY <1>1
  <2>2. \A k \in DOMAIN r : Len(q) + k \in DOMAIN c
    BY <1>1
  <2>3. Range(c) \subseteq Range(q) \cup Range(r)
    BY Zenon, <1>3 DEF Range
  <2>4. Range(q) \subseteq Range(c)
    BY Zenon, <1>1, <2>1 DEF Range
  <2>5. Range(r) \subseteq Range(c)
    BY ZenonT(60), <1>1, <2>2 DEF Range
  <2> QED BY Zenon, <2>3, <2>4, <2>5
<1>5. ASSUME NEW a \in DOMAIN c, NEW b \in DOMAIN c, c[a] = c[b]
      PROVE  a = b
  <2>1. CASE a \in DOMAIN q /\ b \in DOMAIN q
    BY ZenonT(60), <1>1, <1>5, <2>1 DEF IsInjective
  <2>2. CASE a \notin DOMAIN q /\ b \notin DOMAIN q
    <3>1. a - Len(q) = b - Len(q)
      BY Zenon, <1>2, <1>5, <2>2 DEF IsInjective
    <3> QED BY <1>1, <3>1
  <2>3. CASE a \in DOMAIN q /\ b \notin DOMAIN q
    <3>1. c[a] \in Range(q)
      BY Zenon, <1>1, <2>3 DEF Range
    <3> QED BY Zenon, <1>3, <1>5, <2>3, <3>1
  <2>4. CASE a \notin DOMAIN q /\ b \in DOMAIN q
    <3>1. c[b] \in Range(q)
      BY Zenon, <1>1, <2>4 DEF Range
    <3> QED BY Zenon, <1>3, <1>5, <2>4, <3>1
  <2> QED BY Zenon, <2>1, <2>2, <2>3, <2>4
<1>6. IsInjective(c)
  BY Zenon, <1>5 DEF IsInjective
<1> QED BY Zenon, <1>3, <1>4, <1>6 DEF c

-----------------------------------------------------------------------------
LEMMA PlannerInvInit == PlannerInit => PlannerInv
<1> SUFFICES ASSUME PlannerInit PROVE PlannerInv
  BY Zenon
<1>1. Formed(plan)
  BY DEF PlannerInit, NoPlan, Formed, Range
<1>2. <<>> \in Seq(Strategies) /\ Len(<<>>) <= MAX_STRATEGIES /\ 0 \in 0..Len(<<>>)
  BY PlansFormed
<1>3. IsInjective(<<>>)
  BY DEF IsInjective
<1> QED BY Zenon, <1>1, <1>2, <1>3 DEF PlannerInit, PlannerInv, PlannerTypeOK

(* Before the check. *)
LEMMA PlansAreFormed ==
  /\ Formed(NoPlan) /\ Formed(plan_independent_batch) /\ Formed(plan_sequential_pipeline)
  /\ \A p \in Plans : Formed(p)
<1>1. Formed(NoPlan)
  BY DEF Formed, NoPlan, Range
<1>2. PlannedIds \in Seq(Range(PlannedIds))
  BY DEF PlannedIds, Range
<1>3. Formed(plan_independent_batch)
  BY <1>2 DEF Formed, plan_independent_batch, Range
<1>4. ASSUME NEW f, f = [i \in 1..3 |-> [src |-> PlannedIds[i], dst |-> PlannedIds[i + 1]]]
      PROVE  f \in Seq(Range(f))
  BY <1>4 DEF Range
<1>5. Formed(plan_sequential_pipeline)
  BY Zenon, <1>2, <1>4 DEF Formed, plan_sequential_pipeline
<1> QED BY Zenon, <1>1, <1>3, <1>5, PlansFormed DEF Formed

LEMMA PlanningInv ==
  ASSUME PlannerInv,
         \/ \E type \in Strategies : register_planning_strategy(type)
         \/ \E wl \in Workloads : generate_chunk_graph(wl)
         \/ phase = "idle" /\ \E p \in Plans : HandIn(p)
  PROVE  PlannerInv'
<1>1. ASSUME NEW type \in Strategies, register_planning_strategy(type)
      PROVE  PlannerInv'
  <2>1. registry' \in Seq(Strategies) /\ Len(registry') <= MAX_STRATEGIES
    BY <1>1, PlansFormed DEF PlannerInv, PlannerTypeOK, register_planning_strategy
  <2>2. phase = "idle" /\ UNCHANGED <<plan, phase, in_degree, queue, head, current, edge, verdict>>
    BY Zenon, <1>1 DEF register_planning_strategy, Verifier
  <2> QED BY Zenon, <2>1, <2>2 DEF PlannerInv, PlannerTypeOK, Formed
<1>2. ASSUME phase = "idle", phase' = "check", Formed(plan'), UNCHANGED <<registry, Verifier>>
      PROVE  PlannerInv'
  BY Zenon, <1>2 DEF PlannerInv, PlannerTypeOK, Verifier, Formed
<1>3. ASSUME NEW wl \in Workloads, generate_chunk_graph(wl)
      PROVE  PlannerInv'
  <2>1. plan' \in {NoPlan, plan_independent_batch, plan_sequential_pipeline}
    BY Zenon, <1>3 DEF generate_chunk_graph
  <2>2. Formed(plan')
    BY Zenon, <2>1, PlansAreFormed
  <2> QED BY Zenon, <1>2, <1>3, <2>2 DEF generate_chunk_graph
<1>4. ASSUME phase = "idle", NEW p \in Plans, HandIn(p)
      PROVE  PlannerInv'
  <2>1. Formed(plan')
    BY Zenon, <1>4, PlansAreFormed DEF HandIn
  <2> QED BY Zenon, <1>2, <1>4, <2>1 DEF HandIn
<1> QED BY Zenon, <1>1, <1>3, <1>4

-----------------------------------------------------------------------------
(* The plan stays as it is during the check. *)
LEMMA PlanKept ==
  ASSUME UNCHANGED plan
  PROVE  /\ PlanSlots' = PlanSlots /\ Formed(plan') = Formed(plan)
         /\ \A j : EdgesInto(j)' = EdgesInto(j)
         /\ Acyclic' <=> Acyclic
         /\ NoDanglingSource' <=> NoDanglingSource
BY Zenon DEF PlanSlots, Formed, EdgesInto, Acyclic, NoDanglingSource

LEMMA CountInv ==
  ASSUME PlannerInv, Count
  PROVE  PlannerInv'
<1>0. /\ Formed(plan) /\ phase = "check" /\ UNCHANGED <<registry, plan>>
      /\ registry \in Seq(Strategies) /\ Len(registry) <= MAX_STRATEGIES
  BY Zenon DEF PlannerInv, PlannerTypeOK, Count
<1>1. CASE ~plan.is_valid \/ plan.chunks = <<>>
  <2>1. /\ phase' = "done" /\ verdict' = FALSE
        /\ UNCHANGED <<in_degree, queue, head, current, edge>>
    BY Zenon, <1>1 DEF Count
  <2>2. Right'
    BY Zenon, <1>0, <1>1, <2>1 DEF Right
  <2> QED BY Zenon, <1>0, <2>1, <2>2, PlanKept DEF PlannerInv, PlannerTypeOK
<1>2. CASE ~(~plan.is_valid \/ plan.chunks = <<>>)
  <2> DEFINE N == {j \in PlanSlots : in_degree'[j] = 0}
  <2>1. /\ in_degree' = [j \in PlanSlots |-> Cardinality(EdgesInto(j))]
        /\ queue' = InOrder(N) /\ head' = 0 /\ phase' = "take"
        /\ UNCHANGED <<current, edge, verdict>>
    BY Zenon, <1>2 DEF Count
  <2>2. \A j \in PlanSlots : /\ in_degree'[j] = Cardinality(EdgesInto(j))
                             /\ Cardinality(EdgesInto(j)) \in Nat
                             /\ in_degree'[j] = 0 <=> EdgesInto(j) = {}
    BY Zenon, <1>0, <2>1, EdgesFinite
  <2>3. in_degree' \in [PlanSlots -> Int]
    BY <2>1, <2>2
  <2>4. queue' \in Seq(PlanSlots) /\ Range(queue') = N /\ IsInjective(queue')
    BY Zenon, <1>0, <2>1, InOrderIs
  <2>5. \A j \in PlanSlots : j \in Range(queue') <=> in_degree'[j] <= 0
    BY <2>2, <2>4
  <2>6. QueueOrdered'
    <3>1. \A k \in DOMAIN queue' : queue'[k] \in N
      BY Zenon, <2>4 DEF Range
    <3>2. \A k \in DOMAIN queue' : EdgesInto(queue'[k]) = {}
      BY Zenon, <2>2, <3>1
    <3> QED BY Zenon, <1>0, <3>2 DEF QueueOrdered, EdgesInto
  <2>7. \A j \in PlanSlots : Pending(j)' = EdgesInto(j)
    <3>1. 1..head' = {}
      BY <2>1
    <3>2. \A e : ~Relaxed(e)'
      BY Zenon, <3>1 DEF Relaxed
    <3> QED BY Zenon, <1>0, <3>2 DEF Pending, EdgesInto
  <2>8. RunningInv'
    BY ZenonT(60), <1>0, <1>2, <2>1, <2>2, <2>3, <2>4, <2>5, <2>6, <2>7, PlanKept DEF RunningInv
  <2>9. head' \in 0..Len(queue')
    BY <2>1, <2>4
  <2>10. verdict' \in BOOLEAN
    BY Zenon, <2>1 DEF PlannerInv, PlannerTypeOK
  <2> HIDE DEF N
  <2> QED BY Zenon, <1>0, <2>1, <2>3, <2>4, <2>8, <2>9, <2>10, PlanKept
             DEF PlannerInv, PlannerTypeOK
<1> QED BY Zenon, <1>1, <1>2

(* A chunk is taken: nothing is relaxed by that. *)
LEMMA TakeOneInv ==
  ASSUME PlannerInv, Take, head < Len(queue)
  PROVE  PlannerInv'
<1>1. /\ phase = "take" /\ phase' = "relax" /\ head' = head + 1
      /\ current' = queue[head + 1] /\ edge' = 1
      /\ UNCHANGED <<registry, plan, in_degree, queue, verdict>>
  BY Zenon DEF Take
<1>2. PlannerTypeOK /\ Formed(plan) /\ RunningInv /\ IsInjective(queue)
  BY Zenon, <1>1 DEF PlannerInv
<1>3. head \in Nat /\ Len(queue) \in Nat /\ head \in 0..Len(queue)
  BY <1>2 DEF PlannerTypeOK, RunningInv
<1>4. head' \in 0..Len(queue) /\ head' > 0 /\ edge' \in 1..(Len(plan.edges) + 1)
  BY <1>1, <1>2, <1>3, SlotsAre
<1>5. \A e \in DOMAIN plan.edges : Relaxed(e)' <=> Relaxed(e)
  <2>1. \A m \in 1..head' : \A e \in DOMAIN plan.edges :
          (m < head' \/ e < edge') <=> m \in 1..head
    BY SMTT(30), <1>1, <1>2, <1>3, SlotsAre
  <2>2. \A m \in 1..head : m \in 1..head'
    BY <1>1, <1>3
  <2>3. phase' # "take"
    BY Zenon, <1>1
  <2> QED BY Zenon, <1>1, <2>1, <2>2, <2>3 DEF Relaxed
<1>6. \A j : Pending(j)' = Pending(j)
  BY Zenon, <1>1, <1>5 DEF Pending, EdgesInto
<1>7. QueueOrdered => QueueOrdered'
  BY Zenon, <1>1 DEF QueueOrdered, EdgesInto
<1>8. RunningInv'
  BY Zenon, <1>1, <1>2, <1>4, <1>6, <1>7, PlanKept DEF RunningInv
<1> QED BY Zenon, <1>1, <1>2, <1>4, <1>8, PlanKept DEF PlannerInv, PlannerTypeOK, RunningInv

-----------------------------------------------------------------------------
(* The end of the check: the queue is used up. *)
LEMMA QueueFull ==
  ASSUME Formed(plan), queue \in Seq(PlanSlots), IsInjective(queue)
  PROVE  Len(queue) = Len(plan.chunks) <=> PlanSlots = Range(queue)
<1> DEFINE D == 1..Len(queue)
<1>1. Len(queue) \in Nat /\ DOMAIN queue = D /\ queue \in [D -> PlanSlots]
  BY Zenon, SeqDomain
<1>2. IsFiniteSet(D) /\ Cardinality(D) = Len(queue)
  <2>1. PICK n \in Nat : n = Len(queue)
    BY Zenon, <1>1
  <2>2. IsFiniteSet(1..n) /\ Cardinality(1..n) = n
    BY FS_Interval
  <2> QED BY Zenon, <2>1, <2>2
<1> HIDE DEF D
<1>3. queue \in Injection(D, PlanSlots)
  BY Zenon, <1>1 DEF Injection, IsInjective
<1>4. Cardinality(D) = Cardinality(PlanSlots) <=> queue \in Surjection(D, PlanSlots)
  BY Zenon, <1>3, SlotsAre, FS_Injection
<1>5. queue \in Surjection(D, PlanSlots) <=> PlanSlots = Range(queue)
  <2>1. Range(queue) \subseteq PlanSlots
    BY Zenon, <1>1 DEF Range
  <2>2. queue \in Surjection(D, PlanSlots) <=> \A j \in PlanSlots : \E k \in D : queue[k] = j
    BY Zenon, <1>1 DEF Surjection
  <2>3. (\A j \in PlanSlots : \E k \in D : queue[k] = j) <=> PlanSlots \subseteq Range(queue)
    BY Zenon, <1>1 DEF Range
  <2> QED BY Zenon, <2>1, <2>2, <2>3
<1> QED BY Zenon, <1>2, <1>4, <1>5, SlotsAre

(* All chunks went through the queue, each behind those it depends on. *)
LEMMA AllTaken ==
  ASSUME Formed(plan), queue \in Seq(PlanSlots), PlanSlots = Range(queue), QueueOrdered
  PROVE  Acyclic /\ NoDanglingSource
<1>0. DOMAIN queue \in SUBSET Nat
  BY SeqDomain
<1>1. NoDanglingSource
  <2> SUFFICES ASSUME NEW x \in DOMAIN plan.edges, plan.edges[x].dst \in Range(plan.chunks)
               PROVE  plan.edges[x].src \in Range(plan.chunks)
    BY Zenon DEF NoDanglingSource, Range
  <2>1. PICK j \in PlanSlots : plan.edges[x].dst = plan.chunks[j]
    BY Zenon DEF Range, PlanSlots
  <2>2. PICK k \in DOMAIN queue : j = queue[k]
    BY Zenon DEF Range
  <2>3. x \in EdgesInto(queue[k])
    BY Zenon, <2>1, <2>2 DEF EdgesInto
  <2>4. PICK m \in 1..(k - 1) : plan.chunks[queue[m]] = plan.edges[x].src
    BY Zenon, <2>3 DEF QueueOrdered
  <2>5. m \in DOMAIN queue
    BY <2>2, <2>4
  <2>6. queue[m] \in PlanSlots
    BY Zenon, <2>5, SeqDomain
  <2> QED BY Zenon, <2>4, <2>6 DEF Range, PlanSlots
<1>2. Acyclic
  <2> SUFFICES ASSUME NEW S \in SUBSET Range(plan.chunks), S # {}
               PROVE  \E n \in S : ~\E e \in Range(plan.edges) : e.src \in S /\ e.dst = n
    BY Zenon DEF Acyclic
  <2> DEFINE K == {k \in DOMAIN queue : plan.chunks[queue[k]] \in S}
  <2>1. K # {}
    <3>1. PICK j \in PlanSlots : plan.chunks[j] \in S
      BY Zenon DEF Range, PlanSlots
    <3>2. PICK k \in DOMAIN queue : j = queue[k]
      BY Zenon DEF Range
    <3> QED BY Zenon, <3>1, <3>2
  <2>2. PICK k \in K : \A i \in K : k <= i
    <3>1. K \in SUBSET Nat
      BY Zenon, <1>0
    <3> HIDE DEF K
    <3> QED BY Zenon, <2>1, <3>1, FirstIn
  <2>3. ASSUME NEW x \in DOMAIN plan.edges, plan.edges[x].src \in S,
               plan.edges[x].dst = plan.chunks[queue[k]]
        PROVE  FALSE
    <3>1. x \in EdgesInto(queue[k])
      BY Zenon, <2>3 DEF EdgesInto
    <3>2. PICK m \in 1..(k - 1) : plan.chunks[queue[m]] = plan.edges[x].src
      BY Zenon, <3>1 DEF QueueOrdered
    <3>3. k \in Nat /\ m \in DOMAIN queue /\ m < k /\ m \in Nat
      BY <3>2
    <3>4. k <= m
      BY Zenon, <2>2, <2>3, <3>2, <3>3
    <3> QED BY <3>3, <3>4
  <2>4. plan.chunks[queue[k]] \in S
    BY Zenon, <2>2
  <2> HIDE DEF K
  <2>5. ~\E e \in Range(plan.edges) : e.src \in S /\ e.dst = plan.chunks[queue[k]]
    BY Zenon, <2>3 DEF Range
  <2> QED BY Zenon, <2>4, <2>5
<1> QED BY Zenon, <1>1, <1>2

(* A chunk that did not go through the queue waits for another such chunk, *)
(* or for one that the plan does not have.                                 *)
LEMMA SomeLeft ==
  ASSUME Formed(plan), RunningInv, phase = "take", head = Len(queue),
         IsInjective(plan.chunks), PlanSlots # Range(queue), Acyclic, NoDanglingSource
  PROVE  FALSE
<1> DEFINE L == PlanSlots \ Range(queue)
           S == {plan.chunks[j] : j \in L}
<1>1. /\ queue \in Seq(PlanSlots) /\ Range(queue) \subseteq PlanSlots
      /\ Len(queue) \in Nat /\ DOMAIN queue = 1..Len(queue)
  <2>1. queue \in Seq(PlanSlots)
    BY Zenon DEF RunningInv
  <2>2. /\ Len(queue) \in Nat /\ DOMAIN queue = 1..Len(queue)
        /\ \A k \in DOMAIN queue : queue[k] \in PlanSlots
    BY Zenon, <2>1, SeqDomain
  <2> QED BY Zenon, <2>1, <2>2 DEF Range
<1>2. S # {} /\ S \in SUBSET Range(plan.chunks)
  BY Zenon, <1>1 DEF Range, PlanSlots
<1>3. PICK n \in S : ~\E e \in Range(plan.edges) : e.src \in S /\ e.dst = n
  BY Zenon, <1>2 DEF Acyclic
<1>4. PICK j \in L : n = plan.chunks[j]
  BY Zenon
<1>5. in_degree[j] = Cardinality(Pending(j)) /\ ~(in_degree[j] <= 0)
  BY Zenon, <1>4 DEF RunningInv
<1>6. Pending(j) # {}
  <2>1. Cardinality(Pending(j)) # 0
    BY <1>5
  <2> QED BY Zenon, <2>1, FS_EmptySet
<1>7. PICK x \in EdgesInto(j) : ~Relaxed(x)
  BY Zenon, <1>6 DEF Pending
<1>8. x \in DOMAIN plan.edges /\ plan.edges[x].dst = n /\ plan.edges[x] \in Range(plan.edges)
  BY Zenon, <1>4, <1>7 DEF EdgesInto, Range
<1>9. PICK i \in PlanSlots : plan.edges[x].src = plan.chunks[i]
  <2>1. n \in Range(plan.chunks)
    BY Zenon, <1>2
  <2> QED BY Zenon, <1>8, <2>1 DEF NoDanglingSource, Range, PlanSlots
<1>10. i \notin Range(queue)
  BY Zenon, <1>1, <1>7, <1>9 DEF Relaxed, Range
<1> QED BY Zenon, <1>3, <1>8, <1>9, <1>10

LEMMA TakeNoneInv ==
  ASSUME PlannerInv, Take, ~(head < Len(queue))
  PROVE  PlannerInv'
<1>1. /\ phase = "take" /\ phase' = "done" /\ verdict' = (head = Len(plan.chunks))
      /\ UNCHANGED <<registry, plan, in_degree, queue, head>>
  BY Zenon DEF Take
<1>2. PlannerTypeOK /\ Formed(plan) /\ RunningInv /\ IsInjective(queue)
  BY Zenon, <1>1 DEF PlannerInv
<1>3. head = Len(queue) /\ queue \in Seq(PlanSlots)
  BY <1>2 DEF PlannerTypeOK, RunningInv
<1>4. IsInjective(plan.chunks) => Right'
  <2> SUFFICES ASSUME IsInjective(plan.chunks)
               PROVE  Right'
    BY Zenon
  <2>1. plan'.is_valid /\ plan'.chunks # <<>> /\ UNCHANGED plan
    BY Zenon, <1>1, <1>2 DEF RunningInv
  <2>5. (Acyclic' <=> Acyclic) /\ (NoDanglingSource' <=> NoDanglingSource)
    BY Zenon, <2>1, PlanKept
  <2>2. verdict' <=> PlanSlots = Range(queue)
    BY Zenon, <1>1, <1>2, <1>3, QueueFull
  <2>3. PlanSlots = Range(queue) => Acyclic /\ NoDanglingSource
    BY Zenon, <1>2, <1>3, AllTaken DEF RunningInv
  <2>4. Acyclic /\ NoDanglingSource => PlanSlots = Range(queue)
    BY Zenon, <1>1, <1>2, <1>3, SomeLeft
  <2> QED BY Zenon, <2>1, <2>2, <2>3, <2>4, <2>5 DEF Right
<1> QED BY Zenon, <1>1, <1>2, <1>4, PlanKept DEF PlannerInv, PlannerTypeOK

-----------------------------------------------------------------------------
(* An edge is passed over, or the last one was looked at. *)
LEMMA PassInv ==
  ASSUME PlannerInv, phase = "relax", UNCHANGED <<registry, plan, head, current, verdict>>,
         UNCHANGED <<in_degree, queue>>,
         \/ edge > Len(plan.edges) /\ phase' = "take" /\ UNCHANGED edge
         \/ /\ edge <= Len(plan.edges) /\ plan.edges[edge].src # plan.chunks[current]
            /\ UNCHANGED phase /\ edge' = edge + 1
  PROVE  PlannerInv'
<1>1. PlannerTypeOK /\ Formed(plan) /\ RunningInv /\ IsInjective(queue)
  BY Zenon DEF PlannerInv
<1>2. /\ head \in Nat /\ head > 0 /\ current = queue[head] /\ edge \in 1..(Len(plan.edges) + 1)
      /\ Len(plan.edges) \in Nat /\ DOMAIN plan.edges = 1..Len(plan.edges)
  BY SMTT(30), <1>1, SlotsAre DEF PlannerTypeOK, RunningInv
<1>3. phase' \in {"take", "relax"} /\ (phase' = "relax" => edge' \in 1..(Len(plan.edges) + 1))
  BY <1>2
<1>4. \A e \in DOMAIN plan.edges : Relaxed(e)' <=> Relaxed(e)
  <2>1. CASE phase' = "take"
    <3>1. \A e \in DOMAIN plan.edges : e < edge
      BY <1>2, <2>1
    <3> QED BY Zenon, <2>1, <3>1 DEF Relaxed
  <2>2. CASE phase' = "relax"
    <3>1. plan.edges[edge].src # plan.chunks[queue[head]] /\ edge' = edge + 1
      BY Zenon, <1>2, <2>2
    <3>2. \A e \in DOMAIN plan.edges : e < edge' <=> (e < edge \/ e = edge)
      BY <1>2, <3>1
    <3>3. \A m \in 1..head : m < head \/ m = head
      BY <1>2
    <3> QED BY Zenon, <2>2, <3>1, <3>2, <3>3 DEF Relaxed
  <2> QED BY Zenon, <1>3, <2>1, <2>2
<1>5. \A j : Pending(j)' = Pending(j)
  BY Zenon, <1>4 DEF Pending, EdgesInto
<1>6. QueueOrdered => QueueOrdered'
  BY ZenonT(60) DEF QueueOrdered, EdgesInto
<1>7. RunningInv'
  BY Zenon, <1>1, <1>2, <1>3, <1>5, <1>6, PlanKept DEF RunningInv
<1> QED BY Zenon, <1>1, <1>3, <1>7, PlanKept DEF PlannerInv, PlannerTypeOK

LEMMA LessThanNext ==
  ASSUME NEW n \in Nat, NEW x \in 1..n
  PROVE  \A e \in 1..n : e < x + 1 <=> (e < x \/ e = x)
OBVIOUS

(* The queue grows by the slots N. *)
LEMMA QueueGrows ==
  ASSUME Formed(plan), queue \in Seq(PlanSlots), IsInjective(queue),
         NEW N \in SUBSET PlanSlots, Range(queue) \cap N = {}, NEW r, r = queue \o InOrder(N)
  PROVE  /\ r \in Seq(PlanSlots) /\ IsInjective(r) /\ Range(r) = Range(queue) \cup N
         /\ Len(r) \in Nat /\ Len(queue) <= Len(r)
         /\ \A k \in 1..Len(queue) : r[k] = queue[k]
         /\ \A k \in DOMAIN r : k \in 1..Len(queue) \/ (k > Len(queue) /\ r[k] \in N)
<1>1. PICK n \in Seq(PlanSlots) : n = InOrder(N) /\ Range(n) = N /\ IsInjective(n)
  BY Zenon, InOrderIs
<1>2. r = queue \o n
  BY Zenon, <1>1
<1>3. /\ IsInjective(r) /\ Range(r) = Range(queue) \cup N
      /\ \A k \in DOMAIN r : \/ k \in DOMAIN queue /\ r[k] = queue[k]
                             \/ k \notin DOMAIN queue /\ k > Len(queue) /\ r[k] \in N
  <2>1. Range(queue) \cap Range(n) = {}
    BY Zenon, <1>1
  <2> QED BY <1>1, <1>2, <2>1, JoinInjective
<1>4. /\ r \in Seq(PlanSlots) /\ Len(r) = Len(queue) + Len(n)
      /\ \A k \in 1..Len(queue) : r[k] = queue[k]
  BY <1>2, JoinIs
<1>5. Len(r) \in Nat /\ Len(queue) <= Len(r) /\ DOMAIN queue = 1..Len(queue)
  BY <1>4
<1> QED BY Zenon, <1>3, <1>4, <1>5

(* An edge is relaxed that was not before. *)
LEMMA EdgeRelaxed ==
  ASSUME queue \in Seq(PlanSlots), IsInjective(queue), IsInjective(plan.chunks),
         phase = "relax", UNCHANGED <<plan, phase, head>>,
         Len(plan.edges) \in Nat, DOMAIN plan.edges = 1..Len(plan.edges),
         edge \in DOMAIN plan.edges, edge' = edge + 1, head \in 1..Len(queue),
         plan.edges[edge].src = plan.chunks[queue[head]],
         \A k \in 1..Len(queue) : queue'[k] = queue[k]
  PROVE  \A j : /\ Pending(j)' = Pending(j) \ {edge}
                /\ edge \in Pending(j) <=> plan.edges[edge].dst = plan.chunks[j]
<1>1. /\ \A m \in 1..head : queue'[m] = queue[m] /\ (m < head \/ m = head)
      /\ head \in 1..head /\ \A m \in 1..head : m \in DOMAIN queue
  <2>1. Len(queue) \in Nat /\ DOMAIN queue = 1..Len(queue)
    BY Zenon, SeqDomain
  <2>2. \A m \in 1..head : m \in 1..Len(queue) /\ (m < head \/ m = head)
    BY <2>1
  <2>3. head \in 1..head
    BY <2>1
  <2> QED BY Zenon, <2>1, <2>2, <2>3
<1>2. \A e \in DOMAIN plan.edges : e < edge' <=> (e < edge \/ e = edge)
  BY Zenon, LessThanNext
<1>3. \A e \in DOMAIN plan.edges : Relaxed(e)' <=> Relaxed(e) \/ e = edge
  BY Zenon, <1>1, <1>2 DEF Relaxed
<1>4. ~Relaxed(edge)
  <2>1. ~(edge < edge)
    OBVIOUS
  <2> SUFFICES ASSUME NEW m \in 1..head, plan.chunks[queue[m]] = plan.edges[edge].src, m < head
               PROVE  FALSE
    BY Zenon, <2>1 DEF Relaxed
  <2>2. queue[m] \in PlanSlots /\ queue[head] \in PlanSlots
    BY Zenon, <1>1, SeqDomain
  <2>3. queue[m] = queue[head]
    BY Zenon, <2>2 DEF IsInjective, PlanSlots
  <2>4. m = head
    BY Zenon, <1>1, <2>3 DEF IsInjective
  <2> QED BY <2>4
<1>5. \A j : Pending(j)' = Pending(j) \ {edge}
  BY Zenon, <1>3 DEF Pending, EdgesInto
<1>6. \A j : edge \in Pending(j) <=> plan.edges[edge].dst = plan.chunks[j]
  BY Zenon, <1>4 DEF Pending, EdgesInto
<1> QED BY Zenon, <1>5, <1>6

(* What enters the queue has all its edges from chunks taken before. *)
LEMMA NonePending ==
  ASSUME NEW j, UNCHANGED plan, Pending(j)' = {}, NEW e \in EdgesInto(j)
  PROVE  Relaxed(e)'
BY Zenon DEF Pending, EdgesInto

LEMMA QueueOrderedNext ==
  ASSUME UNCHANGED plan, NEW r, queue' = r,
         \A k \in DOMAIN r : \A e \in EdgesInto(r[k]) :
           \E m \in 1..(k - 1) : plan.chunks[r[m]] = plan.edges[e].src
  PROVE  QueueOrdered'
BY Zenon DEF QueueOrdered, EdgesInto

LEMMA OrderKept ==
  ASSUME QueueOrdered, UNCHANGED plan, UNCHANGED head, queue \in Seq(PlanSlots), head \in 1..Len(queue),
         NEW r, queue' = r, \A k \in 1..Len(queue) : r[k] = queue[k],
         \A k \in DOMAIN r : \/ k \in 1..Len(queue)
                             \/ k \in Nat /\ k > Len(queue) /\ Pending(r[k])' = {}
  PROVE  QueueOrdered'
<1>0. Len(queue) \in Nat /\ DOMAIN queue = 1..Len(queue)
  BY Zenon, SeqDomain
<1> SUFFICES ASSUME NEW k \in DOMAIN r, NEW e \in EdgesInto(r[k])
             PROVE  \E m \in 1..(k - 1) : plan.chunks[r[m]] = plan.edges[e].src
  BY Zenon, QueueOrderedNext
<1>1. CASE k \in 1..Len(queue)
  <2>1. PICK m \in 1..(k - 1) : plan.chunks[queue[m]] = plan.edges[e].src
    BY Zenon, <1>0, <1>1 DEF QueueOrdered
  <2>2. m \in 1..Len(queue)
    BY <1>0, <1>1
  <2> QED BY Zenon, <2>1, <2>2
<1>2. CASE k \in Nat /\ k > Len(queue) /\ Pending(r[k])' = {}
  <2>1. Relaxed(e)'
    BY Zenon, <1>2, NonePending
  <2>2. PICK m \in 1..head : plan.chunks[r[m]] = plan.edges[e].src
    BY Zenon, <2>1 DEF Relaxed
  <2>3. m \in 1..(k - 1)
    BY <1>0, <1>2
  <2> QED BY Zenon, <2>2, <2>3
<1> QED BY Zenon, <1>1, <1>2

LEMMA RelaxOneInv ==
  ASSUME PlannerInv, Relax, ~(edge > Len(plan.edges)),
         plan.edges[edge].src = plan.chunks[current]
  PROVE  PlannerInv'
<1>1. PICK dst : dst = plan.edges[edge].dst
  BY Zenon
<1>2. PICK N : N = {j \in PlanSlots : plan.chunks[j] = dst /\ in_degree'[j] = 0}
  BY Zenon
<1>3. /\ in_degree' = Lower(in_degree, dst) /\ queue' = queue \o InOrder(N)
      /\ phase = "relax" /\ phase' = "relax" /\ edge' = edge + 1
      /\ UNCHANGED <<registry, plan, head, current, verdict>>
  BY Zenon, <1>1, <1>2 DEF Relax
<1>4. /\ PlannerTypeOK /\ Formed(plan) /\ RunningInv /\ IsInjective(queue)
      /\ queue \in Seq(PlanSlots)
  BY Zenon, <1>3 DEF PlannerInv, RunningInv
<1>5. /\ head \in 1..Len(queue) /\ current = queue[head] /\ edge \in 1..Len(plan.edges)
      /\ Len(plan.edges) \in Nat /\ DOMAIN plan.edges = 1..Len(plan.edges)
      /\ Len(queue) \in Nat
  <2>1. /\ head \in 0..Len(queue) /\ head > 0 /\ edge \in 1..(Len(plan.edges) + 1)
        /\ current = queue[head]
    BY Zenon, <1>3, <1>4 DEF PlannerTypeOK, RunningInv
  <2>2. Len(plan.edges) \in Nat /\ DOMAIN plan.edges = 1..Len(plan.edges)
    BY Zenon, <1>4, SlotsAre
  <2>3. Len(queue) \in Nat
    BY Zenon, <1>4, SeqDomain
  <2>4. head \in 1..Len(queue) /\ edge \in 1..Len(plan.edges)
    BY <2>1, <2>2, <2>3
  <2> QED BY Zenon, <2>1, <2>2, <2>3, <2>4
<1>6. \A j \in PlanSlots : /\ in_degree[j] \in Int
                           /\ j \in Range(queue) <=> in_degree[j] <= 0
  BY Zenon, <1>4 DEF RunningInv
<1>7. /\ \A j \in PlanSlots : in_degree'[j] = IF plan.chunks[j] = dst THEN in_degree[j] - 1
                                                                 ELSE in_degree[j]
      /\ in_degree' \in [PlanSlots -> Int]
  <2>1. \A j \in PlanSlots : in_degree[j] - 1 \in Int
    BY <1>6
  <2> QED BY Zenon, <1>3, <1>6, <2>1 DEF Lower
<1>8. N \in SUBSET PlanSlots /\ Range(queue) \cap N = {}
  <2>1. \A j \in N : j \in PlanSlots /\ in_degree[j] - 1 = 0
    BY Zenon, <1>2, <1>7
  <2>2. \A j \in N : ~(in_degree[j] <= 0)
    BY <1>6, <2>1
  <2> QED BY Zenon, <1>6, <2>1, <2>2
<1>9. PICK r : r = queue \o InOrder(N)
  BY Zenon
<1>10. /\ r \in Seq(PlanSlots) /\ IsInjective(r) /\ Range(r) = Range(queue) \cup N
       /\ Len(r) \in Nat /\ Len(queue) <= Len(r)
       /\ \A k \in 1..Len(queue) : r[k] = queue[k]
       /\ \A k \in DOMAIN r : k \in 1..Len(queue) \/ (k > Len(queue) /\ r[k] \in N)
  BY Zenon, <1>4, <1>8, <1>9, QueueGrows
<1>11. queue' = r /\ UNCHANGED <<registry, plan, head, current, verdict, phase>>
  BY Zenon, <1>3, <1>9
<1>12. \A j \in PlanSlots : j \in Range(r) <=> in_degree'[j] <= 0
  <2> SUFFICES ASSUME NEW j \in PlanSlots PROVE j \in Range(r) <=> in_degree'[j] <= 0
    BY Zenon
  <2>1. CASE plan.chunks[j] = dst
    <3>1. in_degree'[j] = in_degree[j] - 1 /\ (j \in N <=> in_degree'[j] = 0)
      BY Zenon, <1>2, <1>7, <2>1
    <3>2. in_degree'[j] <= 0 <=> in_degree[j] <= 0 \/ in_degree'[j] = 0
      BY <1>6, <3>1
    <3> QED BY Zenon, <1>6, <1>10, <3>1, <3>2
  <2>2. CASE plan.chunks[j] # dst
    BY ZenonT(60), <1>2, <1>6, <1>7, <1>10, <2>2
  <2> QED BY Zenon, <2>1, <2>2
<1>13. head \in 0..Len(r) /\ head > 0 /\ edge' \in 1..(Len(plan.edges) + 1)
  BY <1>3, <1>5, <1>10
<1>14. ASSUME IsInjective(plan.chunks)
       PROVE  QueueOrdered' /\ \A j \in PlanSlots : in_degree'[j] = Cardinality(Pending(j)')
  <2>1. \A j : /\ Pending(j)' = Pending(j) \ {edge}
               /\ edge \in Pending(j) <=> plan.edges[edge].dst = plan.chunks[j]
    BY ZenonT(60), <1>3, <1>4, <1>5, <1>10, <1>11, <1>14, EdgeRelaxed
  <2>2. ASSUME NEW j \in PlanSlots
        PROVE  in_degree'[j] = Cardinality(Pending(j)')
    <3>1. Pending(j) \in SUBSET EdgesInto(j)
      BY Zenon DEF Pending
    <3>2. IsFiniteSet(Pending(j)) /\ Cardinality(Pending(j)) = in_degree[j]
      BY Zenon, <1>4, <1>14, <3>1, EdgesFinite DEF RunningInv
    <3>3. Cardinality(Pending(j) \ {edge}) = IF edge \in Pending(j) THEN in_degree[j] - 1
                                                                   ELSE in_degree[j]
      BY Zenon, <3>2, FS_RemoveElement
    <3>4. Pending(j)' = Pending(j) \ {edge}
      BY Zenon, <2>1
    <3>5. in_degree'[j] = IF edge \in Pending(j) THEN in_degree[j] - 1 ELSE in_degree[j]
      <4>1. CASE plan.chunks[j] = dst
        <5>1. edge \in Pending(j)
          BY Zenon, <1>1, <2>1, <4>1
        <5> QED BY Zenon, <1>7, <4>1, <5>1
      <4>2. CASE plan.chunks[j] # dst
        <5>1. edge \notin Pending(j)
          BY Zenon, <1>1, <2>1, <4>2
        <5> QED BY Zenon, <1>7, <4>2, <5>1
      <4> QED BY Zenon, <4>1, <4>2
    <3> QED BY Zenon, <3>3, <3>4, <3>5
  <2>3. ASSUME NEW k \in DOMAIN r, r[k] \in N
        PROVE  Pending(r[k])' = {}
    <3>1. r[k] \in PlanSlots /\ in_degree'[r[k]] = 0
      BY Zenon, <1>2, <2>3
    <3>2. Pending(r[k])' \in SUBSET EdgesInto(r[k])
      BY Zenon, <1>11 DEF Pending, EdgesInto
    <3>3. Cardinality(Pending(r[k])') = 0
      BY Zenon, <2>2, <3>1
    <3> QED BY Zenon, <1>4, <3>2, <3>3, EdgesFinite
  <2>4. \A k \in DOMAIN r : k \in Nat
    BY <1>10
  <2>5. \A k \in DOMAIN r : \/ k \in 1..Len(queue)
                            \/ k \in Nat /\ k > Len(queue) /\ Pending(r[k])' = {}
    BY Zenon, <1>10, <2>3, <2>4
  <2>6. QueueOrdered
    BY Zenon, <1>4, <1>14 DEF RunningInv
  <2>7. QueueOrdered'
    BY ZenonT(60), <1>4, <1>5, <1>10, <1>11, <2>5, <2>6, OrderKept
  <2> QED BY Zenon, <2>2, <2>7
<1>15. RunningInv'
  <2>1. current' = r[head']
    BY Zenon, <1>5, <1>10, <1>11
  <2>2. /\ PlanSlots' = PlanSlots /\ plan' = plan /\ queue' = r /\ head' = head /\ phase' = phase
    BY Zenon, <1>11, PlanKept
  <2>3. plan'.is_valid /\ plan'.chunks # <<>>
    BY Zenon, <1>4, <2>2 DEF RunningInv
  <2>4. IsInjective(plan'.chunks) =>
          QueueOrdered' /\ \A j \in PlanSlots' : in_degree'[j] = Cardinality(Pending(j)')
    BY Zenon, <1>14, <2>2
  <2>5. /\ in_degree' \in [PlanSlots' -> Int] /\ queue' \in Seq(PlanSlots')
        /\ \A j \in PlanSlots' : j \in Range(queue') <=> in_degree'[j] <= 0
    BY Zenon, <1>7, <1>10, <1>12, <2>2
  <2>6. head' > 0 /\ current' = queue'[head'] /\ edge' \in 1..(Len(plan'.edges) + 1)
    BY Zenon, <1>13, <2>1, <2>2
  <2> QED BY Zenon, <2>2, <2>3, <2>4, <2>5, <2>6 DEF RunningInv
<1>16. /\ registry' \in Seq(Strategies) /\ Len(registry') <= MAX_STRATEGIES
       /\ verdict' \in BOOLEAN /\ head' \in 0..Len(queue') /\ IsInjective(queue')
       /\ phase' = "relax" /\ Formed(plan')
       /\ in_degree' \in [PlanSlots' -> Int] /\ queue' \in Seq(PlanSlots')
  <2>1. PlanSlots' = PlanSlots /\ Formed(plan')
    BY Zenon, <1>4, <1>11, PlanKept
  <2> QED BY ZenonT(60), <1>3, <1>4, <1>7, <1>10, <1>11, <1>13, <2>1 DEF PlannerTypeOK
<1> QED BY Zenon, <1>15, <1>16 DEF PlannerInv, PlannerTypeOK

LEMMA PlannerInvNext ==
  ASSUME PlannerInv, [PlannerNext]_plannerVars
  PROVE  PlannerInv'
<1>1. CASE Relax
  <2>1. CASE edge > Len(plan.edges)
    BY Zenon, <1>1, <2>1, PassInv DEF Relax
  <2>2. CASE ~(edge > Len(plan.edges)) /\ plan.edges[edge].src # plan.chunks[current]
    <3>1. edge <= Len(plan.edges)
      <4>1. edge \in Int /\ Len(plan.edges) \in Nat
        <5>1. RunningInv /\ Formed(plan)
          BY Zenon, <1>1 DEF PlannerInv, Relax
        <5>2. edge \in 1..(Len(plan.edges) + 1) /\ Len(plan.edges) \in Nat
          BY Zenon, <1>1, <5>1, SlotsAre DEF RunningInv, Relax
        <5> QED BY <5>2
      <4> QED BY <2>2, <4>1
    <3> QED BY Zenon, <1>1, <2>2, <3>1, PassInv DEF Relax
  <2> QED BY Zenon, <1>1, <2>1, <2>2, RelaxOneInv
<1>2. CASE UNCHANGED plannerVars
  <2>1. RunningInv => RunningInv'
    <3>1. UNCHANGED <<plan, phase, in_degree, queue, head, current, edge>>
      BY Zenon, <1>2 DEF plannerVars
    <3>2. QueueOrdered' <=> QueueOrdered
      <4>1. UNCHANGED <<plan, queue>>
        BY Zenon, <3>1
      <4> QED BY SMT, <4>1 DEF QueueOrdered, EdgesInto
    <3>3. \A j : Pending(j)' = Pending(j)
      <4>1. \A e : Relaxed(e)' <=> Relaxed(e)
        BY Zenon, <3>1 DEF Relaxed
      <4>2. \A j : EdgesInto(j)' = EdgesInto(j)
        BY Zenon, <3>1, PlanKept
      <4> QED BY Zenon, <4>1, <4>2 DEF Pending
    <3> QED BY Zenon, <3>1, <3>2, <3>3, PlanKept DEF RunningInv
  <2>2. Right => Right'
    BY Zenon, <1>2, PlanKept DEF plannerVars, Right
  <2> QED BY Zenon, <1>2, <2>1, <2>2, PlanKept DEF plannerVars, PlannerInv, PlannerTypeOK
<1> QED BY Zenon, <1>1, <1>2, PlanningInv, CountInv, TakeOneInv, TakeNoneInv
           DEF PlannerNext, verify_plan_topology_is_dag

LEMMA PlannerInvariance == PlannerSpec => []PlannerInv
<1>1. PlannerInv /\ [PlannerNext]_plannerVars => PlannerInv'
  BY Zenon, PlannerInvNext
<1> QED BY <1>1, PlannerInvInit, PTL DEF PlannerSpec

(* What the strategies make are DAGs of distinct chunks. *)
LEMMA StrategiesMakeDAGs ==
  ASSUME plan \in {plan_independent_batch, plan_sequential_pipeline}
  PROVE  /\ IsInjective(plan.chunks) /\ plan.is_valid /\ plan.chunks # <<>>
         /\ Acyclic /\ NoDanglingSource
<1>1. /\ plan.chunks = PlannedIds /\ plan.is_valid
      /\ \/ plan.edges = <<>>
         \/ plan.edges = [i \in 1..3 |-> [src |-> PlannedIds[i], dst |-> PlannedIds[i + 1]]]
  BY DEF plan_independent_batch, plan_sequential_pipeline
<1>2. /\ DOMAIN PlannedIds = 1..4 /\ \A i \in 1..4 : PlannedIds[i] = i
      /\ Range(PlannedIds) = 1..4
  BY DEF PlannedIds, Range
<1>3. IsInjective(plan.chunks) /\ plan.chunks # <<>>
  BY <1>1, <1>2 DEF IsInjective
<1>4. \A e \in Range(plan.edges) : e.src \in 1..3 /\ e.dst = e.src + 1
  <2>1. CASE plan.edges = <<>>
    BY <2>1 DEF Range
  <2>2. CASE plan.edges = [i \in 1..3 |-> [src |-> PlannedIds[i], dst |-> PlannedIds[i + 1]]]
    <3>1. \A i \in 1..3 : plan.edges[i].src = i /\ plan.edges[i].dst = i + 1
      BY <1>2, <2>2
    <3>2. DOMAIN plan.edges = 1..3
      BY Zenon, <2>2
    <3> QED BY <3>1, <3>2 DEF Range
  <2> QED BY Zenon, <1>1, <2>1, <2>2
<1>5. NoDanglingSource
  BY <1>1, <1>2, <1>4 DEF NoDanglingSource
<1>6. Acyclic
  <2> SUFFICES ASSUME NEW S \in SUBSET (1..4), S # {}
               PROVE  \E n \in S : ~\E e \in Range(plan.edges) : e.src \in S /\ e.dst = n
    BY Zenon, <1>1, <1>2 DEF Acyclic
  <2>1. PICK n \in S : \A i \in S : n <= i
    <3>1. S \in SUBSET Nat
      OBVIOUS
    <3> QED BY Zenon, <3>1, FirstIn
  <2>2. ASSUME NEW e \in Range(plan.edges), e.src \in S, e.dst = n
        PROVE  FALSE
    <3>1. e.src \in 1..3 /\ n = e.src + 1 /\ n <= e.src
      BY Zenon, <1>4, <2>1, <2>2
    <3> QED BY <3>1
  <2> QED BY Zenon, <2>2
<1> QED BY Zenon, <1>1, <1>3, <1>5, <1>6

(* The check of a plan, chunk_planner.c, for any plan of any size: for a   *)
(* plan with distinct chunk ids its verdict is exactly whether the plan is *)
(* valid, has chunks, is acyclic and depends on no chunk it does not have; *)
(* what the strategies make passes; and even where ids repeat no chunk     *)
(* enters the queue twice.                                                 *)
THEOREM VerdictsAreRight == PlannerSpec => []VerdictRight
<1>1. PlannerInv => VerdictRight
  <2> SUFFICES ASSUME PlannerInv PROVE VerdictRight
    BY Zenon
  <2>1. phase = "done" /\ IsInjective(plan.chunks) => Right
    BY Zenon DEF PlannerInv
  <2>2. phase = "done" /\ plan \in {plan_independent_batch, plan_sequential_pipeline} => verdict
    BY Zenon, <2>1, StrategiesMakeDAGs DEF Right
  <2> QED BY Zenon, <2>1, <2>2 DEF PlannerInv, VerdictRight, Right
<1> QED BY <1>1, PlannerInvariance, PTL
=============================================================================
