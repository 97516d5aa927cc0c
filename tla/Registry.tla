------------------------------- MODULE Registry -------------------------------
(***************************************************************************)
(* The worker registry of the master (master/src/registry.c): who joined,  *)
(* who was heard of when, which chunks each worker has, the sweep that     *)
(* declares silent workers dead, and the snapshots handed to readers.      *)
(* Every call runs under ctx->mutex and is one step; the time a sweep      *)
(* compares with is read by its caller before (ReadClock).  Endpoints and  *)
(* capabilities are copied and never looked at: they are left out.         *)
(***************************************************************************)
EXTENDS Tables, FiniteSets

CONSTANTS
  WorkerId, ChunkId, Reader,
  REG_MAX_WORKERS, REG_MAX_CHUNKS, REG_RING_SIZE,
  TIMEOUT,               \* timeout_ms of the sweeps
  MAX_OUT,               \* room for names in the sweeper's array
  WORD,                  \* 2^64 in the code: the modulus of uint64_t
  Blank,                 \* an unused slot of the ring
  MaxVersion, MaxTime    \* bounds on what callers ask for and on the clock

ASSUME RegistrySizes ==
  /\ REG_MAX_WORKERS \in Nat /\ REG_MAX_CHUNKS \in Nat /\ REG_RING_SIZE \in Nat \ {0}
  /\ MAX_OUT \in Nat /\ MaxVersion \in Nat /\ MaxTime \in Nat

VARIABLES
  state,                 \* [records, snapshot_version]
  pool, tail, refs, handle,
  clock, sweep_now,
  gone                   \* history: left, or reported dead, and not heard since

vars == <<state, pool, tail, refs, handle, clock, sweep_now, gone>>
ring == <<pool, tail, refs, handle>>

NoSweep == -1
WorkerRecord == [worker_id : WorkerId,
                 status : {"APPROVED", "HEALTHY", "DISCONNECTED"},
                 last_seen_ms : Nat, active_chunk_ids : Seq(ChunkId)]
RegistrySnapshot == [records : Seq(WorkerRecord), snapshot_version : Nat]

Ring == INSTANCE SnapshotRing
          WITH value <- state, Value <- RegistrySnapshot, RING <- REG_RING_SIZE

Init == /\ state = [records |-> <<>>, snapshot_version |-> 1]
        /\ Ring!RingInit
        /\ clock = 0 /\ sweep_now = NoSweep /\ gone = {}

-----------------------------------------------------------------------------
RecordSlots(id) == {i \in DOMAIN state.records : state.records[i].worker_id = id}
Rec(id) == state.records[First(RecordSlots(id))]

(* The call changes the table to rs. *)
Update(rs) ==
  /\ state.snapshot_version < MaxVersion
  /\ state' = [records |-> rs, snapshot_version |-> state.snapshot_version + 1]
  /\ UNCHANGED <<pool, tail, refs, handle, clock, sweep_now>>
UpdateRecord(id, r) ==
  /\ RecordSlots(id) # {}
  /\ Update([state.records EXCEPT ![First(RecordSlots(id))] = r])

on_worker_join(id) ==
  /\ \/ UpdateRecord(id, [Rec(id) EXCEPT !.status = "APPROVED",
                                         !.last_seen_ms = clock])
     \/ /\ RecordSlots(id) = {} /\ Len(state.records) < REG_MAX_WORKERS
        /\ Update(Append(state.records,
                         [worker_id |-> id, status |-> "APPROVED",
                          last_seen_ms |-> clock, active_chunk_ids |-> <<>>]))
  /\ gone' = gone \ {id}

on_worker_heartbeat(id) ==
  /\ UpdateRecord(id, [Rec(id) EXCEPT !.last_seen_ms = clock,
                         !.status = IF @ = "DISCONNECTED" THEN "HEALTHY" ELSE @])
  /\ gone' = gone \ {id}

on_worker_leave(id) ==
  /\ UpdateRecord(id, [Rec(id) EXCEPT !.status = "DISCONNECTED"])
  /\ gone' = gone \cup {id}

track_chunk(id, c) ==
  /\ RecordSlots(id) # {} /\ Len(Rec(id).active_chunk_ids) < REG_MAX_CHUNKS
  /\ UpdateRecord(id, [Rec(id) EXCEPT !.active_chunk_ids = Append(@, c)])
  /\ UNCHANGED gone

untrack_chunk(id, c) ==
  LET at == {j \in DOMAIN Rec(id).active_chunk_ids : Rec(id).active_chunk_ids[j] = c}
  IN  /\ RecordSlots(id) # {} /\ at # {}
      /\ UpdateRecord(id, [Rec(id) EXCEPT !.active_chunk_ids = Remove(@, First(at))])
      /\ UNCHANGED gone

ReadClock == /\ sweep_now = NoSweep
             /\ sweep_now' = clock
             /\ UNCHANGED <<state, pool, tail, refs, handle, clock, gone>>

(* Mutant: workers that joined and never sent a heartbeat are left out. *)
Dead_HealthyOnly(now) ==
  {i \in DOMAIN state.records :
     /\ state.records[i].status = "HEALTHY"
     /\ (now - state.records[i].last_seen_ms) % WORD > TIMEOUT}

Dead(now) == {i \in DOMAIN state.records :
                /\ state.records[i].status # "DISCONNECTED"
                /\ (now - state.records[i].last_seen_ms) % WORD > TIMEOUT}

(* Mutant: the last place in the array is not used. *)
Reported_OneLess(dead) == {i \in dead : Cardinality({j \in dead : j < i}) < MAX_OUT - 1}

(* The dead workers whose names fit into the sweeper's array. *)
Reported(dead) == {i \in dead : Cardinality({j \in dead : j < i}) < MAX_OUT}

(* Mutant: the version is left alone. *)
sweep_stale_SameVersion(now) ==
  /\ state' =
       [state EXCEPT !.records =
          [i \in DOMAIN @ |-> IF i \in Dead(now)
                                THEN [@[i] EXCEPT !.status = "DISCONNECTED"] ELSE @[i]]]
  /\ gone' = gone \cup {state.records[i].worker_id : i \in Reported(Dead(now))}

sweep_stale(now) ==
  /\ state' =
       [records |-> [i \in DOMAIN state.records |->
                       IF i \in Dead(now)
                         THEN [state.records[i] EXCEPT !.status = "DISCONNECTED"]
                         ELSE state.records[i]],
        snapshot_version |-> state.snapshot_version + Cardinality(Dead(now))]
  /\ gone' = gone \cup {state.records[i].worker_id : i \in Reported(Dead(now))}

Sweep == /\ sweep_now # NoSweep
         /\ sweep_stale(sweep_now)
         /\ sweep_now' = NoSweep
         /\ UNCHANGED <<pool, tail, refs, handle, clock>>

acquire_snapshot(r) == Ring!acquire(r) /\ UNCHANGED <<clock, sweep_now, gone>>
release_snapshot(r) == Ring!release(r) /\ UNCHANGED <<clock, sweep_now, gone>>

Advance == /\ clock < MaxTime
           /\ clock' = clock + 1
           /\ UNCHANGED <<state, pool, tail, refs, handle, sweep_now, gone>>

Next == \/ \E id \in WorkerId : \/ on_worker_join(id)
                                \/ on_worker_heartbeat(id)
                                \/ on_worker_leave(id)
                                \/ \E c \in ChunkId : \/ track_chunk(id, c)
                                                      \/ untrack_chunk(id, c)
        \/ \E r \in Reader : acquire_snapshot(r) \/ release_snapshot(r)
        \/ ReadClock \/ Sweep \/ Advance

Spec == Init /\ [][Next]_vars

(* Sweeps keep being made and time goes on. *)
FairSpec == Spec /\ WF_vars(ReadClock) /\ WF_vars(Sweep) /\ WF_vars(Advance)
-----------------------------------------------------------------------------
(* Type invariant. *)
TypeOK == /\ state \in RegistrySnapshot
          /\ Len(state.records) <= REG_MAX_WORKERS
          /\ \A i \in DOMAIN state.records :
               Len(state.records[i].active_chunk_ids) <= REG_MAX_CHUNKS
          /\ Ring!RingTypeOK
          /\ clock \in 0..MaxTime
          /\ sweep_now \in {NoSweep} \cup 0..MaxTime
          /\ gone \subseteq WorkerId

(* Safety: the version orders and identifies what readers see: a held      *)
(* snapshot is never newer than the registry, and one with its version is  *)
(* equal to it.  Every call that changes a record bumps the version.       *)
VersionIdentifies ==
  \A r \in Reader :
    handle[r] # Ring!NoHandle =>
      LET s == pool[handle[r]]
      IN  /\ s.snapshot_version <= state.snapshot_version
          /\ s.snapshot_version = state.snapshot_version => s = state

(* Safety: a worker has one record however often it joins, leaves and      *)
(* joins again, and none dies silently: one that is disconnected said so   *)
(* or was named to the sweeper.  Needs room for all names (MAX_OUT).       *)
NoSilentDeath ==
  /\ TypeOK
  /\ \A i, j \in DOMAIN state.records :
       state.records[i].worker_id = state.records[j].worker_id => i = j
  /\ \A i \in DOMAIN state.records :
       state.records[i].status = "DISCONNECTED" => state.records[i].worker_id \in gone

(* Liveness: a worker that is not heard of again is disconnected, if time  *)
(* goes on for longer than the timeout.                                    *)
SilenceNoticed ==
  \A i \in 1..REG_MAX_WORKERS, t \in 0..MaxTime :
    t + TIMEOUT < MaxTime =>
      (i \in DOMAIN state.records /\ state.records[i].last_seen_ms = t)
        ~> (i \in DOMAIN state.records /\
             \/ state.records[i].last_seen_ms # t
             \/ state.records[i].status = "DISCONNECTED")
=============================================================================
