----------------------------- MODULE ClusterState -----------------------------
(***************************************************************************)
(* The authoritative cluster state of the master and its journal           *)
(* (master/src/cluster_state.c), with what main does to it around a crash: *)
(* create, recover, and a journal written over and over.  Every call runs  *)
(* under context_mutex.  cluster_state_persist_to_wal truncates the file   *)
(* when it opens it and writes later: the two are steps of their own, the  *)
(* mutex is held in between and the process may die there.  Memory and     *)
(* cores are accounted alike and stand as one resource; last_seen and the  *)
(* progress of a lease, which nothing reads, are left out.                 *)
(***************************************************************************)
EXTENDS Tables

CONSTANTS
  Members,                     \* what workers may register as
  ChunkId, Reader,
  CLUSTER_MAX_WORKERS, CLUSTER_MAX_ACTIVE_LEASES, SNAPSHOT_RING_SIZE,
  NoFile, Torn, Blank,         \* no journal, an incomplete one, an unused slot
  MaxGeneration, MaxEpoch      \* bounds

(* A worker that comes back online is one that may register. *)
ASSUME MemberRecords ==
  \A m \in Members :
    /\ m = [worker_id |-> m.worker_id, health |-> m.health,
            total |-> m.total, reserved |-> m.reserved]
    /\ m.total \in Nat /\ m.reserved \in Nat
    /\ [m EXCEPT !.health = "ONLINE"] \in Members
ASSUME ClusterSizes == SNAPSHOT_RING_SIZE \in Nat \ {0}

VARIABLES
  up,             \* the master process runs
  persisting,     \* it is between opening and writing the journal
  master_state, pool, tail, refs, handle,
  wal             \* the file

vars == <<up, persisting, master_state, pool, tail, refs, handle, wal>>
ring == <<pool, tail, refs, handle>>

LeaseStatus == {"RUNNING", "COMPLETED", "FAILED", "TIMED_OUT"}
ChunkLease == [chunk_id : ChunkId, status : LeaseStatus, failure_retry_count : Nat]
ClusterMetrics == [aggregate : Nat, allocated : Nat, active_worker_count : Nat]
ClusterStateSnapshot ==
  [master_epoch : Nat, state_generation_version : Nat,
   global_status : {"BOOTSTRAP", "OPERATIONAL"},
   active_workers : Seq(Members), active_leases : Seq(ChunkLease),
   metrics : ClusterMetrics]

(* None of the marks is a state. *)
ASSUME Marks == {NoFile, Torn, Blank} \cap ClusterStateSnapshot = {}

Ring == INSTANCE SnapshotRing
          WITH value <- master_state, Value <- ClusterStateSnapshot,
               RING <- SNAPSHOT_RING_SIZE

NoMetrics == [aggregate |-> 0, allocated |-> 0, active_worker_count |-> 0]
Created(epoch) == [master_epoch |-> epoch, state_generation_version |-> 1,
                   global_status |-> "BOOTSTRAP", active_workers |-> <<>>,
                   active_leases |-> <<>>, metrics |-> NoMetrics]

Init == /\ up = TRUE /\ persisting = FALSE
        /\ master_state = Created(1) /\ Ring!RingInit
        /\ wal = NoFile

-----------------------------------------------------------------------------
Active(ws) == {i \in DOMAIN ws : ws[i].health \in {"ONLINE", "DRAINING"}}

internal_recalculate_aggregates(ws) ==
  [aggregate |-> Total([i \in DOMAIN ws |-> ws[i].total], Active(ws)),
   allocated |-> Total([i \in DOMAIN ws |-> ws[i].reserved], Active(ws)),
   active_worker_count |-> Cardinality(Active(ws))]

(* A call that gets the mutex. *)
Locked == up /\ ~persisting
Mutates == /\ Locked
           /\ master_state.state_generation_version < MaxGeneration
           /\ UNCHANGED <<up, persisting, pool, tail, refs, handle, wal>>

WorkerSlots(id) ==
  {i \in DOMAIN master_state.active_workers :
     master_state.active_workers[i].worker_id = id}

register_worker(w) ==
  LET ws == Append(master_state.active_workers, w)
  IN  /\ Mutates
      /\ Len(master_state.active_workers) < CLUSTER_MAX_WORKERS
      /\ WorkerSlots(w.worker_id) = {}
      /\ master_state' =
           [master_state EXCEPT
              !.active_workers = ws,
              !.state_generation_version = @ + 1,
              !.global_status = IF @ = "BOOTSTRAP" THEN "OPERATIONAL" ELSE @,
              !.metrics = internal_recalculate_aggregates(ws)]

(* Mutants: no new metrics; no new generation. *)
process_heartbeat_OldMetrics(id) ==
  LET ws == [master_state.active_workers EXCEPT
               ![First(WorkerSlots(id))].health = IF @ = "OFFLINE" THEN "ONLINE" ELSE @]
  IN  /\ Mutates
      /\ WorkerSlots(id) # {}
      /\ master_state' =
           [master_state EXCEPT !.active_workers = ws,
                                !.state_generation_version = @ + 1]
process_heartbeat_SameGeneration(id) ==
  LET ws == [master_state.active_workers EXCEPT
               ![First(WorkerSlots(id))].health = IF @ = "OFFLINE" THEN "ONLINE" ELSE @]
  IN  /\ Mutates
      /\ WorkerSlots(id) # {}
      /\ master_state' =
           [master_state EXCEPT !.active_workers = ws,
                                !.metrics = internal_recalculate_aggregates(ws)]

process_heartbeat(id) ==
  LET ws == [master_state.active_workers EXCEPT
               ![First(WorkerSlots(id))].health = IF @ = "OFFLINE" THEN "ONLINE" ELSE @]
  IN  /\ Mutates
      /\ WorkerSlots(id) # {}
      /\ master_state' =
           [master_state EXCEPT
              !.active_workers = ws,
              !.state_generation_version = @ + 1,
              !.metrics = internal_recalculate_aggregates(ws)]

Retries(status) == IF status \in {"FAILED", "TIMED_OUT"} THEN 1 ELSE 0

update_lease(chunk, status) ==
  LET leases == master_state.active_leases
      known == {j \in DOMAIN leases : leases[j].chunk_id = chunk}
      lease == [chunk_id |-> chunk, status |-> status,
                failure_retry_count |-> Retries(status)]
  IN  /\ Mutates
      /\ known # {} \/ Len(leases) < CLUSTER_MAX_ACTIVE_LEASES
      /\ master_state' =
           [master_state EXCEPT
              !.state_generation_version = @ + 1,
              !.active_leases =
                 IF known = {} THEN Append(@, lease)
                 ELSE [@ EXCEPT ![First(known)] =
                         [lease EXCEPT !.failure_retry_count =
                            leases[First(known)].failure_retry_count + @]]]

acquire_snapshot(r) ==
  /\ Locked /\ Ring!acquire(r) /\ UNCHANGED <<up, persisting, wal>>
release_snapshot(r) ==
  /\ Locked /\ Ring!release(r) /\ UNCHANGED <<up, persisting, wal>>

-----------------------------------------------------------------------------
(* fopen(path, "wb") *)
PersistOpen == /\ Locked
               /\ persisting' = TRUE /\ wal' = Torn
               /\ UNCHANGED <<up, master_state, pool, tail, refs, handle>>

(* fwrite, fflush, fclose; a short write leaves an incomplete journal. *)
PersistWrite == /\ up /\ persisting
                /\ persisting' = FALSE
                /\ wal' = master_state \/ UNCHANGED wal
                /\ UNCHANGED <<up, master_state, pool, tail, refs, handle>>

(* The process dies; its memory, readers included, is gone. *)
Crash == /\ up
         /\ up' = FALSE /\ persisting' = FALSE
         /\ UNCHANGED <<master_state, pool, tail, refs, handle, wal>>

(* Mutant: the leases are left as the new state has them. *)
recover_from_wal_NoLeases(file) ==
  [file EXCEPT !.state_generation_version = @ + 1, !.active_leases = <<>>]

(* A complete journal replaces the whole new state, its epoch included. *)
recover_from_wal(file) == [file EXCEPT !.state_generation_version = @ + 1]

(* cluster_state_create and cluster_state_recover_from_wal at start-up. *)
Restart ==
  LET epoch == master_state.master_epoch + 1
  IN  /\ ~up /\ epoch <= MaxEpoch
      /\ master_state.state_generation_version < MaxGeneration
      /\ up' = TRUE
      /\ master_state' = IF wal \in {NoFile, Torn} THEN Created(epoch)
                         ELSE recover_from_wal(wal)
      /\ pool' = [s \in Ring!Slots |-> Blank] /\ tail' = 0
      /\ refs' = [s \in Ring!Slots |-> 0]
      /\ handle' = [r \in Reader |-> Ring!NoHandle]
      /\ UNCHANGED <<persisting, wal>>

Next == \/ \E w \in Members : register_worker(w) \/ process_heartbeat(w.worker_id)
        \/ \E c \in ChunkId, s \in LeaseStatus : update_lease(c, s)
        \/ \E r \in Reader : acquire_snapshot(r) \/ release_snapshot(r)
        \/ PersistOpen \/ PersistWrite \/ Crash \/ Restart

Spec == Init /\ [][Next]_vars
-----------------------------------------------------------------------------
(* Type invariant. *)
TypeOK == /\ up \in BOOLEAN /\ persisting \in BOOLEAN
          /\ master_state \in ClusterStateSnapshot
          /\ Ring!RingTypeOK
          /\ wal \in ClusterStateSnapshot \cup {NoFile, Torn}

(* Every copy of the state there is: the state, the file, what readers     *)
(* hold.                                                                   *)
Copies == ({master_state, wal} \cup
           {pool[handle[r]] : r \in {q \in Reader : handle[q] # Ring!NoHandle}})
          \ {NoFile, Torn}

(* Safety: every copy, recovered ones included, is consistent: the metrics *)
(* are those of its active workers, it is OPERATIONAL exactly when it has  *)
(* workers, and no worker or chunk is listed twice.                        *)
Consistent(s) ==
  LET ws == s.active_workers
      ls == s.active_leases
  IN  /\ s.metrics = internal_recalculate_aggregates(ws)
      /\ s.global_status = "BOOTSTRAP" <=> ws = <<>>
      /\ \A i, j \in DOMAIN ws : ws[i].worker_id = ws[j].worker_id => i = j
      /\ \A i, j \in DOMAIN ls : ls[i].chunk_id = ls[j].chunk_id => i = j
CopiesConsistent == TypeOK /\ \A s \in Copies : Consistent(s)

(* Safety: within an epoch the generation identifies the state and orders  *)
(* it: no copy is ahead of the running master, and one that has the same   *)
(* generation is the same state, across crashes and recoveries.            *)
GenerationIdentifies ==
  up => \A s, t \in Copies :
          s.master_epoch = t.master_epoch =>
            /\ s.state_generation_version <= master_state.state_generation_version
            /\ s.state_generation_version = t.state_generation_version => s = t

(* Action property: a restart that finds a complete journal brings back    *)
(* every worker and every lease of it with their retry counts.             *)
RecoveredAll ==
  [][~up /\ up' /\ wal \notin {NoFile, Torn} =>
       /\ master_state'.active_workers = wal.active_workers
       /\ master_state'.active_leases = wal.active_leases
       /\ master_state'.state_generation_version > wal.state_generation_version]_vars
=============================================================================
