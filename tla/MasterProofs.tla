---------------------------- MODULE MasterProofs ----------------------------
(***************************************************************************)
(* Proofs about the parts of the master that its workers talk to: the      *)
(* Registry, for any tables, rings and readers, and the messages of the    *)
(* Fabric, for any workers and any threads that send.                      *)
(***************************************************************************)
EXTENDS Registry, Fabric, TablesProofs

-----------------------------------------------------------------------------
(* Registry: the slot of the ring an acquire takes. *)
LEMMA TargetIsSlot ==
  ASSUME TypeOK
  PROVE  Ring!TargetSlot \in Ring!Slots
<1>1. tail \in Ring!Slots /\ REG_RING_SIZE \in Nat \ {0}
  BY Zenon, RegistrySizes DEF TypeOK, Ring!RingTypeOK
<1>2. \A k \in Ring!Slots : Ring!Probe(k) \in Ring!Slots
  <2> TAKE k \in Ring!Slots
  <2>1. tail + k \in Nat
    BY <1>1 DEF Ring!Slots
  <2>2. \A a \in Nat : a % REG_RING_SIZE \in 0..(REG_RING_SIZE - 1)
    BY <1>1
  <2> QED BY Zenon, <2>1, <2>2 DEF Ring!Slots, Ring!Probe
<1>3. Ring!Free \in SUBSET Ring!Slots /\ Ring!Free \in SUBSET Nat
  BY <1>1 DEF Ring!Free, Ring!Slots
<1>4. Ring!Free # {} => Ring!First(Ring!Free) \in Ring!Slots
  <2>1. Ring!First(Ring!Free) = First(Ring!Free)
    BY Zenon DEF Ring!First, First
  <2> QED BY ZenonT(60), <1>3, <2>1, FirstIn
<1> QED BY Zenon, <1>1, <1>2, <1>4 DEF Ring!TargetSlot

(* What a reader holds is a copy of the registry, no newer than it is. *)
Copied(r) ==
  handle[r] # Ring!NoHandle =>
    /\ pool[handle[r]] \in RegistrySnapshot
    /\ pool[handle[r]].snapshot_version <= state.snapshot_version
    /\ pool[handle[r]].snapshot_version = state.snapshot_version
         => pool[handle[r]] = state

(* The sweeper's array has room for the names of all workers. *)
RoomForAll == MAX_OUT >= REG_MAX_WORKERS

(* One record for each worker; the disconnected ones are among those gone, *)
(* if every sweep could name all that it found.                            *)
Accounted(rs, gs) ==
  /\ \A i, j \in DOMAIN rs : rs[i].worker_id = rs[j].worker_id => i = j
  /\ RoomForAll => \A i \in DOMAIN rs :
       rs[i].status = "DISCONNECTED" => rs[i].worker_id \in gs

(* Tables of the size and with the chunks the registry has room for. *)
Table(rs) == /\ rs \in Seq(WorkerRecord) /\ Len(rs) <= REG_MAX_WORKERS
             /\ \A i \in DOMAIN rs : Len(rs[i].active_chunk_ids) <= REG_MAX_CHUNKS

(* The inductive invariant. *)
RegistryInv == /\ TypeOK
               /\ \A r \in Reader : Copied(r)
               /\ Accounted(state.records, gone)

LEMMA RegistryInvInit == Init => RegistryInv
<1> SUFFICES ASSUME Init PROVE RegistryInv
  BY Zenon
<1>1. state = [records |-> <<>>, snapshot_version |-> 1] /\ gone = {} /\ clock = 0
      /\ sweep_now = NoSweep /\ Ring!RingInit
  BY Zenon DEF Init
<1>2. <<>> \in Seq(WorkerRecord) /\ Len(<<>>) = 0 /\ DOMAIN <<>> = {}
  BY SeqOfNone
<1>3. state \in RegistrySnapshot /\ state.records = <<>>
  BY Zenon, <1>1, <1>2 DEF RegistrySnapshot
<1>4. Ring!RingTypeOK
  BY <1>1, <1>3, RegistrySizes DEF Ring!RingTypeOK, Ring!RingInit, Ring!Slots
<1>5. TypeOK
  BY <1>1, <1>2, <1>3, <1>4, RegistrySizes DEF TypeOK
<1>6. \A r \in Reader : Copied(r)
  BY Zenon, <1>1 DEF Ring!RingInit, Copied
<1>7. Accounted(state.records, gone)
  BY Zenon, <1>2, <1>3 DEF Accounted
<1> QED BY Zenon, <1>5, <1>6, <1>7 DEF RegistryInv

(* A step that changes the table and gives it a later version. *)
LEMMA NewVersion ==
  ASSUME RegistryInv,
         Table(state'.records), state' \in RegistrySnapshot,
         state'.snapshot_version > state.snapshot_version \/ state' = state,
         gone' \in SUBSET WorkerId, Accounted(state'.records, gone'),
         UNCHANGED ring, clock' = clock, sweep_now' \in {sweep_now, NoSweep}
  PROVE  RegistryInv'
<1>1. Ring!RingTypeOK'
  BY Zenon DEF RegistryInv, TypeOK, Ring!RingTypeOK, ring
<1>2. TypeOK'
  BY Zenon, <1>1 DEF RegistryInv, TypeOK, Table
<1>3. ASSUME NEW r \in Reader PROVE Copied(r)'
  <2> SUFFICES ASSUME handle[r] # Ring!NoHandle
               PROVE  /\ pool[handle[r]] \in RegistrySnapshot
                      /\ pool[handle[r]].snapshot_version <= state'.snapshot_version
                      /\ pool[handle[r]].snapshot_version = state'.snapshot_version
                           => pool[handle[r]] = state'
    BY Zenon DEF Copied, ring
  <2> DEFINE s == pool[handle[r]]
  <2>1. /\ s \in RegistrySnapshot /\ s.snapshot_version <= state.snapshot_version
        /\ s.snapshot_version = state.snapshot_version => s = state
    BY Zenon DEF RegistryInv, Copied
  <2> HIDE DEF s
  <2>2. /\ s.snapshot_version \in Nat /\ state.snapshot_version \in Nat
        /\ state'.snapshot_version \in Nat
    BY Zenon, <2>1 DEF RegistryInv, TypeOK, RegistrySnapshot
  <2>3. /\ s \in RegistrySnapshot /\ s.snapshot_version <= state'.snapshot_version
        /\ s.snapshot_version = state'.snapshot_version => s = state'
    BY <2>1, <2>2
  <2> QED BY Zenon, <2>3 DEF s
<1> QED BY Zenon, <1>2, <1>3 DEF RegistryInv

(* The record of a worker that has one. *)
LEMMA RecFacts ==
  ASSUME RegistryInv, NEW id \in WorkerId, RecordSlots(id) # {}
  PROVE  /\ First(RecordSlots(id)) \in DOMAIN state.records
         /\ Rec(id) = state.records[First(RecordSlots(id))]
         /\ Rec(id) \in WorkerRecord /\ Rec(id).worker_id = id
         /\ Len(Rec(id).active_chunk_ids) <= REG_MAX_CHUNKS
<1>1. state.records \in Seq(WorkerRecord)
  BY Zenon DEF RegistryInv, TypeOK, RegistrySnapshot
<1>2. RecordSlots(id) \in SUBSET Nat
  BY <1>1 DEF RecordSlots
<1>3. First(RecordSlots(id)) \in RecordSlots(id)
  BY Zenon, <1>2, FirstIn
<1>4. /\ First(RecordSlots(id)) \in DOMAIN state.records
      /\ state.records[First(RecordSlots(id))].worker_id = id
  BY Zenon, <1>3 DEF RecordSlots
<1>5. /\ state.records[First(RecordSlots(id))] \in WorkerRecord
      /\ Len(state.records[First(RecordSlots(id))].active_chunk_ids) <= REG_MAX_CHUNKS
  BY <1>1, <1>4 DEF RegistryInv, TypeOK
<1> QED BY Zenon, <1>4, <1>5 DEF Rec

LEMMA UpdateFacts ==
  ASSUME RegistryInv, NEW rs, Table(rs), Update(rs)
  PROVE  /\ state'.records = rs /\ state' \in RegistrySnapshot
         /\ state'.snapshot_version > state.snapshot_version
         /\ UNCHANGED ring /\ clock' = clock /\ sweep_now' = sweep_now
<1>1. state.snapshot_version \in Nat
  BY Zenon DEF RegistryInv, TypeOK, RegistrySnapshot
<1>2. state' = [records |-> rs, snapshot_version |-> state.snapshot_version + 1]
  BY Zenon DEF Update
<1>3. state'.records = rs /\ state'.snapshot_version = state.snapshot_version + 1
  BY Zenon, <1>2
<1>4. state' \in RegistrySnapshot
  BY <1>1, <1>2 DEF RegistrySnapshot, Table
<1> QED BY <1>1, <1>3, <1>4 DEF Update, ring

(* The record of a worker is replaced; gone is changed at most for it. *)
LEMMA RecordStep ==
  ASSUME RegistryInv, NEW id \in WorkerId, NEW r \in WorkerRecord,
         r.worker_id = id, Len(r.active_chunk_ids) <= REG_MAX_CHUNKS,
         UpdateRecord(id, r),
         gone' \in SUBSET WorkerId, \A x \in gone \ {id} : x \in gone',
         RoomForAll /\ r.status = "DISCONNECTED" => id \in gone'
  PROVE  RegistryInv'
<1> DEFINE i == First(RecordSlots(id))
           rs == [state.records EXCEPT ![i] = r]
<1>1. /\ state.records \in Seq(WorkerRecord) /\ Len(state.records) <= REG_MAX_WORKERS
      /\ \A j \in DOMAIN state.records :
           Len(state.records[j].active_chunk_ids) <= REG_MAX_CHUNKS
      /\ Accounted(state.records, gone)
  BY Zenon DEF RegistryInv, TypeOK, RegistrySnapshot
<1>2. /\ i \in DOMAIN state.records /\ state.records[i].worker_id = id
      /\ Update(rs)
  BY Zenon, RecFacts DEF UpdateRecord
<1> HIDE DEF i
<1>3. /\ DOMAIN rs = DOMAIN state.records
      /\ \A j \in DOMAIN state.records : rs[j] = IF j = i THEN r ELSE state.records[j]
  BY Zenon, <1>1, <1>2
<1>4. rs \in Seq(WorkerRecord) /\ Len(rs) = Len(state.records)
  <2>1. i \in 1..Len(state.records)
    BY <1>1, <1>2
  <2> QED BY <1>1, <2>1, SeqUpdate
<1> HIDE DEF rs
<1>5. Table(rs)
  BY Zenon, <1>1, <1>3, <1>4 DEF Table
<1>6. Accounted(rs, gone')
  <2>1. \A j \in DOMAIN rs : rs[j].worker_id = state.records[j].worker_id
    BY Zenon, <1>2, <1>3
  <2>2. \A j, k \in DOMAIN rs : rs[j].worker_id = rs[k].worker_id => j = k
    BY Zenon, <1>1, <1>3, <2>1 DEF Accounted
  <2>3. ASSUME RoomForAll, NEW j \in DOMAIN rs, rs[j].status = "DISCONNECTED"
        PROVE  rs[j].worker_id \in gone'
    <3>1. CASE j = i
      BY Zenon, <1>2, <1>3, <2>3, <3>1
    <3>2. CASE j # i
      <4>1. rs[j] = state.records[j] /\ state.records[j].worker_id \in gone
        BY Zenon, <1>1, <1>3, <2>3, <3>2 DEF Accounted
      <4>2. state.records[j].worker_id # id
        BY Zenon, <1>1, <1>2, <1>3, <3>2 DEF Accounted
      <4> QED BY Zenon, <4>1, <4>2
    <3> QED BY Zenon, <3>1, <3>2
  <2> QED BY Zenon, <2>2, <2>3 DEF Accounted
<1>7. /\ state'.records = rs /\ state' \in RegistrySnapshot
      /\ state'.snapshot_version > state.snapshot_version
      /\ UNCHANGED ring /\ clock' = clock /\ sweep_now' = sweep_now
  BY Zenon, <1>2, <1>5, UpdateFacts
<1> QED BY Zenon, <1>5, <1>6, <1>7, NewVersion

LEMMA JoinInv ==
  ASSUME RegistryInv, NEW id \in WorkerId, on_worker_join(id)
  PROVE  RegistryInv'
<1>0. clock \in Nat /\ gone \in SUBSET WorkerId /\ gone' = gone \ {id}
  BY RegistrySizes DEF RegistryInv, TypeOK, on_worker_join
<1>1. CASE UpdateRecord(id, [Rec(id) EXCEPT !.status = "APPROVED", !.last_seen_ms = clock])
  <2> DEFINE r == [Rec(id) EXCEPT !.status = "APPROVED", !.last_seen_ms = clock]
  <2>1. /\ r \in WorkerRecord /\ r.worker_id = id /\ r.status = "APPROVED"
        /\ Len(r.active_chunk_ids) <= REG_MAX_CHUNKS
    <3>1. RecordSlots(id) # {}
      BY Zenon, <1>1 DEF UpdateRecord
    <3>2. /\ Rec(id) \in WorkerRecord /\ Rec(id).worker_id = id
          /\ Len(Rec(id).active_chunk_ids) <= REG_MAX_CHUNKS
      BY Zenon, <3>1, RecFacts
    <3> QED BY ZenonT(60), <1>0, <3>2 DEF WorkerRecord
  <2> HIDE DEF r
  <2> QED BY ZenonT(60), <1>0, <1>1, <2>1, RecordStep DEF r
<1>2. CASE /\ RecordSlots(id) = {} /\ Len(state.records) < REG_MAX_WORKERS
           /\ Update(Append(state.records,
                            [worker_id |-> id, status |-> "APPROVED",
                             last_seen_ms |-> clock, active_chunk_ids |-> <<>>]))
  <2> DEFINE r == [worker_id |-> id, status |-> "APPROVED",
                   last_seen_ms |-> clock, active_chunk_ids |-> <<>>]
             rs == Append(state.records, r)
  <2>1. /\ state.records \in Seq(WorkerRecord) /\ Len(state.records) \in Nat
        /\ \A j \in DOMAIN state.records :
             Len(state.records[j].active_chunk_ids) <= REG_MAX_CHUNKS
        /\ Accounted(state.records, gone)
    BY DEF RegistryInv, TypeOK, RegistrySnapshot
  <2>2. /\ r \in WorkerRecord /\ r.worker_id = id /\ r.status = "APPROVED"
        /\ Len(r.active_chunk_ids) <= REG_MAX_CHUNKS
    <3>1. <<>> \in Seq(ChunkId) /\ Len(<<>>) <= REG_MAX_CHUNKS
      BY SeqOfNone, RegistrySizes
    <3> QED BY Zenon, <1>0, <3>1 DEF WorkerRecord
  <2> HIDE DEF r
  <2>3. /\ rs \in Seq(WorkerRecord) /\ Len(rs) = Len(state.records) + 1
        /\ DOMAIN rs = DOMAIN state.records \cup {Len(state.records) + 1}
        /\ \A j \in DOMAIN state.records : rs[j] = state.records[j]
        /\ rs[Len(state.records) + 1] = r
    BY <2>1, <2>2, SeqAppend
  <2>4. Update(rs)
    BY Zenon, <1>2 DEF r
  <2> HIDE DEF rs
  <2>5. Table(rs)
    BY <1>2, <2>1, <2>2, <2>3, RegistrySizes DEF Table
  <2>6. \A j \in DOMAIN state.records : state.records[j].worker_id # id
    BY Zenon, <1>2 DEF RecordSlots
  <2>7. Accounted(rs, gone')
    BY Zenon, <1>0, <2>1, <2>2, <2>3, <2>6 DEF Accounted
  <2>8. /\ state'.records = rs /\ state' \in RegistrySnapshot
        /\ state'.snapshot_version > state.snapshot_version
        /\ UNCHANGED ring /\ clock' = clock /\ sweep_now' = sweep_now
    BY Zenon, <2>4, <2>5, UpdateFacts
  <2>9. gone' \in SUBSET WorkerId
    BY Zenon, <1>0
  <2> QED BY Zenon, <2>5, <2>7, <2>8, <2>9, NewVersion
<1> QED BY Zenon, <1>1, <1>2 DEF on_worker_join

LEMMA HeartbeatInv ==
  ASSUME RegistryInv, NEW id \in WorkerId, on_worker_heartbeat(id)
  PROVE  RegistryInv'
<1> DEFINE r == [Rec(id) EXCEPT !.last_seen_ms = clock,
                   !.status = IF @ = "DISCONNECTED" THEN "HEALTHY" ELSE @]
<1>1. /\ clock \in Nat /\ gone \in SUBSET WorkerId /\ gone' = gone \ {id}
      /\ UpdateRecord(id, r) /\ RecordSlots(id) # {}
  BY RegistrySizes DEF RegistryInv, TypeOK, on_worker_heartbeat, UpdateRecord
<1>2. /\ Rec(id) \in WorkerRecord /\ Rec(id).worker_id = id
      /\ Len(Rec(id).active_chunk_ids) <= REG_MAX_CHUNKS
  BY Zenon, <1>1, RecFacts
<1>3. /\ r \in WorkerRecord /\ r.worker_id = id /\ r.status # "DISCONNECTED"
      /\ Len(r.active_chunk_ids) <= REG_MAX_CHUNKS
  BY ZenonT(60), <1>1, <1>2 DEF WorkerRecord
<1> HIDE DEF r
<1> QED BY Zenon, <1>1, <1>3, RecordStep

LEMMA LeaveInv ==
  ASSUME RegistryInv, NEW id \in WorkerId, on_worker_leave(id)
  PROVE  RegistryInv'
<1> DEFINE r == [Rec(id) EXCEPT !.status = "DISCONNECTED"]
<1>1. /\ gone \in SUBSET WorkerId /\ gone' = gone \cup {id}
      /\ UpdateRecord(id, r) /\ RecordSlots(id) # {}
  BY Zenon DEF RegistryInv, TypeOK, on_worker_leave, UpdateRecord
<1>2. /\ Rec(id) \in WorkerRecord /\ Rec(id).worker_id = id
      /\ Len(Rec(id).active_chunk_ids) <= REG_MAX_CHUNKS
  BY Zenon, <1>1, RecFacts
<1>3. /\ r \in WorkerRecord /\ r.worker_id = id
      /\ Len(r.active_chunk_ids) <= REG_MAX_CHUNKS
  BY Zenon, <1>1, <1>2 DEF WorkerRecord
<1> HIDE DEF r
<1> QED BY Zenon, <1>1, <1>3, RecordStep

(* The list of chunks of a worker is replaced by one that is not too long. *)
LEMMA ChunksStep ==
  ASSUME RegistryInv, NEW id \in WorkerId, RecordSlots(id) # {},
         NEW cs \in Seq(ChunkId), Len(cs) <= REG_MAX_CHUNKS,
         UpdateRecord(id, [Rec(id) EXCEPT !.active_chunk_ids = cs]), gone' = gone
  PROVE  RegistryInv'
<1> DEFINE r == [Rec(id) EXCEPT !.active_chunk_ids = cs]
<1>1. /\ Rec(id) \in WorkerRecord /\ Rec(id).worker_id = id
      /\ First(RecordSlots(id)) \in DOMAIN state.records
      /\ Rec(id) = state.records[First(RecordSlots(id))]
  BY Zenon, RecFacts
<1>2. /\ r \in WorkerRecord /\ r.worker_id = id /\ r.status = Rec(id).status
      /\ Len(r.active_chunk_ids) <= REG_MAX_CHUNKS
  BY Zenon, <1>1 DEF WorkerRecord
<1>3. RoomForAll /\ Rec(id).status = "DISCONNECTED" => id \in gone
  BY Zenon, <1>1 DEF RegistryInv, Accounted
<1>4. gone' \in SUBSET WorkerId
  BY Zenon DEF RegistryInv, TypeOK
<1>5. UpdateRecord(id, r)
  BY Zenon
<1> HIDE DEF r
<1> QED BY Zenon, <1>2, <1>3, <1>4, <1>5, RecordStep

LEMMA TrackInv ==
  ASSUME RegistryInv, NEW id \in WorkerId, NEW c \in ChunkId,
         track_chunk(id, c) \/ untrack_chunk(id, c)
  PROVE  RegistryInv'
<1> DEFINE held == Rec(id).active_chunk_ids
           at == {j \in DOMAIN held : held[j] = c}
<1>1. RecordSlots(id) # {} /\ gone' = gone
  BY Zenon DEF track_chunk, untrack_chunk
<1>2. held \in Seq(ChunkId) /\ Len(held) \in Nat /\ Len(held) <= REG_MAX_CHUNKS
  BY <1>1, RecFacts DEF WorkerRecord
<1>3. CASE track_chunk(id, c)
  <2>1. /\ UpdateRecord(id, [Rec(id) EXCEPT !.active_chunk_ids = Append(held, c)])
        /\ Len(held) < REG_MAX_CHUNKS
    BY Zenon, <1>3 DEF track_chunk
  <2> HIDE DEF held
  <2>2. Append(held, c) \in Seq(ChunkId) /\ Len(Append(held, c)) <= REG_MAX_CHUNKS
    BY <1>2, <2>1, SeqAppend, RegistrySizes
  <2> QED BY ZenonT(60), <1>1, <2>1, <2>2, ChunksStep
<1>4. CASE untrack_chunk(id, c)
  <2>1. /\ UpdateRecord(id, [Rec(id) EXCEPT !.active_chunk_ids = Remove(held, First(at))])
        /\ at # {}
    BY Zenon, <1>4 DEF untrack_chunk
  <2> HIDE DEF held
  <2>2. First(at) \in DOMAIN held
    <3>1. at \in SUBSET Nat
      BY <1>2
    <3>2. First(at) \in at
      BY Zenon, <2>1, <3>1, FirstIn
    <3> QED BY Zenon, <3>2
  <2>3. Remove(held, First(at)) \in Seq(ChunkId)
        /\ Len(Remove(held, First(at))) = Len(held) - 1
    BY Zenon, <1>2, <2>2, RemoveType
  <2>4. Len(Remove(held, First(at))) <= REG_MAX_CHUNKS
    BY <1>2, <2>3, RegistrySizes
  <2> QED BY Zenon, <1>1, <2>1, <2>3, <2>4, ChunksStep
<1> QED BY Zenon, <1>3, <1>4

(* With room for every name, every worker found dead is named. *)
LEMMA AllReported ==
  ASSUME RegistryInv, RoomForAll, NEW dead \in SUBSET DOMAIN state.records
  PROVE  Reported(dead) = dead
<1>1. /\ Len(state.records) \in Nat /\ Len(state.records) <= REG_MAX_WORKERS
      /\ DOMAIN state.records = 1..Len(state.records)
  BY DEF RegistryInv, TypeOK, RegistrySnapshot
<1>2. ASSUME NEW i \in dead
      PROVE  Cardinality({j \in dead : j < i}) < MAX_OUT
  <2>1. i \in Nat /\ i >= 1 /\ i <= Len(state.records)
    BY <1>1
  <2>2. {j \in dead : j < i} \in SUBSET (1..(i - 1))
    BY <1>1, <2>1
  <2>3. IsFiniteSet(1..(i - 1)) /\ Cardinality(1..(i - 1)) = i - 1
    <3>1. i - 1 \in Nat
      BY <2>1
    <3>2. /\ IsFiniteSet(1..(i - 1))
          /\ Cardinality(1..(i - 1)) = IF 1 > i - 1 THEN 0 ELSE i - 1 - 1 + 1
      BY SMTT(30), <3>1, FS_Interval
    <3> QED BY <3>1, <3>2
  <2>4. /\ Cardinality({j \in dead : j < i}) <= i - 1
        /\ Cardinality({j \in dead : j < i}) \in Nat
    BY <2>2, <2>3, FS_Subset, FS_CardinalityType
  <2> QED BY <1>1, <2>1, <2>4, RegistrySizes DEF RoomForAll
<1> QED BY Zenon, <1>2 DEF Reported

LEMMA SweepInv ==
  ASSUME RegistryInv, Sweep
  PROVE  RegistryInv'
<1> DEFINE old == state.records
           D == Dead(sweep_now)
           named == Reported(D)
           new == [i \in DOMAIN old |->
                     IF i \in D THEN [old[i] EXCEPT !.status = "DISCONNECTED"] ELSE old[i]]
<1>1. /\ old \in Seq(WorkerRecord) /\ Len(old) \in Nat /\ Len(old) <= REG_MAX_WORKERS
      /\ DOMAIN old = 1..Len(old)
      /\ \A j \in DOMAIN old : Len(old[j].active_chunk_ids) <= REG_MAX_CHUNKS
      /\ Accounted(old, gone)
      /\ state.snapshot_version \in Nat /\ gone \in SUBSET WorkerId
      /\ state = [records |-> old, snapshot_version |-> state.snapshot_version]
  BY DEF RegistryInv, TypeOK, RegistrySnapshot
<1>2. D \in SUBSET DOMAIN old
  BY Zenon DEF Dead
<1>3. /\ state' = [records |-> new,
                   snapshot_version |-> state.snapshot_version + Cardinality(D)]
      /\ gone' = gone \cup {old[i].worker_id : i \in named}
      /\ UNCHANGED <<ring, clock>> /\ sweep_now' = NoSweep
      /\ named \subseteq D /\ (RoomForAll => named = D)
  <2>1. named \subseteq D
    BY Zenon DEF Reported
  <2>2. RoomForAll => named = D
    BY Zenon, <1>2, AllReported
  <2> QED BY Zenon, <2>1, <2>2 DEF Sweep, sweep_stale, ring
<1> HIDE DEF named, D, old
<1>4. /\ DOMAIN new = 1..Len(old)
      /\ \A i \in 1..Len(old) : /\ new[i] \in WorkerRecord
                                /\ new[i].worker_id = old[i].worker_id
                                /\ new[i].active_chunk_ids = old[i].active_chunk_ids
                                /\ i \notin D => new[i] = old[i]
  <2>1. ASSUME NEW w \in WorkerRecord
        PROVE  LET v == [w EXCEPT !.status = "DISCONNECTED"]
               IN  /\ v \in WorkerRecord /\ v.worker_id = w.worker_id
                   /\ v.active_chunk_ids = w.active_chunk_ids
    BY Zenon DEF WorkerRecord
  <2>2. ASSUME NEW i \in 1..Len(old)
        PROVE  /\ new[i] \in WorkerRecord
               /\ new[i].worker_id = old[i].worker_id
               /\ new[i].active_chunk_ids = old[i].active_chunk_ids
               /\ i \notin D => new[i] = old[i]
    <3>1. old[i] \in WorkerRecord
      BY <1>1
    <3>2. new[i] = IF i \in D THEN [old[i] EXCEPT !.status = "DISCONNECTED"] ELSE old[i]
      BY Zenon, <1>1
    <3> HIDE DEF new
    <3> QED BY Zenon, <2>1, <3>1, <3>2
  <2>3. DOMAIN new = 1..Len(old)
    BY Zenon, <1>1
  <2> HIDE DEF new
  <2> QED BY Zenon, <2>2, <2>3
<1>5. new \in Seq(WorkerRecord) /\ Len(new) = Len(old)
  <2>1. new \in [1..Len(old) -> WorkerRecord]
    BY Zenon, <1>1, <1>4
  <2> HIDE DEF new
  <2> QED BY Zenon, <1>1, <2>1, SeqOfFunction
<1>6. IsFiniteSet(D) /\ Cardinality(D) \in Nat
  <2>1. 1 \in Int /\ Len(old) \in Int
    BY <1>1
  <2>2. IsFiniteSet(1..Len(old))
    BY Zenon, <2>1, FS_Interval
  <2> QED BY Zenon, <1>1, <1>2, <2>2, FS_Subset, FS_CardinalityType
<1>7. state'.snapshot_version > state.snapshot_version \/ state' = state
  <2>1. CASE D = {}
    <3>1. new = old
      BY <1>1, <2>1
    <3>2. Cardinality(D) = 0
      BY Zenon, <2>1, FS_EmptySet
    <3> HIDE DEF new
    <3> QED BY <1>1, <1>3, <3>1, <3>2
  <2>2. CASE D # {}
    <3>1. Cardinality(D) # 0
      BY Zenon, <1>6, <2>2, FS_EmptySet
    <3>2. state'.snapshot_version = state.snapshot_version + Cardinality(D)
      BY Zenon, <1>3
    <3> QED BY <1>1, <1>6, <3>1, <3>2
  <2> QED BY Zenon, <2>1, <2>2
<1> HIDE DEF new
<1>8. state'.records = new /\ state' \in RegistrySnapshot
  BY <1>1, <1>3, <1>5, <1>6 DEF RegistrySnapshot
<1>9. Table(new)
  BY Zenon, <1>1, <1>4, <1>5 DEF Table
<1>10. Accounted(new, gone')
  <2>1. \A j, k \in DOMAIN new : new[j].worker_id = new[k].worker_id => j = k
    BY Zenon, <1>1, <1>4 DEF Accounted
  <2>2. ASSUME RoomForAll, NEW j \in DOMAIN new, new[j].status = "DISCONNECTED"
        PROVE  new[j].worker_id \in gone'
    <3>1. CASE j \in D
      BY Zenon, <1>1, <1>2, <1>3, <1>4, <2>2, <3>1
    <3>2. CASE j \notin D
      BY Zenon, <1>1, <1>3, <1>4, <2>2, <3>2 DEF Accounted
    <3> QED BY Zenon, <3>1, <3>2
  <2> QED BY Zenon, <2>1, <2>2 DEF Accounted
<1>11. gone' \in SUBSET WorkerId
  <2>1. ASSUME NEW i \in named PROVE old[i].worker_id \in WorkerId
    <3>1. old[i] \in WorkerRecord
      BY <1>1, <1>2, <1>3
    <3> QED BY Zenon, <3>1 DEF WorkerRecord
  <2> QED BY Zenon, <1>1, <1>3, <2>1
<1> QED BY Zenon, <1>3, <1>7, <1>8, <1>9, <1>10, <1>11, NewVersion

(* The ring and its readers. *)
LEMMA SnapshotInv ==
  ASSUME RegistryInv, NEW r \in Reader, acquire_snapshot(r) \/ release_snapshot(r)
  PROVE  RegistryInv'
<1>1. /\ UNCHANGED <<state, clock, sweep_now, gone>>
      /\ Ring!RingTypeOK /\ handle \in [Reader -> Ring!Slots \cup {Ring!NoHandle}]
      /\ pool \in [Ring!Slots -> RegistrySnapshot \cup {Blank}]
      /\ refs \in [Ring!Slots -> Nat] /\ tail \in Ring!Slots
      /\ state \in RegistrySnapshot /\ state.snapshot_version \in Nat
  BY Zenon DEF RegistryInv, TypeOK, Ring!RingTypeOK, acquire_snapshot, release_snapshot,
     Ring!acquire, Ring!release, RegistrySnapshot
<1>2. CASE acquire_snapshot(r)
  <2> DEFINE t == Ring!TargetSlot
  <2>1. t \in Ring!Slots
    BY Zenon, TargetIsSlot DEF RegistryInv
  <2>2. /\ pool' = [pool EXCEPT ![t] = state]
        /\ refs' = [refs EXCEPT ![t] = @ + 1]
        /\ tail' = (t + 1) % REG_RING_SIZE
        /\ handle' = [handle EXCEPT ![r] = t]
    BY Zenon, <1>2 DEF acquire_snapshot, Ring!acquire
  <2> HIDE DEF t
  <2>3. Ring!RingTypeOK'
    <3>1. tail' \in Ring!Slots
      <4>1. t + 1 \in Nat
        BY <2>1, RegistrySizes DEF Ring!Slots
      <4> QED BY <2>2, <4>1, RegistrySizes DEF Ring!Slots
    <3>2. refs' \in [Ring!Slots -> Nat]
      BY <1>1, <2>1, <2>2
    <3>3. pool' \in [Ring!Slots -> RegistrySnapshot \cup {Blank}]
      BY Zenon, <1>1, <2>1, <2>2
    <3>4. handle' \in [Reader -> Ring!Slots \cup {Ring!NoHandle}]
      BY Zenon, <1>1, <2>1, <2>2
    <3> QED BY Zenon, <1>1, <3>1, <3>2, <3>3, <3>4 DEF Ring!RingTypeOK
  <2>4. TypeOK'
    BY Zenon, <1>1, <2>3 DEF RegistryInv, TypeOK
  <2>5. ASSUME NEW q \in Reader PROVE Copied(q)'
    <3>1. CASE handle'[q] = t
      <4>1. pool'[t] = state
        BY Zenon, <1>1, <2>1, <2>2
      <4> QED BY <1>1, <3>1, <4>1 DEF Copied
    <3>2. CASE handle'[q] # t
      <4>1. handle'[q] = handle[q]
        BY Zenon, <1>1, <2>2, <3>2
      <4>2. handle[q] # Ring!NoHandle => pool'[handle[q]] = pool[handle[q]]
        BY Zenon, <1>1, <2>2, <3>2, <4>1
      <4>3. Copied(q)
        BY Zenon DEF RegistryInv
      <4> QED BY Zenon, <1>1, <4>1, <4>2, <4>3 DEF Copied
    <3> QED BY Zenon, <3>1, <3>2
  <2> QED BY Zenon, <1>1, <2>4, <2>5 DEF RegistryInv, Accounted
<1>3. CASE release_snapshot(r)
  <2>1. /\ refs' = [refs EXCEPT ![handle[r]] = IF @ > 0 THEN @ - 1 ELSE @]
        /\ handle' = [handle EXCEPT ![r] = Ring!NoHandle]
        /\ pool' = pool /\ tail' = tail /\ handle[r] # Ring!NoHandle
    BY Zenon, <1>3 DEF release_snapshot, Ring!release
  <2>2. Ring!RingTypeOK'
    <3>1. refs' \in [Ring!Slots -> Nat]
      BY <1>1, <2>1
    <3> QED BY Zenon, <1>1, <2>1, <3>1 DEF Ring!RingTypeOK
  <2>3. TypeOK'
    BY Zenon, <1>1, <2>2 DEF RegistryInv, TypeOK
  <2>4. \A q \in Reader : Copied(q)'
    BY Zenon, <1>1, <2>1 DEF RegistryInv, Copied
  <2> QED BY Zenon, <1>1, <2>3, <2>4 DEF RegistryInv, Accounted
<1> QED BY Zenon, <1>2, <1>3

LEMMA RegistryInvNext ==
  ASSUME RegistryInv, [Next]_vars
  PROVE  RegistryInv'
<1>1. CASE UNCHANGED vars
  BY Zenon, <1>1 DEF vars, RegistryInv, TypeOK, Ring!RingTypeOK, Copied, Accounted
<1>2. CASE ReadClock \/ Advance
  <2>1. UNCHANGED <<state, pool, tail, refs, handle, gone>>
    BY Zenon, <1>2 DEF ReadClock, Advance
  <2>2. clock' \in 0..MaxTime /\ sweep_now' \in {NoSweep} \cup 0..MaxTime
    BY <1>2, RegistrySizes DEF ReadClock, Advance, RegistryInv, TypeOK
  <2>3. TypeOK'
    BY Zenon, <2>1, <2>2 DEF RegistryInv, TypeOK, Ring!RingTypeOK
  <2> QED BY Zenon, <2>1, <2>3 DEF RegistryInv, Copied, Accounted
<1>3. ASSUME NEW id \in WorkerId,
             \/ on_worker_join(id) \/ on_worker_heartbeat(id) \/ on_worker_leave(id)
             \/ \E c \in ChunkId : track_chunk(id, c) \/ untrack_chunk(id, c)
      PROVE  RegistryInv'
  BY Zenon, <1>3, JoinInv, HeartbeatInv, LeaveInv, TrackInv
<1>4. ASSUME NEW r \in Reader, acquire_snapshot(r) \/ release_snapshot(r)
      PROVE  RegistryInv'
  BY Zenon, <1>4, SnapshotInv
<1>5. CASE Sweep
  BY Zenon, <1>5, SweepInv
<1> QED BY Zenon, <1>1, <1>2, <1>3, <1>4, <1>5 DEF Next

LEMMA RegistryInvariance == Spec => []RegistryInv
BY RegistryInvInit, RegistryInvNext, PTL DEF Spec

(* A snapshot in a reader's hands is never newer than the registry, and    *)
(* with the registry's version it is the registry, for any number of       *)
(* readers and slots: also when readers have to share a slot.              *)
THEOREM VersionsIdentify == Spec => []VersionIdentifies
<1>1. RegistryInv => VersionIdentifies
  BY Zenon DEF RegistryInv, VersionIdentifies, Copied
<1> QED BY <1>1, RegistryInvariance, PTL

(* A worker has one record, and none is disconnected that neither left nor *)
(* was named to a sweeper, while the sweeper's array has room for all.     *)
THEOREM NobodyDiesSilently == RoomForAll => (Spec => []NoSilentDeath)
<1> SUFFICES ASSUME RoomForAll PROVE Spec => []NoSilentDeath
  BY Zenon
<1>1. RegistryInv => NoSilentDeath
  BY Zenon DEF RegistryInv, NoSilentDeath, Accounted
<1> QED BY <1>1, RegistryInvariance, PTL

(* The registry does nothing to its ring but what SnapshotRing describes.  *)
THEOREM RegistryUsesRing == Spec => Ring!SnapshotSpec
<1>1. Init => Ring!SnapshotInit
  BY Zenon, RegistryInvInit DEF Init, Ring!SnapshotInit, RegistryInv, TypeOK
<1>2. ASSUME RegistryInv, RegistryInv', [Next]_vars
      PROVE  [Ring!SnapshotNext]_(Ring!snapshotVars)
  <2>0. state' \in RegistrySnapshot
    BY Zenon, <1>2 DEF RegistryInv, TypeOK
  <2>1. CASE UNCHANGED vars
    BY Zenon, <2>1 DEF vars, Ring!snapshotVars
  <2>2. CASE UNCHANGED ring
    BY Zenon, <2>0, <2>2 DEF ring, Ring!SnapshotNext, Ring!Change, Ring!ringVars
  <2>3. ASSUME NEW r \in Reader, acquire_snapshot(r) \/ release_snapshot(r)
        PROVE  Ring!SnapshotNext
    BY Zenon, <2>3 DEF acquire_snapshot, release_snapshot, Ring!SnapshotNext
  <2>4. ASSUME NEW id \in WorkerId,
               \/ on_worker_join(id) \/ on_worker_heartbeat(id) \/ on_worker_leave(id)
               \/ \E c \in ChunkId : track_chunk(id, c) \/ untrack_chunk(id, c)
        PROVE  UNCHANGED ring
    BY ZenonT(60), <2>4 DEF on_worker_join, on_worker_heartbeat, on_worker_leave, track_chunk,
       untrack_chunk, UpdateRecord, Update, ring
  <2>5. CASE ReadClock \/ Sweep \/ Advance
    BY Zenon, <2>2, <2>5 DEF ReadClock, Sweep, Advance, ring
  <2> QED BY Zenon, <1>2, <2>1, <2>2, <2>3, <2>4, <2>5 DEF Next
<1> QED BY <1>1, <1>2, RegistryInvariance, PTL DEF Spec, Ring!SnapshotSpec

-----------------------------------------------------------------------------
(* Fabric: the frames a DEALER may hold, and the envelopes its worker may  *)
(* be given.                                                               *)
EnvelopesFor(w) == {Envelope(w, c, n) : c \in Codes, n \in Nat}
FramesFor(w) == {Empty} \cup EnvelopesFor(w)

(* Every envelope still to be sent has a sequence id from here on. *)
Limit == IF write_lock = None THEN next_seq_id ELSE next_seq_id - 1

(* What worker w has been given and what waits for it are its envelopes,   *)
(* in the order of their ids.                                              *)
QueueInv(w) ==
  LET given == received[w]
      waiting == dealer_in[w]
  IN  /\ given \in Seq(EnvelopesFor(w)) /\ waiting \in Seq(FramesFor(w))
      /\ \A i \in DOMAIN given : given[i].seq < Limit
      /\ \A i \in DOMAIN waiting : waiting[i] # Empty => waiting[i].seq < Limit
      /\ \A i, j \in DOMAIN given : i < j => given[i].seq < given[j].seq
      /\ \A i, j \in DOMAIN waiting :
           i < j /\ waiting[i] # Empty /\ waiting[j] # Empty
             => waiting[i].seq < waiting[j].seq
      /\ \A i \in DOMAIN given, j \in DOMAIN waiting :
           waiting[j] # Empty => given[i].seq < waiting[j].seq

InSend == {"identity", "delimiter", "envelope"}

(* A thread between numbering and last frame is the one that has the lock, *)
(* and has the latest id.                                                  *)
SenderInv(t) ==
  /\ sending[t] \in [step : {"idle", "lock"} \cup InSend, to : Worker \cup {None},
                     code : Codes \cup {None}, seq : Nat]
  /\ sending[t].step # "idle" => sending[t].to \in Worker /\ sending[t].code \in Codes
  /\ sending[t].step \in InSend <=> write_lock = t
  /\ write_lock = t => sending[t].seq = next_seq_id - 1

(* The frames of message m the socket was given before step m.step. *)
Parts(m) == CASE m.step = "identity" -> <<>>
              [] m.step = "delimiter" -> <<Identity(m.to)>>
              [] m.step = "envelope" -> <<Identity(m.to), Empty>>

(* While the socket is the first there is, it holds the frames of the      *)
(* message that is being sent; before there is one nobody sends.           *)
SocketInv ==
  /\ zmq_sock => bound
  /\ ~bound => \A t \in Thread : sending[t].step = "idle"
  /\ zmq_sock \/ ~bound =>
       outgoing = IF write_lock = None THEN <<>> ELSE Parts(sending[write_lock])

(* The inductive invariant. *)
FabricInv ==
  /\ FabricTypeOK
  /\ DOMAIN sending = Thread /\ DOMAIN received = Worker /\ DOMAIN dealer_in = Worker
  /\ SocketInv
  /\ \A t \in Thread : SenderInv(t)
  /\ \A w \in Worker : QueueInv(w)
  /\ JoinedOnThisConnection

LEMMA FrameFacts ==
  ASSUME NEW w
  PROVE  /\ \A e \in EnvelopesFor(w) :
              /\ e.frame = "envelope" /\ e # Empty
              /\ e.to = w /\ e.code \in Codes /\ e.seq \in Nat
         /\ Empty.frame = "empty"
         /\ \A c \in Codes, n \in Nat : Envelope(w, c, n) \in EnvelopesFor(w)
         /\ \A c, n : Envelope(w, c, n).seq = n /\ Envelope(w, c, n).code = c
<1>1. Empty.frame = "empty"
  BY Zenon DEF Empty
<1>2. ASSUME NEW e \in EnvelopesFor(w)
      PROVE  /\ e.frame = "envelope" /\ e # Empty
             /\ e.to = w /\ e.code \in Codes /\ e.seq \in Nat
  <2>1. PICK c \in Codes, n \in Nat : e = Envelope(w, c, n)
    BY DEF EnvelopesFor
  <2>2. e.frame = "envelope" /\ e.to = w /\ e.code = c /\ e.seq = n
    BY Zenon, <2>1 DEF Envelope
  <2> QED BY Zenon, <1>1, <2>2
<1>3. \A c \in Codes, n \in Nat : Envelope(w, c, n) \in EnvelopesFor(w)
  BY DEF EnvelopesFor
<1>4. \A c, n : Envelope(w, c, n).seq = n /\ Envelope(w, c, n).code = c
  BY Zenon DEF Envelope
<1> QED BY Zenon, <1>1, <1>2, <1>3, <1>4

LEMMA LimitType ==
  ASSUME FabricTypeOK
  PROVE  Limit \in Nat /\ next_seq_id \in Nat /\ next_seq_id >= 1
BY FabricSizes DEF FabricTypeOK, Limit

LEMMA SendersOf ==
  ASSUME FabricInv
  PROVE  /\ DOMAIN sending = Thread
         /\ \A u \in Thread : sending[u].step \in
              {"idle", "lock", "identity", "delimiter", "envelope"}
BY Zenon DEF FabricInv, FabricTypeOK

(* Queues that are left alone stay in order under a later limit. *)
LEMMA QueueKept ==
  ASSUME NEW w \in Worker, QueueInv(w), Limit \in Nat, Limit' \in Nat, Limit <= Limit',
         received'[w] = received[w], dealer_in'[w] = dealer_in[w]
  PROVE  QueueInv(w)'
<1> DEFINE given == received[w]
           waiting == dealer_in[w]
<1>1. /\ given \in Seq(EnvelopesFor(w)) /\ waiting \in Seq(FramesFor(w))
      /\ \A i \in DOMAIN given : given[i].seq < Limit
      /\ \A i \in DOMAIN waiting : waiting[i] # Empty => waiting[i].seq < Limit
  BY Zenon DEF QueueInv
<1>2. \A i \in DOMAIN given : given[i].seq \in Nat
  BY <1>1, FrameFacts
<1>3. \A i \in DOMAIN waiting : waiting[i] # Empty => waiting[i].seq \in Nat
  BY <1>1, FrameFacts DEF FramesFor
<1>4. \A i \in DOMAIN given : given[i].seq < Limit'
  BY <1>1, <1>2
<1>5. \A i \in DOMAIN waiting : waiting[i] # Empty => waiting[i].seq < Limit'
  BY <1>1, <1>3
<1> QED BY Zenon, <1>1, <1>4, <1>5 DEF QueueInv

(* Steps of the router that deliver nothing. *)
LEMMA RouterStep ==
  ASSUME FabricInv, FabricTypeOK', SocketInv', DOMAIN sending' = Thread,
         \A t \in Thread : SenderInv(t)', Limit <= Limit',
         UNCHANGED <<received, dealer_in, connected, stranded, is_joined>>
  PROVE  FabricInv'
<1>0. Limit \in Nat /\ Limit' \in Nat
  <2>1. next_seq_id \in 1..(MaxSent + 1) /\ next_seq_id' \in 1..(MaxSent + 1)
    BY Zenon DEF FabricInv, FabricTypeOK
  <2>2. \A n \in 1..(MaxSent + 1) : n \in Nat /\ n - 1 \in Nat
    BY FabricSizes
  <2> QED BY ZenonT(60), <2>1, <2>2 DEF Limit
<1>1. \A w \in Worker : QueueInv(w)'
  BY Zenon, <1>0, QueueKept DEF FabricInv
<1>2. JoinedOnThisConnection'
  BY Zenon DEF FabricInv, JoinedOnThisConnection
<1> QED BY Zenon, <1>1, <1>2 DEF FabricInv

(* Steps of worker w. *)
LEMMA WorkerStep ==
  ASSUME FabricInv, NEW w \in Worker, FabricTypeOK', UNCHANGED routerVars,
         DOMAIN received' = Worker, DOMAIN dealer_in' = Worker,
         QueueInv(w)', JoinedOnThisConnection',
         \A v \in Worker \ {w} : received'[v] = received[v] /\ dealer_in'[v] = dealer_in[v]
  PROVE  FabricInv'
<1>1. Limit' = Limit /\ Limit \in Nat
  BY Zenon, LimitType DEF FabricInv, routerVars, Limit
<1>2. \A v \in Worker : QueueInv(v)'
  BY <1>1, QueueKept DEF FabricInv
<1>3. SocketInv' /\ DOMAIN sending' = Thread /\ \A t \in Thread : SenderInv(t)'
  BY ZenonT(60) DEF FabricInv, routerVars, sockVars, SocketInv, SenderInv, Parts
<1> QED BY Zenon, <1>2, <1>3 DEF FabricInv

LEMMA FabricInvInit == FabricInit => FabricInv
<1> SUFFICES ASSUME FabricInit PROVE FabricInv
  BY Zenon
<1>1. FabricTypeOK
  <2>1. /\ bound \in BOOLEAN /\ zmq_sock \in BOOLEAN /\ is_running \in BOOLEAN
        /\ stranded \in [Worker -> BOOLEAN] /\ connected \in [Worker -> BOOLEAN]
        /\ is_authenticated \in [Worker -> BOOLEAN] /\ is_joined \in [Worker -> BOOLEAN]
    BY ZenonT(60) DEF FabricInit
  <2>2. /\ next_seq_id \in 1..(MaxSent + 1) /\ write_lock \in Thread \cup {None}
        /\ \A t \in Thread : write_lock # t /\ sending[t].step = "idle"
    BY FabricSizes DEF FabricInit, NotSending
  <2> QED BY Zenon, <2>1, <2>2 DEF FabricTypeOK
<1>2. SocketInv
  BY Zenon DEF FabricInit, SocketInv, NotSending
<1>3. \A t \in Thread : SenderInv(t)
  BY Zenon, FabricSizes DEF FabricInit, SenderInv, NotSending, InSend
<1>4. ASSUME NEW w \in Worker PROVE QueueInv(w)
  <2>1. received[w] = <<>> /\ dealer_in[w] = <<>>
    BY Zenon DEF FabricInit
  <2>2. /\ <<>> \in Seq(EnvelopesFor(w)) /\ <<>> \in Seq(FramesFor(w))
        /\ DOMAIN <<>> = {}
    BY SeqOfNone
  <2> QED BY Zenon, <2>1, <2>2 DEF QueueInv
<1>5. JoinedOnThisConnection
  BY Zenon DEF FabricInit, JoinedOnThisConnection
<1> QED BY Zenon, <1>1, <1>2, <1>3, <1>4, <1>5 DEF FabricInv, FabricInit

LEMMA StartStopInv ==
  ASSUME FabricInv, start \/ stop \/ run_once
  PROVE  FabricInv'
<1>1. /\ UNCHANGED <<sending, write_lock, next_seq_id, outgoing>>
      /\ UNCHANGED <<received, dealer_in, connected, stranded, is_joined, is_authenticated>>
  BY Zenon DEF start, stop, run_once, routerVars, workerVars
<1>2. bound' \in BOOLEAN /\ zmq_sock' \in BOOLEAN /\ is_running' \in BOOLEAN
  BY ZenonT(60) DEF start, stop, run_once, routerVars, sockVars, FabricInv, FabricTypeOK
<1>3. FabricTypeOK'
  BY Zenon, <1>1, <1>2 DEF FabricInv, FabricTypeOK
<1>4. /\ zmq_sock' => bound'
      /\ ~bound' => ~bound
      /\ zmq_sock' \/ ~bound' => zmq_sock \/ ~bound
  <2>1. bound \in BOOLEAN /\ zmq_sock \in BOOLEAN /\ (zmq_sock => bound)
    BY Zenon DEF FabricInv, FabricTypeOK, SocketInv
  <2>2. CASE start
    BY <2>1, <2>2, ZenonT(60) DEF start
  <2>3. CASE stop \/ run_once
    BY <2>1, <2>3 DEF stop, run_once, routerVars, sockVars
  <2> QED BY Zenon, <2>2, <2>3
<1>5. SocketInv'
  BY ZenonT(60), <1>1, <1>4 DEF FabricInv, SocketInv, Parts
<1>6. \A t \in Thread : SenderInv(t)'
  BY Zenon, <1>1 DEF FabricInv, SenderInv
<1>7. Limit <= Limit' /\ DOMAIN sending' = Thread
  BY <1>1, LimitType DEF FabricInv, Limit
<1> QED BY Zenon, <1>1, <1>3, <1>5, <1>6, <1>7, RouterStep

LEMMA SendToWorkerInv ==
  ASSUME FabricInv, NEW t \in Thread, NEW w \in Worker, NEW c \in Codes,
         send_to_worker(t, w, c)
  PROVE  FabricInv'
<1>1. /\ zmq_sock /\ bound /\ sending[t] = NotSending
      /\ sending' = [sending EXCEPT
           ![t] = [step |-> "lock", to |-> w, code |-> c, seq |-> 0]]
      /\ UNCHANGED <<bound, zmq_sock, is_running, next_seq_id, write_lock, outgoing>>
      /\ UNCHANGED <<received, dealer_in, connected, stranded, is_joined, is_authenticated>>
  BY Zenon DEF send_to_worker, sockVars, workerVars, FabricInv, SocketInv
<1>2. /\ DOMAIN sending' = Thread
      /\ sending'[t] = [step |-> "lock", to |-> w, code |-> c, seq |-> 0]
      /\ \A u \in Thread \ {t} : sending'[u] = sending[u]
  BY ZenonT(60), <1>1 DEF FabricInv
<1>3. write_lock # t
  BY <1>1 DEF FabricInv, SenderInv, NotSending, InSend
<1>4. FabricTypeOK'
  <2>1. \A u \in Thread : sending'[u].step \in
          {"idle", "lock", "identity", "delimiter", "envelope"}
    <3>1. sending'[t].step = "lock"
      BY <1>2
    <3> QED BY Zenon, <1>2, <3>1, SendersOf
  <2>2. \A u \in Thread : write_lock' = u =>
          sending'[u].step \in {"identity", "delimiter", "envelope"}
    BY Zenon, <1>1, <1>2, <1>3 DEF FabricInv, FabricTypeOK
  <2> QED BY Zenon, <1>1, <2>1, <2>2 DEF FabricInv, FabricTypeOK
<1>5. \A u \in Thread : SenderInv(u)'
  <2>1. SenderInv(t)'
    BY Zenon, <1>1, <1>2, <1>3 DEF SenderInv, InSend
  <2>2. \A u \in Thread \ {t} : SenderInv(u)'
    BY Zenon, <1>1, <1>2 DEF FabricInv, SenderInv
  <2> QED BY Zenon, <2>1, <2>2
<1>6. SocketInv'
  <2>1. write_lock # None => sending'[write_lock] = sending[write_lock]
    BY ZenonT(60), <1>2, <1>3 DEF FabricInv, FabricTypeOK
  <2> QED BY Zenon, <1>1, <2>1 DEF FabricInv, SocketInv
<1>7. Limit <= Limit'
  BY <1>1, LimitType DEF FabricInv, Limit
<1> QED BY ZenonT(60), <1>1, <1>2, <1>4, <1>5, <1>6, <1>7, RouterStep

LEMMA LockInv ==
  ASSUME FabricInv, NEW t \in Thread, LockAndNumber(t)
  PROVE  FabricInv'
<1>1. /\ sending[t].step = "lock" /\ next_seq_id <= MaxSent /\ write_lock = None
      /\ write_lock' = t /\ next_seq_id' = next_seq_id + 1
      /\ sending' = [sending EXCEPT ![t].step = "identity", ![t].seq = next_seq_id]
      /\ UNCHANGED <<bound, zmq_sock, is_running, outgoing>>
      /\ UNCHANGED <<received, dealer_in, connected, stranded, is_joined, is_authenticated>>
  BY Zenon DEF LockAndNumber, Acquire, sockVars, workerVars
<1>2. /\ SenderInv(t) /\ next_seq_id \in Nat /\ DOMAIN sending = Thread
      /\ next_seq_id \in 1..(MaxSent + 1) /\ t # None /\ MaxSent \in Nat
  BY Zenon, LimitType, FabricSizes DEF FabricInv, FabricTypeOK
<1>3. /\ DOMAIN sending' = Thread
      /\ sending'[t].step = "identity" /\ sending'[t].seq = next_seq_id
      /\ sending'[t].to = sending[t].to /\ sending'[t].code = sending[t].code
      /\ sending'[t] \in [step : {"idle", "lock"} \cup InSend, to : Worker \cup {None},
                          code : Codes \cup {None}, seq : Nat]
      /\ \A u \in Thread \ {t} : sending'[u] = sending[u]
  BY ZenonT(60), <1>1, <1>2 DEF SenderInv, InSend
<1>4. FabricTypeOK'
  <2>1. \A u \in Thread : sending'[u].step \in
          {"idle", "lock", "identity", "delimiter", "envelope"}
    BY Zenon, <1>3, SendersOf
  <2>2. \A u \in Thread : write_lock' = u =>
          sending'[u].step \in {"identity", "delimiter", "envelope"}
    BY Zenon, <1>1, <1>3
  <2>3. next_seq_id' \in 1..(MaxSent + 1) /\ write_lock' \in Thread \cup {None}
    BY <1>1, <1>2
  <2> QED BY Zenon, <1>1, <2>1, <2>2, <2>3 DEF FabricInv, FabricTypeOK
<1>5. \A u \in Thread : SenderInv(u)'
  <2>1. SenderInv(t)'
    <3>1. sending[t].to \in Worker /\ sending[t].code \in Codes
      BY Zenon, <1>1, <1>2 DEF SenderInv
    <3>2. next_seq_id = next_seq_id' - 1
      BY <1>1, <1>2
    <3> QED BY Zenon, <1>1, <1>3, <3>1, <3>2 DEF SenderInv, InSend
  <2>2. ASSUME NEW u \in Thread \ {t} PROVE SenderInv(u)'
    <3>1. SenderInv(u) /\ write_lock # u /\ write_lock' # u
      BY Zenon, <1>1, FabricSizes DEF FabricInv
    <3> QED BY Zenon, <1>3, <3>1 DEF SenderInv
  <2> QED BY Zenon, <2>1, <2>2
<1>6. SocketInv'
  <2>1. Parts(sending'[t]) = <<>>
    BY Zenon, <1>3 DEF Parts
  <2>2. bound
    BY Zenon, <1>1 DEF FabricInv, SocketInv
  <2> QED BY Zenon, <1>1, <1>2, <2>1, <2>2 DEF FabricInv, SocketInv
<1>7. Limit <= Limit'
  BY <1>1, <1>2 DEF Limit
<1> QED BY ZenonT(60), <1>1, <1>3, <1>4, <1>5, <1>6, <1>7, RouterStep

LEMMA SendPartInv ==
  ASSUME FabricInv, NEW t \in Thread, SendPart(t)
  PROVE  FabricInv'
<1>1. /\ sending[t].step \in {"identity", "delimiter"} /\ zmq_sock
      /\ UNCHANGED <<bound, zmq_sock, is_running, next_seq_id, write_lock>>
      /\ UNCHANGED <<received, dealer_in, connected, stranded, is_joined, is_authenticated>>
  BY Zenon DEF SendPart, sockVars, workerVars
<1>2. SenderInv(t) /\ DOMAIN sending = Thread /\ t # None /\ SocketInv
  BY Zenon, FabricSizes DEF FabricInv
<1>3. write_lock = t /\ outgoing = Parts(sending[t]) /\ bound
  BY Zenon, <1>1, <1>2 DEF SenderInv, InSend, SocketInv
<1>4. PICK next \in {"delimiter", "envelope"} :
        /\ sending' = [sending EXCEPT ![t].step = next]
        /\ sending[t].step = "identity" => next = "delimiter"
                                         /\ outgoing' = Append(outgoing, Identity(sending[t].to))
        /\ sending[t].step = "delimiter" => next = "envelope"
                                          /\ outgoing' = Append(outgoing, Empty)
  BY Zenon, <1>1 DEF SendPart
<1>5. /\ DOMAIN sending' = Thread
      /\ sending'[t].step = next /\ sending'[t].seq = sending[t].seq
      /\ sending'[t].to = sending[t].to /\ sending'[t].code = sending[t].code
      /\ sending'[t] \in [step : {"idle", "lock"} \cup InSend, to : Worker \cup {None},
                          code : Codes \cup {None}, seq : Nat]
      /\ \A u \in Thread \ {t} : sending'[u] = sending[u]
  BY Zenon, <1>2, <1>4 DEF SenderInv, InSend
<1>6. FabricTypeOK'
  <2>1. \A u \in Thread : sending'[u].step \in
          {"idle", "lock", "identity", "delimiter", "envelope"}
    BY ZenonT(60), <1>5 DEF FabricInv, FabricTypeOK
  <2>2. \A u \in Thread : write_lock' = u =>
          sending'[u].step \in {"identity", "delimiter", "envelope"}
    BY Zenon, <1>1, <1>3, <1>5
  <2> QED BY Zenon, <1>1, <2>1, <2>2 DEF FabricInv, FabricTypeOK
<1>7. \A u \in Thread : SenderInv(u)'
  <2>1. SenderInv(t)'
    BY Zenon, <1>1, <1>2, <1>3, <1>5 DEF SenderInv, InSend
  <2>2. \A u \in Thread \ {t} : SenderInv(u)'
    BY Zenon, <1>1, <1>5 DEF FabricInv, SenderInv
  <2> QED BY Zenon, <2>1, <2>2
<1>8. outgoing' = Parts(sending'[t])
  <2>1. CASE sending[t].step = "identity"
    <3>1. outgoing = <<>> /\ Parts(sending'[t]) = <<Identity(sending[t].to)>>
      BY Zenon, <1>3, <1>4, <1>5, <2>1 DEF Parts
    <3> QED BY <1>4, <2>1, <3>1
  <2>2. CASE sending[t].step = "delimiter"
    <3>1. /\ outgoing = <<Identity(sending[t].to)>>
          /\ Parts(sending'[t]) = <<Identity(sending[t].to), Empty>>
      BY Zenon, <1>3, <1>4, <1>5, <2>2 DEF Parts
    <3> QED BY Zenon, <1>4, <2>2, <3>1, AppendToOne
  <2> QED BY Zenon, <1>1, <2>1, <2>2
<1>9. SocketInv'
  BY Zenon, <1>1, <1>2, <1>3, <1>8 DEF SocketInv
<1>10. Limit <= Limit'
  <2>1. Limit \in Nat /\ next_seq_id \in Nat
    BY Zenon, LimitType DEF FabricInv
  <2> QED BY <1>1, <2>1 DEF Limit
<1> QED BY ZenonT(60), <1>1, <1>5, <1>6, <1>7, <1>9, <1>10, RouterStep

LEMMA SendFailsInv ==
  ASSUME FabricInv, NEW t \in Thread, SendFails(t)
  PROVE  FabricInv'
<1>1. /\ sending[t].step \in InSend /\ ~zmq_sock /\ write_lock' = None
      /\ sending' = [sending EXCEPT ![t] = NotSending]
      /\ UNCHANGED <<bound, zmq_sock, is_running, next_seq_id, outgoing>>
      /\ UNCHANGED <<received, dealer_in, connected, stranded, is_joined, is_authenticated>>
  BY Zenon DEF SendFails, sockVars, workerVars, InSend
<1>2. SenderInv(t) /\ DOMAIN sending = Thread /\ SocketInv /\ next_seq_id \in Nat
  BY Zenon, LimitType DEF FabricInv
<1>3. write_lock = t /\ bound
  BY Zenon, <1>1, <1>2 DEF SenderInv, SocketInv, InSend
<1>4. /\ DOMAIN sending' = Thread /\ sending'[t] = NotSending
      /\ \A u \in Thread \ {t} : sending'[u] = sending[u]
  BY Zenon, <1>1, <1>2
<1>5. FabricTypeOK'
  <2>1. \A u \in Thread : sending'[u].step \in
          {"idle", "lock", "identity", "delimiter", "envelope"}
    <3>1. sending'[t].step = "idle"
      BY <1>4 DEF NotSending
    <3> QED BY Zenon, <1>4, <3>1, SendersOf
  <2>2. \A u \in Thread : write_lock' # u
    BY Zenon, <1>1, FabricSizes
  <2> QED BY Zenon, <1>1, <2>1, <2>2 DEF FabricInv, FabricTypeOK
<1>6. \A u \in Thread : SenderInv(u)'
  <2>1. SenderInv(t)'
    BY Zenon, <1>1, <1>4, FabricSizes DEF SenderInv, NotSending, InSend
  <2>2. ASSUME NEW u \in Thread \ {t} PROVE SenderInv(u)'
    <3>1. SenderInv(u) /\ write_lock # u /\ write_lock' # u
      BY Zenon, <1>1, <1>3, FabricSizes DEF FabricInv
    <3> QED BY ZenonT(60), <1>4, <3>1 DEF SenderInv
  <2> QED BY Zenon, <2>1, <2>2
<1>7. SocketInv'
  BY Zenon, <1>1, <1>3 DEF SocketInv
<1>8. Limit <= Limit'
  BY <1>1, <1>2, <1>3, FabricSizes DEF Limit
<1> QED BY ZenonT(60), <1>1, <1>4, <1>5, <1>6, <1>7, <1>8, RouterStep

(* The frames after the first, and two runs of frames put together. *)
LEMMA SeqTail ==
  ASSUME NEW T, NEW s \in Seq(T), s # <<>>
  PROVE  /\ Head(s) \in T /\ Tail(s) \in Seq(T) /\ Len(Tail(s)) = Len(s) - 1
         /\ \A i \in 1..Len(Tail(s)) : Tail(s)[i] = s[i + 1]
OBVIOUS

LEMMA SeqJoin ==
  ASSUME NEW T, NEW s \in Seq(T), NEW r \in Seq(T)
  PROVE  /\ s \o r \in Seq(T) /\ Len(s \o r) = Len(s) + Len(r)
         /\ \A i \in 1..(Len(s) + Len(r)) :
              (s \o r)[i] = IF i <= Len(s) THEN s[i] ELSE r[i - Len(s)]
OBVIOUS

(* One frame more at the end of a message. *)
LEMMA LongerBy ==
  ASSUME NEW S, NEW q \in Seq(S), NEW c \in S
  PROVE  /\ Append(q, c) \in Seq(S) /\ Append(q, c) # <<>>
         /\ Len(Append(q, c)) = Len(q) + 1
         /\ \A i \in 1..Len(q) : Append(q, c)[i] = q[i]
         /\ Append(q, c)[Len(q) + 1] = c
BY SeqAppend

(* A message of three frames loses the first. *)
LEMMA MessageFacts ==
  ASSUME NEW a, NEW b, NEW c
  PROVE  /\ Append(<<a, b>>, c)[1] = a
         /\ Tail(Append(<<a, b>>, c)) = <<b, c>>
<1> DEFINE S == {a, b, c}
           two == <<a, b>>
           m == Append(two, c)
<1>1. /\ two \in Seq(S) /\ Len(two) = 2 /\ two[1] = a /\ two[2] = b /\ c \in S
      /\ <<b, c>> \in Seq(S) /\ Len(<<b, c>>) = 2
      /\ <<b, c>>[1] = b /\ <<b, c>>[2] = c
  OBVIOUS
<1> HIDE DEF S, two
<1>2. /\ m \in Seq(S) /\ m # <<>> /\ Len(m) = 3
      /\ m[1] = a /\ m[2] = b /\ m[3] = c
  <2>1. /\ m \in Seq(S) /\ m # <<>> /\ Len(m) = Len(two) + 1
        /\ \A i \in 1..Len(two) : m[i] = two[i]
        /\ m[Len(two) + 1] = c
    <3>1. two \in Seq(S)
      BY Zenon, <1>1
    <3>2. c \in S
      BY Zenon, <1>1
    <3>3. \A q \in Seq(S), x \in S :
            /\ Append(q, x) \in Seq(S) /\ Append(q, x) # <<>>
            /\ Len(Append(q, x)) = Len(q) + 1
            /\ \A i \in 1..Len(q) : Append(q, x)[i] = q[i]
            /\ Append(q, x)[Len(q) + 1] = x
      BY Zenon, LongerBy
    <3> QED BY Zenon, <3>1, <3>2, <3>3
  <2> HIDE DEF m
  <2> QED BY <1>1, <2>1
<1> HIDE DEF m
<1>3. Tail(m) \in Seq(S) /\ Len(Tail(m)) = 2 /\ Tail(m)[1] = b /\ Tail(m)[2] = c
  <2>1. /\ Tail(m) \in Seq(S) /\ Len(Tail(m)) = Len(m) - 1
        /\ \A i \in 1..Len(Tail(m)) : Tail(m)[i] = m[i + 1]
    BY ZenonT(60), <1>2, SeqTail
  <2> QED BY <1>2, <2>1
<1>4. \A i \in 1..2 : i = 1 \/ i = 2
  OBVIOUS
<1>5. Tail(m) = <<b, c>>
  BY ZenonT(60), <1>1, <1>3, <1>4, SeqSame
<1> QED BY Zenon, <1>2, <1>5 DEF m, two

(* Two frames more at the end of a queue. *)
LEMMA QueuedFacts ==
  ASSUME NEW S, NEW q \in Seq(S), NEW b \in S, NEW c \in S
  PROVE  /\ q \o <<b, c>> \in Seq(S)
         /\ DOMAIN q = 1..Len(q) /\ Len(q) \in Nat
         /\ DOMAIN (q \o <<b, c>>) = 1..(Len(q) + 2)
         /\ \A i \in 1..Len(q) : (q \o <<b, c>>)[i] = q[i]
         /\ (q \o <<b, c>>)[Len(q) + 1] = b
         /\ (q \o <<b, c>>)[Len(q) + 2] = c
<1>1. /\ <<b, c>> \in Seq(S) /\ Len(<<b, c>>) = 2
      /\ <<b, c>>[1] = b /\ <<b, c>>[2] = c /\ Len(q) \in Nat
  OBVIOUS
<1> DEFINE two == <<b, c>>
<1> HIDE DEF two
<1>2. /\ q \o two \in Seq(S) /\ Len(q \o two) = Len(q) + 2
      /\ \A i \in 1..(Len(q) + 2) :
           (q \o two)[i] = IF i <= Len(q) THEN q[i] ELSE two[i - Len(q)]
  BY Zenon, <1>1, SeqJoin DEF two
<1>3. /\ \A i \in 1..Len(q) : (q \o two)[i] = q[i]
      /\ (q \o two)[Len(q) + 1] = b /\ (q \o two)[Len(q) + 2] = c
  <2>1. /\ Len(q) + 1 \in 1..(Len(q) + 2) /\ ~(Len(q) + 1 <= Len(q))
        /\ Len(q) + 2 \in 1..(Len(q) + 2) /\ ~(Len(q) + 2 <= Len(q))
        /\ (Len(q) + 1) - Len(q) = 1 /\ (Len(q) + 2) - Len(q) = 2
        /\ \A i \in 1..Len(q) : i \in 1..(Len(q) + 2) /\ i <= Len(q)
    BY <1>1
  <2>2. two[1] = b /\ two[2] = c
    BY Zenon, <1>1 DEF two
  <2> QED BY Zenon, <1>2, <2>1, <2>2
<1>4. DOMAIN q = 1..Len(q) /\ DOMAIN (q \o two) = 1..(Len(q) + 2)
  BY Zenon, <1>2, SeqDomain
<1> QED BY Zenon, <1>1, <1>2, <1>3, <1>4 DEF two

(* The message reaches the queue of the worker it was meant for. *)
LEMMA DeliveredInv ==
  ASSUME NEW w \in Worker, QueueInv(w), NEW c \in Codes, Limit \in Nat,
         Limit' = Limit + 1, received'[w] = received[w],
         dealer_in'[w] = dealer_in[w] \o <<Empty, Envelope(w, c, Limit)>>
  PROVE  QueueInv(w)'
<1> DEFINE given == received[w]
           q == dealer_in[w]
           e == Envelope(w, c, Limit)
           q2 == q \o <<Empty, e>>
<1>1. /\ given \in Seq(EnvelopesFor(w)) /\ q \in Seq(FramesFor(w))
      /\ \A i \in DOMAIN given : given[i].seq < Limit
      /\ \A i \in DOMAIN q : q[i] # Empty => q[i].seq < Limit
      /\ \A i, j \in DOMAIN given : i < j => given[i].seq < given[j].seq
      /\ \A i, j \in DOMAIN q : i < j /\ q[i] # Empty /\ q[j] # Empty => q[i].seq < q[j].seq
      /\ \A i \in DOMAIN given, j \in DOMAIN q :
           q[j] # Empty => given[i].seq < q[j].seq
  BY ZenonT(60) DEF QueueInv
<1>2. e \in FramesFor(w) /\ Empty \in FramesFor(w) /\ e.seq = Limit
  BY SMTT(30), FrameFacts DEF FramesFor
<1> HIDE DEF e, q
<1>3. /\ q2 \in Seq(FramesFor(w)) /\ Len(q) \in Nat
      /\ DOMAIN q = 1..Len(q) /\ DOMAIN q2 = 1..(Len(q) + 2)
      /\ \A i \in 1..Len(q) : q2[i] = q[i]
      /\ q2[Len(q) + 1] = Empty /\ q2[Len(q) + 2] = e
  BY <1>1, <1>2, QueuedFacts
<1>4. dealer_in'[w] = q2 /\ received'[w] = given
  BY Zenon DEF e, q
<1> HIDE DEF q2, given
<1>5. \A i \in DOMAIN q2 : \/ i \in DOMAIN q /\ q2[i] = q[i] /\ i < Len(q) + 2
                           \/ q2[i] = Empty
                           \/ i = Len(q) + 2 /\ q2[i] = e
  <2> TAKE i \in DOMAIN q2
  <2>1. i \in 1..Len(q) \/ i = Len(q) + 1 \/ i = Len(q) + 2
    BY SMTT(30), <1>3
  <2> QED BY <1>3, <2>1
<1>6. /\ \A i \in DOMAIN given : given[i].seq \in Nat
      /\ \A i \in DOMAIN q : q[i] # Empty => q[i].seq \in Nat
  BY <1>1, FrameFacts DEF FramesFor
<1>7. /\ \A i \in DOMAIN given : given[i].seq < Limit'
      /\ \A i \in DOMAIN q2 : q2[i] # Empty => q2[i].seq < Limit'
  <2>1. /\ \A i \in DOMAIN given : given[i].seq < Limit'
        /\ \A i \in DOMAIN q : q[i] # Empty => q[i].seq < Limit'
    BY SMTT(30), <1>1, <1>6
  <2>2. e.seq < Limit'
    BY <1>2
  <2> QED BY ZenonT(60), <1>5, <2>1, <2>2
<1>8. ASSUME NEW i \in DOMAIN q2, NEW j \in DOMAIN q2, i < j, q2[i] # Empty, q2[j] # Empty
      PROVE  q2[i].seq < q2[j].seq
  <2>1. CASE j = Len(q) + 2 /\ q2[j] = e
    <3>1. i \in DOMAIN q /\ q2[i] = q[i]
      <4>1. i # Len(q) + 2
        BY <1>8, <2>1
      <4> QED BY ZenonT(60), <1>5, <1>8, <4>1
    <3> QED BY ZenonT(60), <1>1, <1>2, <1>8, <2>1, <3>1
  <2>2. CASE j \in DOMAIN q /\ q2[j] = q[j]
    <3>1. i \in DOMAIN q /\ q2[i] = q[i]
      BY SMTT(30), <1>3, <1>5, <1>8, <2>2
    <3> QED BY ZenonT(60), <1>1, <1>8, <2>2, <3>1
  <2> QED BY Zenon, <1>5, <1>8, <2>1, <2>2
<1>9. \A i \in DOMAIN given, j \in DOMAIN q2 :
        q2[j] # Empty => given[i].seq < q2[j].seq
  <2>1. \A i \in DOMAIN given : given[i].seq < e.seq
    BY Zenon, <1>1, <1>2
  <2> QED BY Zenon, <1>1, <1>5, <2>1
<1> QED BY Zenon, <1>1, <1>3, <1>4, <1>7, <1>8, <1>9 DEF QueueInv

LEMMA SendLastInv ==
  ASSUME FabricInv, NEW t \in Thread, SendLast(t)
  PROVE  FabricInv'
<1> DEFINE w == sending[t].to
           c == sending[t].code
           e == Envelope(w, c, sending[t].seq)
           message == Append(outgoing, e)
<1>1. /\ sending[t].step = "envelope" /\ zmq_sock
      /\ outgoing' = <<>> /\ write_lock' = None
      /\ sending' = [sending EXCEPT ![t] = NotSending]
      /\ UNCHANGED <<bound, zmq_sock, is_running, next_seq_id>>
      /\ UNCHANGED <<received, connected, stranded, is_joined, is_authenticated>>
  BY ZenonT(60) DEF SendLast, sockVars, workerVars
<1>2. /\ SenderInv(t) /\ SocketInv /\ next_seq_id \in Nat /\ next_seq_id >= 1
      /\ DOMAIN sending = Thread /\ DOMAIN dealer_in = Worker /\ t # None
  BY Zenon, LimitType, FabricSizes DEF FabricInv
<1>3. /\ write_lock = t /\ w \in Worker /\ c \in Codes /\ bound
      /\ sending[t].seq = next_seq_id - 1 /\ outgoing = Parts(sending[t])
  BY Zenon, <1>1, <1>2 DEF SenderInv, InSend, SocketInv
<1>4. Limit = sending[t].seq /\ Limit \in Nat /\ Limit' = Limit + 1
  BY <1>1, <1>2, <1>3 DEF Limit
<1>5. outgoing = <<Identity(w), Empty>>
  BY Zenon, <1>1, <1>3 DEF Parts
<1>6. message[1] = Identity(w) /\ Tail(message) = <<Empty, e>>
  <2> HIDE DEF e, w
  <2> QED BY ZenonT(60), <1>5, MessageFacts
<1>7. Identity(w).frame = "identity" /\ Identity(w).of = w
  BY Zenon DEF Identity
<1>8. \/ dealer_in' = [dealer_in EXCEPT ![w] = @ \o <<Empty, Envelope(w, c, Limit)>>]
      \/ dealer_in' = dealer_in
  <2>1. dealer_in' = IF /\ message[1].frame = "identity"
                        /\ connected[message[1].of] /\ ~stranded[message[1].of]
                       THEN [dealer_in EXCEPT ![message[1].of] = @ \o Tail(message)]
                       ELSE dealer_in
    BY ZenonT(60) DEF SendLast
  <2> HIDE DEF message
  <2> QED BY Zenon, <1>4, <1>6, <1>7, <2>1
<1> HIDE DEF message, e, w, c
<1>9. /\ DOMAIN sending' = Thread /\ sending'[t] = NotSending
      /\ \A u \in Thread \ {t} : sending'[u] = sending[u]
  BY Zenon, <1>1, <1>2
<1>10. FabricTypeOK'
  <2>1. \A u \in Thread : sending'[u].step \in
          {"idle", "lock", "identity", "delimiter", "envelope"}
    <3>1. \A u \in Thread : sending[u].step \in
            {"idle", "lock", "identity", "delimiter", "envelope"}
      BY Zenon DEF FabricInv, FabricTypeOK
    <3>2. NotSending.step = "idle"
      BY Zenon DEF NotSending
    <3> QED BY Zenon, <1>9, <3>1, <3>2
  <2>2. \A u \in Thread : write_lock' # u
    BY ZenonT(60), <1>1, FabricSizes
  <2> QED BY Zenon, <1>1, <2>1, <2>2 DEF FabricInv, FabricTypeOK
<1>11. \A u \in Thread : SenderInv(u)'
  <2>1. SenderInv(t)'
    BY ZenonT(60), <1>1, <1>9, FabricSizes DEF SenderInv, NotSending, InSend
  <2>2. ASSUME NEW u \in Thread \ {t} PROVE SenderInv(u)'
    <3>1. SenderInv(u) /\ write_lock # u /\ write_lock' # u
      BY Zenon, <1>1, <1>3, FabricSizes DEF FabricInv
    <3> QED BY Zenon, <1>9, <3>1 DEF SenderInv
  <2> QED BY Zenon, <2>1, <2>2
<1>12. SocketInv'
  BY Zenon, <1>1, <1>3 DEF SocketInv
<1>13. ASSUME NEW v \in Worker PROVE QueueInv(v)'
  <2>1. QueueInv(v) /\ received'[v] = received[v]
    BY ZenonT(60), <1>1 DEF FabricInv
  <2>2. CASE dealer_in'[v] = dealer_in[v]
    BY SMTT(30), <1>4, <2>1, <2>2, QueueKept
  <2>3. CASE dealer_in'[v] # dealer_in[v]
    <3>1. v = w /\ dealer_in'[v] = dealer_in[v] \o <<Empty, Envelope(v, c, Limit)>>
      BY ZenonT(60), <1>2, <1>3, <1>8, <2>3
    <3> QED BY ZenonT(60), <1>3, <1>4, <2>1, <3>1, DeliveredInv
  <2> QED BY Zenon, <2>2, <2>3
<1>14. DOMAIN dealer_in' = Worker /\ DOMAIN received' = Worker
  BY Zenon, <1>1, <1>2, <1>8 DEF FabricInv
<1>15. JoinedOnThisConnection'
  BY Zenon, <1>1 DEF FabricInv, JoinedOnThisConnection
<1> QED BY Zenon, <1>9, <1>10, <1>11, <1>12, <1>13, <1>14, <1>15 DEF FabricInv

(* A queue that is emptied, with or without what its worker was given. *)
LEMMA EmptiedInv ==
  ASSUME NEW w \in Worker, QueueInv(w), Limit' = Limit,
         dealer_in'[w] = <<>>, received'[w] = <<>> \/ received'[w] = received[w]
  PROVE  QueueInv(w)'
<1>1. <<>> \in Seq(FramesFor(w)) /\ <<>> \in Seq(EnvelopesFor(w)) /\ DOMAIN <<>> = {}
  BY SeqOfNone
<1> QED BY ZenonT(60), <1>1 DEF QueueInv

LEMMA ConnectInv ==
  ASSUME FabricInv, NEW w \in Worker, connect(w) \/ disconnect(w) \/ send(w)
  PROVE  FabricInv'
<1>1. UNCHANGED routerVars
  BY Zenon DEF connect, disconnect, send
<1>2. Limit' = Limit
  BY Zenon, <1>1 DEF routerVars, Limit
<1>3. /\ connected \in [Worker -> BOOLEAN] /\ stranded \in [Worker -> BOOLEAN]
      /\ is_joined \in [Worker -> BOOLEAN] /\ is_authenticated \in [Worker -> BOOLEAN]
      /\ DOMAIN received = Worker /\ DOMAIN dealer_in = Worker /\ QueueInv(w)
  BY Zenon DEF FabricInv, FabricTypeOK
<1>4. /\ connected' \in [Worker -> BOOLEAN] /\ stranded' \in [Worker -> BOOLEAN]
      /\ is_joined' \in [Worker -> BOOLEAN] /\ is_authenticated' \in [Worker -> BOOLEAN]
  BY Zenon, <1>3 DEF connect, disconnect, send
<1>5. FabricTypeOK'
  BY Zenon, <1>1, <1>4 DEF FabricInv, FabricTypeOK, routerVars, sockVars
<1>6. CASE connect(w)
  <2>1. /\ DOMAIN received' = Worker /\ DOMAIN dealer_in' = Worker
        /\ received'[w] = <<>> /\ dealer_in'[w] = <<>>
        /\ \A v \in Worker \ {w} : /\ received'[v] = received[v]
                                   /\ dealer_in'[v] = dealer_in[v]
                                   /\ connected'[v] = connected[v]
                                   /\ stranded'[v] = stranded[v]
        /\ is_joined' = is_joined
        /\ stranded'[w] = (stranded[w] \/ connected[w])
    BY Zenon, <1>3, <1>6 DEF connect
  <2>2. JoinedOnThisConnection'
    <3>1. ~(is_joined'[w] /\ ~stranded'[w])
      BY ZenonT(60), <2>1 DEF FabricInv, JoinedOnThisConnection
    <3>2. \A v \in Worker \ {w} : is_joined'[v] /\ ~stranded'[v] =>
            /\ connected'[v]
            /\ \E i \in DOMAIN received'[v] : received'[v][i].code = "JOIN_RESP"
      BY <2>1 DEF FabricInv, JoinedOnThisConnection
    <3> QED BY Zenon, <3>1, <3>2 DEF JoinedOnThisConnection
  <2> QED BY ZenonT(60), <1>1, <1>2, <1>3, <1>5, <2>1, <2>2, EmptiedInv, WorkerStep
<1>7. CASE disconnect(w)
  <2>1. /\ DOMAIN dealer_in' = Worker /\ dealer_in'[w] = <<>>
        /\ \A v \in Worker \ {w} : /\ dealer_in'[v] = dealer_in[v]
                                   /\ connected'[v] = connected[v]
                                   /\ is_joined'[v] = is_joined[v]
        /\ stranded' = stranded /\ received' = received /\ is_joined'[w] = FALSE
    BY Zenon, <1>3, <1>7 DEF disconnect
  <2>2. JoinedOnThisConnection'
    BY ZenonT(60), <2>1 DEF FabricInv, JoinedOnThisConnection
  <2> QED BY ZenonT(60), <1>1, <1>2, <1>3, <1>5, <2>1, <2>2, EmptiedInv, WorkerStep
<1>8. CASE send(w)
  <2>1. UNCHANGED <<received, dealer_in, connected, stranded, is_joined>>
    BY Zenon, <1>8 DEF send
  <2>2. JoinedOnThisConnection' /\ QueueInv(w)'
    BY Zenon, <1>2, <1>3, <2>1 DEF FabricInv, JoinedOnThisConnection, QueueInv
  <2> QED BY ZenonT(60), <1>1, <1>3, <1>5, <2>1, <2>2, WorkerStep
<1> QED BY Zenon, <1>1, <1>6, <1>7, <1>8

(* The first frame of a queue is taken off it and, if it is no delimiter, *)
(* given to the worker.                                                   *)
LEMMA PolledInv ==
  ASSUME NEW w \in Worker, QueueInv(w), Limit \in Nat, Limit' = Limit,
         dealer_in[w] # <<>>, dealer_in'[w] = Tail(dealer_in[w]),
         received'[w] = IF Head(dealer_in[w]) = Empty THEN received[w]
                        ELSE Append(received[w], Head(dealer_in[w]))
  PROVE  QueueInv(w)'
<1> DEFINE given == received[w]
           q == dealer_in[w]
           given2 == received'[w]
           q2 == dealer_in'[w]
           f == Head(dealer_in[w])
<1>1. /\ given \in Seq(EnvelopesFor(w)) /\ q \in Seq(FramesFor(w))
      /\ \A i \in DOMAIN given : given[i].seq < Limit
      /\ \A i \in DOMAIN q : q[i] # Empty => q[i].seq < Limit
      /\ \A i, j \in DOMAIN given : i < j => given[i].seq < given[j].seq
      /\ \A i, j \in DOMAIN q : i < j /\ q[i] # Empty /\ q[j] # Empty => q[i].seq < q[j].seq
      /\ \A i \in DOMAIN given, j \in DOMAIN q :
           q[j] # Empty => given[i].seq < q[j].seq
  BY ZenonT(60) DEF QueueInv
<1>2. /\ q2 \in Seq(FramesFor(w)) /\ Len(q) \in Nat /\ Len(q) >= 1
      /\ DOMAIN q = 1..Len(q) /\ DOMAIN q2 = 1..(Len(q) - 1)
      /\ \A i \in 1..(Len(q) - 1) : q2[i] = q[i + 1]
      /\ f = q[1] /\ f \in FramesFor(w)
  <2> HIDE DEF q, q2, f
  <2>1. q # <<>> /\ q2 = Tail(q) /\ f = Head(q)
    BY Zenon DEF q, q2, f
  <2>2. /\ f \in FramesFor(w) /\ q2 \in Seq(FramesFor(w)) /\ Len(q2) = Len(q) - 1
        /\ \A i \in 1..Len(q2) : q2[i] = q[i + 1]
    BY ZenonT(60), <1>1, <2>1, SeqTail
  <2>3. Len(q) \in Nat /\ DOMAIN q = 1..Len(q) /\ DOMAIN q2 = 1..Len(q2)
    BY ZenonT(60), <1>1, <2>2, SeqDomain
  <2>4. Len(q) # 0
    <3>1. q \in Seq(FramesFor(w))
      BY Zenon, <1>1
    <3> QED BY SMTT(30), <2>1, <3>1, SeqOfNone
  <2>5. f = q[1]
    BY <2>1
  <2>6. Len(q) >= 1
    BY <2>3, <2>4
  <2> QED BY Zenon, <2>2, <2>3, <2>5, <2>6
<1>3. \/ f = Empty /\ given2 = given
      \/ /\ f # Empty /\ f \in EnvelopesFor(w)
         /\ given2 = Append(given, f)
  BY Zenon, <1>2 DEF FramesFor
<1> HIDE DEF given, q, given2, q2, f
<1>4. /\ \A i \in DOMAIN given : given[i].seq \in Nat
      /\ \A i \in DOMAIN q : q[i] # Empty => q[i].seq \in Nat
  BY <1>1, FrameFacts DEF FramesFor
<1>5. /\ \A i \in DOMAIN q2 : q2[i] # Empty => q2[i].seq < Limit
      /\ \A i, j \in DOMAIN q2 :
           i < j /\ q2[i] # Empty /\ q2[j] # Empty => q2[i].seq < q2[j].seq
      /\ \A i \in DOMAIN given, j \in DOMAIN q2 :
           q2[j] # Empty => given[i].seq < q2[j].seq
      /\ f # Empty => f.seq < Limit
      /\ f # Empty => \A j \in DOMAIN q2 : q2[j] # Empty => f.seq < q2[j].seq
      /\ f # Empty => \A i \in DOMAIN given : given[i].seq < f.seq
  <2>1. \A j \in DOMAIN q2 : j + 1 \in DOMAIN q /\ q2[j] = q[j + 1] /\ 1 < j + 1
    BY <1>2
  <2>2. 1 \in DOMAIN q
    BY <1>2
  <2>3. \A i \in DOMAIN q2 : q2[i] # Empty => q2[i].seq < Limit
    BY Zenon, <1>1, <2>1
  <2>4. ASSUME NEW i \in DOMAIN q2, NEW j \in DOMAIN q2, i < j, q2[i] # Empty, q2[j] # Empty
        PROVE  q2[i].seq < q2[j].seq
    <3>1. i + 1 < j + 1
      BY <1>2, <2>4
    <3> QED BY ZenonT(60), <1>1, <2>1, <2>4, <3>1
  <2>5. \A i \in DOMAIN given, j \in DOMAIN q2 :
           q2[j] # Empty => given[i].seq < q2[j].seq
    BY Zenon, <1>1, <2>1
  <2>6. f # Empty => /\ f.seq < Limit
                     /\ \A j \in DOMAIN q2 : q2[j] # Empty => f.seq < q2[j].seq
                     /\ \A i \in DOMAIN given : given[i].seq < f.seq
    BY ZenonT(60), <1>1, <1>2, <2>1, <2>2
  <2> QED BY ZenonT(60), <2>3, <2>4, <2>5, <2>6
<1>6. CASE f = Empty
  <2>1. given2 = given
    BY Zenon, <1>3, <1>6
  <2> QED BY ZenonT(60), <1>1, <1>2, <1>5, <2>1 DEF QueueInv, given2, q2
<1>7. CASE f # Empty
  <2>1. f \in EnvelopesFor(w) /\ given2 = Append(given, f)
    BY Zenon, <1>3, <1>7
  <2>2. /\ given2 \in Seq(EnvelopesFor(w)) /\ Len(given2) = Len(given) + 1
        /\ \A i \in 1..Len(given) : given2[i] = given[i]
        /\ given2[Len(given) + 1] = f
    <3>1. given \in Seq(EnvelopesFor(w))
      BY Zenon, <1>1
    <3> HIDE DEF given, given2, f
    <3>2. f \in EnvelopesFor(w)
      BY Zenon, <2>1
    <3>3. /\ Append(given, f) \in Seq(EnvelopesFor(w))
          /\ Len(Append(given, f)) = Len(given) + 1
          /\ \A i \in 1..Len(given) : Append(given, f)[i] = given[i]
          /\ Append(given, f)[Len(given) + 1] = f
      BY SMTT(30), <3>1, <3>2, LongerBy
    <3> QED BY Zenon, <2>1, <3>3
  <2>3. /\ Len(given) \in Nat /\ DOMAIN given = 1..Len(given)
        /\ DOMAIN given2 = 1..(Len(given) + 1)
    BY Zenon, <1>1, <2>2, SeqDomain
  <2>4. \A i \in DOMAIN given2 : \/ i \in DOMAIN given /\ given2[i] = given[i]
                                 \/ i = Len(given) + 1 /\ given2[i] = f
    BY <2>2, <2>3
  <2>5. \A i \in DOMAIN given2 : given2[i].seq < Limit
    BY Zenon, <1>1, <1>5, <1>7, <2>4
  <2>6. ASSUME NEW i \in DOMAIN given2, NEW j \in DOMAIN given2, i < j
        PROVE  given2[i].seq < given2[j].seq
    <3>1. i \in DOMAIN given /\ given2[i] = given[i]
      BY SMTT(30), <2>2, <2>3, <2>6
    <3>2. CASE j \in DOMAIN given /\ given2[j] = given[j]
      <4>1. \A k, l \in DOMAIN given : k < l => given[k].seq < given[l].seq
        BY Zenon, <1>1
      <4> QED BY Zenon, <2>6, <3>1, <3>2, <4>1
    <3>3. CASE given2[j] = f
      <4>1. given[i].seq < f.seq
        BY Zenon, <1>5, <1>7, <3>1
      <4> QED BY Zenon, <3>1, <3>3, <4>1
    <3> QED BY ZenonT(60), <2>4, <3>2, <3>3
  <2>7. ASSUME NEW i \in DOMAIN given2, NEW j \in DOMAIN q2, q2[j] # Empty
        PROVE  given2[i].seq < q2[j].seq
    <3>1. \A k \in DOMAIN given : given[k].seq < q2[j].seq
      BY Zenon, <1>5, <2>7
    <3>2. f.seq < q2[j].seq
      BY Zenon, <1>5, <1>7, <2>7
    <3> QED BY Zenon, <2>4, <3>1, <3>2
  <2> QED BY ZenonT(60), <1>2, <1>5, <2>2, <2>5, <2>6, <2>7 DEF QueueInv, given2, q2
<1> QED BY Zenon, <1>6, <1>7

LEMMA PollInv ==
  ASSUME FabricInv, NEW w \in Worker, poll(w)
  PROVE  FabricInv'
<1> DEFINE f == Head(dealer_in[w])
<1>1. /\ connected[w] /\ dealer_in[w] # <<>> /\ UNCHANGED routerVars
      /\ dealer_in' = [dealer_in EXCEPT ![w] = Tail(@)]
      /\ UNCHANGED <<connected, stranded>>
  BY Zenon DEF poll
<1>2. /\ is_joined \in [Worker -> BOOLEAN] /\ is_authenticated \in [Worker -> BOOLEAN]
      /\ DOMAIN received = Worker /\ DOMAIN dealer_in = Worker /\ QueueInv(w)
      /\ Limit \in Nat /\ Limit' = Limit
  BY Zenon, <1>1, LimitType DEF FabricInv, FabricTypeOK, routerVars, Limit
<1>3. (f.frame = "envelope") <=> (f # Empty)
  <2>1. dealer_in[w] \in Seq(FramesFor(w))
    BY Zenon, <1>2 DEF QueueInv
  <2>2. f \in FramesFor(w)
    BY ZenonT(60), <1>1, <2>1, SeqTail
  <2> HIDE DEF f
  <2> QED BY Zenon, <2>2, FrameFacts DEF FramesFor, Empty
<1>4. /\ f # Empty =>
           /\ received' = [received EXCEPT ![w] = Append(@, f)]
           /\ is_authenticated' =
                [is_authenticated EXCEPT ![w] = @ \/ f.code = "AUTH_RESP"]
           /\ is_joined' = [is_joined EXCEPT ![w] = @ \/ f.code = "JOIN_RESP"]
      /\ f = Empty => UNCHANGED <<received, is_authenticated, is_joined>>
  <2> HIDE DEF f
  <2>1. IF f.frame = "envelope"
          THEN /\ received' = [received EXCEPT ![w] = Append(@, f)]
               /\ is_authenticated' =
                    [is_authenticated EXCEPT ![w] = @ \/ f.code = "AUTH_RESP"]
               /\ is_joined' = [is_joined EXCEPT ![w] = @ \/ f.code = "JOIN_RESP"]
          ELSE UNCHANGED <<received, is_authenticated, is_joined>>
    BY Zenon DEF poll, f
  <2> QED BY Zenon, <1>3, <2>1
<1> HIDE DEF f
<1>5. /\ is_joined' \in [Worker -> BOOLEAN] /\ is_authenticated' \in [Worker -> BOOLEAN]
  BY Zenon, <1>2, <1>4
<1>6. FabricTypeOK'
  BY Zenon, <1>1, <1>5 DEF FabricInv, FabricTypeOK, routerVars, sockVars
<1>7. /\ DOMAIN received' = Worker /\ DOMAIN dealer_in' = Worker
      /\ dealer_in'[w] = Tail(dealer_in[w])
      /\ received'[w] = IF f = Empty THEN received[w] ELSE Append(received[w], f)
      /\ \A v \in Worker \ {w} : /\ received'[v] = received[v]
                                 /\ dealer_in'[v] = dealer_in[v]
                                 /\ is_joined'[v] = is_joined[v]
      /\ is_joined'[w] = (is_joined[w] \/ (f # Empty /\ f.code = "JOIN_RESP"))
  BY ZenonT(60), <1>1, <1>2, <1>4
<1>8. QueueInv(w)'
  BY Zenon, <1>1, <1>2, <1>7, PolledInv DEF f
<1>9. JoinedOnThisConnection'
  <2> DEFINE Given(v) == /\ connected'[v]
                         /\ \E i \in DOMAIN received'[v] : received'[v][i].code = "JOIN_RESP"
  <2>1. ASSUME NEW v \in Worker \ {w}, is_joined'[v], ~stranded'[v]
        PROVE  Given(v)
    BY <1>1, <1>7, <2>1 DEF FabricInv, JoinedOnThisConnection
  <2>2. ASSUME is_joined'[w], ~stranded'[w]
        PROVE  Given(w)
    <3>1. f = Empty \/ (/\ Len(received[w]) \in Nat
                        /\ DOMAIN received[w] = 1..Len(received[w])
                        /\ DOMAIN received'[w] = 1..(Len(received[w]) + 1)
                        /\ \A i \in 1..Len(received[w]) : received'[w][i] = received[w][i]
                        /\ received'[w][Len(received[w]) + 1] = f)
      <4> SUFFICES ASSUME f # Empty PROVE <3>1!2
        BY Zenon
      <4>1. received[w] \in Seq(EnvelopesFor(w)) /\ received'[w] \in Seq(EnvelopesFor(w))
        BY Zenon, <1>2, <1>8 DEF QueueInv
      <4>2. received'[w] = Append(received[w], f)
        BY ZenonT(60), <1>7
      <4> QED BY <4>1, <4>2, SeqDomain
    <3>2. CASE is_joined[w]
      <4>1. PICK i \in DOMAIN received[w] : received[w][i].code = "JOIN_RESP"
        BY Zenon, <1>1, <2>2, <3>2 DEF FabricInv, JoinedOnThisConnection
      <4>2. i \in DOMAIN received'[w] /\ received'[w][i] = received[w][i]
        <5>1. CASE f = Empty
          BY Zenon, <1>7, <5>1
        <5>2. CASE f # Empty
          <6>1. Len(received[w]) \in Nat /\ i \in 1..Len(received[w])
            BY Zenon, <3>1, <5>2
          <6>2. i \in 1..(Len(received[w]) + 1)
            BY <6>1
          <6> QED BY ZenonT(60), <3>1, <5>2, <6>1, <6>2
        <5> QED BY Zenon, <5>1, <5>2
      <4> QED BY Zenon, <1>1, <4>1, <4>2
    <3>3. CASE ~is_joined[w]
      <4>1. f # Empty /\ f.code = "JOIN_RESP"
        BY ZenonT(60), <1>7, <2>2, <3>3
      <4>2. /\ Len(received[w]) + 1 \in DOMAIN received'[w]
            /\ received'[w][Len(received[w]) + 1] = f
        BY <3>1, <4>1
      <4> QED BY Zenon, <1>1, <4>1, <4>2
    <3> QED BY Zenon, <3>2, <3>3
  <2> QED BY ZenonT(60), <2>1, <2>2 DEF JoinedOnThisConnection
<1> QED BY ZenonT(60), <1>1, <1>2, <1>6, <1>7, <1>8, <1>9, WorkerStep

LEMMA FabricInvNext == FabricInv /\ [FabricNext]_fabricVars => FabricInv'
<1> SUFFICES ASSUME FabricInv, [FabricNext]_fabricVars PROVE FabricInv'
  BY Zenon
<1>1. ASSUME start \/ stop \/ run_once PROVE FabricInv'
  BY Zenon, <1>1, StartStopInv
<1>2. ASSUME NEW t \in Thread,
             (\E w \in Worker, c \in Codes : send_to_worker(t, w, c)) \/ SendStep(t)
      PROVE  FabricInv'
  <2>1. ASSUME NEW w \in Worker, NEW c \in Codes, send_to_worker(t, w, c) PROVE FabricInv'
    BY Zenon, <2>1, SendToWorkerInv
  <2>2. ASSUME SendStep(t) PROVE FabricInv'
    BY ZenonT(60), <2>2, LockInv, SendPartInv, SendLastInv, SendFailsInv DEF SendStep
  <2> QED BY Zenon, <1>2, <2>1, <2>2
<1>3. ASSUME NEW w \in Worker, connect(w) \/ disconnect(w) \/ send(w) \/ poll(w)
      PROVE  FabricInv'
  BY Zenon, <1>3, ConnectInv, PollInv
<1>4. ASSUME UNCHANGED fabricVars PROVE FabricInv'
  <2>1. UNCHANGED routerVars /\ UNCHANGED workerVars /\ UNCHANGED dealer_in
    BY Zenon, <1>4 DEF fabricVars
  <2>2. UNCHANGED <<received, dealer_in, connected, stranded, is_joined, is_authenticated>>
    BY Zenon, <2>1 DEF workerVars
  <2>3. FabricTypeOK' /\ SocketInv' /\ DOMAIN sending' = Thread /\ Limit' = Limit
        /\ \A t \in Thread : SenderInv(t)'
    BY Zenon, <2>1, <2>2 DEF FabricInv, FabricTypeOK, SocketInv, SenderInv, Limit, Parts,
                      routerVars, sockVars
  <2>4. Limit <= Limit'
    BY <2>3, LimitType DEF FabricInv
  <2> QED BY ZenonT(60), <2>2, <2>3, <2>4, RouterStep
<1> QED BY Zenon, <1>1, <1>2, <1>3, <1>4 DEF FabricNext

LEMMA FabricInvariance == FabricSpec => []FabricInv
BY FabricInvInit, FabricInvNext, PTL DEF FabricSpec

(* What a worker is given was meant for it and comes in the order of the   *)
(* sequence ids, however many threads send through the one socket and      *)
(* however often it is stopped and started under them.                     *)
THEOREM MessagesStayApart == FabricSpec => []OwnAndInOrder
<1>1. FabricInv => OwnAndInOrder
  <2> SUFFICES ASSUME FabricInv PROVE OwnAndInOrder
    BY Zenon
  <2>1. ASSUME NEW w \in Worker
        PROVE  /\ \A i \in DOMAIN received[w] : received[w][i].to = w
               /\ \A i, j \in DOMAIN received[w] :
                    i < j => received[w][i].seq < received[w][j].seq
    <3>1. QueueInv(w)
      BY Zenon DEF FabricInv
    <3>2. /\ received[w] \in Seq(EnvelopesFor(w))
          /\ \A i, j \in DOMAIN received[w] :
               i < j => received[w][i].seq < received[w][j].seq
      BY ZenonT(60), <3>1 DEF QueueInv
    <3>3. \A i \in DOMAIN received[w] : received[w][i] \in EnvelopesFor(w)
      BY <3>2
    <3> QED BY Zenon, <3>2, <3>3, FrameFacts
  <2> QED BY Zenon, <2>1 DEF FabricInv, OwnAndInOrder
<1> QED BY <1>1, FabricInvariance, PTL

(* No JOIN_RESP outlives the connection it came on. *)
THEOREM JoinsAreOfThisConnection == FabricSpec => []JoinedOnThisConnection
<1>1. FabricInv => JoinedOnThisConnection
  BY Zenon DEF FabricInv
<1> QED BY <1>1, FabricInvariance, PTL
=============================================================================
