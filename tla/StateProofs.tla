---------------------------- MODULE StateProofs ----------------------------
(***************************************************************************)
(* Proofs about the state the master keeps of its cluster and a worker of  *)
(* itself.  For any workers, chunks, readers and ring size every copy of   *)
(* the master's state there is stays consistent, and within an epoch its   *)
(* generation says which state it is, across crashes.  For any tasks,      *)
(* callers and times the worker's lifecycle, its endpoint of the master    *)
(* and the answers of its resource monitor are sound.                      *)
(***************************************************************************)
EXTENDS ClusterState, WorkerServices, TablesProofs

(* The inductive invariant: every copy has the epoch of the state and is    *)
(* not ahead of it, and the generation tells the copies apart.  This holds  *)
(* of the dead process too: a recovery takes over the journal's epoch, and  *)
(* a journal that is not complete is no copy.                               *)
ClusterInv ==
  /\ TypeOK
  /\ \A s \in Copies :
       /\ s \in ClusterStateSnapshot /\ Consistent(s)
       /\ s.master_epoch = master_state.master_epoch
       /\ s.state_generation_version <= master_state.state_generation_version
  /\ \A s, t \in Copies :
       s.state_generation_version = t.state_generation_version => s = t

-----------------------------------------------------------------------------
(* A copy is the state, the file, or in a reader's hands. *)
Copy(s) ==
  /\ s \notin {NoFile, Torn}
  /\ \/ s = master_state \/ s = wal
     \/ \E r \in Reader : handle[r] # Ring!NoHandle /\ s = pool[handle[r]]

LEMMA CopyIs == /\ \A s : s \in Copies <=> Copy(s)
                /\ \A s : s \in Copies' <=> Copy(s)'
BY Zenon DEF Copies, Copy

LEMMA StateIsCopy ==
  ASSUME ClusterInv
  PROVE  /\ master_state \in ClusterStateSnapshot /\ Consistent(master_state)
         /\ master_state.state_generation_version \in Nat
         /\ master_state.master_epoch \in Nat
<1>1. master_state \in ClusterStateSnapshot
  BY Zenon DEF ClusterInv, TypeOK
<1>2. Copy(master_state)
  BY <1>1, Marks DEF Copy
<1>3. Consistent(master_state)
  BY Zenon, <1>2, CopyIs DEF ClusterInv
<1> QED BY Zenon, <1>1, <1>3 DEF ClusterStateSnapshot

(* A step after which there is no copy that was not there before. *)
LEMMA FewerCopies ==
  ASSUME ClusterInv, TypeOK', master_state' = master_state,
         \A s : Copy(s)' => Copy(s)
  PROVE  ClusterInv'
<1>1. \A s : s \in Copies' => s \in Copies
  BY Zenon, CopyIs
<1>2. \A s \in Copies' :
        /\ s \in ClusterStateSnapshot /\ Consistent(s)'
        /\ s.master_epoch = master_state'.master_epoch
        /\ s.state_generation_version <= master_state'.state_generation_version
  BY Zenon, <1>1 DEF ClusterInv, Consistent, internal_recalculate_aggregates, Active
<1>3. \A s, t \in Copies' :
        s.state_generation_version = t.state_generation_version => s = t
  BY Zenon, <1>1 DEF ClusterInv
<1> QED BY Zenon, <1>2, <1>3 DEF ClusterInv

(* A step to a later generation that leaves the copies alone. *)
LEMMA NewGeneration ==
  ASSUME ClusterInv, UNCHANGED <<up, persisting, pool, tail, refs, handle, wal>>,
         master_state' \in ClusterStateSnapshot, Consistent(master_state'),
         master_state'.master_epoch = master_state.master_epoch,
         master_state'.state_generation_version = master_state.state_generation_version + 1
  PROVE  ClusterInv'
<1>1. TypeOK'
  BY Zenon DEF ClusterInv, TypeOK, Ring!RingTypeOK
<1>2. master_state.state_generation_version \in Nat
  BY Zenon, StateIsCopy
<1>3. \A s \in Copies' : s = master_state' \/ s \in Copies
  BY CopyIs DEF Copy
<1>4. \A s \in Copies :
        /\ s \in ClusterStateSnapshot /\ Consistent(s)
        /\ s.state_generation_version \in Nat
        /\ s.master_epoch = master_state'.master_epoch
        /\ s.state_generation_version < master_state'.state_generation_version
  BY <1>2 DEF ClusterInv, ClusterStateSnapshot
<1>5. master_state'.state_generation_version \in Nat
  BY <1>2
<1>6. \A s \in Copies' :
        /\ s \in ClusterStateSnapshot /\ Consistent(s)
        /\ s.master_epoch = master_state'.master_epoch
        /\ s.state_generation_version <= master_state'.state_generation_version
  BY <1>3, <1>4, <1>5
<1>7. ASSUME NEW s \in Copies', NEW t \in Copies',
             s.state_generation_version = t.state_generation_version
      PROVE  s = t
  <2>1. CASE s \in Copies /\ t \in Copies
    BY Zenon, <1>7, <2>1 DEF ClusterInv
  <2>2. CASE s \notin Copies \/ t \notin Copies
    BY SMTT(30), <1>3, <1>4, <1>5, <1>7, <2>2
  <2> QED BY Zenon, <2>1, <2>2
<1>8. \A s : Consistent(s)' <=> Consistent(s)
  BY Zenon DEF Consistent, internal_recalculate_aggregates, Active
<1> QED BY Zenon, <1>1, <1>6, <1>7, <1>8 DEF ClusterInv

(* A new state, which has no workers. *)
LEMMA CreatedFacts ==
  ASSUME NEW epoch \in Nat
  PROVE  Created(epoch) \in ClusterStateSnapshot /\ Consistent(Created(epoch))
<1>1. /\ <<>> \in Seq(Members) /\ <<>> \in Seq(ChunkLease) /\ DOMAIN <<>> = {}
  BY SeqOfNone
<1>2. Created(epoch) \in ClusterStateSnapshot
  BY Zenon, <1>1 DEF Created, NoMetrics, ClusterMetrics, ClusterStateSnapshot
<1>3. Active(<<>>) = {}
  BY Zenon, <1>1 DEF Active
<1>4. Cardinality({}) = 0
  BY Zenon, FS_EmptySet
<1>5. internal_recalculate_aggregates(<<>>) = NoMetrics
  BY Zenon, <1>3, <1>4, TotalEmpty DEF internal_recalculate_aggregates, NoMetrics
<1>6. /\ Created(epoch).active_workers = <<>> /\ Created(epoch).active_leases = <<>>
      /\ Created(epoch).metrics = NoMetrics /\ Created(epoch).global_status = "BOOTSTRAP"
  BY Zenon DEF Created
<1> QED BY Zenon, <1>1, <1>2, <1>5, <1>6 DEF Consistent

LEMMA ClusterInvInit == Init => ClusterInv
<1> SUFFICES ASSUME Init PROVE ClusterInv
  BY Zenon
<1>1. master_state \in ClusterStateSnapshot /\ Consistent(master_state)
  BY Zenon, CreatedFacts DEF Init
<1>2. Ring!RingTypeOK
  BY <1>1, ClusterSizes DEF Init, Ring!RingInit, Ring!RingTypeOK, Ring!Slots
<1>3. TypeOK
  BY Zenon, <1>1, <1>2 DEF Init, TypeOK
<1>4. \A s \in Copies : s = master_state
  BY Zenon, CopyIs DEF Copy, Init, Ring!RingInit
<1>5. master_state.state_generation_version \in Nat
  BY Zenon, <1>1 DEF ClusterStateSnapshot
<1> QED BY <1>1, <1>3, <1>4, <1>5 DEF ClusterInv

(* The metrics of any workers. *)
LEMMA MetricsType ==
  ASSUME NEW ws \in Seq(Members)
  PROVE  internal_recalculate_aggregates(ws) \in ClusterMetrics
<1> DEFINE totals == [i \in DOMAIN ws |-> ws[i].total]
           reserves == [i \in DOMAIN ws |-> ws[i].reserved]
<1>1. /\ DOMAIN ws = 1..Len(ws) /\ Len(ws) \in Nat
      /\ Active(ws) \in SUBSET (1..Len(ws))
  BY DEF Active
<1>2. IsFiniteSet(Active(ws)) /\ Cardinality(Active(ws)) \in Nat
  BY Zenon, <1>1, RankFacts
<1>3. \A i \in Active(ws) : totals[i] \in Nat /\ reserves[i] \in Nat
  <2>1. \A m \in Members : m.total \in Nat /\ m.reserved \in Nat
    BY Zenon, MemberRecords
  <2>2. \A i \in Active(ws) : i \in DOMAIN ws /\ ws[i] \in Members
    BY <1>1
  <2> QED BY Zenon, <2>1, <2>2
<1> HIDE DEF totals, reserves
<1>4. Total(totals, Active(ws)) \in Nat /\ Total(reserves, Active(ws)) \in Nat
  BY Zenon, <1>2, <1>3, TotalType
<1>5. internal_recalculate_aggregates(ws) =
        [aggregate |-> Total(totals, Active(ws)),
         allocated |-> Total(reserves, Active(ws)),
         active_worker_count |-> Cardinality(Active(ws))]
  BY Zenon DEF internal_recalculate_aggregates, totals, reserves
<1> QED BY <1>2, <1>4, <1>5 DEF ClusterMetrics

(* A state of the given fields, and the one with the fields of s. *)
State(epoch, generation, gs, ws, ls, metrics) ==
  [master_epoch |-> epoch, state_generation_version |-> generation,
   global_status |-> gs, active_workers |-> ws, active_leases |-> ls,
   metrics |-> metrics]
Fields(s) == State(s.master_epoch, s.state_generation_version, s.global_status,
                   s.active_workers, s.active_leases, s.metrics)

LEMMA SnapshotIs ==
  ASSUME NEW s \in ClusterStateSnapshot
  PROVE  /\ s = Fields(s) /\ s.master_epoch \in Nat
         /\ s.state_generation_version \in Nat
         /\ s.global_status \in {"BOOTSTRAP", "OPERATIONAL"}
         /\ s.active_workers \in Seq(Members) /\ s.active_leases \in Seq(ChunkLease)
         /\ s.metrics \in ClusterMetrics
<1> DEFINE WS == Seq(Members)
           LS == Seq(ChunkLease)
<1>1. ClusterStateSnapshot =
        [master_epoch : Nat, state_generation_version : Nat,
         global_status : {"BOOTSTRAP", "OPERATIONAL"},
         active_workers : WS, active_leases : LS, metrics : ClusterMetrics]
  BY Zenon DEF ClusterStateSnapshot
<1> HIDE DEF WS, LS
<1>2. /\ s = Fields(s) /\ s.master_epoch \in Nat
      /\ s.state_generation_version \in Nat
      /\ s.global_status \in {"BOOTSTRAP", "OPERATIONAL"}
      /\ s.active_workers \in WS /\ s.active_leases \in LS
      /\ s.metrics \in ClusterMetrics
  BY Zenon, <1>1 DEF Fields, State
<1> QED BY Zenon, <1>2 DEF WS, LS

LEMMA SnapshotOf ==
  ASSUME NEW epoch \in Nat, NEW generation \in Nat,
         NEW gs \in {"BOOTSTRAP", "OPERATIONAL"}, NEW ws \in Seq(Members),
         NEW ls \in Seq(ChunkLease), NEW metrics \in ClusterMetrics
  PROVE  State(epoch, generation, gs, ws, ls, metrics) \in ClusterStateSnapshot
<1> DEFINE WS == Seq(Members)
           LS == Seq(ChunkLease)
<1>1. ws \in WS /\ ls \in LS
  BY Zenon
<1>2. ClusterStateSnapshot =
        [master_epoch : Nat, state_generation_version : Nat,
         global_status : {"BOOTSTRAP", "OPERATIONAL"},
         active_workers : WS, active_leases : LS, metrics : ClusterMetrics]
  BY Zenon DEF ClusterStateSnapshot
<1> HIDE DEF WS, LS
<1> QED BY Zenon, <1>1, <1>2 DEF State

LEMMA StateFields ==
  ASSUME NEW epoch, NEW generation, NEW gs, NEW ws, NEW ls, NEW metrics
  PROVE  LET s == State(epoch, generation, gs, ws, ls, metrics)
         IN  /\ s.master_epoch = epoch /\ s.state_generation_version = generation
             /\ s.global_status = gs /\ s.active_workers = ws
             /\ s.active_leases = ls /\ s.metrics = metrics
BY Zenon DEF State

(* The state with another worker table. *)
WithWorkers(s, ws, gs, metrics) ==
  [s EXCEPT !.active_workers = ws, !.state_generation_version = @ + 1,
            !.global_status = gs, !.metrics = metrics]

LEMMA WithWorkersIs ==
  ASSUME NEW s \in ClusterStateSnapshot, NEW ws \in Seq(Members),
         NEW metrics \in ClusterMetrics
  PROVE  LET t == WithWorkers(s, ws, "OPERATIONAL", metrics)
         IN  /\ t \in ClusterStateSnapshot
             /\ t.master_epoch = s.master_epoch
             /\ t.state_generation_version = s.state_generation_version + 1
             /\ t.global_status = "OPERATIONAL" /\ t.active_workers = ws
             /\ t.active_leases = s.active_leases /\ t.metrics = metrics
<1> DEFINE t == WithWorkers(s, ws, "OPERATIONAL", metrics)
<1>1. /\ s = Fields(s) /\ s.master_epoch \in Nat /\ s.active_leases \in Seq(ChunkLease)
      /\ s.state_generation_version \in Nat
  BY Zenon, SnapshotIs
<1>2. t = State(s.master_epoch, s.state_generation_version + 1, "OPERATIONAL", ws,
                s.active_leases, metrics)
  <2>1. t = [s EXCEPT !.active_workers = ws, !.state_generation_version = @ + 1,
                      !.global_status = "OPERATIONAL", !.metrics = metrics]
    BY Zenon DEF WithWorkers
  <2> HIDE DEF t
  <2> QED BY Zenon, <1>1, <2>1 DEF Fields, State
<1>3. /\ s.state_generation_version + 1 \in Nat
      /\ "OPERATIONAL" \in {"BOOTSTRAP", "OPERATIONAL"}
  BY <1>1
<1> HIDE DEF t
<1>4. t \in ClusterStateSnapshot
  BY Zenon, <1>1, <1>2, <1>3, SnapshotOf
<1>5. /\ t.master_epoch = s.master_epoch
      /\ t.state_generation_version = s.state_generation_version + 1
      /\ t.global_status = "OPERATIONAL" /\ t.active_workers = ws
      /\ t.active_leases = s.active_leases /\ t.metrics = metrics
  BY <1>2, StateFields
<1> QED BY Zenon, <1>4, <1>5 DEF t

(* The state gets a worker table that is not empty and names no worker twice. *)
LEMMA WorkersInv ==
  ASSUME ClusterInv, UNCHANGED <<up, persisting, pool, tail, refs, handle, wal>>,
         NEW ws \in Seq(Members), ws # <<>>,
         \A i, j \in DOMAIN ws : ws[i].worker_id = ws[j].worker_id => i = j,
         master_state' = WithWorkers(master_state, ws, "OPERATIONAL",
                                     internal_recalculate_aggregates(ws))
  PROVE  ClusterInv'
<1> DEFINE metrics == internal_recalculate_aggregates(ws)
<1>1. /\ master_state \in ClusterStateSnapshot /\ Consistent(master_state)
      /\ master_state.state_generation_version \in Nat
  BY Zenon, StateIsCopy
<1>2. metrics \in ClusterMetrics
  BY Zenon, MetricsType
<1>3. master_state' = WithWorkers(master_state, ws, "OPERATIONAL", metrics)
  BY Zenon
<1> HIDE DEF metrics
<1>4. /\ master_state'.master_epoch = master_state.master_epoch
      /\ master_state'.state_generation_version = master_state.state_generation_version + 1
      /\ master_state'.global_status = "OPERATIONAL"
      /\ master_state'.active_workers = ws /\ master_state'.metrics = metrics
      /\ master_state'.active_leases = master_state.active_leases
      /\ master_state' \in ClusterStateSnapshot
  BY SMTT(30), <1>1, <1>2, <1>3, WithWorkersIs
<1>5. Consistent(master_state')
  BY <1>1, <1>4 DEF Consistent, metrics
<1> QED BY Zenon, <1>4, <1>5, NewGeneration

LEMMA RegisterInv ==
  ASSUME ClusterInv, NEW w \in Members, register_worker(w)
  PROVE  ClusterInv'
<1> DEFINE old == master_state.active_workers
           ws == Append(old, w)
           gs == IF master_state.global_status = "BOOTSTRAP" THEN "OPERATIONAL"
                     ELSE master_state.global_status
<1>1. /\ UNCHANGED <<up, persisting, pool, tail, refs, handle, wal>>
      /\ WorkerSlots(w.worker_id) = {}
      /\ master_state' = WithWorkers(master_state, ws, gs,
                                     internal_recalculate_aggregates(ws))
  BY Zenon DEF register_worker, Mutates, WithWorkers
<1>2. /\ master_state \in ClusterStateSnapshot /\ Consistent(master_state)
      /\ old \in Seq(Members)
  BY Zenon, StateIsCopy DEF ClusterStateSnapshot
<1>3. gs = "OPERATIONAL"
  BY Zenon, <1>2 DEF ClusterStateSnapshot
<1>4. \A i \in DOMAIN old : old[i].worker_id # w.worker_id
  BY Zenon, <1>1 DEF WorkerSlots
<1>5. \A i, j \in DOMAIN old : old[i].worker_id = old[j].worker_id => i = j
  BY Zenon, <1>2 DEF Consistent
<1> HIDE DEF old
<1>6. /\ ws \in Seq(Members) /\ ws # <<>> /\ Len(ws) = Len(old) + 1
      /\ \A i \in 1..Len(old) : ws[i] = old[i]
      /\ ws[Len(old) + 1] = w
  BY <1>2, SeqAppend
<1>7. /\ Len(old) \in Nat /\ DOMAIN old = 1..Len(old) /\ DOMAIN ws = 1..(Len(old) + 1)
  BY Zenon, <1>2, <1>6, SeqDomain
<1> HIDE DEF ws, gs
<1>8. \A i \in DOMAIN ws : \/ i \in DOMAIN old /\ ws[i] = old[i]
                           \/ i = Len(old) + 1 /\ ws[i] = w
  <2> TAKE i \in DOMAIN ws
  <2>1. i \in 1..Len(old) \/ i = Len(old) + 1
    BY <1>7
  <2>2. CASE i \in 1..Len(old)
    BY Zenon, <1>6, <1>7, <2>2
  <2>3. CASE i = Len(old) + 1
    BY Zenon, <1>6, <2>3
  <2> QED BY Zenon, <2>1, <2>2, <2>3
<1>9. \A i, j \in DOMAIN ws : ws[i].worker_id = ws[j].worker_id => i = j
  BY Zenon, <1>4, <1>5, <1>8
<1> QED BY Zenon, <1>1, <1>3, <1>6, <1>9, WorkersInv

LEMMA HeartbeatInv ==
  ASSUME ClusterInv, NEW id, process_heartbeat(id)
  PROVE  ClusterInv'
<1> DEFINE old == master_state.active_workers
           i == First(WorkerSlots(id))
           health == IF old[i].health = "OFFLINE" THEN "ONLINE" ELSE old[i].health
           m == [old[i] EXCEPT !.health = health]
           ws == [old EXCEPT ![i] = m]
<1>1. /\ UNCHANGED <<up, persisting, pool, tail, refs, handle, wal>>
      /\ WorkerSlots(id) # {}
      /\ master_state' = [master_state EXCEPT
                            !.active_workers = ws,
                            !.state_generation_version = @ + 1,
                            !.metrics = internal_recalculate_aggregates(ws)]
  BY Zenon DEF process_heartbeat, Mutates
<1>2. /\ master_state \in ClusterStateSnapshot /\ Consistent(master_state)
      /\ old \in Seq(Members)
  BY Zenon, StateIsCopy DEF ClusterStateSnapshot
<1>3. i \in DOMAIN old
  <2>1. WorkerSlots(id) \in SUBSET DOMAIN old /\ WorkerSlots(id) \in SUBSET Nat
    BY <1>2 DEF WorkerSlots
  <2> QED BY Zenon, <1>1, <2>1, FirstIn
<1>4. \A j, k \in DOMAIN old : old[j].worker_id = old[k].worker_id => j = k
  BY Zenon, <1>2 DEF Consistent
<1>5. old # <<>> /\ master_state.global_status = "OPERATIONAL"
  <2>1. old # <<>>
    BY <1>3
  <2>2. master_state.global_status # "BOOTSTRAP"
    BY Zenon, <1>2, <2>1 DEF Consistent
  <2> QED BY Zenon, <1>2, <2>1, <2>2 DEF ClusterStateSnapshot
<1> HIDE DEF old, i
<1>6. m \in Members /\ m.worker_id = old[i].worker_id
  <2>1. old[i] \in Members
    BY <1>2, <1>3
  <2> DEFINE o == old[i]
  <2> HIDE DEF o
  <2>2. /\ o = [worker_id |-> o.worker_id, health |-> o.health,
                total |-> o.total, reserved |-> o.reserved]
        /\ [o EXCEPT !.health = "ONLINE"] \in Members /\ o \in Members
    BY Zenon, <2>1, MemberRecords DEF o
  <2>3. /\ [o EXCEPT !.health = o.health] = o
        /\ [o EXCEPT !.health = "ONLINE"].worker_id = o.worker_id
    BY Zenon, <2>2
  <2>4. m = IF o.health = "OFFLINE" THEN [o EXCEPT !.health = "ONLINE"]
            ELSE [o EXCEPT !.health = o.health]
    BY Zenon DEF o
  <2> QED BY ZenonT(60), <2>2, <2>3, <2>4 DEF o
<1> HIDE DEF m
<1>7. /\ ws \in Seq(Members) /\ Len(ws) = Len(old)
      /\ \A j \in 1..Len(old) : ws[j] = IF j = i THEN m ELSE old[j]
  <2>1. i \in 1..Len(old)
    BY Zenon, <1>2, <1>3, SeqDomain
  <2> QED BY SMTT(30), <1>2, <1>6, <2>1, SeqUpdate
<1> HIDE DEF ws
<1>8. DOMAIN ws = DOMAIN old /\ \A j \in DOMAIN ws : ws[j].worker_id = old[j].worker_id
  BY SMTT(30), <1>2, <1>6, <1>7
<1>9. \A j, k \in DOMAIN ws : ws[j].worker_id = ws[k].worker_id => j = k
  BY Zenon, <1>4, <1>8
<1>10. ws # <<>>
  BY <1>3, <1>8
<1>11. master_state' = WithWorkers(master_state, ws, "OPERATIONAL",
                                   internal_recalculate_aggregates(ws))
  <2>1. master_state = Fields(master_state)
    BY Zenon, <1>2, SnapshotIs
  <2> QED BY Zenon, <1>1, <1>5, <2>1 DEF WithWorkers, Fields, State
<1> QED BY ZenonT(60), <1>1, <1>7, <1>9, <1>10, <1>11, WorkersInv

LEMMA LeaseInv ==
  ASSUME ClusterInv, NEW chunk \in ChunkId, NEW gs \in LeaseStatus,
         update_lease(chunk, gs)
  PROVE  ClusterInv'
<1> DEFINE old == master_state.active_leases
           known == {j \in DOMAIN old : old[j].chunk_id = chunk}
           lease == [chunk_id |-> chunk, status |-> gs,
                     failure_retry_count |-> Retries(gs)]
           again == [lease EXCEPT !.failure_retry_count =
                       old[First(known)].failure_retry_count + @]
           ls == IF known = {} THEN Append(old, lease)
                 ELSE [old EXCEPT ![First(known)] = again]
<1>1. /\ UNCHANGED <<up, persisting, pool, tail, refs, handle, wal>>
      /\ master_state' = [master_state EXCEPT
                            !.state_generation_version = @ + 1,
                            !.active_leases = ls]
  BY Zenon DEF update_lease, Mutates
<1>2. /\ master_state \in ClusterStateSnapshot /\ Consistent(master_state)
      /\ old \in Seq(ChunkLease)
      /\ master_state.state_generation_version \in Nat
  BY Zenon, StateIsCopy DEF ClusterStateSnapshot
<1>3. \A j, k \in DOMAIN old : old[j].chunk_id = old[k].chunk_id => j = k
  BY Zenon, <1>2 DEF Consistent
<1>4. lease \in ChunkLease /\ lease.chunk_id = chunk /\ Retries(gs) \in Nat
  BY Zenon DEF ChunkLease, Retries
<1> HIDE DEF old
<1>5. /\ ls \in Seq(ChunkLease)
      /\ \A j, k \in DOMAIN ls : ls[j].chunk_id = ls[k].chunk_id => j = k
  <2>1. CASE known = {}
    <3>1. ls = Append(old, lease) /\ \A j \in DOMAIN old : old[j].chunk_id # chunk
      BY Zenon, <2>1
    <3> HIDE DEF lease, ls
    <3>2. /\ ls \in Seq(ChunkLease) /\ Len(ls) = Len(old) + 1
          /\ \A j \in 1..Len(old) : ls[j] = old[j]
          /\ ls[Len(old) + 1] = lease
      BY SMTT(30), <1>2, <1>4, <3>1, SeqAppend
    <3>3. Len(old) \in Nat /\ DOMAIN old = 1..Len(old) /\ DOMAIN ls = 1..(Len(old) + 1)
      BY Zenon, <1>2, <3>2, SeqDomain
    <3>4. ASSUME NEW j \in DOMAIN ls
          PROVE  (j \in DOMAIN old /\ ls[j] = old[j]) \/ (j = Len(old) + 1 /\ ls[j] = lease)
      <4>1. j \in 1..Len(old) \/ j = Len(old) + 1
        BY <3>3
      <4> QED BY Zenon, <3>2, <3>3, <4>1
    <3> QED BY SMTT(30), <1>3, <1>4, <3>1, <3>2, <3>4
  <2>2. CASE known # {}
    <3> DEFINE i == First(known)
    <3>1. i \in DOMAIN old /\ old[i].chunk_id = chunk
      <4>1. known \in SUBSET Nat
        BY <1>2
      <4>2. i \in known
        BY Zenon, <2>2, <4>1, FirstIn
      <4> QED BY Zenon, <4>2
    <3>2. old[i].failure_retry_count \in Nat
      <4> HIDE DEF known, i
      <4>1. old[i] \in ChunkLease
        BY <1>2, <3>1
      <4> QED BY Zenon, <4>1 DEF ChunkLease
    <3>3. ls = [old EXCEPT ![i] = again]
      BY Zenon, <2>2
    <3>4. again \in ChunkLease /\ again.chunk_id = chunk
      <4>1. old[First(known)].failure_retry_count + Retries(gs) \in Nat
        BY <1>4, <3>2
      <4> HIDE DEF known
      <4> QED BY Zenon, <4>1 DEF ChunkLease
    <3> HIDE DEF ls, i, again
    <3>5. /\ ls \in Seq(ChunkLease) /\ Len(ls) = Len(old)
          /\ \A j \in 1..Len(old) : ls[j] = IF j = i THEN again ELSE old[j]
      <4>1. i \in 1..Len(old)
        BY Zenon, <1>2, <3>1, SeqDomain
      <4> QED BY SMTT(30), <1>2, <3>3, <3>4, <4>1, SeqUpdate
    <3>6. DOMAIN ls = DOMAIN old /\ \A j \in DOMAIN ls : ls[j].chunk_id = old[j].chunk_id
      BY SMTT(30), <1>2, <3>1, <3>4, <3>5
    <3> QED BY Zenon, <1>3, <3>5, <3>6
  <2> QED BY Zenon, <2>1, <2>2
<1> HIDE DEF ls
<1>6. /\ master_state'.master_epoch = master_state.master_epoch
      /\ master_state'.state_generation_version = master_state.state_generation_version + 1
      /\ master_state'.global_status = master_state.global_status
      /\ master_state'.active_workers = master_state.active_workers
      /\ master_state'.metrics = master_state.metrics
      /\ master_state'.active_leases = ls
      /\ master_state' \in ClusterStateSnapshot
  <2>1. /\ master_state = Fields(master_state) /\ master_state.master_epoch \in Nat
        /\ master_state.global_status \in {"BOOTSTRAP", "OPERATIONAL"}
        /\ master_state.active_workers \in Seq(Members)
        /\ master_state.metrics \in ClusterMetrics
    BY ZenonT(60), <1>2, SnapshotIs
  <2>2. master_state' = State(master_state.master_epoch,
                              master_state.state_generation_version + 1,
                              master_state.global_status, master_state.active_workers,
                              ls, master_state.metrics)
    BY Zenon, <1>1, <2>1 DEF Fields, State
  <2>3. master_state.state_generation_version + 1 \in Nat
    BY <1>2
  <2>4. master_state' \in ClusterStateSnapshot
    BY ZenonT(60), <1>5, <2>1, <2>2, <2>3, SnapshotOf
  <2> QED BY SMTT(30), <2>2, <2>4, StateFields
<1>7. Consistent(master_state')
  BY SMTT(30), <1>2, <1>5, <1>6 DEF Consistent
<1> QED BY Zenon, <1>1, <1>6, <1>7, NewGeneration

-----------------------------------------------------------------------------
(* The ring: a reader's new copy is the state. *)
LEMMA TargetIsSlot ==
  ASSUME TypeOK
  PROVE  Ring!TargetSlot \in Ring!Slots
<1>1. tail \in Ring!Slots /\ SNAPSHOT_RING_SIZE \in Nat \ {0}
  BY Zenon, ClusterSizes DEF TypeOK, Ring!RingTypeOK
<1>2. \A k \in Ring!Slots : Ring!Probe(k) \in Ring!Slots
  <2> TAKE k \in Ring!Slots
  <2>1. tail + k \in Nat
    BY <1>1 DEF Ring!Slots
  <2>2. \A a \in Nat : a % SNAPSHOT_RING_SIZE \in 0..(SNAPSHOT_RING_SIZE - 1)
    BY <1>1
  <2> QED BY Zenon, <2>1, <2>2 DEF Ring!Slots, Ring!Probe
<1>3. Ring!Free \in SUBSET Ring!Slots /\ Ring!Free \in SUBSET Nat
  BY <1>1 DEF Ring!Free, Ring!Slots
<1>4. Ring!Free # {} => Ring!First(Ring!Free) \in Ring!Slots
  <2>1. Ring!First(Ring!Free) = First(Ring!Free)
    BY Zenon DEF Ring!First, First
  <2> QED BY ZenonT(60), <1>3, <2>1, FirstIn
<1> QED BY Zenon, <1>1, <1>2, <1>4 DEF Ring!TargetSlot

LEMMA SnapshotsInv ==
  ASSUME ClusterInv, NEW r \in Reader, acquire_snapshot(r) \/ release_snapshot(r)
  PROVE  ClusterInv'
<1>1. /\ UNCHANGED <<master_state, up, persisting, wal>>
      /\ handle \in [Reader -> Ring!Slots \cup {Ring!NoHandle}]
      /\ pool \in [Ring!Slots -> ClusterStateSnapshot \cup {Blank}]
      /\ refs \in [Ring!Slots -> Nat] /\ tail \in Ring!Slots
      /\ master_state \in ClusterStateSnapshot
  BY Zenon DEF ClusterInv, TypeOK, Ring!RingTypeOK, acquire_snapshot, release_snapshot,
     Ring!acquire, Ring!release
<1>2. CASE acquire_snapshot(r)
  <2> DEFINE t == Ring!TargetSlot
  <2>1. t \in Ring!Slots
    BY Zenon, TargetIsSlot DEF ClusterInv
  <2>2. /\ pool' = [pool EXCEPT ![t] = master_state]
        /\ refs' = [refs EXCEPT ![t] = @ + 1]
        /\ tail' = (t + 1) % SNAPSHOT_RING_SIZE
        /\ handle' = [handle EXCEPT ![r] = t]
    BY Zenon, <1>2 DEF acquire_snapshot, Ring!acquire
  <2> HIDE DEF t
  <2>3. tail' \in Ring!Slots
    <3>1. t + 1 \in Nat
      BY SMTT(30), <2>1, ClusterSizes DEF Ring!Slots
    <3> QED BY SMTT(30), <2>2, <3>1, ClusterSizes DEF Ring!Slots
  <2>4. /\ refs' \in [Ring!Slots -> Nat]
        /\ pool' \in [Ring!Slots -> ClusterStateSnapshot \cup {Blank}]
        /\ handle' \in [Reader -> Ring!Slots \cup {Ring!NoHandle}]
    BY SMTT(30), <1>1, <2>1, <2>2
  <2>5. Ring!RingTypeOK'
    BY Zenon, <1>1, <2>3, <2>4 DEF Ring!RingTypeOK
  <2>6. TypeOK'
    BY Zenon, <1>1, <2>5 DEF ClusterInv, TypeOK
  <2>7. ASSUME NEW q \in Reader, handle'[q] # Ring!NoHandle
        PROVE  \/ pool'[handle'[q]] = master_state
               \/ /\ handle[q] # Ring!NoHandle
                  /\ pool'[handle'[q]] = pool[handle[q]]
    <3>1. CASE handle'[q] = t
      BY Zenon, <1>1, <2>1, <2>2, <3>1
    <3>2. CASE handle'[q] # t
      <4>1. handle'[q] = handle[q] /\ handle[q] \in Ring!Slots
        BY ZenonT(60), <1>1, <2>2, <2>7, <3>2
      <4> QED BY ZenonT(60), <1>1, <2>2, <2>7, <3>2, <4>1
    <3> QED BY Zenon, <3>1, <3>2
  <2>8. \A s : Copy(s)' => Copy(s)
    BY SMTT(30), <1>1, <2>7 DEF Copy
  <2> QED BY Zenon, <1>1, <2>6, <2>8, FewerCopies
<1>3. CASE release_snapshot(r)
  <2>1. /\ refs' = [refs EXCEPT ![handle[r]] = IF @ > 0 THEN @ - 1 ELSE @]
        /\ handle' = [handle EXCEPT ![r] = Ring!NoHandle]
        /\ pool' = pool /\ tail' = tail /\ handle[r] # Ring!NoHandle
    BY Zenon, <1>3 DEF release_snapshot, Ring!release
  <2>2. refs' \in [Ring!Slots -> Nat]
    BY <1>1, <2>1
  <2>3. handle' \in [Reader -> Ring!Slots \cup {Ring!NoHandle}]
    BY Zenon, <1>1, <2>1
  <2>4. TypeOK'
    BY Zenon, <1>1, <2>1, <2>2, <2>3 DEF ClusterInv, TypeOK, Ring!RingTypeOK
  <2>5. \A q \in Reader : handle'[q] # Ring!NoHandle => handle'[q] = handle[q]
    BY Zenon, <1>1, <2>1
  <2>6. \A s : Copy(s)' => Copy(s)
    BY Zenon, <1>1, <2>1, <2>5 DEF Copy
  <2> QED BY Zenon, <1>1, <2>4, <2>6, FewerCopies
<1> QED BY Zenon, <1>2, <1>3

-----------------------------------------------------------------------------
(* The journal, crashes and restarts. *)
LEMMA PersistInv ==
  ASSUME ClusterInv, PersistOpen \/ PersistWrite \/ Crash
  PROVE  ClusterInv'
<1>1. /\ UNCHANGED <<master_state, pool, tail, refs, handle>>
      /\ wal' \in {Torn, master_state, wal}
  BY Zenon DEF PersistOpen, PersistWrite, Crash
<1>2. up' \in BOOLEAN /\ persisting' \in BOOLEAN
  BY Zenon DEF PersistOpen, PersistWrite, Crash, ClusterInv, TypeOK
<1>3. TypeOK'
  BY Zenon, <1>1, <1>2 DEF ClusterInv, TypeOK, Ring!RingTypeOK
<1>4. \A s : Copy(s)' => Copy(s)
  BY Zenon, <1>1 DEF Copy
<1> QED BY Zenon, <1>1, <1>3, <1>4, FewerCopies

(* What is recovered differs from the file in its generation only. *)
LEMMA RecoveredFacts ==
  ASSUME NEW file \in ClusterStateSnapshot
  PROVE  LET s == recover_from_wal(file)
         IN  /\ s \in ClusterStateSnapshot
             /\ s.master_epoch = file.master_epoch
             /\ s.state_generation_version = file.state_generation_version + 1
             /\ s.active_workers = file.active_workers
             /\ s.active_leases = file.active_leases
             /\ Consistent(file) => Consistent(s)
<1> DEFINE s == recover_from_wal(file)
<1>1. /\ file = Fields(file) /\ file.master_epoch \in Nat
      /\ file.state_generation_version \in Nat
      /\ file.global_status \in {"BOOTSTRAP", "OPERATIONAL"}
      /\ file.active_workers \in Seq(Members) /\ file.active_leases \in Seq(ChunkLease)
      /\ file.metrics \in ClusterMetrics
  BY Zenon, SnapshotIs
<1>2. s = State(file.master_epoch, file.state_generation_version + 1,
                file.global_status, file.active_workers, file.active_leases,
                file.metrics)
  BY SMTT(30), <1>1 DEF recover_from_wal, Fields, State
<1>3. file.state_generation_version + 1 \in Nat
  BY <1>1
<1> HIDE DEF s
<1>4. /\ s \in ClusterStateSnapshot
      /\ s.master_epoch = file.master_epoch
      /\ s.state_generation_version = file.state_generation_version + 1
      /\ s.global_status = file.global_status
      /\ s.active_workers = file.active_workers
      /\ s.active_leases = file.active_leases /\ s.metrics = file.metrics
  <2>1. s \in ClusterStateSnapshot
    BY Zenon, <1>1, <1>2, <1>3, SnapshotOf
  <2> QED BY SMTT(30), <1>2, <2>1, StateFields
<1>5. Consistent(file) => Consistent(s)
  BY Zenon, <1>4 DEF Consistent
<1> QED BY Zenon, <1>4, <1>5 DEF s

LEMMA RestartInv ==
  ASSUME ClusterInv, Restart
  PROVE  ClusterInv'
<1>1. /\ up' = TRUE /\ persisting' = persisting /\ wal' = wal
      /\ master_state' = IF wal \in {NoFile, Torn} THEN Created(master_state.master_epoch + 1)
                         ELSE recover_from_wal(wal)
      /\ pool' = [s \in Ring!Slots |-> Blank] /\ tail' = 0
      /\ refs' = [s \in Ring!Slots |-> 0]
      /\ handle' = [r \in Reader |-> Ring!NoHandle]
  BY Zenon DEF Restart
<1>2. wal \notin {NoFile, Torn} =>
        /\ wal \in ClusterStateSnapshot /\ Consistent(wal)
        /\ wal.state_generation_version \in Nat
  <2> SUFFICES ASSUME wal \notin {NoFile, Torn}
               PROVE  /\ wal \in ClusterStateSnapshot /\ Consistent(wal)
                      /\ wal.state_generation_version \in Nat
    BY Zenon
  <2>1. wal \in Copies
    BY Zenon, CopyIs DEF Copy
  <2>2. wal \in ClusterStateSnapshot /\ Consistent(wal)
    BY Zenon, <2>1 DEF ClusterInv
  <2> QED BY Zenon, <2>2, SnapshotIs
<1>3. master_state.master_epoch + 1 \in Nat
  BY StateIsCopy
<1>4. master_state' \in ClusterStateSnapshot /\ Consistent(master_state')
  <2>1. CASE wal \in {NoFile, Torn}
    BY ZenonT(60), <1>1, <1>3, <2>1, CreatedFacts
  <2>2. CASE wal \notin {NoFile, Torn}
    BY ZenonT(60), <1>1, <1>2, <2>2, RecoveredFacts
  <2> QED BY Zenon, <2>1, <2>2
<1>5. Ring!RingTypeOK'
  BY SMTT(30), <1>1, <1>4, ClusterSizes DEF Ring!RingTypeOK, Ring!Slots
<1>6. TypeOK'
  BY Zenon, <1>1, <1>4, <1>5 DEF ClusterInv, TypeOK
<1>7. \A s \in Copies' : s = master_state' \/ (s = wal /\ wal \notin {NoFile, Torn})
  BY Zenon, <1>1, CopyIs DEF Copy
<1>8. wal \notin {NoFile, Torn} =>
        /\ master_state'.master_epoch = wal.master_epoch
        /\ master_state'.state_generation_version = wal.state_generation_version + 1
  BY Zenon, <1>1, <1>2, RecoveredFacts
<1>9. master_state'.state_generation_version \in Nat
  BY Zenon, <1>4, SnapshotIs
<1>10. \A s \in Copies' :
         /\ s \in ClusterStateSnapshot /\ Consistent(s)
         /\ s.master_epoch = master_state'.master_epoch
         /\ s.state_generation_version <= master_state'.state_generation_version
  BY SMTT(30), <1>2, <1>4, <1>7, <1>8, <1>9
<1>11. \A s, t \in Copies' :
         s.state_generation_version = t.state_generation_version => s = t
  BY SMTT(30), <1>2, <1>7, <1>8, <1>9
<1>12. \A s : Consistent(s)' <=> Consistent(s)
  BY Zenon DEF Consistent, internal_recalculate_aggregates, Active
<1> QED BY ZenonT(60), <1>6, <1>10, <1>11, <1>12 DEF ClusterInv

LEMMA ClusterInvNext == ClusterInv /\ [Next]_vars => ClusterInv'
<1> SUFFICES ASSUME ClusterInv, [Next]_vars PROVE ClusterInv'
  BY Zenon
<1>1. ASSUME NEW w \in Members, register_worker(w) \/ process_heartbeat(w.worker_id)
      PROVE  ClusterInv'
  BY Zenon, <1>1, RegisterInv, HeartbeatInv
<1>2. ASSUME NEW c \in ChunkId, NEW s \in LeaseStatus, update_lease(c, s) PROVE ClusterInv'
  BY Zenon, <1>2, LeaseInv
<1>3. ASSUME NEW r \in Reader, acquire_snapshot(r) \/ release_snapshot(r) PROVE ClusterInv'
  BY Zenon, <1>3, SnapshotsInv
<1>4. CASE PersistOpen \/ PersistWrite \/ Crash
  BY Zenon, <1>4, PersistInv
<1>5. CASE Restart
  BY Zenon, <1>5, RestartInv
<1>6. CASE UNCHANGED vars
  <2>1. TypeOK' /\ master_state' = master_state /\ \A s : Copy(s)' => Copy(s)
    BY Zenon, <1>6 DEF vars, ClusterInv, TypeOK, Ring!RingTypeOK, Copy
  <2> QED BY Zenon, <2>1, FewerCopies
<1> QED BY ZenonT(60), <1>1, <1>2, <1>3, <1>4, <1>5, <1>6 DEF Next

LEMMA ClusterInvariance == Spec => []ClusterInv
BY ClusterInvInit, ClusterInvNext, PTL DEF Spec

-----------------------------------------------------------------------------
(* The state, the journal and every snapshot are consistent, whenever the  *)
(* process dies and whatever of the journal it finds again.                *)
THEOREM CopiesStayConsistent == Spec => []CopiesConsistent
<1>1. ClusterInv => CopiesConsistent
  BY Zenon DEF ClusterInv, CopiesConsistent
<1> QED BY <1>1, ClusterInvariance, PTL

(* Two copies of one epoch and one generation are the same state, and none *)
(* is ahead of the running master, also where a recovered master goes on   *)
(* in the epoch of its journal.                                            *)
THEOREM GenerationsIdentify == Spec => []GenerationIdentifies
<1>1. ClusterInv => GenerationIdentifies
  BY Zenon DEF ClusterInv, GenerationIdentifies
<1> QED BY <1>1, ClusterInvariance, PTL

(* A restart brings back all the workers and leases of a complete journal. *)
THEOREM RestartRecovers == Spec => RecoveredAll
<1> DEFINE Kept == ~up /\ up' /\ wal \notin {NoFile, Torn} =>
                     /\ master_state'.active_workers = wal.active_workers
                     /\ master_state'.active_leases = wal.active_leases
                     /\ master_state'.state_generation_version > wal.state_generation_version
<1>1. ClusterInv /\ [Next]_vars => [Kept]_vars
  <2> SUFFICES ASSUME ClusterInv, [Next]_vars, ~up, up', wal \notin {NoFile, Torn}
               PROVE  Kept
    BY Zenon
  <2>1. Restart
    BY Zenon DEF Next, vars, register_worker, process_heartbeat, update_lease, Mutates, Locked,
           acquire_snapshot, release_snapshot, PersistOpen, PersistWrite, Crash
  <2>2. wal \in ClusterStateSnapshot /\ master_state' = recover_from_wal(wal)
    BY Zenon, <2>1 DEF Restart, ClusterInv, TypeOK
  <2>3. wal.state_generation_version \in Nat
    BY Zenon, <2>2, SnapshotIs
  <2> QED BY SMTT(30), <2>2, <2>3, RecoveredFacts
<1> QED BY <1>1, ClusterInvariance, PTL DEF Spec, RecoveredAll
-----------------------------------------------------------------------------
(* One service moves, the others rest. *)
LEMMA OneServiceMoves ==
  ASSUME [ServicesNext]_services
  PROVE  /\ Lifecycle!Next \/ UNCHANGED lifecycle
         /\ Find!Next \/ UNCHANGED discovery
         /\ Monitor!Next \/ UNCHANGED monitor
BY Zenon DEF ServicesNext, LifecycleStep, DiscoveryStep, MonitorStep, services

LEMMA LifecycleKept ==
  ASSUME Lifecycle!StateFitsTasks, Lifecycle!Next \/ UNCHANGED lifecycle
  PROVE  Lifecycle!StateFitsTasks'
<1> USE DEF Lifecycle!StateFitsTasks, Lifecycle!TypeOK, Lifecycle!States
<1>1. CASE UNCHANGED lifecycle
  BY Zenon, <1>1 DEF lifecycle
<1>2. ASSUME NEW event \in Lifecycle!Events, Lifecycle!transition(event)
      PROVE  Lifecycle!StateFitsTasks'
  BY Zenon, <1>2 DEF Lifecycle!Events, Lifecycle!transition, Lifecycle!Allowed
<1>3. ASSUME NEW n \in 1..2, Lifecycle!TasksAdded(n)
      PROVE  Lifecycle!StateFitsTasks'
  BY SMTT(30), <1>3, TaskBound DEF Lifecycle!TasksAdded
<1>4. ASSUME NEW n \in 1..2, Lifecycle!TasksDone(n)
      PROVE  Lifecycle!StateFitsTasks'
  BY SMTT(30), <1>4, TaskBound DEF Lifecycle!TasksDone
<1> QED BY ZenonT(60), <1>1, <1>2, <1>3, <1>4 DEF Lifecycle!Next

LEMMA DiscoveryKept ==
  ASSUME Find!OneEndpointForAll, Find!Next \/ UNCHANGED discovery
  PROVE  Find!OneEndpointForAll'
<1> USE DEF Find!OneEndpointForAll, Find!current
<1>1. CASE UNCHANGED discovery
  BY Zenon, <1>1 DEF discovery
<1>2. CASE \E e \in Endpoint : Find!configure(e)
  BY <1>2 DEF Find!configure
<1>3. ASSUME NEW b \in BOOLEAN, Find!enable_mdns(b) \/ Find!start(b)
      PROVE  Find!OneEndpointForAll'
  BY <1>3 DEF Find!enable_mdns, Find!start
<1>4. CASE Find!stop
  BY Zenon, <1>4 DEF Find!stop
<1> QED BY ZenonT(60), <1>1, <1>2, <1>3, <1>4 DEF Find!Next

(* Safety, worker_state.c and discovery.c, for any number of tasks and any *)
(* endpoints: a worker is RUNNING only with tasks in hand, a drain holds   *)
(* until it is called off, and all are given the same endpoint.            *)
THEOREM WorkerStateFits == ServicesSpec => []WorkerStateSound
<1> DEFINE I == Lifecycle!StateFitsTasks /\ Find!OneEndpointForAll
<1>1. ServicesInit => I
  <2> SUFFICES ASSUME ServicesInit PROVE I
    BY Zenon
  <2>1. Lifecycle!Init /\ Find!Init
    BY Zenon DEF ServicesInit
  <2>2. Lifecycle!StateFitsTasks
    <3>1. current_state = "OFFLINE" /\ active_tasks_count = 0 /\ ~draining
      BY Zenon, <2>1 DEF Lifecycle!Init
    <3>2. draining \in BOOLEAN
      BY Zenon, <2>1 DEF Lifecycle!Init
    <3>3. current_state \in Lifecycle!States /\ active_tasks_count \in 0..MaxTasks
      BY <3>1, TaskBound DEF Lifecycle!States
    <3>4. current_state # "RUNNING"
      BY Zenon, <3>1
    <3> QED
      BY ZenonT(60), <3>1, <3>2, <3>3, <3>4 DEF Lifecycle!StateFitsTasks, Lifecycle!TypeOK
  <2>3. Find!OneEndpointForAll
    BY Zenon, <2>1 DEF Find!Init, Find!OneEndpointForAll, Find!current
  <2> QED BY Zenon, <2>2, <2>3
<1>2. I /\ [ServicesNext]_services => I'
  BY Zenon, OneServiceMoves, LifecycleKept, DiscoveryKept
<1>3. I => WorkerStateSound
  BY Zenon DEF WorkerStateSound
<1> HIDE DEF I
<1> QED BY <1>1, <1>2, <1>3, PTL DEF ServicesSpec
-----------------------------------------------------------------------------
(* ResourceMonitor.  What a recorded sample is, and what holds of the ring: *)
(* its slots up to sample_count are recorded, the one before head_idx last, *)
(* and its figures are those of the last heavy probe.                       *)
Recorded(s) ==
  /\ s.timestamp \in 0..MaxTime /\ s.measured \in 0..MaxTime
  /\ s.status \in {"FRESH", "UNAVAILABLE"}
  /\ s.cpu \in 0..Cores /\ s.free_ram \in 0..FreeRam
  /\ s.cpu <= Monitor!Saturating(Cores, s.against.cpu)
  /\ s.free_ram <= Monitor!Saturating(FreeRam, s.against.memory)
  /\ s.timestamp - s.measured <= PROBE_COOLDOWN
Honest(a) ==
  /\ a.status \in {"FRESH", "STALE", "UNAVAILABLE"}
  /\ a.status = "FRESH" =>
       /\ a.at - a.sample.timestamp \in 0..STALE_THRESHOLD
       /\ a.at - a.sample.measured <= STALE_THRESHOLD + PROBE_COOLDOWN
RingInv ==
  /\ DOMAIN history = 0..(MAX_SAMPLES - 1)
  /\ head_idx \in 0..(MAX_SAMPLES - 1) /\ sample_count \in 0..MAX_SAMPLES
  /\ sample_count < MAX_SAMPLES => head_idx = sample_count
  /\ \A i \in 0..(sample_count - 1) : Recorded(history[i])
  /\ \A i \in sample_count..(MAX_SAMPLES - 1) : history[i] = Monitor!NoSample
NewestInv ==
  IF sample_count = 0 THEN last_heavy_probe = 0
  ELSE history[Monitor!latest_idx] = newest /\ newest.measured = last_heavy_probe
MonitorInv ==
  /\ clock \in 0..MaxTime /\ now \in [Caller -> (0..MaxTime) \cup {Monitor!Idle}]
  /\ reserved.cpu \in Nat /\ reserved.memory \in Nat
  /\ last_heavy_probe \in 0..MaxTime
  /\ RingInv /\ NewestInv /\ Honest(answer)

(* A difference of times that is taken modulo WORD. *)
LEMMA ElapsedIs ==
  ASSUME NEW a \in 0..MaxTime, NEW b \in 0..MaxTime
  PROVE  /\ a >= b => Monitor!Elapsed(a, b) = a - b
         /\ a < b => Monitor!Elapsed(a, b) = (a - b) + WORD
         /\ a < b => Monitor!Elapsed(a, b) > STALE_THRESHOLD
<1>1. /\ WORD \in Nat /\ WORD > MaxTime + STALE_THRESHOLD
      /\ MaxTime \in Nat /\ STALE_THRESHOLD \in Nat
  BY Zenon, MonitorSizes
<1>2. \A d \in 0..(WORD - 1) : d % WORD = d
  BY <1>1
<1>3. \A d \in 1..(WORD - 1) : (0 - d) % WORD = WORD - d
  BY <1>1
<1>4. CASE a >= b
  BY SMTT(30), <1>1, <1>2, <1>4 DEF Monitor!Elapsed
<1>5. CASE a < b
  <2>1. b - a \in 1..(WORD - 1) /\ a - b = 0 - (b - a)
    BY <1>1, <1>5
  <2>2. (a - b) % WORD = WORD - (b - a)
    BY Zenon, <2>1, <1>3
  <2> QED BY SMTT(30), <1>1, <1>5, <2>2 DEF Monitor!Elapsed
<1> QED BY Zenon, <1>4, <1>5

LEMMA LatestIn ==
  ASSUME RingInv, sample_count > 0
  PROVE  /\ Monitor!latest_idx \in 0..(sample_count - 1)
         /\ Monitor!latest_idx \in 0..(MAX_SAMPLES - 1)
BY MonitorSizes DEF RingInv, Monitor!latest_idx

LEMMA Deducted ==
  ASSUME NEW m \in Nat, NEW n \in 0..m, NEW r \in Nat
  PROVE  /\ Monitor!Saturating(n, r) \in 0..m
         /\ Monitor!Saturating(n, r) <= Monitor!Saturating(m, r)
BY DEF Monitor!Saturating

LEMMA SampleRecorded ==
  ASSUME NEW time \in 0..MaxTime, NEW status_ \in {"FRESH", "UNAVAILABLE"},
         NEW cpu \in 0..Cores, NEW ram \in 0..FreeRam, NEW measured \in 0..MaxTime,
         NEW against, cpu <= Monitor!Saturating(Cores, against.cpu),
         ram <= Monitor!Saturating(FreeRam, against.memory),
         time - measured <= PROBE_COOLDOWN
  PROVE  /\ Recorded(Monitor!Sample(time, status_, cpu, ram, measured, against))
         /\ Monitor!Sample(time, status_, cpu, ram, measured, against).measured = measured
<1> DEFINE s == Monitor!Sample(time, status_, cpu, ram, measured, against)
<1>1. /\ s.timestamp = time /\ s.status = status_ /\ s.cpu = cpu
      /\ s.free_ram = ram /\ s.measured = measured /\ s.against = against
  BY Zenon DEF Monitor!Sample
<1> HIDE DEF s
<1>2. Recorded(s)
  BY Zenon, <1>1 DEF Recorded
<1> QED BY Zenon, <1>1, <1>2 DEF s

(* The time of the last heavy probe after a probe at time t. *)
ProbedAt(t) ==
  IF Monitor!Elapsed(t, last_heavy_probe) >= PROBE_COOLDOWN THEN t ELSE last_heavy_probe

(* The sample that a probe makes is a recorded one. *)
LEMMA ProbeSound ==
  ASSUME MonitorInv, NEW t \in 0..MaxTime
  PROVE  /\ Recorded(Monitor!execute_hardware_metrics_probe(t))
         /\ Monitor!execute_hardware_metrics_probe(t).measured = ProbedAt(t)
         /\ ProbedAt(t) \in 0..MaxTime
<1> DEFINE heavy == Monitor!Elapsed(t, last_heavy_probe) >= PROBE_COOLDOWN
           last == history[Monitor!latest_idx]
           s == Monitor!execute_hardware_metrics_probe(t)
<1>1. /\ Cores \in Nat /\ FreeRam \in Nat /\ PROBE_COOLDOWN \in Nat /\ MaxTime \in Nat
      /\ reserved.cpu \in Nat /\ reserved.memory \in Nat
      /\ last_heavy_probe \in 0..MaxTime
      /\ Cores \in 0..Cores /\ FreeRam \in 0..FreeRam /\ 0 \in 0..MaxTime
  BY MonitorSizes DEF MonitorInv
<1>2. ProbedAt(t) \in 0..MaxTime
  BY Zenon, <1>1 DEF ProbedAt
<1>3. CASE heavy
  <2>1. s = Monitor!Sample(t, "FRESH", Monitor!Saturating(Cores, reserved.cpu),
                           Monitor!Saturating(FreeRam, reserved.memory), t, reserved)
    BY Zenon, <1>3 DEF Monitor!execute_hardware_metrics_probe
  <2>2. /\ Monitor!Saturating(Cores, reserved.cpu) \in 0..Cores
        /\ Monitor!Saturating(FreeRam, reserved.memory) \in 0..FreeRam
    BY Zenon, <1>1, Deducted
  <2>3. ProbedAt(t) = t
    BY Zenon, <1>3 DEF ProbedAt
  <2>4. /\ t - t <= PROBE_COOLDOWN
        /\ Monitor!Saturating(Cores, reserved.cpu) <= Monitor!Saturating(Cores, reserved.cpu)
        /\ Monitor!Saturating(FreeRam, reserved.memory) <=
             Monitor!Saturating(FreeRam, reserved.memory)
    BY SMTT(30), <1>1, <2>2
  <2>5. Recorded(s) /\ s.measured = t
    BY SMTT(30), <2>1, <2>2, <2>4, SampleRecorded
  <2> QED BY Zenon, <1>2, <2>3, <2>5
<1>4. CASE ~heavy /\ sample_count = 0
  <2>1. s = Monitor!Sample(0, "UNAVAILABLE", 0, 0, 0, reserved)
    BY Zenon, <1>4 DEF Monitor!execute_hardware_metrics_probe
  <2>2. ProbedAt(t) = 0
    BY Zenon, <1>4 DEF ProbedAt, MonitorInv, NewestInv
  <2>3. /\ 0 <= Monitor!Saturating(Cores, reserved.cpu)
        /\ 0 <= Monitor!Saturating(FreeRam, reserved.memory)
        /\ 0 \in 0..Cores /\ 0 \in 0..FreeRam /\ 0 - 0 <= PROBE_COOLDOWN
    BY <1>1 DEF Monitor!Saturating
  <2>5. Recorded(s) /\ s.measured = 0
    BY SMTT(30), <1>1, <2>1, <2>3, SampleRecorded
  <2> QED BY Zenon, <1>2, <2>2, <2>5
<1>5. CASE ~heavy /\ sample_count # 0
  <2>1. s = Monitor!Sample(t, "FRESH", Monitor!Saturating(Cores, reserved.cpu),
                           Monitor!Saturating(last.free_ram, reserved.memory),
                           last.measured, reserved)
    BY Zenon, <1>5 DEF Monitor!execute_hardware_metrics_probe
  <2>2. last.measured = last_heavy_probe
    BY Zenon, <1>5 DEF MonitorInv, NewestInv
  <2>3. last.free_ram \in 0..FreeRam
    <3>1. RingInv /\ sample_count > 0
      BY <1>5 DEF MonitorInv, RingInv
    <3>2. Recorded(last)
      BY Zenon, <3>1, LatestIn DEF RingInv
    <3> QED BY Zenon, <3>2 DEF Recorded
  <2>4. /\ Monitor!Saturating(Cores, reserved.cpu) \in 0..Cores
        /\ Monitor!Saturating(last.free_ram, reserved.memory) \in 0..FreeRam
        /\ Monitor!Saturating(last.free_ram, reserved.memory) <= 
             Monitor!Saturating(FreeRam, reserved.memory)
        /\ Monitor!Saturating(Cores, reserved.cpu) <= Monitor!Saturating(Cores, reserved.cpu)
    BY ZenonT(60), <1>1, <2>3, Deducted
  <2>5. ProbedAt(t) = last_heavy_probe
    BY Zenon, <1>5 DEF ProbedAt
  <2>6. t - last_heavy_probe <= PROBE_COOLDOWN
    BY SMTT(30), <1>1, <1>5, ElapsedIs
  <2>7. Recorded(s) /\ s.measured = last_heavy_probe
    BY SMTT(30), <1>1, <2>1, <2>2, <2>4, <2>6, SampleRecorded
  <2> QED BY Zenon, <1>2, <2>5, <2>7
<1> QED BY ZenonT(60), <1>2, <1>3, <1>4, <1>5

LEMMA MonitorInvInit == Monitor!Init => MonitorInv
<1> SUFFICES ASSUME Monitor!Init PROVE MonitorInv
  BY Zenon
<1>1. /\ clock = Start /\ now = [c \in Caller |-> Monitor!Idle]
      /\ history = [i \in 0..(MAX_SAMPLES - 1) |-> Monitor!NoSample]
      /\ head_idx = 0 /\ sample_count = 0 /\ reserved = [cpu |-> 0, memory |-> 0]
      /\ last_heavy_probe = 0 /\ answer = Monitor!NoAnswer
  BY Zenon DEF Monitor!Init
<1>2. RingInv
  BY SMTT(30), <1>1, MonitorSizes DEF RingInv
<1>3. NewestInv
  BY Zenon, <1>1 DEF NewestInv
<1>4. Honest(answer)
  BY Zenon, <1>1 DEF Honest, Monitor!NoAnswer
<1>5. /\ clock \in 0..MaxTime /\ last_heavy_probe \in 0..MaxTime
      /\ reserved.cpu \in Nat /\ reserved.memory \in Nat
  BY SMTT(30), <1>1, MonitorSizes
<1>6. now \in [Caller -> (0..MaxTime) \cup {Monitor!Idle}]
  BY Zenon, <1>1
<1> QED BY ZenonT(60), <1>2, <1>3, <1>4, <1>5, <1>6 DEF MonitorInv

(* A sample goes into the slot at head_idx, which becomes the one before. *)
LEMMA RecordInv ==
  ASSUME MonitorInv, NEW c \in Caller, Monitor!record_sample(c)
  PROVE  MonitorInv'
<1> DEFINE t == now[c]
           s == Monitor!execute_hardware_metrics_probe(t)
<1>1. /\ t # Monitor!Idle /\ history' = [history EXCEPT ![head_idx] = s]
      /\ head_idx' = (head_idx + 1) % MAX_SAMPLES
      /\ sample_count' = IF sample_count < MAX_SAMPLES THEN sample_count + 1
                         ELSE sample_count
      /\ last_heavy_probe' = ProbedAt(t) /\ newest' = s
      /\ now' = [now EXCEPT ![c] = Monitor!Idle]
      /\ clock' = clock /\ reserved' = reserved /\ answer' = answer
  BY Zenon DEF Monitor!record_sample, Monitor!Done, ProbedAt
<1>2. t \in 0..MaxTime
  BY Zenon, <1>1 DEF MonitorInv
<1>3. Recorded(s) /\ s.measured = ProbedAt(t) /\ ProbedAt(t) \in 0..MaxTime
  BY Zenon, <1>2, ProbeSound
<1> HIDE DEF s, t
<1>4. RingInv /\ MAX_SAMPLES \in Nat \ {0}
  BY Zenon, MonitorSizes DEF MonitorInv
<1>5. /\ DOMAIN history' = 0..(MAX_SAMPLES - 1) /\ history'[head_idx] = s
      /\ \A i \in 0..(MAX_SAMPLES - 1) : i # head_idx => history'[i] = history[i]
  BY ZenonT(60), <1>1, <1>4 DEF RingInv
<1>6. /\ head_idx + 1 < MAX_SAMPLES => head_idx' = head_idx + 1
      /\ head_idx + 1 = MAX_SAMPLES => head_idx' = 0
      /\ head_idx \in 0..(MAX_SAMPLES - 1) /\ sample_count \in 0..MAX_SAMPLES
  BY SMTT(30), <1>1, <1>4 DEF RingInv
<1>7. RingInv'
  <2>1. head_idx' \in 0..(MAX_SAMPLES - 1) /\ sample_count' \in 0..MAX_SAMPLES
    BY SMTT(30), <1>1, <1>4, <1>6
  <2>2. sample_count' < MAX_SAMPLES => head_idx' = sample_count'
    BY ZenonT(60), <1>1, <1>4, <1>6 DEF RingInv
  <2>3. ASSUME NEW i \in 0..(sample_count' - 1) PROVE Recorded(history'[i])
    <3>1. i \in 0..(MAX_SAMPLES - 1) /\ (i # head_idx => i \in 0..(sample_count - 1))
      BY SMTT(30), <1>1, <1>4, <1>6 DEF RingInv
    <3> QED BY ZenonT(60), <1>3, <1>4, <1>5, <3>1 DEF RingInv
  <2>4. ASSUME NEW i \in (sample_count')..(MAX_SAMPLES - 1)
        PROVE  history'[i] = Monitor!NoSample
    <3>1. /\ i \in 0..(MAX_SAMPLES - 1) /\ i # head_idx
          /\ i \in sample_count..(MAX_SAMPLES - 1)
      BY SMTT(30), <1>1, <1>4, <1>6 DEF RingInv
    <3> QED BY ZenonT(60), <1>4, <1>5, <3>1 DEF RingInv
  <2> QED BY ZenonT(60), <1>5, <2>1, <2>2, <2>3, <2>4 DEF RingInv
<1>8. NewestInv'
  <2>1. sample_count' # 0
    BY SMTT(30), <1>1, <1>4, <1>6
  <2>2. Monitor!latest_idx' = head_idx
    BY SMTT(30), <1>4, <1>6 DEF Monitor!latest_idx
  <2> QED BY ZenonT(60), <1>1, <1>3, <1>5, <2>1, <2>2 DEF NewestInv
<1>9. now' \in [Caller -> (0..MaxTime) \cup {Monitor!Idle}]
  BY Zenon, <1>1 DEF MonitorInv
<1> QED BY ZenonT(60), <1>1, <1>3, <1>7, <1>8, <1>9 DEF MonitorInv

(* An answer that says FRESH was given after its sample, and soon. *)
LEMMA AnswerInv ==
  ASSUME MonitorInv, NEW c \in Caller, Monitor!get_latest_availability(c)
  PROVE  MonitorInv'
<1> DEFINE t == now[c]
           s == history[Monitor!latest_idx]
           stale == Monitor!Elapsed(t, s.timestamp) > STALE_THRESHOLD
<1>1. /\ t # Monitor!Idle
      /\ answer' = IF sample_count = 0 THEN Monitor!NoAnswer
                   ELSE [status |-> IF stale THEN "STALE" ELSE s.status,
                         sample |-> s, at |-> t]
      /\ now' = [now EXCEPT ![c] = Monitor!Idle]
  BY Zenon DEF Monitor!get_latest_availability, Monitor!Done
<1>2. /\ clock' = clock /\ history' = history /\ head_idx' = head_idx
      /\ sample_count' = sample_count /\ reserved' = reserved
      /\ last_heavy_probe' = last_heavy_probe /\ newest' = newest
  BY Zenon DEF Monitor!get_latest_availability
<1>3. t \in 0..MaxTime
  BY Zenon, <1>1 DEF MonitorInv
<1>4. Honest(answer')
  <2>1. CASE sample_count = 0
    BY Zenon, <1>1, <2>1 DEF Honest, Monitor!NoAnswer
  <2>2. CASE sample_count # 0
    <3>1. RingInv /\ sample_count > 0
      BY <2>2 DEF MonitorInv, RingInv
    <3>2. Recorded(s)
      BY Zenon, <3>1, LatestIn DEF RingInv
    <3> HIDE DEF t, s
    <3>3. /\ answer'.status = (IF stale THEN "STALE" ELSE s.status)
          /\ answer'.sample = s /\ answer'.at = t
      BY Zenon, <1>1, <2>2
    <3>4. answer'.status \in {"FRESH", "STALE", "UNAVAILABLE"}
      BY ZenonT(60), <3>2, <3>3 DEF Recorded
    <3>5. ASSUME answer'.status = "FRESH"
          PROVE  /\ t - s.timestamp \in 0..STALE_THRESHOLD
                 /\ t - s.measured <= STALE_THRESHOLD + PROBE_COOLDOWN
      <4>1. ~stale
        BY Zenon, <3>3, <3>5
      <4>2. /\ s.timestamp \in 0..MaxTime /\ s.measured \in 0..MaxTime
            /\ s.timestamp - s.measured <= PROBE_COOLDOWN
        BY Zenon, <3>2 DEF Recorded
      <4>3. /\ STALE_THRESHOLD \in Nat /\ PROBE_COOLDOWN \in Nat /\ MaxTime \in Nat
            /\ WORD \in Nat
        BY Zenon, MonitorSizes
      <4>4. /\ t >= s.timestamp => Monitor!Elapsed(t, s.timestamp) = t - s.timestamp
            /\ t < s.timestamp => Monitor!Elapsed(t, s.timestamp) > STALE_THRESHOLD
        BY ZenonT(60), <1>3, <4>2, ElapsedIs
      <4> QED BY SMTT(30), <1>3, <4>1, <4>2, <4>3, <4>4
    <3> QED BY ZenonT(60), <3>3, <3>4, <3>5 DEF Honest
  <2> QED BY SMTT(30), <2>1, <2>2
<1>5. now' \in [Caller -> (0..MaxTime) \cup {Monitor!Idle}]
  BY Zenon, <1>1 DEF MonitorInv
<1>6. RingInv' /\ NewestInv'
  BY Zenon, <1>2 DEF MonitorInv, RingInv, NewestInv, Monitor!latest_idx
<1> QED BY ZenonT(60), <1>2, <1>4, <1>5, <1>6 DEF MonitorInv

LEMMA MonitorKept ==
  ASSUME MonitorInv, Monitor!Next \/ UNCHANGED monitor
  PROVE  MonitorInv'
<1>1. ASSUME UNCHANGED <<history, head_idx, sample_count, last_heavy_probe, newest, answer>>
      PROVE  RingInv' /\ NewestInv' /\ Honest(answer)' /\ last_heavy_probe' = last_heavy_probe
  BY Zenon, <1>1 DEF MonitorInv, RingInv, NewestInv, Monitor!latest_idx
<1>2. CASE UNCHANGED monitor
  BY Zenon, <1>1, <1>2 DEF monitor, MonitorInv
<1>3. ASSUME NEW c \in Caller, Monitor!ReadClock(c)
      PROVE  MonitorInv'
  BY Zenon, <1>1, <1>3 DEF Monitor!ReadClock, MonitorInv
<1>4. ASSUME NEW r \in Reservations, Monitor!update_reservations(r)
      PROVE  MonitorInv'
  <2>1. reserved'.cpu \in Nat /\ reserved'.memory \in Nat
    BY Zenon, <1>4, MonitorSizes DEF Monitor!update_reservations
  <2> QED BY ZenonT(60), <1>1, <1>4, <2>1 DEF Monitor!update_reservations, MonitorInv
<1>5. CASE Monitor!Advance
  <2>1. clock' \in 0..MaxTime
    BY SMTT(30), <1>5, MonitorSizes DEF Monitor!Advance, MonitorInv
  <2> QED BY ZenonT(60), <1>1, <1>5, <2>1 DEF Monitor!Advance, MonitorInv
<1> QED BY ZenonT(60), <1>2, <1>3, <1>4, <1>5, RecordInv, AnswerInv DEF Monitor!Next

LEMMA MonitorInvImplies == MonitorInv => Monitor!AnswersSound
<1> SUFFICES ASSUME MonitorInv PROVE Monitor!AnswersSound
  BY Zenon
<1>1. RingInv /\ NewestInv /\ Honest(answer)
  BY Zenon DEF MonitorInv
<1>2. \A i \in 0..(MAX_SAMPLES - 1) :
        history[i].cpu \in 0..Cores /\ history[i].free_ram \in 0..FreeRam
  <2> TAKE i \in 0..(MAX_SAMPLES - 1)
  <2>1. i \in 0..(sample_count - 1) \/ i \in sample_count..(MAX_SAMPLES - 1)
    BY SMTT(30), <1>1, MonitorSizes DEF RingInv
  <2>2. CASE i \in 0..(sample_count - 1)
    BY Zenon, <1>1, <2>2 DEF RingInv, Recorded
  <2>3. CASE i \in sample_count..(MAX_SAMPLES - 1)
    <3>1. history[i] = Monitor!NoSample
      BY ZenonT(60), <1>1, <2>3 DEF RingInv
    <3>2. 0 \in 0..Cores /\ 0 \in 0..FreeRam
      BY MonitorSizes
    <3>3. Monitor!NoSample.cpu = 0 /\ Monitor!NoSample.free_ram = 0
      BY Zenon DEF Monitor!NoSample, Monitor!Sample
    <3> QED BY ZenonT(60), <3>1, <3>2, <3>3
  <2> QED BY ZenonT(60), <2>1, <2>2, <2>3
<1>3. Monitor!TypeOK
  BY Zenon, <1>1, <1>2 DEF Monitor!TypeOK, MonitorInv, RingInv, Honest
<1>4. sample_count > 0 => history[Monitor!latest_idx] = newest
  <2>1. sample_count > 0 => sample_count # 0
    BY SMTT(30), <1>1 DEF RingInv
  <2> QED BY Zenon, <1>1, <2>1 DEF NewestInv
<1> QED BY ZenonT(60), <1>1, <1>3, <1>4 DEF Monitor!AnswersSound, RingInv, Recorded, Honest

(* Safety, resource_monitor.c, for a ring of any size, any callers, any    *)
(* cooldown and threshold and any reservations: an answer is made of the   *)
(* sample recorded last, what it calls FRESH was measured at most a        *)
(* threshold and a cooldown ago although callers come in with old times,   *)
(* and no sample offers more than its reservation leaves.                  *)
THEOREM AnswersAreSound == ServicesSpec => []AnswersSound
<1>1. ServicesInit => MonitorInv
  BY Zenon, MonitorInvInit DEF ServicesInit
<1>2. MonitorInv /\ [ServicesNext]_services => MonitorInv'
  BY Zenon, OneServiceMoves, MonitorKept
<1>3. MonitorInv => AnswersSound
  BY Zenon, MonitorInvImplies DEF AnswersSound
<1> QED BY <1>1, <1>2, <1>3, PTL DEF ServicesSpec
=============================================================================
