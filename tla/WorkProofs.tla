----------------------------- MODULE WorkProofs -----------------------------
(***************************************************************************)
(* Proofs about work.  Workload, the master's jobs: for any number of      *)
(* jobs, checksums and deadlines.  The invariants are about one job at a   *)
(* time (JobOK), so the argument is what each operation does to a job, and *)
(* then that an operation touches one job or treats all jobs alike.        *)
(* Executor, the worker's calls that run chunks: for any number of calls   *)
(* and any number of cores.                                                *)
(***************************************************************************)
EXTENDS MCWorkload, Executor, TablesProofs

ChunkTable == [Chunks -> ManagedChunkNode]

Released(chunks) ==
  \A c \in Chunks : chunks[c].state = "PENDING" =>
    \E p \in Parents(c) : chunks[p].state # "COMPLETED"

JobOK(j) ==
  /\ j.state = "EXECUTING" => /\ In(j.chunks, "FAILED") = {}
                              /\ In(j.chunks, "COMPLETED") # Chunks
  /\ Released(j.chunks)
  /\ j.overall_progress = Cardinality(In(j.chunks, "COMPLETED"))

(* The inductive invariant. *)
Inv == TypeOK /\ \A i \in DOMAIN jobs : JobOK(jobs[i])

-----------------------------------------------------------------------------
(* Sets of chunks are counted by finite cardinalities. *)
LEMMA ChunksFinite == IsFiniteSet(Chunks) /\ Cardinality(Chunks) \in Nat
<1>1. 0 \in Int /\ 2 \in Int
  OBVIOUS
<1>2. IsFiniteSet(0..2)
  BY ZenonT(60), <1>1, FS_Interval
<1> QED BY Zenon, <1>2, FS_CardinalityType DEF Chunks

LEMMA CountChunks ==
  ASSUME NEW S \in SUBSET Chunks
  PROVE  /\ Cardinality(S) \in Nat
         /\ Cardinality(S) = 0 <=> S = {}
         /\ Cardinality(S) > 0 <=> S # {}
         /\ Cardinality(S) = Cardinality(Chunks) <=> S = Chunks
<1>1. IsFiniteSet(S) /\ Cardinality(S) \in Nat
      /\ (Cardinality(S) = Cardinality(Chunks) => S = Chunks)
  BY Zenon, ChunksFinite, FS_Subset, FS_CardinalityType
<1>2. Cardinality(S) = 0 <=> S = {}
  BY Zenon, <1>1, FS_EmptySet
<1> QED BY <1>1, <1>2

(* evaluate_ready_chunks only turns pending chunks into ready ones, and    *)
(* leaves none behind that could be.                                       *)
LEMMA EvaluateFacts ==
  ASSUME NEW t \in ChunkTable
  PROVE  /\ evaluate_ready_chunks(t) \in ChunkTable
         /\ Released(evaluate_ready_chunks(t))
         /\ \A c \in Chunks :
              \/ evaluate_ready_chunks(t)[c] = t[c]
              \/ /\ t[c].state = "PENDING"
                 /\ evaluate_ready_chunks(t)[c].state = "READY"
                 /\ \A p \in Parents(c) : t[p].state = "COMPLETED"
         /\ In(evaluate_ready_chunks(t), "COMPLETED") = In(t, "COMPLETED")
<1> DEFINE e == evaluate_ready_chunks(t)
<1>1. ASSUME NEW c \in Chunks
      PROVE  /\ e[c] \in ManagedChunkNode
             /\ \/ e[c] = t[c]
                \/ /\ t[c].state = "PENDING" /\ e[c].state = "READY"
                   /\ \A p \in Parents(c) : t[p].state = "COMPLETED"
             /\ e[c].state = "PENDING" =>
                  \E p \in Parents(c) : t[p].state # "COMPLETED"
  <2>1. t[c] \in ManagedChunkNode
    BY Zenon DEF ChunkTable
  <2>2. /\ [t[c] EXCEPT !.state = "READY"] \in ManagedChunkNode
        /\ [t[c] EXCEPT !.state = "READY"].state = "READY"
    BY Zenon, <2>1 DEF ManagedChunkNode, ChunkState
  <2>3. e[c] = IF /\ t[c].state = "PENDING"
                  /\ \A p \in Parents(c) : t[p].state = "COMPLETED"
                 THEN [t[c] EXCEPT !.state = "READY"] ELSE t[c]
    BY Zenon DEF evaluate_ready_chunks
  <2> QED BY Zenon, <2>1, <2>2, <2>3
<1>2. e \in ChunkTable
  BY Zenon, <1>1 DEF ChunkTable, evaluate_ready_chunks
<1> HIDE DEF e
<1>3. In(e, "COMPLETED") = In(t, "COMPLETED")
  BY Zenon, <1>1 DEF In
<1>4. \A p \in Chunks : e[p].state = "COMPLETED" => t[p].state = "COMPLETED"
  BY Zenon, <1>1
<1>5. Released(e)
  BY Zenon, <1>1, <1>4 DEF Released, Parents
<1> QED BY Zenon, <1>1, <1>2, <1>3, <1>5 DEF e

(* What recalculate_job_progress makes of a job. *)
LEMMA RecalculateFacts ==
  ASSUME NEW j \in ActiveWorkloadLifecycle
  PROVE  LET r == recalculate_job_progress(j) IN
         /\ r \in ActiveWorkloadLifecycle
         /\ r.chunks = j.chunks /\ r.workload_id = j.workload_id
         /\ r.overall_progress = Cardinality(In(j.chunks, "COMPLETED"))
         /\ In(j.chunks, "FAILED") # {} => r.state = "FAILED"
         /\ In(j.chunks, "FAILED") = {} =>
              r.state = IF In(j.chunks, "COMPLETED") = Chunks
                          THEN "COMPLETED" ELSE j.state
         /\ r.state = "COMPLETED" =>
              IF In(j.chunks, "COMPLETED") = Chunks
                THEN r.aggregated_result_hash = HashOf(j.chunks)
                ELSE j.state = "COMPLETED"
<1> DEFINE C == In(j.chunks, "COMPLETED")
           F == In(j.chunks, "FAILED")
           h == HashOf(j.chunks)
<1>1. C \in SUBSET Chunks /\ F \in SUBSET Chunks
  BY Zenon DEF In
<1>2. /\ Cardinality(C) \in Nat
      /\ Cardinality(F) = 0 <=> F = {}
      /\ Cardinality(F) > 0 <=> F # {}
      /\ Cardinality(C) = Cardinality(Chunks) <=> C = Chunks
  BY Zenon, <1>1, CountChunks
<1>3. h \in Hash
  <2>1. \A c \in Chunks : j.chunks[c] \in ManagedChunkNode
    BY Zenon DEF ActiveWorkloadLifecycle
  <2>2. \A c \in Chunks : j.chunks[c].output_checksum \in Checksum \cup {NoChecksum}
    BY Zenon, <2>1 DEF ManagedChunkNode
  <2> QED BY Zenon, <2>2 DEF HashOf, Hash
<1> DEFINE n == Cardinality(C)
           st == IF F # {} THEN "FAILED"
                 ELSE IF C = Chunks THEN "COMPLETED" ELSE j.state
           ha == IF F = {} /\ C = Chunks THEN h ELSE j.aggregated_result_hash
<1>4. recalculate_job_progress(j) =
        [j EXCEPT !.overall_progress = n, !.state = st,
                  !.aggregated_result_hash = ha]
  BY ZenonT(60), <1>2 DEF recalculate_job_progress
<1>5. n \in Nat /\ st \in WorkloadState /\ ha \in Hash \cup {NoHash}
  BY Zenon, <1>2, <1>3 DEF ActiveWorkloadLifecycle, WorkloadState
<1>6. /\ F # {} => st = "FAILED"
      /\ F = {} => st = IF C = Chunks THEN "COMPLETED" ELSE j.state
      /\ st = "COMPLETED" => IF C = Chunks THEN ha = h ELSE j.state = "COMPLETED"
  BY Zenon
<1> HIDE DEF C, F, h, n, st, ha
<1>7. LET r == recalculate_job_progress(j) IN
      /\ r \in ActiveWorkloadLifecycle
      /\ r.chunks = j.chunks /\ r.workload_id = j.workload_id
      /\ r.overall_progress = n /\ r.state = st /\ r.aggregated_result_hash = ha
  BY ZenonT(60), <1>4, <1>5 DEF ActiveWorkloadLifecycle
<1> QED BY Zenon, <1>6, <1>7 DEF C, F, h, n

(* What a reported result does to a job: it repairs everything JobOK says, *)
(* even what did not hold before, except that it never closes or opens a   *)
(* job by itself.                                                          *)
LEMMA ReportedFacts ==
  ASSUME NEW j \in ActiveWorkloadLifecycle, NEW c \in Chunks,
         NEW res \in ResultState, NEW s \in Checksum \cup {NoChecksum}
  PROVE  LET r == Reported(j, c, res, s) IN
         /\ r \in ActiveWorkloadLifecycle /\ r.workload_id = j.workload_id
         /\ JobOK(r)
         /\ j.state # "EXECUTING" => r.state # "EXECUTING"
         /\ r.state = "COMPLETED" =>
              IF In(r.chunks, "COMPLETED") = Chunks
                THEN r.aggregated_result_hash = HashOf(r.chunks)
                ELSE j.state = "COMPLETED"
         /\ In(r.chunks, "FAILED") # {} => r.state = "FAILED"
         /\ \E m \in ManagedChunkNode :
              /\ m.state = res
              /\ m.output_checksum = (IF s = NoChecksum
                                        THEN j.chunks[c].output_checksum ELSE s)
              /\ r.chunks = evaluate_ready_chunks([j.chunks EXCEPT ![c] = m])
<1> DEFINE sum == IF s = NoChecksum THEN j.chunks[c].output_checksum ELSE s
           m == [state |-> res, output_checksum |-> sum]
           t == [j.chunks EXCEPT ![c] = m]
           e == evaluate_ready_chunks(t)
           k == [j EXCEPT !.chunks = e]
           r == recalculate_job_progress(k)
<1>1. j.chunks \in ChunkTable
  BY Zenon DEF ActiveWorkloadLifecycle, ChunkTable
<1>2. m \in ManagedChunkNode /\ m.state = res /\ m.output_checksum = sum
  <2>1. j.chunks[c] \in ManagedChunkNode
    BY Zenon, <1>1 DEF ChunkTable
  <2>2. sum \in Checksum \cup {NoChecksum} /\ res \in ChunkState
    BY Zenon, <2>1 DEF ManagedChunkNode, ResultState, ChunkState
  <2> HIDE DEF sum
  <2> QED BY Zenon, <2>2 DEF ManagedChunkNode
<1>3. Reported(j, c, res, s) = r
  BY Zenon DEF Reported
<1> HIDE DEF m
<1>4. t \in ChunkTable
  BY Zenon, <1>1, <1>2 DEF ChunkTable
<1> HIDE DEF t
<1>5. e \in ChunkTable /\ Released(e)
  BY Zenon, <1>4, EvaluateFacts
<1> HIDE DEF e
<1>6. /\ k \in ActiveWorkloadLifecycle /\ k.chunks = e
      /\ k.state = j.state /\ k.workload_id = j.workload_id
  BY Zenon, <1>5 DEF ActiveWorkloadLifecycle, ChunkTable
<1> HIDE DEF k
<1>7. /\ r \in ActiveWorkloadLifecycle
      /\ r.chunks = e /\ r.workload_id = j.workload_id
      /\ r.overall_progress = Cardinality(In(e, "COMPLETED"))
      /\ In(e, "FAILED") # {} => r.state = "FAILED"
      /\ In(e, "FAILED") = {} =>
           r.state = IF In(e, "COMPLETED") = Chunks THEN "COMPLETED" ELSE j.state
      /\ r.state = "COMPLETED" =>
           IF In(e, "COMPLETED") = Chunks
             THEN r.aggregated_result_hash = HashOf(e)
             ELSE j.state = "COMPLETED"
  BY Zenon, <1>6, RecalculateFacts
<1> HIDE DEF r
<1>8. JobOK(r)
  BY Zenon, <1>5, <1>7 DEF JobOK
<1>9. r.chunks = evaluate_ready_chunks([j.chunks EXCEPT ![c] = m])
  BY Zenon, <1>7 DEF e, t
<1> QED BY ZenonT(60), <1>2, <1>3, <1>7, <1>8, <1>9 DEF sum

-----------------------------------------------------------------------------
(* What a search by workload id finds. *)
LEMMA FirstJob ==
  ASSUME TypeOK, NEW id, JobSlots(id) # {}
  PROVE  First(JobSlots(id)) \in JobSlots(id) /\ JobSlots(id) \subseteq DOMAIN jobs
<1>1. JobSlots(id) \in SUBSET Nat /\ JobSlots(id) \subseteq DOMAIN jobs
  BY DEF JobSlots, TypeOK
<1> QED BY Zenon, <1>1, FirstIn

LEMMA InvInit == Init => Inv
<1> SUFFICES ASSUME Init PROVE Inv
  BY Zenon
<1>1. TypeOK
  BY WorkloadSizes, WorkloadTimes DEF Init, TypeOK, NoCheck
<1> QED BY <1>1 DEF Init, Inv

(* One job is replaced by another one that is typed and OK. *)
LEMMA ReplaceJob ==
  ASSUME Inv, NEW i \in DOMAIN jobs, NEW j \in ActiveWorkloadLifecycle, JobOK(j),
         jobs' = [jobs EXCEPT ![i] = j],
         UNCHANGED <<next_workload_id, clock, check_now>>
  PROVE  Inv'
<1>1. jobs \in Seq(ActiveWorkloadLifecycle) /\ Len(jobs) <= MAX_ACTIVE_WORKLOADS
  BY Zenon DEF Inv, TypeOK
<1>2. /\ jobs' \in Seq(ActiveWorkloadLifecycle) /\ Len(jobs') = Len(jobs)
      /\ DOMAIN jobs' = DOMAIN jobs
  BY <1>1
<1>3. \A k \in DOMAIN jobs : jobs'[k] = IF k = i THEN j ELSE jobs[k]
  BY Zenon, <1>1
<1>4. \A k \in DOMAIN jobs' : JobOK(jobs'[k])
  BY Zenon, <1>2, <1>3 DEF Inv
<1> QED BY Zenon, <1>1, <1>2, <1>4 DEF Inv, TypeOK

LEMMA SubmittedJob ==
  ASSUME TypeOK, NEW d \in Deadlines
  PROVE  LET j == [workload_id |-> next_workload_id, state |-> "EXECUTING",
                   start_timestamp_ms |-> clock, deadline_seconds |-> d,
                   chunks |-> evaluate_ready_chunks(PlannedChunks),
                   overall_progress |-> 0, aggregated_result_hash |-> NoHash]
         IN  j \in ActiveWorkloadLifecycle /\ JobOK(j)
<1> DEFINE e == evaluate_ready_chunks(PlannedChunks)
           j == [workload_id |-> next_workload_id, state |-> "EXECUTING",
                 start_timestamp_ms |-> clock, deadline_seconds |-> d,
                 chunks |-> e,
                 overall_progress |-> 0, aggregated_result_hash |-> NoHash]
<1>1. PlannedChunks \in ChunkTable
  BY Zenon DEF PlannedChunks, ChunkTable, ManagedChunkNode, ChunkState
<1>2. /\ e \in ChunkTable /\ Released(e)
      /\ In(e, "COMPLETED") = In(PlannedChunks, "COMPLETED")
      /\ \A c \in Chunks : e[c] = PlannedChunks[c] \/ e[c].state = "READY"
  BY Zenon, <1>1, EvaluateFacts
<1>3. \A c \in Chunks : PlannedChunks[c].state = "PENDING"
  BY Zenon DEF PlannedChunks
<1>4. In(e, "COMPLETED") = {} /\ In(e, "FAILED") = {}
  BY Zenon, <1>2, <1>3 DEF In
<1>5. Chunks # {} /\ Cardinality({}) = 0
  <2>1. 0 \in 0..2
    OBVIOUS
  <2> QED BY Zenon, <2>1, FS_EmptySet DEF Chunks
<1>6. /\ next_workload_id \in Nat /\ clock \in Nat /\ d \in Nat
      /\ 0 \in Nat /\ "EXECUTING" \in WorkloadState
  BY WorkloadTimes DEF TypeOK, WorkloadState
<1> HIDE DEF e
<1>7. j \in ActiveWorkloadLifecycle
  BY Zenon, <1>2, <1>6 DEF ActiveWorkloadLifecycle, ChunkTable
<1>8. JobOK(j)
  BY Zenon, <1>2, <1>4, <1>5 DEF JobOK
<1> QED BY Zenon, <1>7, <1>8 DEF e

(* Closing a job keeps it OK. *)
LEMMA ClosedJob ==
  ASSUME NEW j \in ActiveWorkloadLifecycle, JobOK(j),
         NEW st \in {"FAILED", "CANCELLED"}
  PROVE  LET r == [j EXCEPT !.state = st] IN
         /\ r \in ActiveWorkloadLifecycle /\ JobOK(r) /\ r.state = st
         /\ r.workload_id = j.workload_id /\ r.chunks = j.chunks
<1> DEFINE r == [j EXCEPT !.state = st]
<1>1. /\ r \in ActiveWorkloadLifecycle /\ r.state = st
      /\ r.workload_id = j.workload_id /\ r.chunks = j.chunks
      /\ r.overall_progress = j.overall_progress
  BY Zenon DEF ActiveWorkloadLifecycle, WorkloadState
<1>2. JobOK(r)
  BY Zenon, <1>1 DEF JobOK
<1> QED BY Zenon, <1>1, <1>2

(* The deadline check leaves a job alone or fails it. *)
LEMMA CheckFacts ==
  ASSUME Inv, NEW now, check_deadlines(now)
  PROVE  /\ jobs' \in Seq(ActiveWorkloadLifecycle) /\ Len(jobs') = Len(jobs)
         /\ DOMAIN jobs' = DOMAIN jobs
         /\ \A i \in DOMAIN jobs : \/ jobs'[i] = jobs[i]
                                   \/ jobs'[i] = [jobs[i] EXCEPT !.state = "FAILED"]
<1>1. /\ jobs \in Seq(ActiveWorkloadLifecycle) /\ DOMAIN jobs = 1..Len(jobs)
      /\ Len(jobs) \in Nat
      /\ \A i \in DOMAIN jobs : jobs[i] \in ActiveWorkloadLifecycle /\ JobOK(jobs[i])
  BY DEF Inv, TypeOK
<1>2. \A i \in DOMAIN jobs : \/ jobs'[i] = jobs[i]
                             \/ jobs'[i] = [jobs[i] EXCEPT !.state = "FAILED"]
  BY Zenon DEF check_deadlines
<1>3. \A i \in DOMAIN jobs :
        [jobs[i] EXCEPT !.state = "FAILED"] \in ActiveWorkloadLifecycle
  BY ZenonT(60), <1>1, ClosedJob
<1>4. jobs' \in [1..Len(jobs) -> ActiveWorkloadLifecycle]
  BY Zenon, <1>1, <1>3 DEF check_deadlines
<1>5. jobs' \in Seq(ActiveWorkloadLifecycle) /\ Len(jobs') = Len(jobs)
  BY <1>1, <1>4
<1> QED BY Zenon, <1>1, <1>2, <1>4, <1>5

(* Every step keeps the invariant. *)
LEMMA InvNext ==
  ASSUME Inv, [Next]_vars
  PROVE  Inv'
<1> USE DEF Inv
<1>1. CASE UNCHANGED vars
  BY Zenon, <1>1 DEF vars, TypeOK
<1>2. ASSUME NEW d \in Deadlines, submit(d)
      PROVE  Inv'
  <2> DEFINE j == [workload_id |-> next_workload_id, state |-> "EXECUTING",
                   start_timestamp_ms |-> clock, deadline_seconds |-> d,
                   chunks |-> evaluate_ready_chunks(PlannedChunks),
                   overall_progress |-> 0, aggregated_result_hash |-> NoHash]
  <2>1. j \in ActiveWorkloadLifecycle /\ JobOK(j)
    BY Zenon, SubmittedJob
  <2>2. /\ jobs' = Append(jobs, j) /\ Len(jobs) < MAX_ACTIVE_WORKLOADS
        /\ next_workload_id' = next_workload_id + 1
        /\ UNCHANGED <<clock, check_now>>
    BY Zenon, <1>2 DEF submit
  <2> HIDE DEF j
  <2>3. TypeOK'
    BY <2>1, <2>2, WorkloadSizes DEF TypeOK
  <2>4. \A i \in DOMAIN jobs' : (i \in DOMAIN jobs /\ jobs'[i] = jobs[i]) \/ jobs'[i] = j
    BY <2>2 DEF TypeOK
  <2> QED BY Zenon, <2>1, <2>3, <2>4
<1>3. ASSUME NEW id, cancel(id)
      PROVE  Inv'
  <2> DEFINE i == First(JobSlots(id))
  <2>1. i \in DOMAIN jobs
    BY Zenon, <1>3, FirstJob DEF cancel
  <2>2. jobs' = [jobs EXCEPT ![i] = [jobs[i] EXCEPT !.state = "CANCELLED"]]
        /\ UNCHANGED <<next_workload_id, clock, check_now>>
    BY Zenon, <1>3 DEF cancel
  <2> HIDE DEF i
  <2>3. jobs[i] \in ActiveWorkloadLifecycle /\ JobOK(jobs[i])
    BY <2>1 DEF TypeOK
  <2>4. /\ [jobs[i] EXCEPT !.state = "CANCELLED"] \in ActiveWorkloadLifecycle
        /\ JobOK([jobs[i] EXCEPT !.state = "CANCELLED"])
    BY ZenonT(60), <2>3, ClosedJob
  <2> QED BY ZenonT(60), <2>1, <2>2, <2>4, ReplaceJob
<1>4. CASE ReadClock
  BY Zenon, <1>4 DEF ReadClock, TypeOK
<1>5. CASE CheckDeadlines
  <2>1. check_deadlines(check_now) /\ check_now' = NoCheck
        /\ UNCHANGED <<next_workload_id, clock>>
    BY Zenon, <1>5 DEF CheckDeadlines
  <2>2. /\ jobs' \in Seq(ActiveWorkloadLifecycle) /\ Len(jobs') = Len(jobs)
        /\ DOMAIN jobs' = DOMAIN jobs
        /\ \A i \in DOMAIN jobs : \/ jobs'[i] = jobs[i]
                                  \/ jobs'[i] = [jobs[i] EXCEPT !.state = "FAILED"]
    BY Zenon, <2>1, CheckFacts
  <2>3. \A i \in DOMAIN jobs : jobs[i] \in ActiveWorkloadLifecycle
    BY DEF TypeOK
  <2>4. \A i \in DOMAIN jobs : JobOK([jobs[i] EXCEPT !.state = "FAILED"])
    BY ZenonT(60), <2>3, ClosedJob
  <2>5. \A i \in DOMAIN jobs' : JobOK(jobs'[i])
    BY <2>2, <2>4
  <2> QED BY Zenon, <2>1, <2>2, <2>5 DEF TypeOK
<1>6. CASE Advance
  BY <1>6, WorkloadTimes DEF Advance, TypeOK
<1>7. ASSUME NEW id, Report(id)
      PROVE  Inv'
  <2>1. PICK c \in Chunks, r \in ResultState, s \in Checksum \cup {NoChecksum} :
          update_chunk_result(id, c, r, s)
    BY Zenon, <1>7 DEF Report
  <2> DEFINE i == First(JobSlots(id))
             j == Reported(jobs[i], c, r, s)
  <2>2. i \in DOMAIN jobs
    BY Zenon, <2>1, FirstJob DEF update_chunk_result
  <2>3. jobs' = [jobs EXCEPT ![i] = j] /\ UNCHANGED <<next_workload_id, clock, check_now>>
    BY Zenon, <2>1 DEF update_chunk_result
  <2> HIDE DEF i
  <2>4. jobs[i] \in ActiveWorkloadLifecycle
    BY <2>2 DEF TypeOK
  <2>5. j \in ActiveWorkloadLifecycle /\ JobOK(j)
    BY Zenon, <2>4, ReportedFacts
  <2> HIDE DEF j
  <2> QED BY ZenonT(60), <2>2, <2>3, <2>5, ReplaceJob
<1> QED BY Zenon, <1>1, <1>2, <1>3, <1>4, <1>5, <1>6, <1>7 DEF Next, Others

LEMMA Invariance == Spec => []Inv
BY InvInit, InvNext, PTL DEF Spec

-----------------------------------------------------------------------------
(* The job table stays within its capacity and its types. *)
THEOREM TypeCorrect == Spec => []TypeOK
BY Invariance, PTL DEF Inv

(* Whatever results are reported in whatever order, no finished or failed  *)
(* job is left executing.                                                  *)
THEOREM OpenJobsHaveWork == Spec => []OpenJobHasWork
<1>1. Inv => OpenJobHasWork
  BY Zenon DEF Inv, JobOK, OpenJobHasWork
<1> QED BY <1>1, Invariance, PTL

(* Whatever is reported, no chunk waits for parents that are completed. *)
THEOREM FrontierAlwaysReleased == Spec => []FrontierReleased
<1>1. Inv => FrontierReleased
  BY Zenon DEF Inv, JobOK, Released, FrontierReleased
<1> QED BY <1>1, Invariance, PTL

(* Whatever is reported, the progress shown is the progress made. *)
THEOREM ProgressAlwaysExact == Spec => []ProgressExact
<1>1. Inv => ProgressExact
  BY Zenon DEF Inv, JobOK, ProgressExact
<1> QED BY <1>1, Invariance, PTL

(* A job never executes again once it stopped, and it becomes COMPLETED    *)
(* only with every chunk completed and the hash of these outputs.          *)
THEOREM CompletionsEarned == Spec => CompletionEarned
<1>1. ASSUME Inv, [Next]_vars
      PROVE  [\A i \in DOMAIN jobs : JobKept(i)]_vars
  <2> SUFFICES ASSUME NEW i \in DOMAIN jobs PROVE JobKept(i) \/ UNCHANGED vars
    BY Zenon
  <2> Inv
    BY Zenon, <1>1
  <2>0. jobs \in Seq(ActiveWorkloadLifecycle) /\ TypeOK
        /\ jobs[i] \in ActiveWorkloadLifecycle /\ JobOK(jobs[i])
    BY DEF Inv, TypeOK
  <2>1. CASE jobs' = jobs
    BY Zenon, <2>1 DEF JobKept
  <2>2. ASSUME NEW d \in Deadlines, submit(d)
        PROVE  JobKept(i)
    <3> DEFINE j == [workload_id |-> next_workload_id, state |-> "EXECUTING",
                     start_timestamp_ms |-> clock, deadline_seconds |-> d,
                     chunks |-> evaluate_ready_chunks(PlannedChunks),
                     overall_progress |-> 0, aggregated_result_hash |-> NoHash]
    <3>1. jobs' = Append(jobs, j)
      BY Zenon, <2>2 DEF submit
    <3> HIDE DEF j
    <3>2. jobs'[i] = jobs[i] /\ i \in DOMAIN jobs'
      BY <2>0, <3>1
    <3> QED BY Zenon, <3>2 DEF JobKept
  <2>3. ASSUME NEW id, cancel(id)
        PROVE  JobKept(i)
    <3> DEFINE f == First(JobSlots(id))
    <3>1. jobs' = [jobs EXCEPT ![f] = [jobs[f] EXCEPT !.state = "CANCELLED"]]
      BY Zenon, <2>3 DEF cancel
    <3> HIDE DEF f
    <3>2. i \in DOMAIN jobs'
      BY Zenon, <3>1
    <3>3. CASE i = f
      <4>1. jobs'[i] = [jobs[i] EXCEPT !.state = "CANCELLED"]
        BY Zenon, <3>1, <3>3
      <4>2. jobs'[i].state = "CANCELLED" /\ jobs'[i].workload_id = jobs[i].workload_id
        BY Zenon, <2>0, <4>1, ClosedJob
      <4> QED BY Zenon, <3>2, <4>2 DEF JobKept
    <3>4. CASE i # f
      <4>1. jobs'[i] = jobs[i]
        BY Zenon, <3>1, <3>4
      <4> QED BY Zenon, <3>2, <4>1 DEF JobKept
    <3> QED BY Zenon, <3>3, <3>4
  <2>4. CASE CheckDeadlines
    <3>1. /\ DOMAIN jobs' = DOMAIN jobs
          /\ jobs'[i] = jobs[i] \/ jobs'[i] = [jobs[i] EXCEPT !.state = "FAILED"]
      BY Zenon, <2>4, CheckFacts DEF CheckDeadlines
    <3>2. /\ [jobs[i] EXCEPT !.state = "FAILED"].state = "FAILED"
          /\ [jobs[i] EXCEPT !.state = "FAILED"].workload_id = jobs[i].workload_id
      BY Zenon, <2>0, ClosedJob
    <3> QED BY ZenonT(60), <3>1, <3>2 DEF JobKept
  <2>5. ASSUME NEW id, Report(id)
        PROVE  JobKept(i)
    <3>1. PICK c \in Chunks, r \in ResultState, s \in Checksum \cup {NoChecksum} :
            update_chunk_result(id, c, r, s)
      BY Zenon, <2>5 DEF Report
    <3> DEFINE f == First(JobSlots(id))
               j == Reported(jobs[f], c, r, s)
    <3>2. jobs' = [jobs EXCEPT ![f] = j]
      BY Zenon, <3>1 DEF update_chunk_result
    <3>3. i \in DOMAIN jobs'
      BY Zenon, <3>2
    <3> HIDE DEF f
    <3>4. CASE i = f
      <4>1. /\ j.workload_id = jobs[i].workload_id
            /\ jobs[i].state # "EXECUTING" => j.state # "EXECUTING"
            /\ j.state = "COMPLETED" =>
                 IF In(j.chunks, "COMPLETED") = Chunks
                   THEN j.aggregated_result_hash = HashOf(j.chunks)
                   ELSE jobs[i].state = "COMPLETED"
        BY <2>0, <3>4, ReportedFacts
      <4> HIDE DEF j
      <4>2. jobs'[i] = j
        BY Zenon, <3>2, <3>4
      <4> QED BY Zenon, <3>3, <4>1, <4>2 DEF JobKept
    <3>5. CASE i # f
      <4> HIDE DEF j
      <4>1. jobs'[i] = jobs[i]
        BY Zenon, <3>2, <3>5
      <4> QED BY Zenon, <3>3, <4>1 DEF JobKept
    <3> QED BY Zenon, <3>4, <3>5
  <2> QED BY Zenon, <1>1, <2>1, <2>2, <2>3, <2>4, <2>5 DEF Next, Others, ReadClock, Advance
<1> QED BY <1>1, Invariance, PTL DEF Spec, CompletionEarned

-----------------------------------------------------------------------------
(* What orderly reports keep, for one job. *)
Ordered(chunks) ==
  \A c \in Chunks : chunks[c].state # "PENDING" =>
    \A p \in Parents(c) : chunks[p].state = "COMPLETED"
Whole(j) ==
  j.state = "COMPLETED" => /\ In(j.chunks, "COMPLETED") = Chunks
                           /\ j.aggregated_result_hash = HashOf(j.chunks)
OrderlyInv == Inv /\ \A i \in DOMAIN jobs : Ordered(jobs[i].chunks) /\ Whole(jobs[i])

(* evaluate_ready_chunks keeps the order. *)
LEMMA EvaluateOrdered ==
  ASSUME NEW t \in ChunkTable, Ordered(t)
  PROVE  Ordered(evaluate_ready_chunks(t))
<1> DEFINE e == evaluate_ready_chunks(t)
<1>1. \A c \in Chunks : \/ e[c] = t[c]
                        \/ /\ t[c].state = "PENDING" /\ e[c].state = "READY"
                           /\ \A p \in Parents(c) : t[p].state = "COMPLETED"
  BY Zenon, EvaluateFacts
<1> HIDE DEF e
<1>2. \A p \in Chunks : t[p].state = "COMPLETED" => e[p].state = "COMPLETED"
  BY Zenon, <1>1
<1>3. Ordered(e)
  BY Zenon, <1>1, <1>2 DEF Ordered, Parents
<1> QED BY Zenon, <1>3 DEF e

(* An orderly report keeps the order and the wholeness of a job. *)
LEMMA OrderlyReported ==
  ASSUME NEW j \in ActiveWorkloadLifecycle, NEW c \in Chunks,
         NEW res \in ResultState, NEW s \in Checksum \cup {NoChecksum},
         Ordered(j.chunks), Whole(j), Orderly(j, c, res, s)
  PROVE  LET r == Reported(j, c, res, s) IN Ordered(r.chunks) /\ Whole(r)
<1> DEFINE r == Reported(j, c, res, s)
<1>1. PICK m \in ManagedChunkNode :
        /\ m.state = res
        /\ r.chunks = evaluate_ready_chunks([j.chunks EXCEPT ![c] = m])
  BY ReportedFacts
<1>2. /\ r.state = "COMPLETED" =>
           IF In(r.chunks, "COMPLETED") = Chunks
             THEN r.aggregated_result_hash = HashOf(r.chunks)
             ELSE j.state = "COMPLETED"
  BY Zenon, ReportedFacts
<1> HIDE DEF r
<1> DEFINE t == [j.chunks EXCEPT ![c] = m]
<1>3. j.chunks \in ChunkTable
  BY Zenon DEF ActiveWorkloadLifecycle, ChunkTable
<1>4. t \in ChunkTable /\ t[c] = m
      /\ \A d \in Chunks : d # c => t[d] = j.chunks[d]
  BY Zenon, <1>3 DEF ChunkTable
<1> HIDE DEF t
<1>5. /\ j.chunks[c].state # "PENDING" /\ res # "PENDING"
      /\ j.chunks[c].state = "COMPLETED" => res = "COMPLETED"
  BY Zenon DEF Orderly, ResultState
<1>6. \A d \in Chunks : /\ t[d].state # "PENDING" => j.chunks[d].state # "PENDING"
                        /\ j.chunks[d].state = "COMPLETED" => t[d].state = "COMPLETED"
  BY Zenon, <1>1, <1>4, <1>5
<1>7. Ordered(t)
  BY Zenon, <1>6 DEF Ordered, Parents
<1>8. Ordered(r.chunks)
  BY Zenon, <1>1, <1>4, <1>7, EvaluateOrdered DEF t
<1>9. Whole(r)
  <2>1. CASE j.state = "COMPLETED"
    <3>1. In(t, "COMPLETED") = Chunks
      BY Zenon, <1>6, <2>1 DEF Whole, In
    <3>2. In(r.chunks, "COMPLETED") = Chunks
      BY <1>1, <1>4, <3>1, EvaluateFacts DEF t
    <3> QED BY Zenon, <1>2, <3>2 DEF Whole
  <2>2. CASE j.state # "COMPLETED"
    BY Zenon, <1>2, <2>2 DEF Whole
  <2> QED BY Zenon, <2>1, <2>2
<1> QED BY Zenon, <1>8, <1>9 DEF r

LEMMA OrderlyStepIsStep == OrderlyNext => Next
BY Zenon DEF OrderlyNext, Next, OrderlyReport, Report

LEMMA OrderlyInvNext ==
  ASSUME OrderlyInv, [OrderlyNext]_vars
  PROVE  OrderlyInv'
<1>1. Inv'
  BY Zenon, InvNext, OrderlyStepIsStep DEF OrderlyInv
<1>2. /\ Inv /\ TypeOK /\ jobs \in Seq(ActiveWorkloadLifecycle)
      /\ \A i \in DOMAIN jobs :
           /\ jobs[i] \in ActiveWorkloadLifecycle /\ JobOK(jobs[i])
           /\ Ordered(jobs[i].chunks) /\ Whole(jobs[i])
  BY DEF OrderlyInv, Inv, TypeOK
<1> SUFFICES \A i \in DOMAIN jobs' : Ordered(jobs'[i].chunks) /\ Whole(jobs'[i])
  BY Zenon, <1>1 DEF OrderlyInv
<1>3. CASE jobs' = jobs
  BY Zenon, <1>2, <1>3
<1>4. ASSUME NEW d \in Deadlines, submit(d)
      PROVE  \A i \in DOMAIN jobs' : Ordered(jobs'[i].chunks) /\ Whole(jobs'[i])
  <2> DEFINE e == evaluate_ready_chunks(PlannedChunks)
             j == [workload_id |-> next_workload_id, state |-> "EXECUTING",
                   start_timestamp_ms |-> clock, deadline_seconds |-> d,
                   chunks |-> e, overall_progress |-> 0,
                   aggregated_result_hash |-> NoHash]
  <2>1. PlannedChunks \in ChunkTable /\ Ordered(PlannedChunks)
    BY Zenon DEF PlannedChunks, ChunkTable, ManagedChunkNode, ChunkState, Ordered
  <2>2. Ordered(e)
    BY Zenon, <2>1, EvaluateOrdered
  <2>3. jobs' = Append(jobs, j)
    BY Zenon, <1>4 DEF submit
  <2> HIDE DEF e
  <2>4. Ordered(j.chunks) /\ Whole(j)
    BY Zenon, <2>2 DEF Whole
  <2> HIDE DEF j
  <2>5. \A i \in DOMAIN jobs' : (i \in DOMAIN jobs /\ jobs'[i] = jobs[i]) \/ jobs'[i] = j
    BY <1>2, <2>3
  <2> QED BY Zenon, <1>2, <2>4, <2>5
<1>5. ASSUME NEW id, cancel(id)
      PROVE  \A i \in DOMAIN jobs' : Ordered(jobs'[i].chunks) /\ Whole(jobs'[i])
  <2> DEFINE f == First(JobSlots(id))
             j == [jobs[f] EXCEPT !.state = "CANCELLED"]
  <2>1. jobs' = [jobs EXCEPT ![f] = j] /\ f \in DOMAIN jobs
    BY Zenon, <1>2, <1>5, FirstJob DEF cancel
  <2> HIDE DEF f
  <2>2. j.state = "CANCELLED" /\ j.chunks = jobs[f].chunks
    BY Zenon, <1>2, <2>1, ClosedJob
  <2> HIDE DEF j
  <2>3. Ordered(j.chunks) /\ Whole(j)
    BY Zenon, <1>2, <2>1, <2>2 DEF Whole
  <2>4. \A i \in DOMAIN jobs' : i \in DOMAIN jobs /\ (jobs'[i] = jobs[i] \/ jobs'[i] = j)
    BY Zenon, <2>1
  <2> QED BY Zenon, <1>2, <2>3, <2>4
<1>6. CASE CheckDeadlines
  <2>1. /\ DOMAIN jobs' = DOMAIN jobs
        /\ \A i \in DOMAIN jobs :
             \/ jobs'[i] = jobs[i]
             \/ jobs'[i] = [jobs[i] EXCEPT !.state = "FAILED"]
    BY Zenon, <1>2, <1>6, CheckFacts DEF CheckDeadlines
  <2>2. ASSUME NEW i \in DOMAIN jobs
        PROVE  LET j == [jobs[i] EXCEPT !.state = "FAILED"]
               IN  Ordered(j.chunks) /\ Whole(j)
    <3> DEFINE j == [jobs[i] EXCEPT !.state = "FAILED"]
    <3>1. j.state = "FAILED" /\ j.chunks = jobs[i].chunks
      BY Zenon, <1>2, ClosedJob
    <3> HIDE DEF j
    <3>2. Ordered(j.chunks) /\ Whole(j)
      BY Zenon, <1>2, <3>1 DEF Whole
    <3> QED BY Zenon, <3>2 DEF j
  <2> QED BY ZenonT(60), <1>2, <2>1, <2>2
<1>7. ASSUME NEW id, OrderlyReport(id)
      PROVE  \A i \in DOMAIN jobs' : Ordered(jobs'[i].chunks) /\ Whole(jobs'[i])
  <2>1. PICK c \in Chunks, r \in ResultState, s \in Checksum \cup {NoChecksum} :
          /\ \A i \in JobSlots(id) : Orderly(jobs[i], c, r, s)
          /\ update_chunk_result(id, c, r, s)
    BY Zenon, <1>7 DEF OrderlyReport
  <2> DEFINE f == First(JobSlots(id))
             j == Reported(jobs[f], c, r, s)
  <2>2. f \in JobSlots(id) /\ f \in DOMAIN jobs /\ jobs' = [jobs EXCEPT ![f] = j]
    BY Zenon, <1>2, <2>1, FirstJob DEF update_chunk_result
  <2> HIDE DEF f
  <2>3. Ordered(j.chunks) /\ Whole(j)
    BY Zenon, <1>2, <2>1, <2>2, OrderlyReported
  <2> HIDE DEF j
  <2>4. \A i \in DOMAIN jobs' : i \in DOMAIN jobs /\ (jobs'[i] = jobs[i] \/ jobs'[i] = j)
    BY Zenon, <2>2
  <2> QED BY <1>2, <2>3, <2>4
<1> QED BY Zenon, <1>3, <1>4, <1>5, <1>6, <1>7 DEF OrderlyNext, Others, ReadClock,
       Advance, vars

LEMMA OrderlyInvariance == OrderlySpec => []OrderlyInv
<1>1. Init => OrderlyInv
  BY InvInit DEF OrderlyInv, Init
<1> QED BY <1>1, OrderlyInvNext, PTL DEF OrderlySpec

(* When callers report in order, repeated reports included, a chunk is     *)
(* only ever handed out after its parents completed.                       *)
THEOREM DependenciesAlwaysRespected == OrderlySpec => []DependenciesRespected
<1>1. OrderlyInv => DependenciesRespected
  BY Zenon DEF OrderlyInv, Ordered, DependenciesRespected
<1> QED BY <1>1, OrderlyInvariance, PTL

(* When callers report in order, a COMPLETED job shows the hash of what    *)
(* all its chunks reported.                                                *)
THEOREM CompletedJobsWhole == OrderlySpec => []CompletedIsWhole
<1>1. OrderlyInv => CompletedIsWhole
  BY Zenon DEF OrderlyInv, Whole, CompletedIsWhole
<1> QED BY <1>1, OrderlyInvariance, PTL

(* The same while callers may do anything: the guarantees last until the   *)
(* first report that is not orderly, and nothing else ends them.           *)
RecallInv == orderly \in BOOLEAN /\ (orderly => OrderlyInv)

LEMMA RecallInvNext ==
  ASSUME RecallInv, [RecallNext]_<<vars, orderly>>
  PROVE  RecallInv'
<1>1. CASE UNCHANGED <<vars, orderly>>
  <2>1. orderly => OrderlyInv'
    BY Zenon, <1>1, OrderlyInvNext DEF RecallInv
  <2> QED BY Zenon, <1>1, <2>1 DEF RecallInv
<1>2. CASE RecallNext
  <2>1. orderly' = (orderly /\ OrderlyNext)
    BY Zenon, <1>2 DEF RecallNext
  <2>2. orderly' \in BOOLEAN
    BY Zenon, <2>1
  <2>3. ASSUME orderly' PROVE OrderlyInv'
    <3>1. orderly /\ OrderlyNext
      BY Zenon, <2>1, <2>3
    <3> QED BY Zenon, <3>1, OrderlyInvNext DEF RecallInv
  <2> QED BY Zenon, <2>2, <2>3 DEF RecallInv
<1> QED BY Zenon, <1>1, <1>2

(* As long as every report was orderly, no chunk left PENDING before its   *)
(* parents were completed, and a COMPLETED job is whole.                   *)
THEOREM OrderlyJobsSound == RecallSpec => []OrderlyJobs
<1>1. RecallInit => RecallInv
  <2>1. Init => OrderlyInv
    BY InvInit DEF OrderlyInv, Init
  <2> QED BY Zenon, <2>1 DEF RecallInit, RecallInv
<1>2. RecallInv => OrderlyJobs
  BY Zenon DEF RecallInv, OrderlyJobs, OrderlyInv, Ordered, Whole, DependenciesRespected,
     CompletedIsWhole
<1> QED BY <1>1, <1>2, RecallInvNext, PTL DEF RecallSpec
-----------------------------------------------------------------------------
(* Executor: what a call that is at some place has reported. *)
Open == {"ACCEPTED", "STARTED", "PROGRESS"}

(* The last report is the end of the call, and the only one of an end. *)
Ended(r) == /\ reports[r] \in Seq(Open \cup Terminal) /\ reports[r] # <<>>
            /\ state[r] \in Terminal
            /\ reports[r][Len(reports[r])] = state[r]
            /\ \A i \in DOMAIN reports[r] :
                 i < Len(reports[r]) => reports[r][i] \in Open

NotRunning(r) == child[r] # "running" /\ (state[r] = "COMPLETED" => child[r] = "reaped")

RunInv(r) ==
  /\ pc[r] = "idle" => reports[r] = <<>>
  /\ pc[r] \in {"reserve", "pipe"} => reports[r] = <<"ACCEPTED">>
  /\ pc[r] = "fork" => reports[r] = <<"ACCEPTED", "STARTED">>
  /\ pc[r] \in {"idle", "reserve", "pipe", "fork"} => child[r] = "none"
  /\ pc[r] \in {"check", "read", "wait"} =>
       reports[r] \in Seq(Open) /\ reports[r] # <<>> /\ state[r] \in Open
  /\ pc[r] = "closing" =>
       reports[r] \in Seq(Open) /\ state[r] \in Terminal /\ NotRunning(r)
  /\ pc[r] = "release" => Ended(r) /\ NotRunning(r)
  /\ pc[r] = "returned" =>
       (reports[r] = <<"ACCEPTED", "STARTED">> \/ Ended(r)) /\ NotRunning(r)

(* The inductive invariant. *)
ExecutorInv ==
  /\ ExecutorTypeOK
  /\ g_reserved_cores = Total(required_cores, Holding)
  /\ g_reserved_cores <= cores_online
  /\ \A r \in Run : RunInv(r)

LEMMA HoldingFacts ==
  /\ IsFiniteSet(Run) /\ cores_online \in Nat
  /\ \A r \in Run : required_cores[r] \in Nat
  /\ Holding \in SUBSET Run /\ IsFiniteSet(Holding)
  /\ \A r \in Holding : required_cores[r] \in Nat
<1>1. /\ IsFiniteSet(Run) /\ cores_online \in Nat
      /\ \A r \in Run : required_cores[r] \in Nat
  BY Zenon, ExecutorSizes
<1>2. Holding \in SUBSET Run
  BY Zenon DEF Holding
<1>3. IsFiniteSet(Holding)
  BY Zenon, <1>1, <1>2, FS_Subset
<1> QED BY Zenon, <1>1, <1>2, <1>3

(* What the other calls are and have done is left alone. *)
OthersKept(r) ==
  \A q \in Run \ {r} : /\ pc'[q] = pc[q] /\ reports'[q] = reports[q]
                       /\ state'[q] = state[q] /\ child'[q] = child[q]

LEMMA OthersHold ==
  ASSUME NEW r \in Run, OthersKept(r)
  PROVE  \A q \in Run \ {r} : /\ q \in Holding' <=> q \in Holding
                              /\ RunInv(q) => RunInv(q)'
<1> SUFFICES ASSUME NEW q \in Run \ {r}
             PROVE  (q \in Holding' <=> q \in Holding) /\ (RunInv(q) => RunInv(q)')
  BY Zenon
<1>1. /\ pc'[q] = pc[q] /\ reports'[q] = reports[q]
      /\ state'[q] = state[q] /\ child'[q] = child[q]
  BY Zenon DEF OthersKept
<1>2. q \in Holding' <=> q \in Holding
  BY Zenon, <1>1 DEF Holding
<1>3. RunInv(q) => RunInv(q)'
  BY Zenon, <1>1 DEF RunInv, Ended, NotRunning
<1> QED BY Zenon, <1>2, <1>3

(* A step of one call: it enters or leaves Holding together with its       *)
(* reservation or its release.                                             *)
LEMMA CallStep ==
  ASSUME ExecutorInv, NEW r \in Run, ExecutorTypeOK', RunInv(r)', OthersKept(r),
         \/ (r \in Holding' <=> r \in Holding) /\ g_reserved_cores' = g_reserved_cores
         \/ r \notin Holding /\ r \in Holding' /\ reserve_local_resources(r)
         \/ r \in Holding /\ r \notin Holding' /\ release_local_resources(r)
  PROVE  ExecutorInv'
<1>0. /\ g_reserved_cores = Total(required_cores, Holding)
      /\ g_reserved_cores \in Nat /\ g_reserved_cores <= cores_online
      /\ \A q \in Run : RunInv(q)
  BY Zenon DEF ExecutorInv, ExecutorTypeOK
<1>1. \A q \in Run : RunInv(q)'
  BY Zenon, <1>0, OthersHold
<1>2. \A q \in Run \ {r} : q \in Holding' <=> q \in Holding
  BY Zenon, OthersHold
<1>3. Holding \in SUBSET Run /\ Holding' \in SUBSET Run
  BY Zenon DEF Holding
<1>4. /\ g_reserved_cores' = Total(required_cores, Holding')
      /\ g_reserved_cores' <= cores_online
  <2>1. CASE (r \in Holding' <=> r \in Holding) /\ g_reserved_cores' = g_reserved_cores
    <3>1. Holding' = Holding
      BY <1>2, <1>3, <2>1
    <3> QED BY Zenon, <1>0, <2>1, <3>1
  <2>2. CASE r \notin Holding /\ r \in Holding' /\ reserve_local_resources(r)
    <3>1. Holding' = Holding \cup {r}
      BY Zenon, <1>2, <1>3, <2>2
    <3>2. Total(required_cores, Holding \cup {r})
            = Total(required_cores, Holding) + required_cores[r]
      BY <2>2, HoldingFacts, TotalAdd
    <3> QED BY Zenon, <1>0, <2>2, <3>1, <3>2 DEF reserve_local_resources
  <2>3. CASE r \in Holding /\ r \notin Holding' /\ release_local_resources(r)
    <3>1. Holding' = Holding \ {r}
      BY Zenon, <1>2, <1>3, <2>3
    <3>2. /\ Total(required_cores, Holding)
               = Total(required_cores, Holding \ {r}) + required_cores[r]
          /\ Total(required_cores, Holding \ {r}) \in Nat
      BY Zenon, <2>3, HoldingFacts, TotalRemove
    <3>3. required_cores[r] \in Nat /\ cores_online \in Nat
      BY Zenon, HoldingFacts
    <3>4. g_reserved_cores' = g_reserved_cores - required_cores[r]
      BY <1>0, <2>3, <3>2, <3>3 DEF release_local_resources
    <3> QED BY SMTT(30), <1>0, <3>1, <3>2, <3>3, <3>4
  <2> QED BY <2>1, <2>2, <2>3
<1> QED BY Zenon, <1>1, <1>4 DEF ExecutorInv

(* One report more. *)
LEMMA OneReportMore ==
  ASSUME NEW q \in Seq(Open), NEW s \in Terminal
  PROVE  /\ Append(q, s) \in Seq(Open \cup Terminal) /\ Append(q, s) # <<>>
         /\ Append(q, s)[Len(Append(q, s))] = s
         /\ \A i \in DOMAIN Append(q, s) :
              i < Len(Append(q, s)) => Append(q, s)[i] \in Open
BY DEF Open, Terminal

LEMMA FewReports ==
  /\ <<>> \in Seq(Open) /\ <<"ACCEPTED">> \in Seq(Open)
  /\ <<"ACCEPTED", "STARTED">> \in Seq(Open)
  /\ <<"ACCEPTED", "STARTED">> # <<>>
  /\ Append(<<>>, "ACCEPTED") = <<"ACCEPTED">>
  /\ Append(<<"ACCEPTED">>, "STARTED") = <<"ACCEPTED", "STARTED">>
<1>1. <<>> \in Seq(Open) /\ <<"ACCEPTED">> \in Seq(Open)
  BY DEF Open
<1>2. <<"ACCEPTED", "STARTED">> \in Seq(Open)
  BY DEF Open
<1>3. <<"ACCEPTED", "STARTED">> # <<>>
  <2>1. Len(<<"ACCEPTED", "STARTED">>) = 2 /\ Len(<<>>) = 0
    BY Zenon
  <2> QED BY Zenon, <2>1
<1>4. Append(<<>>, "ACCEPTED") = <<"ACCEPTED">>
  OBVIOUS
<1>5. Append(<<"ACCEPTED">>, "STARTED") = <<"ACCEPTED", "STARTED">>
  BY Zenon, AppendToOne
<1> QED BY Zenon, <1>1, <1>2, <1>3, <1>4, <1>5

LEMMA Kinds ==
  /\ Open \cap Terminal = {}
  /\ {"FAILED", "CANCELLED", "COMPLETED"} = Terminal
  /\ {"ACCEPTED", "STARTED", "PROGRESS"} = Open
BY Zenon DEF Open, Terminal

(* The types after a step of call r, from what it assigns. *)
LEMMA TypeStep ==
  ASSUME ExecutorTypeOK, NEW r \in Run,
         NEW to \in Locations, pc' = [pc EXCEPT ![r] = to],
         g_reserved_cores' \in Nat,
         DOMAIN reports' = Run,
         state' = state \/ \E s \in {"ACCEPTED", "STARTED", "PROGRESS"} \cup Terminal :
                             state' = [state EXCEPT ![r] = s],
         child' = child \/ \E c \in {"running", "killed", "exit 0", "exit 1",
                                     "signalled", "reaped"} :
                             child' = [child EXCEPT ![r] = c],
         UNCHANGED <<cancel_flag, expired>>
  PROVE  ExecutorTypeOK'
<1>1. pc' \in [Run -> Locations]
  BY Zenon DEF ExecutorTypeOK
<1>2. state' \in [Run -> {"IDLE", "ACCEPTED", "STARTED", "PROGRESS"} \cup Terminal]
  BY Zenon DEF ExecutorTypeOK
<1>3. child' \in [Run -> {"none", "running", "killed", "exit 0", "exit 1",
                          "signalled", "reaped"}]
  BY Zenon DEF ExecutorTypeOK
<1>4. cancel_flag' \in [Run -> BOOLEAN] /\ expired' \in [Run -> BOOLEAN]
  BY Zenon DEF ExecutorTypeOK
<1> QED BY Zenon, <1>1, <1>2, <1>3, <1>4 DEF ExecutorTypeOK

LEMMA AcceptInv ==
  ASSUME ExecutorInv, NEW r \in Run, Accept(r)
  PROVE  ExecutorInv'
<1>0. ExecutorTypeOK /\ RunInv(r) /\ pc[r] = "idle"
  BY Zenon DEF ExecutorInv, Accept
<1>1. /\ state' = [state EXCEPT ![r] = state'[r]]
      /\ pc' = [pc EXCEPT ![r] = pc'[r]]
      /\ reports' = [reports EXCEPT ![r] = Append(reports[r], state'[r])]
      /\ \/ state'[r] = "ACCEPTED" /\ pc'[r] = "reserve"
         \/ state'[r] = "FAILED" /\ pc'[r] = "returned"
      /\ UNCHANGED <<g_reserved_cores, child, cancel_flag, expired>>
  BY Zenon, <1>0 DEF Accept, Set, Goto, cb, Environment, ExecutorTypeOK
<1>2. ExecutorTypeOK'
  <2>1. /\ pc'[r] \in Locations
        /\ state'[r] \in {"ACCEPTED", "STARTED", "PROGRESS"} \cup Terminal
    BY Zenon, <1>1 DEF Locations, Terminal
  <2>2. g_reserved_cores' \in Nat /\ DOMAIN reports' = Run
    BY Zenon, <1>0, <1>1 DEF ExecutorTypeOK
  <2> QED BY <1>0, <1>1, <2>1, <2>2, TypeStep
<1>3. OthersKept(r)
  BY Zenon, <1>0, <1>1 DEF OthersKept, ExecutorTypeOK
<1>4. reports'[r] = Append(<<>>, state'[r]) /\ child'[r] = "none"
  BY Zenon, <1>0, <1>1 DEF RunInv, ExecutorTypeOK
<1>5. RunInv(r)'
  <2>1. CASE pc'[r] = "reserve"
    BY Zenon, <1>1, <1>4, <2>1, FewReports DEF RunInv
  <2>2. CASE pc'[r] = "returned"
    <3>1. state'[r] = "FAILED" /\ "FAILED" \in Terminal
      BY Zenon, <1>1, <2>2 DEF Terminal
    <3>2. Ended(r)'
      BY <1>4, <3>1, FewReports, OneReportMore DEF Ended
    <3>3. NotRunning(r)'
      BY Zenon, <1>4, <3>1 DEF NotRunning
    <3> QED BY <2>2, <3>2, <3>3 DEF RunInv
  <2> QED BY Zenon, <1>1, <2>1, <2>2
<1>6. (r \in Holding' <=> r \in Holding) /\ g_reserved_cores' = g_reserved_cores
  BY Zenon, <1>0, <1>1 DEF Holding
<1> QED BY Zenon, <1>2, <1>3, <1>5, <1>6, CallStep

LEMMA ReserveInv ==
  ASSUME ExecutorInv, NEW r \in Run, Reserve(r)
  PROVE  ExecutorInv'
<1>0. /\ ExecutorTypeOK /\ RunInv(r) /\ pc[r] = "reserve"
      /\ child' = child /\ cancel_flag' = cancel_flag /\ expired' = expired
  BY Zenon DEF ExecutorInv, Reserve, Environment
<1>1. reports[r] = <<"ACCEPTED">> /\ child'[r] = "none"
  BY Zenon, <1>0 DEF RunInv
<1>2. CASE reserve_local_resources(r) /\ Goto(r, "pipe") /\ UNCHANGED <<state, reports>>
  <2>0. ExecutorTypeOK'
    <3>1. required_cores[r] \in Nat /\ g_reserved_cores \in Nat /\ DOMAIN reports = Run
      BY Zenon, <1>0, HoldingFacts DEF ExecutorTypeOK
    <3>2. g_reserved_cores' \in Nat /\ DOMAIN reports' = Run
      BY <1>2, <3>1 DEF reserve_local_resources
    <3> QED BY Zenon, <1>0, <1>2, <3>2, TypeStep DEF Goto, Locations
  <2>1. OthersKept(r) /\ pc'[r] = "pipe"
    BY Zenon, <1>0, <1>2 DEF ExecutorTypeOK, OthersKept, Goto
  <2>2. RunInv(r)'
    BY Zenon, <1>1, <1>2, <2>1 DEF RunInv
  <2>3. r \notin Holding /\ r \in Holding'
    BY Zenon, <1>0, <2>1 DEF Holding
  <2> QED BY Zenon, <1>2, <2>0, <2>1, <2>2, <2>3, CallStep
<1>3. CASE /\ Set(r, "FAILED") /\ cb(r) /\ Goto(r, "returned")
           /\ UNCHANGED g_reserved_cores
  <2>1. /\ ExecutorTypeOK' /\ OthersKept(r) /\ pc'[r] = "returned"
        /\ state'[r] = "FAILED" /\ reports'[r] = Append(reports[r], "FAILED")
    BY Zenon, <1>0, <1>3 DEF ExecutorTypeOK, OthersKept, Goto, Set, cb, Locations, Terminal
  <2>2. Ended(r)'
    BY <1>1, <2>1, FewReports, OneReportMore, Kinds DEF Ended
  <2>3. RunInv(r)'
    BY Zenon, <1>1, <2>1, <2>2 DEF RunInv, NotRunning
  <2>4. (r \in Holding' <=> r \in Holding) /\ g_reserved_cores' = g_reserved_cores
    BY Zenon, <1>0, <1>3, <2>1 DEF Holding
  <2> QED BY Zenon, <2>1, <2>3, <2>4, CallStep
<1> QED BY Zenon, <1>2, <1>3 DEF Reserve

LEMMA OpenPipeInv ==
  ASSUME ExecutorInv, NEW r \in Run, OpenPipe(r)
  PROVE  ExecutorInv'
<1>0. /\ ExecutorTypeOK /\ RunInv(r) /\ pc[r] = "pipe" /\ cb(r)
      /\ child' = child /\ cancel_flag' = cancel_flag /\ expired' = expired
  BY Zenon DEF ExecutorInv, OpenPipe, Environment
<1>1. reports[r] = <<"ACCEPTED">> /\ child'[r] = "none" /\ r \in Holding
  BY Zenon, <1>0 DEF RunInv, Holding
<1>2. CASE Set(r, "STARTED") /\ Goto(r, "fork") /\ UNCHANGED g_reserved_cores
  <2>1. /\ ExecutorTypeOK' /\ OthersKept(r) /\ pc'[r] = "fork"
        /\ reports'[r] = Append(reports[r], "STARTED")
    BY Zenon, <1>0, <1>2 DEF ExecutorTypeOK, OthersKept, Goto, Set, cb, Locations
  <2>2. RunInv(r)'
    BY Zenon, <1>1, <2>1, FewReports DEF RunInv
  <2>3. r \in Holding'
    BY <2>1 DEF Holding
  <2> QED BY Zenon, <1>1, <1>2, <2>1, <2>2, <2>3, CallStep
<1>3. CASE Set(r, "FAILED") /\ Goto(r, "returned") /\ release_local_resources(r)
  <2>0. ExecutorTypeOK'
    <3>1. required_cores[r] \in Nat /\ g_reserved_cores \in Nat /\ DOMAIN reports = Run
      BY Zenon, <1>0, HoldingFacts DEF ExecutorTypeOK
    <3>2. g_reserved_cores' \in Nat
      BY <1>3, <3>1 DEF release_local_resources
    <3>3. DOMAIN reports' = Run
      BY Zenon, <1>0, <3>1 DEF cb
    <3> QED BY Zenon, <1>0, <1>3, <3>2, <3>3, TypeStep DEF Goto, Set, Locations, Terminal
  <2>1. /\ OthersKept(r) /\ pc'[r] = "returned"
        /\ state'[r] = "FAILED" /\ reports'[r] = Append(reports[r], "FAILED")
    BY Zenon, <1>0, <1>3 DEF ExecutorTypeOK, OthersKept, Goto, Set, cb
  <2>2. Ended(r)'
    BY <1>1, <2>1, FewReports, OneReportMore, Kinds DEF Ended
  <2>3. RunInv(r)'
    BY Zenon, <1>1, <2>1, <2>2 DEF RunInv, NotRunning
  <2>4. r \notin Holding'
    BY Zenon, <2>1 DEF Holding
  <2> QED BY Zenon, <1>1, <1>3, <2>0, <2>1, <2>3, <2>4, CallStep
<1> QED BY Zenon, <1>2, <1>3 DEF OpenPipe

LEMMA ForkInv ==
  ASSUME ExecutorInv, NEW r \in Run, Fork(r)
  PROVE  ExecutorInv'
<1>0. /\ ExecutorTypeOK /\ RunInv(r) /\ pc[r] = "fork"
      /\ reports' = reports /\ cancel_flag' = cancel_flag /\ expired' = expired
  BY Zenon DEF ExecutorInv, Fork, Environment
<1>1. reports'[r] = <<"ACCEPTED", "STARTED">> /\ child[r] = "none" /\ r \in Holding
  BY Zenon, <1>0 DEF RunInv, Holding
<1>2. DOMAIN reports' = Run /\ g_reserved_cores \in Nat
  BY Zenon, <1>0 DEF ExecutorTypeOK
<1>3. CASE /\ child' = [child EXCEPT ![r] = "running"]
           /\ Set(r, "PROGRESS") /\ Goto(r, "check")
           /\ UNCHANGED g_reserved_cores
  <2>0. ExecutorTypeOK'
    BY Zenon, <1>0, <1>2, <1>3, TypeStep DEF Goto, Set, Locations
  <2>1. OthersKept(r) /\ pc'[r] = "check" /\ state'[r] = "PROGRESS"
    BY Zenon, <1>0, <1>3 DEF ExecutorTypeOK, OthersKept, Goto, Set
  <2>2. RunInv(r)'
    BY Zenon, <1>1, <2>1, FewReports, Kinds DEF RunInv
  <2>3. r \in Holding'
    BY Zenon, <2>1 DEF Holding
  <2> QED BY Zenon, <1>1, <1>3, <2>0, <2>1, <2>2, <2>3, CallStep
<1>4. CASE /\ Set(r, "FAILED") /\ Goto(r, "returned")
           /\ release_local_resources(r)
           /\ UNCHANGED child
  <2>0. ExecutorTypeOK'
    <3>1. /\ "returned" \in Locations /\ "FAILED" \in Terminal
          /\ g_reserved_cores' \in Nat
      BY <1>2, <1>4, ExecutorSizes DEF Locations, Terminal, release_local_resources
    <3> QED BY Zenon, <1>0, <1>2, <1>4, <3>1, TypeStep DEF Goto, Set
  <2>1. /\ OthersKept(r) /\ pc'[r] = "returned"
        /\ state'[r] = "FAILED" /\ child'[r] = "none"
    BY Zenon, <1>0, <1>1, <1>4 DEF ExecutorTypeOK, OthersKept, Goto, Set
  <2>2. RunInv(r)'
    BY Zenon, <1>1, <2>1 DEF RunInv, NotRunning
  <2>3. r \notin Holding'
    BY Zenon, <2>1 DEF Holding
  <2> QED BY SMTT(30), <1>1, <1>4, <2>0, <2>1, <2>2, <2>3, CallStep
<1> QED BY Zenon, <1>3, <1>4 DEF Fork

LEMMA CheckInv ==
  ASSUME ExecutorInv, NEW r \in Run, Check(r)
  PROVE  ExecutorInv'
<1>0. /\ ExecutorTypeOK /\ RunInv(r) /\ pc[r] = "check"
      /\ reports' = reports /\ cancel_flag' = cancel_flag /\ expired' = expired
      /\ g_reserved_cores' = g_reserved_cores
  BY Zenon DEF ExecutorInv, Check, Environment
<1>1. /\ reports'[r] \in Seq(Open) /\ reports'[r] # <<>> /\ state[r] \in Open
      /\ r \in Holding /\ DOMAIN reports' = Run /\ g_reserved_cores' \in Nat
  BY Zenon, <1>0 DEF RunInv, Holding, ExecutorTypeOK
<1>2. CASE cancel_flag[r] \/ expired[r]
  <2>1. PICK s \in {"CANCELLED", "FAILED"} : Set(r, s)
    BY Zenon, <1>2 DEF Check
  <2>2. PICK c \in {"killed", "exit 0", "exit 1", "signalled", "reaped", "none"} :
          child' = [child EXCEPT ![r] = c] /\ (c = "none" => child[r] = "none")
    BY Zenon, <1>0, <1>2 DEF Check, Kill, ExecutorTypeOK
  <2>3. child' = child \/ c # "none"
    BY Zenon, <1>0, <2>2 DEF ExecutorTypeOK
  <2>4. Goto(r, "closing")
    BY Zenon, <1>2 DEF Check
  <2>5. ExecutorTypeOK'
    BY Zenon, <1>0, <1>1, <2>1, <2>2, <2>3, <2>4, TypeStep DEF Goto, Set, Locations, Terminal
  <2>6. OthersKept(r) /\ pc'[r] = "closing" /\ state'[r] = s /\ child'[r] = c
    BY Zenon, <1>0, <2>1, <2>2, <2>4 DEF ExecutorTypeOK, OthersKept, Goto, Set
  <2>7. RunInv(r)'
    BY Zenon, <1>1, <2>6, Kinds DEF RunInv, NotRunning
  <2>8. r \in Holding'
    BY Zenon, <2>6 DEF Holding
  <2> QED BY Zenon, <1>0, <1>1, <2>5, <2>6, <2>7, <2>8, CallStep
<1>3. CASE ~(cancel_flag[r] \/ expired[r])
  <2>1. Goto(r, "read") /\ child' = child /\ state' = state
    BY Zenon, <1>3 DEF Check
  <2>2. ExecutorTypeOK'
    BY Zenon, <1>0, <1>1, <2>1, TypeStep DEF Goto, Locations
  <2>3. OthersKept(r) /\ pc'[r] = "read"
    BY Zenon, <1>0, <2>1 DEF ExecutorTypeOK, OthersKept, Goto
  <2>4. RunInv(r)' /\ r \in Holding'
    BY Zenon, <1>1, <2>1, <2>3 DEF RunInv, Holding
  <2> QED BY Zenon, <1>0, <1>1, <2>2, <2>3, <2>4, CallStep
<1> QED BY Zenon, <1>2, <1>3

LEMMA ReadInv ==
  ASSUME ExecutorInv, NEW r \in Run, Read(r)
  PROVE  ExecutorInv'
<1>0. /\ ExecutorTypeOK /\ RunInv(r) /\ pc[r] = "read" /\ Goto(r, "wait")
      /\ UNCHANGED <<g_reserved_cores, child, state, cancel_flag, expired>>
      /\ cb(r) \/ reports' = reports
  BY Zenon DEF ExecutorInv, Read, Environment
<1>1. /\ reports[r] \in Seq(Open) /\ reports[r] # <<>> /\ state[r] \in Open
      /\ r \in Holding /\ DOMAIN reports = Run /\ g_reserved_cores \in Nat
  BY Zenon, <1>0 DEF RunInv, Holding, ExecutorTypeOK
<1>2. reports'[r] \in Seq(Open) /\ reports'[r] # <<>> /\ DOMAIN reports' = Run
  <2>1. /\ Append(reports[r], state[r]) \in Seq(Open)
        /\ Append(reports[r], state[r]) # <<>>
    BY <1>1
  <2> QED BY Zenon, <1>0, <1>1, <2>1 DEF cb
<1>3. OthersKept(r) /\ pc'[r] = "wait"
  BY Zenon, <1>0, <1>1 DEF ExecutorTypeOK, OthersKept, Goto, cb
<1>4. ExecutorTypeOK'
  BY Zenon, <1>0, <1>1, <1>2, TypeStep DEF Goto, Locations
<1>5. RunInv(r)' /\ r \in Holding'
  BY Zenon, <1>0, <1>1, <1>2, <1>3 DEF RunInv, Holding
<1> QED BY Zenon, <1>0, <1>1, <1>3, <1>4, <1>5, CallStep

LEMMA WaitInv ==
  ASSUME ExecutorInv, NEW r \in Run, Wait(r)
  PROVE  ExecutorInv'
<1>0. /\ ExecutorTypeOK /\ RunInv(r) /\ pc[r] = "wait"
      /\ reports' = reports /\ cancel_flag' = cancel_flag /\ expired' = expired
      /\ g_reserved_cores' = g_reserved_cores
  BY Zenon DEF ExecutorInv, Wait, Environment
<1>1. /\ reports'[r] \in Seq(Open) /\ reports'[r] # <<>> /\ state[r] \in Open
      /\ r \in Holding /\ DOMAIN reports' = Run /\ g_reserved_cores' \in Nat
  BY Zenon, <1>0 DEF RunInv, Holding, ExecutorTypeOK
<1>2. CASE child[r] = "running"
  <2>1. Goto(r, "check") /\ child' = child /\ state' = state
    BY Zenon, <1>2 DEF Wait
  <2>2. ExecutorTypeOK'
    BY Zenon, <1>0, <1>1, <2>1, TypeStep DEF Goto, Locations
  <2>3. OthersKept(r) /\ pc'[r] = "check"
    BY Zenon, <1>0, <2>1 DEF ExecutorTypeOK, OthersKept, Goto
  <2>4. RunInv(r)' /\ r \in Holding'
    BY <1>1, <2>1, <2>3 DEF RunInv, Holding
  <2> QED BY SMTT(30), <1>0, <1>1, <2>2, <2>3, <2>4, CallStep
<1>3. CASE child[r] # "running"
  <2>1. PICK s \in {"COMPLETED", "FAILED"} : Set(r, s)
    BY Zenon, <1>3 DEF Wait
  <2>2. child' = [child EXCEPT ![r] = "reaped"] /\ Goto(r, "closing")
    BY Zenon, <1>3 DEF Wait
  <2>3. ExecutorTypeOK'
    BY Zenon, <1>0, <1>1, <2>1, <2>2, TypeStep DEF Goto, Set, Locations, Terminal
  <2>4. OthersKept(r) /\ pc'[r] = "closing" /\ state'[r] = s /\ child'[r] = "reaped"
    BY Zenon, <1>0, <2>1, <2>2 DEF ExecutorTypeOK, OthersKept, Goto, Set
  <2>5. RunInv(r)' /\ r \in Holding'
    BY Zenon, <1>1, <2>4, Kinds DEF RunInv, NotRunning, Holding
  <2> QED BY Zenon, <1>0, <1>1, <2>3, <2>4, <2>5, CallStep
<1> QED BY Zenon, <1>2, <1>3

LEMMA FinishInv ==
  ASSUME ExecutorInv, NEW r \in Run, Finish(r)
  PROVE  ExecutorInv'
<1>0. /\ ExecutorTypeOK /\ RunInv(r) /\ pc[r] = "closing" /\ Goto(r, "release") /\ cb(r)
      /\ UNCHANGED <<g_reserved_cores, child, state, cancel_flag, expired>>
  BY Zenon DEF ExecutorInv, Finish, Environment
<1>1. /\ reports[r] \in Seq(Open) /\ state[r] \in Terminal /\ NotRunning(r)
      /\ r \in Holding /\ DOMAIN reports = Run /\ g_reserved_cores \in Nat
  BY Zenon, <1>0 DEF RunInv, Holding, ExecutorTypeOK
<1>2. reports'[r] = Append(reports[r], state[r]) /\ DOMAIN reports' = Run
  BY Zenon, <1>0, <1>1 DEF cb
<1>3. OthersKept(r) /\ pc'[r] = "release"
  BY Zenon, <1>0, <1>1 DEF ExecutorTypeOK, OthersKept, Goto, cb
<1>4. ExecutorTypeOK'
  BY Zenon, <1>0, <1>1, <1>2, TypeStep DEF Goto, Locations
<1>5. Ended(r)' /\ NotRunning(r)'
  <2>1. state'[r] = state[r] /\ child'[r] = child[r]
    BY Zenon, <1>0
  <2>2. Ended(r)'
    BY Zenon, <1>1, <1>2, <2>1, OneReportMore DEF Ended
  <2> QED BY Zenon, <1>1, <2>1, <2>2 DEF NotRunning
<1>6. RunInv(r)' /\ r \in Holding'
  BY Zenon, <1>3, <1>5 DEF RunInv, Holding
<1> QED BY Zenon, <1>0, <1>1, <1>3, <1>4, <1>6, CallStep

LEMMA ReleaseCallInv ==
  ASSUME ExecutorInv, NEW r \in Run, Release(r)
  PROVE  ExecutorInv'
<1>0. /\ ExecutorTypeOK /\ RunInv(r) /\ pc[r] = "release" /\ Goto(r, "returned")
      /\ release_local_resources(r)
      /\ UNCHANGED <<reports, child, state, cancel_flag, expired>>
  BY Zenon DEF ExecutorInv, Release, Environment
<1>1. /\ required_cores[r] \in Nat /\ g_reserved_cores \in Nat /\ DOMAIN reports = Run
      /\ r \in Holding
  BY Zenon, <1>0, HoldingFacts DEF ExecutorTypeOK, Holding
<1>2. g_reserved_cores' \in Nat
  BY <1>0, <1>1 DEF release_local_resources
<1>3. OthersKept(r) /\ pc'[r] = "returned"
  BY Zenon, <1>0, <1>1 DEF ExecutorTypeOK, OthersKept, Goto
<1>4. ExecutorTypeOK'
  BY Zenon, <1>0, <1>1, <1>2, TypeStep DEF Goto, Locations
<1>5. Ended(r)' /\ NotRunning(r)'
  <2>1. Ended(r) /\ NotRunning(r)
    BY Zenon, <1>0 DEF RunInv
  <2> QED BY Zenon, <1>0, <2>1 DEF Ended, NotRunning
<1>6. RunInv(r)' /\ r \notin Holding'
  BY Zenon, <1>3, <1>5 DEF RunInv, Holding
<1> QED BY Zenon, <1>0, <1>1, <1>3, <1>4, <1>6, CallStep

(* The child ends, or a flag is set. *)
LEMMA AroundInv ==
  ASSUME ExecutorInv, NEW r \in Run, ChildExits(r) \/ Cancel(r) \/ Expire(r)
  PROVE  ExecutorInv'
<1>0. /\ ExecutorTypeOK /\ RunInv(r)
      /\ UNCHANGED <<pc, g_reserved_cores, reports, state>>
  BY Zenon DEF ExecutorInv, ChildExits, Cancel, Expire
<1>1. CASE ChildExits(r)
  <2>1. PICK how \in {"exit 0", "exit 1", "signalled"} :
          child' = [child EXCEPT ![r] = how]
    BY Zenon, <1>1 DEF ChildExits
  <2>2. child[r] = "running" /\ cancel_flag' = cancel_flag /\ expired' = expired
    BY Zenon, <1>1 DEF ChildExits, Environment
  <2>3. pc[r] \in {"check", "read", "wait"}
    BY Zenon, <1>0, <2>2 DEF RunInv, NotRunning, ExecutorTypeOK, Locations
  <2>4. pc' = [pc EXCEPT ![r] = pc[r]] /\ pc[r] \in Locations
        /\ g_reserved_cores' \in Nat /\ DOMAIN reports' = Run
    BY Zenon, <1>0 DEF ExecutorTypeOK
  <2>5. ExecutorTypeOK'
    BY Zenon, <1>0, <2>1, <2>2, <2>4, TypeStep
  <2>6. OthersKept(r)
    BY Zenon, <1>0, <2>1 DEF ExecutorTypeOK, OthersKept
  <2>7. RunInv(r)'
    BY Zenon, <1>0, <2>3 DEF RunInv
  <2>8. r \in Holding' <=> r \in Holding
    BY Zenon, <1>0 DEF Holding
  <2> QED BY Zenon, <1>0, <2>5, <2>6, <2>7, <2>8, CallStep
<1>2. CASE Cancel(r) \/ Expire(r)
  <2>1. child' = child
    BY Zenon, <1>2 DEF Cancel, Expire
  <2>2. cancel_flag' \in [Run -> BOOLEAN] /\ expired' \in [Run -> BOOLEAN]
    BY Zenon, <1>0, <1>2 DEF Cancel, Expire, ExecutorTypeOK
  <2>3. ExecutorTypeOK'
    BY Zenon, <1>0, <2>1, <2>2 DEF ExecutorTypeOK
  <2>4. OthersKept(r)
    BY Zenon, <1>0, <2>1 DEF OthersKept
  <2>5. RunInv(r)'
    BY Zenon, <1>0, <2>1 DEF RunInv, Ended, NotRunning
  <2>6. r \in Holding' <=> r \in Holding
    BY <1>0 DEF Holding
  <2> QED BY SMTT(30), <1>0, <2>3, <2>4, <2>5, <2>6, CallStep
<1> QED BY Zenon, <1>1, <1>2

LEMMA ExecutorInvInit == ExecutorInit => ExecutorInv
<1> SUFFICES ASSUME ExecutorInit PROVE ExecutorInv
  BY Zenon
<1>1. /\ \A r \in Run : pc[r] = "idle" /\ reports[r] = <<>> /\ child[r] = "none"
      /\ g_reserved_cores = 0
  BY Zenon DEF ExecutorInit
<1>2. Holding = {}
  BY Zenon, <1>1 DEF Holding
<1>3. g_reserved_cores = Total(required_cores, Holding)
  BY Zenon, <1>1, <1>2, TotalEmpty
<1>4. ExecutorTypeOK
  BY Zenon DEF ExecutorInit, ExecutorTypeOK, Locations
<1>5. \A r \in Run : RunInv(r)
  BY Zenon, <1>1 DEF RunInv
<1>6. g_reserved_cores <= cores_online
  BY <1>1, HoldingFacts
<1> QED BY Zenon, <1>3, <1>4, <1>5, <1>6 DEF ExecutorInv

LEMMA ExecutorInvNext ==
  ASSUME ExecutorInv, [ExecutorNext]_executorVars
  PROVE  ExecutorInv'
<1>1. CASE UNCHANGED executorVars
  BY ZenonT(60), <1>1 DEF executorVars, ExecutorInv, ExecutorTypeOK, Holding, RunInv, Ended,
     NotRunning
<1>2. ASSUME NEW r \in Run, Thread(r) PROVE ExecutorInv'
  BY Zenon, <1>2, AcceptInv, ReserveInv, OpenPipeInv, ForkInv, CheckInv, ReadInv, WaitInv,
     FinishInv, ReleaseCallInv DEF Thread
<1>3. ASSUME NEW r \in Run, ChildExits(r) \/ Cancel(r) \/ Expire(r) PROVE ExecutorInv'
  BY Zenon, <1>3, AroundInv
<1> QED BY Zenon, <1>1, <1>2, <1>3 DEF ExecutorNext

LEMMA ExecutorInvariance == ExecutorSpec => []ExecutorInv
BY ExecutorInvInit, ExecutorInvNext, PTL DEF ExecutorSpec

(* The shared counter is what the calls between reservation and release    *)
(* hold, and running children never need more cores than the host has, for *)
(* any number of parallel calls.                                           *)
THEOREM CoresAreAccounted == ExecutorSpec => []CoresAccounted
<1>1. ExecutorInv => CoresAccounted
  <2> SUFFICES ASSUME ExecutorInv PROVE CoresAccounted
    BY Zenon
  <2> DEFINE Running == {r \in Run : child[r] = "running"}
  <2>1. ASSUME NEW r \in Run, child[r] = "running" PROVE r \in Holding
    BY Zenon, <2>1 DEF ExecutorInv, RunInv, NotRunning, ExecutorTypeOK, Locations, Holding
  <2>2. Running \in SUBSET Holding
    BY Zenon, <2>1
  <2> HIDE DEF Running
  <2>3. Total(required_cores, Running) <= Total(required_cores, Holding)
    BY Zenon, <2>2, HoldingFacts, TotalSubset
  <2>4. Total(required_cores, Running) \in Nat
    <3>1. IsFiniteSet(Running)
      BY Zenon, <2>2, HoldingFacts, FS_Subset
    <3> QED BY <2>2, <3>1, HoldingFacts, TotalType
  <2>5. Total(required_cores, Running) <= cores_online
    <3>1. /\ Total(required_cores, Holding) <= cores_online
          /\ Total(required_cores, Holding) \in Nat /\ cores_online \in Nat
      BY Zenon, HoldingFacts DEF ExecutorInv, ExecutorTypeOK
    <3> QED BY <2>3, <2>4, <3>1
  <2> QED BY Zenon, <2>5 DEF ExecutorInv, CoresAccounted, Running
<1> QED BY <1>1, ExecutorInvariance, PTL

(* However the steps of the calls, of their children and of those who      *)
(* cancel them interleave, a call reports at most one end, and last; once  *)
(* it gave its reservation back its child does not run.                    *)
THEOREM OneEndOnly == ExecutorSpec => []OneCleanEnd
<1>1. ExecutorInv => OneCleanEnd
  <2> SUFFICES ASSUME ExecutorInv, NEW r \in Run
               PROVE  LET ends == {i \in DOMAIN reports[r] : reports[r][i] \in Terminal}
                      IN  /\ ends \subseteq {Len(reports[r])}
                          /\ pc[r] = "returned" /\ reports[r] # <<"ACCEPTED", "STARTED">> =>
                               ends # {} /\ reports[r][Len(reports[r])] = state[r]
                          /\ pc[r] \in {"release", "returned"} =>
                               /\ child[r] # "running"
                               /\ state[r] = "COMPLETED" => child[r] = "reaped"
    BY Zenon DEF OneCleanEnd
  <2> DEFINE ends == {i \in DOMAIN reports[r] : reports[r][i] \in Terminal}
  <2>1. RunInv(r) /\ pc[r] \in Locations
    BY Zenon DEF ExecutorInv, ExecutorTypeOK
  <2>2. reports[r] \in Seq(Open) \/ Ended(r)
    BY Zenon, <2>1, FewReports DEF RunInv, Locations
  <2>3. ends \subseteq {Len(reports[r])}
    <3>1. CASE reports[r] \in Seq(Open)
      BY <3>1, Kinds
    <3>2. CASE Ended(r)
      <4>1. \A i \in DOMAIN reports[r] : i \in Nat /\ i <= Len(reports[r])
        BY <3>2 DEF Ended
      <4> QED BY <3>2, <4>1, Kinds DEF Ended
    <3> QED BY <2>2, <3>1, <3>2
  <2>4. Ended(r) => ends # {} /\ reports[r][Len(reports[r])] = state[r]
    <3> SUFFICES ASSUME Ended(r)
                 PROVE  ends # {} /\ reports[r][Len(reports[r])] = state[r]
      BY Zenon
    <3>1. Len(reports[r]) \in DOMAIN reports[r]
      BY DEF Ended
    <3> QED BY Zenon, <3>1 DEF Ended
  <2>5. pc[r] \in {"release", "returned"} => NotRunning(r)
    BY Zenon, <2>1 DEF RunInv
  <2>6. pc[r] = "returned" => reports[r] = <<"ACCEPTED", "STARTED">> \/ Ended(r)
    BY Zenon, <2>1 DEF RunInv
  <2> QED BY Zenon, <2>3, <2>4, <2>5, <2>6 DEF NotRunning
<1> QED BY <1>1, ExecutorInvariance, PTL
=============================================================================
