------------------------------- MODULE Workload -------------------------------
(***************************************************************************)
(* The workload lifecycle engine of the master (master/src/workload.c):    *)
(* jobs of three chained chunks, results that move chunks and jobs, the    *)
(* deadline check and cancellation.  Every call runs under ctx->lock and   *)
(* is one step; the time a deadline check compares with is read by its     *)
(* caller before the lock is taken (ReadClock), so a job may be submitted  *)
(* in between.  Slots are never freed.                                     *)
(***************************************************************************)
EXTENDS Tables, FiniteSets

CONSTANTS
  MAX_ACTIVE_WORKLOADS,
  Checksum,     \* what workers report about their output
  Deadlines,    \* deadline_seconds users ask for
  SECOND,       \* clock units in a second: 1000 in the code
  WORD,         \* 2^64 in the code: the modulus of uint64_t
  MaxTime       \* bound on the clock

ASSUME WorkloadSizes == MAX_ACTIVE_WORKLOADS \in Nat
ASSUME WorkloadTimes == /\ SECOND \in Nat \ {0} /\ MaxTime \in Nat
                        /\ WORD \in Nat \ {0} /\ MaxTime < WORD
                        /\ Deadlines \subseteq Nat

VARIABLES
  jobs,               \* ctx->jobs, in slot order
  next_workload_id,
  clock,
  check_now           \* the time a deadline check about to run was given

vars == <<jobs, next_workload_id, clock, check_now>>

NoCheck == -1
NoChecksum == ""      \* output_checksum of a chunk that reported none
NoHash == <<>>        \* aggregated_result_hash before the first completion

(* The plan of mock_invoke_chunk_planner: a chain of three chunks. *)
Chunks == 0..2
Edges == {<<0, 1>>, <<1, 2>>}
Parents(c) == {p \in Chunks : <<p, c>> \in Edges}

ChunkState == {"PENDING", "READY", "RUNNING", "COMPLETED", "FAILED"}
WorkloadState == {"EXECUTING", "COMPLETED", "FAILED", "CANCELLED"}
ManagedChunkNode == [state : ChunkState, output_checksum : Checksum \cup {NoChecksum}]
Hash == [Chunks -> Checksum \cup {NoChecksum}]
ActiveWorkloadLifecycle ==
  [workload_id : Nat, state : WorkloadState, start_timestamp_ms : Nat,
   deadline_seconds : Nat, chunks : [Chunks -> ManagedChunkNode],
   overall_progress : Nat, aggregated_result_hash : Hash \cup {NoHash}]

JobSlots(id) == {i \in DOMAIN jobs : jobs[i].workload_id = id}
In(chunks, state) == {c \in Chunks : chunks[c].state = state}

Init == /\ jobs = <<>> /\ next_workload_id = 1001
        /\ clock = 0 /\ check_now = NoCheck

-----------------------------------------------------------------------------
(* Mutant: parents that started are enough. *)
evaluate_ready_chunks_Started(chunks) ==
  [c \in Chunks |->
     IF /\ chunks[c].state = "PENDING"
        /\ \A p \in Parents(c) : chunks[p].state \in {"RUNNING", "COMPLETED"}
       THEN [chunks[c] EXCEPT !.state = "READY"]
       ELSE chunks[c]]

(* Pending chunks whose parents are all completed become ready.  The loop  *)
(* only tests for COMPLETED, which it never sets: its order is irrelevant. *)
evaluate_ready_chunks(chunks) ==
  [c \in Chunks |->
     IF /\ chunks[c].state = "PENDING"
        /\ \A p \in Parents(c) : chunks[p].state = "COMPLETED"
       THEN [chunks[c] EXCEPT !.state = "READY"]
       ELSE chunks[c]]

(* The hash is a function of the checksums in chunk order. *)
HashOf(chunks) == [c \in Chunks |-> chunks[c].output_checksum]

(* Mutants: a failure counts only when all chunks ended; the hash is made   *)
(* once.                                                                    *)
recalculate_job_progress_LateFailure(job) ==
  LET completed == Cardinality(In(job.chunks, "COMPLETED"))
      failed == Cardinality(In(job.chunks, "FAILED"))
      done == completed = Cardinality(Chunks)
  IN  [job EXCEPT !.overall_progress = completed,
                  !.state = IF failed > 0 /\ completed + failed = Cardinality(Chunks)
                              THEN "FAILED"
                            ELSE IF done THEN "COMPLETED" ELSE @,
                  !.aggregated_result_hash = IF done THEN HashOf(job.chunks) ELSE @]
recalculate_job_progress_HashOnce(job) ==
  LET completed == Cardinality(In(job.chunks, "COMPLETED"))
      failed == Cardinality(In(job.chunks, "FAILED"))
      done == failed = 0 /\ completed = Cardinality(Chunks)
  IN  [job EXCEPT !.overall_progress = completed,
                  !.state = IF failed > 0 THEN "FAILED"
                            ELSE IF done THEN "COMPLETED" ELSE @,
                  !.aggregated_result_hash =
                     IF done /\ @ = NoHash THEN HashOf(job.chunks) ELSE @]

recalculate_job_progress(job) ==
  LET completed == Cardinality(In(job.chunks, "COMPLETED"))
      failed == Cardinality(In(job.chunks, "FAILED"))
      done == failed = 0 /\ completed = Cardinality(Chunks)
  IN  [job EXCEPT !.overall_progress = completed,
                  !.state = IF failed > 0 THEN "FAILED"
                            ELSE IF done THEN "COMPLETED" ELSE @,
                  !.aggregated_result_hash = IF done THEN HashOf(job.chunks) ELSE @]

PlannedChunks ==
  [c \in Chunks |-> [state |-> "PENDING", output_checksum |-> NoChecksum]]

(* A submission that is accepted: the workload is splittable and a slot is *)
(* left.  Every other submission changes nothing.                          *)
submit(deadline) ==
  /\ Len(jobs) < MAX_ACTIVE_WORKLOADS
  /\ jobs' = Append(jobs, [workload_id |-> next_workload_id,
                           state |-> "EXECUTING",
                           start_timestamp_ms |-> clock,
                           deadline_seconds |-> deadline,
                           chunks |-> evaluate_ready_chunks(PlannedChunks),
                           overall_progress |-> 0,
                           aggregated_result_hash |-> NoHash])
  /\ next_workload_id' = next_workload_id + 1
  /\ UNCHANGED <<clock, check_now>>

cancel(id) ==
  /\ JobSlots(id) # {}
  /\ jobs' = [jobs EXCEPT ![First(JobSlots(id))].state = "CANCELLED"]
  /\ UNCHANGED <<next_workload_id, clock, check_now>>

(* Mutant: no chunk is released. *)
Reported_NoRelease(job, c, result, checksum) ==
  LET chunk == [state |-> result,
                output_checksum |-> IF checksum = NoChecksum
                                      THEN job.chunks[c].output_checksum
                                      ELSE checksum]
  IN  recalculate_job_progress([job EXCEPT !.chunks[c] = chunk])

(* checksum = NoChecksum stands for a null pointer: the old one stays. *)
Reported(job, c, result, checksum) ==
  LET chunk == [state |-> result,
                output_checksum |-> IF checksum = NoChecksum
                                      THEN job.chunks[c].output_checksum
                                      ELSE checksum]
  IN  recalculate_job_progress(
        [job EXCEPT !.chunks = evaluate_ready_chunks([@ EXCEPT ![c] = chunk])])

(* Mutant: the search for the chunk stops one short. *)
update_chunk_result_OneShort(id, c, result, checksum) ==
  /\ JobSlots(id) # {} /\ c + 1 \in Chunks
  /\ jobs' = [jobs EXCEPT ![First(JobSlots(id))] =
                            Reported(@, c, result, checksum)]
  /\ UNCHANGED <<next_workload_id, clock, check_now>>

update_chunk_result(id, c, result, checksum) ==
  /\ JobSlots(id) # {}
  /\ jobs' = [jobs EXCEPT ![First(JobSlots(id))] =
                            Reported(@, c, result, checksum)]
  /\ UNCHANGED <<next_workload_id, clock, check_now>>

ReadClock == /\ check_now = NoCheck
             /\ check_now' = clock
             /\ UNCHANGED <<jobs, next_workload_id, clock>>

elapsed_seconds(now, job) ==
  ((now - job.start_timestamp_ms) % WORD) \div SECOND

(* Mutant: the deadline itself is not late. *)
check_deadlines_Later(now) ==
  jobs' = [i \in DOMAIN jobs |->
             IF /\ jobs[i].state = "EXECUTING"
                /\ elapsed_seconds(now, jobs[i]) > jobs[i].deadline_seconds
               THEN [jobs[i] EXCEPT !.state = "FAILED"]
               ELSE jobs[i]]

check_deadlines(now) ==
  jobs' = [i \in DOMAIN jobs |->
             IF /\ jobs[i].state = "EXECUTING"
                /\ elapsed_seconds(now, jobs[i]) >= jobs[i].deadline_seconds
               THEN [jobs[i] EXCEPT !.state = "FAILED"]
               ELSE jobs[i]]

CheckDeadlines == /\ check_now # NoCheck
                  /\ check_deadlines(check_now)
                  /\ check_now' = NoCheck
                  /\ UNCHANGED <<next_workload_id, clock>>

Advance == /\ clock < MaxTime
           /\ clock' = clock + 1
           /\ UNCHANGED <<jobs, next_workload_id, check_now>>

-----------------------------------------------------------------------------
JobIds == {jobs[i].workload_id : i \in DOMAIN jobs}
ResultState == {"RUNNING", "COMPLETED", "FAILED"}

(* What callers may report without breaking their side of the protocol: a  *)
(* ready chunk starts, a running chunk ends, and the report of an end may  *)
(* be delivered again.                                                     *)
Orderly(job, c, result, checksum) ==
  LET chunk == job.chunks[c]
  IN  \/ result = "RUNNING" /\ chunk.state = "READY" /\ checksum = NoChecksum
      \/ result # "RUNNING" /\ chunk.state = "RUNNING"
      \/ result # "RUNNING" /\ chunk.state = result
           /\ checksum = chunk.output_checksum

Report(id) == \E c \in Chunks, r \in ResultState, s \in Checksum \cup {NoChecksum} :
                update_chunk_result(id, c, r, s)
OrderlyReport(id) ==
  \E c \in Chunks, r \in ResultState, s \in Checksum \cup {NoChecksum} :
    /\ \A i \in JobSlots(id) : Orderly(jobs[i], c, r, s)
    /\ update_chunk_result(id, c, r, s)

Others == \/ \E d \in Deadlines : submit(d)
          \/ \E id \in JobIds : cancel(id)
          \/ ReadClock
          \/ CheckDeadlines
          \/ Advance

Next == Others \/ \E id \in JobIds : Report(id)
OrderlyNext == Others \/ \E id \in JobIds : OrderlyReport(id)

Spec == Init /\ [][Next]_vars
OrderlySpec == Init /\ [][OrderlyNext]_vars

(* Workers keep starting and ending chunks, deadlines keep being checked   *)
(* and time goes on.                                                       *)
Moves(i) == /\ i \in DOMAIN jobs
            /\ \E c \in Chunks, r \in ResultState, s \in Checksum \cup {NoChecksum} :
                 /\ jobs[i].chunks[c].state # r /\ Orderly(jobs[i], c, r, s)
                 /\ update_chunk_result(jobs[i].workload_id, c, r, s)
Fairness == /\ \A i \in 1..MAX_ACTIVE_WORKLOADS : WF_vars(Moves(i))
            /\ WF_vars(ReadClock) /\ WF_vars(CheckDeadlines) /\ WF_vars(Advance)

-----------------------------------------------------------------------------
(* Type invariant. *)
TypeOK == /\ jobs \in Seq(ActiveWorkloadLifecycle)
          /\ Len(jobs) <= MAX_ACTIVE_WORKLOADS
          /\ next_workload_id \in Nat
          /\ clock \in 0..MaxTime
          /\ check_now \in {NoCheck} \cup 0..MaxTime

(* Safety, whatever is reported in whatever order: an executing job has    *)
(* still something to do and nothing that failed, so update_chunk_result   *)
(* never leaves a finished or a failed job open.                           *)
OpenJobHasWork ==
  \A i \in DOMAIN jobs :
    jobs[i].state = "EXECUTING" =>
      /\ In(jobs[i].chunks, "FAILED") = {}
      /\ In(jobs[i].chunks, "COMPLETED") # Chunks

(* Safety, whatever is reported: no chunk waits for parents that are all   *)
(* completed; evaluate_ready_chunks runs after every change.               *)
FrontierReleased ==
  \A i \in DOMAIN jobs, c \in Chunks :
    jobs[i].chunks[c].state = "PENDING" =>
      \E p \in Parents(c) : jobs[i].chunks[p].state # "COMPLETED"

(* Safety, whatever is reported: the progress shown to the UI is the       *)
(* number of completed chunks.                                             *)
ProgressExact ==
  \A i \in DOMAIN jobs :
    jobs[i].overall_progress = Cardinality(In(jobs[i].chunks, "COMPLETED"))

(* Action property, whatever is reported: a job that stopped executing     *)
(* never executes again, and a job becomes COMPLETED only with every chunk *)
(* completed and the hash of exactly these outputs.                        *)
JobKept(i) ==
  /\ i \in DOMAIN jobs'
  /\ jobs'[i].workload_id = jobs[i].workload_id
  /\ jobs[i].state # "EXECUTING" => jobs'[i].state # "EXECUTING"
  /\ jobs[i].state # "COMPLETED" /\ jobs'[i].state = "COMPLETED" =>
       /\ In(jobs'[i].chunks, "COMPLETED") = Chunks
       /\ jobs'[i].aggregated_result_hash = HashOf(jobs'[i].chunks)
CompletionEarned == [][\A i \in DOMAIN jobs : JobKept(i)]_vars

(* Safety, orderly reports, repeated ones included: only chunks whose      *)
(* parents are completed are handed out (workload.c:11, "Enqueue only      *)
(* dependency-ready chunks") and they stay completed.                      *)
DependenciesRespected ==
  \A i \in DOMAIN jobs, c \in Chunks :
    jobs[i].chunks[c].state # "PENDING" =>
      \A p \in Parents(c) : jobs[i].chunks[p].state = "COMPLETED"

(* Safety, orderly reports: what a COMPLETED job shows is the hash of what *)
(* its chunks reported, all of them completed.                             *)
CompletedIsWhole ==
  \A i \in DOMAIN jobs :
    jobs[i].state = "COMPLETED" =>
      /\ In(jobs[i].chunks, "COMPLETED") = Chunks
      /\ jobs[i].aggregated_result_hash = HashOf(jobs[i].chunks)
=============================================================================
