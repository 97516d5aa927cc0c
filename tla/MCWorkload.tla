---------------------------- MODULE MCWorkload ----------------------------
(* Small instances of Workload, with the memory of whether every report so *)
(* far was orderly.                                                        *)
EXTENDS Workload

VARIABLE orderly

RecallInit == Init /\ orderly = TRUE
RecallNext == Next /\ orderly' = (orderly /\ OrderlyNext)
RecallSpec == RecallInit /\ [][RecallNext]_<<vars, orderly>>
FairSpec == RecallSpec /\ Fairness

(* Safety, as long as reports are orderly: no chunk leaves PENDING before  *)
(* its parents are completed, and what a COMPLETED job shows is the hash   *)
(* of its completed chunks (evaluate_ready_chunks,                         *)
(* recalculate_job_progress).                                              *)
OrderlyJobs == orderly => DependenciesRespected /\ CompletedIsWhole

(* Liveness, whatever is reported: a job whose deadline passes is over,    *)
(* since check_deadlines is called again and again.                        *)
DeadlineEnforced ==
  \A i \in 1..MAX_ACTIVE_WORKLOADS :
    /\ i \in DOMAIN jobs
    /\ jobs[i].start_timestamp_ms + jobs[i].deadline_seconds * SECOND <= MaxTime
    ~> i \in DOMAIN jobs /\ jobs[i].state # "EXECUTING"

(* Liveness: as long as reports are orderly the chain never gets stuck:    *)
(* all chunks complete or one fails.                                       *)
ChunksDrain ==
  \A i \in 1..MAX_ACTIVE_WORKLOADS :
    i \in DOMAIN jobs ~>
      \/ ~orderly
      \/ i \in DOMAIN jobs /\ \/ In(jobs[i].chunks, "COMPLETED") = Chunks
                              \/ In(jobs[i].chunks, "FAILED") # {}
=============================================================================
