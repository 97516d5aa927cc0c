---------------------------- MODULE MasterRecovery ----------------------------
(***************************************************************************)
(* The worker-loss recovery engine of the master (master/src/recovery.c):  *)
(* heartbeat observations, leases with a retry policy, the timeout sweep   *)
(* and the acceptance of results.  Each call runs under ctx->lock and is   *)
(* one step.  The time a sweep compares with is an argument, read by its   *)
(* caller before the lock is taken: ReadClock and Sweep are two steps and  *)
(* heartbeats may come between them.                                       *)
(***************************************************************************)
EXTENDS Tables, FiniteSets

CONSTANTS
  WorkerId, LeaseId,
  REC_MAX_WORKERS, REC_MAX_LEASES,
  TIMEOUT,      \* heartbeat_timeout_ms
  WORD,         \* 2^64 in the code: the modulus of uint64_t
  Terms,        \* how long leases are given for
  MaxTime       \* bound on the clock

ASSUME RecSizes == REC_MAX_WORKERS \in Nat /\ REC_MAX_LEASES \in Nat
ASSUME RecTimes == /\ TIMEOUT \in Nat /\ MaxTime \in Nat /\ Terms \subseteq Nat
                   /\ WORD \in Nat /\ MaxTime < WORD

VARIABLES
  workers, leases,            \* the two tables, in slot order
  summary_health,             \* what the UI is told
  active_recovery_jobs,
  clock,
  sweep_now,                  \* the time a sweep about to run was given
  committed                   \* history: results accepted per lease id

vars == <<workers, leases, summary_health, active_recovery_jobs, clock,
          sweep_now, committed>>

NoSweep == -1
MAX_RETRIES == 3

rec_worker_obs_t == [worker_id : WorkerId, last_heartbeat_ms : Nat,
                     is_healthy : BOOLEAN]
LeaseState == {"ACTIVE", "UNCERTAIN", "EXPIRED", "RECONCILED"}
rec_lease_record_t == [lease_id : LeaseId, assigned_worker_id : WorkerId,
                       lease_expires_ms : Nat, state : LeaseState,
                       retry_count : Nat, retry_policy : {"NONE", "RETRY"}]

WorkerSlots(id) == {i \in DOMAIN workers : workers[i].worker_id = id}
LeaseSlots(id) == {j \in DOMAIN leases : leases[j].lease_id = id}

Init == /\ workers = <<>> /\ leases = <<>>
        /\ summary_health = "OK" /\ active_recovery_jobs = 0
        /\ clock = 0 /\ sweep_now = NoSweep
        /\ committed = [id \in LeaseId |-> 0]

register_worker_heartbeat(id) ==
  LET known == WorkerSlots(id)
      obs == [worker_id |-> id, last_heartbeat_ms |-> clock,
              is_healthy |-> TRUE]
  IN  /\ workers' = IF known # {} THEN [workers EXCEPT ![First(known)] = obs]
                    ELSE IF Len(workers) < REC_MAX_WORKERS
                      THEN Append(workers, obs)
                    ELSE workers
      /\ UNCHANGED <<leases, summary_health, active_recovery_jobs, clock,
                     sweep_now, committed>>

inject_lease(id, worker, term, policy) ==
  /\ clock + term < MaxTime
  /\ Len(leases) < REC_MAX_LEASES
  /\ leases' = Append(leases, [lease_id |-> id, assigned_worker_id |-> worker,
                               lease_expires_ms |-> clock + term,
                               state |-> "ACTIVE", retry_count |-> 0,
                               retry_policy |-> policy])
  /\ UNCHANGED <<workers, summary_health, active_recovery_jobs, clock,
                 sweep_now, committed>>

(* now_ms - last_heartbeat_ms in uint64_t *)
Elapsed(now, last) == (now - last) % WORD

ReadClock == /\ sweep_now = NoSweep
             /\ sweep_now' = clock
             /\ UNCHANGED <<workers, leases, summary_health,
                            active_recovery_jobs, clock, committed>>

(* The workers the sweep finds newly lost. *)
Lost(now) == {i \in DOMAIN workers :
                /\ workers[i].is_healthy
                /\ Elapsed(now, workers[i].last_heartbeat_ms) > TIMEOUT}

(* Step 1: the active leases of the newly lost workers become uncertain. *)
Uncertain(now) ==
  {j \in DOMAIN leases :
     /\ leases[j].state = "ACTIVE"
     /\ \E i \in Lost(now) :
          workers[i].worker_id = leases[j].assigned_worker_id}

(* Mutants: leases already given up are settled again; expiry is not looked *)
(* at.                                                                      *)
Settled_Again(now) ==
  Uncertain(now) \cup
  {j \in DOMAIN leases : \/ leases[j].state \in {"UNCERTAIN", "EXPIRED"}
                         \/ /\ leases[j].state = "ACTIVE"
                            /\ now > leases[j].lease_expires_ms}
Settled_NoExpiry(now) ==
  Uncertain(now) \cup {j \in DOMAIN leases : leases[j].state = "UNCERTAIN"}

(* Step 2: those, and the active ones past their expiry, are settled. *)
Settled(now) ==
  Uncertain(now) \cup
  {j \in DOMAIN leases : \/ leases[j].state = "UNCERTAIN"
                         \/ /\ leases[j].state = "ACTIVE"
                            /\ now > leases[j].lease_expires_ms}

Settle(l) ==
  [l EXCEPT !.retry_count = @ + 1,
            !.state = IF /\ l.retry_policy # "NONE"
                         /\ l.retry_count + 1 <= MAX_RETRIES
                        THEN "EXPIRED" ELSE "RECONCILED"]

sweep_timeouts(now) ==
  /\ workers' = [i \in DOMAIN workers |->
                   IF i \in Lost(now)
                     THEN [workers[i] EXCEPT !.is_healthy = FALSE]
                     ELSE workers[i]]
  /\ leases' = [j \in DOMAIN leases |->
                  IF j \in Settled(now) THEN Settle(leases[j]) ELSE leases[j]]
  /\ active_recovery_jobs' =
       Saturating(active_recovery_jobs + Cardinality(Uncertain(now)),
                  Cardinality(Settled(now)))
  /\ summary_health' = IF \E i \in DOMAIN workers : ~workers'[i].is_healthy
                         THEN "WARN" ELSE "OK"
  /\ UNCHANGED <<clock, committed>>

Sweep == /\ sweep_now # NoSweep
         /\ sweep_timeouts(sweep_now)
         /\ sweep_now' = NoSweep

(* Mutant: the state of the lease is not looked at. *)
process_incoming_result_AnyState(id, worker) ==
  /\ LeaseSlots(id) # {}
  /\ LET j == First(LeaseSlots(id))
     IN  /\ leases[j].assigned_worker_id = worker
         /\ leases' = [leases EXCEPT ![j].state = "RECONCILED"]
  /\ committed' = [committed EXCEPT ![id] = @ + 1]
  /\ UNCHANGED <<workers, summary_health, active_recovery_jobs, clock,
                 sweep_now>>

(* A result that is accepted; every other result changes nothing. *)
process_incoming_result(id, worker) ==
  /\ LeaseSlots(id) # {}
  /\ LET j == First(LeaseSlots(id))
     IN  /\ leases[j].state \notin {"EXPIRED", "RECONCILED"}
         /\ leases[j].assigned_worker_id = worker
         /\ leases' = [leases EXCEPT ![j].state = "RECONCILED"]
  /\ committed' = [committed EXCEPT ![id] = @ + 1]
  /\ UNCHANGED <<workers, summary_health, active_recovery_jobs, clock,
                 sweep_now>>

Advance == /\ clock < MaxTime
           /\ clock' = clock + 1
           /\ UNCHANGED <<workers, leases, summary_health,
                          active_recovery_jobs, sweep_now, committed>>

Next == \/ \E id \in WorkerId : register_worker_heartbeat(id)
        \/ \E id \in LeaseId, w \in WorkerId, t \in Terms, p \in {"NONE", "RETRY"} :
             inject_lease(id, w, t, p)
        \/ ReadClock
        \/ Sweep
        \/ \E id \in LeaseId, w \in WorkerId : process_incoming_result(id, w)
        \/ Advance

Spec == Init /\ [][Next]_vars

(* The master keeps sweeping and time goes on. *)
FairSpec == Spec /\ WF_vars(ReadClock) /\ WF_vars(Sweep) /\ WF_vars(Advance)

-----------------------------------------------------------------------------
(* Type invariant. *)
TypeOK == /\ workers \in Seq(rec_worker_obs_t)
          /\ Len(workers) <= REC_MAX_WORKERS
          /\ leases \in Seq(rec_lease_record_t)
          /\ Len(leases) <= REC_MAX_LEASES
          /\ summary_health \in {"OK", "WARN"}
          /\ active_recovery_jobs \in Nat
          /\ clock \in 0..MaxTime
          /\ sweep_now \in {NoSweep} \cup 0..MaxTime
          /\ committed \in [LeaseId -> Nat]

(* Safety: process_incoming_result accepts at most one result per lease    *)
(* id, however often and from whomever it is delivered, and none once a    *)
(* sweep has given the lease up for replacement.                           *)
AtMostOneCommit ==
  \A id \in LeaseId :
    /\ committed[id] <= 1
    /\ committed[id] = 1 =>
         /\ LeaseSlots(id) # {}
         /\ leases[First(LeaseSlots(id))].state = "RECONCILED"

(* Safety: when the UI is told OK, no worker is known to be lost; only a   *)
(* sweep marks workers lost and it publishes in the same call.             *)
OkMeansNoneLost ==
  summary_health = "OK" => \A i \in DOMAIN workers : workers[i].is_healthy

(* Safety: a sweep finishes what it starts: no lease stays UNCERTAIN and   *)
(* every recovery job it opened is closed.                                 *)
NothingUndecided ==
  /\ \A j \in DOMAIN leases : leases[j].state # "UNCERTAIN"
  /\ active_recovery_jobs = 0

(* Action property: a lease given up for replacement or reconciled never   *)
(* changes again, and no slot is taken over by another lease.              *)
LeaseKept(j) ==
  /\ j \in DOMAIN leases'
  /\ leases'[j].lease_id = leases[j].lease_id
  /\ leases[j].state \in {"EXPIRED", "RECONCILED"} => leases'[j] = leases[j]
GivenUpForGood == [][\A j \in DOMAIN leases : LeaseKept(j)]_vars

(* Liveness: no lease stays active for ever; a result, the loss of its     *)
(* worker or its expiry settles it.                                        *)
EveryLeaseSettled ==
  \A j \in 1..REC_MAX_LEASES :
    (j \in DOMAIN leases) ~>
      (j \in DOMAIN leases /\ leases[j].state \in {"EXPIRED", "RECONCILED"})
=============================================================================
