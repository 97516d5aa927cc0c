---------------------------- MODULE MCScheduler ----------------------------
(* Small instances of Scheduler. *)
EXTENDS Scheduler

MCNodeNum == [w \in WorkerId |-> IF w = "w1" THEN 1 ELSE IF w = "w2" THEN 2 ELSE 3]

View(id, cpu, mem, rel, healthy) ==
  [worker_id |-> id, platform |-> "linux", runtime |-> "native",
   cpu_units |-> cpu, reserv_cpu |-> 0,
   free_memory_mb |-> mem, reserv_mem_mb |-> 0,
   battery_pct |-> -1, active_chunks |-> 0,
   has_touch_input |-> FALSE, draining |-> FALSE, healthy |-> healthy,
   reliability_score |-> rel]

PlanOf(id, cpu, mem, pref, blocked) ==
  [chunk_id |-> id, required_platform |-> "linux",
   required_runtime |-> "native", required_cpu |-> cpu,
   required_memory_mb |-> mem, requires_touch |-> FALSE,
   is_blocked |-> blocked, preferred_node |-> pref]

(* A worker of two units that may be registered again as unhealthy, and    *)
(* one of one unit.                                                        *)
ApiViews == {View("w1", 2, 2, 9, TRUE), View("w1", 2, 2, 9, FALSE),
             View("w2", 1, 2, 9, TRUE)}
(* Three chunks for two slots; the first may be resubmitted as blocked or  *)
(* with another demand.                                                    *)
ApiPlans == {PlanOf(1, 1, 1, 2, FALSE), PlanOf(1, 1, 1, 2, TRUE),
             PlanOf(2, 2, 1, 1, FALSE), PlanOf(3, 1, 2, 1, FALSE)}

(* Two workers for one slot, and two chunks, for the liveness run. *)
FairViews == {View("w1", 2, 2, 9, TRUE), View("w1", 2, 2, 9, FALSE),
              View("w2", 1, 2, 9, TRUE)}
FairPlans == {PlanOf(1, 1, 1, 2, FALSE), PlanOf(1, 1, 1, 2, TRUE),
              PlanOf(2, 2, 1, 1, FALSE)}

VARIABLE stable   \* whether every call so far was that of a stable caller

(* Calls of any kind, with the memory of whether one of them registered a  *)
(* worker again or resubmitted a chunk still in the table.                 *)
RecallInit == Init /\ stable = TRUE
RecallNext == Next /\ stable' = (stable /\ StableNext)
RecallSpec == RecallInit /\ [][RecallNext]_<<vars, stable>>
FairSpec == RecallSpec /\ FairTicks

(* As long as callers are stable: reserv_cpu, reserv_mem_mb and            *)
(* active_chunks of a worker are exactly what its active leases add up to  *)
(* (reserve in the tick, give back on expiry and in release_lease), and    *)
(* the chunks leased to a worker fit on it together.                       *)
ReservationsExact ==
  stable =>
    \A i \in DOMAIN g_workers :
      LET w == g_workers[i]
          held == LeasedTo(w)
          cpu == Total([l \in held |-> Plan(l).required_cpu], held)
          memory == Total([l \in held |-> Plan(l).required_memory_mb], held)
      IN  /\ w.reserv_cpu = cpu /\ cpu <= w.cpu_units
          /\ w.reserv_mem_mb = memory /\ memory <= w.free_memory_mb
          /\ w.active_chunks = Cardinality(held)
=============================================================================
