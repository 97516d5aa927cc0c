---------------------------- MODULE WorkerServices ---------------------------
(***************************************************************************)
(* Of a worker (src/worker): its lifecycle, its discovery of the master    *)
(* and its resource monitor.  They share no state, so a step of these      *)
(* services is a step of one of them.                                      *)
(***************************************************************************)
EXTENDS Integers

CONSTANTS
  MaxTasks,
  Endpoint, Discovered, Nothing,
  Caller, MAX_SAMPLES, PROBE_COOLDOWN, STALE_THRESHOLD, Cores, FreeRam,
  Reservations, WORD, Start, MaxTime

VARIABLES
  current_state, active_tasks_count, draining,
  cached_endpoint, fallback_endpoint, status, change_cb, m_dns_enabled, told,
  clock, now, history, head_idx, sample_count, reserved, last_heavy_probe,
  newest, answer

lifecycle == <<current_state, active_tasks_count, draining>>
discovery == <<cached_endpoint, fallback_endpoint, status, change_cb,
               m_dns_enabled, told>>
monitor == <<clock, now, history, head_idx, sample_count, reserved,
             last_heavy_probe, newest, answer>>
services == <<lifecycle, discovery, monitor>>

(* Counts, sizes and times are naturals.  Times are subtracted modulo      *)
(* WORD, which is out of the clock's reach.                                *)
ASSUME MonitorSizes ==
  /\ MAX_SAMPLES \in Nat \ {0} /\ Cores \in Nat /\ FreeRam \in Nat
  /\ PROBE_COOLDOWN \in Nat /\ STALE_THRESHOLD \in Nat
  /\ MaxTime \in Nat /\ Start \in 0..MaxTime
  /\ WORD \in Nat /\ WORD > MaxTime + STALE_THRESHOLD
  /\ \A r \in Reservations : r.cpu \in Nat /\ r.memory \in Nat
ASSUME TaskBound == MaxTasks \in Nat

Lifecycle == INSTANCE WorkerState
Find == INSTANCE Discovery
Monitor == INSTANCE ResourceMonitor

LifecycleStep == Lifecycle!Next /\ UNCHANGED <<discovery, monitor>>
DiscoveryStep == Find!Next /\ UNCHANGED <<lifecycle, monitor>>
MonitorStep == Monitor!Next /\ UNCHANGED <<lifecycle, discovery>>

ServicesInit == Lifecycle!Init /\ Find!Init /\ Monitor!Init
ServicesNext == LifecycleStep \/ DiscoveryStep \/ MonitorStep
ServicesSpec == ServicesInit /\ [][ServicesNext]_services
-----------------------------------------------------------------------------
(* Safety, update_tasks, START_DRAIN and vom_worker_discovery_start: a     *)
(* worker is RUNNING only with tasks in hand, a drain lasts until it is    *)
(* called off, the connection is lost or the worker shuts down; and all    *)
(* who ask for the master's endpoint get the same one.                     *)
WorkerStateSound == Lifecycle!StateFitsTasks /\ Find!OneEndpointForAll

(* Safety, vom_monitor_get_latest_availability: an answer is made of the   *)
(* sample recorded last, FRESH figures were measured recently, and none    *)
(* offers more than is left.                                               *)
AnswersSound == Monitor!AnswersSound
=============================================================================
