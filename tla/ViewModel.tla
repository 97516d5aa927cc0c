------------------------------ MODULE ViewModel ------------------------------
(***************************************************************************)
(* The view of the cluster that the user interfaces draw                   *)
(* (ui_model_transform_snapshot in ui/src/model.c).  Whoever draws reads   *)
(* the clock before or after it gets the snapshot, so that a heartbeat in  *)
(* it may be later than the time of the drawing.  Memory and cores are     *)
(* shown alike and stand as one resource; percentages are rounded down.    *)
(***************************************************************************)
EXTENDS Integers, Sequences

CONSTANTS UI_MAX_NODES, UI_MAX_ACTIVE_LEASES, UI_MAX_ACTIVE_TASKS,
          Snapshots, Times,     \* what is drawn, and when
          WORD                  \* the modulus of uint64_t

VARIABLES snapshot, now, out_model
vars == <<snapshot, now, out_model>>

NodeHealth ==
  [ONLINE |-> "OK", SUSPECT |-> "WARN", OFFLINE |-> "CRIT", DRAINING |-> "WARN"]
SummaryHealth ==
  [BOOTSTRAP |-> "WARN", OPERATIONAL |-> "OK", DEGRADED |-> "WARN",
   MAINTENANCE |-> "UNKNOWN", PANIC |-> "CRIT"]
StatusText ==
  [IDLE |-> "QUEUED", ASSIGNED |-> "DISPATCHED", EXECUTING |-> "RUNNING",
   COMMITTED |-> "FINISHED", TIMED_OUT |-> "TIMEOUT", FAILED |-> "FAILED"]

Percent(reserved, total) == IF total > 0 THEN (100 * reserved) \div total ELSE 0
AtMost(n, limit) == IF n < limit THEN n ELSE limit

Age(t, seen) == IF t >= seen THEN (t - seen) % WORD ELSE 0

UiNodeRecord(src, t) ==
  [node_id |-> src.worker_id, health |-> NodeHealth[src.health],
   is_draining |-> src.health = "DRAINING",
   ms_since_last_heartbeat |-> Age(t, src.last_heartbeat_monotonic_ms),
   utilization_pct |-> Percent(src.reserved, src.total)]
UiTaskRecord(src) ==
  [chunk_id |-> src.chunk_id, assigned_node_id |-> src.assigned_worker_id,
   status_text |-> StatusText[src.status],
   requires_attention |-> src.failure_retry_count >= 3]

ui_model_transform_snapshot(s, t) ==
  [summary_health |-> SummaryHealth[s.global_status],
   nodes |-> [i \in 1..AtMost(Len(s.active_workers), UI_MAX_NODES) |->
                UiNodeRecord(s.active_workers[i], t)],
   tasks |-> [i \in 1..AtMost(AtMost(Len(s.active_leases), UI_MAX_ACTIVE_LEASES),
                              UI_MAX_ACTIVE_TASKS) |->
                UiTaskRecord(s.active_leases[i])]]

Draw(s, t) == /\ snapshot' = s /\ now' = t
              /\ out_model' = ui_model_transform_snapshot(s, t)

Empty == [global_status |-> "BOOTSTRAP", active_workers |-> <<>>, active_leases |-> <<>>]
Init == /\ snapshot = Empty /\ now = 0
        /\ out_model = ui_model_transform_snapshot(Empty, 0)
Next == \E s \in Snapshots, t \in Times : Draw(s, t)

(* Safety, ui_model_transform_snapshot: no worker or lease of the snapshot *)
(* is left out or shown twice; a heartbeat later than the drawing does not *)
(* make its worker look ages old; the load of a worker, one without        *)
(* capacity included, is a percentage; only an ONLINE worker is shown as   *)
(* OK; and a lease on its third retry stands out.                          *)
ViewSound ==
  LET ws == snapshot.active_workers  ls == snapshot.active_leases
      nodes == out_model.nodes       tasks == out_model.tasks
  IN  /\ DOMAIN nodes = DOMAIN ws /\ DOMAIN tasks = DOMAIN ls
      /\ \A i \in DOMAIN nodes :
           /\ nodes[i].node_id = ws[i].worker_id
           /\ nodes[i].ms_since_last_heartbeat <= now
           /\ nodes[i].utilization_pct \in 0..100
           /\ nodes[i].health = "OK" <=> ws[i].health = "ONLINE"
      /\ \A i \in DOMAIN tasks :
           /\ tasks[i].chunk_id = ls[i].chunk_id
           /\ tasks[i].requires_attention <=> ls[i].failure_retry_count > 2
=============================================================================
