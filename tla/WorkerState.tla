----------------------------- MODULE WorkerState -----------------------------
(***************************************************************************)
(* The worker's lifecycle (worker/src/worker_state.c): its state, moved by *)
(* events and by the number of tasks, each call under the lock.            *)
(***************************************************************************)
EXTENDS Integers

CONSTANT MaxTasks        \* bound: tasks at a time

VARIABLES
  current_state, active_tasks_count,
  draining               \* history: START_DRAIN accepted, and no STOP_DRAIN or
                         \* loss of the connection since

vars == <<current_state, active_tasks_count, draining>>

States == {"OFFLINE", "CONNECTED", "REGISTERED", "RUNNING", "DRAINING", "SHUTDOWN"}
Events == {"CONNECT", "REGISTER_SUCCESS", "START_DRAIN", "STOP_DRAIN",
           "DISCONNECT", "TERMINATE"}

(* The events that are allowed, and where they lead. *)
Allowed(from, event, to) ==
  \/ event = "CONNECT" /\ from = "OFFLINE" /\ to = "CONNECTED"
  \/ event = "REGISTER_SUCCESS" /\ from = "CONNECTED" /\ to = "REGISTERED"
  \/ event = "START_DRAIN" /\ from \in {"REGISTERED", "RUNNING"} /\ to = "DRAINING"
  \/ event = "STOP_DRAIN" /\ from = "DRAINING" /\ to = "REGISTERED"
  \/ /\ event = "DISCONNECT" /\ to = "OFFLINE"
     /\ from \in {"CONNECTED", "REGISTERED", "RUNNING", "DRAINING"}
  \/ /\ event = "TERMINATE" /\ to = "SHUTDOWN"
     /\ from \in {"REGISTERED", "RUNNING", "DRAINING"}

Init == current_state = "OFFLINE" /\ active_tasks_count = 0 /\ draining = FALSE

transition(event) ==
  \E to \in States :
    /\ Allowed(current_state, event, to)
    /\ current_state' = to
    /\ draining' = IF event \in {"STOP_DRAIN", "DISCONNECT"} THEN FALSE
                   ELSE draining \/ event = "START_DRAIN"
    /\ UNCHANGED active_tasks_count

(* update_tasks with a positive and with a negative delta. *)
TasksAdded(n) ==
  /\ active_tasks_count + n <= MaxTasks
  /\ active_tasks_count' = active_tasks_count + n
  /\ current_state' = IF current_state = "REGISTERED" THEN "RUNNING"
                      ELSE current_state
  /\ UNCHANGED draining

(* Mutant: the last task ends a drain too. *)
TasksDone_EndsDrain(n) ==
  /\ active_tasks_count' = IF active_tasks_count >= n THEN active_tasks_count - n
                           ELSE 0
  /\ current_state' = IF /\ active_tasks_count' = 0
                         /\ current_state \in {"RUNNING", "DRAINING"}
                        THEN "REGISTERED" ELSE current_state
  /\ UNCHANGED draining

TasksDone(n) ==
  /\ active_tasks_count' = IF active_tasks_count >= n THEN active_tasks_count - n
                           ELSE 0
  /\ current_state' = IF active_tasks_count' = 0 /\ current_state = "RUNNING"
                        THEN "REGISTERED" ELSE current_state
  /\ UNCHANGED draining

Next == \/ \E event \in Events : transition(event)
        \/ \E n \in 1..2 : TasksAdded(n) \/ TasksDone(n)

Spec == Init /\ [][Next]_vars
-----------------------------------------------------------------------------
(* Type invariant. *)
TypeOK == /\ current_state \in States
          /\ active_tasks_count \in 0..MaxTasks
          /\ draining \in BOOLEAN

(* Safety: a worker is RUNNING only with tasks in hand, whatever events    *)
(* came between their being added and their being done.  (The converse     *)
(* fails: after STOP_DRAIN, or a reconnection, a worker with tasks is      *)
(* REGISTERED until it is given another one.)  One asked to drain is       *)
(* DRAINING, or shut down, until the drain is called off or the connection *)
(* is lost: finishing its tasks or being given more does not bring it back.*)
StateFitsTasks ==
  /\ TypeOK
  /\ current_state = "RUNNING" => active_tasks_count > 0
  /\ draining => current_state \in {"DRAINING", "SHUTDOWN"}
=============================================================================
