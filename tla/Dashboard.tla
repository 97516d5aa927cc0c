------------------------------ MODULE Dashboard ------------------------------
(***************************************************************************)
(* The web dashboard's server (webui/server.py): one asyncio thread that   *)
(* reads the master's journal while the master rewrites it, merges in the  *)
(* dummy workers of its own, and answers requests.  Everything between two *)
(* awaits is one step.  A journal is known by the generation it holds.     *)
(***************************************************************************)
EXTENDS Integers, FiniteSets

CONSTANTS MaxGeneration,     \* bound: journals the master writes
          MaxDummies         \* bound: dummy workers ever made

VARIABLES
  wal,                       \* the file: how much of which generation
  DummyWorkers, _DUMMY_ID_COUNTER,
  LatestState,               \* what is sent to browsers
  broadcaster                \* the task state_broadcaster

vars == <<wal, DummyWorkers, _DUMMY_ID_COUNTER, LatestState, broadcaster>>

Generation == 0..MaxGeneration
Missing == [part |-> "missing", gen |-> 0]
File(part, gen) == [part |-> part, gen |-> gen]

(* What parse_wal makes of the file: nothing, the empty state (too short   *)
(* for the header), a state without its trailing totals and metrics, or    *)
(* the state; instead of nothing, get_mock_state.                          *)
parse_wal == CASE wal.part = "missing" -> "none"
               [] wal.part = "truncated" -> "empty"
               [] wal.part = "partial" -> "torn"
               [] OTHER -> "state"
ReadState == [cluster |-> IF parse_wal = "none" THEN "mock" ELSE parse_wal,
              gen |-> IF parse_wal \in {"torn", "state"} THEN wal.gen ELSE 0,
              dummies |-> {}]
NoState == [cluster |-> "None", gen |-> 0, dummies |-> {}]

_merge_dummy_workers(state, dummies) == [state EXCEPT !.dummies = dummies]

Init == /\ wal \in {Missing, File("complete", 0)}
        /\ DummyWorkers = {} /\ _DUMMY_ID_COUNTER = 100
        /\ LatestState = NoState
        /\ broadcaster = "running"
-----------------------------------------------------------------------------
(* The first round of state_broadcaster.  LatestState is set; then         *)
(* "CONNECTED_CLIENTS -= disconnected" makes the name local to the         *)
(* function, so that reading it raises UnboundLocalError and ends the task.*)
state_broadcaster ==
  /\ broadcaster = "running"
  /\ LatestState' = _merge_dummy_workers(ReadState, DummyWorkers)
  /\ broadcaster' = "ended"
  /\ UNCHANGED <<wal, DummyWorkers, _DUMMY_ID_COUNTER>>

Refresh(dummies) == LatestState' = _merge_dummy_workers(ReadState, dummies)

(* POST add-worker and random-worker. *)
add_worker == /\ _DUMMY_ID_COUNTER < 100 + MaxDummies
              /\ _DUMMY_ID_COUNTER' = _DUMMY_ID_COUNTER + 1
              /\ DummyWorkers' = DummyWorkers \cup {_DUMMY_ID_COUNTER + 1}
              /\ Refresh(DummyWorkers')
              /\ UNCHANGED <<wal, broadcaster>>

(* POST remove-worker; the state sent to browsers is left as it was. *)
remove_worker(id) == /\ id \in DummyWorkers
                     /\ DummyWorkers' = DummyWorkers \ {id}
                     /\ UNCHANGED <<wal, _DUMMY_ID_COUNTER, LatestState, broadcaster>>

(* POST clear-workers. *)
clear_workers == /\ DummyWorkers' = {}
                 /\ Refresh({})
                 /\ UNCHANGED <<wal, _DUMMY_ID_COUNTER, broadcaster>>

(* The master, cluster_state_persist_to_wal: it truncates the file, and the *)
(* contents reach it in one write or in two.                                *)
Truncate == /\ wal.part \in {"missing", "complete"}
            /\ wal.gen < MaxGeneration
            /\ wal' = File("truncated", wal.gen + 1)
            /\ UNCHANGED <<DummyWorkers, _DUMMY_ID_COUNTER, LatestState, broadcaster>>
Write == /\ \/ wal.part = "truncated" /\ wal' \in {File("partial", wal.gen),
                                                   File("complete", wal.gen)}
            \/ wal.part = "partial" /\ wal' = File("complete", wal.gen)
         /\ UNCHANGED <<DummyWorkers, _DUMMY_ID_COUNTER, LatestState, broadcaster>>

Next == \/ state_broadcaster \/ add_worker \/ clear_workers
        \/ \E id \in DummyWorkers : remove_worker(id)
        \/ Truncate \/ Write

Spec == Init /\ [][Next]_vars
-----------------------------------------------------------------------------
(* Type invariant. *)
TypeOK == /\ wal \in [part : {"missing", "truncated", "partial", "complete"},
                      gen : Generation]
          /\ DummyWorkers \subseteq 101.._DUMMY_ID_COUNTER
          /\ LatestState \in [cluster : {"None", "mock", "empty", "torn", "state"},
                              gen : Generation,
                              dummies : SUBSET (101..(100 + MaxDummies))]
          /\ broadcaster \in {"running", "ended"}

(* Safety: what browsers are shown names every dummy worker there is.      *)
(* (One removed since may still be shown: remove-worker refreshes nothing.) *)
NoDummyHidden == broadcaster = "ended" => DummyWorkers \subseteq LatestState.dummies
=============================================================================
