------------------------------ MODULE Processes ------------------------------
(***************************************************************************)
(* The programs as processes: the agent with its refresh thread, the       *)
(* dashboard's server, and the main functions of the master and the        *)
(* workers.  Here they share no state, so a step is a step of one of them. *)
(***************************************************************************)
EXTENDS Integers

CONSTANTS
  REFRESH_SECONDS, MaxLook, MaxGeneration, MaxDummies,
  Worker, Master, Number, MAX_ATTEMPTS, MaxHeartbeats, MaxSignals

VARIABLES
  main, g_probe_thread_active, probe, seconds, fresh_caps, hardware,
  g_cached_caps, emitted, stdin,
  wal, DummyWorkers, _DUMMY_ID_COUNTER, LatestState, broadcaster,
  at, held, signals, flagged, interrupted, attempts, beats, router, dealer,
  id_buf, online

agent == <<main, g_probe_thread_active, probe, seconds, fresh_caps, hardware,
           g_cached_caps, emitted, stdin>>
dashboard == <<wal, DummyWorkers, _DUMMY_ID_COUNTER, LatestState, broadcaster>>
programs == <<at, held, signals, flagged, interrupted, attempts, beats, router,
              dealer, id_buf, online>>
processes == <<agent, dashboard, programs>>

(* Times, attempts and bounds are naturals; the join loop makes an attempt; *)
(* the master is not one of the workers.                                    *)
ASSUME ProcessSizes ==
  /\ REFRESH_SECONDS \in Nat /\ MaxLook \in Nat
  /\ MaxGeneration \in Nat /\ MaxDummies \in Nat
  /\ MAX_ATTEMPTS \in Nat \ {0} /\ MaxHeartbeats \in Nat /\ MaxSignals \in Nat
  /\ Master \notin Worker

Agent == INSTANCE AgentHeartbeat WITH i <- seconds
Server == INSTANCE Dashboard
Sockets == INSTANCE Programs

AgentStep == Agent!Next /\ UNCHANGED <<dashboard, programs>>
ServerStep == Server!Next /\ UNCHANGED <<agent, programs>>
SocketsStep == Sockets!Next /\ UNCHANGED <<agent, dashboard>>

ProcessesInit == Agent!Init /\ Server!Init /\ Sockets!Init
ProcessesNext == AgentStep \/ ServerStep \/ SocketsStep
ProcessesSpec == ProcessesInit /\ [][ProcessesNext]_processes
-----------------------------------------------------------------------------
(* Safety, vom_caps_deinit, _merge_dummy_workers and the error branches of *)
(* both main functions: the agent's refresh thread does not outlive it,    *)
(* browsers are shown every dummy worker, and a program that ends, on      *)
(* whatever path, has given back what it opened.                           *)
ProgramsSafe ==
  /\ Agent!TypeOK /\ Agent!NoThreadOutlives
  /\ Server!TypeOK /\ Server!NoDummyHidden
  /\ Sockets!TypeOK /\ Sockets!NothingLeftOpen
=============================================================================
