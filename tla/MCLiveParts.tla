---------------------------- MODULE MCLiveParts ----------------------------
(***************************************************************************)
(* Parts whose progress matters and which share no state: the executor,    *)
(* the chunk planner and the programs as processes.  A behaviour exercises *)
(* one of them while the others rest in one of their initial states.       *)
(***************************************************************************)
EXTENDS Executor, ChunkPlanner, Processes

VARIABLE part              \* the component that is exercised

all == <<executorVars, plannerVars, processes, part>>

Seqs == INSTANCE SequencesExt
-----------------------------------------------------------------------------
(* Calls and workers are numbered.  Call r needs r cores, so that not all  *)
(* calls fit; the first worker's identity gives 0, the others' do not.     *)
MCRequired == [r \in Run |-> r]
MCNumber == [w \in Worker |-> w - 1]

MCWorkloads == [strategy_type : {"INDEPENDENT_BATCH", "SEQUENTIAL_PIPELINE",
                                 "MAP_REDUCE"},
                is_splittable : BOOLEAN]

(* Plans of up to three chunks with up to two edges, three where the three *)
(* chunks are distinct.  Ids may repeat, and edges may name a chunk the    *)
(* plan does not have; up to renaming of the ids, which the check only     *)
(* compares, the ids are taken in order.                                   *)
Ids == {c \in Seqs!BoundedSeq(1..3, 3) :
          \A j \in DOMAIN c : c[j] = 1 \/ \E k \in 1..(j - 1) : c[k] = c[j] - 1}
Edges(n) == Seqs!BoundedSeq([src : 1..3, dst : 1..3], n)
MCPlans == [chunks : Ids, edges : Edges(2), is_valid : {TRUE}]
           \cup [chunks : {<<1, 2, 3>>}, edges : Edges(3), is_valid : {TRUE}]
           \cup [chunks : {<<1>>}, edges : {<<>>}, is_valid : {FALSE}]
-----------------------------------------------------------------------------
PartsInit == /\ part \in {"executor", "planner", "agent", "dashboard", "programs"}
             /\ ExecutorInit /\ PlannerInit /\ ProcessesInit
             /\ part = "agent" \/ stdin = "quiet"
             /\ part = "dashboard" \/ wal = Server!Missing

Only(p, step, rest) == part = p /\ step /\ UNCHANGED <<rest, part>>
ForExecutor(step) == Only("executor", step, <<plannerVars, processes>>)
ForPlanner(step) == Only("planner", step, <<executorVars, processes>>)
ForAgent(step) == Only("agent", step, <<executorVars, plannerVars, dashboard, programs>>)
ForServer(step) == Only("dashboard", step, <<executorVars, plannerVars, agent, programs>>)
ForPrograms(step) == Only("programs", step, <<executorVars, plannerVars, agent, dashboard>>)

PartsNext == \/ ForExecutor(ExecutorNext) \/ ForPlanner(PlannerNext)
             \/ ForAgent(Agent!Next) \/ ForServer(Server!Next)
             \/ ForPrograms(Sockets!Next)

(* The fairness of each part: a call that was entered runs, and threads    *)
(* and programs are scheduled.                                             *)
PartsSpec ==
  /\ PartsInit /\ [][PartsNext]_all
  /\ \A r \in Run : WF_all(ForExecutor(Thread(r)))
  /\ WF_all(ForPlanner(verify_plan_topology_is_dag))
  /\ WF_all(ForAgent(Agent!MainStep)) /\ WF_all(ForAgent(Agent!ProbeStep))
  /\ \A w \in Worker : WF_all(ForPrograms(Sockets!WorkerStep(w)))
  /\ WF_all(ForPrograms(Sockets!MasterStep))
-----------------------------------------------------------------------------
(* Liveness, vom_executor_run, verify_plan_topology_is_dag,                *)
(* vom_caps_deinit and the main loops: a call of the executor returns if   *)
(* time passes, a check of a plan ends, the agent that left its loop ends, *)
(* and so does a program that saw a signal.                                *)
StartedWorkEnds ==
  RunsEnd /\ CheckEnds /\ Agent!ShutdownEnds /\ Sockets!SeenSignalEnds

(* Liveness, vom_caps_refresh_worker_loop and the agent's main loop: a     *)
(* lasting change of the hardware gets into the heartbeats.                *)
AnnouncementsCatchUp == part = "agent" => Agent!AnnouncementsCatchUp
=============================================================================
