---------------------------- MODULE ChunkPlanner ----------------------------
(***************************************************************************)
(* Planning of a workload and the check that a plan is a DAG               *)
(* (master/src/chunk_planner.c).  A plan is made by a registered strategy  *)
(* or handed in as it is; verify_plan_topology_is_dag then runs on it, one *)
(* step for each chunk taken from its queue and each edge looked at.       *)
(***************************************************************************)
EXTENDS Tables, FiniteSets, Functions

CONSTANTS
  Workloads,        \* [strategy_type, is_splittable] records
  Plans,            \* plans handed in: [chunks, edges, is_valid] records
  MAX_STRATEGIES

(* A plan's chunks are known by their ids, in order; an edge goes from one *)
(* id to another.                                                          *)
ASSUME PlansFormed ==
  /\ \A p \in Plans : /\ p.chunks \in Seq(Range(p.chunks)) /\ p.edges \in Seq(Range(p.edges))
                      /\ p.is_valid \in BOOLEAN
  /\ MAX_STRATEGIES \in Nat

VARIABLES
  registry,         \* strategies registered, in order
  plan,
  phase,            \* "idle", "check", "take", "relax", "done"
  in_degree, queue, head, current, edge,
  verdict

plannerVars == <<registry, plan, phase, in_degree, queue, head, current, edge, verdict>>

Strategies == {"INDEPENDENT_BATCH", "SEQUENTIAL_PIPELINE"}
NoPlan == [chunks |-> <<>>, edges |-> <<>>, is_valid |-> FALSE]

(* generate_deterministic_chunk_id mixes base_hash ^ index by xor-shifts    *)
(* and odd factors, a bijection on 64-bit words: the ids of one plan differ, *)
(* and the index stands for the id.                                         *)
PlannedIds == [i \in 1..4 |-> i]
plan_independent_batch == [chunks |-> PlannedIds, edges |-> <<>>, is_valid |-> TRUE]
plan_sequential_pipeline ==
  [chunks |-> PlannedIds,
   edges |-> [i \in 1..3 |-> [src |-> PlannedIds[i], dst |-> PlannedIds[i + 1]]],
   is_valid |-> TRUE]

PlannerInit == /\ registry = <<>>
               /\ plan = NoPlan /\ phase = "idle"
               /\ in_degree = <<>> /\ queue = <<>> /\ head = 0
               /\ current = 0 /\ edge = 0
               /\ verdict = FALSE

Verifier == <<in_degree, queue, head, current, edge, verdict>>

register_planning_strategy(type) ==
  /\ phase = "idle"
  /\ Len(registry) < MAX_STRATEGIES
  /\ registry' = Append(registry, type)
  /\ UNCHANGED <<plan, phase, Verifier>>

find_strategy(type) == type \in Range(registry)

generate_chunk_graph(wl) ==
  /\ phase = "idle"
  /\ plan' = IF ~wl.is_splittable \/ ~find_strategy(wl.strategy_type) THEN NoPlan
             ELSE IF wl.strategy_type = "INDEPENDENT_BATCH"
                    THEN plan_independent_batch ELSE plan_sequential_pipeline
  /\ phase' = "check"
  /\ UNCHANGED <<registry, Verifier>>

HandIn(p) == /\ plan' = p /\ phase' = "check"
             /\ UNCHANGED <<registry, Verifier>>

PlanSlots == DOMAIN plan.chunks
(* Mutant: an edge from a chunk to itself is not counted. *)
EdgesInto_NoLoops(j) ==
  {e \in DOMAIN plan.edges : /\ plan.edges[e].dst = plan.chunks[j]
                             /\ plan.edges[e].src # plan.chunks[j]}

EdgesInto(j) == {e \in DOMAIN plan.edges : plan.edges[e].dst = plan.chunks[j]}
InOrder(S) == Compact([j \in PlanSlots |-> j], S)

(* The early return, the counting of edges and the first fill of the queue. *)
Count ==
  /\ phase = "check"
  /\ IF ~plan.is_valid \/ plan.chunks = <<>>
       THEN /\ phase' = "done" /\ verdict' = FALSE
            /\ UNCHANGED <<in_degree, queue, head, current, edge>>
       ELSE /\ in_degree' = [j \in PlanSlots |-> Cardinality(EdgesInto(j))]
            /\ queue' = InOrder({j \in PlanSlots : in_degree'[j] = 0})
            /\ head' = 0
            /\ phase' = "take"
            /\ UNCHANGED <<current, edge, verdict>>
  /\ UNCHANGED <<registry, plan>>

Take == /\ phase = "take"
        /\ IF head < Len(queue)
             THEN /\ current' = queue[head + 1] /\ head' = head + 1
                  /\ edge' = 1 /\ phase' = "relax"
                  /\ UNCHANGED verdict
             ELSE /\ verdict' = (head = Len(plan.chunks)) /\ phase' = "done"
                  /\ UNCHANGED <<current, head, edge>>
        /\ UNCHANGED <<registry, plan, in_degree, queue>>

Lower(degree, dst) ==
  [j \in PlanSlots |-> IF plan.chunks[j] = dst THEN degree[j] - 1 ELSE degree[j]]

Relax ==
  /\ phase = "relax"
  /\ IF edge > Len(plan.edges)
       THEN phase' = "take" /\ UNCHANGED <<in_degree, queue, edge>>
       ELSE /\ edge' = edge + 1
            /\ IF plan.edges[edge].src = plan.chunks[current]
                 THEN LET dst == plan.edges[edge].dst
                      IN  /\ in_degree' = Lower(in_degree, dst)
                          /\ queue' = queue \o InOrder({j \in PlanSlots :
                                        plan.chunks[j] = dst /\ in_degree'[j] = 0})
                 ELSE UNCHANGED <<in_degree, queue>>
            /\ UNCHANGED phase
  /\ UNCHANGED <<registry, plan, head, current, verdict>>

verify_plan_topology_is_dag == Count \/ Take \/ Relax

PlannerNext == \/ \E type \in Strategies : register_planning_strategy(type)
               \/ \E wl \in Workloads : generate_chunk_graph(wl)
               \/ phase = "idle" /\ \E p \in Plans : HandIn(p)
               \/ verify_plan_topology_is_dag

PlannerSpec == PlannerInit /\ [][PlannerNext]_plannerVars
-----------------------------------------------------------------------------
(* Type invariant. *)
PlannerTypeOK == /\ registry \in Seq(Strategies) /\ Len(registry) <= MAX_STRATEGIES
                 /\ phase \in {"idle", "check", "take", "relax", "done"}
                 /\ phase \in {"take", "relax"} => in_degree \in [PlanSlots -> Int]
                 /\ phase \in {"take", "relax"} => queue \in Seq(PlanSlots)
                 /\ head \in 0..Len(queue)
                 /\ verdict \in BOOLEAN

(* What a DAG is: whatever chunks one picks, one of them has no edge from  *)
(* another of them or itself.                                              *)
Acyclic ==
  \A S \in (SUBSET Range(plan.chunks)) \ {{}} :
    \E n \in S : ~\E e \in Range(plan.edges) : e.src \in S /\ e.dst = n

(* No edge leads from a chunk the plan does not have into one it has. *)
NoDanglingSource ==
  \A e \in Range(plan.edges) :
    e.dst \in Range(plan.chunks) => e.src \in Range(plan.chunks)

(* Safety: for a valid plan with distinct chunk ids the check answers      *)
(* exactly whether it is a DAG without dangling dependencies, and every    *)
(* plan a strategy makes passes.  No chunk enters processing_queue twice,  *)
(* so that it never outgrows its MAX_CHUNKS slots, not even when ids       *)
(* repeat.                                                                 *)
VerdictRight ==
  /\ PlannerTypeOK
  /\ phase = "done" /\ IsInjective(plan.chunks) =>
       (verdict <=> /\ plan.is_valid /\ plan.chunks # <<>>
                    /\ Acyclic /\ NoDanglingSource)
  /\ phase = "done" /\ plan \in {plan_independent_batch, plan_sequential_pipeline}
       => verdict
  /\ IsInjective(queue)

(* Liveness: the check ends on every plan, cyclic ones included. *)
CheckEnds == phase = "check" ~> phase = "done"
=============================================================================
