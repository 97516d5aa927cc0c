------------------------------- MODULE MCParts -------------------------------
(***************************************************************************)
(* Parts that share no state: the snapshot ring; the worker's recovery     *)
(* and services; the common library; the operator's command lines and      *)
(* view.  A behaviour exercises one of them while the others rest; as none *)
(* reads what another writes, interleaving their calls would multiply the  *)
(* states and show nothing more.  A view does not depend on the one drawn  *)
(* before, so one is drawn.                                                *)
(***************************************************************************)
EXTENDS SnapshotRing, WorkerRecovery, WorkerServices, CommonLibrary, TLC

CONSTANTS
  Words, MaxWords,
  UI_MAX_NODES, UI_MAX_ACTIVE_LEASES, UI_MAX_ACTIVE_TASKS, Snapshots, Times

VARIABLES
  argv, optind, next, out, result,
  snapshot, drawn, out_model,
  part                     \* the component that is exercised

cli == <<argv, optind, next, out, result>>
view == <<snapshot, drawn, out_model>>

Cli == INSTANCE CommandLines
View == INSTANCE ViewModel WITH now <- drawn
-----------------------------------------------------------------------------
MCReservations == {[cpu |-> 0, memory |-> 0], [cpu |-> 2, memory |-> 1]}

(* The words a line is made of: every option, with and without a value,   *)
(* and what may stand for a value or a command.                           *)
MCWords ==
  LET Long(opt, given) == [kind |-> "long", opt |-> opt, value |-> given]
      Plain(text) == [kind |-> "plain", text |-> text]
      Short(letters) == [kind |-> "short", letters |-> letters]
  IN  {Long(o, <<>>) : o \in {"config", "bind", "simulate", "daemon", "foreground",
                              "help", "other", "json"}}
      \cup {Long("bind", <<Plain("tcp://host")>>), Long("config", <<Plain("status")>>)}
      \cup {Short(<<"1">>), Short(<<"daemon">>), Short(<<"daemon", "config">>)}
      \cup {Plain(t) : t \in {"tcp://host", "3", "status", "submit"}}
      \cup {[kind |-> "dashdash"]}

(* Two workers, or as many as the view has room for, and a lease. *)
MCMember(id) ==
  [worker_id : {id}, health : {"ONLINE", "SUSPECT", "OFFLINE", "DRAINING"},
   last_heartbeat_monotonic_ms : {0, 1, 3}, reserved : {0, 1}, total : {0, 2}]
MCLease == [chunk_id : {1}, assigned_worker_id : {1},
            status : {"IDLE", "ASSIGNED", "EXECUTING", "COMMITTED", "TIMED_OUT", "FAILED"},
            failure_retry_count : 2..4]
MCSnapshots ==
  LET lists == {<<>>} \cup {<<m>> : m \in MCMember(1)}
      Full(m) == m.reserved <= m.total
  IN  {[global_status |-> g, active_workers |-> ws, active_leases |-> <<>>] :
         g \in {"BOOTSTRAP", "OPERATIONAL", "DEGRADED", "MAINTENANCE", "PANIC"},
         ws \in {l \in lists : \A i \in DOMAIN l : Full(l[i])}}
      \cup
      {[global_status |-> "OPERATIONAL", active_workers |-> <<m, n>>,
        active_leases |-> <<l>>] :
         m \in {x \in MCMember(1) : Full(x) /\ x.health = "ONLINE"},
         n \in {x \in MCMember(2) : Full(x) /\ x.health = "OFFLINE"},
         l \in MCLease}

Symmetry == Permutations(Caller)
-----------------------------------------------------------------------------
PartsInit ==
  /\ part \in {"snapshots", "recovery", "lifecycle", "discovery", "monitor", "zmq",
               "log", "settings", "cli", "view"}
  /\ RingInit /\ value \in IF part = "snapshots" THEN Value
                           ELSE {CHOOSE v \in Value : TRUE}
  /\ WorkerInit /\ ServicesInit /\ CommonInit /\ View!Init
  /\ Cli!Init /\ (part = "cli" \/ argv = <<>>)

Only(p, step, rest) == part = p /\ step /\ UNCHANGED <<rest, part>>
operator == <<cli, view>>
PartsNext ==
  \/ Only("snapshots", SnapshotNext, <<workerVars, services, common, operator>>)
  \/ Only("recovery", WorkerNext, <<snapshotVars, services, common, operator>>)
  \/ Only("lifecycle", LifecycleStep, <<snapshotVars, workerVars, common, operator>>)
  \/ Only("discovery", DiscoveryStep, <<snapshotVars, workerVars, common, operator>>)
  \/ Only("monitor", MonitorStep, <<snapshotVars, workerVars, common, operator>>)
  \/ Only("zmq", ZmqStep, <<snapshotVars, workerVars, services, operator>>)
  \/ Only("log", LogStep, <<snapshotVars, workerVars, services, operator>>)
  \/ Only("settings", SettingsStep, <<snapshotVars, workerVars, services, operator>>)
  \/ Only("cli", Cli!Next, <<snapshotVars, workerVars, services, common, view>>)
  \/ Only("view", snapshot = View!Empty /\ View!Next,
          <<snapshotVars, workerVars, services, common, cli>>)
PartsSpec == PartsInit /\ [][PartsNext]_<<snapshotVars, workerVars, services, common, operator, part>>
-----------------------------------------------------------------------------
(* Safety, getopt_long, vom_master_cli_parse and                           *)
(* ui_model_transform_snapshot: a command line means what its words say    *)
(* or is refused, and the view shows the cluster as the snapshot has it.   *)
OperatorToolsSound == /\ part = "cli" => Cli!TypeOK /\ Cli!LinesUnderstood
                      /\ part = "view" => View!ViewSound
=============================================================================
