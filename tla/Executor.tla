------------------------------ MODULE Executor ------------------------------
(***************************************************************************)
(* Chunk execution on a worker (worker/src/executor.c): several calls of   *)
(* vom_executor_run in parallel, each forking one child process, sharing   *)
(* the reservation counters.  A call is split where something else can     *)
(* happen in between: the critical sections, the callbacks, the fork, and  *)
(* the look at the cancel flag and at the child in every round of its loop.*)
(* waitpid cannot fail for a child of one's own with WNOHANG, and is not   *)
(* modelled as failing.  Memory is reserved beside the cores in the same   *)
(* way; a reservation may fail for want of it at any time.                 *)
(***************************************************************************)
EXTENDS Tables

CONSTANTS
  Run,                       \* calls of vom_executor_run, one per chunk
  required_cores,            \* per call
  cores_online               \* of the host

ASSUME ExecutorSizes == /\ IsFiniteSet(Run)
                        /\ cores_online \in Nat
                        /\ required_cores \in [Run -> Nat]

VARIABLES
  pc,                        \* where each call is
  g_reserved_cores,
  reports,                   \* the states handed to the callback, in order
  state,                     \* status.state of the call
  child,                     \* the child process
  cancel_flag, expired       \* asked to cancel; timeout_seconds have elapsed

executorVars == <<pc, g_reserved_cores, reports, state, child, cancel_flag, expired>>

Terminal == {"COMPLETED", "FAILED", "CANCELLED"}
Locations == {"idle", "reserve", "pipe", "fork", "check", "read", "wait",
              "closing", "release", "returned"}

ExecutorInit == /\ pc = [r \in Run |-> "idle"]
                /\ g_reserved_cores = 0
                /\ reports = [r \in Run |-> <<>>]
                /\ state = [r \in Run |-> "IDLE"]
                /\ child = [r \in Run |-> "none"]
                /\ cancel_flag = [r \in Run |-> FALSE]
                /\ expired = [r \in Run |-> FALSE]

Goto(r, to) == pc' = [pc EXCEPT ![r] = to]
Set(r, s) == state' = [state EXCEPT ![r] = s]
cb(r) == reports' = [reports EXCEPT ![r] = Append(@, state'[r])]
Environment == <<cancel_flag, expired>>

(* vom_executor_validate also looks at the runtime and at the binary. *)
validate(r, usable) == usable /\ required_cores[r] <= cores_online

Accept(r) == /\ pc[r] = "idle"
             /\ \E usable \in BOOLEAN :
                  IF validate(r, usable)
                    THEN Set(r, "ACCEPTED") /\ Goto(r, "reserve")
                    ELSE Set(r, "FAILED") /\ Goto(r, "returned")
             /\ cb(r)
             /\ UNCHANGED <<g_reserved_cores, child, Environment>>

reserve_local_resources(r) ==
  /\ g_reserved_cores + required_cores[r] <= cores_online
  /\ g_reserved_cores' = g_reserved_cores + required_cores[r]

(* The reservation fails for want of cores or of memory. *)
Reserve(r) ==
  /\ pc[r] = "reserve"
  /\ \/ /\ reserve_local_resources(r)
        /\ Goto(r, "pipe")
        /\ UNCHANGED <<state, reports>>
     \/ /\ Set(r, "FAILED") /\ cb(r) /\ Goto(r, "returned")
        /\ UNCHANGED g_reserved_cores
  /\ UNCHANGED <<child, Environment>>

release_local_resources(r) ==
  g_reserved_cores' = IF g_reserved_cores >= required_cores[r]
                        THEN g_reserved_cores - required_cores[r]
                        ELSE g_reserved_cores

(* pipe may fail; the release comes before the callback here. *)
OpenPipe(r) ==
  /\ pc[r] = "pipe"
  /\ \/ Set(r, "STARTED") /\ Goto(r, "fork") /\ UNCHANGED g_reserved_cores
     \/ Set(r, "FAILED") /\ Goto(r, "returned") /\ release_local_resources(r)
  /\ cb(r)
  /\ UNCHANGED <<child, Environment>>

(* Mutant: a failed fork keeps the reservation. *)
Fork_Leaks(r) ==
  /\ pc[r] = "fork"
  /\ \/ /\ child' = [child EXCEPT ![r] = "running"]
        /\ Set(r, "PROGRESS") /\ Goto(r, "check")
     \/ /\ Set(r, "FAILED") /\ Goto(r, "returned")
        /\ UNCHANGED child
  /\ UNCHANGED <<g_reserved_cores, reports, Environment>>

(* fork may fail, and then nothing is reported. *)
Fork(r) ==
  /\ pc[r] = "fork"
  /\ \/ /\ child' = [child EXCEPT ![r] = "running"]
        /\ Set(r, "PROGRESS") /\ Goto(r, "check")
        /\ UNCHANGED g_reserved_cores
     \/ /\ Set(r, "FAILED") /\ Goto(r, "returned")
        /\ release_local_resources(r)
        /\ UNCHANGED child
  /\ UNCHANGED <<reports, Environment>>

(* Mutant: the signal is not sent. *)
Kill_Not(c) == c

(* SIGKILL, and no wait for the child. *)
Kill(c) == IF c = "running" THEN "killed" ELSE c

(* Mutants: the timeout, or the flag, is not looked at. *)
Check_NoTimeout(r) ==
  /\ pc[r] = "check"
  /\ IF cancel_flag[r]
       THEN /\ child' = [child EXCEPT ![r] = Kill(@)]
            /\ Set(r, "CANCELLED")
            /\ Goto(r, "closing")
       ELSE Goto(r, "read") /\ UNCHANGED <<child, state>>
  /\ UNCHANGED <<g_reserved_cores, reports, Environment>>
Check_NoCancel(r) ==
  /\ pc[r] = "check"
  /\ IF expired[r]
       THEN /\ child' = [child EXCEPT ![r] = Kill(@)]
            /\ Set(r, "FAILED")
            /\ Goto(r, "closing")
       ELSE Goto(r, "read") /\ UNCHANGED <<child, state>>
  /\ UNCHANGED <<g_reserved_cores, reports, Environment>>

Check(r) ==
  /\ pc[r] = "check"
  /\ IF cancel_flag[r] \/ expired[r]
       THEN /\ child' = [child EXCEPT ![r] = Kill(@)]
            /\ Set(r, IF cancel_flag[r] THEN "CANCELLED" ELSE "FAILED")
            /\ Goto(r, "closing")
       ELSE Goto(r, "read") /\ UNCHANGED <<child, state>>
  /\ UNCHANGED <<g_reserved_cores, reports, Environment>>

(* Output of the child, if there is some, is reported as progress; once in  *)
(* the history of reports, as its repetitions are not told apart.           *)
Read(r) == /\ pc[r] = "read"
           /\ UNCHANGED <<g_reserved_cores, child, state, Environment>>
           /\ \/ reports[r][Len(reports[r])] # "PROGRESS" /\ cb(r)
              \/ UNCHANGED reports
           /\ Goto(r, "wait")

Wait(r) ==
  /\ pc[r] = "wait"
  /\ IF child[r] = "running"
       THEN Goto(r, "check") /\ UNCHANGED <<child, state>>
       ELSE /\ Set(r, IF child[r] = "exit 0" THEN "COMPLETED" ELSE "FAILED")
            /\ child' = [child EXCEPT ![r] = "reaped"]
            /\ Goto(r, "closing")
  /\ UNCHANGED <<g_reserved_cores, reports, Environment>>

Finish(r) == /\ pc[r] = "closing"
             /\ UNCHANGED <<g_reserved_cores, state, child, Environment>>
             /\ cb(r) /\ Goto(r, "release")

Release(r) == /\ pc[r] = "release"
              /\ release_local_resources(r) /\ Goto(r, "returned")
              /\ UNCHANGED <<reports, state, child, Environment>>

Thread(r) == \/ Accept(r) \/ Reserve(r) \/ OpenPipe(r) \/ Fork(r) \/ Check(r)
             \/ Read(r) \/ Wait(r) \/ Finish(r) \/ Release(r)

(* Around the call: the child ends by itself, another thread sets the flag, *)
(* the time runs out.                                                       *)
ChildExits(r) == /\ child[r] = "running"
                 /\ \E how \in {"exit 0", "exit 1", "signalled"} :
                      child' = [child EXCEPT ![r] = how]
                 /\ UNCHANGED <<pc, g_reserved_cores, reports, state, Environment>>
Cancel(r) == /\ ~cancel_flag[r] /\ cancel_flag' = [cancel_flag EXCEPT ![r] = TRUE]
             /\ UNCHANGED <<pc, g_reserved_cores, reports, state, child, expired>>
Expire(r) == /\ ~expired[r] /\ expired' = [expired EXCEPT ![r] = TRUE]
             /\ UNCHANGED <<pc, g_reserved_cores, reports, state, child, cancel_flag>>

ExecutorNext ==
  \E r \in Run : Thread(r) \/ ChildExits(r) \/ Cancel(r) \/ Expire(r)

ExecutorSpec == ExecutorInit /\ [][ExecutorNext]_executorVars

(* Threads are scheduled; children may run for ever, nobody need cancel,   *)
(* and the timeout may be as long as one likes.                            *)
ExecutorFairSpec == ExecutorSpec /\ \A r \in Run : WF_executorVars(Thread(r))
-----------------------------------------------------------------------------
(* Type invariant. *)
ExecutorTypeOK ==
  /\ pc \in [Run -> Locations]
  /\ g_reserved_cores \in Nat
  /\ DOMAIN reports = Run
  /\ state \in [Run -> {"IDLE", "ACCEPTED", "STARTED", "PROGRESS"} \cup Terminal]
  /\ child \in [Run -> {"none", "running", "killed", "exit 0", "exit 1",
                        "signalled", "reaped"}]
  /\ cancel_flag \in [Run -> BOOLEAN] /\ expired \in [Run -> BOOLEAN]

Holding == {r \in Run : pc[r] \in {"pipe", "fork", "check", "read", "wait",
                                   "closing", "release"}}

(* Safety: the shared counter is exactly what the calls between their      *)
(* reservation and their release hold, whichever way each of them ends,    *)
(* and running children never hold more cores than the host has.           *)
CoresAccounted ==
  /\ ExecutorTypeOK
  /\ g_reserved_cores = Total(required_cores, Holding)
  /\ Total(required_cores, {r \in Run : child[r] = "running"}) <= cores_online

(* Safety: a call reports at most one end, as its last report, and a call  *)
(* that returned has reported it unless its fork failed; by then its child *)
(* no longer runs, and is COMPLETED only if the call itself saw it end.    *)
OneCleanEnd ==
  \A r \in Run :
    LET ends == {i \in DOMAIN reports[r] : reports[r][i] \in Terminal}
    IN  /\ ends \subseteq {Len(reports[r])}
        /\ pc[r] = "returned" /\ reports[r] # <<"ACCEPTED", "STARTED">> =>
             ends # {} /\ reports[r][Len(reports[r])] = state[r]
        /\ pc[r] \in {"release", "returned"} =>
             /\ child[r] # "running"
             /\ state[r] = "COMPLETED" => child[r] = "reaped"

(* Liveness: every call returns if time passes, since its timeout ends it  *)
(* at the latest.                                                          *)
RunsEnd == (\A r \in Run : WF_executorVars(Expire(r)))
             => \A r \in Run : pc[r] # "idle" ~> pc[r] = "returned"

(* Liveness: a call asked to cancel gives its cores back, even though its  *)
(* child never ends by itself and its timeout never comes.                 *)
CancelFreesCores ==
  \A r \in Run : cancel_flag[r] /\ r \in Holding ~> r \notin Holding
=============================================================================
