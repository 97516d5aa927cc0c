--------------------------- MODULE AgentHeartbeat ---------------------------
(***************************************************************************)
(* The agent program (agent/src/heartbeat.c): its main loop waits in poll  *)
(* for standard input and emits a heartbeat when poll times out, while a   *)
(* second thread refreshes the cached capabilities every REFRESH_SECONDS.  *)
(***************************************************************************)
EXTENDS Integers

CONSTANTS
  REFRESH_SECONDS,       \* 30 in vom_caps_refresh_worker_loop
  MaxLook                \* bound: hardware states told apart, modulo

VARIABLES
  main,                  \* where main() is
  g_probe_thread_active,
  probe, i, fresh_caps,  \* the refresh thread, its seconds, its local copy
  hardware,              \* what vom_sys_info_collect would find
  g_cached_caps, emitted, \* the cache; the capabilities in the last heartbeat
  stdin                  \* "quiet", "line" (to be read) or "eof"

vars == <<main, g_probe_thread_active, probe, i, fresh_caps, hardware,
          g_cached_caps, emitted, stdin>>
Probe == <<probe, i, fresh_caps>>

Look == 0..MaxLook
None == -1

Init == /\ main = "init" /\ g_probe_thread_active = FALSE
        /\ probe = "none" /\ i = 0 /\ fresh_caps = None
        /\ hardware = 0 /\ g_cached_caps = None /\ emitted = None
        /\ stdin \in {"quiet", "eof"}

(* vom_caps_init; the thread starts, or pthread_create fails and main ends. *)
vom_caps_init ==
  /\ main = "init"
  /\ g_cached_caps' = hardware
  /\ \/ /\ g_probe_thread_active' = TRUE
        /\ probe' = "test" /\ main' = "loop"
     \/ /\ g_probe_thread_active' = FALSE
        /\ main' = "exited" /\ UNCHANGED probe
  /\ UNCHANGED <<i, fresh_caps, hardware, emitted, stdin>>

(* poll timed out: a heartbeat with the cached capabilities.  At the end of *)
(* the input poll returns at once and read returns 0: the loop goes round   *)
(* without a heartbeat, which is no step.                                   *)
Heartbeat == /\ main = "loop" /\ stdin = "quiet"
             /\ emitted' = g_cached_caps
             /\ UNCHANGED <<main, g_probe_thread_active, Probe, hardware,
                            g_cached_caps, stdin>>

(* poll found a line: it is read, and the loop ends. *)
Directive == /\ main = "loop" /\ stdin = "line"
             /\ main' = "deinit" /\ stdin' = "quiet"
             /\ UNCHANGED <<g_probe_thread_active, Probe, hardware,
                            g_cached_caps, emitted>>

(* poll failed. *)
PollFails == /\ main = "loop" /\ main' = "deinit"
             /\ UNCHANGED <<g_probe_thread_active, Probe, hardware,
                            g_cached_caps, emitted, stdin>>

(* vom_caps_deinit: the flag, then pthread_join. *)
vom_caps_deinit == /\ main = "deinit"
                   /\ g_probe_thread_active' = FALSE /\ main' = "join"
                   /\ UNCHANGED <<Probe, hardware, g_cached_caps, emitted, stdin>>

Join == /\ main = "join" /\ probe = "ended"
        /\ main' = "exited"
        /\ UNCHANGED <<g_probe_thread_active, Probe, hardware, g_cached_caps,
                       emitted, stdin>>

MainStep == vom_caps_init \/ Heartbeat \/ Directive \/ vom_caps_deinit \/ Join
-----------------------------------------------------------------------------
(* vom_caps_refresh_worker_loop: test, collect, store under the lock, sleep. *)
Rest == <<main, g_probe_thread_active, hardware, emitted, stdin>>

Collect == /\ probe = "test" /\ g_probe_thread_active
           /\ fresh_caps' = hardware /\ probe' = "store"
           /\ UNCHANGED <<i, g_cached_caps, Rest>>
(* Mutant: what was collected is not stored. *)
Store_Nothing == /\ probe = "store"
                 /\ i' = 0 /\ probe' = "sleep"
                 /\ UNCHANGED <<fresh_caps, g_cached_caps, Rest>>

Store == /\ probe = "store"
         /\ g_cached_caps' = fresh_caps /\ i' = 0 /\ probe' = "sleep"
         /\ UNCHANGED <<fresh_caps, Rest>>
Sleep == /\ probe = "sleep" /\ i < REFRESH_SECONDS /\ g_probe_thread_active
         /\ i' = i + 1
         /\ UNCHANGED <<probe, fresh_caps, g_cached_caps, Rest>>
Awake == /\ probe = "sleep" /\ ~(i < REFRESH_SECONDS /\ g_probe_thread_active)
         /\ probe' = "test"
         /\ UNCHANGED <<i, fresh_caps, g_cached_caps, Rest>>
End == /\ probe = "test" /\ ~g_probe_thread_active
       /\ probe' = "ended"
       /\ UNCHANGED <<i, fresh_caps, g_cached_caps, Rest>>

ProbeStep == Collect \/ Store \/ Sleep \/ Awake \/ End

(* Around the program. *)
HotPlug == /\ hardware' = (hardware + 1) % (MaxLook + 1)
           /\ UNCHANGED <<main, g_probe_thread_active, Probe, g_cached_caps,
                          emitted, stdin>>
Type == /\ stdin = "quiet" /\ stdin' \in {"line", "eof"}
        /\ UNCHANGED <<main, g_probe_thread_active, Probe, hardware,
                       g_cached_caps, emitted>>

Next == MainStep \/ PollFails \/ ProbeStep \/ HotPlug \/ Type
Spec == Init /\ [][Next]_vars /\ WF_vars(MainStep) /\ WF_vars(ProbeStep)
-----------------------------------------------------------------------------
(* Type invariant; no heartbeat carries capabilities never collected. *)
TypeOK == /\ main \in {"init", "loop", "deinit", "join", "exited"}
          /\ g_probe_thread_active \in BOOLEAN
          /\ probe \in {"none", "test", "store", "sleep", "ended"}
          /\ i \in 0..REFRESH_SECONDS
          /\ {fresh_caps, g_cached_caps, emitted} \subseteq Look \cup {None}
          /\ hardware \in Look
          /\ main = "loop" => g_cached_caps # None
          /\ stdin \in {"quiet", "line", "eof"}

(* Safety: the refresh thread does not outlive the program's end. *)
NoThreadOutlives == main = "exited" => probe \in {"none", "ended"}

(* Liveness: the program that left its loop ends: the refresh thread sees  *)
(* the flag wherever it is, in the middle of its sleep too.                *)
ShutdownEnds == main \in {"deinit", "join"} ~> main = "exited"

(* Liveness: a change of the hardware that lasts gets through the cache    *)
(* into the heartbeats, as long as standard input stays open and quiet, or *)
(* the program ends.                                                       *)
AnnouncementsCatchUp ==
  \A h \in Look : <>[](hardware = h /\ stdin = "quiet")
                   => <>[](emitted = h \/ main # "loop")
=============================================================================
