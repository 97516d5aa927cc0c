---------------------------- MODULE CommonLibrary ----------------------------
(***************************************************************************)
(* Of the library both programs link (src/common): the process's ZeroMQ    *)
(* context, the log's post-mortem ring and the configuration file.  They   *)
(* share no state, so a step of the library is a step of one of them.      *)
(***************************************************************************)
EXTENDS Integers, FiniteSets

CONSTANTS
  Thread, MainThread, NULL, MaxContexts, MaxLeaks,
  MetaLen, MsgLen, MsgBuf, MaxSize,
  Section, Key, Val, MaxLines

VARIABLES
  g_zmq_context, g_context_ref_count, g_context_owner_pid, g_zmq_ctx_mutex,
  made, terminated, thread, lost,
  g_current_level, g_log_mutex, g_ring_file, g_ring_max_size, emit, newest_len,
  file, current_section, config

context == <<g_zmq_context, g_context_ref_count, g_context_owner_pid,
             g_zmq_ctx_mutex, made, terminated, thread, lost>>
logring == <<g_current_level, g_log_mutex, g_ring_file, g_ring_max_size, emit,
             newest_len>>
settings == <<file, current_section, config>>
common == <<context, logring, settings>>

(* Threads and contexts are told apart from none; sizes are naturals. *)
ASSUME ContextSizes ==
  /\ MainThread \in Thread /\ IsFiniteSet(Thread)
  /\ MaxContexts \in Nat /\ MaxLeaks \in Nat
  /\ NULL \notin Thread /\ NULL \notin 1..MaxContexts
ASSUME LogSizes ==
  /\ MetaLen \in SUBSET Nat /\ MsgLen \in SUBSET Nat /\ MaxSize \in SUBSET Nat
  /\ MsgBuf \in Nat

Zmq == INSTANCE ZmqContext
Log == INSTANCE LogRing
Settings == INSTANCE ConfigFile

ZmqStep == Zmq!Next /\ UNCHANGED <<logring, settings>>
LogStep == Log!Next /\ UNCHANGED <<context, settings>>
SettingsStep == Settings!Next /\ UNCHANGED <<context, logring>>

CommonInit == Zmq!Init /\ Log!Init /\ Settings!Init
CommonNext == ZmqStep \/ LogStep \/ SettingsStep
CommonSpec == CommonInit /\ [][CommonNext]_common
-----------------------------------------------------------------------------
(* Safety, vom_zmq_context, vom_zmq_context_term, write_to_ring_buffer and *)
(* vom_config_load: a thread's ZeroMQ context outlives its use by that     *)
(* thread, across threads and forks, with an exact count; the newest       *)
(* message that fits is whole in the post-mortem file, which stays within  *)
(* its size; and the last entry for a setting in its section counts.       *)
CommonLibrarySafe ==
  /\ Zmq!TypeOK /\ Zmq!ContextOutlivesUse
  /\ Log!TypeOK /\ Log!RingKeepsNewest
  /\ Settings!LastEntryCounts
=============================================================================
