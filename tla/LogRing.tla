------------------------------- MODULE LogRing -------------------------------
(***************************************************************************)
(* The post-mortem ring of common/src/log.c: a file of bounded size to     *)
(* which every record is written in three pieces under the log's mutex.    *)
(* The bytes of the newest message are told apart by their place in it;    *)
(* the stream, colours and wording are left out.                           *)
(***************************************************************************)
EXTENDS Integers, Sequences

CONSTANTS Thread, NULL,
          MetaLen, MsgLen,   \* lengths snprintf and vsnprintf may return
          MsgBuf,            \* sizeof(msg_buf)
          MaxSize            \* sizes the ring may be given

VARIABLES
  g_current_level,
  g_log_mutex,               \* the thread that holds it, or NULL
  g_ring_file,               \* whether it is open, its bytes, its position
  g_ring_max_size,
  emit,                      \* by thread: where it is in vom_log_emit
  newest_len                 \* length of the newest message since opening

vars == <<g_current_level, g_log_mutex, g_ring_file, g_ring_max_size, emit, newest_len>>

Level == {"INFO", "ERROR", "NONE"}
Rank == [INFO |-> 0, ERROR |-> 1, NONE |-> 2]
Byte == [of : {"old", "meta", "message", "newline", "unspecified"}, at : Nat]
Piece(name, n) == [k \in 1..n |-> [of |-> name, at |-> k]]
Older == [of |-> "old", at |-> 0]
Closed == [open |-> FALSE, bytes |-> <<>>, pos |-> 0]
Larger(a, b) == IF a >= b THEN a ELSE b

TypeOK ==
  /\ g_current_level \in Level
  /\ g_log_mutex \in Thread \cup {NULL}
  /\ g_ring_file \in [open : BOOLEAN, bytes : Seq(Byte), pos : Nat]
  /\ g_ring_max_size \in MaxSize \cup {0}
  /\ emit \in [Thread -> {"idle", "passed", "meta", "message", "newline"}]
  /\ newest_len \in MsgLen \cup {0}

Init == /\ g_current_level = "INFO" /\ g_log_mutex = NULL
        /\ g_ring_file = Closed /\ g_ring_max_size = 0
        /\ emit = [t \in Thread |-> "idle"] /\ newest_len = 0
-----------------------------------------------------------------------------
vom_log_set_level(level) ==
  /\ g_log_mutex = NULL /\ g_current_level' = level
  /\ UNCHANGED <<g_log_mutex, g_ring_file, g_ring_max_size, emit, newest_len>>

(* The ring that is open is closed even when the new one does not open. *)
vom_log_init_postmortem_ring_buffer(size) ==
  /\ g_log_mutex = NULL /\ newest_len' = 0
  /\ \/ g_ring_file' = [Closed EXCEPT !.open = TRUE] /\ g_ring_max_size' = size
     \/ g_ring_file' = Closed /\ UNCHANGED g_ring_max_size
  /\ UNCHANGED <<g_current_level, g_log_mutex, emit>>

(* Where a piece goes: on from the last one, or to the start of the file. *)
WriteAt(len) == IF g_ring_file.pos + len > g_ring_max_size THEN 0 ELSE g_ring_file.pos

Overwrite(bytes, at, piece) ==
  [k \in 1..Larger(Len(bytes), at + Len(piece)) |->
     IF k \in (at + 1)..(at + Len(piece)) THEN piece[k - at] ELSE bytes[k]]

write_to_ring_buffer(bytes, piece) ==
  LET at == WriteAt(Len(piece)) IN
  g_ring_file' = [g_ring_file EXCEPT !.bytes = Overwrite(bytes, at, piece),
                                     !.pos = at + Len(piece)]

(* The level is looked at before the mutex is taken, and twice. *)
CheckLevel(t, level) ==
  /\ emit[t] = "idle" /\ Rank[level] >= Rank[g_current_level]
  /\ emit' = [emit EXCEPT ![t] = "passed"]
  /\ UNCHANGED <<g_current_level, g_log_mutex, g_ring_file, g_ring_max_size, newest_len>>

Goto(t, place) == emit' = [emit EXCEPT ![t] = place]

(* With no ring the record only goes to the stream. *)
LockLog(t) ==
  /\ emit[t] = "passed" /\ g_log_mutex = NULL
  /\ IF g_ring_file.open THEN g_log_mutex' = t /\ Goto(t, "meta")
                         ELSE Goto(t, "idle") /\ UNCHANGED g_log_mutex
  /\ UNCHANGED <<g_current_level, g_ring_file, g_ring_max_size, newest_len>>

WriteMeta(t) ==
  /\ emit[t] = "meta" /\ Goto(t, "message")
  /\ \E n \in MetaLen :
       write_to_ring_buffer([k \in DOMAIN g_ring_file.bytes |-> Older],
                            Piece("meta", n))
  /\ UNCHANGED <<g_current_level, g_log_mutex, g_ring_max_size, newest_len>>

(* vsnprintf returns the length the whole message would have: from the     *)
(* size of msg_buf on, what is written is not the message's.               *)
Message(n) == [k \in 1..n |-> IF k < MsgBuf THEN Piece("message", n)[k]
                                            ELSE Piece("unspecified", n)[k]]

(* An empty message is not even ended by a newline. *)
WriteMessage(t) ==
  /\ emit[t] = "message"
  /\ \E n \in MsgLen :
       /\ newest_len' = n
       /\ IF n > 0
            THEN /\ write_to_ring_buffer(g_ring_file.bytes, Message(n))
                 /\ Goto(t, "newline") /\ UNCHANGED g_log_mutex
            ELSE Goto(t, "idle") /\ g_log_mutex' = NULL /\ UNCHANGED g_ring_file
  /\ UNCHANGED <<g_current_level, g_ring_max_size>>

WriteNewline(t) ==
  /\ emit[t] = "newline" /\ Goto(t, "idle") /\ g_log_mutex' = NULL
  /\ write_to_ring_buffer(g_ring_file.bytes, Piece("newline", 1))
  /\ UNCHANGED <<g_current_level, g_ring_max_size, newest_len>>

Next == \/ \E l \in Level : vom_log_set_level(l)
        \/ \E s \in MaxSize : vom_log_init_postmortem_ring_buffer(s)
        \/ \E t \in Thread : \/ \E l \in {"INFO", "ERROR"} : CheckLevel(t, l)
                             \/ LockLog(t) \/ WriteMeta(t)
                             \/ WriteMessage(t) \/ WriteNewline(t)

Spec == Init /\ [][Next]_vars
-----------------------------------------------------------------------------
(* Safety, write_to_ring_buffer and vom_log_emit: whenever no record is    *)
(* being written, the newest message that fits the ring together with its  *)
(* newline, and that fits msg_buf, is whole in the file, however often the *)
(* ring went round and whichever threads wrote; and the file outgrows the  *)
(* ring only by a piece longer than the ring.                              *)
RingKeepsNewest ==
  LET bytes == g_ring_file.bytes
      fits == newest_len + 1 <= g_ring_max_size /\ newest_len < MsgBuf IN
  /\ g_ring_file.open /\ g_log_mutex = NULL /\ newest_len > 0 /\ fits =>
       /\ \E a \in 0..(Len(bytes) - newest_len) :
            SubSeq(bytes, a + 1, a + newest_len) = Piece("message", newest_len)
       /\ \E k \in DOMAIN bytes : bytes[k].of = "newline"
  /\ \/ Len(bytes) <= g_ring_max_size
     \/ \E n \in MetaLen \cup MsgLen \cup {1} : n > g_ring_max_size /\ Len(bytes) <= n
=============================================================================
