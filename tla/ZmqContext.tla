------------------------------ MODULE ZmqContext ------------------------------
(***************************************************************************)
(* The process-wide ZeroMQ context of common/src/zmq_context.c and its use *)
(* by vom_zmq_make_socket (common/src/zmq_sockets.c).  Threads share the   *)
(* context of their process by reference count; a fork copies the          *)
(* variables, and the child must not touch its parent's context.  A        *)
(* process is known by its first thread.  A thread gives back only what it *)
(* took itself, after it has closed its socket.                            *)
(***************************************************************************)
EXTENDS Integers, FiniteSets

CONSTANTS Thread,
          MainThread,      \* the thread the program starts with
          NULL,
          MaxContexts,     \* bound: contexts ever made
          MaxLeaks         \* bound: sockets that could not be made

VARIABLES
  g_zmq_context, g_context_ref_count, g_context_owner_pid,  \* by process
  g_zmq_ctx_mutex,         \* by process: the thread that holds it, or NULL
  made,                    \* external: the process that made each context
  terminated,              \* external: contexts zmq_ctx_term has freed
  thread,                  \* by thread: its process, what it does, its context
  lost                     \* by process: references no caller can give back

vars == <<g_zmq_context, g_context_ref_count, g_context_owner_pid,
          g_zmq_ctx_mutex, made, terminated, thread, lost>>

Context == 1..MaxContexts
Unborn == [pid |-> NULL, at |-> "unborn", ctx |-> NULL]
Idle(pid) == [pid |-> pid, at |-> "idle", ctx |-> NULL]
Holding == {"context", "open", "closed"}

TypeOK ==
  /\ g_zmq_context \in [Thread -> Context \cup {NULL}]
  /\ g_context_ref_count \in [Thread -> Nat]
  /\ g_context_owner_pid \in [Thread -> Thread \cup {NULL}]
  /\ g_zmq_ctx_mutex \in [Thread -> Thread \cup {NULL}]
  /\ made \in [Context -> Thread \cup {NULL}]
  /\ terminated \subseteq Context
  /\ thread \in [Thread -> [pid : Thread \cup {NULL},
                            at : {"unborn", "idle", "terminating"} \cup Holding,
                            ctx : Context \cup {NULL}]]
  /\ lost \in [Thread -> 0..MaxLeaks]

Init == /\ g_zmq_context = [p \in Thread |-> NULL]
        /\ g_context_ref_count = [p \in Thread |-> 0]
        /\ g_context_owner_pid = [p \in Thread |-> NULL]
        /\ g_zmq_ctx_mutex = [p \in Thread |-> NULL]
        /\ made = [c \in Context |-> NULL] /\ terminated = {}
        /\ thread = [t \in Thread |-> IF t = MainThread THEN Idle(MainThread) ELSE Unborn]
        /\ lost = [p \in Thread |-> 0]
-----------------------------------------------------------------------------
(* Mutant: a child goes on with the context of its parent. *)
MustMake_SamePid(p) == g_zmq_context[p] = NULL

(* Process p has no context it may use: none, or its parent's. *)
MustMake(p) == g_zmq_context[p] = NULL \/ g_context_owner_pid[p] # p

(* vom_zmq_context, at the start of vom_zmq_make_socket.  zmq_ctx_new may  *)
(* fail: the parent's context is forgotten all the same.                   *)
MakeContext(t, p) ==
  \/ \E c \in Context :
       /\ made[c] = NULL /\ \A d \in Context : d < c => made[d] # NULL
       /\ made' = [made EXCEPT ![c] = p]
       /\ g_zmq_context' = [g_zmq_context EXCEPT ![p] = c]
       /\ g_context_owner_pid' = [g_context_owner_pid EXCEPT ![p] = p]
       /\ g_context_ref_count' = [g_context_ref_count EXCEPT ![p] = 1]
       /\ thread' = [thread EXCEPT ![t].at = "context", ![t].ctx = c]
  \/ /\ g_zmq_context' = [g_zmq_context EXCEPT ![p] = NULL]
     /\ g_context_ref_count' =
          [g_context_ref_count EXCEPT ![p] = IF g_zmq_context[p] = NULL THEN @ ELSE 0]
     /\ UNCHANGED <<made, g_context_owner_pid, thread>>

TakeReference(t, p) ==
  /\ g_context_ref_count' = [g_context_ref_count EXCEPT ![p] = @ + 1]
  /\ thread' = [thread EXCEPT ![t].at = "context", ![t].ctx = g_zmq_context[p]]
  /\ UNCHANGED <<made, g_zmq_context, g_context_owner_pid>>

vom_zmq_context(t) ==
  LET p == thread[t].pid IN
  /\ thread[t].at = "idle" /\ g_zmq_ctx_mutex[p] = NULL
  /\ IF MustMake(p) THEN MakeContext(t, p) ELSE TakeReference(t, p)
  /\ UNCHANGED <<g_zmq_ctx_mutex, terminated, lost>>

(* The rest of vom_zmq_make_socket: a socket, or NULL when there is no     *)
(* endpoint or zmq_socket, zmq_bind or zmq_connect fails.  The reference   *)
(* is kept although the caller is not given anything to close.             *)
vom_zmq_make_socket(t) ==
  LET p == thread[t].pid IN
  /\ thread[t].at = "context"
  /\ \/ thread' = [thread EXCEPT ![t].at = "open"] /\ UNCHANGED lost
     \/ /\ lost[p] < MaxLeaks /\ lost' = [lost EXCEPT ![p] = @ + 1]
        /\ thread' = [thread EXCEPT ![t] = Idle(p)]
  /\ UNCHANGED <<g_zmq_context, g_context_ref_count, g_context_owner_pid,
                 g_zmq_ctx_mutex, made, terminated>>

(* The owner of a socket closes it. *)
zmq_close(t) ==
  /\ thread[t].at = "open"
  /\ thread' = [thread EXCEPT ![t].at = "closed"]
  /\ UNCHANGED <<g_zmq_context, g_context_ref_count, g_context_owner_pid,
                 g_zmq_ctx_mutex, made, terminated, lost>>

(* The reference given back is the last one. *)
IsLast(p) == g_context_ref_count[p] - 1 <= 0

(* vom_zmq_context_term, up to zmq_ctx_term, which is called under the     *)
(* mutex.                                                                  *)
vom_zmq_context_term(t) ==
  LET p == thread[t].pid
      mine == g_zmq_context[p] # NULL /\ g_context_owner_pid[p] = p IN
  /\ thread[t].at = "closed" /\ g_zmq_ctx_mutex[p] = NULL
  /\ IF mine
       THEN g_context_ref_count' = [g_context_ref_count EXCEPT ![p] = @ - 1]
       ELSE UNCHANGED g_context_ref_count
  /\ IF mine /\ IsLast(p)
       THEN /\ g_zmq_ctx_mutex' = [g_zmq_ctx_mutex EXCEPT ![p] = t]
            /\ thread' = [thread EXCEPT ![t].at = "terminating"]
       ELSE /\ thread' = [thread EXCEPT ![t] = Idle(p)]
            /\ UNCHANGED g_zmq_ctx_mutex
  /\ UNCHANGED <<g_zmq_context, g_context_owner_pid, made, terminated, lost>>

(* zmq_ctx_term returns once every socket of the context is closed. *)
zmq_ctx_term(t) ==
  LET p == thread[t].pid
      c == g_zmq_context[p] IN
  /\ thread[t].at = "terminating"
  /\ \A u \in Thread : ~(thread[u].at = "open" /\ thread[u].ctx = c)
  /\ terminated' = terminated \cup {c}
  /\ g_zmq_context' = [g_zmq_context EXCEPT ![p] = NULL]
  /\ g_context_owner_pid' = [g_context_owner_pid EXCEPT ![p] = NULL]
  /\ g_context_ref_count' = [g_context_ref_count EXCEPT ![p] = 0]
  /\ g_zmq_ctx_mutex' = [g_zmq_ctx_mutex EXCEPT ![p] = NULL]
  /\ thread' = [thread EXCEPT ![t] = Idle(p)]
  /\ UNCHANGED <<made, lost>>

pthread_create(t, u) ==
  /\ thread[t].at = "idle" /\ thread[u] = Unborn
  /\ thread' = [thread EXCEPT ![u] = Idle(thread[t].pid)]
  /\ UNCHANGED <<g_zmq_context, g_context_ref_count, g_context_owner_pid,
                 g_zmq_ctx_mutex, made, terminated, lost>>

(* The child has one thread and a copy of the variables, the mutex among   *)
(* them: held by a thread the child does not have, it is never released.   *)
fork(t, u) ==
  LET p == thread[t].pid IN
  /\ thread[t].at \in {"idle", "open"} /\ thread[u] = Unborn
  /\ thread' = [thread EXCEPT ![u] = Idle(u)]
  /\ g_zmq_context' = [g_zmq_context EXCEPT ![u] = g_zmq_context[p]]
  /\ g_context_ref_count' = [g_context_ref_count EXCEPT ![u] = g_context_ref_count[p]]
  /\ g_context_owner_pid' = [g_context_owner_pid EXCEPT ![u] = g_context_owner_pid[p]]
  /\ g_zmq_ctx_mutex' = [g_zmq_ctx_mutex EXCEPT ![u] = g_zmq_ctx_mutex[p]]
  /\ UNCHANGED <<made, terminated, lost>>

Next == \E t \in Thread : \/ vom_zmq_context(t) \/ vom_zmq_make_socket(t)
                          \/ zmq_close(t)
                          \/ vom_zmq_context_term(t) \/ zmq_ctx_term(t)
                          \/ \E u \in Thread : pthread_create(t, u) \/ fork(t, u)

Spec == Init /\ [][Next]_vars
-----------------------------------------------------------------------------
Users(p) == {t \in Thread : thread[t].pid = p /\ thread[t].at \in Holding}

(* Safety, vom_zmq_context and vom_zmq_context_term: a thread that took    *)
(* the context finds it alive, made by its own process and still its       *)
(* process's current one, whatever other threads give back and whichever   *)
(* process was forked in between; and the count of a process that owns its *)
(* context is the number of its users and of the references that failed    *)
(* calls of vom_zmq_make_socket left behind.                               *)
ContextOutlivesUse ==
  /\ \A p \in Thread : \A t \in Users(p) :
       /\ thread[t].ctx \notin terminated
       /\ made[thread[t].ctx] = p /\ g_zmq_context[p] = thread[t].ctx
  /\ \A p \in Thread : g_context_owner_pid[p] = p =>
       g_context_ref_count[p] = Cardinality(Users(p)) + lost[p]
=============================================================================
