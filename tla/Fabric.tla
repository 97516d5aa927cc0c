------------------------------- MODULE Fabric -------------------------------
(***************************************************************************)
(* The message libraries at both ends: the master's router                 *)
(* (master/src/router.c), called by several threads, and the workers'      *)
(* transport (worker/src/transport.c), over ZeroMQ.  A message is a        *)
(* sequence of frames that ZeroMQ hands over when its last frame was sent. *)
(***************************************************************************)
EXTENDS Integers, Sequences, FiniteSets

CONSTANTS Worker, Thread,
          MaxSent,          \* bound: messages the router sends
          MaxReports        \* bound: messages a worker sends

Codes == {"AUTH_RESP", "JOIN_RESP", "CHUNK_ASSIGN"}
None == "none"

ASSUME FabricSizes == MaxSent \in Nat /\ MaxReports \in Nat /\ None \notin Thread

VARIABLES
  bound,                    \* a socket of the router is bound to its endpoint
  zmq_sock,                 \* ctx->zmq_sock is not NULL
  is_running, next_seq_id, write_lock,
  sending,                  \* per thread: the message it is sending
  outgoing,                 \* frames the ROUTER socket has been given so far
  router_in,                \* messages waiting at the ROUTER socket
  dispatched,               \* messages of workers given to the callback
  connected, is_authenticated, is_joined,   \* per worker, as is worker_seq:
  stranded,                 \* an earlier socket, never closed, has its identity
  worker_seq,               \* messages it has sent
  dealer_in,                \* frames waiting at its DEALER socket
  received                  \* envelopes given to its callback since it connected

sockVars == <<bound, zmq_sock>>
routerVars == <<sockVars, is_running, next_seq_id, write_lock, sending, outgoing>>
workerVars == <<connected, stranded, is_authenticated, is_joined, worker_seq, received>>
fabricVars == <<routerVars, router_in, dispatched, workerVars, dealer_in>>

Identity(w) == [frame |-> "identity", of |-> w]
Empty == [frame |-> "empty"]
(* to is history: the worker the sender meant. *)
Envelope(to, code, seq) ==
  [frame |-> "envelope", to |-> to, code |-> code, seq |-> seq]

NotSending == [step |-> "idle", to |-> None, code |-> None, seq |-> 0]

FabricInit ==
  /\ bound = FALSE /\ zmq_sock = FALSE
  /\ stranded = [w \in Worker |-> FALSE]
  /\ is_running = FALSE /\ next_seq_id = 1 /\ write_lock = None
  /\ sending = [t \in Thread |-> NotSending]
  /\ outgoing = <<>> /\ router_in = <<>> /\ dispatched = <<>>
  /\ connected = [w \in Worker |-> FALSE]
  /\ is_authenticated = [w \in Worker |-> FALSE]
  /\ is_joined = [w \in Worker |-> FALSE]
  /\ worker_seq = [w \in Worker |-> 0]
  /\ dealer_in = [w \in Worker |-> <<>>]
  /\ received = [w \in Worker |-> <<>>]
-----------------------------------------------------------------------------
(* The router. *)
(* zmq_sock is set to a new socket, and to NULL when the bind fails: as it *)
(* does when the router's earlier socket, which stop leaves open, has the  *)
(* endpoint.                                                               *)
start == /\ zmq_sock' = ~bound
         /\ bound' = TRUE
         /\ is_running' = (is_running \/ ~bound)
         /\ UNCHANGED <<next_seq_id, write_lock, sending, outgoing, router_in,
                        dispatched, workerVars, dealer_in>>
stop == /\ is_running /\ is_running' = FALSE
        /\ UNCHANGED <<sockVars, next_seq_id, write_lock, sending, outgoing, router_in,
                       dispatched, workerVars, dealer_in>>

(* send_to_worker: the test, which stop or start may undo at once.         *)
send_to_worker(t, w, code) ==
  /\ sending[t] = NotSending
  /\ zmq_sock /\ is_running
  /\ sending' = [sending EXCEPT ![t] = [step |-> "lock", to |-> w, code |-> code, seq |-> 0]]
  /\ UNCHANGED <<sockVars, is_running, next_seq_id, write_lock, outgoing, router_in,
                 dispatched, workerVars, dealer_in>>

(* Mutant: no lock. *)
Acquire_NoWait(t) == write_lock' = t

(* write_lock is taken, and with it the sequence id. *)
Acquire(t) == /\ write_lock = None /\ write_lock' = t
LockAndNumber(t) ==
  /\ sending[t].step = "lock"
  /\ next_seq_id <= MaxSent
  /\ Acquire(t)
  /\ next_seq_id' = next_seq_id + 1
  /\ sending' = [sending EXCEPT ![t].step = "identity", ![t].seq = next_seq_id]
  /\ UNCHANGED <<sockVars, is_running, outgoing, router_in, dispatched, workerVars, dealer_in>>

(* zmq_send with ZMQ_SNDMORE: the identity, then the empty delimiter. *)
SendPart(t) ==
  /\ sending[t].step \in {"identity", "delimiter"} /\ zmq_sock
  /\ IF sending[t].step = "identity"
       THEN /\ outgoing' = Append(outgoing, Identity(sending[t].to))
            /\ sending' = [sending EXCEPT ![t].step = "delimiter"]
       ELSE /\ outgoing' = Append(outgoing, Empty)
            /\ sending' = [sending EXCEPT ![t].step = "envelope"]
  /\ UNCHANGED <<sockVars, is_running, next_seq_id, write_lock, router_in, dispatched,
                 workerVars, dealer_in>>

(* The last frame, and the unlock.  ZeroMQ delivers the message to the     *)
(* DEALER its first frame names, or drops it when that one is not there.   *)
SendLast(t) ==
  LET message == Append(outgoing, Envelope(sending[t].to, sending[t].code, sending[t].seq))
      to == message[1]
  IN  /\ sending[t].step = "envelope" /\ zmq_sock
      /\ dealer_in' = IF /\ to.frame = "identity"
                         /\ connected[to.of] /\ ~stranded[to.of]
                        THEN [dealer_in EXCEPT ![to.of] = @ \o Tail(message)]
                        ELSE dealer_in
      /\ outgoing' = <<>>
      /\ write_lock' = None
      /\ sending' = [sending EXCEPT ![t] = NotSending]
      /\ UNCHANGED <<sockVars, is_running, next_seq_id, router_in, dispatched, workerVars>>

(* zmq_send on a NULL socket fails: unlock and return. *)
SendFails(t) ==
  /\ sending[t].step \in {"identity", "delimiter", "envelope"} /\ ~zmq_sock
  /\ write_lock' = None
  /\ sending' = [sending EXCEPT ![t] = NotSending]
  /\ UNCHANGED <<sockVars, is_running, next_seq_id, outgoing, router_in,
                 dispatched, workerVars, dealer_in>>

(* run_once reads identity and delimiter, and gives up unless the message  *)
(* has a third frame.                                                      *)
run_once == /\ zmq_sock /\ is_running /\ router_in # <<>>
            /\ router_in' = Tail(router_in)
            /\ dispatched' = IF Len(Head(router_in)) >= 3
                               THEN Append(dispatched, Head(router_in)) ELSE dispatched
            /\ UNCHANGED <<routerVars, workerVars, dealer_in>>
-----------------------------------------------------------------------------
(* A worker's transport. *)
(* A new socket.  One that is still open keeps the worker's identity, and  *)
(* ZeroMQ's ROUTER does not hear a second peer of the same identity.       *)
connect(w) == /\ connected' = [connected EXCEPT ![w] = TRUE]
              /\ stranded' = [stranded EXCEPT ![w] = @ \/ connected[w]]
              /\ received' = [received EXCEPT ![w] = <<>>]
              /\ dealer_in' = [dealer_in EXCEPT ![w] = <<>>]
              /\ UNCHANGED <<routerVars, router_in, dispatched, is_authenticated,
                             is_joined, worker_seq>>

(* Mutant: the flags stay set. *)
disconnect_StaysJoined(w) ==
  /\ connected[w]
  /\ connected' = [connected EXCEPT ![w] = FALSE]
  /\ dealer_in' = [dealer_in EXCEPT ![w] = <<>>]
  /\ UNCHANGED <<routerVars, router_in, dispatched, is_authenticated, is_joined,
                 stranded, worker_seq, received>>

(* zmq_close: what was waiting at the socket is gone. *)
disconnect(w) ==
  /\ connected[w]
  /\ connected' = [connected EXCEPT ![w] = FALSE]
  /\ is_authenticated' = [is_authenticated EXCEPT ![w] = FALSE]
  /\ is_joined' = [is_joined EXCEPT ![w] = FALSE]
  /\ dealer_in' = [dealer_in EXCEPT ![w] = <<>>]
  /\ UNCHANGED <<routerVars, router_in, dispatched, stranded, worker_seq, received>>

(* One frame, to which ZeroMQ adds the identity. *)
send(w) ==
  /\ connected[w] /\ worker_seq[w] < MaxReports
  /\ worker_seq' = [worker_seq EXCEPT ![w] = @ + 1]
  /\ router_in' = IF stranded[w] THEN router_in
                  ELSE Append(router_in, <<Identity(w), Envelope(None, "HEARTBEAT", worker_seq'[w])>>)
  /\ UNCHANGED <<routerVars, dispatched, connected, stranded, is_authenticated, is_joined,
                 dealer_in, received>>

(* One frame is taken; one that is no envelope is an error event only. *)
poll(w) ==
  LET f == Head(dealer_in[w])
  IN  /\ connected[w] /\ dealer_in[w] # <<>>
      /\ dealer_in' = [dealer_in EXCEPT ![w] = Tail(@)]
      /\ IF f.frame = "envelope"
           THEN /\ received' = [received EXCEPT ![w] = Append(@, f)]
                /\ is_authenticated' =
                     [is_authenticated EXCEPT ![w] = @ \/ f.code = "AUTH_RESP"]
                /\ is_joined' = [is_joined EXCEPT ![w] = @ \/ f.code = "JOIN_RESP"]
           ELSE UNCHANGED <<received, is_authenticated, is_joined>>
      /\ UNCHANGED <<routerVars, router_in, dispatched, connected, stranded, worker_seq>>
-----------------------------------------------------------------------------
SendStep(t) == LockAndNumber(t) \/ SendPart(t) \/ SendLast(t) \/ SendFails(t)
FabricNext ==
  \/ start \/ stop \/ run_once
  \/ \E t \in Thread : \/ \E w \in Worker, c \in Codes : send_to_worker(t, w, c)
                       \/ SendStep(t)
  \/ \E w \in Worker : connect(w) \/ disconnect(w) \/ send(w) \/ poll(w)

FabricSpec == FabricInit /\ [][FabricNext]_fabricVars
-----------------------------------------------------------------------------
(* Type invariant; write_lock is held only by a thread that is between      *)
(* numbering its message and its last frame.                                *)
FabricTypeOK ==
  /\ bound \in BOOLEAN /\ zmq_sock \in BOOLEAN
  /\ stranded \in [Worker -> BOOLEAN]
  /\ is_running \in BOOLEAN
  /\ next_seq_id \in 1..(MaxSent + 1)
  /\ write_lock \in Thread \cup {None}
  /\ \A t \in Thread : sending[t].step \in
       {"idle", "lock", "identity", "delimiter", "envelope"}
  /\ \A t \in Thread : write_lock = t =>
       sending[t].step \in {"identity", "delimiter", "envelope"}
  /\ connected \in [Worker -> BOOLEAN]
  /\ is_authenticated \in [Worker -> BOOLEAN]
  /\ is_joined \in [Worker -> BOOLEAN]

(* Safety: a worker is given only envelopes meant for it, and in the order *)
(* of their sequence ids, although several threads send at a time.         *)
OwnAndInOrder ==
  /\ FabricTypeOK
  /\ \A w \in Worker :
       /\ \A i \in DOMAIN received[w] : received[w][i].to = w
       /\ \A i, j \in DOMAIN received[w] :
            i < j => received[w][i].seq < received[w][j].seq

(* Safety: a worker believes itself joined only if it was sent a JOIN_RESP *)
(* on the connection it has now: no answer outlives a reconnection (unless *)
(* connect is called twice with no disconnect between).                    *)
JoinedOnThisConnection ==
  \A w \in Worker :
    is_joined[w] /\ ~stranded[w] =>
      /\ connected[w]
      /\ \E i \in DOMAIN received[w] : received[w][i].code = "JOIN_RESP"
=============================================================================
