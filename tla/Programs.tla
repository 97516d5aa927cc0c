------------------------------ MODULE Programs ------------------------------
(***************************************************************************)
(* The two programs over their ZeroMQ sockets.  A worker opens its socket, *)
(* joins and then sends heartbeats (worker/src/main.c); the master opens   *)
(* its own and reads it in its main loop (master/src/main.c); a signal     *)
(* asks either to stop.  What is modelled is which frame each zmq_recv     *)
(* takes, so every receive is a step of its own, a blocking receive waits  *)
(* for a frame or a signal, and what a program holds is let go of where    *)
(* the code does it.                                                       *)
(***************************************************************************)
EXTENDS Integers, Sequences

CONSTANTS
  Worker, Master,
  Number,          \* Number[w] = atoi of what follows "worker-" in w's identity
  MAX_ATTEMPTS,    \* attempts < 50 in the join loop
  MaxHeartbeats,   \* bound: heartbeats a worker sends
  MaxSignals       \* bound: signals sent to the programs

Program == Worker \cup {Master}

VARIABLES
  at,              \* at[p]: where p's main function is
  held,            \* held[p]: what p has to give back before it ends
  signals,         \* how many signals were sent
  flagged,         \* programs whose handler has set the stop flag
  interrupted,     \* programs whose blocked receive a signal has ended
  attempts,        \* attempts[w]: of the join loop
  beats,           \* beats[w]: heartbeats sent
  router,          \* frames waiting at the master's ROUTER socket
  dealer,          \* dealer[w]: frames waiting at w's DEALER socket
  id_buf,          \* the frame the master took for the sender's identity
  online           \* numbers of the members registered ONLINE

frames == <<router, dealer, id_buf, online>>
stopping == <<signals, flagged>>
counts == <<attempts, beats>>
vars == <<at, held, stopping, interrupted, counts, frames>>

GoTo(p, place) == at' = [at EXCEPT ![p] = place]

(* Frames: an identity, an envelope with its message code, an empty frame. *)
Identity(w) == [frame |-> "identity", of |-> w]
Envelope(code) == [frame |-> "envelope", code |-> code]
Empty == [frame |-> "empty"]

(* ZeroMQ: what a DEALER sends reaches the ROUTER behind its identity, the *)
(* frames of one message together; what a ROUTER sends goes to the DEALER  *)
(* whose identity is the first frame, and is dropped when there is none.   *)
DealerSend(w, frame) == router' = router \o <<Identity(w), frame>>
RouterSend(to, message) ==
  dealer' = IF to.frame = "identity"
              THEN [dealer EXCEPT ![to.of] = @ \o message] ELSE dealer

(* atoi(id_buf + 7), 0 replaced by 1.  Byte 7 of an envelope is the high   *)
(* byte of its payload length, 0, so an envelope in id_buf gives 1.        *)
worker_id(frame) ==
  IF frame.frame = "identity" /\ Number[frame.of] # 0 THEN Number[frame.of] ELSE 1

(* The steps of start-up are named for what they open.  When one fails,    *)
(* its branch gives back what was opened before and the program ends.      *)
Opens(p) == IF p = Master THEN <<"state", "ctx", "socket", "bind">>
                          ELSE <<"ctx", "socket", "connect", "join">>
MainLoop(p) == IF p = Master THEN "identity" ELSE "loop"

(* Mutant: without a socket the context stays open. *)
GivenBack_KeepsContext(step) ==
  CASE step = "ctx"                -> {"state"}
    [] step = "socket"             -> {"state"}
    [] step \in {"bind", "connect", "join"} -> {"socket", "ctx", "state"}
    [] OTHER                       -> {}

GivenBack(step) ==
  CASE step = "ctx"                -> {"state"}
    [] step = "socket"             -> {"ctx", "state"}
    [] step \in {"bind", "connect", "join"} -> {"socket", "ctx", "state"}
    [] OTHER                       -> {}

Init == /\ at = [p \in Program |-> Opens(p)[1]]
        /\ held = [p \in Program |-> {}]
        /\ signals = 0 /\ flagged = {} /\ interrupted = {}
        /\ attempts = [w \in Worker |-> 0]
        /\ beats = [w \in Worker |-> 0]
        /\ router = <<>>
        /\ dealer = [w \in Worker |-> <<>>]
        /\ id_buf = Empty
        /\ online = {}
-----------------------------------------------------------------------------
(* Start-up.  The last step leaves the master in its loop. *)
Open(p) ==
  \E i \in 1..4 :
    /\ at[p] = Opens(p)[i] /\ at[p] # "join"
    /\ GoTo(p, IF i = 4 THEN MainLoop(p) ELSE Opens(p)[i + 1])
    /\ held' = [held EXCEPT ![p] = @ \cup ({at[p]} \ {"bind", "connect"})]
    /\ UNCHANGED <<stopping, interrupted, counts, frames>>

OpenFails(p) ==
  /\ \E i \in 1..4 : at[p] = Opens(p)[i]
  /\ held' = [held EXCEPT ![p] = @ \ GivenBack(at[p])]
  /\ GoTo(p, "exited")
  /\ UNCHANGED <<stopping, interrupted, counts, frames>>
-----------------------------------------------------------------------------
(* The worker. *)
SendJoin(w) == /\ at[w] = "join"
               /\ DealerSend(w, Envelope("JOIN_REQ"))
               /\ GoTo(w, "joining")
               /\ UNCHANGED <<held, stopping, interrupted, counts, dealer, id_buf, online>>

(* recv_envelope blocks until a frame is there or a signal ends the wait. *)
Takes(w) == IF w \in interrupted
              THEN interrupted' = interrupted \ {w} /\ UNCHANGED dealer
              ELSE /\ dealer[w] # <<>>
                   /\ dealer' = [dealer EXCEPT ![w] = Tail(@)]
                   /\ UNCHANGED interrupted
Answered(w) == w \notin interrupted /\ Head(dealer[w]) = Envelope("JOIN_RESP")

(* One round of the join loop, which does not look at the stop flag. *)
AwaitJoinResp(w) ==
  /\ at[w] = "joining"
  /\ Takes(w)
  /\ attempts' = [attempts EXCEPT ![w] = @ + 1]
  /\ GoTo(w, IF Answered(w) \/ attempts'[w] = MAX_ATTEMPTS THEN "loop" ELSE at[w])
  /\ UNCHANGED <<held, stopping, beats, router, id_buf, online>>

(* A round of the main loop: a heartbeat when the interval has passed, and *)
(* then a receive that blocks.  No message the master sends is acted on.   *)
Heartbeat(w) == /\ at[w] = "loop" /\ w \notin flagged
                /\ GoTo(w, "receiving")
                /\ \/ /\ beats[w] < MaxHeartbeats
                      /\ beats' = [beats EXCEPT ![w] = @ + 1]
                      /\ DealerSend(w, Envelope("HEARTBEAT"))
                   \/ UNCHANGED <<beats, router>>
                /\ UNCHANGED <<held, stopping, interrupted, attempts, dealer, id_buf, online>>

Receive(w) == /\ at[w] = "receiving"
              /\ Takes(w)
              /\ GoTo(w, "loop")
              /\ UNCHANGED <<held, stopping, counts, router, id_buf, online>>
-----------------------------------------------------------------------------
(* The master: zmq_recv of the identity (not blocking), of the delimiter   *)
(* and of the payload (both blocking), whatever the frames are.  A receive *)
(* that a signal ends takes nothing.                                       *)
RecvIdentity == /\ at[Master] = "identity" /\ Master \notin flagged
                /\ router # <<>>
                /\ GoTo(Master, "delimiter")
                /\ id_buf' = Head(router)
                /\ router' = Tail(router)
                /\ UNCHANGED <<held, stopping, interrupted, counts, dealer, online>>

RecvDelimiter ==
  /\ at[Master] = "delimiter"
  /\ GoTo(Master, "payload")
  /\ \/ Master \in interrupted /\ UNCHANGED router
     \/ Master \notin interrupted /\ router # <<>> /\ router' = Tail(router)
  /\ interrupted' = interrupted \ {Master}
  /\ UNCHANGED <<held, stopping, counts, dealer, id_buf, online>>

(* Anything shorter than an envelope, or not of version 1, is ignored; a   *)
(* heartbeat leaves the member ONLINE, or is of a number not registered.   *)
RecvPayload ==
  /\ at[Master] = "payload"
  /\ Master \notin interrupted /\ router # <<>>
  /\ GoTo(Master, "identity")
  /\ router' = Tail(router)
  /\ IF Head(router) = Envelope("JOIN_REQ")
       THEN /\ online' = online \cup {worker_id(id_buf)}
            /\ RouterSend(id_buf, <<Empty, Envelope("JOIN_RESP")>>)
       ELSE UNCHANGED <<online, dealer>>
  /\ UNCHANGED <<held, stopping, interrupted, counts, id_buf>>

PayloadInterrupted ==
  /\ at[Master] = "payload" /\ Master \in interrupted
  /\ GoTo(Master, "identity")
  /\ interrupted' = interrupted \ {Master}
  /\ UNCHANGED <<held, stopping, counts, frames>>
-----------------------------------------------------------------------------
(* The end, the same in both: the loop's condition, the socket, the        *)
(* context (which waits for its sockets) and the master's cluster state.   *)
LeaveLoop(p) == /\ at[p] = MainLoop(p) /\ p \in flagged
                /\ GoTo(p, "closing")
                /\ UNCHANGED <<held, stopping, interrupted, counts, frames>>

Release(p, what, place) == /\ held' = [held EXCEPT ![p] = @ \ {what}]
                           /\ GoTo(p, place)
                           /\ UNCHANGED <<stopping, interrupted, counts, frames>>
CloseSocket(p) == at[p] = "closing" /\ Release(p, "socket", "destroying")
DestroyContext(p) ==
  /\ at[p] = "destroying" /\ "socket" \notin held[p]
  /\ Release(p, "ctx", IF p = Master THEN "freeing" ELSE "exited")
FreeState == at[Master] = "freeing" /\ Release(Master, "state", "exited")

(* SIGINT or SIGTERM: the handler sets the flag.  A receive that is blocked *)
(* ends; one that is just about to block does not notice.                   *)
Blocked(p) == IF p = Master
                THEN at[p] \in {"delimiter", "payload"} /\ router = <<>>
                ELSE at[p] \in {"joining", "receiving"} /\ dealer[p] = <<>>
Signal(p) == /\ at[p] # "exited" /\ signals < MaxSignals
             /\ signals' = signals + 1
             /\ flagged' = flagged \cup {p}
             /\ \/ Blocked(p) /\ interrupted' = interrupted \cup {p}
                \/ UNCHANGED interrupted
             /\ UNCHANGED <<at, held, counts, frames>>

(* A worker's machine goes down. *)
PowerOff(w) == /\ at[w] # "exited"
               /\ GoTo(w, "exited")
               /\ held' = [held EXCEPT ![w] = {}]
               /\ interrupted' = interrupted \ {w}
               /\ UNCHANGED <<stopping, counts, frames>>

Step(p) == Open(p) \/ LeaveLoop(p) \/ CloseSocket(p) \/ DestroyContext(p)
WorkerStep(w) ==
  Step(w) \/ SendJoin(w) \/ AwaitJoinResp(w) \/ Heartbeat(w) \/ Receive(w)
MasterStep == \/ Step(Master) \/ FreeState
              \/ RecvIdentity \/ RecvDelimiter \/ RecvPayload \/ PayloadInterrupted
Next == \/ \E w \in Worker : WorkerStep(w) \/ PowerOff(w)
        \/ MasterStep
        \/ \E p \in Program : OpenFails(p) \/ Signal(p)

(* Both programs are scheduled; nothing has to fail or to be signalled. *)
Spec == /\ Init /\ [][Next]_vars
        /\ \A w \in Worker : WF_vars(WorkerStep(w))
        /\ WF_vars(MasterStep)
-----------------------------------------------------------------------------
TypeOK ==
  /\ held \in [Program -> SUBSET {"state", "ctx", "socket"}]
  /\ signals \in 0..MaxSignals
  /\ flagged \subseteq Program /\ interrupted \subseteq Program
  /\ attempts \in [Worker -> 0..MAX_ATTEMPTS]
  /\ beats \in [Worker -> 0..MaxHeartbeats]

(* Safety, the error branches and the teardown of both main functions: on  *)
(* whatever path a program ends, it has given back all it opened, and it   *)
(* is in its loops only with all of it.                                    *)
NothingLeftOpen ==
  \A p \in Program :
    LET all == IF p = Master THEN {"state", "ctx", "socket"} ELSE {"ctx", "socket"} IN
    /\ at[p] = "exited" => held[p] = {}
    /\ at[p] \in {"joining", "loop", "receiving", "identity", "delimiter", "payload",
                  "closing"} => held[p] = all

(* Liveness, the loops' conditions and the teardown: a program that sees a *)
(* signal at its loop's condition, or in the last receive of a round, ends. *)
(* (The master blocked for a delimiter goes on to wait for the payload.)    *)
SeenSignalEnds ==
  \A p \in Program :
    \/ at[p] = MainLoop(p) /\ p \in flagged
    \/ at[p] \in {"receiving", "payload"} /\ p \in interrupted
    ~> at[p] = "exited"

(* Liveness, "No JOIN_RESP received. Continuing anyway." (worker/src/main.c, *)
(* line 239): every worker gets past its join loop, answered or not.         *)
JoinLoopEnds == \A w \in Worker : at[w] = "joining" ~> at[w] # "joining"

(* Liveness, "Workers that stop sending heartbeats will be marked offline    *)
(* by the recovery subsystem." (master/src/main.c, line 397): once all       *)
(* workers are gone, no member stays ONLINE while the master is up.          *)
SilentMarkedOffline ==
  (\A w \in Worker : at[w] = "exited") ~> (online = {} \/ at[Master] = "exited")
=============================================================================
