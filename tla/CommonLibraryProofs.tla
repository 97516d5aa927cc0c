------------------------- MODULE CommonLibraryProofs -------------------------
(***************************************************************************)
(* Proofs about the common library: the shared ZeroMQ context, the log's   *)
(* ring and the configuration file, for any threads, sizes and lines.      *)
(***************************************************************************)
EXTENDS CommonLibrary, Sequences, FiniteSetTheorems, TLAPS

(* One part of the library moves, the others rest. *)
LEMMA OneMoves ==
  ASSUME [CommonNext]_common
  PROVE  /\ Zmq!Next \/ UNCHANGED context
         /\ Log!Next \/ UNCHANGED logring
         /\ Settings!Next \/ UNCHANGED settings
BY Zenon DEF CommonNext, ZmqStep, LogStep, SettingsStep, common

(* Sequences: what the log's bytes and the file's lines are. *)
LEMMA SeqOfFunction ==
  ASSUME NEW T, NEW n \in Nat, NEW f \in [1..n -> T]
  PROVE  f \in Seq(T) /\ Len(f) = n
OBVIOUS

LEMMA SeqSame ==
  ASSUME NEW T, NEW s \in Seq(T), NEW r \in Seq(T), Len(s) = Len(r),
         \A i \in 1..Len(s) : s[i] = r[i]
  PROVE  s = r
OBVIOUS

-----------------------------------------------------------------------------
(* ZmqContext.  A thread that was born is of a process that was; one that  *)
(* uses a context uses the one its process owns; and one that terminates   *)
(* it holds the mutex and is alone with it.                                *)
Born(t) ==
  /\ thread[t].at = "unborn" => thread[t].pid = NULL
  /\ thread[t].at # "unborn" =>
       thread[t].pid \in Thread /\ thread[thread[t].pid].at # "unborn"
Fits(t) ==
  LET p == thread[t].pid IN
  /\ thread[t].at \in Zmq!Holding =>
       g_context_owner_pid[p] = p /\ g_zmq_context[p] = thread[t].ctx
  /\ thread[t].at = "terminating" =>
       /\ g_zmq_ctx_mutex[p] = t /\ g_context_owner_pid[p] = p
       /\ lost[p] = 0
       /\ \A u \in Thread : thread[u].pid = p => thread[u].at \notin Zmq!Holding

(* A process that owns its context made it, has not terminated it and      *)
(* counts its users; only such a process has lost references.              *)
Owns(p) ==
  /\ g_context_owner_pid[p] \in Thread => thread[g_context_owner_pid[p]].at # "unborn"
  /\ lost[p] > 0 => g_context_owner_pid[p] = p
  /\ g_context_owner_pid[p] = p =>
       /\ g_zmq_context[p] \in Zmq!Context \ terminated /\ made[g_zmq_context[p]] = p
       /\ g_context_ref_count[p] = Cardinality(Zmq!Users(p)) + lost[p]
ZmqInv == /\ Zmq!TypeOK
          /\ \A t \in Thread : Born(t) /\ Fits(t)
          /\ \A p \in Thread : Owns(p)
          /\ \A c \in terminated : made[c] # NULL

(* A step of thread t within its process p. *)
StepOf(t, p) ==
  /\ thread[t].pid = p /\ thread'[t].pid = p
  /\ thread[t].at # "unborn" /\ thread'[t].at # "unborn"
  /\ \A u \in Thread \ {t} : thread'[u] = thread[u]
  /\ \A q \in Thread \ {p} :
       /\ g_zmq_context'[q] = g_zmq_context[q]
       /\ g_context_ref_count'[q] = g_context_ref_count[q]
       /\ g_context_owner_pid'[q] = g_context_owner_pid[q]
       /\ g_zmq_ctx_mutex'[q] = g_zmq_ctx_mutex[q] /\ lost'[q] = lost[q]
  /\ \A c \in Zmq!Context : made[c] # NULL => made'[c] = made[c]
  /\ \A c \in terminated' : c \in terminated \/ made[c] = p

LEMMA UsersFinite ==
  ASSUME NEW p
  PROVE  /\ IsFiniteSet(Zmq!Users(p)) /\ Cardinality(Zmq!Users(p)) \in Nat
         /\ Zmq!Users(p) \in SUBSET Thread
<1>1. Zmq!Users(p) \in SUBSET Thread
  BY Zenon DEF Zmq!Users
<1> QED BY Zenon, <1>1, ContextSizes, FS_Subset, FS_CardinalityType

(* Such a step leaves the other processes and their threads alone. *)
LEMMA OthersAlone ==
  ASSUME ZmqInv, NEW t \in Thread, NEW p \in Thread, StepOf(t, p)
  PROVE  /\ \A u \in Thread : Born(u)'
         /\ \A u \in Thread : thread[u].pid # p => Fits(u)'
         /\ \A q \in Thread \ {p} : Owns(q)'
         /\ \A u \in Thread : thread[u].at # "unborn" => thread'[u].at # "unborn"
<1>1. \A u \in Thread : Born(u) /\ Fits(u) /\ Owns(u)
  BY Zenon DEF ZmqInv
<1>2. \A u \in Thread : /\ thread'[u].pid = thread[u].pid
                        /\ thread'[u].at = "unborn" <=> thread[u].at = "unborn"
  BY Zenon DEF StepOf
<1>3. ASSUME NEW u \in Thread PROVE Born(u)'
  BY ZenonT(60), <1>1, <1>2 DEF Born
<1>4. ASSUME NEW q \in Thread \ {p} PROVE Zmq!Users(q)' = Zmq!Users(q)
  <2>1. ASSUME NEW u \in Thread, thread[u].pid = q \/ thread'[u].pid = q
        PROVE  thread'[u] = thread[u]
    BY Zenon, <2>1 DEF StepOf
  <2> QED BY Zenon, <2>1 DEF Zmq!Users
<1>5. ASSUME NEW u \in Thread, thread[u].pid # p PROVE Fits(u)'
  <2>1. thread'[u] = thread[u]
    BY Zenon, <1>5 DEF StepOf
  <2>2. CASE thread[u].at \in Zmq!Holding \cup {"terminating"}
    <3>1. thread[u].at # "unborn"
      BY Zenon, <2>2 DEF Zmq!Holding
    <3>2. thread[u].pid \in Thread \ {p}
      BY Zenon, <1>1, <1>5, <3>1 DEF Born
    <3>3. PICK q \in Thread \ {p} : q = thread[u].pid
      BY Zenon, <3>2
    <3>4. Fits(u)
      BY Zenon, <1>1
    <3>5. \A v \in Thread : thread'[v].pid = q => thread'[v] = thread[v]
      BY Zenon DEF StepOf
    <3>6. /\ g_zmq_context'[q] = g_zmq_context[q] /\ g_zmq_ctx_mutex'[q] = g_zmq_ctx_mutex[q]
          /\ g_context_owner_pid'[q] = g_context_owner_pid[q] /\ lost'[q] = lost[q]
      BY Zenon DEF StepOf
    <3> QED BY Zenon, <2>1, <3>3, <3>4, <3>5, <3>6 DEF Fits
  <2>3. CASE ~(thread[u].at \in Zmq!Holding \cup {"terminating"})
    BY Zenon, <2>1, <2>3 DEF Fits
  <2> QED BY Zenon, <2>2, <2>3
<1>6. ASSUME NEW q \in Thread \ {p} PROVE Owns(q)'
  <2>1. /\ g_zmq_context'[q] = g_zmq_context[q]
        /\ g_context_ref_count'[q] = g_context_ref_count[q]
        /\ g_context_owner_pid'[q] = g_context_owner_pid[q] /\ lost'[q] = lost[q]
    BY Zenon DEF StepOf
  <2>2. Owns(q) /\ Zmq!Users(q)' = Zmq!Users(q)
    BY Zenon, <1>1, <1>4
  <2>3. ASSUME g_context_owner_pid[q] = q
        PROVE  /\ g_zmq_context[q] \in Zmq!Context \ terminated'
               /\ made'[g_zmq_context[q]] = q
    <3>1. g_zmq_context[q] \in Zmq!Context \ terminated /\ made[g_zmq_context[q]] = q
      BY Zenon, <2>2, <2>3 DEF Owns
    <3>2. q # NULL
      BY Zenon, ContextSizes
    <3> QED BY Zenon, <3>1, <3>2 DEF StepOf
  <2>4. g_context_owner_pid'[q] \in Thread => thread'[g_context_owner_pid'[q]].at # "unborn"
    BY Zenon, <1>2, <2>1, <2>2 DEF Owns
  <2> QED BY Zenon, <2>1, <2>2, <2>3, <2>4 DEF Owns
<1> QED BY Zenon, <1>2, <1>3, <1>5, <1>6

(* What becomes of the record of a thread that moves. *)
ThreadState == [pid : Thread \cup {NULL},
                at : {"unborn", "idle", "terminating"} \cup Zmq!Holding,
                ctx : Zmq!Context \cup {NULL}]
Goes(t, at, ctx) ==
  /\ thread' \in [Thread -> ThreadState]
  /\ thread'[t].pid = thread[t].pid /\ thread'[t].at = at /\ thread'[t].ctx = ctx
  /\ \A u \in Thread \ {t} : thread'[u] = thread[u]

LEMMA GoesTo ==
  ASSUME Zmq!TypeOK, NEW t \in Thread, NEW r \in ThreadState,
         r.pid = thread[t].pid, thread' = [thread EXCEPT ![t] = r]
  PROVE  Goes(t, r.at, r.ctx)
<1>1. thread \in [Thread -> ThreadState]
  BY Zenon DEF Zmq!TypeOK, ThreadState
<1>2. thread' \in [Thread -> ThreadState] /\ thread'[t] = r
      /\ \A u \in Thread \ {t} : thread'[u] = thread[u]
  BY Zenon, <1>1
<1> QED BY Zenon, <1>2 DEF Goes

LEMMA GoesAt ==
  ASSUME Zmq!TypeOK, NEW t \in Thread, NEW a \in {"terminating"} \cup Zmq!Holding,
         thread' = [thread EXCEPT ![t].at = a]
  PROVE  Goes(t, a, thread[t].ctx)
<1> DEFINE r == [thread[t] EXCEPT !.at = a]
<1>1. thread[t] \in ThreadState
  BY Zenon DEF Zmq!TypeOK, ThreadState
<1>2. r \in ThreadState /\ r.pid = thread[t].pid /\ r.at = a /\ r.ctx = thread[t].ctx
  BY Zenon, <1>1 DEF ThreadState
<1>3. thread' = [thread EXCEPT ![t] = r]
  BY Zenon
<1> HIDE DEF r
<1> QED BY Zenon, <1>2, <1>3, GoesTo

LEMMA GoesWith ==
  ASSUME Zmq!TypeOK, NEW t \in Thread, NEW c \in Zmq!Context,
         thread' = [thread EXCEPT ![t].at = "context", ![t].ctx = c]
  PROVE  Goes(t, "context", c)
<1>1. thread[t] \in ThreadState /\ thread \in [Thread -> ThreadState]
  BY Zenon DEF Zmq!TypeOK, ThreadState
<1>2. "context" \in {"unborn", "idle", "terminating"} \cup Zmq!Holding
  BY Zenon DEF Zmq!Holding
<1>3. /\ thread'[t] \in ThreadState /\ thread'[t].pid = thread[t].pid
      /\ thread'[t].at = "context" /\ thread'[t].ctx = c
      /\ \A u \in Thread \ {t} : thread'[u] = thread[u]
  BY Zenon, <1>1, <1>2 DEF ThreadState
<1>4. thread' \in [Thread -> ThreadState]
  BY Zenon, <1>1, <1>3
<1> QED BY Zenon, <1>3, <1>4 DEF Goes

LEMMA GoesIdle ==
  ASSUME Zmq!TypeOK, NEW t \in Thread,
         thread' = [thread EXCEPT ![t] = Zmq!Idle(thread[t].pid)]
  PROVE  Goes(t, "idle", NULL)
<1> DEFINE r == Zmq!Idle(thread[t].pid)
<1>1. thread[t].pid \in Thread \cup {NULL}
  BY Zenon DEF Zmq!TypeOK
<1>2. r \in ThreadState /\ r.pid = thread[t].pid /\ r.at = "idle" /\ r.ctx = NULL
  BY Zenon, <1>1 DEF ThreadState, Zmq!Idle
<1> HIDE DEF r
<1> QED BY Zenon, <1>2, GoesTo DEF r

LEMMA StepKeeps ==
  ASSUME ZmqInv, NEW t \in Thread, NEW p \in Thread, StepOf(t, p), Zmq!TypeOK',
         \A u \in Thread : thread[u].pid = p => Fits(u)', Owns(p)',
         \A c \in terminated' : made'[c] # NULL
  PROVE  ZmqInv'
BY Zenon, OthersAlone DEF ZmqInv

(* The thread that acts, its process and their types. *)
LEMMA ActorFacts ==
  ASSUME ZmqInv, NEW t \in Thread, thread[t].at # "unborn"
  PROVE  /\ thread[t].pid \in Thread /\ thread[thread[t].pid].at # "unborn"
         /\ Fits(t) /\ Owns(thread[t].pid) /\ Zmq!TypeOK /\ NULL \notin Thread
         /\ \A u \in Thread : Fits(u)
BY Zenon, ContextSizes DEF ZmqInv, Born

(* With the mutex free nobody terminates; without a context nobody uses it. *)
LEMMA NobodyTerminates ==
  ASSUME ZmqInv, NEW p \in Thread, g_zmq_ctx_mutex[p] = NULL
  PROVE  \A u \in Thread : thread[u].pid = p => thread[u].at # "terminating"
<1> SUFFICES ASSUME NEW u \in Thread, thread[u].pid = p, thread[u].at = "terminating"
             PROVE  FALSE
  BY Zenon
<1>1. g_zmq_ctx_mutex[p] = u
  BY Zenon DEF ZmqInv, Fits
<1> QED BY Zenon, <1>1, ContextSizes

LEMMA NobodyUses ==
  ASSUME ZmqInv, NEW p \in Thread, Zmq!MustMake(p)
  PROVE  /\ g_context_owner_pid[p] # p /\ lost[p] = 0
         /\ \A u \in Thread : thread[u].pid = p => thread[u].at \notin Zmq!Holding
<1>1. Owns(p) /\ \A u \in Thread : Fits(u)
  BY Zenon DEF ZmqInv
<1>2. g_context_owner_pid[p] # p
  BY Zenon, <1>1, ContextSizes DEF Owns, Zmq!MustMake, Zmq!Context
<1>3. lost[p] \in 0..MaxLeaks /\ MaxLeaks \in Nat
  BY Zenon, ContextSizes DEF ZmqInv, Zmq!TypeOK
<1>4. lost[p] = 0
  BY <1>1, <1>2, <1>3 DEF Owns
<1> QED BY Zenon, <1>1, <1>2, <1>4 DEF Fits

(* The step is its process's own when only entries of p change. *)
LEMMA OwnStep ==
  ASSUME Zmq!TypeOK, NEW t \in Thread, NEW a, NEW x, a # "unborn",
         thread[t].at # "unborn", Goes(t, a, x),
         NEW p \in Thread, thread[t].pid = p,
         \A q \in Thread \ {p} :
           /\ g_zmq_context'[q] = g_zmq_context[q]
           /\ g_context_ref_count'[q] = g_context_ref_count[q]
           /\ g_context_owner_pid'[q] = g_context_owner_pid[q]
           /\ g_zmq_ctx_mutex'[q] = g_zmq_ctx_mutex[q] /\ lost'[q] = lost[q],
         made' = made, terminated' = terminated
  PROVE  StepOf(t, p)
BY Zenon DEF StepOf, Goes

LEMMA ZmqMakeInv ==
  ASSUME ZmqInv, NEW t \in Thread, Zmq!vom_zmq_context(t), Zmq!MustMake(thread[t].pid)
  PROVE  ZmqInv'
<1>2. thread[t].at = "idle" /\ thread[t].at # "unborn"
  <2>1. thread[t].at = "idle"
    BY Zenon DEF Zmq!vom_zmq_context
  <2> QED BY Zenon, <2>1
<1>p. PICK p \in Thread : p = thread[t].pid
  BY Zenon, <1>2, ActorFacts
<1>1. /\ g_zmq_ctx_mutex[p] = NULL /\ Zmq!MakeContext(t, p) /\ Zmq!MustMake(p)
      /\ g_zmq_ctx_mutex' = g_zmq_ctx_mutex /\ terminated' = terminated /\ lost' = lost
  BY Zenon, <1>p DEF Zmq!vom_zmq_context
<1>3. thread[t].pid = p /\ thread[p].at # "unborn" /\ Zmq!TypeOK /\ NULL \notin Thread /\ Owns(p)
  BY Zenon, <1>p, <1>2, ActorFacts
<1>4. /\ g_context_owner_pid[p] # p /\ lost[p] = 0
      /\ \A u \in Thread : thread[u].pid = p =>
           thread[u].at \notin Zmq!Holding /\ thread[u].at # "terminating"
  BY Zenon, <1>1, <1>3, NobodyTerminates, NobodyUses
<1>5. CASE UNCHANGED <<made, g_context_owner_pid, thread>>
  <2>1. /\ g_zmq_context' = [g_zmq_context EXCEPT ![p] = NULL]
        /\ g_context_ref_count' =
             [g_context_ref_count EXCEPT ![p] = IF g_zmq_context[p] = NULL THEN @ ELSE 0]
    <3>1. ASSUME NEW c \in Zmq!Context,
                 g_context_owner_pid' = [g_context_owner_pid EXCEPT ![p] = p]
          PROVE  FALSE
      <4>1. g_context_owner_pid'[p] = p
        BY Zenon, <1>3, <3>1 DEF Zmq!TypeOK
      <4> QED BY Zenon, <1>4, <1>5, <4>1
    <3> QED BY Zenon, <1>1, <3>1 DEF Zmq!MakeContext
  <2>2. 0 \in Nat
    BY Zenon
  <2>3. Zmq!TypeOK'
    BY Zenon, <1>1, <1>3, <1>5, <2>1, <2>2 DEF Zmq!TypeOK
  <2>4. StepOf(t, p)
    BY Zenon, <1>1, <1>2, <1>3, <1>5, <2>1 DEF StepOf, Zmq!TypeOK
  <2>5. \A u \in Thread : thread[u].pid = p => Fits(u)'
    BY Zenon, <1>4, <1>5 DEF Fits
  <2>6. Owns(p)'
    BY Zenon, <1>1, <1>3, <1>4, <1>5 DEF Owns
  <2>7. \A c \in terminated' : made'[c] # NULL
    BY Zenon, <1>1, <1>5 DEF ZmqInv
  <2> QED BY Zenon, <1>3, <2>3, <2>4, <2>5, <2>6, <2>7, StepKeeps
<1>6. ASSUME NEW c \in Zmq!Context, made[c] = NULL, made' = [made EXCEPT ![c] = p],
             g_zmq_context' = [g_zmq_context EXCEPT ![p] = c],
             g_context_owner_pid' = [g_context_owner_pid EXCEPT ![p] = p],
             g_context_ref_count' = [g_context_ref_count EXCEPT ![p] = 1],
             thread' = [thread EXCEPT ![t].at = "context", ![t].ctx = c]
      PROVE  ZmqInv'
  <2>1. Goes(t, "context", c)
    BY Zenon, <1>3, <1>6, GoesWith
  <2>2. /\ g_zmq_context'[p] = c /\ g_context_owner_pid'[p] = p
        /\ g_context_ref_count'[p] = 1 /\ made'[c] = p
        /\ \A d \in Zmq!Context \ {c} : made'[d] = made[d]
    BY Zenon, <1>3, <1>6 DEF Zmq!TypeOK
  <2>3. Zmq!TypeOK'
    <3>1. 1 \in Nat
      BY Zenon
    <3> QED BY Zenon, <1>1, <1>3, <1>6, <2>1, <3>1 DEF Zmq!TypeOK, Goes, ThreadState
  <2>4. c \notin terminated
    BY Zenon, <1>6 DEF ZmqInv
  <2>5. "context" # "unborn" /\ "context" # "terminating" /\ "context" \in Zmq!Holding
    BY Zenon DEF Zmq!Holding
  <2>6. StepOf(t, p)
    <3>1. /\ thread[t].pid = p /\ thread'[t].pid = p
          /\ thread[t].at # "unborn" /\ thread'[t].at # "unborn"
          /\ \A u \in Thread \ {t} : thread'[u] = thread[u]
      BY Zenon, <1>2, <1>3, <2>1, <2>5 DEF Goes
    <3>2. \A q \in Thread \ {p} :
            /\ g_zmq_context'[q] = g_zmq_context[q]
            /\ g_context_ref_count'[q] = g_context_ref_count[q]
            /\ g_context_owner_pid'[q] = g_context_owner_pid[q]
      BY Zenon, <1>3, <1>6 DEF Zmq!TypeOK
    <3>3. \A d \in Zmq!Context : made[d] # NULL => made'[d] = made[d]
      BY Zenon, <1>6, <2>2
    <3> QED BY Zenon, <1>1, <3>1, <3>2, <3>3 DEF StepOf
  <2>7. ASSUME NEW u \in Thread, thread[u].pid = p PROVE Fits(u)'
    <3>1. CASE u = t
      <4>1. thread'[u].pid = p /\ thread'[u].at = "context" /\ thread'[u].ctx = c
        BY Zenon, <1>3, <2>1, <3>1 DEF Goes
      <4> QED BY Zenon, <2>2, <2>5, <4>1 DEF Fits
    <3>2. CASE u # t
      <4>1. thread'[u] = thread[u]
        BY Zenon, <2>1, <3>2 DEF Goes
      <4>2. thread[u].at \notin Zmq!Holding /\ thread[u].at # "terminating"
        BY Zenon, <1>4, <2>7
      <4> QED BY Zenon, <4>1, <4>2 DEF Fits
    <3> QED BY Zenon, <3>1, <3>2
  <2>8. Cardinality(Zmq!Users(p)') = 1
    <3>1. Zmq!Users(p)' = {t}
      BY Zenon, <1>3, <1>4, <2>1, <2>5 DEF Zmq!Users, Goes
    <3> QED BY Zenon, <3>1, FS_Singleton
  <2>9. Owns(p)'
    <3>1. lost'[p] = 0 /\ 1 + 0 = 1 /\ ~(0 > 0)
      BY <1>1, <1>4
    <3>2. thread'[p].at # "unborn"
      BY Zenon, <1>3, <2>1, <2>5 DEF Goes
    <3> QED BY Zenon, <1>1, <2>2, <2>4, <2>8, <3>1, <3>2 DEF Owns
  <2>10. \A d \in terminated' : made'[d] # NULL
    BY Zenon, <1>1, <1>3, <2>2 DEF ZmqInv, Zmq!TypeOK
  <2> QED BY Zenon, <1>3, <2>3, <2>6, <2>7, <2>9, <2>10, StepKeeps
<1> QED BY Zenon, <1>1, <1>5, <1>6 DEF Zmq!MakeContext

(* The thread of process p joins its users, or leaves them. *)
LEMMA OneUserMore ==
  ASSUME NEW t \in Thread, NEW p \in Thread, NEW x, thread[t].pid = p,
         thread[t].at \notin Zmq!Holding, Goes(t, "context", x)
  PROVE  Cardinality(Zmq!Users(p)') = Cardinality(Zmq!Users(p)) + 1
<1>1. "context" \in Zmq!Holding
  BY Zenon DEF Zmq!Holding
<1>2. Zmq!Users(p)' = Zmq!Users(p) \cup {t} /\ t \notin Zmq!Users(p)
  BY Zenon, <1>1 DEF Zmq!Users, Goes
<1> QED BY Zenon, <1>2, UsersFinite, FS_AddElement

LEMMA OneUserLess ==
  ASSUME NEW t \in Thread, NEW p \in Thread, NEW a, NEW x, thread[t].pid = p,
         thread[t].at \in Zmq!Holding, a \notin Zmq!Holding, Goes(t, a, x)
  PROVE  /\ Cardinality(Zmq!Users(p)') = Cardinality(Zmq!Users(p)) - 1
         /\ Cardinality(Zmq!Users(p)) \in Nat \ {0}
<1>1. Zmq!Users(p)' = Zmq!Users(p) \ {t} /\ t \in Zmq!Users(p)
  BY Zenon DEF Zmq!Users, Goes
<1>2. /\ Cardinality(Zmq!Users(p)') = Cardinality(Zmq!Users(p)) - 1
      /\ Cardinality(Zmq!Users(p)') \in Nat /\ Cardinality(Zmq!Users(p)) \in Nat
  <2>1. /\ IsFiniteSet(Zmq!Users(p) \ {t})
        /\ Cardinality(Zmq!Users(p) \ {t}) = Cardinality(Zmq!Users(p)) - 1
    BY <1>1, UsersFinite, FS_RemoveElement
  <2>2. Cardinality(Zmq!Users(p) \ {t}) \in Nat
    BY Zenon, <2>1, FS_CardinalityType
  <2> QED BY Zenon, <1>1, <2>1, <2>2, UsersFinite
<1> QED BY <1>2

LEMMA SameUsers ==
  ASSUME NEW t \in Thread, NEW p \in Thread, NEW a \in Zmq!Holding, NEW x,
         thread[t].at \in Zmq!Holding, Goes(t, a, x)
  PROVE  Zmq!Users(p)' = Zmq!Users(p)
BY Zenon DEF Zmq!Users, Goes

LEMMA ZmqTakeInv ==
  ASSUME ZmqInv, NEW t \in Thread, Zmq!vom_zmq_context(t), ~Zmq!MustMake(thread[t].pid)
  PROVE  ZmqInv'
<1>1. thread[t].at = "idle" /\ thread[t].at # "unborn" /\ thread[t].at \notin Zmq!Holding
  <2>1. thread[t].at = "idle"
    BY Zenon DEF Zmq!vom_zmq_context
  <2> QED BY Zenon, <2>1 DEF Zmq!Holding
<1>2. PICK p \in Thread : p = thread[t].pid
  BY Zenon, <1>1, ActorFacts
<1>3. /\ g_zmq_ctx_mutex[p] = NULL /\ ~Zmq!MustMake(p) /\ Zmq!TakeReference(t, p)
      /\ g_zmq_ctx_mutex' = g_zmq_ctx_mutex /\ terminated' = terminated /\ lost' = lost
  BY Zenon, <1>2 DEF Zmq!vom_zmq_context
<1>4. /\ g_context_ref_count' = [g_context_ref_count EXCEPT ![p] = @ + 1]
      /\ thread' = [thread EXCEPT ![t].at = "context", ![t].ctx = g_zmq_context[p]]
      /\ made' = made /\ g_zmq_context' = g_zmq_context
      /\ g_context_owner_pid' = g_context_owner_pid
  BY Zenon, <1>3 DEF Zmq!TakeReference
<1>5. thread[t].pid = p /\ thread[p].at # "unborn" /\ Zmq!TypeOK /\ Owns(p)
  BY Zenon, <1>1, <1>2, ActorFacts
<1>6. g_context_owner_pid[p] = p /\ g_zmq_context[p] \in Zmq!Context
  BY Zenon, <1>3, <1>5 DEF Zmq!MustMake, Zmq!TypeOK
<1>7. Goes(t, "context", g_zmq_context[p])
  BY Zenon, <1>4, <1>5, <1>6, GoesWith
<1>8. /\ g_context_ref_count[p] \in Nat /\ lost[p] \in Nat
      /\ Cardinality(Zmq!Users(p)) \in Nat
  <2>1. lost[p] \in 0..MaxLeaks
    BY Zenon, <1>5 DEF Zmq!TypeOK
  <2>2. lost[p] \in Nat
    BY <2>1
  <2> QED BY Zenon, <1>5, <2>2, UsersFinite DEF Zmq!TypeOK
<1>9. Zmq!TypeOK'
  <2>1. g_context_ref_count[p] + 1 \in Nat
    BY <1>8
  <2> QED BY Zenon, <1>3, <1>4, <1>5, <1>7, <2>1 DEF Zmq!TypeOK, Goes, ThreadState
<1>10. "context" # "unborn" /\ "context" # "terminating" /\ "context" \in Zmq!Holding
  BY Zenon DEF Zmq!Holding
<1>11. StepOf(t, p)
  <2>1. \A q \in Thread \ {p} : g_context_ref_count'[q] = g_context_ref_count[q]
    BY Zenon, <1>4, <1>5 DEF Zmq!TypeOK
  <2> QED BY Zenon, <1>1, <1>3, <1>4, <1>5, <1>7, <1>10, <2>1, OwnStep
<1>12. ASSUME NEW u \in Thread, thread[u].pid = p PROVE Fits(u)'
  <2>1. thread[u].at # "terminating" /\ Fits(u)
    BY Zenon, <1>3, <1>12, NobodyTerminates DEF ZmqInv
  <2> QED BY Zenon, <1>3, <1>4, <1>6, <1>7, <1>10, <1>12, <2>1 DEF Fits, Goes
<1>13. Owns(p)'
  <2>1. g_context_ref_count'[p] = g_context_ref_count[p] + 1
    BY Zenon, <1>4, <1>5 DEF Zmq!TypeOK
  <2>2. Cardinality(Zmq!Users(p)') = Cardinality(Zmq!Users(p)) + 1
    BY Zenon, <1>1, <1>5, <1>7, OneUserMore
  <2>3. g_context_ref_count[p] = Cardinality(Zmq!Users(p)) + lost[p]
    BY Zenon, <1>5, <1>6 DEF Owns
  <2>4. g_context_ref_count'[p] = Cardinality(Zmq!Users(p)') + lost[p]
    BY <1>8, <2>1, <2>2, <2>3
  <2>5. thread'[p].at # "unborn"
    BY Zenon, <1>5, <1>7, <1>10 DEF Goes
  <2> QED BY Zenon, <1>3, <1>4, <1>5, <1>6, <2>4, <2>5 DEF Owns
<1>14. \A c \in terminated' : made'[c] # NULL
  BY Zenon, <1>3, <1>4 DEF ZmqInv
<1> QED BY Zenon, <1>9, <1>11, <1>12, <1>13, <1>14, StepKeeps

(* A socket is made, or a reference lost; a socket is closed. *)
LEMMA ZmqSocketInv ==
  ASSUME ZmqInv, NEW t \in Thread, Zmq!vom_zmq_make_socket(t) \/ Zmq!zmq_close(t)
  PROVE  ZmqInv'
<1>1. thread[t].at # "unborn" /\ thread[t].at \in Zmq!Holding
  <2>1. thread[t].at \in {"context", "open"}
    BY Zenon DEF Zmq!vom_zmq_make_socket, Zmq!zmq_close
  <2> QED BY Zenon, <2>1 DEF Zmq!Holding
<1>2. PICK p \in Thread : p = thread[t].pid
  BY Zenon, <1>1, ActorFacts
<1>3. /\ g_zmq_context' = g_zmq_context /\ g_context_ref_count' = g_context_ref_count
      /\ g_context_owner_pid' = g_context_owner_pid /\ g_zmq_ctx_mutex' = g_zmq_ctx_mutex
      /\ made' = made /\ terminated' = terminated
  BY Zenon DEF Zmq!vom_zmq_make_socket, Zmq!zmq_close
<1>4. thread[t].pid = p /\ thread[p].at # "unborn" /\ Zmq!TypeOK /\ Owns(p) /\ Fits(t)
  BY Zenon, <1>1, <1>2, ActorFacts
<1>5. \A u \in Thread : thread[u].pid = p => Fits(u) /\ thread[u].at # "terminating"
  BY Zenon, <1>1, <1>4 DEF ZmqInv, Fits
<1>6. g_context_owner_pid[p] = p
  BY Zenon, <1>1, <1>4 DEF Fits
<1>7. /\ g_context_ref_count[p] = Cardinality(Zmq!Users(p)) + lost[p]
      /\ g_zmq_context[p] \in Zmq!Context \ terminated /\ made[g_zmq_context[p]] = p
  BY Zenon, <1>4, <1>6 DEF Owns
<1>8. \A c \in terminated' : made'[c] # NULL
  BY Zenon, <1>3 DEF ZmqInv
<1>9. ASSUME NEW a \in Zmq!Holding, thread' = [thread EXCEPT ![t].at = a], lost' = lost
      PROVE  ZmqInv'
  <2>1. Goes(t, a, thread[t].ctx) /\ a # "unborn" /\ a # "terminating"
    <3>1. a # "unborn" /\ a # "terminating"
      BY DEF Zmq!Holding
    <3> QED BY Zenon, <1>4, <1>9, <3>1, GoesAt
  <2>2. StepOf(t, p)
    BY Zenon, <1>1, <1>3, <1>4, <1>9, <2>1, OwnStep
  <2>3. Zmq!TypeOK'
    BY Zenon, <1>3, <1>4, <1>9, <2>1 DEF Zmq!TypeOK, Goes, ThreadState
  <2>4. ASSUME NEW u \in Thread, thread[u].pid = p PROVE Fits(u)'
    <3>1. Fits(u) /\ thread[u].at # "terminating"
      BY Zenon, <1>5, <2>4
    <3> QED BY Zenon, <1>1, <1>3, <2>1, <2>4, <3>1 DEF Fits, Goes
  <2>5. Owns(p)'
    <3>1. Zmq!Users(p)' = Zmq!Users(p)
      BY Zenon, <1>1, <2>1, SameUsers
    <3>2. thread'[p].at # "unborn"
      BY Zenon, <1>4, <2>1 DEF Goes
    <3> QED BY Zenon, <1>3, <1>4, <1>6, <1>7, <1>9, <3>1, <3>2 DEF Owns
  <2> QED BY Zenon, <1>8, <2>2, <2>3, <2>4, <2>5, StepKeeps
<1>10. ASSUME lost[p] < MaxLeaks, lost' = [lost EXCEPT ![p] = @ + 1],
              thread' = [thread EXCEPT ![t] = Zmq!Idle(p)]
       PROVE  ZmqInv'
  <2>1. Goes(t, "idle", NULL)
    BY Zenon, <1>4, <1>10, GoesIdle
  <2>2. "idle" # "unborn" /\ "idle" # "terminating" /\ "idle" \notin Zmq!Holding
    BY Zenon DEF Zmq!Holding
  <2>3. /\ lost'[p] = lost[p] + 1 /\ lost[p] \in 0..MaxLeaks
        /\ \A q \in Thread \ {p} : lost'[q] = lost[q]
    BY Zenon, <1>4, <1>10 DEF Zmq!TypeOK
  <2>4. lost[p] + 1 \in 0..MaxLeaks /\ lost[p] \in Nat
    BY <1>10, <2>3, ContextSizes
  <2>5. StepOf(t, p)
    BY Zenon, <1>1, <1>3, <1>4, <2>1, <2>2, <2>3, OwnStep
  <2>6. Zmq!TypeOK'
    BY Zenon, <1>3, <1>4, <1>10, <2>1, <2>4 DEF Zmq!TypeOK, Goes, ThreadState
  <2>7. ASSUME NEW u \in Thread, thread[u].pid = p PROVE Fits(u)'
    <3>1. Fits(u) /\ thread[u].at # "terminating"
      BY Zenon, <1>5, <2>7
    <3> QED BY Zenon, <1>3, <2>1, <2>2, <2>7, <3>1 DEF Fits, Goes
  <2>8. Owns(p)'
    <3>1. /\ Cardinality(Zmq!Users(p)') = Cardinality(Zmq!Users(p)) - 1
          /\ Cardinality(Zmq!Users(p)) \in Nat \ {0}
      BY Zenon, <1>1, <1>4, <2>1, <2>2, OneUserLess
    <3>2. g_context_ref_count[p] = Cardinality(Zmq!Users(p)') + lost'[p]
      BY <1>7, <2>3, <2>4, <3>1
    <3>3. thread'[p].at # "unborn"
      BY Zenon, <1>4, <2>1, <2>2 DEF Goes
    <3> QED BY Zenon, <1>3, <1>4, <1>6, <1>7, <3>2, <3>3 DEF Owns
  <2> QED BY Zenon, <1>8, <2>5, <2>6, <2>7, <2>8, StepKeeps
<1> QED
  <2>1. "open" \in Zmq!Holding /\ "closed" \in Zmq!Holding
    BY Zenon DEF Zmq!Holding
  <2> QED BY Zenon, <1>2, <1>9, <1>10, <2>1 DEF Zmq!vom_zmq_make_socket, Zmq!zmq_close

(* A reference is given back; with the last one the thread goes on to      *)
(* terminate the context, alone.                                           *)
LEMMA ZmqGiveBackInv ==
  ASSUME ZmqInv, NEW t \in Thread, Zmq!vom_zmq_context_term(t)
  PROVE  ZmqInv'
<1>1. thread[t].at # "unborn" /\ thread[t].at \in Zmq!Holding
  <2>1. thread[t].at = "closed"
    BY Zenon DEF Zmq!vom_zmq_context_term
  <2> QED BY Zenon, <2>1 DEF Zmq!Holding
<1>2. PICK p \in Thread : p = thread[t].pid
  BY Zenon, <1>1, ActorFacts
<1>3. thread[t].pid = p /\ thread[p].at # "unborn" /\ Zmq!TypeOK /\ Owns(p) /\ Fits(t)
  BY Zenon, <1>1, <1>2, ActorFacts
<1>4. g_context_owner_pid[p] = p
  BY Zenon, <1>1, <1>3 DEF Fits
<1>5. /\ g_context_ref_count[p] = Cardinality(Zmq!Users(p)) + lost[p]
      /\ g_zmq_context[p] \in Zmq!Context \ terminated /\ made[g_zmq_context[p]] = p
  BY Zenon, <1>3, <1>4 DEF Owns
<1>6. g_zmq_context[p] # NULL
  BY Zenon, <1>5, ContextSizes DEF Zmq!Context
<1>7. /\ g_zmq_ctx_mutex[p] = NULL
      /\ g_context_ref_count' = [g_context_ref_count EXCEPT ![p] = @ - 1]
      /\ IF Zmq!IsLast(p)
           THEN /\ g_zmq_ctx_mutex' = [g_zmq_ctx_mutex EXCEPT ![p] = t]
                /\ thread' = [thread EXCEPT ![t].at = "terminating"]
           ELSE /\ thread' = [thread EXCEPT ![t] = Zmq!Idle(p)]
                /\ g_zmq_ctx_mutex' = g_zmq_ctx_mutex
      /\ g_zmq_context' = g_zmq_context /\ g_context_owner_pid' = g_context_owner_pid
      /\ made' = made /\ terminated' = terminated /\ lost' = lost
  BY Zenon, <1>2, <1>4, <1>6 DEF Zmq!vom_zmq_context_term
<1>8. /\ "idle" # "unborn" /\ "idle" # "terminating" /\ "idle" \notin Zmq!Holding
      /\ "terminating" # "unborn" /\ "terminating" \notin Zmq!Holding
  BY Zenon DEF Zmq!Holding
<1>9. PICK a \in {"idle", "terminating"} :
        /\ a = (IF Zmq!IsLast(p) THEN "terminating" ELSE "idle")
        /\ \E x : Goes(t, a, x)
  <2>1. CASE Zmq!IsLast(p)
    <3>1. Goes(t, "terminating", thread[t].ctx)
      BY Zenon, <1>3, <1>7, <2>1, GoesAt
    <3> QED BY Zenon, <2>1, <3>1
  <2>2. CASE ~Zmq!IsLast(p)
    <3>1. Goes(t, "idle", NULL)
      BY Zenon, <1>3, <1>7, <2>2, GoesIdle
    <3> QED BY Zenon, <2>2, <3>1
  <2> QED BY Zenon, <2>1, <2>2
<1>10. PICK x : Goes(t, a, x)
  BY Zenon, <1>9
<1>11. a # "unborn" /\ a \notin Zmq!Holding
  BY Zenon, <1>8
<1>12. /\ Cardinality(Zmq!Users(p)') = Cardinality(Zmq!Users(p)) - 1
       /\ Cardinality(Zmq!Users(p)) \in Nat \ {0}
  BY Zenon, <1>1, <1>3, <1>10, <1>11, OneUserLess
<1>13. lost[p] \in Nat
  <2>1. lost[p] \in 0..MaxLeaks
    BY Zenon, <1>3 DEF Zmq!TypeOK
  <2> QED BY <2>1
<1>14. /\ g_context_ref_count[p] - 1 = Cardinality(Zmq!Users(p)') + lost[p]
       /\ g_context_ref_count[p] - 1 \in Nat
  BY <1>5, <1>12, <1>13
<1>15. /\ g_context_ref_count'[p] = g_context_ref_count[p] - 1
       /\ \A q \in Thread \ {p} : g_context_ref_count'[q] = g_context_ref_count[q]
       /\ \A q \in Thread \ {p} : g_zmq_ctx_mutex'[q] = g_zmq_ctx_mutex[q]
  BY Zenon, <1>3, <1>7 DEF Zmq!TypeOK
<1>16. Zmq!TypeOK'
  <2>1. g_context_ref_count' \in [Thread -> Nat]
    BY Zenon, <1>3, <1>7, <1>14 DEF Zmq!TypeOK
  <2>2. g_zmq_ctx_mutex' \in [Thread -> Thread \cup {NULL}]
    <3>1. CASE Zmq!IsLast(p)
      <4>1. /\ g_zmq_ctx_mutex \in [Thread -> Thread \cup {NULL}]
            /\ g_zmq_ctx_mutex' = [g_zmq_ctx_mutex EXCEPT ![p] = t]
        BY Zenon, <1>3, <1>7, <3>1 DEF Zmq!TypeOK
      <4> QED BY Zenon, <4>1
    <3>2. CASE ~Zmq!IsLast(p)
      BY Zenon, <1>3, <1>7, <3>2 DEF Zmq!TypeOK
    <3> QED BY Zenon, <3>1, <3>2
  <2> QED BY Zenon, <1>3, <1>7, <1>10, <2>1, <2>2 DEF Zmq!TypeOK, Goes, ThreadState
<1>17. StepOf(t, p)
  BY Zenon, <1>1, <1>3, <1>7, <1>10, <1>11, <1>15, OwnStep
<1>18. ASSUME NEW u \in Thread, thread[u].pid = p PROVE Fits(u)'
  <2>1. thread[u].at # "terminating" /\ Fits(u)
    BY Zenon, <1>7, <1>18, NobodyTerminates DEF ZmqInv
  <2>2. CASE u # t
    BY Zenon, <1>7, <1>10, <2>1, <2>2 DEF Fits, Goes
  <2>3. CASE u = t /\ a = "idle"
    BY Zenon, <1>8, <1>10, <2>3 DEF Fits, Goes
  <2>4. CASE u = t /\ a = "terminating"
    <3>1. Zmq!IsLast(p)
      BY Zenon, <1>8, <1>9, <2>4
    <3>2. g_zmq_ctx_mutex'[p] = t
      BY Zenon, <1>3, <1>7, <3>1 DEF Zmq!TypeOK
    <3>3. Cardinality(Zmq!Users(p)') = 0 /\ lost[p] = 0
      <4>1. g_context_ref_count[p] - 1 <= 0
        BY Zenon, <3>1 DEF Zmq!IsLast
      <4>2. Cardinality(Zmq!Users(p)') \in Nat
        BY <1>12
      <4> QED BY <1>13, <1>14, <4>1, <4>2
    <3>4. Zmq!Users(p)' = {}
      <4>1. IsFiniteSet(Zmq!Users(p)')
        <5>1. Zmq!Users(p)' \in SUBSET Thread
          BY Zenon DEF Zmq!Users
        <5> QED BY Zenon, <5>1, ContextSizes, FS_Subset
      <4> QED BY Zenon, <3>3, <4>1, FS_EmptySet
    <3>5. \A v \in Thread : thread'[v].pid = p => thread'[v].at \notin Zmq!Holding
      BY Zenon, <3>4 DEF Zmq!Users
    <3>6. thread'[u].pid = p /\ thread'[u].at = "terminating"
      BY Zenon, <1>3, <1>10, <2>4 DEF Goes
    <3> QED BY Zenon, <1>4, <1>7, <1>8, <2>4, <3>2, <3>3, <3>5, <3>6 DEF Fits
  <2> QED BY Zenon, <2>2, <2>3, <2>4
<1>19. Owns(p)'
  <2>1. thread'[p].at # "unborn"
    BY Zenon, <1>3, <1>10, <1>11 DEF Goes
  <2> QED BY Zenon, <1>3, <1>4, <1>5, <1>7, <1>14, <1>15, <2>1 DEF Owns
<1>20. \A c \in terminated' : made'[c] # NULL
  BY Zenon, <1>7 DEF ZmqInv
<1> QED BY Zenon, <1>16, <1>17, <1>18, <1>19, <1>20, StepKeeps

LEMMA ZmqTermInv ==
  ASSUME ZmqInv, NEW t \in Thread, Zmq!zmq_ctx_term(t)
  PROVE  ZmqInv'
<1>1. thread[t].at = "terminating" /\ thread[t].at # "unborn"
  <2>1. thread[t].at = "terminating"
    BY Zenon DEF Zmq!zmq_ctx_term
  <2> QED BY Zenon, <2>1
<1>2. PICK p \in Thread : p = thread[t].pid
  BY Zenon, <1>1, ActorFacts
<1>3. thread[t].pid = p /\ thread[p].at # "unborn" /\ Zmq!TypeOK /\ Owns(p) /\ Fits(t)
  BY Zenon, <1>1, <1>2, ActorFacts
<1>4. /\ g_zmq_ctx_mutex[p] = t /\ g_context_owner_pid[p] = p /\ lost[p] = 0
      /\ \A u \in Thread : thread[u].pid = p => thread[u].at \notin Zmq!Holding
  BY Zenon, <1>1, <1>3 DEF Fits
<1>5. g_zmq_context[p] \in Zmq!Context /\ made[g_zmq_context[p]] = p
  BY Zenon, <1>3, <1>4 DEF Owns
<1>6. /\ terminated' = terminated \cup {g_zmq_context[p]}
      /\ g_zmq_context' = [g_zmq_context EXCEPT ![p] = NULL]
      /\ g_context_owner_pid' = [g_context_owner_pid EXCEPT ![p] = NULL]
      /\ g_context_ref_count' = [g_context_ref_count EXCEPT ![p] = 0]
      /\ g_zmq_ctx_mutex' = [g_zmq_ctx_mutex EXCEPT ![p] = NULL]
      /\ thread' = [thread EXCEPT ![t] = Zmq!Idle(p)]
      /\ made' = made /\ lost' = lost
  BY Zenon, <1>2 DEF Zmq!zmq_ctx_term
<1>7. Goes(t, "idle", NULL)
  BY Zenon, <1>3, <1>6, GoesIdle
<1>8. "idle" # "unborn" /\ "idle" # "terminating" /\ "idle" \notin Zmq!Holding
  BY Zenon DEF Zmq!Holding
<1>9. Zmq!TypeOK'
  <2>1. 0 \in Nat
    OBVIOUS
  <2>2. terminated' \subseteq Zmq!Context
    BY Zenon, <1>3, <1>5, <1>6 DEF Zmq!TypeOK
  <2> QED BY Zenon, <1>3, <1>6, <1>7, <2>1, <2>2 DEF Zmq!TypeOK, Goes, ThreadState
<1>10. StepOf(t, p)
  BY ZenonT(60), <1>1, <1>3, <1>5, <1>6, <1>7, <1>8 DEF StepOf, Goes, Zmq!TypeOK
<1>11. ASSUME NEW u \in Thread, thread[u].pid = p PROVE Fits(u)'
  <2>1. u # t => thread[u].at # "terminating"
    BY Zenon, <1>4, <1>11 DEF ZmqInv, Fits
  <2> QED BY ZenonT(60), <1>4, <1>7, <1>8, <1>11, <2>1 DEF Fits, Goes
<1>12. Owns(p)'
  <2>1. g_context_owner_pid'[p] = NULL /\ lost'[p] = 0 /\ NULL # p /\ NULL \notin Thread
    BY Zenon, <1>3, <1>4, <1>6, ContextSizes DEF Zmq!TypeOK
  <2>2. ~(lost'[p] > 0)
    BY <2>1
  <2> QED BY Zenon, <2>1, <2>2 DEF Owns
<1>13. \A c \in terminated' : made'[c] # NULL
  BY Zenon, <1>5, <1>6, ContextSizes DEF ZmqInv
<1> QED BY Zenon, <1>9, <1>10, <1>11, <1>12, <1>13, StepKeeps

(* A new thread, of the process p or, after a fork, the first of its own. *)
LEMMA NewThread ==
  ASSUME ZmqInv, NEW u \in Thread, thread[u] = Zmq!Unborn, NEW p \in Thread,
         p = u \/ thread[p].at # "unborn",
         thread' = [thread EXCEPT ![u] = Zmq!Idle(p)]
  PROVE  /\ thread' \in [Thread -> ThreadState]
         /\ thread'[u].pid = p /\ thread'[u].at = "idle" /\ thread[u].at = "unborn"
         /\ \A v \in Thread \ {u} : thread'[v] = thread[v]
         /\ \A v \in Thread : Born(v)'
         /\ \A q \in Thread : Zmq!Users(q)' = Zmq!Users(q)
         /\ \A v \in Thread : thread[v].at # "unborn" => thread[v].pid # u
         /\ \A q \in Thread : g_context_owner_pid[q] # u
<1>1. thread[u].at = "unborn" /\ thread[u].pid = NULL
  BY DEF Zmq!Unborn
<1>2. thread \in [Thread -> ThreadState] /\ NULL \notin Thread
  BY Zenon, ContextSizes DEF ZmqInv, Zmq!TypeOK, ThreadState
<1>3. /\ Zmq!Idle(p) \in ThreadState
      /\ Zmq!Idle(p).pid = p /\ Zmq!Idle(p).at = "idle"
  BY Zenon DEF Zmq!Idle, ThreadState
<1>4. /\ thread' \in [Thread -> ThreadState] /\ thread'[u].pid = p /\ thread'[u].at = "idle"
      /\ \A v \in Thread \ {u} : thread'[v] = thread[v]
  BY Zenon, <1>2, <1>3
<1>5. "idle" # "unborn" /\ "idle" \notin Zmq!Holding /\ "unborn" \notin Zmq!Holding
  BY Zenon DEF Zmq!Holding
<1>6. \A v \in Thread : Born(v)
  BY Zenon DEF ZmqInv
<1>7. \A v \in Thread : thread[v].at # "unborn" => thread'[v].at # "unborn"
  BY Zenon, <1>1, <1>4
<1>8. ASSUME NEW v \in Thread PROVE Born(v)'
  BY Zenon, <1>1, <1>4, <1>5, <1>6, <1>7 DEF Born
<1>9. ASSUME NEW q \in Thread PROVE Zmq!Users(q)' = Zmq!Users(q)
  BY Zenon, <1>1, <1>4, <1>5 DEF Zmq!Users
<1>10. ASSUME NEW v \in Thread, thread[v].at # "unborn" PROVE thread[v].pid # u
  BY Zenon, <1>1, <1>6, <1>10 DEF Born
<1>11. ASSUME NEW q \in Thread PROVE g_context_owner_pid[q] # u
  BY Zenon, <1>1 DEF ZmqInv, Owns
<1> QED BY Zenon, <1>1, <1>4, <1>8, <1>9, <1>10, <1>11

LEMMA ZmqCreateInv ==
  ASSUME ZmqInv, NEW t \in Thread, NEW u \in Thread, Zmq!pthread_create(t, u)
  PROVE  ZmqInv'
<1>1. thread[t].at # "unborn"
  <2>1. thread[t].at = "idle"
    BY Zenon DEF Zmq!pthread_create
  <2> QED BY Zenon, <2>1
<1>2. PICK p \in Thread : p = thread[t].pid /\ thread[p].at # "unborn"
  BY Zenon, <1>1, ActorFacts
<1>3. /\ thread[u] = Zmq!Unborn /\ thread' = [thread EXCEPT ![u] = Zmq!Idle(p)]
      /\ g_zmq_context' = g_zmq_context /\ g_context_ref_count' = g_context_ref_count
      /\ g_context_owner_pid' = g_context_owner_pid /\ g_zmq_ctx_mutex' = g_zmq_ctx_mutex
      /\ made' = made /\ terminated' = terminated /\ lost' = lost
  BY Zenon, <1>2 DEF Zmq!pthread_create
<1>4. /\ thread' \in [Thread -> ThreadState]
      /\ thread'[u].pid = p /\ thread'[u].at = "idle" /\ thread[u].at = "unborn"
      /\ \A v \in Thread \ {u} : thread'[v] = thread[v]
      /\ \A v \in Thread : Born(v)'
      /\ \A q \in Thread : Zmq!Users(q)' = Zmq!Users(q)
  BY ZenonT(60), <1>2, <1>3, NewThread
<1>5. "idle" # "unborn" /\ "idle" # "terminating" /\ "idle" \notin Zmq!Holding
  BY Zenon DEF Zmq!Holding
<1>6. Zmq!TypeOK'
  BY Zenon, <1>3, <1>4 DEF ZmqInv, Zmq!TypeOK, ThreadState
<1>7. ASSUME NEW v \in Thread PROVE Fits(v)'
  <2>1. Fits(v)
    BY Zenon DEF ZmqInv
  <2>2. CASE v = u
    BY Zenon, <1>4, <1>5, <2>2 DEF Fits
  <2>3. CASE v # u
    <3>1. thread'[v] = thread[v]
      BY Zenon, <1>4, <2>3
    <3> QED BY Zenon, <1>3, <1>4, <1>5, <2>1, <3>1 DEF Fits
  <2> QED BY Zenon, <2>2, <2>3
<1>8. ASSUME NEW q \in Thread PROVE Owns(q)'
  <2>1. Owns(q) /\ Zmq!Users(q)' = Zmq!Users(q)
    BY Zenon, <1>4 DEF ZmqInv
  <2>2. \A v \in Thread : thread[v].at # "unborn" => thread'[v].at # "unborn"
    BY Zenon, <1>4
  <2> QED BY Zenon, <1>3, <2>1, <2>2 DEF Owns
<1> QED BY Zenon, <1>3, <1>4, <1>6, <1>7, <1>8 DEF ZmqInv

(* The child's copy is its parent's context, which it does not own. *)
LEMMA ZmqForkInv ==
  ASSUME ZmqInv, NEW t \in Thread, NEW u \in Thread, Zmq!fork(t, u)
  PROVE  ZmqInv'
<1>1. thread[t].at # "unborn"
  <2>1. thread[t].at \in {"idle", "open"}
    BY Zenon DEF Zmq!fork
  <2> QED BY Zenon, <2>1
<1>2. PICK p \in Thread : p = thread[t].pid /\ thread[p].at # "unborn"
  BY Zenon, <1>1, ActorFacts
<1>3. /\ thread[u] = Zmq!Unborn /\ thread' = [thread EXCEPT ![u] = Zmq!Idle(u)]
      /\ g_zmq_context' = [g_zmq_context EXCEPT ![u] = g_zmq_context[p]]
      /\ g_context_ref_count' = [g_context_ref_count EXCEPT ![u] = g_context_ref_count[p]]
      /\ g_context_owner_pid' = [g_context_owner_pid EXCEPT ![u] = g_context_owner_pid[p]]
      /\ g_zmq_ctx_mutex' = [g_zmq_ctx_mutex EXCEPT ![u] = g_zmq_ctx_mutex[p]]
      /\ made' = made /\ terminated' = terminated /\ lost' = lost
  BY Zenon, <1>2 DEF Zmq!fork
<1>4. /\ thread' \in [Thread -> ThreadState]
      /\ thread'[u].pid = u /\ thread'[u].at = "idle" /\ thread[u].at = "unborn"
      /\ \A v \in Thread \ {u} : thread'[v] = thread[v]
      /\ \A v \in Thread : Born(v)'
      /\ \A q \in Thread : Zmq!Users(q)' = Zmq!Users(q)
      /\ \A v \in Thread : thread[v].at # "unborn" => thread[v].pid # u
      /\ \A q \in Thread : g_context_owner_pid[q] # u
  BY Zenon, <1>3, NewThread
<1>5. /\ "idle" # "unborn" /\ "idle" # "terminating" /\ "idle" \notin Zmq!Holding
      /\ "unborn" # "terminating" /\ "unborn" \notin Zmq!Holding
  BY Zenon DEF Zmq!Holding
<1>6. /\ \A q \in Thread \ {u} :
           /\ g_zmq_context'[q] = g_zmq_context[q]
           /\ g_context_ref_count'[q] = g_context_ref_count[q]
           /\ g_context_owner_pid'[q] = g_context_owner_pid[q]
           /\ g_zmq_ctx_mutex'[q] = g_zmq_ctx_mutex[q]
      /\ g_context_owner_pid'[u] = g_context_owner_pid[p]
  BY Zenon, <1>3 DEF ZmqInv, Zmq!TypeOK
<1>7. Zmq!TypeOK'
  <2>1. Zmq!TypeOK
    BY Zenon DEF ZmqInv
  <2>2. g_zmq_context' \in [Thread -> Zmq!Context \cup {NULL}]
    BY Zenon, <1>3, <2>1 DEF Zmq!TypeOK
  <2>3. g_context_ref_count' \in [Thread -> Nat]
    BY Zenon, <1>3, <2>1 DEF Zmq!TypeOK
  <2>4. /\ g_context_owner_pid' \in [Thread -> Thread \cup {NULL}]
        /\ g_zmq_ctx_mutex' \in [Thread -> Thread \cup {NULL}]
    BY Zenon, <1>3, <2>1 DEF Zmq!TypeOK
  <2> QED BY Zenon, <1>3, <1>4, <2>1, <2>2, <2>3, <2>4 DEF Zmq!TypeOK, ThreadState
<1>8. ASSUME NEW v \in Thread PROVE Fits(v)'
  <2>1. Fits(v) /\ Born(v)
    BY Zenon DEF ZmqInv
  <2>2. CASE v = u
    BY Zenon, <1>4, <1>5, <2>2 DEF Fits
  <2>3. CASE v # u /\ thread[v].at # "unborn"
    <3>1. thread'[v] = thread[v]
      BY Zenon, <1>4, <2>3
    <3>2. PICK q \in Thread \ {u} : q = thread[v].pid
      BY Zenon, <1>4, <2>1, <2>3 DEF Born
    <3>3. \A w \in Thread : thread'[w].pid = q => thread'[w] = thread[w]
      BY Zenon, <1>4
    <3>4. /\ g_zmq_context'[q] = g_zmq_context[q] /\ g_zmq_ctx_mutex'[q] = g_zmq_ctx_mutex[q]
          /\ g_context_owner_pid'[q] = g_context_owner_pid[q] /\ lost' = lost
      BY Zenon, <1>3, <1>6
    <3> QED BY Zenon, <2>1, <3>1, <3>2, <3>3, <3>4 DEF Fits
  <2>4. CASE v # u /\ thread[v].at = "unborn"
    BY Zenon, <1>4, <1>5, <2>4 DEF Fits
  <2> QED BY Zenon, <2>2, <2>3, <2>4
<1>9. ASSUME NEW q \in Thread PROVE Owns(q)'
  <2>1. Owns(q) /\ Owns(p) /\ Zmq!Users(q)' = Zmq!Users(q)
    BY Zenon, <1>4 DEF ZmqInv
  <2>2. \A v \in Thread : thread[v].at # "unborn" => thread'[v].at # "unborn"
    BY Zenon, <1>4
  <2>3. CASE q # u
    BY Zenon, <1>3, <1>6, <2>1, <2>2, <2>3 DEF Owns
  <2>4. CASE q = u
    <3>1. g_context_owner_pid'[q] # q /\ g_context_owner_pid[q] # q
      BY Zenon, <1>4, <1>6, <2>4
    <3> QED BY Zenon, <1>3, <1>6, <2>1, <2>2, <2>4, <3>1 DEF Owns
  <2> QED BY Zenon, <2>3, <2>4
<1>10. \A c \in terminated' : made'[c] # NULL
  BY Zenon, <1>3 DEF ZmqInv
<1> QED BY Zenon, <1>4, <1>7, <1>8, <1>9, <1>10 DEF ZmqInv

LEMMA ZmqInvInit == Zmq!Init => ZmqInv
<1> SUFFICES ASSUME Zmq!Init PROVE ZmqInv
  BY Zenon
<1>1. /\ Zmq!Idle(MainThread) \in ThreadState /\ Zmq!Unborn \in ThreadState
      /\ Zmq!Unborn.at = "unborn" /\ Zmq!Unborn.pid = NULL
      /\ Zmq!Idle(MainThread).at = "idle" /\ Zmq!Idle(MainThread).pid = MainThread
  BY Zenon, ContextSizes DEF ThreadState, Zmq!Idle, Zmq!Unborn
<1>2. /\ "idle" # "unborn" /\ "idle" # "terminating" /\ "idle" \notin Zmq!Holding
      /\ "unborn" # "terminating" /\ "unborn" \notin Zmq!Holding
      /\ 0 \in Nat /\ 0 \in 0..MaxLeaks /\ ~(0 > 0)
  BY ContextSizes DEF Zmq!Holding
<1>3. /\ thread = [t \in Thread |-> IF t = MainThread THEN Zmq!Idle(MainThread)
                                    ELSE Zmq!Unborn]
      /\ g_zmq_context = [p \in Thread |-> NULL]
      /\ g_context_ref_count = [p \in Thread |-> 0]
      /\ g_context_owner_pid = [p \in Thread |-> NULL]
      /\ g_zmq_ctx_mutex = [p \in Thread |-> NULL]
      /\ made = [c \in Zmq!Context |-> NULL] /\ terminated = {}
      /\ lost = [p \in Thread |-> 0]
  BY Zenon DEF Zmq!Init
<1>4. /\ \A t \in Thread : thread[t] = IF t = MainThread THEN Zmq!Idle(MainThread)
                                       ELSE Zmq!Unborn
      /\ MainThread \in Thread /\ NULL \notin Thread
      /\ \A p \in Thread : g_context_owner_pid[p] = NULL /\ lost[p] = 0
  BY Zenon, <1>3, ContextSizes
<1>5. Zmq!TypeOK
  <2>1. thread \in [Thread -> ThreadState]
    BY Zenon, <1>1, <1>3
  <2> QED BY Zenon, <1>2, <1>3, <2>1 DEF Zmq!TypeOK, ThreadState
<1>6. ASSUME NEW t \in Thread PROVE Born(t) /\ Fits(t) /\ Owns(t)
  <2>1. thread[t].at \in {"idle", "unborn"}
    BY Zenon, <1>1, <1>4
  <2>2. Born(t)
    BY Zenon, <1>1, <1>2, <1>4 DEF Born
  <2>3. Fits(t)
    BY Zenon, <1>2, <2>1 DEF Fits
  <2>4. Owns(t)
    BY Zenon, <1>2, <1>4 DEF Owns
  <2> QED BY Zenon, <2>2, <2>3, <2>4
<1> QED BY Zenon, <1>3, <1>5, <1>6 DEF ZmqInv

LEMMA ZmqKept ==
  ASSUME ZmqInv, Zmq!Next \/ UNCHANGED context
  PROVE  ZmqInv'
<1>1. CASE UNCHANGED context
  <2>1. /\ g_zmq_context' = g_zmq_context /\ g_context_ref_count' = g_context_ref_count
        /\ g_context_owner_pid' = g_context_owner_pid /\ g_zmq_ctx_mutex' = g_zmq_ctx_mutex
        /\ made' = made /\ terminated' = terminated /\ thread' = thread /\ lost' = lost
    BY Zenon, <1>1 DEF context
  <2>2. Zmq!TypeOK'
    BY Zenon, <2>1 DEF ZmqInv, Zmq!TypeOK
  <2>3. ASSUME NEW t \in Thread PROVE Born(t)' /\ Fits(t)'
    BY Zenon, <2>1 DEF ZmqInv, Born, Fits
  <2>4. ASSUME NEW p \in Thread PROVE Owns(p)'
    <3>1. Zmq!Users(p)' = Zmq!Users(p)
      BY Zenon, <2>1 DEF Zmq!Users
    <3> QED BY Zenon, <2>1, <3>1 DEF ZmqInv, Owns
  <2> QED BY Zenon, <2>1, <2>2, <2>3, <2>4 DEF ZmqInv
<1>2. ASSUME NEW t \in Thread, Zmq!vom_zmq_context(t) PROVE ZmqInv'
  BY Zenon, <1>2, ZmqMakeInv, ZmqTakeInv
<1> QED BY Zenon, <1>1, <1>2, ZmqSocketInv, ZmqGiveBackInv, ZmqTermInv, ZmqCreateInv,
           ZmqForkInv DEF Zmq!Next

(* The module's own operators on finite sets are the library's. *)
LEMMA SameCardinality ==
  ASSUME NEW S
  PROVE  Zmq!Cardinality(S) = Cardinality(S)
BY Zenon DEF Zmq!Cardinality, Cardinality

LEMMA ZmqInvImplies == ZmqInv => Zmq!TypeOK /\ Zmq!ContextOutlivesUse
<1> SUFFICES ASSUME ZmqInv PROVE Zmq!ContextOutlivesUse
  BY Zenon DEF ZmqInv
<1>1. ASSUME NEW p \in Thread, NEW t \in Zmq!Users(p)
      PROVE  /\ thread[t].ctx \notin terminated
             /\ made[thread[t].ctx] = p /\ g_zmq_context[p] = thread[t].ctx
  <2>1. t \in Thread /\ thread[t].pid = p /\ thread[t].at \in Zmq!Holding
    BY Zenon DEF Zmq!Users
  <2> QED BY Zenon, <2>1 DEF ZmqInv, Fits, Owns
<1>2. ASSUME NEW p \in Thread, g_context_owner_pid[p] = p
      PROVE  g_context_ref_count[p] = Cardinality(Zmq!Users(p)) + lost[p]
  BY Zenon, <1>2 DEF ZmqInv, Owns
<1> QED BY Zenon, <1>1, <1>2, SameCardinality DEF Zmq!ContextOutlivesUse
-----------------------------------------------------------------------------
(* LogRing.  The file, and the pieces that are written to it. *)
LogFile == [open : BOOLEAN, bytes : Seq(Log!Byte), pos : Nat]
PieceLen == MetaLen \cup MsgLen \cup {1}
Writing == {"meta", "message", "newline"}

(* The file is no longer than the ring or than a piece that does not fit. *)
Within(len, max) == len <= max \/ \E n \in PieceLen : n > max /\ len <= n

(* The sequence m stands in bytes, after the first a. *)
Stands(bytes, a, m) == /\ a \in Nat /\ a + Len(m) <= Len(bytes)
                       /\ \A k \in 1..Len(m) : bytes[a + k] = m[k]
NewlineIn(bytes) == \E k \in DOMAIN bytes : bytes[k].of = "newline"

(* The writer holds the mutex; before its newline it has just written the  *)
(* message; and with the mutex free a message that fits is whole.          *)
NewestKept(f, max, n) ==
  f.open /\ n > 0 /\ n + 1 <= max /\ n < MsgBuf =>
    (\E a \in Nat : Stands(f.bytes, a, Log!Piece("message", n))) /\ NewlineIn(f.bytes)
LogInv ==
  /\ Log!TypeOK /\ g_ring_file.pos <= Len(g_ring_file.bytes)
  /\ Within(Len(g_ring_file.bytes), g_ring_max_size)
  /\ \A t \in Thread : emit[t] \in Writing <=> g_log_mutex = t
  /\ \A t \in Thread : emit[t] = "newline" =>
       /\ newest_len > 0 /\ newest_len <= g_ring_file.pos
       /\ Stands(g_ring_file.bytes, g_ring_file.pos - newest_len, Log!Message(newest_len))
  /\ g_log_mutex = NULL => NewestKept(g_ring_file, g_ring_max_size, newest_len)

LEMMA PieceIs ==
  ASSUME NEW n \in Nat,
         NEW name \in {"old", "meta", "message", "newline", "unspecified"}
  PROVE  /\ Log!Piece(name, n) \in Seq(Log!Byte) /\ Len(Log!Piece(name, n)) = n
         /\ \A k \in 1..n : Log!Piece(name, n)[k] = [of |-> name, at |-> k]
<1>1. Log!Piece(name, n) \in [1..n -> Log!Byte]
  BY DEF Log!Piece, Log!Byte
<1>2. \A k \in 1..n : Log!Piece(name, n)[k] = [of |-> name, at |-> k]
  BY Zenon DEF Log!Piece
<1> QED BY Zenon, <1>1, <1>2, SeqOfFunction

LEMMA MessageIs ==
  ASSUME NEW n \in Nat
  PROVE  /\ Log!Message(n) \in Seq(Log!Byte) /\ Len(Log!Message(n)) = n
         /\ n < MsgBuf => \A k \in 1..n : Log!Message(n)[k] = Log!Piece("message", n)[k]
<1>1. /\ \A k \in 1..n : Log!Piece("message", n)[k] \in Log!Byte
      /\ \A k \in 1..n : Log!Piece("unspecified", n)[k] \in Log!Byte
  <2>1. /\ Log!Piece("message", n) \in Seq(Log!Byte) /\ Len(Log!Piece("message", n)) = n
        /\ Log!Piece("unspecified", n) \in Seq(Log!Byte)
        /\ Len(Log!Piece("unspecified", n)) = n
    BY Zenon, PieceIs
  <2> QED BY <2>1
<1>2. Log!Message(n) \in [1..n -> Log!Byte]
  BY Zenon, <1>1 DEF Log!Message
<1>3. ASSUME n < MsgBuf, NEW k \in 1..n
      PROVE  Log!Message(n)[k] = Log!Piece("message", n)[k]
  <2>1. k < MsgBuf
    BY <1>3, LogSizes
  <2> QED BY Zenon, <2>1 DEF Log!Message
<1> QED BY Zenon, <1>2, <1>3, SeqOfFunction

LEMMA Overwritten ==
  ASSUME NEW bs \in Seq(Log!Byte), NEW at \in 0..Len(bs), NEW piece \in Seq(Log!Byte)
  PROVE  /\ Log!Overwrite(bs, at, piece) \in Seq(Log!Byte)
         /\ Len(Log!Overwrite(bs, at, piece)) = Log!Larger(Len(bs), at + Len(piece))
         /\ \A k \in 1..Len(piece) : Log!Overwrite(bs, at, piece)[at + k] = piece[k]
         /\ \A k \in 1..Len(bs) : k \notin (at + 1)..(at + Len(piece)) =>
              Log!Overwrite(bs, at, piece)[k] = bs[k]
<1> DEFINE n == Log!Larger(Len(bs), at + Len(piece))
           o == Log!Overwrite(bs, at, piece)
<1>1. /\ Len(bs) \in Nat /\ Len(piece) \in Nat /\ at \in Nat /\ n \in Nat
      /\ n >= Len(bs) /\ n >= at + Len(piece) /\ at <= Len(bs)
      /\ n = Len(bs) \/ n = at + Len(piece)
      /\ \A k \in 1..Len(bs) : bs[k] \in Log!Byte
      /\ \A k \in 1..Len(piece) : piece[k] \in Log!Byte
  BY DEF Log!Larger
<1>2. o = [k \in 1..n |-> IF k \in (at + 1)..(at + Len(piece)) THEN piece[k - at] ELSE bs[k]]
  BY Zenon DEF Log!Overwrite
<1> HIDE DEF n, o
<1>3. ASSUME NEW k \in 1..n
      PROVE  (IF k \in (at + 1)..(at + Len(piece)) THEN piece[k - at] ELSE bs[k]) \in Log!Byte
  <2>1. CASE k \in (at + 1)..(at + Len(piece))
    <3>1. k - at \in 1..Len(piece)
      BY <1>1, <2>1
    <3> QED BY Zenon, <1>1, <2>1, <3>1
  <2>2. CASE k \notin (at + 1)..(at + Len(piece))
    <3>1. k \in 1..Len(bs)
      BY <1>1, <2>2
    <3> QED BY Zenon, <1>1, <2>2, <3>1
  <2> QED BY Zenon, <2>1, <2>2
<1>4. o \in [1..n -> Log!Byte]
  BY Zenon, <1>2, <1>3
<1>5. ASSUME NEW k \in 1..Len(piece) PROVE o[at + k] = piece[k]
  <2>1. /\ at + k \in 1..n /\ at + k \in (at + 1)..(at + Len(piece))
        /\ (at + k) - at = k
    BY <1>1
  <2> QED BY Zenon, <1>2, <2>1
<1>6. ASSUME NEW k \in 1..Len(bs), k \notin (at + 1)..(at + Len(piece)) PROVE o[k] = bs[k]
  <2>1. k \in 1..n
    BY <1>1
  <2> QED BY Zenon, <1>2, <1>6, <2>1
<1> QED BY Zenon, <1>1, <1>4, <1>5, <1>6, SeqOfFunction DEF n, o

LEMMA StaysWithin ==
  ASSUME NEW len \in Nat, NEW max \in Nat, Within(len, max), NEW at \in 0..len,
         NEW n \in Nat, n \in PieceLen, at + n <= max \/ at = 0
  PROVE  Within(Log!Larger(len, at + n), max)
<1>1. CASE at + n <= len
  BY Zenon, <1>1 DEF Log!Larger
<1>2. CASE at + n > len /\ at + n <= max
  BY Zenon, <1>2 DEF Log!Larger, Within
<1>3. CASE at + n > len /\ at = 0 /\ n > max
  <2>1. Log!Larger(len, at + n) = n /\ n <= n
    BY <1>3 DEF Log!Larger
  <2> QED BY Zenon, <1>3, <2>1 DEF Within
<1> QED BY <1>1, <1>2, <1>3

LEMMA LogTypes ==
  ASSUME LogInv
  PROVE  /\ g_ring_file \in LogFile /\ g_ring_file.bytes \in Seq(Log!Byte)
         /\ Len(g_ring_file.bytes) \in Nat /\ g_ring_file.pos \in 0..Len(g_ring_file.bytes)
         /\ g_ring_max_size \in Nat /\ newest_len \in Nat /\ MsgBuf \in Nat
         /\ PieceLen \in SUBSET Nat /\ NULL \notin Thread
<1>1. /\ g_ring_file \in LogFile /\ g_ring_max_size \in MaxSize \cup {0}
      /\ newest_len \in MsgLen \cup {0} /\ g_ring_file.pos <= Len(g_ring_file.bytes)
  BY Zenon DEF LogInv, Log!TypeOK, LogFile
<1>2. g_ring_file.bytes \in Seq(Log!Byte) /\ g_ring_file.pos \in Nat
  BY Zenon, <1>1 DEF LogFile
<1>3. Len(g_ring_file.bytes) \in Nat
  BY <1>2
<1>4. g_ring_file.pos \in 0..Len(g_ring_file.bytes)
  BY <1>1, <1>2, <1>3
<1>5. g_ring_max_size \in Nat /\ newest_len \in Nat /\ MsgBuf \in Nat /\ PieceLen \in SUBSET Nat
  BY <1>1, LogSizes DEF PieceLen
<1> QED BY Zenon, <1>1, <1>2, <1>3, <1>4, <1>5, ContextSizes

(* What write_to_ring_buffer leaves. *)
LEMMA Written ==
  ASSUME LogInv, NEW bs \in Seq(Log!Byte), Len(bs) = Len(g_ring_file.bytes),
         NEW piece \in Seq(Log!Byte), Len(piece) \in PieceLen, Log!write_to_ring_buffer(bs, piece)
  PROVE  \E at \in 0..Len(bs) :
           /\ at = Log!WriteAt(Len(piece))
           /\ g_ring_file' \in LogFile /\ g_ring_file'.open = g_ring_file.open
           /\ g_ring_file'.bytes = Log!Overwrite(bs, at, piece)
           /\ g_ring_file'.pos = at + Len(piece)
           /\ g_ring_file'.pos <= Len(g_ring_file'.bytes)
           /\ Within(Len(g_ring_file'.bytes), g_ring_max_size)
<1>1. /\ g_ring_file \in LogFile /\ Len(bs) \in Nat /\ Len(piece) \in Nat
      /\ g_ring_file.pos \in 0..Len(bs) /\ g_ring_max_size \in Nat
  <2>1. Len(bs) \in Nat /\ Len(piece) \in Nat
    OBVIOUS
  <2> QED BY Zenon, <2>1, LogTypes
<1>w. Log!WriteAt(Len(piece)) \in 0..Len(bs)
  BY <1>1 DEF Log!WriteAt
<1>a. PICK at \in 0..Len(bs) : at = Log!WriteAt(Len(piece))
  BY Zenon, <1>w
<1>2. at \in Nat /\ (at + Len(piece) <= g_ring_max_size \/ at = 0)
  BY <1>1, <1>a DEF Log!WriteAt
<1>3. /\ Log!Overwrite(bs, at, piece) \in Seq(Log!Byte)
      /\ Len(Log!Overwrite(bs, at, piece)) = Log!Larger(Len(bs), at + Len(piece))
  BY Zenon, Overwritten
<1>4. at + Len(piece) \in Nat /\ at + Len(piece) <= Log!Larger(Len(bs), at + Len(piece))
  BY <1>1, <1>2 DEF Log!Larger
<1>5. g_ring_file' = [g_ring_file EXCEPT !.bytes = Log!Overwrite(bs, at, piece),
                                         !.pos = at + Len(piece)]
  BY Zenon, <1>a DEF Log!write_to_ring_buffer
<1>6. /\ g_ring_file' \in LogFile /\ g_ring_file'.open = g_ring_file.open
      /\ g_ring_file'.bytes = Log!Overwrite(bs, at, piece)
      /\ g_ring_file'.pos = at + Len(piece)
  BY Zenon, <1>1, <1>3, <1>4, <1>5 DEF LogFile
<1>7. Within(Len(bs), g_ring_max_size)
  BY Zenon DEF LogInv
<1>8. Within(Log!Larger(Len(bs), at + Len(piece)), g_ring_max_size)
  BY Zenon, <1>1, <1>2, <1>7, StaysWithin
<1> QED BY Zenon, <1>a, <1>3, <1>4, <1>6, <1>8

(* The thread that writes holds the mutex; no other one is at a newline. *)
LEMMA OnlyWriter ==
  ASSUME LogInv, NEW t \in Thread, emit[t] \in Writing, NEW place,
         place \in {"idle", "passed"} \cup Writing, Log!Goto(t, place)
  PROVE  /\ g_log_mutex = t /\ g_log_mutex # NULL /\ emit'[t] = place
         /\ \A u \in Thread \ {t} : emit'[u] = emit[u] /\ emit'[u] \notin Writing
         /\ emit' \in [Thread -> {"idle", "passed"} \cup Writing]
<1>1. emit \in [Thread -> {"idle", "passed"} \cup Writing]
  <2>1. {"idle", "passed", "meta", "message", "newline"} = {"idle", "passed"} \cup Writing
    BY Zenon DEF Writing
  <2> QED BY Zenon, <2>1 DEF LogInv, Log!TypeOK
<1>2. g_log_mutex = t
  BY Zenon DEF LogInv
<1>3. emit' = [emit EXCEPT ![t] = place]
  BY Zenon DEF Log!Goto
<1>4. /\ emit'[t] = place /\ \A u \in Thread \ {t} : emit'[u] = emit[u]
      /\ emit' \in [Thread -> {"idle", "passed"} \cup Writing]
  BY Zenon, <1>1, <1>3
<1> QED BY Zenon, <1>2, <1>4, LogTypes DEF LogInv

LEMMA EmitType ==
  ASSUME LogInv
  PROVE  /\ emit \in [Thread -> {"idle", "passed"} \cup Writing]
         /\ g_current_level \in Log!Level /\ g_log_mutex \in Thread \cup {NULL}
         /\ g_ring_max_size \in MaxSize \cup {0} /\ newest_len \in MsgLen \cup {0}
<1>1. {"idle", "passed", "meta", "message", "newline"} = {"idle", "passed"} \cup Writing
  BY Zenon DEF Writing
<1> QED BY Zenon, <1>1 DEF LogInv, Log!TypeOK

LEMMA LogTypeNext ==
  ASSUME g_current_level' \in Log!Level, g_log_mutex' \in Thread \cup {NULL},
         g_ring_file' \in LogFile, g_ring_max_size' \in MaxSize \cup {0},
         emit' \in [Thread -> {"idle", "passed"} \cup Writing],
         newest_len' \in MsgLen \cup {0}
  PROVE  Log!TypeOK'
<1>1. {"idle", "passed", "meta", "message", "newline"} = {"idle", "passed"} \cup Writing
  BY Zenon DEF Writing
<1> QED BY Zenon, <1>1 DEF LogFile, Log!TypeOK

(* A step that leaves the file alone. *)
LEMMA FileAlone ==
  ASSUME LogInv, g_ring_file' = g_ring_file, g_ring_max_size' = g_ring_max_size,
         newest_len' = newest_len, Log!TypeOK',
         \A u \in Thread : emit'[u] \in Writing <=> g_log_mutex' = u,
         \A u \in Thread : emit'[u] = "newline" => emit[u] = "newline",
         g_log_mutex' = NULL => g_log_mutex = NULL
  PROVE  LogInv'
BY Zenon DEF LogInv

LEMMA LogQuietInv ==
  ASSUME LogInv,
         \/ UNCHANGED logring
         \/ \E l \in Log!Level : Log!vom_log_set_level(l)
         \/ \E t \in Thread, l \in {"INFO", "ERROR"} : Log!CheckLevel(t, l)
         \/ \E t \in Thread : Log!LockLog(t)
  PROVE  LogInv'
<1>1. /\ emit \in [Thread -> {"idle", "passed"} \cup Writing]
      /\ g_current_level \in Log!Level /\ g_log_mutex \in Thread \cup {NULL}
      /\ g_ring_max_size \in MaxSize \cup {0} /\ newest_len \in MsgLen \cup {0}
      /\ g_ring_file \in LogFile /\ NULL \notin Thread
      /\ \A u \in Thread : emit[u] \in Writing <=> g_log_mutex = u
  BY Zenon, EmitType, LogTypes DEF LogInv
<1>2. /\ "idle" \notin Writing /\ "passed" \notin Writing /\ "meta" \in Writing
      /\ "newline" \in Writing /\ "meta" # "newline" /\ "passed" # "newline"
      /\ "idle" # "newline"
  BY Zenon DEF Writing
<1>3. CASE \/ UNCHANGED logring \/ \E l \in Log!Level : Log!vom_log_set_level(l)
  <2>1. /\ g_ring_file' = g_ring_file /\ g_ring_max_size' = g_ring_max_size
        /\ newest_len' = newest_len /\ emit' = emit /\ g_log_mutex' = g_log_mutex
        /\ g_current_level' \in Log!Level
    BY Zenon, <1>1, <1>3 DEF logring, Log!vom_log_set_level
  <2>2. Log!TypeOK'
    BY Zenon, <1>1, <2>1, LogTypeNext
  <2> QED BY Zenon, <1>1, <2>1, <2>2, FileAlone
<1>4. ASSUME NEW t \in Thread, NEW l \in {"INFO", "ERROR"}, Log!CheckLevel(t, l)
      PROVE  LogInv'
  <2>1. /\ emit[t] = "idle" /\ emit' = [emit EXCEPT ![t] = "passed"]
        /\ g_ring_file' = g_ring_file /\ g_ring_max_size' = g_ring_max_size
        /\ newest_len' = newest_len /\ g_log_mutex' = g_log_mutex
        /\ g_current_level' = g_current_level
    BY Zenon, <1>4 DEF Log!CheckLevel
  <2>2. /\ emit' \in [Thread -> {"idle", "passed"} \cup Writing] /\ emit'[t] = "passed"
        /\ \A u \in Thread \ {t} : emit'[u] = emit[u]
    BY Zenon, <1>1, <2>1
  <2>3. Log!TypeOK'
    BY Zenon, <1>1, <2>1, <2>2, LogTypeNext
  <2>4. /\ \A u \in Thread : emit'[u] \in Writing <=> g_log_mutex' = u
        /\ \A u \in Thread : emit'[u] = "newline" => emit[u] = "newline"
    BY Zenon, <1>1, <1>2, <2>1, <2>2
  <2> QED BY Zenon, <2>1, <2>3, <2>4, FileAlone
<1>5. ASSUME NEW t \in Thread, Log!LockLog(t)
      PROVE  LogInv'
  <2>1. /\ emit[t] = "passed" /\ g_log_mutex = NULL
        /\ \/ g_log_mutex' = t /\ emit' = [emit EXCEPT ![t] = "meta"]
           \/ g_log_mutex' = g_log_mutex /\ emit' = [emit EXCEPT ![t] = "idle"]
        /\ g_ring_file' = g_ring_file /\ g_ring_max_size' = g_ring_max_size
        /\ newest_len' = newest_len /\ g_current_level' = g_current_level
    BY Zenon, <1>5 DEF Log!LockLog, Log!Goto
  <2>2. /\ emit' \in [Thread -> {"idle", "passed"} \cup Writing]
        /\ \/ g_log_mutex' = t /\ emit'[t] = "meta"
           \/ g_log_mutex' = g_log_mutex /\ emit'[t] = "idle"
        /\ \A u \in Thread \ {t} : emit'[u] = emit[u]
    BY Zenon, <1>1, <1>2, <2>1
  <2>3. Log!TypeOK'
    BY Zenon, <1>1, <2>1, <2>2, LogTypeNext
  <2>4. /\ \A u \in Thread : emit'[u] \in Writing <=> g_log_mutex' = u
        /\ \A u \in Thread : emit'[u] = "newline" => emit[u] = "newline"
    <3>1. \A u \in Thread : emit[u] \notin Writing
      BY Zenon, <1>1, <2>1
    <3>2. \A u \in Thread \ {t} : emit'[u] \notin Writing /\ g_log_mutex' # u
      BY Zenon, <1>1, <2>1, <2>2, <3>1
    <3>3. /\ emit'[t] \in Writing <=> g_log_mutex' = t
          /\ emit'[t] # "newline"
      BY Zenon, <1>1, <1>2, <2>1, <2>2
    <3> QED BY Zenon, <1>2, <3>2, <3>3
  <2> QED BY Zenon, <2>1, <2>3, <2>4, FileAlone
<1> QED BY Zenon, <1>3, <1>4, <1>5

LEMMA LogOpenInv ==
  ASSUME LogInv, NEW s \in MaxSize, Log!vom_log_init_postmortem_ring_buffer(s)
  PROVE  LogInv'
<1>1. /\ g_log_mutex = NULL /\ newest_len' = 0
      /\ \/ g_ring_file' = [Log!Closed EXCEPT !.open = TRUE] /\ g_ring_max_size' = s
         \/ g_ring_file' = Log!Closed /\ g_ring_max_size' = g_ring_max_size
      /\ g_current_level' = g_current_level /\ g_log_mutex' = g_log_mutex /\ emit' = emit
  BY Zenon DEF Log!vom_log_init_postmortem_ring_buffer
<1>2. /\ emit \in [Thread -> {"idle", "passed"} \cup Writing]
      /\ g_current_level \in Log!Level /\ g_log_mutex \in Thread \cup {NULL}
      /\ g_ring_max_size \in MaxSize \cup {0}
      /\ \A u \in Thread : emit[u] \in Writing <=> g_log_mutex = u
      /\ NULL \notin Thread
  BY Zenon, EmitType, LogTypes DEF LogInv
<1>3. g_ring_file' \in LogFile /\ g_ring_file'.bytes = <<>> /\ g_ring_file'.pos = 0
  <2>1. /\ <<>> \in Seq(Log!Byte) /\ 0 \in Nat
    OBVIOUS
  <2>2. /\ Log!Closed \in LogFile /\ [Log!Closed EXCEPT !.open = TRUE] \in LogFile
        /\ Log!Closed.bytes = <<>> /\ Log!Closed.pos = 0
        /\ [Log!Closed EXCEPT !.open = TRUE].bytes = <<>>
        /\ [Log!Closed EXCEPT !.open = TRUE].pos = 0
    BY Zenon, <2>1 DEF LogFile, Log!Closed
  <2> QED BY Zenon, <1>1, <2>2
<1>4. g_ring_max_size' \in MaxSize \cup {0} /\ g_ring_max_size' \in Nat
  BY <1>1, <1>2, LogSizes
<1>5. Log!TypeOK'
  BY Zenon, <1>1, <1>2, <1>3, <1>4, LogTypeNext
<1>6. g_ring_file'.pos <= Len(g_ring_file'.bytes) /\ Len(g_ring_file'.bytes) <= g_ring_max_size'
  BY <1>3, <1>4
<1>7. \A u \in Thread : emit'[u] # "newline"
  <2>1. "newline" \in Writing
    BY Zenon DEF Writing
  <2> QED BY Zenon, <1>1, <1>2, <2>1
<1>8. NewestKept(g_ring_file', g_ring_max_size', newest_len')
  <2>1. ~(newest_len' > 0)
    BY <1>1
  <2> QED BY Zenon, <2>1 DEF NewestKept
<1> QED BY Zenon, <1>1, <1>2, <1>5, <1>6, <1>7, <1>8 DEF LogInv, Within

LEMMA LogMetaInv ==
  ASSUME LogInv, NEW t \in Thread, Log!WriteMeta(t)
  PROVE  LogInv'
<1> DEFINE bs == [k \in DOMAIN g_ring_file.bytes |-> Log!Older]
<1>1. PICK n \in MetaLen : Log!write_to_ring_buffer(bs, Log!Piece("meta", n))
  BY Zenon DEF Log!WriteMeta
<1>2. /\ emit[t] = "meta" /\ Log!Goto(t, "message") /\ g_current_level' = g_current_level
      /\ g_log_mutex' = g_log_mutex /\ g_ring_max_size' = g_ring_max_size
      /\ newest_len' = newest_len
  BY Zenon DEF Log!WriteMeta
<1>3. /\ "meta" \in Writing /\ "message" \in Writing /\ "message" # "newline"
      /\ "newline" \in Writing
  BY Zenon DEF Writing
<1>4. /\ g_log_mutex = t /\ g_log_mutex # NULL /\ emit'[t] = "message"
      /\ \A u \in Thread \ {t} : emit'[u] = emit[u] /\ emit'[u] \notin Writing
      /\ emit' \in [Thread -> {"idle", "passed"} \cup Writing]
  BY Zenon, <1>2, <1>3, OnlyWriter
<1>5. bs \in Seq(Log!Byte) /\ Len(bs) = Len(g_ring_file.bytes)
  <2>1. Log!Older \in Log!Byte
    BY DEF Log!Older, Log!Byte
  <2>2. /\ Len(g_ring_file.bytes) \in Nat
        /\ DOMAIN g_ring_file.bytes = 1..Len(g_ring_file.bytes)
    <3>1. g_ring_file.bytes \in Seq(Log!Byte)
      BY Zenon, LogTypes
    <3> QED BY <3>1
  <2>3. bs \in [1..Len(g_ring_file.bytes) -> Log!Byte]
    BY Zenon, <2>1, <2>2
  <2> HIDE DEF bs
  <2> QED BY Zenon, <2>2, <2>3, SeqOfFunction
<1> HIDE DEF bs
<1>6. /\ Log!Piece("meta", n) \in Seq(Log!Byte) /\ Len(Log!Piece("meta", n)) \in PieceLen
  <2>1. n \in Nat /\ n \in PieceLen
    BY LogSizes DEF PieceLen
  <2> QED BY Zenon, <2>1, PieceIs
<1>7. /\ g_ring_file' \in LogFile /\ g_ring_file'.pos <= Len(g_ring_file'.bytes)
      /\ Within(Len(g_ring_file'.bytes), g_ring_max_size)
  BY Zenon, <1>1, <1>5, <1>6, Written
<1>8. Log!TypeOK'
  BY Zenon, <1>2, <1>4, <1>7, EmitType, LogTypeNext
<1>9. \A u \in Thread : emit'[u] \in Writing <=> g_log_mutex' = u
  BY Zenon, <1>2, <1>3, <1>4
<1>10. (\A u \in Thread : emit'[u] # "newline") /\ g_log_mutex' # NULL
  BY Zenon, <1>2, <1>3, <1>4
<1> QED BY Zenon, <1>2, <1>7, <1>8, <1>9, <1>10 DEF LogInv

(* What is written stands where the file's position was. *)
LEMMA PieceStands ==
  ASSUME NEW bs \in Seq(Log!Byte), NEW at \in 0..Len(bs), NEW piece \in Seq(Log!Byte)
  PROVE  Stands(Log!Overwrite(bs, at, piece), at, piece)
<1>1. /\ Len(Log!Overwrite(bs, at, piece)) = Log!Larger(Len(bs), at + Len(piece))
      /\ \A k \in 1..Len(piece) : Log!Overwrite(bs, at, piece)[at + k] = piece[k]
  BY Zenon, Overwritten
<1>2. at \in Nat /\ at + Len(piece) <= Log!Larger(Len(bs), at + Len(piece))
  BY DEF Log!Larger
<1> QED BY Zenon, <1>1, <1>2 DEF Stands

LEMMA LogMessageInv ==
  ASSUME LogInv, NEW t \in Thread, Log!WriteMessage(t)
  PROVE  LogInv'
<1>1. PICK n \in MsgLen :
        /\ newest_len' = n
        /\ IF n > 0
             THEN /\ Log!write_to_ring_buffer(g_ring_file.bytes, Log!Message(n))
                  /\ Log!Goto(t, "newline") /\ g_log_mutex' = g_log_mutex
             ELSE Log!Goto(t, "idle") /\ g_log_mutex' = NULL /\ g_ring_file' = g_ring_file
  BY Zenon DEF Log!WriteMessage
<1>2. /\ emit[t] = "message" /\ g_current_level' = g_current_level
      /\ g_ring_max_size' = g_ring_max_size
  BY Zenon DEF Log!WriteMessage
<1>3. /\ "message" \in Writing /\ "newline" \in Writing /\ "idle" \notin Writing
      /\ "idle" # "newline"
  BY DEF Writing
<1>4. n \in Nat /\ n \in PieceLen
  BY LogSizes DEF PieceLen
<1>5. CASE n > 0
  <2>1. /\ Log!write_to_ring_buffer(g_ring_file.bytes, Log!Message(n))
        /\ Log!Goto(t, "newline") /\ g_log_mutex' = g_log_mutex
    BY Zenon, <1>1, <1>5
  <2>2. /\ g_log_mutex = t /\ g_log_mutex # NULL /\ emit'[t] = "newline"
        /\ \A u \in Thread \ {t} : emit'[u] = emit[u] /\ emit'[u] \notin Writing
        /\ emit' \in [Thread -> {"idle", "passed"} \cup Writing]
    BY Zenon, <1>2, <1>3, <2>1, OnlyWriter
  <2>3. /\ Log!Message(n) \in Seq(Log!Byte) /\ Len(Log!Message(n)) = n
        /\ g_ring_file.bytes \in Seq(Log!Byte)
    BY Zenon, <1>4, MessageIs, LogTypes
  <2>4. PICK at \in 0..Len(g_ring_file.bytes) :
          /\ g_ring_file' \in LogFile
          /\ g_ring_file'.bytes = Log!Overwrite(g_ring_file.bytes, at, Log!Message(n))
          /\ g_ring_file'.pos = at + n
          /\ g_ring_file'.pos <= Len(g_ring_file'.bytes)
          /\ Within(Len(g_ring_file'.bytes), g_ring_max_size)
    BY ZenonT(60), <1>4, <2>1, <2>3, Written
  <2>5. Stands(g_ring_file'.bytes, at, Log!Message(n))
    BY Zenon, <2>3, <2>4, PieceStands
  <2>6. g_ring_file'.pos - n = at /\ n <= g_ring_file'.pos
    BY SMTT(30), <1>4, <2>4, LogTypes
  <2>7. Log!TypeOK'
    BY ZenonT(60), <1>1, <1>2, <2>1, <2>2, <2>4, EmitType, LogTypeNext
  <2>8. \A u \in Thread : emit'[u] \in Writing <=> g_log_mutex' = u
    BY Zenon, <1>3, <2>1, <2>2
  <2>9. newest_len' > 0 /\ newest_len' <= g_ring_file'.pos
        /\ Stands(g_ring_file'.bytes, g_ring_file'.pos - newest_len', Log!Message(newest_len'))
    BY Zenon, <1>1, <1>5, <2>5, <2>6
  <2>m. Log!Message(newest_len)' = Log!Message(newest_len')
    BY Zenon DEF Log!Message, Log!Piece
  <2> QED BY ZenonT(60), <1>2, <2>1, <2>2, <2>4, <2>7, <2>8, <2>9, <2>m DEF LogInv
<1>6. CASE ~(n > 0)
  <2>1. Log!Goto(t, "idle") /\ g_log_mutex' = NULL /\ g_ring_file' = g_ring_file
    BY Zenon, <1>1, <1>6
  <2>2. /\ g_log_mutex = t /\ g_log_mutex # NULL /\ emit'[t] = "idle"
        /\ \A u \in Thread \ {t} : emit'[u] = emit[u] /\ emit'[u] \notin Writing
        /\ emit' \in [Thread -> {"idle", "passed"} \cup Writing]
    BY Zenon, <1>2, <1>3, <2>1, OnlyWriter
  <2>3. Log!TypeOK'
    BY ZenonT(60), <1>1, <1>2, <2>1, <2>2, EmitType, LogTypes, LogTypeNext
  <2>4. \A u \in Thread : emit'[u] \notin Writing /\ g_log_mutex' # u /\ emit'[u] # "newline"
    BY Zenon, <1>3, <2>1, <2>2, LogTypes
  <2>5. NewestKept(g_ring_file', g_ring_max_size', newest_len')
    BY Zenon, <1>1, <1>6 DEF NewestKept
  <2> QED BY Zenon, <1>2, <2>1, <2>3, <2>4, <2>5 DEF LogInv
<1> QED BY Zenon, <1>5, <1>6

(* A newline goes behind the message, or to the start of a ring that the   *)
(* message and the newline together would fit: it spares the message.      *)
LEMMA NewlineSpares ==
  ASSUME NEW bs \in Seq(Log!Byte), NEW pos \in 0..Len(bs), NEW max \in Nat, NEW n \in Nat,
         n > 0, n <= pos, n + 1 <= max, NEW m \in Seq(Log!Byte), Len(m) = n,
         Stands(bs, pos - n, m), NEW at \in 0..Len(bs),
         at = pos \/ (at = 0 /\ pos + 1 > max),
         NEW piece \in Seq(Log!Byte), Len(piece) = 1
  PROVE  Stands(Log!Overwrite(bs, at, piece), pos - n, m)
<1>1. /\ Len(Log!Overwrite(bs, at, piece)) = Log!Larger(Len(bs), at + 1)
      /\ \A k \in 1..Len(bs) : k \notin (at + 1)..(at + 1) =>
           Log!Overwrite(bs, at, piece)[k] = bs[k]
  <2>1. /\ Len(Log!Overwrite(bs, at, piece)) = Log!Larger(Len(bs), at + Len(piece))
        /\ \A k \in 1..Len(bs) : k \notin (at + 1)..(at + Len(piece)) =>
             Log!Overwrite(bs, at, piece)[k] = bs[k]
    BY Zenon, Overwritten
  <2> QED BY Zenon, <2>1
<1>2. Len(bs) \in Nat /\ Log!Larger(Len(bs), at + 1) >= Len(bs)
  BY DEF Log!Larger
<1>3. /\ pos - n \in Nat /\ (pos - n) + Len(m) <= Len(bs)
      /\ \A k \in 1..n : bs[(pos - n) + k] = m[k]
  BY Zenon DEF Stands
<1>4. \A k \in 1..n : (pos - n) + k \in 1..Len(bs) /\ (pos - n) + k \notin (at + 1)..(at + 1)
  BY <1>2
<1>5. \A k \in 1..n : Log!Overwrite(bs, at, piece)[(pos - n) + k] = m[k]
  BY Zenon, <1>1, <1>3, <1>4
<1>6. (pos - n) + Len(m) <= Len(Log!Overwrite(bs, at, piece))
  BY <1>1, <1>2
<1> QED BY Zenon, <1>3, <1>5, <1>6 DEF Stands

LEMMA LogNewlineInv ==
  ASSUME LogInv, NEW t \in Thread, Log!WriteNewline(t)
  PROVE  LogInv'
<1> DEFINE piece == Log!Piece("newline", 1)
           n == newest_len
<1>1. /\ emit[t] = "newline" /\ Log!Goto(t, "idle") /\ g_log_mutex' = NULL
      /\ Log!write_to_ring_buffer(g_ring_file.bytes, piece)
      /\ g_current_level' = g_current_level /\ g_ring_max_size' = g_ring_max_size
      /\ newest_len' = newest_len
  BY Zenon DEF Log!WriteNewline
<1>2. "newline" \in Writing /\ "idle" \notin Writing /\ "idle" # "newline"
  BY DEF Writing
<1>3. /\ g_log_mutex = t /\ g_log_mutex # NULL /\ emit'[t] = "idle"
      /\ \A u \in Thread \ {t} : emit'[u] = emit[u] /\ emit'[u] \notin Writing
      /\ emit' \in [Thread -> {"idle", "passed"} \cup Writing]
  BY Zenon, <1>1, <1>2, OnlyWriter
<1>4. /\ piece \in Seq(Log!Byte) /\ Len(piece) = 1 /\ 1 \in PieceLen
      /\ piece[1] = [of |-> "newline", at |-> 1] /\ piece[1].of = "newline"
  <2>1. 1 \in Nat /\ 1 \in 1..1 /\ 1 \in PieceLen
    BY DEF PieceLen
  <2>2. "newline" \in {"old", "meta", "message", "newline", "unspecified"}
    BY Zenon
  <2>3. /\ piece \in Seq(Log!Byte) /\ Len(piece) = 1
        /\ \A k \in 1..1 : piece[k] = [of |-> "newline", at |-> k]
    BY Zenon, <2>1, <2>2, PieceIs
  <2> HIDE DEF piece
  <2>4. piece[1] = [of |-> "newline", at |-> 1]
    BY Zenon, <2>1, <2>3
  <2>5. piece[1].of = "newline"
    BY <2>4
  <2> QED BY Zenon, <2>1, <2>3, <2>4, <2>5
<1> HIDE DEF piece
<1>5. PICK at \in 0..Len(g_ring_file.bytes) :
        /\ at = Log!WriteAt(1) /\ g_ring_file' \in LogFile
        /\ g_ring_file'.open = g_ring_file.open
        /\ g_ring_file'.bytes = Log!Overwrite(g_ring_file.bytes, at, piece)
        /\ g_ring_file'.pos <= Len(g_ring_file'.bytes)
        /\ Within(Len(g_ring_file'.bytes), g_ring_max_size)
  <2>1. g_ring_file.bytes \in Seq(Log!Byte) /\ Len(piece) \in PieceLen
    BY Zenon, <1>4, LogTypes
  <2>2. \E at \in 0..Len(g_ring_file.bytes) :
           /\ at = Log!WriteAt(Len(piece))
           /\ g_ring_file' \in LogFile /\ g_ring_file'.open = g_ring_file.open
           /\ g_ring_file'.bytes = Log!Overwrite(g_ring_file.bytes, at, piece)
           /\ g_ring_file'.pos = at + Len(piece)
           /\ g_ring_file'.pos <= Len(g_ring_file'.bytes)
           /\ Within(Len(g_ring_file'.bytes), g_ring_max_size)
    BY Zenon, <1>1, <1>4, <2>1, Written
  <2> QED BY Zenon, <1>4, <2>2
<1>6. Log!TypeOK'
  BY Zenon, <1>1, <1>3, <1>5, EmitType, LogTypes, LogTypeNext
<1>7. \A u \in Thread : emit'[u] \notin Writing /\ g_log_mutex' # u /\ emit'[u] # "newline"
  BY Zenon, <1>1, <1>2, <1>3, LogTypes
<1>8. /\ n > 0 /\ n <= g_ring_file.pos
      /\ Stands(g_ring_file.bytes, g_ring_file.pos - n, Log!Message(n))
  BY Zenon, <1>1 DEF LogInv
<1>9. NewlineIn(g_ring_file'.bytes)
  <2>1. /\ g_ring_file'.bytes \in Seq(Log!Byte) /\ g_ring_file.bytes \in Seq(Log!Byte)
        /\ Stands(g_ring_file'.bytes, at, piece)
    <3>1. g_ring_file'.bytes \in Seq(Log!Byte) /\ g_ring_file.bytes \in Seq(Log!Byte)
      BY Zenon, <1>5, LogTypes DEF LogFile
    <3>2. Stands(Log!Overwrite(g_ring_file.bytes, at, piece), at, piece)
      BY Zenon, <1>4, <3>1, PieceStands
    <3> QED BY Zenon, <1>5, <3>1, <3>2
  <2>2. g_ring_file'.bytes[at + 1] = piece[1] /\ at \in Nat /\ at + 1 <= Len(g_ring_file'.bytes)
    <3>1. 1 \in 1..1
      OBVIOUS
    <3> QED BY Zenon, <1>4, <2>1, <3>1 DEF Stands
  <2>3. at + 1 \in DOMAIN g_ring_file'.bytes
    BY <2>1, <2>2
  <2> QED BY Zenon, <1>4, <2>2, <2>3 DEF NewlineIn
<1>10. ASSUME n + 1 <= g_ring_max_size, n < MsgBuf
       PROVE  \E a \in Nat : Stands(g_ring_file'.bytes, a, Log!Piece("message", n))
  <2>1. /\ g_ring_file.bytes \in Seq(Log!Byte) /\ g_ring_file.pos \in 0..Len(g_ring_file.bytes)
        /\ n \in Nat /\ g_ring_max_size \in Nat
    BY Zenon, LogTypes
  <2>2. at = g_ring_file.pos \/ (at = 0 /\ g_ring_file.pos + 1 > g_ring_max_size)
    BY <1>5, <2>1 DEF Log!WriteAt
  <2>3. /\ Log!Message(n) \in Seq(Log!Byte) /\ Len(Log!Message(n)) = n
        /\ \A k \in 1..n : Log!Message(n)[k] = Log!Piece("message", n)[k]
        /\ Len(Log!Piece("message", n)) = n
    BY Zenon, <1>10, <2>1, MessageIs, PieceIs
  <2>4. Stands(g_ring_file'.bytes, g_ring_file.pos - n, Log!Message(n))
    <3> DEFINE bs == g_ring_file.bytes
               pos == g_ring_file.pos
               m == Log!Message(n)
    <3>1. /\ bs \in Seq(Log!Byte) /\ pos \in 0..Len(bs) /\ n \in Nat
          /\ n > 0 /\ n <= pos /\ n + 1 <= g_ring_max_size
          /\ g_ring_max_size \in Nat /\ at \in 0..Len(bs)
      BY Zenon, <1>8, <1>10, <2>1
    <3>2. /\ m \in Seq(Log!Byte) /\ Len(m) = n /\ Stands(bs, pos - n, m)
          /\ at = pos \/ (at = 0 /\ pos + 1 > g_ring_max_size)
          /\ piece \in Seq(Log!Byte) /\ Len(piece) = 1
      BY Zenon, <1>4, <1>8, <2>2, <2>3
    <3> HIDE DEF bs, pos, m, n
    <3>3. Stands(Log!Overwrite(bs, at, piece), pos - n, m)
      BY Zenon, <3>1, <3>2, NewlineSpares
    <3> QED BY Zenon, <1>5, <3>3 DEF bs, pos, m
  <2>5. Stands(g_ring_file'.bytes, g_ring_file.pos - n, Log!Piece("message", n))
    <3> DEFINE a == g_ring_file.pos - n
    <3>1. /\ a \in Nat /\ a + n <= Len(g_ring_file'.bytes)
          /\ \A k \in 1..n : g_ring_file'.bytes[a + k] = Log!Message(n)[k]
      BY Zenon, <2>3, <2>4 DEF Stands
    <3> HIDE DEF a
    <3>2. \A k \in 1..n : g_ring_file'.bytes[a + k] = Log!Piece("message", n)[k]
      BY Zenon, <2>3, <3>1
    <3>3. Stands(g_ring_file'.bytes, a, Log!Piece("message", n))
      BY Zenon, <2>3, <3>1, <3>2 DEF Stands
    <3> QED BY Zenon, <3>3 DEF a
  <2> QED BY Zenon, <2>5 DEF Stands
<1>11. NewestKept(g_ring_file', g_ring_max_size', newest_len')
  BY Zenon, <1>1, <1>9, <1>10 DEF NewestKept
<1> QED BY Zenon, <1>1, <1>5, <1>6, <1>7, <1>11 DEF LogInv

LEMMA LogInvInit == Log!Init => LogInv
<1> SUFFICES ASSUME Log!Init PROVE LogInv
  BY Zenon
<1>1. /\ g_current_level = "INFO" /\ g_log_mutex = NULL /\ g_ring_file = Log!Closed
      /\ g_ring_max_size = 0 /\ emit = [t \in Thread |-> "idle"] /\ newest_len = 0
  BY Zenon DEF Log!Init
<1>2. /\ g_ring_file \in LogFile /\ g_ring_file.pos = 0 /\ g_ring_file.bytes = <<>>
  <2>1. <<>> \in Seq(Log!Byte) /\ 0 \in Nat
    OBVIOUS
  <2> QED BY Zenon, <1>1, <2>1 DEF LogFile, Log!Closed
<1>3. g_ring_file.pos <= Len(g_ring_file.bytes) /\ Len(g_ring_file.bytes) <= g_ring_max_size
  BY <1>1, <1>2
<1>4. Log!TypeOK
  BY Zenon, <1>1, <1>2 DEF Log!TypeOK, Log!Level, LogFile
<1>5. /\ "idle" \notin Writing /\ "idle" # "newline" /\ ~(newest_len > 0)
  BY <1>1 DEF Writing
<1>6. \A t \in Thread : emit[t] = "idle" /\ g_log_mutex # t
  BY Zenon, <1>1, ContextSizes
<1> QED BY Zenon, <1>3, <1>4, <1>5, <1>6 DEF LogInv, Within, NewestKept

LEMMA LogKept ==
  ASSUME LogInv, Log!Next \/ UNCHANGED logring
  PROVE  LogInv'
BY Zenon, LogQuietInv, LogOpenInv, LogMetaInv, LogMessageInv, LogNewlineInv DEF Log!Next

LEMMA LogInvImplies == LogInv => Log!TypeOK /\ Log!RingKeepsNewest
<1> SUFFICES ASSUME LogInv PROVE Log!RingKeepsNewest
  BY Zenon DEF LogInv
<1> DEFINE bs == g_ring_file.bytes
           n == newest_len
<1>1. bs \in Seq(Log!Byte) /\ Len(bs) \in Nat /\ n \in Nat
  BY Zenon, LogTypes
<1>2. ASSUME g_ring_file.open, g_log_mutex = NULL, n > 0, n + 1 <= g_ring_max_size, n < MsgBuf
      PROVE  /\ \E a \in 0..(Len(bs) - n) : SubSeq(bs, a + 1, a + n) = Log!Piece("message", n)
             /\ \E k \in DOMAIN bs : bs[k].of = "newline"
  <2> DEFINE m == Log!Piece("message", n)
  <2>1. PICK a \in Nat : Stands(bs, a, m)
    BY Zenon, <1>2 DEF LogInv, NewestKept
  <2>2. m \in Seq(Log!Byte) /\ Len(m) = n
    BY Zenon, <1>1, PieceIs
  <2> HIDE DEF m, bs, n
  <2>3. a + n <= Len(bs) /\ \A k \in 1..n : bs[a + k] = m[k]
    BY Zenon, <2>1, <2>2 DEF Stands
  <2>4. a \in 0..(Len(bs) - n)
    BY <1>1, <2>3
  <2>5. /\ SubSeq(bs, a + 1, a + n) \in Seq(Log!Byte) /\ Len(SubSeq(bs, a + 1, a + n)) = n
        /\ \A k \in 1..n : SubSeq(bs, a + 1, a + n)[k] = bs[a + k]
    BY <1>1, <1>2, <2>3
  <2>6. \A k \in 1..n : SubSeq(bs, a + 1, a + n)[k] = m[k]
    BY Zenon, <2>3, <2>5
  <2>7. SubSeq(bs, a + 1, a + n) = m
    BY Zenon, <2>2, <2>5, <2>6, SeqSame
  <2>8. NewlineIn(bs)
    BY Zenon, <1>2 DEF LogInv, NewestKept, bs, n
  <2> QED BY Zenon, <2>4, <2>7, <2>8 DEF NewlineIn, m, bs, n
<1>3. \/ Len(bs) <= g_ring_max_size
      \/ \E k \in MetaLen \cup MsgLen \cup {1} : k > g_ring_max_size /\ Len(bs) <= k
  BY Zenon DEF LogInv, Within, PieceLen
<1> QED BY Zenon, <1>2, <1>3 DEF Log!RingKeepsNewest
-----------------------------------------------------------------------------
(* ConfigFile.  The headers above a line, its section, a member's entries. *)
Above(f, i) == {j \in 1..(i - 1) : f[j].kind = "header"}
SectionAt(f, i) == IF Above(f, i) = {} THEN ""
                   ELSE f[Settings!Max(Above(f, i))].section
EntriesFor(f, m) == {i \in DOMAIN f : /\ f[i].kind = "entry"
                                      /\ Settings!Member[m] = <<SectionAt(f, i), f[i].key>>}
Topped(S) == S = {} \/ Settings!Max(S) \in S
ValueOf(f, m) == IF EntriesFor(f, m) = {} THEN Settings!vom_config_defaults[m]
                 ELSE Settings!Stored(m, f[Settings!Max(EntriesFor(f, m))].val)

(* The section in force is the one of the line to come; the headers and    *)
(* the entries seen have a last one.                                       *)
SettingsInv ==
  /\ file \in Seq(Settings!Line)
  /\ current_section = SectionAt(file, Len(file) + 1)
  /\ \A i \in 1..(Len(file) + 1) : Topped(Above(file, i))
  /\ \A m \in DOMAIN Settings!Member : /\ Topped(EntriesFor(file, m))
                                       /\ config[m] = ValueOf(file, m)

LEMMA NewMaximum ==
  ASSUME NEW n \in Nat, NEW S \in SUBSET (1..n)
  PROVE  Settings!Max(S \cup {n + 1}) = n + 1
<1> DEFINE T == S \cup {n + 1}
<1>1. n + 1 \in T /\ \A y \in T : n + 1 >= y
  OBVIOUS
<1>2. \A x \in T : (\A y \in T : x >= y) => x = n + 1
  OBVIOUS
<1> HIDE DEF T
<1>3. Settings!Max(T) = CHOOSE x \in T : \A y \in T : x >= y
  BY Zenon DEF Settings!Max
<1>4. Settings!Max(T) \in T /\ \A y \in T : Settings!Max(T) >= y
  BY Zenon, <1>1, <1>3
<1>5. Settings!Max(T) = n + 1
  BY Zenon, <1>2, <1>4
<1> QED BY Zenon, <1>5 DEF T

(* One line more leaves the sections of the lines above as they were. *)
LEMMA OneLineMore ==
  ASSUME SettingsInv, NEW line \in Settings!Line, file' = Append(file, line)
  PROVE  /\ file' \in Seq(Settings!Line) /\ Len(file) \in Nat /\ Len(file') = Len(file) + 1
         /\ DOMAIN file = 1..Len(file) /\ DOMAIN file' = 1..(Len(file) + 1)
         /\ \A i \in 1..Len(file) : file'[i] = file[i]
         /\ file'[Len(file) + 1] = line
BY DEF SettingsInv

LEMMA SectionsStay ==
  ASSUME SettingsInv, NEW line \in Settings!Line, file' = Append(file, line),
         NEW i \in 1..(Len(file) + 1)
  PROVE  Above(file', i) = Above(file, i) /\ SectionAt(file', i) = SectionAt(file, i)
<1>1. /\ Len(file) \in Nat /\ \A j \in 1..Len(file) : file'[j] = file[j]
  BY Zenon, OneLineMore
<1>2. \A j \in 1..(i - 1) : file'[j] = file[j]
  BY <1>1
<1>3. Above(file', i) = Above(file, i)
  BY Zenon, <1>2 DEF Above
<1>4. Above(file, i) \subseteq 1..(i - 1)
  BY Zenon DEF Above
<1>5. Topped(Above(file, i))
  BY Zenon DEF SettingsInv
<1> QED BY Zenon, <1>2, <1>3, <1>4, <1>5 DEF SectionAt, Topped

LEMMA SectionInForce ==
  ASSUME SettingsInv, NEW line \in Settings!Line, file' = Append(file, line)
  PROVE  /\ SectionAt(file', Len(file) + 2) =
              IF line.kind = "header" THEN line.section ELSE current_section
         /\ Topped(Above(file', Len(file) + 2))
<1> DEFINE n == Len(file)
           A == Above(file, n + 1)
<1>1. /\ n \in Nat /\ file'[n + 1] = line /\ \A j \in 1..n : file'[j] = file[j]
  BY Zenon, OneLineMore
<1>2. /\ Topped(A) /\ current_section = SectionAt(file, n + 1)
  <2>1. n + 1 \in 1..(n + 1)
    BY <1>1
  <2> QED BY Zenon, <2>1 DEF SettingsInv
<1> HIDE DEF n
<1>3. A \subseteq 1..n /\ 1..((n + 2) - 1) = (1..n) \cup {n + 1} /\ (n + 1) - 1 = n
  BY <1>1 DEF Above
<1>4. A = {j \in 1..n : file[j].kind = "header"}
  BY Zenon, <1>3 DEF Above
<1>5. Above(file', n + 2) = {j \in (1..n) \cup {n + 1} : file'[j].kind = "header"}
  BY Zenon, <1>3 DEF Above
<1>6. CASE line.kind = "header"
  <2>1. Above(file', n + 2) = A \cup {n + 1}
    BY Zenon, <1>1, <1>4, <1>5, <1>6
  <2> HIDE DEF A
  <2>2. Settings!Max(A \cup {n + 1}) = n + 1
    BY Zenon, <1>1, <1>3, NewMaximum
  <2>3. A \cup {n + 1} # {} /\ n + 1 \in A \cup {n + 1}
    BY Zenon
  <2>4. SectionAt(file', n + 2) = line.section
    BY Zenon, <1>1, <2>1, <2>2, <2>3 DEF SectionAt
  <2>5. Topped(Above(file', n + 2))
    BY Zenon, <2>1, <2>2, <2>3 DEF Topped
  <2> QED BY Zenon, <1>6, <2>4, <2>5 DEF n
<1>7. CASE line.kind # "header"
  <2>1. Above(file', n + 2) = A
    <3>1. \A j \in 1..n : file'[j].kind = file[j].kind
      BY Zenon, <1>1
    <3>2. file'[n + 1].kind # "header"
      BY Zenon, <1>1, <1>7
    <3> QED BY ZenonT(60), <1>4, <1>5, <3>1, <3>2
  <2>2. SectionAt(file', n + 2) = SectionAt(file, n + 1)
    <3>1. CASE A = {}
      BY Zenon, <2>1, <3>1 DEF SectionAt
    <3>2. CASE A # {}
      <4>1. Settings!Max(A) \in 1..n
        BY Zenon, <1>2, <1>3, <3>2 DEF Topped
      <4>2. file'[Settings!Max(A)] = file[Settings!Max(A)]
        BY Zenon, <1>1, <4>1
      <4> QED BY Zenon, <2>1, <3>2, <4>2 DEF SectionAt
    <3> QED BY Zenon, <3>1, <3>2
  <2> QED BY ZenonT(60), <1>2, <1>7, <2>1, <2>2 DEF n
<1> QED BY Zenon, <1>6, <1>7

(* The entries for a member: one more when the line is one. *)
LEMMA EntriesGrow ==
  ASSUME SettingsInv, NEW line \in Settings!Line, file' = Append(file, line),
         NEW m \in DOMAIN Settings!Member
  PROVE  IF line.kind = "entry" /\ Settings!Member[m] = <<current_section, line.key>>
           THEN /\ EntriesFor(file', m) = EntriesFor(file, m) \cup {Len(file) + 1}
                /\ Settings!Max(EntriesFor(file', m)) = Len(file) + 1
           ELSE EntriesFor(file', m) = EntriesFor(file, m)
<1> DEFINE n == Len(file)
           mine == line.kind = "entry" /\ Settings!Member[m] = <<current_section, line.key>>
<1>1. /\ n \in Nat /\ file'[n + 1] = line /\ \A j \in 1..n : file'[j] = file[j]
      /\ DOMAIN file = 1..n /\ DOMAIN file' = 1..(n + 1)
  BY Zenon, OneLineMore
<1>2. /\ 1..(n + 1) = (1..n) \cup {n + 1} /\ 1..n \subseteq 1..(n + 1) /\ n + 1 \in 1..(n + 1)
  BY <1>1
<1>3. \A i \in 1..(n + 1) : SectionAt(file', i) = SectionAt(file, i)
  BY Zenon, SectionsStay
<1>4. current_section = SectionAt(file, n + 1)
  BY Zenon DEF SettingsInv
<1> HIDE DEF n
<1>5. \A i \in 1..n : i \in EntriesFor(file', m) <=> i \in EntriesFor(file, m)
  BY Zenon, <1>1, <1>2, <1>3 DEF EntriesFor
<1>6. n + 1 \in EntriesFor(file', m) <=> mine
  BY Zenon, <1>1, <1>2, <1>3, <1>4 DEF EntriesFor
<1>7. EntriesFor(file', m) \subseteq (1..n) \cup {n + 1} /\ EntriesFor(file, m) \subseteq 1..n
  BY Zenon, <1>1, <1>2 DEF EntriesFor
<1> HIDE DEF mine
<1>8. CASE mine
  <2>1. EntriesFor(file', m) = EntriesFor(file, m) \cup {n + 1}
    BY Zenon, <1>5, <1>6, <1>7, <1>8
  <2>2. Settings!Max(EntriesFor(file', m)) = n + 1
    BY Zenon, <1>1, <1>7, <2>1, NewMaximum
  <2> QED BY Zenon, <1>8, <2>1, <2>2 DEF mine, n
<1>9. CASE ~mine
  <2>1. EntriesFor(file', m) = EntriesFor(file, m)
    BY Zenon, <1>5, <1>6, <1>7, <1>9
  <2> QED BY Zenon, <1>9, <2>1 DEF mine
<1> QED BY Zenon, <1>8, <1>9

LEMMA SettingsKept ==
  ASSUME SettingsInv, Settings!Next \/ UNCHANGED settings
  PROVE  SettingsInv'
<1>1. CASE UNCHANGED settings
  BY Zenon, <1>1 DEF settings, SettingsInv
<1>2. ASSUME NEW line \in Settings!Line, Settings!Read(line)
      PROVE  SettingsInv'
  <2>1. /\ file' = Append(file, line)
        /\ current_section' = IF line.kind = "header" THEN line.section ELSE current_section
        /\ config' = IF line.kind = "entry"
                       THEN Settings!set_config_entry(config, current_section, line.key, line.val)
                       ELSE config
    BY Zenon, <1>2 DEF Settings!Read
  <2>2. /\ file' \in Seq(Settings!Line) /\ Len(file) \in Nat /\ Len(file') = Len(file) + 1
        /\ DOMAIN file = 1..Len(file)
        /\ \A i \in 1..Len(file) : file'[i] = file[i]
        /\ file'[Len(file) + 1] = line
    BY Zenon, <2>1, OneLineMore
  <2>3. Len(file') + 1 = Len(file) + 2
        /\ 1..(Len(file') + 1) = (1..(Len(file) + 1)) \cup {Len(file) + 2}
    BY <2>2
  <2>4. current_section' = SectionAt(file', Len(file') + 1)
    BY ZenonT(60), <2>1, <2>3, SectionInForce
  <2>5. \A i \in 1..(Len(file') + 1) : Topped(Above(file', i))
    <3>1. \A i \in 1..(Len(file) + 1) : Topped(Above(file', i))
      BY Zenon, <2>1, SectionsStay DEF SettingsInv
    <3>2. Topped(Above(file', Len(file) + 2))
      BY Zenon, <2>1, SectionInForce
    <3> QED BY ZenonT(60), <2>3, <3>1, <3>2
  <2>6. ASSUME NEW m \in DOMAIN Settings!Member
        PROVE  Topped(EntriesFor(file', m)) /\ config'[m] = ValueOf(file', m)
    <3> DEFINE E == EntriesFor(file, m)
               mine == line.kind = "entry" /\ Settings!Member[m] = <<current_section, line.key>>
    <3>1. /\ mine => /\ EntriesFor(file', m) = E \cup {Len(file) + 1}
                     /\ Settings!Max(EntriesFor(file', m)) = Len(file) + 1
          /\ ~mine => EntriesFor(file', m) = E
      BY Zenon, <2>1, EntriesGrow
    <3>2. config'[m] = IF mine THEN Settings!Stored(m, line.val) ELSE config[m]
      BY Zenon, <2>1 DEF Settings!set_config_entry
    <3>3. Topped(E) /\ config[m] = ValueOf(file, m) /\ E \subseteq 1..Len(file)
      BY Zenon, <2>2 DEF SettingsInv, EntriesFor
    <3> HIDE DEF mine
    <3>4. CASE mine
      <4>1. /\ EntriesFor(file', m) # {} /\ Settings!Max(EntriesFor(file', m)) = Len(file) + 1
            /\ Len(file) + 1 \in EntriesFor(file', m)
        BY Zenon, <3>1, <3>4
      <4>2. ValueOf(file', m) = Settings!Stored(m, line.val)
        BY Zenon, <2>2, <4>1 DEF ValueOf
      <4> QED BY Zenon, <3>2, <3>4, <4>1, <4>2 DEF Topped
    <3>5. CASE ~mine
      <4>1. EntriesFor(file', m) = E
        BY Zenon, <3>1, <3>5
      <4>2. ValueOf(file', m) = ValueOf(file, m)
        <5>1. CASE E = {}
          BY Zenon, <4>1, <5>1 DEF ValueOf
        <5>2. CASE E # {}
          <6>1. file'[Settings!Max(E)] = file[Settings!Max(E)]
            BY Zenon, <2>2, <3>3, <5>2 DEF Topped
          <6> QED BY Zenon, <4>1, <5>2, <6>1 DEF ValueOf
        <5> QED BY Zenon, <5>1, <5>2
      <4> QED BY Zenon, <3>2, <3>3, <3>5, <4>1, <4>2
    <3> QED BY Zenon, <3>4, <3>5
  <2> QED BY Zenon, <2>2, <2>4, <2>5, <2>6 DEF SettingsInv
<1> QED BY Zenon, <1>1, <1>2 DEF Settings!Next

LEMMA SettingsInvInit == Settings!Init => SettingsInv
<1> SUFFICES ASSUME Settings!Init PROVE SettingsInv
  BY Zenon
<1>1. file = <<>> /\ current_section = "" /\ config = Settings!vom_config_defaults
  BY Zenon DEF Settings!Init
<1>2. /\ file \in Seq(Settings!Line) /\ Len(file) = 0 /\ DOMAIN file = {}
      /\ 1..(Len(file) + 1) = {1} /\ 1..(1 - 1) = {} /\ Len(file) + 1 = 1
  <2>1. <<>> \in Seq(Settings!Line) /\ Len(<<>>) = 0
    OBVIOUS
  <2>2. DOMAIN <<>> = {}
    OBVIOUS
  <2>3. 1..(0 + 1) = {1} /\ 1..(1 - 1) = {} /\ 0 + 1 = 1
    OBVIOUS
  <2> QED BY Zenon, <1>1, <2>1, <2>2, <2>3
<1>3. Above(file, 1) = {}
  BY Zenon, <1>2 DEF Above
<1>4. \A m \in DOMAIN Settings!Member : EntriesFor(file, m) = {}
  BY Zenon, <1>2 DEF EntriesFor
<1> QED BY Zenon, <1>1, <1>2, <1>3, <1>4 DEF SettingsInv, Topped, SectionAt, ValueOf

LEMMA SettingsInvImplies == SettingsInv => Settings!LastEntryCounts
BY Zenon DEF SettingsInv, Settings!LastEntryCounts, ValueOf, EntriesFor, SectionAt, Above
-----------------------------------------------------------------------------
(* Safety, zmq_context.c, log.c and config.c, for any number of threads,   *)
(* contexts and leaks, any sizes of the ring and its pieces and any lines  *)
(* of the configuration: see CommonLibrarySafe.                            *)
THEOREM CommonLibraryIsSafe == CommonSpec => []CommonLibrarySafe
<1> DEFINE CommonInv == ZmqInv /\ LogInv /\ SettingsInv
<1>1. CommonInit => CommonInv
  BY Zenon, ZmqInvInit, LogInvInit, SettingsInvInit DEF CommonInit
<1>2. CommonInv /\ [CommonNext]_common => CommonInv'
  BY Zenon, OneMoves, ZmqKept, LogKept, SettingsKept
<1>3. CommonInv => CommonLibrarySafe
  BY Zenon, ZmqInvImplies, LogInvImplies, SettingsInvImplies DEF CommonLibrarySafe
<1> QED BY <1>1, <1>2, <1>3, PTL DEF CommonSpec
=============================================================================
