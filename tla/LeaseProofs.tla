----------------------------- MODULE LeaseProofs -----------------------------
(***************************************************************************)
(* Proofs about leasing.  First its two halves, each for any sequence of   *)
(* calls and any timing: the worker's (WorkerRecovery), for any lease ids  *)
(* and any capacity of its table, and the master's (MasterRecovery), for   *)
(* any number of workers, leases and slots.  Then that the two, over a     *)
(* network that loses, repeats and reorders, implement ChunkLeases: for    *)
(* any chunks, workers, leases, capacities and timing.                     *)
(***************************************************************************)
EXTENDS LeaseProtocol, WorkerRecovery, TablesProofs

(* The worker: what the calls make of a context, which records there are   *)
(* afterwards, and which one a search by lease id finds.                   *)
(* The record that a search for the id finds. *)
Lead(cx, id) == cx.active_leases[First(SlotsOf(cx, id))]
Completed(l, checksum) ==
  [l EXCEPT !.state = "COMPLETED", !.output_checksum = checksum]

LEMMA ContextType ==
  ASSUME NEW Ids, NEW cx \in vom_worker_recovery_context(Ids)
  PROVE  /\ cx.active_leases \in Seq(worker_active_lease_t(Ids))
         /\ DOMAIN cx.active_leases = 1..Len(cx.active_leases)
         /\ Len(cx.active_leases) \in Nat
         /\ \A i \in DOMAIN cx.active_leases :
              cx.active_leases[i] \in worker_active_lease_t(Ids)
BY DEF vom_worker_recovery_context

(* Replacing the table gives a context again. *)
LEMMA ContextExcept ==
  ASSUME NEW Ids, NEW cx \in vom_worker_recovery_context(Ids),
         NEW t \in Seq(worker_active_lease_t(Ids))
  PROVE  /\ [cx EXCEPT !.active_leases = t] \in vom_worker_recovery_context(Ids)
         /\ [cx EXCEPT !.active_leases = t].active_leases = t
         /\ [cx EXCEPT !.active_leases = t].is_draining = cx.is_draining
BY Zenon DEF vom_worker_recovery_context

LEMMA LeadIn ==
  ASSUME NEW Ids, NEW cx \in vom_worker_recovery_context(Ids), NEW id,
         SlotsOf(cx, id) # {}
  PROVE  /\ First(SlotsOf(cx, id)) \in SlotsOf(cx, id)
         /\ \A k \in SlotsOf(cx, id) : First(SlotsOf(cx, id)) <= k
         /\ Lead(cx, id) \in worker_active_lease_t(Ids)
         /\ Lead(cx, id).lease_id = id
<1>1. SlotsOf(cx, id) \in SUBSET Nat
  BY ContextType DEF SlotsOf
<1>2. /\ First(SlotsOf(cx, id)) \in SlotsOf(cx, id)
      /\ \A k \in SlotsOf(cx, id) : First(SlotsOf(cx, id)) <= k
  BY Zenon, <1>1, FirstIn
<1> QED BY ZenonT(60), <1>2, ContextType DEF SlotsOf, Lead

LEMMA RevokeType ==
  ASSUME NEW Ids, NEW l \in worker_active_lease_t(Ids)
  PROVE  /\ Revoke(l) \in worker_active_lease_t(Ids)
         /\ Revoke(l).lease_id = l.lease_id
         /\ Revoke(l).state = "REVOKED"
         /\ Revoke(l).policy_discard_on_cancel = l.policy_discard_on_cancel
         /\ Revoke(l).partial_output_preserved = ~l.policy_discard_on_cancel
         /\ Revoke(l).output_checksum = l.output_checksum
BY ZenonT(60) DEF Revoke, worker_active_lease_t, WorkerChunkState

LEMMA CompletedType ==
  ASSUME NEW Ids, NEW l \in worker_active_lease_t(Ids), NEW s \in Checksum
  PROVE  /\ Completed(l, s) \in worker_active_lease_t(Ids)
         /\ Completed(l, s).lease_id = l.lease_id
         /\ Completed(l, s).state = "COMPLETED"
         /\ Completed(l, s).output_checksum = s
         /\ Completed(l, s).partial_output_preserved = l.partial_output_preserved
         /\ Completed(l, s).policy_discard_on_cancel = l.policy_discard_on_cancel
BY ZenonT(60) DEF Completed, worker_active_lease_t, WorkerChunkState

LEMMA ReconcileType ==
  ASSUME NEW Ids, NEW l \in worker_active_lease_t(Ids), NEW auth
  PROVE  /\ Reconcile(l, auth) \in worker_active_lease_t(Ids)
         /\ Reconcile(l, auth).lease_id = l.lease_id
         /\ \/ Reconcile(l, auth) = l
            \/ Reconcile(l, auth) = Revoke(l) /\ l.state = "RUNNING"
               /\ l.lease_id \notin auth
            \/ /\ Reconcile(l, auth) = [l EXCEPT !.state = "RECONCILED"]
               /\ l.state = "COMPLETED" /\ l.lease_id \in auth
<1>1. [l EXCEPT !.state = "RECONCILED"] \in worker_active_lease_t(Ids)
      /\ [l EXCEPT !.state = "RECONCILED"].lease_id = l.lease_id
  BY Zenon DEF worker_active_lease_t, WorkerChunkState
<1> QED BY Zenon, <1>1, RevokeType DEF Reconcile

-----------------------------------------------------------------------------
(* accept_new_chunk adds one record at the end. *)
LEMMA AcceptFacts ==
  ASSUME NEW Ids, NEW cx \in vom_worker_recovery_context(Ids), Accepts(cx),
         NEW id \in Ids, NEW discard \in BOOLEAN,
         NEW d, d = accept_new_chunk(cx, id, discard)
  PROVE  /\ d \in vom_worker_recovery_context(Ids)
         /\ Len(d.active_leases) <= WORKER_MAX_ACTIVE_LEASES
         /\ NewLease(id, discard) \in worker_active_lease_t(Ids)
         /\ \A x \in DOMAIN d.active_leases :
              \/ /\ x \in DOMAIN cx.active_leases
                 /\ d.active_leases[x] = cx.active_leases[x]
              \/ d.active_leases[x] = NewLease(id, discard)
         /\ \A i : SlotsOf(cx, i) # {} => /\ SlotsOf(d, i) # {}
                                          /\ Lead(d, i) = Lead(cx, i)
<1> DEFINE s == cx.active_leases
           n == NewLease(id, discard)
           t == Append(s, n)
<1>1. n \in worker_active_lease_t(Ids)
  BY Zenon DEF NewLease, worker_active_lease_t, WorkerChunkState
<1>2. /\ s \in Seq(worker_active_lease_t(Ids)) /\ DOMAIN s = 1..Len(s)
      /\ Len(s) \in Nat /\ Len(s) < WORKER_MAX_ACTIVE_LEASES
  BY Zenon, ContextType DEF Accepts
<1>3. d = [cx EXCEPT !.active_leases = t]
  BY Zenon DEF accept_new_chunk
<1> HIDE DEF n, s
<1>4. /\ t \in Seq(worker_active_lease_t(Ids)) /\ Len(t) = Len(s) + 1
      /\ DOMAIN t = 1..(Len(s) + 1)
      /\ \A x \in 1..Len(s) : t[x] = s[x]
      /\ t[Len(s) + 1] = n
  BY <1>1, <1>2
<1> HIDE DEF t
<1>5. d \in vom_worker_recovery_context(Ids) /\ d.active_leases = t
  BY <1>3, <1>4, ContextExcept
<1>6. Len(d.active_leases) <= WORKER_MAX_ACTIVE_LEASES
  BY <1>2, <1>4, <1>5, LeaseSlotsExist
<1>7. ASSUME NEW x \in DOMAIN d.active_leases
      PROVE  \/ x \in DOMAIN cx.active_leases /\ t[x] = s[x]
             \/ t[x] = n
  <2>1. x \in 1..Len(s) \/ x = Len(s) + 1
    BY <1>2, <1>4, <1>5
  <2> QED BY Zenon, <1>2, <1>4, <2>1 DEF s
<1>8. ASSUME NEW i, SlotsOf(cx, i) # {}
      PROVE  SlotsOf(d, i) # {} /\ Lead(d, i) = Lead(cx, i)
  <2> DEFINE f == First(SlotsOf(cx, i))
  <2>1. /\ f \in SlotsOf(cx, i) /\ \A k \in SlotsOf(cx, i) : f <= k
    BY Zenon, <1>8, LeadIn
  <2>2. f \in 1..Len(s) /\ s[f].lease_id = i
    BY Zenon, <1>2, <2>1 DEF SlotsOf, s
  <2> HIDE DEF f
  <2>3. f \in SlotsOf(d, i) /\ SlotsOf(d, i) \in SUBSET Nat
    BY <1>2, <1>4, <1>5, <2>2 DEF SlotsOf
  <2>4. ASSUME NEW k \in SlotsOf(d, i) PROVE f <= k
    <3>1. k \in 1..(Len(s) + 1) /\ t[k].lease_id = i
      BY Zenon, <1>4, <1>5 DEF SlotsOf
    <3>2. CASE k \in 1..Len(s)
      <4>1. k \in SlotsOf(cx, i)
        BY Zenon, <1>2, <1>4, <3>1, <3>2 DEF SlotsOf, s
      <4> QED BY Zenon, <2>1, <4>1
    <3>3. CASE k = Len(s) + 1
      BY <1>2, <2>2, <3>3
    <3> QED BY <1>2, <3>1, <3>2, <3>3
  <2>5. First(SlotsOf(d, i)) = f
    BY Zenon, <2>3, <2>4, FirstIs
  <2> QED BY Zenon, <1>4, <1>5, <2>2, <2>3, <2>5 DEF Lead, f, s
<1> QED BY Zenon, <1>1, <1>5, <1>6, <1>7, <1>8 DEF n, s

(* The context d is cx with the record r in slot x. *)
Updated(d, cx, x, r) ==
  /\ DOMAIN d.active_leases = DOMAIN cx.active_leases
  /\ Len(d.active_leases) = Len(cx.active_leases)
  /\ \A y \in DOMAIN cx.active_leases :
       d.active_leases[y] = IF y = x THEN r ELSE cx.active_leases[y]
  /\ \A i : /\ SlotsOf(d, i) = SlotsOf(cx, i)
            /\ SlotsOf(cx, i) # {} =>
                 Lead(d, i) = IF First(SlotsOf(cx, i)) = x THEN r
                              ELSE Lead(cx, i)

(* Replacing one record by another of the same lease leaves every search   *)
(* where it was.                                                           *)
LEMMA UpdateFacts ==
  ASSUME NEW Ids, NEW cx \in vom_worker_recovery_context(Ids),
         NEW x \in DOMAIN cx.active_leases,
         NEW r \in worker_active_lease_t(Ids),
         r.lease_id = cx.active_leases[x].lease_id,
         NEW d, d = [cx EXCEPT !.active_leases = [cx.active_leases EXCEPT ![x] = r]]
  PROVE  /\ d \in vom_worker_recovery_context(Ids)
         /\ Updated(d, cx, x, r)
<1> DEFINE s == cx.active_leases
           t == [s EXCEPT ![x] = r]
<1>1. s \in Seq(worker_active_lease_t(Ids))
  BY Zenon, ContextType
<1>2. d = [cx EXCEPT !.active_leases = t]
  BY Zenon
<1>3. x \in DOMAIN s /\ r.lease_id = s[x].lease_id
  BY Zenon
<1> HIDE DEF s
<1>4. /\ t \in Seq(worker_active_lease_t(Ids)) /\ Len(t) = Len(s)
      /\ DOMAIN t = DOMAIN s
      /\ \A y \in DOMAIN s : t[y] = IF y = x THEN r ELSE s[y]
  BY <1>1, <1>3
<1> HIDE DEF t
<1>5. d \in vom_worker_recovery_context(Ids) /\ d.active_leases = t
  <2>1. t \in Seq(worker_active_lease_t(Ids))
    BY Zenon, <1>4
  <2>2. /\ [cx EXCEPT !.active_leases = t] \in vom_worker_recovery_context(Ids)
        /\ [cx EXCEPT !.active_leases = t].active_leases = t
    BY <2>1, ContextExcept
  <2> QED BY <1>2, <2>2, Zenon
<1>6. ASSUME NEW i PROVE SlotsOf(d, i) = SlotsOf(cx, i)
  BY Zenon, <1>3, <1>4, <1>5 DEF SlotsOf, s
<1>7. ASSUME NEW i, SlotsOf(cx, i) # {}
      PROVE  Lead(d, i) = IF First(SlotsOf(cx, i)) = x THEN r ELSE Lead(cx, i)
  <2>1. First(SlotsOf(cx, i)) \in DOMAIN s
    <3>1. First(SlotsOf(cx, i)) \in SlotsOf(cx, i)
      BY Zenon, <1>7, LeadIn
    <3> QED BY Zenon, <3>1 DEF SlotsOf, s
  <2> QED BY ZenonT(60), <1>4, <1>5, <1>6, <2>1 DEF Lead, s
<1> QED BY ZenonT(60), <1>4, <1>5, <1>6, <1>7 DEF s, Updated

(* handle_revocation revokes the record that the search finds. *)
LEMMA RevocationFacts ==
  ASSUME NEW Ids, NEW cx \in vom_worker_recovery_context(Ids),
         NEW id, SlotsOf(cx, id) # {},
         NEW d, d = handle_revocation(cx, id)
  PROVE  /\ d \in vom_worker_recovery_context(Ids)
         /\ DOMAIN d.active_leases = DOMAIN cx.active_leases
         /\ Len(d.active_leases) = Len(cx.active_leases)
         /\ \A y \in DOMAIN cx.active_leases :
              d.active_leases[y] = IF y = First(SlotsOf(cx, id))
                                     THEN Revoke(cx.active_leases[y])
                                     ELSE cx.active_leases[y]
         /\ \A i : SlotsOf(d, i) = SlotsOf(cx, i)
         /\ Lead(d, id) = Revoke(Lead(cx, id))
         /\ \A i : i # id /\ SlotsOf(cx, i) # {} => Lead(d, i) = Lead(cx, i)
<1> DEFINE f == First(SlotsOf(cx, id))
           r == Revoke(cx.active_leases[f])
<1>1. f \in DOMAIN cx.active_leases /\ cx.active_leases[f].lease_id = id
  <2>1. f \in SlotsOf(cx, id)
    BY Zenon, LeadIn
  <2> HIDE DEF f
  <2> QED BY Zenon, <2>1 DEF SlotsOf
<1>2. r \in worker_active_lease_t(Ids) /\ r.lease_id = cx.active_leases[f].lease_id
  BY Zenon, <1>1, ContextType, RevokeType
<1>3. d = [cx EXCEPT !.active_leases = [cx.active_leases EXCEPT ![f] = r]]
  <2>1. d = [cx EXCEPT !.active_leases[f] = Revoke(@)]
    BY Zenon DEF handle_revocation
  <2> HIDE DEF f
  <2>2. cx = [cx EXCEPT !.active_leases = cx.active_leases]
    BY Zenon DEF vom_worker_recovery_context
  <2> QED BY Zenon, <2>1, <2>2
<1>4. \A i : i # id /\ SlotsOf(cx, i) # {} => First(SlotsOf(cx, i)) # f
  <2> TAKE i
  <2> HAVE i # id /\ SlotsOf(cx, i) # {}
  <2>1. cx.active_leases[First(SlotsOf(cx, i))].lease_id = i
    BY Zenon, LeadIn DEF Lead
  <2> QED BY Zenon, <1>1, <2>1
<1>5. Lead(cx, id) = cx.active_leases[f]
  BY Zenon DEF Lead
<1>6. /\ d \in vom_worker_recovery_context(Ids)
      /\ DOMAIN d.active_leases = DOMAIN cx.active_leases
      /\ Len(d.active_leases) = Len(cx.active_leases)
      /\ \A y \in DOMAIN cx.active_leases :
           d.active_leases[y] = IF y = f THEN r ELSE cx.active_leases[y]
      /\ \A i : /\ SlotsOf(d, i) = SlotsOf(cx, i)
                /\ SlotsOf(cx, i) # {} =>
                     Lead(d, i) = IF First(SlotsOf(cx, i)) = f THEN r
                                  ELSE Lead(cx, i)
  <2> HIDE DEF f, r
  <2>1. d \in vom_worker_recovery_context(Ids) /\ Updated(d, cx, f, r)
    BY Zenon, <1>1, <1>2, <1>3, UpdateFacts
  <2> QED BY Zenon, <2>1 DEF Updated
<1>7. Lead(d, id) = Revoke(Lead(cx, id))
  BY Zenon, <1>5, <1>6
<1>8. \A i : i # id /\ SlotsOf(cx, i) # {} => Lead(d, i) = Lead(cx, i)
  BY Zenon, <1>4, <1>6
<1> QED BY Zenon, <1>6, <1>7, <1>8

(* complete_chunk completes one RUNNING record of the lease: the one a     *)
(* search finds when that is RUNNING, a later copy when it is not.         *)
LEMMA CompleteFacts ==
  ASSUME NEW Ids, NEW cx \in vom_worker_recovery_context(Ids),
         NEW id, RunningSlots(cx, id) # {}, NEW s \in Checksum,
         NEW d, d = complete_chunk(cx, id, s)
  PROVE  /\ d \in vom_worker_recovery_context(Ids)
         /\ DOMAIN d.active_leases = DOMAIN cx.active_leases
         /\ Len(d.active_leases) = Len(cx.active_leases)
         /\ \A y \in DOMAIN cx.active_leases :
              \/ d.active_leases[y] = cx.active_leases[y]
              \/ /\ cx.active_leases[y].state = "RUNNING"
                 /\ cx.active_leases[y].lease_id = id
                 /\ d.active_leases[y] = Completed(cx.active_leases[y], s)
         /\ \A i : SlotsOf(d, i) = SlotsOf(cx, i)
         /\ \A i : SlotsOf(cx, i) # {} =>
              Lead(d, i) = IF i = id /\ Lead(cx, i).state = "RUNNING"
                             THEN Completed(Lead(cx, i), s) ELSE Lead(cx, i)
<1> DEFINE g == First(RunningSlots(cx, id))
           r == Completed(cx.active_leases[g], s)
<1>1. RunningSlots(cx, id) \in SUBSET Nat
  BY ContextType DEF RunningSlots, SlotsOf
<1>2. g \in RunningSlots(cx, id) /\ \A k \in RunningSlots(cx, id) : g <= k
  BY Zenon, <1>1, FirstIn
<1>3. /\ g \in DOMAIN cx.active_leases /\ cx.active_leases[g].lease_id = id
      /\ cx.active_leases[g].state = "RUNNING"
  BY Zenon, <1>2 DEF RunningSlots, SlotsOf
<1>4. r \in worker_active_lease_t(Ids) /\ r.lease_id = cx.active_leases[g].lease_id
  BY <1>3, ContextType, CompletedType
<1>5. d = [cx EXCEPT !.active_leases = [cx.active_leases EXCEPT ![g] = r]]
  <2>1. d = [cx EXCEPT !.active_leases[g].state = "COMPLETED",
                        !.active_leases[g].output_checksum = s]
    BY Zenon DEF complete_chunk
  <2> HIDE DEF g
  <2> QED BY ZenonT(60), <1>3, <2>1, ContextType DEF Completed, vom_worker_recovery_context, worker_active_lease_t
<1>6. ASSUME NEW i, SlotsOf(cx, i) # {}
      PROVE  First(SlotsOf(cx, i)) = g <=> i = id /\ Lead(cx, i).state = "RUNNING"
  <2> DEFINE f == First(SlotsOf(cx, i))
  <2>1. /\ f \in SlotsOf(cx, i) /\ \A k \in SlotsOf(cx, i) : f <= k
        /\ Lead(cx, i) = cx.active_leases[f]
    BY Zenon, <1>6, LeadIn DEF Lead
  <2>2. f = g => i = id /\ Lead(cx, i).state = "RUNNING"
    BY ZenonT(60), <1>3, <2>1 DEF SlotsOf
  <2>3. ASSUME i = id, Lead(cx, i).state = "RUNNING" PROVE f = g
    <3>1. f \in RunningSlots(cx, id) /\ g \in SlotsOf(cx, i)
      BY Zenon, <1>2, <2>1, <2>3 DEF RunningSlots
    <3>2. f <= g /\ g <= f /\ f \in Nat /\ g \in Nat
      BY Zenon, <1>1, <1>2, <2>1, <3>1
    <3> HIDE DEF f, g
    <3> QED BY <3>2
  <2> QED BY Zenon, <2>2, <2>3
<1>7. /\ d \in vom_worker_recovery_context(Ids)
      /\ DOMAIN d.active_leases = DOMAIN cx.active_leases
      /\ Len(d.active_leases) = Len(cx.active_leases)
      /\ \A y \in DOMAIN cx.active_leases :
           d.active_leases[y] = IF y = g THEN r ELSE cx.active_leases[y]
      /\ \A i : /\ SlotsOf(d, i) = SlotsOf(cx, i)
                /\ SlotsOf(cx, i) # {} =>
                     Lead(d, i) = IF First(SlotsOf(cx, i)) = g THEN r
                                  ELSE Lead(cx, i)
  <2> HIDE DEF g, r
  <2>1. d \in vom_worker_recovery_context(Ids) /\ Updated(d, cx, g, r)
    BY Zenon, <1>3, <1>4, <1>5, UpdateFacts
  <2> QED BY Zenon, <2>1 DEF Updated
<1>8. ASSUME NEW i, SlotsOf(cx, i) # {}
      PROVE  Lead(d, i) = IF i = id /\ Lead(cx, i).state = "RUNNING"
                            THEN Completed(Lead(cx, i), s) ELSE Lead(cx, i)
  <2>1. First(SlotsOf(cx, i)) = g => r = Completed(Lead(cx, i), s)
    BY Zenon DEF Lead
  <2> HIDE DEF g, r
  <2> QED BY Zenon, <1>6, <1>7, <1>8, <2>1
<1> QED BY Zenon, <1>3, <1>7, <1>8

(* Of which the protocol needs what becomes of the records. *)
LEMMA CompleteRecords ==
  ASSUME NEW Ids, NEW cx \in vom_worker_recovery_context(Ids),
         NEW id, RunningSlots(cx, id) # {}, NEW s \in Checksum
  PROVE  LET d == complete_chunk(cx, id, s)
         IN  /\ d \in vom_worker_recovery_context(Ids)
             /\ DOMAIN d.active_leases = DOMAIN cx.active_leases
             /\ \A y \in DOMAIN cx.active_leases :
                  \/ d.active_leases[y] = cx.active_leases[y]
                  \/ /\ cx.active_leases[y].state = "RUNNING"
                     /\ cx.active_leases[y].lease_id = id
                     /\ d.active_leases[y] = Completed(cx.active_leases[y], s)
<1>1. PICK d : d = complete_chunk(cx, id, s)
  BY Zenon
<1>2. /\ d \in vom_worker_recovery_context(Ids)
      /\ DOMAIN d.active_leases = DOMAIN cx.active_leases
      /\ \A y \in DOMAIN cx.active_leases :
           \/ d.active_leases[y] = cx.active_leases[y]
           \/ /\ cx.active_leases[y].state = "RUNNING"
              /\ cx.active_leases[y].lease_id = id
              /\ d.active_leases[y] = Completed(cx.active_leases[y], s)
  BY SMT, <1>1, CompleteFacts
<1> QED BY Zenon, <1>1, <1>2

(* reconnect_reconcile: every record left comes from one that is kept, and *)
(* a search still finds the record it found before, if that is kept.       *)
LEMMA ReconcileFacts ==
  ASSUME NEW Ids, NEW cx \in vom_worker_recovery_context(Ids), NEW auth,
         NEW d, d = reconnect_reconcile(cx, auth)
  PROVE  /\ d \in vom_worker_recovery_context(Ids)
         /\ Len(d.active_leases) <= Len(cx.active_leases)
         /\ \A x \in DOMAIN d.active_leases :
              \E y \in DOMAIN cx.active_leases :
                /\ Kept(cx.active_leases[y], auth)
                /\ d.active_leases[x] = Reconcile(cx.active_leases[y], auth)
         /\ \A i : SlotsOf(cx, i) # {} /\ Kept(Lead(cx, i), auth) =>
              SlotsOf(d, i) # {} /\ Lead(d, i) = Reconcile(Lead(cx, i), auth)
<1> DEFINE s == cx.active_leases
           K == {y \in DOMAIN s : Kept(s[y], auth)}
           k == Compact(s, K)
           t == [x \in DOMAIN k |-> Reconcile(k[x], auth)]
           LT == worker_active_lease_t(Ids)
<1>1. /\ s \in Seq(LT) /\ DOMAIN s = 1..Len(s) /\ Len(s) \in Nat
      /\ \A y \in DOMAIN s : s[y] \in LT
  BY Zenon, ContextType
<1>2. K \in SUBSET DOMAIN s /\ \A y \in K : Kept(s[y], auth)
  BY Zenon
<1>3. \A y \in DOMAIN s : Kept(s[y], auth) => y \in K
  BY Zenon
<1>4. d = [cx EXCEPT !.is_connected_to_master = TRUE, !.active_leases = t]
  BY Zenon DEF reconnect_reconcile
<1> HIDE DEF s, K, LT
<1>5. /\ k \in Seq(LT) /\ Len(k) <= Len(s)
      /\ \A x \in DOMAIN k : \E y \in K : Rank(K, y) = x /\ k[x] = s[y]
      /\ \A y \in K : Rank(K, y) \in DOMAIN k /\ k[Rank(K, y)] = s[y]
      /\ \A y, z \in K : y < z => Rank(K, y) < Rank(K, z)
  BY <1>1, <1>2, CompactFacts
<1> HIDE DEF k
<1>6. \A l \in LT : Reconcile(l, auth) \in LT /\ Reconcile(l, auth).lease_id = l.lease_id
  BY Zenon, ReconcileType DEF LT
<1>7. t \in Seq(LT) /\ Len(t) = Len(k) /\ DOMAIN t = DOMAIN k /\ DOMAIN k = 1..Len(k)
  <2>1. DOMAIN k = 1..Len(k) /\ Len(k) \in Nat /\ \A x \in DOMAIN k : k[x] \in LT
    BY <1>5
  <2>2. t \in [1..Len(k) -> LT]
    BY Zenon, <1>6, <2>1
  <2> HIDE DEF t
  <2> QED BY Zenon, <2>1, <2>2, SeqOfFunction
<1>8. \A x \in DOMAIN k : t[x] = Reconcile(k[x], auth)
  BY Zenon
<1> HIDE DEF t
<1>9. d \in vom_worker_recovery_context(Ids) /\ d.active_leases = t
  BY ZenonT(60), <1>4, <1>7 DEF vom_worker_recovery_context, LT
<1>10. ASSUME NEW x \in DOMAIN t
       PROVE  \E y \in DOMAIN s : Kept(s[y], auth) /\ t[x] = Reconcile(s[y], auth)
  <2>1. PICK y \in K : k[x] = s[y]
    BY Zenon, <1>5, <1>7
  <2> QED BY Zenon, <1>2, <1>7, <1>8, <2>1
<1>11. ASSUME NEW i, SlotsOf(cx, i) # {}, Kept(Lead(cx, i), auth)
       PROVE  SlotsOf(d, i) # {} /\ Lead(d, i) = Reconcile(Lead(cx, i), auth)
  <2> DEFINE f == First(SlotsOf(cx, i))
             g == Rank(K, f)
  <2>1. /\ f \in SlotsOf(cx, i) /\ \A y \in SlotsOf(cx, i) : f <= y
        /\ Lead(cx, i) = s[f]
    BY Zenon, <1>11, LeadIn DEF Lead, s
  <2> HIDE DEF f
  <2>2. f \in DOMAIN s /\ f \in Nat /\ s[f].lease_id = i /\ f \in K
    <3>1. f \in DOMAIN s /\ s[f].lease_id = i
      BY Zenon, <2>1 DEF SlotsOf, s
    <3> QED BY <1>1, <1>3, <1>11, <2>1, <3>1
  <2>3. g \in DOMAIN k /\ k[g] = s[f] /\ g \in Nat
    BY <1>5, <1>7, <2>2
  <2>4. g \in SlotsOf(d, i) /\ SlotsOf(d, i) \in SUBSET Nat /\ t[g] = Reconcile(s[f], auth)
    <3>1. t[g] = Reconcile(s[f], auth) /\ t[g].lease_id = i
      BY Zenon, <1>1, <1>6, <1>8, <2>2, <2>3
    <3> QED BY <1>7, <1>9, <2>3, <3>1 DEF SlotsOf
  <2>5. ASSUME NEW x \in SlotsOf(d, i) PROVE g <= x
    <3>1. x \in DOMAIN k /\ t[x].lease_id = i /\ x \in Nat
      BY <1>7, <1>9 DEF SlotsOf
    <3>2. PICK y \in K : Rank(K, y) = x /\ k[x] = s[y]
      BY Zenon, <1>5, <3>1
    <3>3. s[y] \in LT /\ y \in DOMAIN s /\ y \in Nat
      BY <1>1, <1>2, <3>2
    <3>4. s[y].lease_id = i
      BY <1>6, <1>8, <3>1, <3>2, <3>3
    <3>5. f <= y
      BY Zenon, <2>1, <3>3, <3>4 DEF SlotsOf, s
    <3>6. CASE f = y
      BY <2>3, <3>2, <3>6
    <3>7. CASE f < y
      BY <1>5, <2>2, <2>3, <3>1, <3>2, <3>7
    <3> QED BY <2>2, <3>3, <3>5, <3>6, <3>7
  <2> HIDE DEF g
  <2>6. First(SlotsOf(d, i)) = g
    BY Zenon, <2>4, <2>5, FirstIs
  <2> QED BY Zenon, <1>9, <2>1, <2>4, <2>6 DEF Lead
<1> QED BY Zenon, <1>5, <1>7, <1>9, <1>10, <1>11 DEF s

-----------------------------------------------------------------------------
(* A result that can be claimed can be claimed after each of the calls: an *)
(* assignment, a revocation of another lease, a completion, and a list     *)
(* that names the lease.                                                   *)
LEMMA ReadyIs ==
  ASSUME NEW d, NEW l
  PROVE  claim_result(d, l) <=> /\ SlotsOf(d, l) # {}
                                /\ Lead(d, l).state \in {"RECONCILED", "COMPLETED"}
BY Zenon DEF claim_result, Lead

LEMMA ReadyAccepted ==
  ASSUME NEW Ids, NEW cx \in vom_worker_recovery_context(Ids), Accepts(cx),
         NEW id \in Ids, NEW discard \in BOOLEAN, NEW l, claim_result(cx, l)
  PROVE  claim_result(accept_new_chunk(cx, id, discard), l)
<1>1. PICK d : d = accept_new_chunk(cx, id, discard)
  BY Zenon
<1>2. SlotsOf(cx, l) # {} /\ Lead(cx, l).state \in {"RECONCILED", "COMPLETED"}
  BY Zenon, ReadyIs
<1>3. SlotsOf(d, l) # {} /\ Lead(d, l) = Lead(cx, l)
  BY <1>1, <1>2, AcceptFacts
<1> QED BY Zenon, <1>1, <1>2, <1>3, ReadyIs

LEMMA ReadyRevoked ==
  ASSUME NEW Ids, NEW cx \in vom_worker_recovery_context(Ids),
         NEW id, NEW l, id # l, claim_result(cx, l)
  PROVE  claim_result(handle_revocation(cx, id), l)
<1>1. PICK d : d = handle_revocation(cx, id)
  BY Zenon
<1>2. SlotsOf(cx, l) # {} /\ Lead(cx, l).state \in {"RECONCILED", "COMPLETED"}
  BY Zenon, ReadyIs
<1>3. CASE SlotsOf(cx, id) = {}
  BY Zenon, <1>3 DEF handle_revocation
<1>4. CASE SlotsOf(cx, id) # {}
  <2>1. SlotsOf(d, l) = SlotsOf(cx, l) /\ Lead(d, l) = Lead(cx, l)
    BY <1>1, <1>2, <1>4, RevocationFacts
  <2> QED BY Zenon, <1>1, <1>2, <2>1, ReadyIs
<1> QED BY Zenon, <1>3, <1>4

LEMMA ReadyCompleted ==
  ASSUME NEW Ids, NEW cx \in vom_worker_recovery_context(Ids),
         NEW id, RunningSlots(cx, id) # {}, NEW s \in Checksum,
         NEW l, claim_result(cx, l)
  PROVE  claim_result(complete_chunk(cx, id, s), l)
<1>1. PICK d : d = complete_chunk(cx, id, s)
  BY Zenon
<1>2. SlotsOf(cx, l) # {} /\ Lead(cx, l).state \in {"RECONCILED", "COMPLETED"}
  BY Zenon, ReadyIs
<1>3. Lead(cx, l).state # "RUNNING"
  BY Zenon, <1>2
<1>4. SlotsOf(d, l) = SlotsOf(cx, l) /\ Lead(d, l) = Lead(cx, l)
  BY <1>1, <1>2, <1>3, CompleteFacts
<1> QED BY Zenon, <1>1, <1>2, <1>4, ReadyIs

LEMMA ReadyReconciled ==
  ASSUME NEW Ids, NEW cx \in vom_worker_recovery_context(Ids),
         NEW auth, NEW l \in auth, claim_result(cx, l)
  PROVE  claim_result(reconnect_reconcile(cx, auth), l)
<1>1. PICK d : d = reconnect_reconcile(cx, auth)
  BY Zenon
<1>2. SlotsOf(cx, l) # {} /\ Lead(cx, l).state \in {"RECONCILED", "COMPLETED"}
  BY Zenon, ReadyIs
<1>3. Lead(cx, l) \in worker_active_lease_t(Ids) /\ Lead(cx, l).lease_id = l
  BY Zenon, <1>2, LeadIn
<1>4. Kept(Lead(cx, l), auth)
  BY Zenon, <1>3 DEF Kept
<1>5. SlotsOf(d, l) # {} /\ Lead(d, l) = Reconcile(Lead(cx, l), auth)
  BY <1>1, <1>2, <1>4, ReconcileFacts
<1>6. Reconcile(Lead(cx, l), auth).state \in {"RECONCILED", "COMPLETED"}
  BY Zenon, <1>2, <1>3 DEF Reconcile, worker_active_lease_t
<1> QED BY Zenon, <1>1, <1>5, <1>6, ReadyIs

-----------------------------------------------------------------------------
(* The worker under any sequence of calls. *)

(* What ties the table to the history: the copy a search finds of a lease  *)
(* once revoked is REVOKED and never leaves the table, only revoked leases *)
(* are REVOKED, and a finished copy has its checksum.                      *)
HistoryTold ==
  /\ \A id \in revoked : SlotsOf(rec, id) # {} /\ Lead(rec, id).state = "REVOKED"
  /\ \A i \in DOMAIN rec.active_leases :
       LET l == rec.active_leases[i]
       IN  /\ l.state = "REVOKED" => l.lease_id \in revoked
           /\ l.state \in {"COMPLETED", "RECONCILED"} => l.output_checksum # NoChecksum

(* The inductive invariant. *)
WorkerInv == RevokedNeverClaimed /\ FinishedKept /\ HistoryTold

(* The invariant again, record by record. *)
RecordOK(l, rv, li) ==
  /\ l.partial_output_preserved <=> l.state = "REVOKED" /\ ~l.policy_discard_on_cancel
  /\ l.lease_id \in li \/ l.state = "REVOKED"
  /\ l.state = "REVOKED" => l.lease_id \in rv
  /\ l.state \in {"COMPLETED", "RECONCILED"} => l.output_checksum # NoChecksum
IdsOK(r, rv, fi) ==
  /\ \A id \in rv : SlotsOf(r, id) # {} /\ Lead(r, id).state = "REVOKED"
  /\ \A id \in fi : /\ SlotsOf(r, id) # {}
                    /\ Lead(r, id).state \in {"COMPLETED", "RECONCILED"}
                    /\ Lead(r, id).output_checksum # NoChecksum
TypesOK(r, rv, fi, li) ==
  /\ r \in vom_worker_recovery_context(AssignedId)
  /\ Len(r.active_leases) <= WORKER_MAX_ACTIVE_LEASES
  /\ rv \subseteq AssignedId /\ fi \subseteq AssignedId /\ li \subseteq AssignedId

LEMMA InvRecords ==
  /\ WorkerInv <=> /\ TypesOK(rec, revoked, finished, listed)
                   /\ \A i \in DOMAIN rec.active_leases :
                        RecordOK(rec.active_leases[i], revoked, listed)
                   /\ IdsOK(rec, revoked, finished)
  /\ WorkerInv' <=> /\ TypesOK(rec', revoked', finished', listed')
                    /\ \A i \in DOMAIN rec'.active_leases :
                         RecordOK(rec'.active_leases[i], revoked', listed')
                    /\ IdsOK(rec', revoked', finished')
<1>1. WorkerInv <=> /\ TypesOK(rec, revoked, finished, listed)
                    /\ \A i \in DOMAIN rec.active_leases :
                         RecordOK(rec.active_leases[i], revoked, listed)
                    /\ IdsOK(rec, revoked, finished)
  BY Zenon DEF WorkerInv, WorkerTypeOK, RevokedNeverClaimed, FinishedKept, HistoryTold, TypesOK,
     RecordOK, IdsOK, claim_result, Lead
<1>2. WorkerInv' <=> /\ TypesOK(rec', revoked', finished', listed')
                     /\ \A i \in DOMAIN rec'.active_leases :
                          RecordOK(rec'.active_leases[i], revoked', listed')
                     /\ IdsOK(rec', revoked', finished')
  BY Zenon DEF WorkerInv, WorkerTypeOK, RevokedNeverClaimed, FinishedKept, HistoryTold, TypesOK,
     RecordOK, IdsOK, claim_result, Lead
<1> QED BY Zenon, <1>1, <1>2

LEMMA WorkerInvInit == WorkerInit => WorkerInv
<1> SUFFICES ASSUME WorkerInit PROVE WorkerInv
  BY Zenon
<1>1. TypesOK(rec, revoked, finished, listed) /\ DOMAIN rec.active_leases = {}
  BY LeaseSlotsExist DEF WorkerInit, recovery_init, TypesOK, vom_worker_recovery_context
<1>2. IdsOK(rec, revoked, finished)
  BY Zenon DEF WorkerInit, IdsOK
<1> QED BY Zenon, <1>1, <1>2, InvRecords

(* Neither flag of the context is read by the invariant. *)
LEMMA FlagsInv ==
  ASSUME WorkerInv, NEW d \in vom_worker_recovery_context(AssignedId),
         d.active_leases = rec.active_leases, rec' = d,
         UNCHANGED <<revoked, finished, listed>>
  PROVE  WorkerInv'
<1>1. \A i : SlotsOf(rec', i) = SlotsOf(rec, i) /\ Lead(rec', i) = Lead(rec, i)
  BY ZenonT(60) DEF SlotsOf, Lead
<1> QED BY Zenon, <1>1, InvRecords DEF TypesOK, IdsOK

LEMMA WorkerInvNext ==
  ASSUME WorkerInv, [WorkerNext]_workerVars
  PROVE  WorkerInv'
<1>1. /\ TypesOK(rec, revoked, finished, listed)
      /\ \A i \in DOMAIN rec.active_leases :
           RecordOK(rec.active_leases[i], revoked, listed)
      /\ IdsOK(rec, revoked, finished)
  BY Zenon, InvRecords
<1>2. /\ rec \in vom_worker_recovery_context(AssignedId)
      /\ \A i \in DOMAIN rec.active_leases :
           rec.active_leases[i] \in worker_active_lease_t(AssignedId)
      /\ Len(rec.active_leases) \in Nat
  BY Zenon, <1>1, ContextType DEF TypesOK
<1>3. CASE UNCHANGED workerVars
  BY Zenon, <1>1, <1>3, InvRecords DEF workerVars
<1>4. ASSUME NEW on \in BOOLEAN, SetDrain(on) PROVE WorkerInv'
  <2>1. /\ rec' \in vom_worker_recovery_context(AssignedId)
        /\ rec'.active_leases = rec.active_leases
    BY Zenon, <1>2, <1>4 DEF SetDrain, set_drain, vom_worker_recovery_context
  <2> QED BY Zenon, <1>4, <2>1, FlagsInv DEF SetDrain
<1>5. CASE OnDisconnect
  <2>1. /\ rec' \in vom_worker_recovery_context(AssignedId)
        /\ rec'.active_leases = rec.active_leases
    BY ZenonT(60), <1>2, <1>5 DEF OnDisconnect, on_disconnect, vom_worker_recovery_context
  <2> QED BY Zenon, <1>5, <2>1, FlagsInv DEF OnDisconnect
<1>6. ASSUME NEW id \in AssignedId, NEW discard \in BOOLEAN, AcceptNewChunk(id, discard)
      PROVE  WorkerInv'
  <2> DEFINE n == NewLease(id, discard)
  <2>1. /\ Accepts(rec) /\ rec' = accept_new_chunk(rec, id, discard)
        /\ listed' = listed \cup {id} /\ revoked' = revoked /\ finished' = finished
    BY Zenon, <1>6 DEF AcceptNewChunk
  <2>2. /\ rec' \in vom_worker_recovery_context(AssignedId)
        /\ Len(rec'.active_leases) <= WORKER_MAX_ACTIVE_LEASES
        /\ \A x \in DOMAIN rec'.active_leases :
             \/ /\ x \in DOMAIN rec.active_leases
                /\ rec'.active_leases[x] = rec.active_leases[x]
             \/ rec'.active_leases[x] = n
        /\ \A i : SlotsOf(rec, i) # {} => /\ SlotsOf(rec', i) # {}
                                          /\ Lead(rec', i) = Lead(rec, i)
    BY <1>2, <2>1, AcceptFacts
  <2>3. RecordOK(n, revoked', listed')
    BY ZenonT(60), <2>1 DEF RecordOK, NewLease
  <2> HIDE DEF n
  <2>4. \A x \in DOMAIN rec'.active_leases :
          RecordOK(rec'.active_leases[x], revoked', listed')
    BY <1>1, <2>1, <2>2, <2>3 DEF RecordOK
  <2>5. IdsOK(rec', revoked', finished')
    BY Zenon, <1>1, <2>1, <2>2 DEF IdsOK
  <2>6. TypesOK(rec', revoked', finished', listed')
    BY Zenon, <1>1, <2>1, <2>2 DEF TypesOK
  <2> QED BY Zenon, <2>4, <2>5, <2>6, InvRecords
<1>7. ASSUME NEW id \in AssignedId, HandleRevocation(id) PROVE WorkerInv'
  <2>1. /\ SlotsOf(rec, id) # {} /\ rec' = handle_revocation(rec, id)
        /\ revoked' = revoked \cup {id} /\ finished' = finished \ {id}
        /\ listed' = listed
    BY Zenon, <1>7 DEF HandleRevocation
  <2>2. /\ rec' \in vom_worker_recovery_context(AssignedId)
        /\ DOMAIN rec'.active_leases = DOMAIN rec.active_leases
        /\ Len(rec'.active_leases) = Len(rec.active_leases)
        /\ \A y \in DOMAIN rec.active_leases :
             rec'.active_leases[y] = IF y = First(SlotsOf(rec, id))
                                       THEN Revoke(rec.active_leases[y])
                                       ELSE rec.active_leases[y]
        /\ \A i : SlotsOf(rec', i) = SlotsOf(rec, i)
        /\ Lead(rec', id) = Revoke(Lead(rec, id))
        /\ \A i : i # id /\ SlotsOf(rec, i) # {} => Lead(rec', i) = Lead(rec, i)
    BY <1>2, <2>1, RevocationFacts
  <2>3. Lead(rec', id).state = "REVOKED"
    BY <1>2, <2>1, <2>2, LeadIn, RevokeType
  <2>4. ASSUME NEW x \in DOMAIN rec.active_leases
        PROVE  RecordOK(rec'.active_leases[x], revoked', listed')
    <3> DEFINE l == rec.active_leases[x]
    <3>1. RecordOK(l, revoked, listed) /\ l \in worker_active_lease_t(AssignedId)
      BY Zenon, <1>1, <1>2
    <3>2. CASE x = First(SlotsOf(rec, id))
      <4>1. l.lease_id = id
        BY Zenon, <1>2, <2>1, <3>2, LeadIn DEF Lead
      <4>2. /\ Revoke(l).lease_id = l.lease_id /\ Revoke(l).state = "REVOKED"
            /\ Revoke(l).policy_discard_on_cancel = l.policy_discard_on_cancel
            /\ Revoke(l).partial_output_preserved = ~l.policy_discard_on_cancel
        BY Zenon, <3>1, RevokeType
      <4>3. rec'.active_leases[x] = Revoke(l)
        BY Zenon, <2>2, <3>2
      <4> HIDE DEF l
      <4> QED BY ZenonT(60), <2>1, <4>1, <4>2, <4>3 DEF RecordOK
    <3>3. CASE x # First(SlotsOf(rec, id))
      BY Zenon, <2>1, <2>2, <3>1, <3>3 DEF RecordOK
    <3> QED BY Zenon, <3>2, <3>3
  <2>5. IdsOK(rec', revoked', finished')
    BY SMTT(30), <1>1, <2>1, <2>2, <2>3 DEF IdsOK
  <2>6. TypesOK(rec', revoked', finished', listed')
    BY Zenon, <1>1, <2>1, <2>2 DEF TypesOK
  <2> QED BY Zenon, <2>2, <2>4, <2>5, <2>6, InvRecords
<1>8. ASSUME NEW id \in AssignedId, NEW s \in Checksum, CompleteChunk(id, s) PROVE WorkerInv'
  <2>1. /\ RunningSlots(rec, id) # {} /\ rec' = complete_chunk(rec, id, s)
        /\ finished' = IF id \in revoked THEN finished ELSE finished \cup {id}
        /\ revoked' = revoked /\ listed' = listed
    BY Zenon, <1>8 DEF CompleteChunk
  <2>2. /\ rec' \in vom_worker_recovery_context(AssignedId)
        /\ DOMAIN rec'.active_leases = DOMAIN rec.active_leases
        /\ Len(rec'.active_leases) = Len(rec.active_leases)
        /\ \A y \in DOMAIN rec.active_leases :
             \/ rec'.active_leases[y] = rec.active_leases[y]
             \/ /\ rec.active_leases[y].state = "RUNNING"
                /\ rec.active_leases[y].lease_id = id
                /\ rec'.active_leases[y] = Completed(rec.active_leases[y], s)
        /\ \A i : SlotsOf(rec', i) = SlotsOf(rec, i)
        /\ \A i : SlotsOf(rec, i) # {} =>
             Lead(rec', i) = IF i = id /\ Lead(rec, i).state = "RUNNING"
                               THEN Completed(Lead(rec, i), s) ELSE Lead(rec, i)
    BY <1>2, <2>1, CompleteFacts
  <2>3. s # NoChecksum
    BY Zenon, ChecksumsTell
  <2>4. ASSUME NEW x \in DOMAIN rec.active_leases
        PROVE  RecordOK(rec'.active_leases[x], revoked', listed')
    <3> DEFINE l == rec.active_leases[x]
    <3>1. RecordOK(l, revoked, listed) /\ l \in worker_active_lease_t(AssignedId)
      BY Zenon, <1>1, <1>2
    <3>2. /\ Completed(l, s).lease_id = l.lease_id
          /\ Completed(l, s).state = "COMPLETED" /\ Completed(l, s).output_checksum = s
          /\ Completed(l, s).partial_output_preserved = l.partial_output_preserved
          /\ Completed(l, s).policy_discard_on_cancel = l.policy_discard_on_cancel
      BY <3>1, CompletedType
    <3>3. \/ rec'.active_leases[x] = l
          \/ l.state = "RUNNING" /\ rec'.active_leases[x] = Completed(l, s)
      BY Zenon, <2>2
    <3> HIDE DEF l
    <3> QED BY Zenon, <2>1, <2>3, <3>1, <3>2, <3>3 DEF RecordOK
  <2>5. SlotsOf(rec, id) # {} /\ id \notin revoked => Lead(rec, id).state # "REVOKED"
    <3> SUFFICES ASSUME SlotsOf(rec, id) # {}, Lead(rec, id).state = "REVOKED"
                 PROVE  id \in revoked
      BY Zenon
    <3>1. /\ First(SlotsOf(rec, id)) \in DOMAIN rec.active_leases
          /\ Lead(rec, id) = rec.active_leases[First(SlotsOf(rec, id))]
          /\ Lead(rec, id).lease_id = id
      <4>1. First(SlotsOf(rec, id)) \in SlotsOf(rec, id) /\ Lead(rec, id).lease_id = id
        BY Zenon, <1>2, LeadIn
      <4> QED BY Zenon, <4>1 DEF SlotsOf, Lead
    <3> QED BY Zenon, <1>1, <3>1 DEF RecordOK
  <2>6. ASSUME NEW i, SlotsOf(rec, i) # {}
        PROVE  /\ Lead(rec, i) \in worker_active_lease_t(AssignedId)
               /\ Lead(rec, i).state \in {"COMPLETED", "RECONCILED"} =>
                    Lead(rec, i).output_checksum # NoChecksum
    <3>1. First(SlotsOf(rec, i)) \in DOMAIN rec.active_leases
      <4>1. First(SlotsOf(rec, i)) \in SlotsOf(rec, i)
        BY Zenon, <1>2, <2>6, LeadIn
      <4> QED BY Zenon, <4>1 DEF SlotsOf
    <3> QED BY Zenon, <1>1, <1>2, <3>1 DEF RecordOK, Lead
  <2>7. ASSUME NEW i \in finished'
        PROVE  /\ SlotsOf(rec', i) # {}
               /\ Lead(rec', i).state \in {"COMPLETED", "RECONCILED"}
               /\ Lead(rec', i).output_checksum # NoChecksum
    <3>1. CASE i \in finished
      <4>1. /\ SlotsOf(rec, i) # {} /\ Lead(rec, i).output_checksum # NoChecksum
            /\ Lead(rec, i).state \in {"COMPLETED", "RECONCILED"}
        BY Zenon, <1>1, <3>1 DEF IdsOK
      <4> QED BY Zenon, <2>2, <4>1
    <3>2. CASE i = id /\ id \notin revoked
      <4>1. SlotsOf(rec, id) # {}
        BY Zenon, <2>1 DEF RunningSlots
      <4>2. Lead(rec, id) \in worker_active_lease_t(AssignedId) /\ Lead(rec, id).state # "REVOKED"
        BY SMTT(30), <2>5, <2>6, <3>2, <4>1
      <4>3. CASE Lead(rec, id).state = "RUNNING"
        <5>1. Lead(rec', id) = Completed(Lead(rec, id), s)
          BY Zenon, <2>2, <4>1, <4>3
        <5> QED BY SMTT(30), <2>2, <2>3, <3>2, <4>1, <4>2, <5>1, CompletedType
      <4>4. CASE Lead(rec, id).state # "RUNNING"
        <5>1. Lead(rec', id) = Lead(rec, id)
          BY Zenon, <2>2, <4>1, <4>4
        <5>2. Lead(rec, id).state \in {"COMPLETED", "RECONCILED"}
          BY Zenon, <4>2, <4>4 DEF worker_active_lease_t, WorkerChunkState
        <5> QED BY Zenon, <2>2, <2>6, <3>2, <4>1, <5>1, <5>2
      <4> QED BY Zenon, <4>3, <4>4
    <3> QED BY Zenon, <2>1, <2>7, <3>1, <3>2
  <2>8. IdsOK(rec', revoked', finished')
    BY <1>1, <2>1, <2>2, <2>7 DEF IdsOK
  <2>9. TypesOK(rec', revoked', finished', listed')
    BY Zenon, <1>1, <2>1, <2>2 DEF TypesOK
  <2> QED BY Zenon, <2>2, <2>4, <2>8, <2>9, InvRecords
<1>9. ASSUME NEW auth \in SUBSET AssignedId, ReconnectReconcile(auth) PROVE WorkerInv'
  <2>1. /\ rec' = reconnect_reconcile(rec, auth)
        /\ revoked' = revoked \cup {id \in AssignedId \ auth : SlotsOf(rec', id) # {}}
        /\ finished' = finished \cap auth /\ listed' = auth
    BY Zenon, <1>9 DEF ReconnectReconcile
  <2>2. /\ rec' \in vom_worker_recovery_context(AssignedId)
        /\ Len(rec'.active_leases) <= Len(rec.active_leases)
        /\ \A x \in DOMAIN rec'.active_leases :
             \E y \in DOMAIN rec.active_leases :
               /\ Kept(rec.active_leases[y], auth)
               /\ rec'.active_leases[x] = Reconcile(rec.active_leases[y], auth)
        /\ \A i : SlotsOf(rec, i) # {} /\ Kept(Lead(rec, i), auth) =>
             SlotsOf(rec', i) # {} /\ Lead(rec', i) = Reconcile(Lead(rec, i), auth)
    BY <1>2, <2>1, ReconcileFacts
  <2>3. ASSUME NEW x \in DOMAIN rec'.active_leases
        PROVE  /\ RecordOK(rec'.active_leases[x], revoked', listed')
               /\ rec'.active_leases[x].lease_id \in auth
                  \/ rec'.active_leases[x].state = "REVOKED"
    <3>1. PICK y \in DOMAIN rec.active_leases :
            /\ Kept(rec.active_leases[y], auth)
            /\ rec'.active_leases[x] = Reconcile(rec.active_leases[y], auth)
      BY Zenon, <2>2
    <3> DEFINE l == rec.active_leases[y]
               m == rec'.active_leases[x]
    <3>2. RecordOK(l, revoked, listed) /\ l \in worker_active_lease_t(AssignedId)
      BY Zenon, <1>1, <1>2
    <3>3. Kept(l, auth) /\ m = Reconcile(l, auth)
      BY Zenon, <3>1
    <3>4. x \in SlotsOf(rec', m.lease_id)
      BY Zenon DEF SlotsOf
    <3> SUFFICES /\ RecordOK(m, revoked', listed')
                 /\ m.lease_id \in auth \/ m.state = "REVOKED"
      BY Zenon
    <3> HIDE DEF l, m
    <3>5. m.lease_id = l.lease_id /\ m \in worker_active_lease_t(AssignedId)
      BY Zenon, <3>2, <3>3, ReconcileType
    <3>6. m.lease_id \in AssignedId
      BY Zenon, <3>5 DEF worker_active_lease_t
    <3>7. m.lease_id \notin auth => m.lease_id \in revoked'
      BY Zenon, <2>1, <3>4, <3>6
    <3>8. CASE m = l
      <4>1. l.lease_id \in auth \/ l.state = "REVOKED"
        <5>1. CASE l.state = "RUNNING" /\ l.lease_id \notin auth
          <6>1. m = Revoke(l)
            BY Zenon, <3>3, <5>1 DEF Reconcile
          <6> QED BY ZenonT(60), <3>2, <3>8, <6>1, RevokeType
        <5> QED BY Zenon, <3>3, <5>1 DEF Kept
      <4>2. revoked \subseteq revoked' /\ listed' = auth
        BY Zenon, <2>1
      <4>3. RecordOK(l, revoked', listed')
        BY Zenon, <3>2, <4>1, <4>2 DEF RecordOK
      <4> QED BY Zenon, <3>8, <4>1, <4>3
    <3>9. CASE m = Revoke(l) /\ l.state = "RUNNING" /\ l.lease_id \notin auth
      <4>1. /\ m.state = "REVOKED"
            /\ m.policy_discard_on_cancel = l.policy_discard_on_cancel
            /\ m.partial_output_preserved = ~l.policy_discard_on_cancel
        BY Zenon, <3>2, <3>9, RevokeType
      <4> QED BY ZenonT(60), <2>1, <3>5, <3>7, <3>9, <4>1 DEF RecordOK
    <3>10. CASE /\ m = [l EXCEPT !.state = "RECONCILED"]
                /\ l.state = "COMPLETED" /\ l.lease_id \in auth
      BY Zenon, <2>1, <3>2, <3>5, <3>10 DEF RecordOK, worker_active_lease_t
    <3>11. \/ m = l
           \/ m = Revoke(l) /\ l.state = "RUNNING" /\ l.lease_id \notin auth
           \/ /\ m = [l EXCEPT !.state = "RECONCILED"]
              /\ l.state = "COMPLETED" /\ l.lease_id \in auth
      BY <3>2, <3>3, ReconcileType
    <3> QED BY Zenon, <3>8, <3>9, <3>10, <3>11
  <2>4. ASSUME NEW i \in revoked'
        PROVE  SlotsOf(rec', i) # {} /\ Lead(rec', i).state = "REVOKED"
    <3>1. CASE i \in revoked
      <4>1. SlotsOf(rec, i) # {} /\ Lead(rec, i).state = "REVOKED"
        BY Zenon, <1>1, <3>1 DEF IdsOK
      <4>2. Kept(Lead(rec, i), auth) /\ Reconcile(Lead(rec, i), auth) = Lead(rec, i)
        BY Zenon, <4>1 DEF Kept, Reconcile
      <4> QED BY Zenon, <2>2, <4>1, <4>2
    <3>2. CASE i \notin auth /\ SlotsOf(rec', i) # {}
      <4>1. First(SlotsOf(rec', i)) \in SlotsOf(rec', i)
        BY Zenon, <2>2, <3>2, LeadIn
      <4>2. First(SlotsOf(rec', i)) \in DOMAIN rec'.active_leases
            /\ Lead(rec', i) = rec'.active_leases[First(SlotsOf(rec', i))]
        BY Zenon, <4>1 DEF SlotsOf, Lead
      <4>3. Lead(rec', i).lease_id = i
        BY Zenon, <2>2, <3>2, LeadIn
      <4> QED BY Zenon, <2>3, <3>2, <4>2, <4>3
    <3> QED BY Zenon, <2>1, <2>4, <3>1, <3>2
  <2>5. ASSUME NEW i \in finished'
        PROVE  /\ SlotsOf(rec', i) # {}
               /\ Lead(rec', i).state \in {"COMPLETED", "RECONCILED"}
               /\ Lead(rec', i).output_checksum # NoChecksum
    <3>1. /\ SlotsOf(rec, i) # {} /\ Lead(rec, i).output_checksum # NoChecksum
          /\ Lead(rec, i).state \in {"COMPLETED", "RECONCILED"} /\ i \in auth
      BY Zenon, <1>1, <2>1 DEF IdsOK
    <3>2. Lead(rec, i).lease_id = i /\ Lead(rec, i) \in worker_active_lease_t(AssignedId)
      BY Zenon, <1>2, <3>1, LeadIn
    <3>3. /\ Kept(Lead(rec, i), auth)
          /\ Reconcile(Lead(rec, i), auth).state = "RECONCILED"
          /\ Reconcile(Lead(rec, i), auth).output_checksum = Lead(rec, i).output_checksum
      BY Zenon, <3>1, <3>2 DEF Kept, Reconcile, worker_active_lease_t
    <3> QED BY Zenon, <2>2, <3>1, <3>3
  <2>6. IdsOK(rec', revoked', finished')
    BY <2>4, <2>5 DEF IdsOK
  <2>7. TypesOK(rec', revoked', finished', listed')
    <3>1. Len(rec'.active_leases) <= WORKER_MAX_ACTIVE_LEASES
      BY <1>1, <1>2, <2>2, LeaseSlotsExist, ContextType DEF TypesOK
    <3> QED BY Zenon, <1>1, <2>1, <2>2, <3>1 DEF TypesOK
  <2> QED BY Zenon, <2>3, <2>6, <2>7, InvRecords
<1> QED BY Zenon, <1>3, <1>4, <1>5, <1>6, <1>7, <1>8, <1>9 DEF WorkerNext

LEMMA WorkerInvariance == WorkerSpec => []WorkerInv
BY WorkerInvInit, WorkerInvNext, PTL DEF WorkerSpec

-----------------------------------------------------------------------------
(* The worker's table never grows past its capacity and its records stay   *)
(* well formed; partial output is preserved exactly where the policy says. *)
THEOREM WorkerTypeCorrect == WorkerSpec => []WorkerTypeOK
<1>1. WorkerInv => WorkerTypeOK
  BY Zenon DEF WorkerInv, RevokedNeverClaimed
<1> QED BY <1>1, WorkerInvariance, PTL

(* A revoked lease is never claimed again, whatever assignments are        *)
(* delivered twice, completed late or reconciled after the revocation.     *)
THEOREM RevokedStaysRevoked == WorkerSpec => []RevokedNeverClaimed
BY WorkerInvariance, PTL DEF WorkerInv

(* A finished result that the master has neither revoked nor dropped from  *)
(* its list can be claimed with its checksum.                              *)
THEOREM FinishedStays == WorkerSpec => []FinishedKept
BY WorkerInvariance, PTL DEF WorkerInv

-----------------------------------------------------------------------------
(* The master. *)

(* The inductive invariant. *)
Inv == TypeOK /\ AtMostOneCommit /\ OkMeansNoneLost /\ NothingUndecided

LEMMA InvInit == Init => Inv
<1> SUFFICES ASSUME Init PROVE Inv
  BY Zenon
<1>1. TypeOK
  BY RecSizes, RecTimes DEF Init, TypeOK, NoSweep
<1> QED BY <1>1 DEF Init, Inv, AtMostOneCommit, OkMeansNoneLost, NothingUndecided

-----------------------------------------------------------------------------
(* What a search by lease id finds. *)
LEMMA FirstLease ==
  ASSUME TypeOK, NEW id, LeaseSlots(id) # {}
  PROVE  /\ First(LeaseSlots(id)) \in LeaseSlots(id)
         /\ \A k \in LeaseSlots(id) : First(LeaseSlots(id)) <= k
<1>1. LeaseSlots(id) \in SUBSET Nat
  BY DEF LeaseSlots, TypeOK
<1> QED BY Zenon, <1>1, FirstIn

(* Settling a lease keeps its id and leaves no doubt about its state. *)
LEMMA SettleFacts ==
  ASSUME NEW l \in rec_lease_record_t
  PROVE  /\ Settle(l) \in rec_lease_record_t
         /\ Settle(l).lease_id = l.lease_id
         /\ Settle(l).assigned_worker_id = l.assigned_worker_id
         /\ Settle(l).state \in {"EXPIRED", "RECONCILED"}
<1>1. l.retry_count + 1 \in Nat
  BY Zenon, NatAdd DEF rec_lease_record_t
<1> QED BY ZenonT(60), <1>1 DEF Settle, rec_lease_record_t, LeaseState

(* What the sweep does to the tables. *)
LEMMA SweepFacts ==
  ASSUME TypeOK, NEW now, sweep_timeouts(now)
  PROVE  /\ workers' \in Seq(rec_worker_obs_t) /\ Len(workers') = Len(workers)
         /\ leases' \in Seq(rec_lease_record_t) /\ Len(leases') = Len(leases)
         /\ \A j \in DOMAIN leases :
              /\ leases'[j].lease_id = leases[j].lease_id
              /\ leases'[j].assigned_worker_id = leases[j].assigned_worker_id
              /\ IF j \in Settled(now)
                   THEN leases'[j].state \in {"EXPIRED", "RECONCILED"}
                   ELSE leases'[j] = leases[j]
<1>1. \A j \in DOMAIN leases : leases[j] \in rec_lease_record_t
  BY DEF TypeOK
<1>2. \A i \in DOMAIN workers : workers[i] \in rec_worker_obs_t
  BY DEF TypeOK
<1>3. \A w \in rec_worker_obs_t :
        [w EXCEPT !.is_healthy = FALSE] \in rec_worker_obs_t
  BY ZenonT(60) DEF rec_worker_obs_t
<1>4. workers' \in Seq(rec_worker_obs_t) /\ Len(workers') = Len(workers)
  <2>1. workers' \in [1..Len(workers) -> rec_worker_obs_t]
    <3>1. DOMAIN workers = 1..Len(workers)
      BY DEF TypeOK
    <3> QED BY Zenon, <1>2, <1>3, <3>1 DEF sweep_timeouts
  <2>2. Len(workers) \in Nat
    BY DEF TypeOK
  <2> QED BY Zenon, <2>1, <2>2, SeqOfFunction
<1>5. leases' \in Seq(rec_lease_record_t) /\ Len(leases') = Len(leases)
  <2>1. leases' \in [1..Len(leases) -> rec_lease_record_t]
    <3>1. DOMAIN leases = 1..Len(leases)
      BY DEF TypeOK
    <3> QED BY Zenon, <1>1, <3>1, SettleFacts DEF sweep_timeouts
  <2>2. Len(leases) \in Nat
    BY DEF TypeOK
  <2> QED BY Zenon, <2>1, <2>2, SeqOfFunction
<1>6. ASSUME NEW j \in DOMAIN leases
      PROVE  /\ leases'[j].lease_id = leases[j].lease_id
             /\ leases'[j].assigned_worker_id = leases[j].assigned_worker_id
             /\ IF j \in Settled(now)
                  THEN leases'[j].state \in {"EXPIRED", "RECONCILED"}
                  ELSE leases'[j] = leases[j]
  BY Zenon, <1>1, SettleFacts DEF sweep_timeouts
<1> QED BY Zenon, <1>4, <1>5, <1>6

(* A commit stays on record while slots keep their ids and reconciled      *)
(* leases stay reconciled: the search still stops at the same slot.        *)
LEMMA CommitKept ==
  ASSUME TypeOK, TypeOK', AtMostOneCommit, committed' = committed,
         Len(leases) <= Len(leases'),
         \A j \in DOMAIN leases :
            /\ leases'[j].lease_id = leases[j].lease_id
            /\ leases[j].state = "RECONCILED" => leases'[j].state = "RECONCILED"
  PROVE  AtMostOneCommit'
<1>1. DOMAIN leases = 1..Len(leases) /\ DOMAIN leases' = 1..Len(leases')
      /\ Len(leases) \in Nat /\ Len(leases') \in Nat
  BY DEF TypeOK
<1>2. ASSUME NEW id \in LeaseId, committed[id] = 1
      PROVE  /\ LeaseSlots(id)' # {}
             /\ leases'[First(LeaseSlots(id)')].state = "RECONCILED"
  <2> DEFINE f == First(LeaseSlots(id))
             g == First(LeaseSlots(id)')
  <2>1. /\ f \in LeaseSlots(id) /\ leases[f].state = "RECONCILED"
        /\ \A k \in LeaseSlots(id) : f <= k
    BY Zenon, <1>2, FirstLease DEF AtMostOneCommit
  <2>2. f \in LeaseSlots(id)'
    BY <1>1, <2>1 DEF LeaseSlots
  <2>3. g \in LeaseSlots(id)' /\ \A k \in LeaseSlots(id)' : g <= k
    <3>1. LeaseSlots(id)' \in SUBSET Nat
      BY <1>1 DEF LeaseSlots
    <3> QED BY Zenon, <2>2, <3>1, FirstIn
  <2> HIDE DEF f, g
  <2>4. f \in Nat /\ g \in Nat /\ f <= Len(leases) /\ g >= 1
    BY <1>1, <2>1, <2>3 DEF LeaseSlots
  <2>5. g <= f
    BY Zenon, <2>2, <2>3
  <2>6. g \in LeaseSlots(id)
    BY <1>1, <2>3, <2>4, <2>5 DEF LeaseSlots
  <2>7. g = f
    BY <2>1, <2>4, <2>5, <2>6
  <2>8. f \in DOMAIN leases
    BY Zenon, <2>1 DEF LeaseSlots
  <2>9. leases'[g].state = "RECONCILED"
    BY Zenon, <2>1, <2>7, <2>8
  <2> QED BY Zenon, <2>2, <2>9 DEF g
<1> QED BY Zenon, <1>2 DEF AtMostOneCommit

(* A sweep keeps the invariant, whatever time it is given. *)
LEMMA SweepInv ==
  ASSUME Inv, NEW now, sweep_timeouts(now),
         sweep_now' \in {NoSweep} \cup 0..MaxTime
  PROVE  Inv'
<1> USE DEF Inv
<1>1. UNCHANGED <<clock, committed>>
  BY Zenon DEF sweep_timeouts
<1>2. /\ workers' \in Seq(rec_worker_obs_t) /\ Len(workers') = Len(workers)
      /\ leases' \in Seq(rec_lease_record_t) /\ Len(leases') = Len(leases)
      /\ \A j \in DOMAIN leases :
            /\ leases'[j].lease_id = leases[j].lease_id
            /\ IF j \in Settled(now)
                 THEN leases'[j].state \in {"EXPIRED", "RECONCILED"}
                 ELSE leases'[j] = leases[j]
  BY Zenon, SweepFacts
<1>3. active_recovery_jobs' = 0
  <2>1. Uncertain(now) \subseteq Settled(now)
    BY Zenon DEF Settled
  <2>2. IsFiniteSet(Settled(now))
    <3>1. Settled(now) \in SUBSET (1..Len(leases)) /\ Len(leases) \in Nat
      BY DEF Settled, Uncertain, TypeOK
    <3>2. IsFiniteSet(1..Len(leases))
      BY <3>1, FS_Interval
    <3> QED BY Zenon, <3>1, <3>2, FS_Subset
  <2>3. /\ Cardinality(Uncertain(now)) <= Cardinality(Settled(now))
        /\ Cardinality(Uncertain(now)) \in Nat
        /\ Cardinality(Settled(now)) \in Nat
    BY Zenon, <2>1, <2>2, FS_Subset, FS_CardinalityType
  <2>4. active_recovery_jobs = 0
    BY Zenon DEF NothingUndecided
  <2>5. active_recovery_jobs' =
          Saturating(0 + Cardinality(Uncertain(now)), Cardinality(Settled(now)))
    BY Zenon, <2>4 DEF sweep_timeouts
  <2> QED BY <2>3, <2>5 DEF Saturating
<1>4. summary_health' = IF \E i \in DOMAIN workers : ~workers'[i].is_healthy
                          THEN "WARN" ELSE "OK"
  BY Zenon DEF sweep_timeouts
<1>5. TypeOK'
  BY Zenon, <1>1, <1>2, <1>3, <1>4 DEF TypeOK
<1>6. NothingUndecided'
  <2>1. DOMAIN leases' = DOMAIN leases
    BY <1>2 DEF TypeOK
  <2> QED BY Zenon, <1>2, <1>3, <2>1 DEF NothingUndecided
<1>7. OkMeansNoneLost'
  <2>1. DOMAIN workers' = DOMAIN workers
    BY <1>2 DEF TypeOK
  <2> QED BY Zenon, <1>4, <2>1 DEF OkMeansNoneLost
<1>8. \A j \in DOMAIN leases :
         leases[j].state = "RECONCILED" => leases'[j].state = "RECONCILED"
  <2> TAKE j \in DOMAIN leases
  <2> HAVE leases[j].state = "RECONCILED"
  <2>1. j \notin Settled(now)
    BY Zenon DEF Settled, Uncertain
  <2> QED BY Zenon, <1>2, <2>1
<1>9. AtMostOneCommit'
  <2>1. Len(leases) <= Len(leases')
    BY <1>2 DEF TypeOK
  <2> QED BY Zenon, <1>1, <1>2, <1>5, <1>8, <2>1, CommitKept
<1> QED BY Zenon, <1>5, <1>6, <1>7, <1>9

(* A result that is accepted reconciles the active lease with its id, and  *)
(* it is the first one.                                                    *)
Taken(id, w, j) ==
  /\ j \in DOMAIN leases /\ leases[j].lease_id = id /\ LeaseSlots(id) # {}
  /\ leases[j].state = "ACTIVE" /\ leases[j].assigned_worker_id = w
  /\ committed' = [committed EXCEPT ![id] = 1]
  /\ leases' \in Seq(rec_lease_record_t) /\ DOMAIN leases' = DOMAIN leases
  /\ Len(leases') = Len(leases)
  /\ leases'[j].state = "RECONCILED"
  /\ \A k \in DOMAIN leases :
        /\ leases'[k].lease_id = leases[k].lease_id
        /\ leases'[k].assigned_worker_id = leases[k].assigned_worker_id
        /\ k # j => leases'[k] = leases[k]

LEMMA ResultFacts ==
  ASSUME Inv, NEW id \in LeaseId, NEW w, process_incoming_result(id, w)
  PROVE  Taken(id, w, First(LeaseSlots(id)))
<1> DEFINE j == First(LeaseSlots(id))
<1> HIDE DEF j
<1> USE DEF Inv
<1>1. /\ j \in DOMAIN leases /\ leases[j].lease_id = id /\ LeaseSlots(id) # {}
      /\ leases[j].state \notin {"EXPIRED", "RECONCILED"}
      /\ leases[j].assigned_worker_id = w
      /\ leases' = [leases EXCEPT ![j].state = "RECONCILED"]
      /\ committed' = [committed EXCEPT ![id] = @ + 1]
  BY ZenonT(60), FirstLease DEF process_incoming_result, LeaseSlots, j
<1>2. leases \in Seq(rec_lease_record_t) /\ leases[j] \in rec_lease_record_t
  BY <1>1 DEF TypeOK
<1>3. leases[j].state = "ACTIVE"
  BY Zenon, <1>1, <1>2 DEF NothingUndecided, rec_lease_record_t, LeaseState
<1>4. committed' = [committed EXCEPT ![id] = 1]
  <2>1. committed[id] \in Nat /\ committed[id] <= 1 /\ committed[id] # 1
    <3>1. committed[id] \in Nat /\ committed[id] <= 1
      BY Zenon DEF AtMostOneCommit, TypeOK
    <3>2. committed[id] # 1
      BY Zenon, <1>1 DEF AtMostOneCommit, j
    <3> QED BY Zenon, <3>1, <3>2
  <2>2. committed[id] = 0
    BY <2>1
  <2> QED BY <1>1, <2>2
<1> DEFINE l == [leases[j] EXCEPT !.state = "RECONCILED"]
<1>5. /\ l \in rec_lease_record_t /\ l.lease_id = leases[j].lease_id
      /\ l.assigned_worker_id = leases[j].assigned_worker_id
      /\ l.state = "RECONCILED"
  BY ZenonT(60), <1>2 DEF rec_lease_record_t, LeaseState
<1>6. leases' = [leases EXCEPT ![j] = l]
  BY Zenon, <1>1
<1> HIDE DEF l
<1>7. /\ leases' \in Seq(rec_lease_record_t) /\ DOMAIN leases' = DOMAIN leases
      /\ Len(leases') = Len(leases)
  BY <1>1, <1>2, <1>5, <1>6
<1>8. leases'[j] = l /\ \A k \in DOMAIN leases : k # j => leases'[k] = leases[k]
  BY Zenon, <1>1, <1>2, <1>6
<1> QED BY ZenonT(60), <1>1, <1>3, <1>4, <1>5, <1>7, <1>8 DEF Taken, j

(* Every step keeps the invariant. *)
LEMMA InvNext ==
  ASSUME Inv, [Next]_vars
  PROVE  Inv'
<1> USE DEF Inv
<1>1. CASE UNCHANGED vars
  BY ZenonT(60), <1>1 DEF vars, TypeOK, AtMostOneCommit, OkMeansNoneLost,
     NothingUndecided, LeaseSlots
<1>2. ASSUME NEW id \in WorkerId, register_worker_heartbeat(id)
      PROVE  Inv'
  <2> DEFINE known == WorkerSlots(id)
             obs == [worker_id |-> id, last_heartbeat_ms |-> clock,
                     is_healthy |-> TRUE]
  <2>1. UNCHANGED <<leases, summary_health, active_recovery_jobs, clock,
                    sweep_now, committed>>
    BY Zenon, <1>2 DEF register_worker_heartbeat
  <2>2. obs \in rec_worker_obs_t /\ obs.is_healthy
    <3>1. clock \in Nat
      BY RecTimes DEF TypeOK
    <3> QED BY Zenon, <3>1 DEF rec_worker_obs_t
  <2>3. /\ workers' \in Seq(rec_worker_obs_t)
        /\ Len(workers') <= REC_MAX_WORKERS
        /\ (\A i \in DOMAIN workers : workers[i].is_healthy)
             => (\A i \in DOMAIN workers' : workers'[i].is_healthy)
    <3>1. CASE known # {}
      <4> DEFINE f == First(known)
      <4>1. f \in DOMAIN workers
        <5>1. known \in SUBSET Nat
          BY DEF WorkerSlots, TypeOK
        <5> QED BY Zenon, <3>1, <5>1, FirstIn DEF WorkerSlots
      <4>2. workers' = [workers EXCEPT ![f] = obs]
        BY Zenon, <1>2, <3>1 DEF register_worker_heartbeat
      <4> HIDE DEF f, obs, known
      <4> QED BY <2>2, <4>1, <4>2 DEF TypeOK
    <3>2. CASE known = {} /\ Len(workers) < REC_MAX_WORKERS
      <4>1. workers' = Append(workers, obs)
        BY Zenon, <1>2, <3>2 DEF register_worker_heartbeat
      <4> HIDE DEF obs, known
      <4> QED BY <2>2, <3>2, <4>1, RecSizes DEF TypeOK
    <3>3. CASE known = {} /\ ~(Len(workers) < REC_MAX_WORKERS)
      BY Zenon, <1>2, <3>3 DEF register_worker_heartbeat, TypeOK
    <3> QED BY Zenon, <3>1, <3>2, <3>3
  <2>4. TypeOK'
    BY Zenon, <2>1, <2>3 DEF TypeOK
  <2>5. AtMostOneCommit' /\ NothingUndecided'
    BY Zenon, <2>1 DEF AtMostOneCommit, NothingUndecided, LeaseSlots
  <2>6. OkMeansNoneLost'
    BY Zenon, <2>1, <2>3 DEF OkMeansNoneLost
  <2> QED BY Zenon, <2>4, <2>5, <2>6
<1>3. ASSUME NEW id \in LeaseId, NEW w \in WorkerId, NEW t \in Terms,
             NEW p \in {"NONE", "RETRY"}, inject_lease(id, w, t, p)
      PROVE  Inv'
  <2> DEFINE l == [lease_id |-> id, assigned_worker_id |-> w,
                   lease_expires_ms |-> clock + t,
                   state |-> "ACTIVE", retry_count |-> 0, retry_policy |-> p]
  <2>1. leases' = Append(leases, l) /\ Len(leases) < REC_MAX_LEASES
    BY Zenon, <1>3 DEF inject_lease
  <2>2. UNCHANGED <<workers, summary_health, active_recovery_jobs, clock,
                    sweep_now, committed>>
    BY Zenon, <1>3 DEF inject_lease
  <2>3. l \in rec_lease_record_t /\ l.state # "UNCERTAIN"
    <3>1. clock \in Nat /\ t \in Nat
      BY RecTimes DEF TypeOK
    <3>2. clock + t \in Nat
      BY <3>1
    <3> QED BY Zenon, <3>2 DEF rec_lease_record_t, LeaseState
  <2> HIDE DEF l
  <2>4. TypeOK'
    BY <2>1, <2>2, <2>3, RecSizes DEF TypeOK
  <2>5. /\ Len(leases) <= Len(leases')
        /\ \A j \in DOMAIN leases : leases'[j] = leases[j]
    BY <2>1 DEF TypeOK
  <2>6. AtMostOneCommit'
    BY Zenon, <2>2, <2>4, <2>5, CommitKept
  <2>7. OkMeansNoneLost'
    BY Zenon, <2>2 DEF OkMeansNoneLost
  <2>8. NothingUndecided'
    BY <2>1, <2>2, <2>3 DEF NothingUndecided, TypeOK
  <2> QED BY Zenon, <2>4, <2>6, <2>7, <2>8
<1>4. CASE ReadClock
  BY ZenonT(60), <1>4 DEF ReadClock, TypeOK, AtMostOneCommit, OkMeansNoneLost,
     NothingUndecided, LeaseSlots
<1>5. CASE Sweep
  BY Zenon, <1>5, SweepInv DEF Sweep
<1>6. ASSUME NEW id \in LeaseId, NEW w \in WorkerId,
             process_incoming_result(id, w)
      PROVE  Inv'
  <2> DEFINE j == First(LeaseSlots(id))
  <2>1. /\ j \in DOMAIN leases /\ leases[j].lease_id = id /\ LeaseSlots(id) # {}
        /\ committed' = [committed EXCEPT ![id] = 1]
        /\ leases' \in Seq(rec_lease_record_t) /\ DOMAIN leases' = DOMAIN leases
        /\ Len(leases') = Len(leases)
        /\ leases'[j].state = "RECONCILED"
        /\ \A k \in DOMAIN leases :
              /\ leases'[k].lease_id = leases[k].lease_id
              /\ k # j => leases'[k] = leases[k]
    BY <1>6, ResultFacts DEF Taken
  <2>2. UNCHANGED <<workers, summary_health, active_recovery_jobs, clock,
                    sweep_now>>
    BY Zenon, <1>6 DEF process_incoming_result
  <2>5. \A i \in LeaseId : LeaseSlots(i)' = LeaseSlots(i)
    BY Zenon, <2>1 DEF LeaseSlots
  <2>7. TypeOK'
    BY Zenon, <2>1, <2>2 DEF TypeOK
  <2>8. AtMostOneCommit'
    <3> SUFFICES ASSUME NEW i \in LeaseId
                 PROVE  /\ committed'[i] <= 1
                        /\ committed'[i] = 1 =>
                             /\ LeaseSlots(i) # {}
                             /\ leases'[First(LeaseSlots(i))].state = "RECONCILED"
      BY Zenon, <2>5 DEF AtMostOneCommit
    <3>1. CASE i = id
      BY <2>1, <3>1 DEF TypeOK
    <3>2. CASE i # id
      <4>1. committed'[i] = committed[i]
        BY Zenon, <2>1, <3>2 DEF TypeOK
      <4>2. CASE committed[i] = 1
        <5>1. /\ LeaseSlots(i) # {} /\ First(LeaseSlots(i)) \in DOMAIN leases
              /\ leases[First(LeaseSlots(i))].lease_id = i
              /\ leases[First(LeaseSlots(i))].state = "RECONCILED"
          BY ZenonT(60), <4>2, FirstLease DEF AtMostOneCommit, LeaseSlots
        <5>2. First(LeaseSlots(i)) # j
          BY Zenon, <2>1, <3>2, <5>1
        <5> QED BY SMTT(30), <2>1, <4>1, <4>2, <5>1, <5>2
      <4> QED BY Zenon, <4>1, <4>2 DEF AtMostOneCommit
    <3> QED BY Zenon, <3>1, <3>2
  <2>9. OkMeansNoneLost'
    BY Zenon, <2>2 DEF OkMeansNoneLost
  <2>10. NothingUndecided'
    BY Zenon, <2>1, <2>2 DEF NothingUndecided
  <2> QED BY Zenon, <2>7, <2>8, <2>9, <2>10
<1>7. CASE Advance
  <2>1. TypeOK'
    BY <1>7, RecTimes DEF Advance, TypeOK
  <2> QED BY Zenon, <1>7, <2>1 DEF Advance, AtMostOneCommit, OkMeansNoneLost,
         NothingUndecided, LeaseSlots
<1> QED BY Zenon, <1>1, <1>2, <1>3, <1>4, <1>5, <1>6, <1>7 DEF Next

LEMMA Invariance == Spec => []Inv
BY InvInit, InvNext, PTL DEF Spec

-----------------------------------------------------------------------------
(* The two tables stay within their capacity and every field within its    *)
(* range, whatever calls the engine receives.                              *)
THEOREM TypeCorrect == Spec => []TypeOK
BY Invariance, PTL DEF Inv

(* process_incoming_result commits at most one result per lease id, for    *)
(* any number of workers, leases and deliveries.                           *)
THEOREM CommitsUnique == Spec => []AtMostOneCommit
BY Invariance, PTL DEF Inv

(* The health published to the UI never hides a lost worker. *)
THEOREM HealthHonest == Spec => []OkMeansNoneLost
BY Invariance, PTL DEF Inv

(* sweep_timeouts leaves no lease in doubt and no recovery job open. *)
THEOREM SweepsFinish == Spec => []NothingUndecided
BY Invariance, PTL DEF Inv

(* A settled lease never changes again: neither a later sweep nor a late   *)
(* result reopens it.                                                      *)
THEOREM SettledForGood == Spec => GivenUpForGood
<1>1. ASSUME Inv, [Next]_vars
      PROVE  [\A j \in DOMAIN leases : LeaseKept(j)]_vars
  <2> SUFFICES ASSUME NEW j \in DOMAIN leases PROVE LeaseKept(j) \/ UNCHANGED vars
    BY Zenon
  <2> TypeOK
    BY Zenon, <1>1 DEF Inv
  <2>1. CASE leases' = leases
    BY Zenon, <2>1 DEF LeaseKept
  <2>2. ASSUME NEW id \in LeaseId, NEW w \in WorkerId, NEW t \in Terms,
               NEW p \in {"NONE", "RETRY"}, inject_lease(id, w, t, p)
        PROVE  LeaseKept(j)
    <3> DEFINE l == [lease_id |-> id, assigned_worker_id |-> w,
                     lease_expires_ms |-> clock + t,
                     state |-> "ACTIVE", retry_count |-> 0, retry_policy |-> p]
    <3>1. leases' = Append(leases, l)
      BY Zenon, <2>2 DEF inject_lease
    <3> HIDE DEF l
    <3>2. leases'[j] = leases[j] /\ j \in DOMAIN leases'
      BY <3>1 DEF TypeOK
    <3> QED BY Zenon, <3>2 DEF LeaseKept
  <2>3. CASE Sweep
    <3> DEFINE now == sweep_now
    <3>1. sweep_timeouts(now)
      BY Zenon, <2>3 DEF Sweep
    <3>2. /\ DOMAIN leases' = DOMAIN leases
          /\ leases'[j].lease_id = leases[j].lease_id
          /\ j \notin Settled(now) => leases'[j] = leases[j]
      <4>1. /\ leases' \in Seq(rec_lease_record_t) /\ Len(leases') = Len(leases)
            /\ leases'[j].lease_id = leases[j].lease_id
            /\ j \notin Settled(now) => leases'[j] = leases[j]
        BY Zenon, <3>1, SweepFacts
      <4> QED BY <4>1 DEF TypeOK
    <3>3. leases[j].state \in {"EXPIRED", "RECONCILED"} => j \notin Settled(now)
      BY Zenon DEF Settled, Uncertain
    <3> QED BY Zenon, <3>2, <3>3 DEF LeaseKept
  <2>4. ASSUME NEW id \in LeaseId, NEW w \in WorkerId,
               process_incoming_result(id, w)
        PROVE  LeaseKept(j)
    <3> DEFINE f == First(LeaseSlots(id))
    <3>1. /\ leases[f].state \notin {"EXPIRED", "RECONCILED"}
          /\ leases' = [leases EXCEPT ![f].state = "RECONCILED"]
      BY Zenon, <2>4 DEF process_incoming_result
    <3> HIDE DEF f
    <3>2. leases[j] \in rec_lease_record_t
      BY DEF TypeOK
    <3>3. DOMAIN leases' = DOMAIN leases
      BY Zenon, <3>1
    <3>4. CASE j = f
      <4>1. leases'[j] = [leases[j] EXCEPT !.state = "RECONCILED"]
        BY Zenon, <3>1, <3>4
      <4> QED BY Zenon, <3>1, <3>2, <3>3, <3>4, <4>1 DEF LeaseKept, rec_lease_record_t
    <3>5. CASE j # f
      <4>1. leases'[j] = leases[j]
        BY Zenon, <3>1, <3>5
      <4> QED BY Zenon, <3>3, <4>1 DEF LeaseKept
    <3> QED BY Zenon, <3>4, <3>5
  <2> QED BY ZenonT(60), <1>1, <2>1, <2>2, <2>3, <2>4 DEF Next, register_worker_heartbeat,
         ReadClock, Advance, vars
<1> QED BY <1>1, Invariance, PTL DEF Spec, GivenUpForGood
-----------------------------------------------------------------------------
(* The protocol: the two halves and the network between them. *)
ProtocolTypes ==
  /\ ctx \in [WorkerId -> vom_worker_recovery_context(LeaseId)]
  /\ chunk_id \in [LeaseId -> Chunk \cup {NoChunk}]
  /\ results \subseteq LeaseId
  /\ list \in {NoList} \cup [to : WorkerId, leases : SUBSET LeaseId]
  /\ computed \in [Chunk -> SUBSET WorkerId]

Open(j) == leases[j].state \in {"ACTIVE", "RECONCILED"}
ChunkOf(j) == chunk_id[leases[j].lease_id]

(* Lease ids are used once, every lease in the table has its chunk, and of *)
(* all the leases of a chunk at most one is not given up for replacement.  *)
TableInOrder ==
  /\ \A j, k \in DOMAIN leases : leases[j].lease_id = leases[k].lease_id => j = k
  /\ \A j \in DOMAIN leases : ChunkOf(j) \in Chunk
  /\ \A j, k \in DOMAIN leases :
       Open(j) /\ Open(k) /\ ChunkOf(j) = ChunkOf(k) => j = k

(* A result under way is one that the worker of its lease has computed.    *)
Earned(l) == \E j \in DOMAIN leases :
               /\ leases[j].lease_id = l
               /\ leases[j].assigned_worker_id \in computed[chunk_id[l]]

(* A worker's record is of a lease that was granted to that worker, and is *)
(* finished only when the worker has computed the chunk.                   *)
Truthful(w, r) == \E j \in DOMAIN leases :
                    /\ leases[j].lease_id = r.lease_id
                    /\ leases[j].assigned_worker_id = w
                    /\ r.state \in {"COMPLETED", "RECONCILED"} =>
                         w \in computed[chunk_id[r.lease_id]]
WorkersTruthful ==
  /\ \A l \in results : Earned(l)
  /\ \A w \in WorkerId : \A i \in DOMAIN ctx[w].active_leases :
       Truthful(w, ctx[w].active_leases[i])

(* The inductive invariant, on top of the one of the master's half. *)
PInv == Inv /\ ProtocolTypes /\ TableInOrder /\ WorkersTruthful

LEMMA PInvInit == ProtocolInit => PInv
<1> SUFFICES ASSUME ProtocolInit PROVE PInv
  BY Zenon
<1>1. Inv /\ DOMAIN leases = {}
  BY InvInit DEF ProtocolInit, Init
<1>2. recovery_init \in vom_worker_recovery_context(LeaseId)
      /\ DOMAIN recovery_init.active_leases = {}
  BY DEF recovery_init, vom_worker_recovery_context
<1>3. ProtocolTypes
  BY Zenon, <1>2 DEF ProtocolInit, ProtocolTypes
<1>4. TableInOrder
  BY Zenon, <1>1 DEF TableInOrder
<1>5. WorkersTruthful
  BY Zenon, <1>2 DEF ProtocolInit, WorkersTruthful
<1> QED BY Zenon, <1>1, <1>3, <1>4, <1>5 DEF PInv

-----------------------------------------------------------------------------
(* What was earned stays earned and what was true stays true, while leases *)
(* keep their ids, workers and chunks and computations are not forgotten.  *)
LEMMA TruthStays ==
  ASSUME PInv,
         \A j \in DOMAIN leases :
            /\ j \in DOMAIN leases'
            /\ leases'[j].lease_id = leases[j].lease_id
            /\ leases'[j].assigned_worker_id = leases[j].assigned_worker_id
            /\ chunk_id'[leases[j].lease_id] = chunk_id[leases[j].lease_id],
         \A c \in Chunk : computed[c] \subseteq computed'[c]
  PROVE  /\ \A l : Earned(l) => Earned(l)'
         /\ \A w, r : Truthful(w, r) => Truthful(w, r)'
<1>1. \A j \in DOMAIN leases : chunk_id[leases[j].lease_id] \in Chunk
  BY Zenon DEF PInv, TableInOrder, ChunkOf
<1>2. ASSUME NEW l, Earned(l) PROVE Earned(l)'
  <2>1. PICK j \in DOMAIN leases :
          /\ leases[j].lease_id = l
          /\ leases[j].assigned_worker_id \in computed[chunk_id[l]]
    BY Zenon, <1>2 DEF Earned
  <2>2. /\ j \in DOMAIN leases' /\ leases'[j].lease_id = l
        /\ leases'[j].assigned_worker_id \in computed'[chunk_id'[l]]
    BY Zenon, <1>1, <2>1
  <2> QED BY Zenon, <2>2 DEF Earned
<1>3. ASSUME NEW w, NEW r, Truthful(w, r) PROVE Truthful(w, r)'
  <2>1. PICK j \in DOMAIN leases :
          /\ leases[j].lease_id = r.lease_id
          /\ leases[j].assigned_worker_id = w
          /\ r.state \in {"COMPLETED", "RECONCILED"} =>
               w \in computed[chunk_id[r.lease_id]]
    BY Zenon, <1>3 DEF Truthful
  <2>2. /\ j \in DOMAIN leases' /\ leases'[j].lease_id = r.lease_id
        /\ leases'[j].assigned_worker_id = w
        /\ r.state \in {"COMPLETED", "RECONCILED"} =>
             w \in computed'[chunk_id'[r.lease_id]]
    BY Zenon, <1>1, <2>1
  <2> QED BY Zenon, <2>2 DEF Truthful
<1> QED BY Zenon, <1>2, <1>3

(* A step of the network or of a worker, that leaves the master alone. *)
LEMMA WorkerStep ==
  ASSUME PInv, UNCHANGED <<vars, chunk_id>>, ProtocolTypes',
         \A c \in Chunk : computed[c] \subseteq computed'[c],
         \A l \in results' : l \in results \/ Earned(l)',
         \A w \in WorkerId : \A i \in DOMAIN ctx'[w].active_leases :
            \/ Truthful(w, ctx'[w].active_leases[i])
            \/ Truthful(w, ctx[w].active_leases[i])'
  PROVE  PInv'
<1>1. Inv'
  BY Zenon, InvNext DEF PInv
<1>2. leases' = leases /\ chunk_id' = chunk_id
  BY Zenon DEF vars
<1>3. TableInOrder'
  BY <1>2 DEF PInv, TableInOrder, ChunkOf, Open
<1>4. /\ \A l : Earned(l) => Earned(l)'
      /\ \A w, r : Truthful(w, r) => Truthful(w, r)'
  BY Zenon, <1>2, TruthStays
<1>5. WorkersTruthful'
  <2>1. \A l \in results' : Earned(l)'
    BY Zenon, <1>4 DEF PInv, WorkersTruthful
  <2>2. \A w \in WorkerId : \A i \in DOMAIN ctx'[w].active_leases :
          Truthful(w, ctx[w].active_leases[i])'
    BY Zenon, <1>4
  <2> QED BY Zenon, <2>1, <2>2 DEF WorkersTruthful
<1> QED BY Zenon, <1>1, <1>3, <1>5 DEF PInv

-----------------------------------------------------------------------------
(* A step in which worker w's context becomes d, a context whose records   *)
(* are true.                                                               *)
LEMMA ContextStep ==
  ASSUME PInv, UNCHANGED <<vars, chunk_id, results, list>>,
         NEW w \in WorkerId, NEW d \in vom_worker_recovery_context(LeaseId),
         ctx' = [ctx EXCEPT ![w] = d],
         computed' \in [Chunk -> SUBSET WorkerId],
         \A c \in Chunk : computed[c] \subseteq computed'[c],
         \A i \in DOMAIN d.active_leases :
            \E r : r = d.active_leases[i] /\ (Truthful(w, r) \/ Truthful(w, r)')
  PROVE  PInv'
<1>1. ProtocolTypes'
  BY Zenon DEF PInv, ProtocolTypes
<1>2. \A l \in results' : l \in results
  BY Zenon
<1>3. ASSUME NEW v \in WorkerId, NEW i \in DOMAIN ctx'[v].active_leases
      PROVE  \/ Truthful(v, ctx'[v].active_leases[i])
             \/ Truthful(v, ctx[v].active_leases[i])'
  <2>1. ctx'[v] = IF v = w THEN d ELSE ctx[v]
    BY Zenon DEF PInv, ProtocolTypes
  <2>2. CASE v # w
    BY Zenon, <1>3, <2>1, <2>2 DEF PInv, WorkersTruthful
  <2>3. CASE v = w
    <3>1. PICK r : r = d.active_leases[i] /\ (Truthful(w, r) \/ Truthful(w, r)')
      BY Zenon, <1>3, <2>1, <2>3
    <3>2. r = ctx'[v].active_leases[i]
      BY Zenon, <2>1, <2>3, <3>1
    <3> QED BY Zenon, <2>3, <3>1, <3>2
  <2> QED BY Zenon, <2>2, <2>3
<1> QED BY Zenon, <1>1, <1>2, <1>3, WorkerStep

(* Nothing about the leases but their state is changed by the master once  *)
(* they are in the table.                                                  *)
LEMMA MasterStep ==
  ASSUME PInv, Inv', UNCHANGED <<ctx, network, computed>>,
         DOMAIN leases' = DOMAIN leases,
         \A j \in DOMAIN leases :
            /\ leases'[j].lease_id = leases[j].lease_id
            /\ leases'[j].assigned_worker_id = leases[j].assigned_worker_id
            /\ leases'[j].state = "ACTIVE" => leases[j].state = "ACTIVE"
            /\ leases'[j].state = "RECONCILED" =>
                 leases[j].state \in {"ACTIVE", "RECONCILED"}
  PROVE  PInv'
<1>1. UNCHANGED <<ctx, chunk_id, results, list, computed>>
  BY Zenon DEF network
<1>2. ProtocolTypes'
  BY Zenon, <1>1 DEF PInv, ProtocolTypes
<1>3. TableInOrder'
  <2>1. \A j \in DOMAIN leases : /\ ChunkOf(j)' = ChunkOf(j)
                                 /\ Open(j)' => Open(j)
    BY Zenon, <1>1 DEF ChunkOf, Open
  <2> QED BY <1>1, <2>1 DEF PInv, TableInOrder
<1>4. /\ \A l : Earned(l) => Earned(l)'
      /\ \A w, r : Truthful(w, r) => Truthful(w, r)'
  BY Zenon, <1>1, TruthStays
<1>5. WorkersTruthful'
  BY Zenon, <1>1, <1>4 DEF PInv, WorkersTruthful
<1> QED BY Zenon, <1>2, <1>3, <1>5 DEF PInv

(* What a grant adds: a lease with a new id, in slot n. *)
Granted(l, c, w, n) ==
  /\ DOMAIN leases' = DOMAIN leases \cup {n} /\ n \notin DOMAIN leases
  /\ leases'[n].lease_id = l /\ leases'[n].assigned_worker_id = w
  /\ leases'[n].state = "ACTIVE"
  /\ \A j \in DOMAIN leases : leases'[j] = leases[j] /\ leases[j].lease_id # l
  /\ chunk_id' = [chunk_id EXCEPT ![l] = c]
  /\ \A j \in DOMAIN leases : ChunkOf(j)' = ChunkOf(j)
  /\ ChunkOf(n)' = c

LEMMA GrantFacts ==
  ASSUME PInv, NEW l \in LeaseId, NEW c, NEW w, NEW t, NEW p, Grant(l, c, w, t, p)
  PROVE  \E n : Granted(l, c, w, n)
<1>0. PICK n : n = Len(leases) + 1
  BY Zenon
<1>1. DOMAIN leases = 1..Len(leases) /\ Len(leases) \in Nat
      /\ leases \in Seq(rec_lease_record_t)
  BY DEF PInv, Inv, TypeOK
<1>2. PICK e : /\ leases' = Append(leases, e)
               /\ e.lease_id = l /\ e.assigned_worker_id = w /\ e.state = "ACTIVE"
  BY DEF Grant, inject_lease
<1>3. DOMAIN leases' = 1..(Len(leases) + 1) /\ leases'[n] = e
      /\ \A j \in DOMAIN leases : leases'[j] = leases[j]
  BY <1>0, <1>1, <1>2
<1>4. DOMAIN leases' = DOMAIN leases \cup {n} /\ n \notin DOMAIN leases
  BY <1>0, <1>1, <1>3
<1>5. chunk_id' = [chunk_id EXCEPT ![l] = c] /\ chunk_id[l] = NoChunk
      /\ chunk_id \in [LeaseId -> Chunk \cup {NoChunk}]
  BY Zenon DEF Grant, PInv, ProtocolTypes
<1>6. \A j \in DOMAIN leases : leases[j].lease_id # l
  BY Zenon, <1>5, NamesDistinct DEF PInv, TableInOrder, ChunkOf
<1>7. (\A j \in DOMAIN leases : ChunkOf(j)' = ChunkOf(j)) /\ ChunkOf(n)' = c
  BY <1>2, <1>3, <1>5, <1>6 DEF ChunkOf
<1> QED BY Zenon, <1>2, <1>3, <1>4, <1>5, <1>6, <1>7 DEF Granted

LEMMA GrantInv ==
  ASSUME PInv, NEW l \in LeaseId, NEW c \in Chunk, NEW w \in WorkerId,
         NEW t \in Terms, NEW p \in {"NONE", "RETRY"}, Grant(l, c, w, t, p)
  PROVE  PInv'
<1>0. PICK n : Granted(l, c, w, n)
  BY Zenon, GrantFacts
<1>1. /\ DOMAIN leases' = DOMAIN leases \cup {n} /\ n \notin DOMAIN leases
      /\ leases'[n].lease_id = l /\ leases'[n].assigned_worker_id = w
      /\ leases'[n].state = "ACTIVE"
      /\ \A j \in DOMAIN leases : leases'[j] = leases[j] /\ leases[j].lease_id # l
      /\ chunk_id' = [chunk_id EXCEPT ![l] = c]
      /\ \A j \in DOMAIN leases : ChunkOf(j)' = ChunkOf(j)
      /\ ChunkOf(n)' = c
  BY Zenon, <1>0 DEF Granted
<1>2. Inv'
  <2>1. inject_lease(l, w, t, p)
    BY Zenon DEF Grant
  <2> QED BY Zenon, <2>1, InvNext DEF PInv, Next
<1>3. UNCHANGED <<ctx, results, list, computed>>
      /\ Holding(c) = {} /\ Closed(c) = {}
  BY Zenon DEF Grant
<1>4. ProtocolTypes'
  BY Zenon, <1>1, <1>3 DEF PInv, ProtocolTypes
<1>5. TableInOrder'
  <2>1. \A j, k \in DOMAIN leases' : leases'[j].lease_id = leases'[k].lease_id => j = k
    BY Zenon, <1>1 DEF PInv, TableInOrder
  <2>2. \A j \in DOMAIN leases' : ChunkOf(j)' \in Chunk
    BY Zenon, <1>1 DEF PInv, TableInOrder
  <2>3. \A j \in DOMAIN leases : ~(Open(j) /\ ChunkOf(j) = c)
    BY Zenon, <1>3 DEF Holding, Closed, LeasesOf, ChunkOf, Open
  <2>4. \A j \in DOMAIN leases : Open(j)' = Open(j)
    BY Zenon, <1>1 DEF Open
  <2>5. \A j, k \in DOMAIN leases' :
          Open(j)' /\ Open(k)' /\ ChunkOf(j)' = ChunkOf(k)' => j = k
    BY <1>1, <2>3, <2>4 DEF PInv, TableInOrder
  <2> QED BY Zenon, <2>1, <2>2, <2>5 DEF TableInOrder
<1>6. /\ \A k : Earned(k) => Earned(k)'
      /\ \A v, r : Truthful(v, r) => Truthful(v, r)'
  <2>1. \A j \in DOMAIN leases : chunk_id'[leases[j].lease_id] = chunk_id[leases[j].lease_id]
    BY <1>1 DEF PInv, ProtocolTypes
  <2> QED BY ZenonT(60), <1>1, <1>3, <2>1, TruthStays
<1>7. WorkersTruthful'
  BY Zenon, <1>3, <1>6 DEF PInv, WorkersTruthful
<1> QED BY Zenon, <1>2, <1>4, <1>5, <1>7 DEF PInv

LEMMA PInvNext ==
  ASSUME PInv, [ProtocolNext]_all
  PROVE  PInv'
<1> DEFINE Context == vom_worker_recovery_context(LeaseId)
<1>1. /\ Inv /\ TypeOK
      /\ \A w \in WorkerId : ctx[w] \in Context
      /\ computed \in [Chunk -> SUBSET WorkerId]
      /\ list \in {NoList} \cup [to : WorkerId, leases : SUBSET LeaseId]
      /\ \A j \in DOMAIN leases : /\ leases[j] \in rec_lease_record_t
                                  /\ leases[j].lease_id \in LeaseId
                                  /\ leases[j].assigned_worker_id \in WorkerId
      /\ \A w \in WorkerId : \A i \in DOMAIN ctx[w].active_leases :
            Truthful(w, ctx[w].active_leases[i])
  <2>1. Inv /\ TypeOK /\ ProtocolTypes /\ WorkersTruthful
    BY Zenon DEF PInv, Inv
  <2>2. \A j \in DOMAIN leases : leases[j] \in rec_lease_record_t
    BY <2>1 DEF TypeOK
  <2>3. \A j \in DOMAIN leases : /\ leases[j].lease_id \in LeaseId
                                 /\ leases[j].assigned_worker_id \in WorkerId
    BY Zenon, <2>2 DEF rec_lease_record_t
  <2> QED BY Zenon, <2>1, <2>2, <2>3 DEF ProtocolTypes, WorkersTruthful
<1>2. CASE UNCHANGED all
  <2>1. UNCHANGED <<vars, chunk_id, ctx, results, list, computed>>
    BY Zenon, <1>2 DEF all, network
  <2>2. ProtocolTypes'
    BY Zenon, <2>1 DEF PInv, ProtocolTypes
  <2> QED BY Zenon, <1>1, <2>1, <2>2, WorkerStep
<1>3. ASSUME NEW w \in WorkerId, Heartbeat(w)
      PROVE  PInv'
  <2>1. register_worker_heartbeat(w) /\ leases' = leases
        /\ UNCHANGED <<ctx, network, computed>>
    BY Zenon, <1>3 DEF Heartbeat, register_worker_heartbeat
  <2>2. Inv'
    BY Zenon, <1>1, <2>1, InvNext DEF Next
  <2> QED BY Zenon, <2>1, <2>2, MasterStep
<1>4. ASSUME NEW now \in 0..MaxTime, SweepAt(now)
      PROVE  PInv'
  <2>1. sweep_timeouts(now) /\ sweep_now' = sweep_now
        /\ UNCHANGED <<ctx, network, computed>>
    BY Zenon, <1>4 DEF SweepAt
  <2>2. Inv'
    BY Zenon, <1>1, <2>1, SweepInv DEF TypeOK
  <2>3. /\ leases' \in Seq(rec_lease_record_t) /\ Len(leases') = Len(leases)
        /\ \A j \in DOMAIN leases :
             /\ leases'[j].lease_id = leases[j].lease_id
             /\ leases'[j].assigned_worker_id = leases[j].assigned_worker_id
             /\ IF j \in Settled(now)
                  THEN leases'[j].state \in {"EXPIRED", "RECONCILED"}
                  ELSE leases'[j] = leases[j]
    BY Zenon, <1>1, <2>1, SweepFacts
  <2>4. DOMAIN leases' = DOMAIN leases
    BY <1>1, <2>3 DEF TypeOK
  <2>5. \A j \in Settled(now) : leases[j].state = "ACTIVE"
    BY Zenon, <1>1 DEF Settled, Uncertain, Inv, NothingUndecided
  <2> QED BY Zenon, <2>1, <2>2, <2>3, <2>4, <2>5, MasterStep
<1>5. ASSUME NEW l \in LeaseId, NEW c \in Chunk, NEW w \in WorkerId,
             NEW t \in Terms, NEW p \in {"NONE", "RETRY"}, Grant(l, c, w, t, p)
      PROVE  PInv'
  BY Zenon, <1>5, GrantInv
<1>6. ASSUME NEW j \in DOMAIN leases, DeliverAssignment(j)
      PROVE  PInv'
  <2> DEFINE l == leases[j].lease_id
             w == leases[j].assigned_worker_id
  <2>0. PICK f \in BOOLEAN : f = FALSE
    BY Zenon
  <2> DEFINE d == accept_new_chunk(ctx[w], l, f)
  <2>1. Accepts(ctx[w]) /\ ctx' = [ctx EXCEPT ![w] = d]
        /\ UNCHANGED <<vars, chunk_id, results, list, computed>>
    BY Zenon, <1>1, <1>6, <2>0 DEF DeliverAssignment, network
  <2>2. w \in WorkerId /\ l \in LeaseId /\ ctx[w] \in Context
    BY Zenon, <1>1
  <2>3. /\ d \in Context
        /\ \A x \in DOMAIN d.active_leases :
             \/ /\ x \in DOMAIN ctx[w].active_leases
                /\ d.active_leases[x] = ctx[w].active_leases[x]
             \/ d.active_leases[x] = NewLease(l, f)
    BY <2>1, <2>2, AcceptFacts
  <2>4. Truthful(w, NewLease(l, f))
    BY Zenon DEF Truthful, NewLease
  <2> HIDE DEF l, w, d
  <2>5. \A x \in DOMAIN d.active_leases : Truthful(w, d.active_leases[x])
    BY Zenon, <1>1, <2>2, <2>3, <2>4
  <2> QED BY Zenon, <1>1, <2>1, <2>2, <2>3, <2>5, ContextStep
<1>7. ASSUME NEW j \in DOMAIN leases, DeliverRevocation(j)
      PROVE  PInv'
  <2> DEFINE l == leases[j].lease_id
             w == leases[j].assigned_worker_id
             d == handle_revocation(ctx[w], l)
  <2>1. ctx' = [ctx EXCEPT ![w] = d]
        /\ UNCHANGED <<vars, chunk_id, results, list, computed>>
    BY Zenon, <1>1, <1>7 DEF DeliverRevocation, network
  <2>2. w \in WorkerId /\ l \in LeaseId /\ ctx[w] \in Context
    BY Zenon, <1>1
  <2>3. CASE SlotsOf(ctx[w], l) = {}
    <3>1. d = ctx[w]
      BY Zenon, <2>3 DEF handle_revocation
    <3> HIDE DEF l, w, d
    <3> QED BY Zenon, <1>1, <2>1, <2>2, <3>1, ContextStep
  <2>4. CASE SlotsOf(ctx[w], l) # {}
    <3>1. /\ d \in Context
          /\ DOMAIN d.active_leases = DOMAIN ctx[w].active_leases
          /\ \A y \in DOMAIN ctx[w].active_leases :
               d.active_leases[y] = IF y = First(SlotsOf(ctx[w], l))
                                      THEN Revoke(ctx[w].active_leases[y])
                                      ELSE ctx[w].active_leases[y]
      BY <2>2, <2>4, RevocationFacts
    <3> HIDE DEF l, w, d
    <3>2. \A y \in DOMAIN ctx[w].active_leases :
            /\ Revoke(ctx[w].active_leases[y]).lease_id = ctx[w].active_leases[y].lease_id
            /\ Revoke(ctx[w].active_leases[y]).state = "REVOKED"
      BY ZenonT(60), <2>2, ContextType, RevokeType
    <3>3. \A y \in DOMAIN ctx[w].active_leases : Truthful(w, Revoke(ctx[w].active_leases[y]))
      <4> TAKE y \in DOMAIN ctx[w].active_leases
      <4>1. Truthful(w, ctx[w].active_leases[y])
        BY Zenon, <1>1, <2>2
      <4>2. /\ Revoke(ctx[w].active_leases[y]).lease_id = ctx[w].active_leases[y].lease_id
            /\ Revoke(ctx[w].active_leases[y]).state \notin {"COMPLETED", "RECONCILED"}
        BY Zenon, <3>2
      <4> QED BY Zenon, <4>1, <4>2 DEF Truthful
    <3>4. \A x \in DOMAIN d.active_leases : Truthful(w, d.active_leases[x])
      BY Zenon, <1>1, <2>2, <3>1, <3>3
    <3> QED BY ZenonT(60), <1>1, <2>1, <2>2, <3>1, <3>4, ContextStep
  <2> QED BY Zenon, <2>3, <2>4
<1>8. ASSUME NEW w \in WorkerId, NEW l \in LeaseId, NEW s \in Checksum,
             Complete(w, l, s)
      PROVE  PInv'
  <2> DEFINE d == complete_chunk(ctx[w], l, s)
  <2>1. /\ RunningSlots(ctx[w], l) # {}
        /\ ctx' = [ctx EXCEPT ![w] = d]
        /\ computed' = [computed EXCEPT ![chunk_id[l]] = @ \cup {w}]
        /\ UNCHANGED <<vars, chunk_id, results, list>>
    BY Zenon, <1>1, <1>8 DEF Complete, network
  <2>2. PICK i \in DOMAIN ctx[w].active_leases : ctx[w].active_leases[i].lease_id = l
    BY Zenon, <2>1 DEF RunningSlots, SlotsOf
  <2>3. PICK j \in DOMAIN leases : leases[j].lease_id = l /\ leases[j].assigned_worker_id = w
    BY Zenon, <1>1, <2>2 DEF Truthful
  <2>4. chunk_id[l] \in Chunk
    BY Zenon, <2>3 DEF PInv, TableInOrder, ChunkOf
  <2>5. /\ computed' \in [Chunk -> SUBSET WorkerId]
        /\ \A c \in Chunk : computed[c] \subseteq computed'[c]
        /\ w \in computed'[chunk_id[l]]
    BY ZenonT(60), <1>1, <2>1, <2>4
  <2>6. /\ d \in Context
        /\ DOMAIN d.active_leases = DOMAIN ctx[w].active_leases
        /\ \A y \in DOMAIN ctx[w].active_leases :
              \/ d.active_leases[y] = ctx[w].active_leases[y]
              \/ /\ ctx[w].active_leases[y].state = "RUNNING"
                 /\ ctx[w].active_leases[y].lease_id = l
                 /\ d.active_leases[y] = Completed(ctx[w].active_leases[y], s)
    <3>1. ctx[w] \in Context /\ RunningSlots(ctx[w], l) # {}
      BY Zenon, <1>1, <2>1
    <3> QED BY SMT, <3>1, CompleteRecords
  <2> HIDE DEF d
  <2>7. ASSUME NEW y \in DOMAIN d.active_leases
        PROVE  \E r : r = d.active_leases[y] /\ (Truthful(w, r) \/ Truthful(w, r)')
    <3>1. CASE d.active_leases[y] = ctx[w].active_leases[y]
      BY Zenon, <1>1, <2>6, <2>7, <3>1
    <3>2. CASE d.active_leases[y] # ctx[w].active_leases[y]
      <4>1. PICK r : r = d.active_leases[y]
        BY Zenon
      <4>2. r.lease_id = l
        BY SMTT(30), <1>1, <2>6, <2>7, <3>2, <4>1, ContextType, CompletedType
      <4>3. leases' = leases /\ chunk_id' = chunk_id
        BY Zenon, <2>1 DEF vars
      <4>4. Truthful(w, r)'
        BY Zenon, <2>3, <2>5, <4>2, <4>3 DEF Truthful
      <4> QED BY Zenon, <4>1, <4>4
    <3> QED BY Zenon, <3>1, <3>2
  <2> QED BY ZenonT(30), <2>1, <2>5, <2>6, <2>7, ContextStep
<1>9. ASSUME NEW w \in WorkerId, NEW l \in LeaseId, SendResult(w, l)
      PROVE  PInv'
  <2>1. /\ claim_result(ctx[w], l) /\ results' = results \cup {l}
        /\ UNCHANGED <<vars, chunk_id, ctx, list, computed>>
    BY Zenon, <1>9 DEF SendResult
  <2>2. ProtocolTypes'
    BY Zenon, <2>1 DEF PInv, ProtocolTypes
  <2>3. PICK i \in DOMAIN ctx[w].active_leases :
          /\ ctx[w].active_leases[i].lease_id = l
          /\ ctx[w].active_leases[i].state \in {"RECONCILED", "COMPLETED"}
    <3>1. First(SlotsOf(ctx[w], l)) \in SlotsOf(ctx[w], l)
      BY ZenonT(60), <1>1, <2>1, LeadIn DEF claim_result
    <3> QED BY ZenonT(60), <2>1, <3>1 DEF claim_result, SlotsOf
  <2>4. Earned(l)
    BY <1>1, <2>3 DEF Truthful, Earned
  <2>5. Earned(l)'
    BY Zenon, <2>1, <2>4 DEF Earned, vars
  <2> QED BY Zenon, <1>1, <2>1, <2>2, <2>5, WorkerStep
<1>10. ASSUME NEW l \in LeaseId, DeliverResult(l)
       PROVE  PInv'
  <2> DEFINE j == First(LeaseSlots(l))
             w == leases[j].assigned_worker_id
  <2>1. process_incoming_result(l, w) /\ UNCHANGED <<ctx, network, computed>>
    BY Zenon, <1>10 DEF DeliverResult
  <2>2. /\ leases[j].state = "ACTIVE" /\ DOMAIN leases' = DOMAIN leases
        /\ leases'[j].state = "RECONCILED" /\ j \in DOMAIN leases
        /\ \A k \in DOMAIN leases :
               /\ leases'[k].lease_id = leases[k].lease_id
               /\ leases'[k].assigned_worker_id = leases[k].assigned_worker_id
               /\ k # j => leases'[k] = leases[k]
    BY Zenon, <1>1, <2>1, ResultFacts DEF Taken
  <2>3. Inv'
    BY Zenon, <1>1, <2>1, <2>2, InvNext DEF Next
  <2> HIDE DEF j, w
  <2> QED BY Zenon, <2>1, <2>2, <2>3, MasterStep
<1>11. ASSUME NEW w \in WorkerId, SendList(w)
       PROVE  PInv'
  <2>1. /\ list' = [to |-> w, leases |-> ActiveOf(w)]
        /\ UNCHANGED <<vars, chunk_id, ctx, results, computed>>
    BY Zenon, <1>11 DEF SendList
  <2>2. ActiveOf(w) \subseteq LeaseId
    BY Zenon, <1>1 DEF ActiveOf
  <2>3. ProtocolTypes'
    BY Zenon, <2>1, <2>2 DEF PInv, ProtocolTypes
  <2> QED BY Zenon, <1>1, <2>1, <2>3, WorkerStep
<1>12. ASSUME NEW w \in WorkerId, Restart(w)
       PROVE  PInv'
  <2>1. /\ ctx' = [ctx EXCEPT ![w] = recovery_init]
        /\ UNCHANGED <<vars, chunk_id, results, list, computed>>
    BY Zenon, <1>12 DEF Restart
  <2>2. recovery_init \in Context /\ DOMAIN recovery_init.active_leases = {}
    BY DEF recovery_init, vom_worker_recovery_context
  <2> QED BY Zenon, <1>1, <2>1, <2>2, ContextStep
<1>13. CASE DeliverList
  <2> DEFINE w == list.to
             d == reconnect_reconcile(ctx[w], list.leases)
  <2>1. /\ list # NoList /\ ctx' = [ctx EXCEPT ![w] = d]
        /\ UNCHANGED <<vars, chunk_id, results, list, computed>>
    BY Zenon, <1>13 DEF DeliverList, network
  <2>2. w \in WorkerId /\ ctx[w] \in Context
    BY Zenon, <1>1, <2>1
  <2>3. /\ d \in Context
        /\ \A x \in DOMAIN d.active_leases :
              \E y \in DOMAIN ctx[w].active_leases :
                d.active_leases[x] = Reconcile(ctx[w].active_leases[y], list.leases)
    BY <2>2, ReconcileFacts
  <2> HIDE DEF w, d
  <2>4. ASSUME NEW y \in DOMAIN ctx[w].active_leases
        PROVE  Truthful(w, Reconcile(ctx[w].active_leases[y], list.leases))
    <3> DEFINE r == ctx[w].active_leases[y]
               q == Reconcile(r, list.leases)
    <3>1. r \in worker_active_lease_t(LeaseId) /\ Truthful(w, r)
      BY Zenon, <1>1, <2>2, <2>4, ContextType
    <3>2. /\ q.lease_id = r.lease_id
          /\ \/ q = r
             \/ q = Revoke(r)
             \/ q = [r EXCEPT !.state = "RECONCILED"] /\ r.state = "COMPLETED"
      BY <3>1, ReconcileType
    <3>3. Revoke(r).state = "REVOKED"
      BY Zenon, <3>1, RevokeType
    <3> HIDE DEF r, q
    <3>4. q.state \in {"COMPLETED", "RECONCILED"} => r.state \in {"COMPLETED", "RECONCILED"}
      BY Zenon, <3>2, <3>3
    <3>5. Truthful(w, q)
      BY Zenon, <3>1, <3>2, <3>4 DEF Truthful
    <3> QED BY Zenon, <3>5 DEF q, r
  <2>5. \A x \in DOMAIN d.active_leases : Truthful(w, d.active_leases[x])
    BY Zenon, <2>3, <2>4
  <2> QED BY Zenon, <1>1, <2>1, <2>2, <2>3, <2>5, ContextStep
<1> QED BY ZenonT(60), <1>2, <1>3, <1>4, <1>5, <1>6, <1>7, <1>8, <1>9, <1>10, <1>11, <1>12,
           <1>13 DEF ProtocolNext

LEMMA ProtocolInvariance == ProtocolSpec => []PInv
BY PInvInit, PInvNext, PTL DEF ProtocolSpec

-----------------------------------------------------------------------------
(* How a chunk stands is how its one open lease stands.                    *)
Shown(j) == IF leases[j].state = "ACTIVE" THEN leases[j].assigned_worker_id
            ELSE IF committed[leases[j].lease_id] > 0 THEN "done"
            ELSE "abandoned"
StandsAsItsLease ==
  \A c \in Chunk :
    /\ \A j \in DOMAIN leases :
         Open(j) /\ ChunkOf(j) = c => Standing(c) = Shown(j)
    /\ (\A j \in DOMAIN leases : ~(Open(j) /\ ChunkOf(j) = c))
         => Standing(c) = "waiting"

LEMMA StandingIs == PInv => StandsAsItsLease
<1> SUFFICES ASSUME PInv, NEW c \in Chunk
             PROVE  /\ \A j \in DOMAIN leases :
                          Open(j) /\ ChunkOf(j) = c => Standing(c) = Shown(j)
                    /\ (\A j \in DOMAIN leases : ~(Open(j) /\ ChunkOf(j) = c))
                          => Standing(c) = "waiting"
  BY Zenon DEF StandsAsItsLease
<1>1. /\ \A j : j \in Holding(c) <=> /\ j \in DOMAIN leases /\ ChunkOf(j) = c
                                     /\ leases[j].state = "ACTIVE"
      /\ \A j : j \in Closed(c) <=> /\ j \in DOMAIN leases /\ ChunkOf(j) = c
                                    /\ leases[j].state = "RECONCILED"
  BY Zenon DEF Holding, Closed, LeasesOf, ChunkOf
<1>2. ASSUME NEW j \in DOMAIN leases, Open(j), ChunkOf(j) = c
      PROVE  Standing(c) = Shown(j)
  <2>1. \A k \in Holding(c) \cup Closed(c) : k = j
    BY Zenon, <1>1, <1>2 DEF PInv, TableInOrder, Open
  <2>2. CASE leases[j].state = "ACTIVE"
    <3>1. Holding(c) \in SUBSET Nat /\ j \in Holding(c)
      BY <1>1, <1>2, <2>2 DEF PInv, Inv, TypeOK
    <3>2. First(Holding(c)) \in Holding(c)
      BY Zenon, <3>1, FirstIn
    <3> QED BY Zenon, <2>1, <2>2, <3>1, <3>2 DEF Standing, Shown
  <2>3. CASE leases[j].state = "RECONCILED"
    <3>1. Holding(c) = {} /\ Closed(c) = {j}
      BY Zenon, <1>1, <1>2, <2>1, <2>3
    <3> QED BY Zenon, <2>3, <3>1 DEF Standing, Shown
  <2> QED BY Zenon, <1>2, <2>2, <2>3 DEF Open
<1>3. ASSUME \A j \in DOMAIN leases : ~(Open(j) /\ ChunkOf(j) = c)
      PROVE  Standing(c) = "waiting"
  <2>1. Holding(c) = {} /\ Closed(c) = {}
    BY Zenon, <1>1, <1>3 DEF Open
  <2> QED BY Zenon, <2>1 DEF Standing
<1> QED BY Zenon, <1>2, <1>3

LEMMA StandingWillBe == PInv' => StandsAsItsLease'
BY StandingIs, PTL

(* A chunk that keeps its open leases, and they how they stand, stands as  *)
(* before.                                                                 *)
LEMMA StandingSame ==
  ASSUME PInv, PInv', NEW c \in Chunk,
         \A j \in DOMAIN leases : Open(j) /\ ChunkOf(j) = c =>
            /\ j \in DOMAIN leases' /\ Open(j)' /\ ChunkOf(j)' = c
            /\ Shown(j)' = Shown(j),
         \A j \in DOMAIN leases' : Open(j)' /\ ChunkOf(j)' = c =>
            j \in DOMAIN leases /\ Open(j) /\ ChunkOf(j) = c
  PROVE  Standing(c)' = Standing(c)
<1>1. StandsAsItsLease /\ StandsAsItsLease'
  BY Zenon, StandingIs, StandingWillBe
<1>2. CASE \E j \in DOMAIN leases : Open(j) /\ ChunkOf(j) = c
  <2>1. PICK j \in DOMAIN leases : Open(j) /\ ChunkOf(j) = c
    BY Zenon, <1>2
  <2>2. Standing(c) = Shown(j) /\ Standing(c)' = Shown(j)'
    BY Zenon, <1>1, <2>1 DEF StandsAsItsLease
  <2> QED BY Zenon, <2>1, <2>2
<1>3. CASE \A j \in DOMAIN leases : ~(Open(j) /\ ChunkOf(j) = c)
  <2>1. \A j \in DOMAIN leases' : ~(Open(j)' /\ ChunkOf(j)' = c)
    BY Zenon, <1>3
  <2>2. Standing(c) = "waiting"
    BY Zenon, <1>1, <1>3 DEF StandsAsItsLease
  <2>3. Standing(c)' = "waiting"
    BY Zenon, <1>1, <2>1 DEF StandsAsItsLease
  <2> QED BY Zenon, <2>2, <2>3
<1> QED BY Zenon, <1>2, <1>3

-----------------------------------------------------------------------------
Status == [c \in Chunk |-> Standing(c)]

LEMMA GrantRefines ==
  ASSUME PInv, PInv', NEW l \in LeaseId, NEW c \in Chunk, NEW w \in WorkerId,
         NEW t, NEW p, Grant(l, c, w, t, p)
  PROVE  Status[c] = "waiting" /\ Status' = [Status EXCEPT ![c] = w]
<1>0. PICK n : Granted(l, c, w, n)
  BY Zenon, GrantFacts
<1>1. /\ DOMAIN leases' = DOMAIN leases \cup {n} /\ n \notin DOMAIN leases
      /\ leases'[n].state = "ACTIVE" /\ leases'[n].assigned_worker_id = w
      /\ \A j \in DOMAIN leases : leases'[j] = leases[j] /\ ChunkOf(j)' = ChunkOf(j)
      /\ ChunkOf(n)' = c
  BY Zenon, <1>0 DEF Granted
<1>2. committed' = committed /\ Holding(c) = {} /\ Closed(c) = {}
  BY Zenon DEF Grant, inject_lease
<1>3. Standing(c) = "waiting"
  BY ZenonT(60), <1>2 DEF Standing
<1>4. Standing(c)' = w
  <2>1. Open(n)' /\ Shown(n)' = w
    BY Zenon, <1>1 DEF Open, Shown
  <2> QED BY Zenon, <1>1, <2>1, StandingWillBe DEF StandsAsItsLease
<1>5. ASSUME NEW d \in Chunk, d # c
      PROVE  Standing(d)' = Standing(d)
  <2>1. \A j \in DOMAIN leases : Open(j)' = Open(j) /\ Shown(j)' = Shown(j)
    BY Zenon, <1>1, <1>2 DEF Open, Shown
  <2>2. \A j \in DOMAIN leases : Open(j) /\ ChunkOf(j) = d =>
            /\ j \in DOMAIN leases' /\ Open(j)' /\ ChunkOf(j)' = d
            /\ Shown(j)' = Shown(j)
    BY Zenon, <1>1, <2>1
  <2>3. \A j \in DOMAIN leases' : Open(j)' /\ ChunkOf(j)' = d =>
            j \in DOMAIN leases /\ Open(j) /\ ChunkOf(j) = d
    BY Zenon, <1>1, <1>5, <2>1
  <2> QED BY ZenonT(60), <2>2, <2>3, StandingSame
<1> QED BY ZenonT(30), <1>3, <1>4, <1>5 DEF Status

LEMMA ResultRefines ==
  ASSUME PInv, PInv', NEW l \in LeaseId, DeliverResult(l)
  PROVE  \E c \in Chunk : /\ Status[c] \in computed[c]
                          /\ Status' = [Status EXCEPT ![c] = "done"]
<1> DEFINE w == leases[First(LeaseSlots(l))].assigned_worker_id
<1>1. /\ Inv /\ TypeOK /\ process_incoming_result(l, w) /\ l \in results
      /\ chunk_id' = chunk_id
  BY Zenon DEF DeliverResult, PInv, Inv, network
<1>2. PICK j : j = First(LeaseSlots(l))
  BY Zenon
<1> HIDE DEF w
<1>3. /\ j \in DOMAIN leases /\ leases[j].lease_id = l
      /\ leases[j].state = "ACTIVE" /\ leases[j].assigned_worker_id = w
      /\ committed' = [committed EXCEPT ![l] = 1]
      /\ DOMAIN leases' = DOMAIN leases /\ leases'[j].state = "RECONCILED"
      /\ \A k \in DOMAIN leases :
            /\ leases'[k].lease_id = leases[k].lease_id
            /\ k # j => leases'[k] = leases[k]
  <2>1. Taken(l, w, j)
    BY Zenon, <1>1, <1>2, ResultFacts
  <2> QED BY Zenon, <2>1 DEF Taken
<1>4. PICK c \in Chunk : ChunkOf(j) = c
  BY Zenon, <1>3 DEF PInv, TableInOrder
<1>5. \A k \in DOMAIN leases : ChunkOf(k)' = ChunkOf(k)
  BY Zenon, <1>1, <1>3 DEF ChunkOf
<1>6. w \in computed[c]
  <2>1. PICK k \in DOMAIN leases : /\ leases[k].lease_id = l
                                   /\ leases[k].assigned_worker_id \in computed[chunk_id[l]]
    BY Zenon, <1>1 DEF PInv, WorkersTruthful, Earned
  <2>2. k = j
    BY ZenonT(60), <1>3, <2>1 DEF PInv, TableInOrder
  <2> QED BY Zenon, <1>3, <1>4, <2>1, <2>2 DEF ChunkOf
<1>7. Standing(c) = w
  <2>1. Open(j) /\ Shown(j) = w
    BY Zenon, <1>3 DEF Open, Shown
  <2> QED BY Zenon, <1>3, <1>4, <2>1, StandingIs DEF StandsAsItsLease
<1>8. Standing(c)' = "done"
  <2>1. committed'[l] = 1
    BY Zenon, <1>1, <1>3 DEF TypeOK
  <2>2. Open(j)' /\ Shown(j)' = "done"
    BY <1>3, <2>1 DEF Open, Shown
  <2> QED BY Zenon, <1>3, <1>4, <1>5, <2>2, StandingWillBe DEF StandsAsItsLease
<1>9. ASSUME NEW d \in Chunk, d # c
      PROVE  Standing(d)' = Standing(d)
  <2>1. \A k \in DOMAIN leases : k # j => leases[k].lease_id # l
    BY Zenon, <1>3 DEF PInv, TableInOrder
  <2>2. \A k \in DOMAIN leases : k # j =>
           committed'[leases[k].lease_id] = committed[leases[k].lease_id]
    BY SMTT(30), <1>1, <1>3, <2>1 DEF TypeOK
  <2>3. \A k \in DOMAIN leases : k # j => Open(k)' = Open(k) /\ Shown(k)' = Shown(k)
    BY ZenonT(60), <1>3, <2>2 DEF Open, Shown
  <2>4. \A k \in DOMAIN leases : ChunkOf(k) = d => k # j
    BY Zenon, <1>4, <1>9
  <2> QED BY Zenon, <1>3, <1>5, <2>3, <2>4, StandingSame
<1> QED BY Zenon, <1>6, <1>7, <1>8, <1>9 DEF Status

LEMMA SweepRefines ==
  ASSUME PInv, PInv', NEW now, SweepAt(now)
  PROVE  \E retry, abandon \in SUBSET Chunk :
           /\ \A c \in retry \cup abandon : Status[c] \in WorkerId
           /\ Status' = [c \in Chunk |-> IF c \in abandon THEN "abandoned"
                                         ELSE IF c \in retry THEN "waiting"
                                         ELSE Status[c]]
<1> DEFINE Gone(c, st) == \E j \in Settled(now) : ChunkOf(j) = c /\ leases'[j].state = st
<1>1. /\ Inv /\ TypeOK /\ sweep_timeouts(now) /\ committed' = committed
      /\ chunk_id' = chunk_id /\ StandsAsItsLease /\ StandsAsItsLease'
  BY ZenonT(60), StandingIs, StandingWillBe DEF SweepAt, sweep_timeouts, PInv, Inv, network
<1>2. /\ DOMAIN leases' = DOMAIN leases /\ Settled(now) \subseteq DOMAIN leases
      /\ \A j \in DOMAIN leases :
            /\ leases'[j].lease_id = leases[j].lease_id
            /\ leases'[j].assigned_worker_id = leases[j].assigned_worker_id
            /\ IF j \in Settled(now)
                 THEN leases'[j].state \in {"EXPIRED", "RECONCILED"}
                 ELSE leases'[j] = leases[j]
  <2>1. /\ leases' \in Seq(rec_lease_record_t) /\ Len(leases') = Len(leases)
        /\ leases \in Seq(rec_lease_record_t)
    BY Zenon, <1>1, SweepFacts DEF TypeOK
  <2>2. Settled(now) \subseteq DOMAIN leases
    BY Zenon DEF Settled, Uncertain
  <2> QED BY SMTT(30), <1>1, <2>1, <2>2, SweepFacts
<1>3. \A j \in DOMAIN leases : ChunkOf(j)' = ChunkOf(j) /\ ChunkOf(j) \in Chunk
  BY ZenonT(60), <1>1, <1>2 DEF PInv, TableInOrder, ChunkOf
<1>4. \A j \in Settled(now) : leases[j].state = "ACTIVE" /\ Open(j)
  BY Zenon, <1>1 DEF Settled, Uncertain, Inv, NothingUndecided, Open
<1>5. \A j \in DOMAIN leases : Open(j)' => Open(j)
  BY Zenon, <1>2, <1>4 DEF Open
<1>6. ASSUME NEW j \in Settled(now)
      PROVE  /\ Standing(ChunkOf(j)) \in WorkerId
             /\ committed[leases[j].lease_id] = 0
  <2>1. leases[j] \in rec_lease_record_t
    BY <1>1, <1>2 DEF TypeOK
  <2>2. leases[j].assigned_worker_id \in WorkerId /\ leases[j].lease_id \in LeaseId
    BY Zenon, <2>1 DEF rec_lease_record_t
  <2>3. Standing(ChunkOf(j)) = leases[j].assigned_worker_id
    BY ZenonT(60), <1>1, <1>2, <1>3, <1>4 DEF StandsAsItsLease, Shown
  <2>4. committed[leases[j].lease_id] # 1
    <3> DEFINE l == leases[j].lease_id
    <3>1. LeaseSlots(l) # {}
      BY Zenon, <1>2 DEF LeaseSlots
    <3>2. First(LeaseSlots(l)) \in LeaseSlots(l)
      BY Zenon, <1>1, <3>1, FirstLease
    <3>3. First(LeaseSlots(l)) = j
      BY ZenonT(60), <1>2, <3>2 DEF PInv, TableInOrder, LeaseSlots
    <3> QED BY Zenon, <1>1, <1>4, <2>2, <3>3 DEF Inv, AtMostOneCommit
  <2>5. committed[leases[j].lease_id] \in Nat /\ committed[leases[j].lease_id] <= 1
    BY Zenon, <1>1, <2>2 DEF Inv, TypeOK, AtMostOneCommit
  <2> QED BY SMTT(30), <2>2, <2>3, <2>4, <2>5
<1>7. ASSUME NEW c \in Chunk, Gone(c, "RECONCILED")
      PROVE  Standing(c)' = "abandoned" /\ Standing(c) \in WorkerId
  <2>1. PICK j \in Settled(now) : ChunkOf(j) = c /\ leases'[j].state = "RECONCILED"
    BY ZenonT(60), <1>7
  <2>2. Open(j)' /\ Shown(j)' = "abandoned"
    BY SMTT(30), <1>1, <1>2, <1>6, <2>1 DEF Open, Shown
  <2>3. j \in DOMAIN leases' /\ ChunkOf(j)' = c
    BY Zenon, <1>2, <1>3, <2>1
  <2>4. Standing(c)' = Shown(j)'
    BY Zenon, <1>1, <2>2, <2>3 DEF StandsAsItsLease
  <2>5. Standing(c) \in WorkerId
    BY Zenon, <1>6, <2>1
  <2> QED BY Zenon, <2>2, <2>4, <2>5
<1>8. ASSUME NEW c \in Chunk, Gone(c, "EXPIRED")
      PROVE  /\ Standing(c)' = "waiting" /\ Standing(c) \in WorkerId
             /\ ~Gone(c, "RECONCILED")
  <2>1. PICK j \in Settled(now) : ChunkOf(j) = c /\ leases'[j].state = "EXPIRED"
    BY Zenon, <1>8
  <2>2. \A k \in DOMAIN leases : Open(k) /\ ChunkOf(k) = c => k = j
    BY ZenonT(60), <1>2, <1>4, <2>1 DEF PInv, TableInOrder
  <2>3. ~Open(j)'
    BY Zenon, <2>1 DEF Open
  <2>4. \A k \in DOMAIN leases' : ~(Open(k)' /\ ChunkOf(k)' = c)
    BY ZenonT(60), <1>2, <1>3, <1>5, <2>2, <2>3
  <2>5. Standing(c)' = "waiting"
    BY Zenon, <1>1, <2>4 DEF StandsAsItsLease
  <2> QED BY ZenonT(60), <1>2, <1>4, <1>6, <2>1, <2>2, <2>5
<1>9. ASSUME NEW c \in Chunk, ~Gone(c, "EXPIRED"), ~Gone(c, "RECONCILED")
      PROVE  Standing(c)' = Standing(c)
  <2>1. \A j \in DOMAIN leases : ChunkOf(j) = c => leases'[j] = leases[j]
    BY Zenon, <1>2, <1>9
  <2>2. \A j \in DOMAIN leases : ChunkOf(j) = c =>
           Open(j)' = Open(j) /\ Shown(j)' = Shown(j)
    BY Zenon, <1>1, <2>1 DEF Open, Shown
  <2> QED BY Zenon, <1>2, <1>3, <2>2, StandingSame
<1> HIDE DEF Gone
<1>10. PICK retry \in SUBSET Chunk : \A c \in Chunk : c \in retry <=> Gone(c, "EXPIRED")
  <2>1. {c \in Chunk : Gone(c, "EXPIRED")} \in SUBSET Chunk
    BY Zenon
  <2> QED BY Zenon, <2>1
<1>11. PICK abandon \in SUBSET Chunk : \A c \in Chunk : c \in abandon <=> Gone(c, "RECONCILED")
  <2>1. {c \in Chunk : Gone(c, "RECONCILED")} \in SUBSET Chunk
    BY Zenon
  <2> QED BY ZenonT(30), <2>1
<1>12. \A c \in retry \cup abandon : Status[c] \in WorkerId
  BY Zenon, <1>7, <1>8, <1>10, <1>11 DEF Status
<1>13. \A c \in Chunk : Standing(c)' = IF c \in abandon THEN "abandoned"
                                       ELSE IF c \in retry THEN "waiting"
                                       ELSE Status[c]
  BY Zenon, <1>7, <1>8, <1>9, <1>10, <1>11 DEF Status
<1>14. Status' = [c \in Chunk |-> IF c \in abandon THEN "abandoned"
                                  ELSE IF c \in retry THEN "waiting"
                                  ELSE Status[c]]
  BY Zenon, <1>13 DEF Status
<1> QED BY Zenon, <1>12, <1>14

LEMMA StatusKept ==
  ASSUME UNCHANGED <<leases, committed, chunk_id>>
  PROVE  Status' = Status
BY Zenon DEF Status, Standing, Holding, Closed, LeasesOf

(* Every step of the protocol is a step of the promise, or none. *)
LEMMA StepRefines ==
  ASSUME PInv, PInv', [ProtocolNext]_all
  PROVE  [Promise!Next]_(Promise!vars)
<1> SUFFICES \/ \E c \in Chunk, w \in WorkerId :
                  /\ Status[c] = "waiting" /\ Status' = [Status EXCEPT ![c] = w]
                  /\ computed' = computed
             \/ \E c \in Chunk, w \in WorkerId :
                  /\ computed' = [computed EXCEPT ![c] = @ \cup {w}]
                  /\ Status' = Status
             \/ \E c \in Chunk : /\ Status[c] \in computed[c]
                                 /\ Status' = [Status EXCEPT ![c] = "done"]
                                 /\ computed' = computed
             \/ /\ \E retry, abandon \in SUBSET Chunk :
                     /\ \A c \in retry \cup abandon : Status[c] \in WorkerId
                     /\ Status' = [c \in Chunk |-> IF c \in abandon THEN "abandoned"
                                                   ELSE IF c \in retry THEN "waiting"
                                                   ELSE Status[c]]
                /\ computed' = computed
             \/ Status' = Status /\ computed' = computed
  BY ZenonT(60) DEF Status, Promise!Next, Promise!vars, Promise!Lease, Promise!Compute,
     Promise!Commit, Promise!GiveUp
<1>1. CASE UNCHANGED all
  BY Zenon, <1>1, StatusKept DEF all, vars, network
<1>2. ASSUME NEW w \in WorkerId, Heartbeat(w)
      PROVE  Status' = Status /\ computed' = computed
  BY Zenon, <1>2, StatusKept DEF Heartbeat, register_worker_heartbeat, network
<1>3. ASSUME NEW now \in 0..MaxTime, SweepAt(now)
      PROVE  /\ \E retry, abandon \in SUBSET Chunk :
                  /\ \A c \in retry \cup abandon : Status[c] \in WorkerId
                  /\ Status' = [c \in Chunk |-> IF c \in abandon THEN "abandoned"
                                                ELSE IF c \in retry THEN "waiting"
                                                ELSE Status[c]]
             /\ computed' = computed
  <2>1. computed' = computed
    BY Zenon, <1>3 DEF SweepAt
  <2> QED BY Zenon, <1>3, <2>1, SweepRefines
<1>4. ASSUME NEW l \in LeaseId, NEW c \in Chunk, NEW w \in WorkerId,
             NEW t \in Terms, NEW p \in {"NONE", "RETRY"}, Grant(l, c, w, t, p)
      PROVE  /\ Status[c] = "waiting" /\ Status' = [Status EXCEPT ![c] = w]
             /\ computed' = computed
  <2>1. computed' = computed
    BY Zenon, <1>4 DEF Grant
  <2> QED BY Zenon, <1>4, <2>1, GrantRefines
<1>5. ASSUME NEW j \in DOMAIN leases, DeliverAssignment(j) \/ DeliverRevocation(j)
      PROVE  Status' = Status /\ computed' = computed
  BY Zenon, <1>5, StatusKept DEF DeliverAssignment, DeliverRevocation, vars, network
<1>6. ASSUME NEW w \in WorkerId, NEW l \in LeaseId, SendResult(w, l)
      PROVE  Status' = Status /\ computed' = computed
  BY Zenon, <1>6, StatusKept DEF SendResult, vars
<1>7. ASSUME NEW w \in WorkerId, NEW l \in LeaseId, NEW s \in Checksum,
             Complete(w, l, s)
      PROVE  \E c \in Chunk, v \in WorkerId :
                /\ computed' = [computed EXCEPT ![c] = @ \cup {v}]
                /\ Status' = Status
  <2>1. PICK i \in DOMAIN ctx[w].active_leases : ctx[w].active_leases[i].lease_id = l
    BY Zenon, <1>7 DEF Complete, RunningSlots, SlotsOf
  <2>2. PICK j \in DOMAIN leases : leases[j].lease_id = l
    BY ZenonT(60), <2>1 DEF PInv, WorkersTruthful, Truthful
  <2>3. chunk_id[l] \in Chunk
    BY Zenon, <2>2 DEF PInv, TableInOrder, ChunkOf
  <2>4. computed' = [computed EXCEPT ![chunk_id[l]] = @ \cup {w}]
    BY Zenon, <1>7 DEF Complete
  <2>5. Status' = Status
    BY Zenon, <1>7, StatusKept DEF Complete, vars, network
  <2> QED BY ZenonT(60), <2>3, <2>4, <2>5
<1>8. ASSUME NEW l \in LeaseId, DeliverResult(l)
      PROVE  \E c \in Chunk : /\ Status[c] \in computed[c]
                              /\ Status' = [Status EXCEPT ![c] = "done"]
                              /\ computed' = computed
  <2>1. computed' = computed
    BY Zenon, <1>8 DEF DeliverResult
  <2> QED BY Zenon, <1>8, <2>1, ResultRefines
<1>9. ASSUME NEW w \in WorkerId, SendList(w) \/ Restart(w)
      PROVE  Status' = Status /\ computed' = computed
  BY Zenon, <1>9, StatusKept DEF SendList, Restart, vars
<1>10. CASE DeliverList
  BY Zenon, <1>10, StatusKept DEF DeliverList, vars, network
<1> QED BY Zenon, <1>1, <1>2, <1>3, <1>4, <1>5, <1>6, <1>7, <1>8, <1>9, <1>10 DEF ProtocolNext

(* The master's and the workers' halves implement ChunkLeases for any      *)
(* chunks, workers and capacities, however messages are lost, repeated or  *)
(* reordered and workers restart: one holder at a time, one result, from   *)
(* the holder, that the holder computed.                                   *)
THEOREM ProtocolKeepsPromise == ProtocolSpec => LeasesKeepPromise
<1>1. ProtocolInit => Promise!Init
  <2> SUFFICES ASSUME ProtocolInit PROVE Promise!Init
    BY Zenon
  <2>1. leases = <<>> /\ computed = [c \in Chunk |-> {}]
    BY Zenon DEF ProtocolInit, Init
  <2>2. \A c \in Chunk : LeasesOf(c) = {}
    BY <2>1 DEF LeasesOf
  <2>3. \A c \in Chunk : Standing(c) = "waiting"
    BY Zenon, <2>2 DEF Standing, Holding, Closed
  <2> QED BY Zenon, <2>1, <2>3 DEF Promise!Init
<1> QED BY <1>1, StepRefines, ProtocolInvariance, PTL
        DEF ProtocolSpec, LeasesKeepPromise, Promise!Spec

-----------------------------------------------------------------------------
RestartsCounted == restarts \in Nat

LEMMA RestartsInvariance == ProtocolSpec => []RestartsCounted
<1>1. ProtocolInit => RestartsCounted
  BY DEF ProtocolInit, RestartsCounted
<1>2. ASSUME RestartsCounted, [ProtocolNext]_all
      PROVE  RestartsCounted'
  <2>1. CASE restarts' = restarts
    BY Zenon, <1>2, <2>1 DEF RestartsCounted
  <2>2. ASSUME NEW w \in WorkerId, Restart(w)
        PROVE  RestartsCounted'
    BY <1>2, <2>2 DEF RestartsCounted, Restart
  <2>3. \/ restarts' = restarts
        \/ \E w \in WorkerId : Restart(w)
    BY ZenonT(30), <1>2 DEF ProtocolNext, all, network, Heartbeat, SweepAt, Grant,
       DeliverAssignment, DeliverRevocation, SendResult, Complete, DeliverResult,
       SendList, DeliverList
  <2> QED BY Zenon, <2>1, <2>2, <2>3
<1> QED BY <1>1, <1>2, PTL DEF ProtocolSpec

(* A finished result that the master waits for is not lost by messages:    *)
(* only a restart, or a list that does not name its lease, costs it.       *)
THEOREM FinishedWorkStays == ProtocolSpec => FinishedWorkKept
<1> DEFINE Kept1(j) == leases[j].state = "ACTIVE" /\ Ready(j) =>
                         \/ Ready(j)'
                         \/ restarts' # restarts
                         \/ /\ list.to = leases[j].assigned_worker_id
                            /\ leases[j].lease_id \notin list.leases
<1>1. ASSUME PInv, RestartsCounted, [ProtocolNext]_all
      PROVE  [\A j \in DOMAIN leases : Kept1(j)]_all
  <2> SUFFICES ASSUME ProtocolNext, NEW j \in DOMAIN leases,
                      leases[j].state = "ACTIVE", Ready(j),
                      restarts' = restarts,
                      ~ /\ list.to = leases[j].assigned_worker_id
                        /\ leases[j].lease_id \notin list.leases
               PROVE  Ready(j)'
    BY Zenon, <1>1
  <2>1. PICK l, w : l = leases[j].lease_id /\ w = leases[j].assigned_worker_id
    BY Zenon
  <2>2. w \in WorkerId /\ l \in LeaseId
        /\ ctx[w] \in vom_worker_recovery_context(LeaseId)
    <3>1. leases[j] \in rec_lease_record_t
      BY <1>1 DEF PInv, Inv, TypeOK
    <3> QED BY ZenonT(60), <1>1, <2>1, <3>1 DEF rec_lease_record_t, PInv, ProtocolTypes
  <2>3. claim_result(ctx[w], l)
    BY Zenon, <2>1 DEF Ready
  <2>4. leases'[j].lease_id = l /\ leases'[j].assigned_worker_id = w
    <3>0. Inv /\ TypeOK
      BY Zenon, <1>1 DEF PInv, Inv
    <3>1. ASSUME NEW now \in 0..MaxTime, SweepAt(now)
          PROVE  leases'[j].lease_id = l /\ leases'[j].assigned_worker_id = w
      <4>1. sweep_timeouts(now)
        BY Zenon, <3>1 DEF SweepAt
      <4>2. /\ leases'[j].lease_id = leases[j].lease_id
            /\ leases'[j].assigned_worker_id = leases[j].assigned_worker_id
        BY Zenon, <3>0, <4>1, SweepFacts
      <4> QED BY ZenonT(60), <2>1, <4>2
    <3>2. ASSUME NEW m \in LeaseId, NEW c, NEW v, NEW t, NEW p, Grant(m, c, v, t, p)
          PROVE  leases'[j].lease_id = l /\ leases'[j].assigned_worker_id = w
      <4>1. PICK n : Granted(m, c, v, n)
        BY Zenon, <1>1, <3>2, GrantFacts
      <4> QED BY Zenon, <2>1, <4>1 DEF Granted
    <3>3. ASSUME NEW m \in LeaseId, DeliverResult(m)
          PROVE  leases'[j].lease_id = l /\ leases'[j].assigned_worker_id = w
      <4>1. PICK x : x = First(LeaseSlots(m))
        BY Zenon
      <4>2. process_incoming_result(m, leases[x].assigned_worker_id)
        BY Zenon, <3>3, <4>1 DEF DeliverResult
      <4>3. Taken(m, leases[x].assigned_worker_id, x)
        BY Zenon, <3>0, <4>1, <4>2, ResultFacts
      <4> QED BY Zenon, <2>1, <4>3 DEF Taken
    <3>4. CASE leases' = leases
      BY Zenon, <2>1, <3>4
    <3>5. \/ leases' = leases
          \/ \E now \in 0..MaxTime : SweepAt(now)
          \/ \E m \in LeaseId, c \in Chunk, v \in WorkerId, t \in Terms, p \in {"NONE", "RETRY"} :
               Grant(m, c, v, t, p)
          \/ \E m \in LeaseId : DeliverResult(m)
      BY Zenon DEF ProtocolNext, vars, Heartbeat, register_worker_heartbeat,
         DeliverAssignment, DeliverRevocation, SendResult, Complete, SendList,
         Restart, DeliverList
    <3> QED BY Zenon, <3>1, <3>2, <3>3, <3>4, <3>5
  <2>5. SUFFICES claim_result(ctx'[w], l)
    BY Zenon, <2>4 DEF Ready
  <2>6. CASE ctx'[w] = ctx[w]
    BY Zenon, <2>3, <2>6
  <2>7. ASSUME NEW k \in DOMAIN leases, DeliverAssignment(k), ctx'[w] # ctx[w]
        PROVE  claim_result(ctx'[w], l)
    <3>1. PICK m, v : m = leases[k].lease_id /\ v = leases[k].assigned_worker_id
      BY Zenon
    <3>2. Accepts(ctx[v]) /\ ctx' = [ctx EXCEPT ![v] = accept_new_chunk(ctx[v], m, FALSE)]
      BY Zenon, <2>7, <3>1 DEF DeliverAssignment
    <3>3. v = w /\ ctx'[w] = accept_new_chunk(ctx[w], m, FALSE)
      BY ZenonT(60), <1>1, <2>2, <2>7, <3>2 DEF PInv, ProtocolTypes
    <3>4. m \in LeaseId
      <4>1. leases[k] \in rec_lease_record_t
        BY <1>1 DEF PInv, Inv, TypeOK
      <4> QED BY Zenon, <3>1, <4>1 DEF rec_lease_record_t
    <3>5. claim_result(accept_new_chunk(ctx[w], m, FALSE), l)
      BY ZenonT(60), <2>2, <2>3, <3>2, <3>3, <3>4, ReadyAccepted
    <3> QED BY ZenonT(30), <3>3, <3>5
  <2>8. ASSUME NEW k \in DOMAIN leases, DeliverRevocation(k), ctx'[w] # ctx[w]
        PROVE  claim_result(ctx'[w], l)
    <3>1. PICK m, v : m = leases[k].lease_id /\ v = leases[k].assigned_worker_id
      BY Zenon
    <3>2. leases[k].state # "ACTIVE" /\ ctx' = [ctx EXCEPT ![v] = handle_revocation(ctx[v], m)]
      BY Zenon, <2>8, <3>1 DEF DeliverRevocation
    <3>3. v = w /\ ctx'[w] = handle_revocation(ctx[w], m)
      BY Zenon, <1>1, <2>2, <2>8, <3>2 DEF PInv, ProtocolTypes
    <3>4. m # l
      BY Zenon, <1>1, <2>1, <3>1, <3>2 DEF PInv, TableInOrder
    <3>5. claim_result(handle_revocation(ctx[w], m), l)
      BY ZenonT(60), <2>2, <2>3, <3>4, ReadyRevoked
    <3> QED BY Zenon, <3>3, <3>5
  <2>9. ASSUME NEW v \in WorkerId, NEW m \in LeaseId, NEW s \in Checksum,
               Complete(v, m, s), ctx'[w] # ctx[w]
        PROVE  claim_result(ctx'[w], l)
    <3>1. /\ RunningSlots(ctx[v], m) # {}
          /\ ctx' = [ctx EXCEPT ![v] = complete_chunk(ctx[v], m, s)]
      BY Zenon, <2>9 DEF Complete
    <3>2. v = w /\ ctx'[w] = complete_chunk(ctx[w], m, s)
      BY Zenon, <1>1, <2>2, <2>9, <3>1 DEF PInv, ProtocolTypes
    <3>3. claim_result(complete_chunk(ctx[w], m, s), l)
      BY ZenonT(60), <2>2, <2>3, <3>1, <3>2, ReadyCompleted
    <3> QED BY Zenon, <3>2, <3>3
  <2>10. ASSUME DeliverList, ctx'[w] # ctx[w]
         PROVE  claim_result(ctx'[w], l)
    <3>1. ctx' = [ctx EXCEPT ![list.to] = reconnect_reconcile(ctx[list.to], list.leases)]
      BY Zenon, <2>10 DEF DeliverList
    <3>2. list.to = w /\ ctx'[w] = reconnect_reconcile(ctx[w], list.leases)
      BY Zenon, <1>1, <2>2, <2>10, <3>1 DEF PInv, ProtocolTypes
    <3>3. l \in list.leases
      BY Zenon, <2>1, <3>2
    <3>4. claim_result(reconnect_reconcile(ctx[w], list.leases), l)
      BY ZenonT(60), <2>2, <2>3, <3>3, ReadyReconciled
    <3> QED BY Zenon, <3>2, <3>4
  <2>11. ASSUME NEW v \in WorkerId, Restart(v)
         PROVE  FALSE
    BY <1>1, <2>11 DEF Restart, RestartsCounted
  <2>12. \/ ctx' = ctx
         \/ \E k \in DOMAIN leases : DeliverAssignment(k) \/ DeliverRevocation(k)
         \/ \E v \in WorkerId, m \in LeaseId, s \in Checksum : Complete(v, m, s)
         \/ DeliverList
         \/ \E v \in WorkerId : Restart(v)
    BY Zenon DEF ProtocolNext, Heartbeat, SweepAt, Grant, SendResult, DeliverResult, SendList
  <2> QED BY ZenonT(60), <2>6, <2>7, <2>8, <2>9, <2>10, <2>11, <2>12
<1> QED BY <1>1, ProtocolInvariance, RestartsInvariance, PTL DEF ProtocolSpec, FinishedWorkKept
=============================================================================
