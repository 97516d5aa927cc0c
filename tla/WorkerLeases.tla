----------------------------- MODULE WorkerLeases -----------------------------
(***************************************************************************)
(* The calls of the worker's lease bookkeeping (worker/src/recovery.c) as  *)
(* functions of the context they are given: what each makes of it.  A call *)
(* that returns early makes the same context of it.                        *)
(***************************************************************************)
EXTENDS Tables

CONSTANTS Checksum, WORKER_MAX_ACTIVE_LEASES

NoChecksum == ""
ASSUME LeaseSlotsExist == WORKER_MAX_ACTIVE_LEASES \in Nat
ASSUME ChecksumsTell == NoChecksum \notin Checksum

WorkerChunkState == {"RUNNING", "REVOKED", "COMPLETED", "RECONCILED"}
worker_active_lease_t(LeaseId) ==
  [lease_id : LeaseId, state : WorkerChunkState,
   output_checksum : Checksum \cup {NoChecksum},
   partial_output_preserved : BOOLEAN, policy_discard_on_cancel : BOOLEAN]
vom_worker_recovery_context(LeaseId) ==
  [active_leases : Seq(worker_active_lease_t(LeaseId)),
   is_draining : BOOLEAN, is_connected_to_master : BOOLEAN]

SlotsOf(ctx, id) == {i \in DOMAIN ctx.active_leases :
                     ctx.active_leases[i].lease_id = id}
RunningSlots(ctx, id) == {i \in SlotsOf(ctx, id) :
                            ctx.active_leases[i].state = "RUNNING"}

recovery_init == [active_leases |-> <<>>, is_draining |-> FALSE,
                  is_connected_to_master |-> TRUE]

set_drain(ctx, on) == [ctx EXCEPT !.is_draining = on]

Accepts(ctx) == /\ ~ctx.is_draining
                /\ Len(ctx.active_leases) < WORKER_MAX_ACTIVE_LEASES
NewLease(id, discard) ==
  [lease_id |-> id, state |-> "RUNNING", output_checksum |-> NoChecksum,
   partial_output_preserved |-> FALSE, policy_discard_on_cancel |-> discard]
accept_new_chunk(ctx, id, discard) ==
  IF Accepts(ctx)
    THEN [ctx EXCEPT !.active_leases = Append(@, NewLease(id, discard))]
    ELSE ctx

Revoke(l) == [l EXCEPT !.state = "REVOKED",
                       !.partial_output_preserved = ~l.policy_discard_on_cancel]

(* The first lease with the id, in whatever state it is. *)
handle_revocation(ctx, id) ==
  IF SlotsOf(ctx, id) # {}
    THEN [ctx EXCEPT !.active_leases[First(SlotsOf(ctx, id))] = Revoke(@)]
    ELSE ctx

on_disconnect(ctx) == [ctx EXCEPT !.is_connected_to_master = FALSE]

(* What the loop makes of one lease, and which leases it removes. *)
Reconcile(l, auth) ==
  IF l.lease_id \in auth
    THEN IF l.state = "COMPLETED" THEN [l EXCEPT !.state = "RECONCILED"] ELSE l
    ELSE IF l.state = "RUNNING" THEN Revoke(l) ELSE l

(* Mutant: finished leases are removed, listed or not. *)
Kept_Unfinished(l, auth) == l.state \in {"RUNNING", "REVOKED"}

Kept(l, auth) == l.lease_id \in auth \/ l.state \in {"RUNNING", "REVOKED"}

reconnect_reconcile(ctx, auth) ==
  LET kept == Compact(ctx.active_leases,
                      {i \in DOMAIN ctx.active_leases : Kept(ctx.active_leases[i], auth)})
  IN  [ctx EXCEPT !.is_connected_to_master = TRUE,
                  !.active_leases = [i \in DOMAIN kept |-> Reconcile(kept[i], auth)]]

(* The first RUNNING lease with the id. *)
complete_chunk(ctx, id, checksum) ==
  IF RunningSlots(ctx, id) # {}
    THEN [ctx EXCEPT
            !.active_leases[First(RunningSlots(ctx, id))].state = "COMPLETED",
            !.active_leases[First(RunningSlots(ctx, id))].output_checksum = checksum]
    ELSE ctx

(* Mutant: the search goes on past a lease in another state. *)
claim_result_AnySlot(ctx, id) ==
  \E i \in SlotsOf(ctx, id) :
    ctx.active_leases[i].state \in {"RECONCILED", "COMPLETED"}

(* claim_result changes nothing: when it succeeds. *)
claim_result(ctx, id) ==
  /\ SlotsOf(ctx, id) # {}
  /\ ctx.active_leases[First(SlotsOf(ctx, id))].state \in {"RECONCILED", "COMPLETED"}
=============================================================================
