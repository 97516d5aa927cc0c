---------------------------- MODULE WorkerRecovery ----------------------------
(***************************************************************************)
(* The worker's side of leases (worker/src/recovery.c) under any sequence  *)
(* of calls: chunks accepted, completed, revoked, and the reconciliation   *)
(* with the master's list after a reconnect.  The code has no lock; its    *)
(* calls are made by one thread and each is one step.  The same assignment *)
(* may be delivered twice.                                                 *)
(***************************************************************************)
EXTENDS WorkerLeases

CONSTANT AssignedId

VARIABLES
  rec,                      \* the context
  revoked,                  \* history: leases revoked, by a call or as strays
  finished,                 \* history: completed, neither revoked nor disowned
  listed                    \* history: what the master's last list named, and
                            \* what it assigned since

workerVars == <<rec, revoked, finished, listed>>

WorkerInit == /\ rec = recovery_init
              /\ revoked = {} /\ finished = {} /\ listed = {}

SetDrain(on) == /\ rec' = set_drain(rec, on)
                /\ UNCHANGED <<revoked, finished, listed>>

AcceptNewChunk(id, discard) ==
  /\ Accepts(rec)
  /\ rec' = accept_new_chunk(rec, id, discard)
  /\ listed' = listed \cup {id}
  /\ UNCHANGED <<revoked, finished>>

HandleRevocation(id) ==
  /\ SlotsOf(rec, id) # {}
  /\ rec' = handle_revocation(rec, id)
  /\ revoked' = revoked \cup {id} /\ finished' = finished \ {id}
  /\ UNCHANGED listed

OnDisconnect == /\ rec' = on_disconnect(rec)
                /\ UNCHANGED <<revoked, finished, listed>>

ReconnectReconcile(auth) ==
  /\ rec' = reconnect_reconcile(rec, auth)
  /\ revoked' = revoked \cup
       {id \in AssignedId \ auth : SlotsOf(rec', id) # {}}
  /\ finished' = finished \cap auth
  /\ listed' = auth

CompleteChunk(id, checksum) ==
  /\ RunningSlots(rec, id) # {}
  /\ rec' = complete_chunk(rec, id, checksum)
  /\ finished' = IF id \in revoked THEN finished ELSE finished \cup {id}
  /\ UNCHANGED <<revoked, listed>>

WorkerNext == \/ \E on \in BOOLEAN : SetDrain(on)
              \/ \E id \in AssignedId :
                   \/ \E discard \in BOOLEAN : AcceptNewChunk(id, discard)
                   \/ HandleRevocation(id)
                   \/ \E s \in Checksum : CompleteChunk(id, s)
              \/ OnDisconnect
              \/ \E auth \in SUBSET AssignedId : ReconnectReconcile(auth)

WorkerSpec == WorkerInit /\ [][WorkerNext]_workerVars
-----------------------------------------------------------------------------
(* Type invariant; partial output is preserved exactly for revoked leases  *)
(* whose policy is not to discard it.                                      *)
WorkerTypeOK == /\ rec \in vom_worker_recovery_context(AssignedId)
                /\ Len(rec.active_leases) <= WORKER_MAX_ACTIVE_LEASES
                /\ revoked \subseteq AssignedId
                /\ finished \subseteq AssignedId
                /\ listed \subseteq AssignedId
                /\ \A i \in DOMAIN rec.active_leases :
                     rec.active_leases[i].partial_output_preserved <=>
                       /\ rec.active_leases[i].state = "REVOKED"
                       /\ ~rec.active_leases[i].policy_discard_on_cancel

(* Safety: once a lease was revoked, by the master's call or because its   *)
(* list no longer names it, none of its results is handed out, even if the *)
(* assignment had been delivered twice and the second copy runs to its     *)
(* end; what the master neither listed nor assigned since is REVOKED.      *)
RevokedNeverClaimed ==
  /\ WorkerTypeOK
  /\ \A id \in revoked : ~claim_result(rec, id)
  /\ \A i \in DOMAIN rec.active_leases :
       \/ rec.active_leases[i].lease_id \in listed
       \/ rec.active_leases[i].state = "REVOKED"

(* Safety: a finished result the master has neither revoked nor dropped    *)
(* from its list can be claimed, through disconnects and reconciliations,  *)
(* with the checksum that was reported.                                    *)
FinishedKept ==
  \A id \in finished :
    /\ claim_result(rec, id)
    /\ rec.active_leases[First(SlotsOf(rec, id))].output_checksum # NoChecksum
=============================================================================
