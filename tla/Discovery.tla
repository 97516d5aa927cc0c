------------------------------ MODULE Discovery ------------------------------
(* How a worker finds its master (worker/src/discovery.c).  Endpoints are  *)
(* names; the empty one is what calloc leaves.                             *)
CONSTANTS Endpoint, Discovered, Nothing     \* configured ones, mDNS's, ""

VARIABLES
  cached_endpoint, fallback_endpoint, status, change_cb, m_dns_enabled,
  told              \* history: what the listener was told last, in this run
vars == <<cached_endpoint, fallback_endpoint, status, change_cb, m_dns_enabled, told>>

Init == /\ cached_endpoint = Nothing /\ fallback_endpoint = Nothing
        /\ status = "IDLE" /\ change_cb = FALSE /\ m_dns_enabled = FALSE
        /\ told = Nothing

(* The back-off that is stored beside the endpoint is read nowhere. *)
configure(endpoint) ==
  /\ fallback_endpoint' = endpoint
  /\ UNCHANGED <<cached_endpoint, status, change_cb, m_dns_enabled, told>>

enable_mdns(enable) ==
  /\ m_dns_enabled' = enable
  /\ UNCHANGED <<cached_endpoint, fallback_endpoint, status, change_cb, told>>

start(cb) ==
  /\ change_cb' = cb
  /\ cached_endpoint' = IF m_dns_enabled THEN Discovered ELSE fallback_endpoint
  /\ status' = IF m_dns_enabled THEN "FOUND" ELSE "FALLBACK"
  /\ told' = IF cb THEN cached_endpoint' ELSE Nothing
  /\ UNCHANGED <<fallback_endpoint, m_dns_enabled>>

stop == /\ status' = "IDLE" /\ change_cb' = FALSE /\ told' = Nothing
        /\ UNCHANGED <<cached_endpoint, fallback_endpoint, m_dns_enabled>>

(* What the call answers with; Nothing stands for -1 as well. *)
current == IF status \in {"FOUND", "FALLBACK"} THEN cached_endpoint ELSE Nothing

Next == \/ \E e \in Endpoint : configure(e)
        \/ \E b \in BOOLEAN : enable_mdns(b) \/ start(b)
        \/ stop

(* Safety, vom_worker_discovery_start and _current: whoever asks gets the  *)
(* endpoint that the listener was told last, whatever was configured or    *)
(* switched in between, and after a stop nobody gets one.                  *)
OneEndpointForAll == /\ change_cb => current = told
                     /\ status = "IDLE" => current = Nothing /\ ~change_cb
                     /\ status = "FOUND" => current = Discovered
=============================================================================
