--------------------------- MODULE ResourceMonitor ---------------------------
(***************************************************************************)
(* The worker's resource monitor (worker/src/resource_monitor.c): samples  *)
(* in a ring under a lock.  Callers read the clock before they take the    *)
(* lock, so that a call may come in with an older time than an earlier one.*)
(***************************************************************************)
EXTENDS Tables, FiniteSets

CONSTANTS
  Caller,
  MAX_SAMPLES, PROBE_COOLDOWN, STALE_THRESHOLD,
  Cores, FreeRam,        \* what a heavy probe finds
  Reservations,          \* [cpu, memory] records that may be reserved
  WORD,                  \* 2^64: times are subtracted modulo WORD
  Start, MaxTime         \* the clock starts after the first cooldown; bound

VARIABLES
  clock,
  now,                   \* the time a caller has read for its next call
  history, head_idx, sample_count,
  reserved, last_heavy_probe,
  newest,                \* history: the sample recorded last
  answer                 \* the caller's last answer

vars == <<clock, now, history, head_idx, sample_count, reserved,
          last_heavy_probe, newest, answer>>

Idle == -1
Elapsed(later, earlier) == (later - earlier) % WORD

(* A sample; measured and against (history) are the time of the heavy probe *)
(* its figures come from and the reservation it was taken with.             *)
Sample(time, status, cpu, ram, measured, against) ==
  [timestamp |-> time, status |-> status, cpu |-> cpu, free_ram |-> ram,
   measured |-> measured, against |-> against]
NoSample == Sample(0, "FRESH", 0, 0, 0, [cpu |-> 0, memory |-> 0])
NoAnswer == [status |-> "UNAVAILABLE", sample |-> NoSample, at |-> 0]

Init == /\ clock = Start /\ now = [c \in Caller |-> Idle]
        /\ history = [i \in 0..(MAX_SAMPLES - 1) |-> NoSample]
        /\ head_idx = 0 /\ sample_count = 0
        /\ reserved = [cpu |-> 0, memory |-> 0]
        /\ last_heavy_probe = 0
        /\ newest = NoSample
        /\ answer = NoAnswer

(* Mutant: no wrap at the start of the ring. *)
latest_idx_NoWrap == IF head_idx > 0 THEN head_idx - 1 ELSE 0

latest_idx == IF head_idx > 0 THEN head_idx - 1 ELSE MAX_SAMPLES - 1

(* Within the cooldown the figures of the latest sample are taken over; the *)
(* reservation is deducted from either.                                     *)
execute_hardware_metrics_probe(t) ==
  LET heavy == Elapsed(t, last_heavy_probe) >= PROBE_COOLDOWN
      last == history[latest_idx]
      ram == IF heavy THEN FreeRam ELSE last.free_ram
  IN  IF ~heavy /\ sample_count = 0
        THEN Sample(0, "UNAVAILABLE", 0, 0, 0, reserved)
        ELSE Sample(t, "FRESH", Saturating(Cores, reserved.cpu),
                    Saturating(ram, reserved.memory),
                    IF heavy THEN t ELSE last.measured, reserved)

Done(c) == now' = [now EXCEPT ![c] = Idle]

record_sample(c) ==
  LET sample == execute_hardware_metrics_probe(now[c])
  IN  /\ now[c] # Idle
      /\ history' = [history EXCEPT ![head_idx] = sample]
      /\ head_idx' = (head_idx + 1) % MAX_SAMPLES
      /\ sample_count' = IF sample_count < MAX_SAMPLES THEN sample_count + 1
                         ELSE sample_count
      /\ last_heavy_probe' =
           IF Elapsed(now[c], last_heavy_probe) >= PROBE_COOLDOWN
             THEN now[c] ELSE last_heavy_probe
      /\ newest' = sample
      /\ Done(c)
      /\ UNCHANGED <<clock, reserved, answer>>

update_reservations(r) ==
  /\ reserved' = r
  /\ UNCHANGED <<clock, now, history, head_idx, sample_count, last_heavy_probe,
                 newest, answer>>

get_latest_availability(c) ==
  /\ now[c] # Idle
  /\ answer' =
       IF sample_count = 0 THEN NoAnswer
       ELSE LET s == history[latest_idx]
            IN  [status |-> IF Elapsed(now[c], s.timestamp) > STALE_THRESHOLD
                              THEN "STALE" ELSE s.status,
                 sample |-> s, at |-> now[c]]
  /\ Done(c)
  /\ UNCHANGED <<clock, history, head_idx, sample_count, reserved,
                 last_heavy_probe, newest>>

ReadClock(c) == /\ now[c] = Idle /\ now' = [now EXCEPT ![c] = clock]
                /\ UNCHANGED <<clock, history, head_idx, sample_count, reserved,
                               last_heavy_probe, newest, answer>>
Advance == /\ clock < MaxTime /\ clock' = clock + 1
           /\ UNCHANGED <<now, history, head_idx, sample_count, reserved,
                          last_heavy_probe, newest, answer>>

Next == \/ \E c \in Caller : ReadClock(c) \/ record_sample(c)
                             \/ get_latest_availability(c)
        \/ \E r \in Reservations : update_reservations(r)
        \/ Advance

Spec == Init /\ [][Next]_vars
-----------------------------------------------------------------------------
(* Type invariant. *)
TypeOK == /\ now \in [Caller -> (0..MaxTime) \cup {Idle}]
          /\ DOMAIN history = 0..(MAX_SAMPLES - 1)
          /\ head_idx \in 0..(MAX_SAMPLES - 1)
          /\ sample_count \in 0..MAX_SAMPLES
          /\ \A i \in DOMAIN history : /\ history[i].cpu \in 0..Cores
                                       /\ history[i].free_ram \in 0..FreeRam
          /\ answer.status \in {"FRESH", "STALE", "UNAVAILABLE"}

(* Safety: around the end of the ring too, the slot before head_idx holds  *)
(* the sample recorded last, which is the one an answer is made of.  One   *)
(* that says FRESH rests on a measurement no older than the threshold and  *)
(* one cooldown, although samples within the cooldown are copies of        *)
(* copies.  No sample offers more than is left once the reservation it was *)
(* taken with is deducted from what the host has.                          *)
AnswersSound ==
  /\ TypeOK
  /\ sample_count > 0 => history[latest_idx] = newest
  /\ answer.status = "FRESH" =>
       /\ answer.at - answer.sample.timestamp \in 0..STALE_THRESHOLD
       /\ answer.at - answer.sample.measured <= STALE_THRESHOLD + PROBE_COOLDOWN
  /\ \A i \in 0..(sample_count - 1) :
       /\ history[i].cpu <= Saturating(Cores, history[i].against.cpu)
       /\ history[i].free_ram <= Saturating(FreeRam, history[i].against.memory)
=============================================================================
