----------------------------- MODULE PartsProofs -----------------------------
(***************************************************************************)
(* Proofs about SnapshotRing, for any ring size, any finite set of readers *)
(* and any values, and about Processes, the programs that run on their     *)
(* own: for any workers and any bounds.                                    *)
(***************************************************************************)
EXTENDS SnapshotRing, Processes, TablesProofs

-----------------------------------------------------------------------------
(* SnapshotRing: the search visits every slot. *)
LEMMA ModRing ==
  ASSUME NEW a \in Slots
  PROVE  a % RING = a /\ (a + RING) % RING = a
BY RingSize DEF Slots

LEMMA ProbeType ==
  ASSUME NEW a \in Nat
  PROVE  a % RING \in Slots
BY RingSize DEF Slots

LEMMA ProbeReaches ==
  ASSUME RingTypeOK, NEW s \in Slots
  PROVE  \E k \in Slots : Probe(k) = s
<1>1. tail \in Slots /\ RING \in Nat \ {0}
  BY Zenon, RingSize DEF RingTypeOK
<1>2. CASE s >= tail
  <2>1. s - tail \in Slots /\ tail + (s - tail) = s
    BY <1>1, <1>2 DEF Slots
  <2>2. Probe(s - tail) = s
    BY Zenon, <2>1, ModRing DEF Probe
  <2> QED BY Zenon, <2>1, <2>2
<1>3. CASE s < tail
  <2>1. (s - tail) + RING \in Slots /\ tail + ((s - tail) + RING) = s + RING
    BY <1>1, <1>3 DEF Slots
  <2>2. Probe((s - tail) + RING) = s
    BY Zenon, <2>1, ModRing DEF Probe
  <2> QED BY Zenon, <2>1, <2>2
<1> QED BY <1>1, <1>2, <1>3 DEF Slots

(* A slot that is free is taken before one that is not. *)
LEMMA TargetFacts ==
  ASSUME RingTypeOK
  PROVE  /\ TargetSlot \in Slots
         /\ (\E s \in Slots : refs[s] = 0) => refs[TargetSlot] = 0
<1>1. tail \in Slots /\ \A k \in Slots : Probe(k) \in Slots
  <2>1. \A k \in Slots : tail + k \in Nat
    BY RingSize DEF RingTypeOK, Slots
  <2> QED BY Zenon, <2>1, ProbeType DEF Probe, RingTypeOK
<1>2. CASE Free = {}
  <2>1. \A s \in Slots : refs[s] # 0
    BY Zenon, <1>2, ProbeReaches DEF Free
  <2> QED BY Zenon, <1>1, <1>2, <2>1 DEF TargetSlot
<1>3. CASE Free # {}
  <2>1. First(Free) \in Free
    <3>1. Free \in SUBSET Nat
      BY RingSize DEF Free, Slots
    <3> QED BY Zenon, <1>3, <3>1, FirstIn
  <2>2. TargetSlot = Probe(First(Free))
    BY Zenon, <1>3 DEF TargetSlot
  <2> QED BY Zenon, <1>1, <2>1, <2>2 DEF Free
<1> QED BY Zenon, <1>2, <1>3

-----------------------------------------------------------------------------
(* The inductive invariant. *)
RingInv == RingTypeOK /\ RefCountsExact /\ HandlesFilled

LEMMA HoldersFinite ==
  ASSUME NEW s
  PROVE  IsFiniteSet(Holders(s)) /\ Cardinality(Holders(s)) \in Nat
<1>1. Holders(s) \in SUBSET Reader
  BY Zenon DEF Holders
<1> QED BY Zenon, <1>1, ReadersFinite, FS_Subset, FS_CardinalityType

LEMMA RingInvInit == SnapshotInit => RingInv
<1> SUFFICES ASSUME SnapshotInit PROVE RingInv
  BY Zenon
<1>1. RingTypeOK
  BY RingSize DEF SnapshotInit, RingInit, RingTypeOK, Slots
<1>2. RefCountsExact
  <2> SUFFICES ASSUME NEW s \in Slots PROVE refs[s] = Cardinality(Holders(s))
    BY Zenon DEF RefCountsExact
  <2>1. s # NoHandle
    BY DEF Slots, NoHandle
  <2>2. Holders(s) = {}
    BY Zenon, <2>1 DEF SnapshotInit, RingInit, Holders
  <2> QED BY Zenon, <2>2, FS_EmptySet DEF SnapshotInit, RingInit
<1>3. HandlesFilled
  BY Zenon DEF SnapshotInit, RingInit, HandlesFilled
<1> QED BY Zenon, <1>1, <1>2, <1>3 DEF RingInv

(* What acquire does, by the slot t it takes. *)
LEMMA AcquireInv ==
  ASSUME RingInv, NEW r \in Reader, acquire(r)
  PROVE  RingInv'
<1> DEFINE t == TargetSlot
<1>1. t \in Slots
  BY Zenon, TargetFacts DEF RingInv
<1>2. /\ handle[r] = NoHandle
      /\ pool' = [pool EXCEPT ![t] = value]
      /\ refs' = [refs EXCEPT ![t] = @ + 1]
      /\ tail' = (t + 1) % RING
      /\ handle' = [handle EXCEPT ![r] = t]
      /\ value' = value
  BY Zenon DEF acquire
<1> HIDE DEF t
<1>3. /\ value \in Value /\ pool \in [Slots -> Value \cup {Blank}]
      /\ refs \in [Slots -> Nat] /\ handle \in [Reader -> Slots \cup {NoHandle}]
  BY Zenon DEF RingInv, RingTypeOK
<1>4. t # NoHandle
  BY <1>1 DEF Slots, NoHandle
<1>5. RingTypeOK'
  <2>1. tail' \in Slots
    <3>1. t + 1 \in Nat
      BY <1>1, RingSize DEF Slots
    <3> QED BY Zenon, <1>2, <3>1, ProbeType
  <2>2. refs' \in [Slots -> Nat]
    BY <1>1, <1>2, <1>3
  <2> QED BY Zenon, <1>1, <1>2, <1>3, <2>1, <2>2 DEF RingTypeOK
<1>6. RefCountsExact'
  <2> SUFFICES ASSUME NEW s \in Slots PROVE refs'[s] = Cardinality(Holders(s)')
    BY Zenon DEF RefCountsExact
  <2>1. CASE s = t
    <3>1. Holders(s)' = Holders(s) \cup {r} /\ r \notin Holders(s)
      BY Zenon, <1>2, <1>3, <1>4, <2>1 DEF Holders
    <3>2. Cardinality(Holders(s)') = Cardinality(Holders(s)) + 1
      BY Zenon, <3>1, HoldersFinite, FS_AddElement
    <3>3. refs'[s] = refs[s] + 1 /\ refs[s] = Cardinality(Holders(s))
      BY Zenon, <1>2, <1>3, <2>1 DEF RingInv, RefCountsExact
    <3> QED BY Zenon, <3>2, <3>3
  <2>2. CASE s # t
    <3>1. Holders(s)' = Holders(s)
      <4>1. s # NoHandle
        BY DEF Slots, NoHandle
      <4> QED BY Zenon, <1>2, <1>3, <2>2, <4>1 DEF Holders
    <3>2. refs'[s] = refs[s]
      BY Zenon, <1>2, <1>3, <2>2
    <3> QED BY Zenon, <3>1, <3>2 DEF RingInv, RefCountsExact
  <2> QED BY Zenon, <2>1, <2>2
<1>7. HandlesFilled'
  <2>1. ASSUME NEW q \in Reader, handle'[q] # NoHandle
        PROVE  pool'[handle'[q]] # Blank
    <3>1. CASE handle'[q] = t
      BY Zenon, <1>1, <1>2, <1>3, <3>1, BlankValue
    <3>2. CASE handle'[q] # t
      <4>1. handle'[q] = handle[q] /\ handle[q] \in Slots
        BY Zenon, <1>2, <1>3, <2>1, <3>2
      <4>2. pool'[handle[q]] = pool[handle[q]]
        BY Zenon, <1>2, <1>3, <3>2, <4>1
      <4> QED BY Zenon, <2>1, <4>1, <4>2 DEF RingInv, HandlesFilled
    <3> QED BY Zenon, <3>1, <3>2
  <2> QED BY Zenon, <2>1 DEF HandlesFilled
<1> QED BY Zenon, <1>5, <1>6, <1>7 DEF RingInv

LEMMA ReleaseInv ==
  ASSUME RingInv, NEW r \in Reader, release(r)
  PROVE  RingInv'
<1> DEFINE h == handle[r]
<1>1. /\ value \in Value /\ pool \in [Slots -> Value \cup {Blank}]
      /\ refs \in [Slots -> Nat] /\ handle \in [Reader -> Slots \cup {NoHandle}]
  BY Zenon DEF RingInv, RingTypeOK
<1>2. h \in Slots /\ h # NoHandle
  BY Zenon, <1>1 DEF release
<1>3. r \in Holders(h)
  BY Zenon DEF Holders
<1>4. /\ refs[h] = Cardinality(Holders(h))
      /\ Cardinality(Holders(h) \ {r}) = Cardinality(Holders(h)) - 1
      /\ Cardinality(Holders(h) \ {r}) \in Nat /\ Cardinality(Holders(h)) \in Nat
  BY Zenon, <1>2, <1>3, HoldersFinite, FS_RemoveElement, FS_CardinalityType
     DEF RingInv, RefCountsExact
<1>5. refs[h] > 0
  BY <1>4
<1>6. /\ refs' = [refs EXCEPT ![h] = refs[h] - 1]
      /\ handle' = [handle EXCEPT ![r] = NoHandle]
      /\ UNCHANGED <<value, pool, tail>>
  BY Zenon, <1>5 DEF release
<1> HIDE DEF h
<1>7. RingTypeOK'
  BY Zenon, <1>1, <1>2, <1>4, <1>6 DEF RingInv, RingTypeOK
<1>8. RefCountsExact'
  <2> SUFFICES ASSUME NEW s \in Slots PROVE refs'[s] = Cardinality(Holders(s)')
    BY Zenon DEF RefCountsExact
  <2>0. s # NoHandle
    BY DEF Slots, NoHandle
  <2>1. CASE s = h
    <3>1. Holders(s)' = Holders(s) \ {r}
      BY Zenon, <1>1, <1>6, <2>0 DEF Holders
    <3> QED BY SMTT(30), <1>1, <1>2, <1>4, <1>6, <2>1, <3>1
  <2>2. CASE s # h
    <3>1. Holders(s)' = Holders(s)
      BY Zenon, <1>1, <1>6, <2>0, <2>2 DEF Holders, h
    <3>2. refs'[s] = refs[s]
      BY Zenon, <1>1, <1>6, <2>2
    <3> QED BY Zenon, <3>1, <3>2 DEF RingInv, RefCountsExact
  <2> QED BY Zenon, <2>1, <2>2
<1>9. HandlesFilled'
  BY Zenon, <1>1, <1>6 DEF RingInv, HandlesFilled
<1> QED BY Zenon, <1>7, <1>8, <1>9 DEF RingInv

LEMMA RingInvNext ==
  ASSUME RingInv, [SnapshotNext]_snapshotVars
  PROVE  RingInv'
<1>1. CASE UNCHANGED snapshotVars \/ Change
  BY Zenon, <1>1 DEF snapshotVars, Change, ringVars, RingInv, RingTypeOK, RefCountsExact, HandlesFilled,
     Holders
<1>2. ASSUME NEW r \in Reader, acquire(r) \/ release(r)
      PROVE  RingInv'
  BY Zenon, <1>2, AcquireInv, ReleaseInv
<1> QED BY Zenon, <1>1, <1>2 DEF SnapshotNext

LEMMA RingInvariance == SnapshotSpec => []RingInv
BY RingInvInit, RingInvNext, PTL DEF SnapshotSpec

-----------------------------------------------------------------------------
(* Types, for any ring. *)
THEOREM RingTypeCorrect == SnapshotSpec => []RingTypeOK
BY RingInvariance, PTL DEF RingInv

(* acquire and release keep the reference counts equal to the numbers of   *)
(* readers, however many readers there are.                                *)
THEOREM CountsExact == SnapshotSpec => []RefCountsExact
BY RingInvariance, PTL DEF RingInv

(* No reader is ever given a slot that was never written. *)
THEOREM NoBlankSnapshot == SnapshotSpec => []HandlesFilled
BY RingInvariance, PTL DEF RingInv

-----------------------------------------------------------------------------
FewReaders == Cardinality(Reader) <= RING

(* With no more readers than slots, a reader that holds nothing finds a    *)
(* slot that nobody refers to: else every slot had a reader of its own     *)
(* among the others, who are fewer than the slots.                         *)
LEMMA SlotForEveryReader ==
  ASSUME RingInv, FewReaders, NEW r \in Reader, handle[r] = NoHandle
  PROVE  \E s \in Slots : refs[s] = 0
<1> SUFFICES ASSUME \A s \in Slots : refs[s] # 0 PROVE FALSE
  BY Zenon
<1> DEFINE Others == Reader \ {r}
           f == [s \in Slots |-> CHOOSE q \in Reader : handle[q] = s]
<1>1. ASSUME NEW s \in Slots
      PROVE  f[s] \in Others /\ handle[f[s]] = s
  <2>1. s # NoHandle
    BY DEF Slots, NoHandle
  <2>2. Cardinality(Holders(s)) # 0
    BY Zenon DEF RingInv, RefCountsExact
  <2>3. Holders(s) # {}
    BY Zenon, <2>2, FS_EmptySet
  <2>4. \E q \in Reader : handle[q] = s
    BY Zenon, <2>3 DEF Holders
  <2>5. f[s] \in Reader /\ handle[f[s]] = s
    BY Zenon, <2>4
  <2> QED BY Zenon, <2>1, <2>5
<1>2. f \in [Slots -> Others]
  BY Zenon, <1>1
<1>3. \A s, u \in Slots : f[s] = f[u] => s = u
  <2> HIDE DEF f
  <2> TAKE s, u \in Slots
  <2> HAVE f[s] = f[u]
  <2> QED BY Zenon, <1>1
<1> HIDE DEF f
<1>4. IsFiniteSet(Slots) /\ Cardinality(Slots) = RING
  <2>1. 0 \in Int /\ RING - 1 \in Int /\ ~(0 > RING - 1) /\ (RING - 1) - 0 + 1 = RING
    BY RingSize
  <2> QED BY Zenon, <2>1, FS_Interval DEF Slots
<1>5. /\ IsFiniteSet(Others) /\ Cardinality(Others) = Cardinality(Reader) - 1
      /\ Cardinality(Reader) \in Nat
  BY Zenon, ReadersFinite, FS_RemoveElement, FS_CardinalityType
<1>6. Cardinality(Others) < Cardinality(Slots)
  BY <1>4, <1>5, RingSize DEF FewReaders
<1> HIDE DEF Others
<1>7. \E s, u \in Slots : s # u /\ f[s] = f[u]
  BY Zenon, <1>2, <1>4, <1>5, <1>6, FS_PigeonHole
<1> QED BY Zenon, <1>3, <1>7

(* An acquire writes into no slot that another reader holds. *)
LEMMA HeldKeptByAll ==
  ASSUME RingInv, FewReaders, [SnapshotNext]_snapshotVars, NEW q \in Reader
  PROVE  HeldKept(q)
<1> SUFFICES ASSUME handle[q] # NoHandle, handle'[q] = handle[q]
             PROVE  pool'[handle[q]] = pool[handle[q]]
  BY Zenon DEF HeldKept
<1>1. CASE UNCHANGED snapshotVars \/ Change
  BY Zenon, <1>1 DEF snapshotVars, Change, ringVars
<1>2. ASSUME NEW r \in Reader, acquire(r)
      PROVE  pool'[handle[q]] = pool[handle[q]]
  <2>1. refs[TargetSlot] = 0
    BY Zenon, <1>2, SlotForEveryReader, TargetFacts DEF acquire, RingInv
  <2>2. handle[q] \in Slots
    BY Zenon DEF RingInv, RingTypeOK
  <2>3. Cardinality(Holders(handle[q])) # 0
    <3>1. Holders(handle[q]) # {}
      BY Zenon DEF Holders
    <3> QED BY Zenon, <3>1, HoldersFinite, FS_EmptySet
  <2>4. handle[q] # TargetSlot
    BY Zenon, <2>1, <2>2, <2>3 DEF RingInv, RefCountsExact
  <2> QED BY Zenon, <1>2, <2>2, <2>4 DEF acquire, RingInv, RingTypeOK
<1>3. ASSUME NEW r \in Reader, release(r)
      PROVE  pool'[handle[q]] = pool[handle[q]]
  BY Zenon, <1>3 DEF release
<1> QED BY Zenon, <1>1, <1>2, <1>3 DEF SnapshotNext

(* While there are no more readers than slots, a snapshot does not change  *)
(* in its reader's hands.                                                  *)
THEOREM SnapshotsImmutable == FewReaders => (SnapshotSpec => HeldUnchanged)
<1> SUFFICES ASSUME FewReaders PROVE SnapshotSpec => HeldUnchanged
  BY Zenon
<1>1. ASSUME RingInv, RingInv', [SnapshotNext]_snapshotVars
      PROVE  [\A r \in Reader : HeldKept(r)]_snapshotVars
  BY Zenon, <1>1, HeldKeptByAll
<1> QED BY <1>1, RingInvariance, PTL DEF SnapshotSpec, HeldUnchanged

(* The ring implements what Snapshots promises, while there are no more    *)
(* readers than slots.                                                     *)
THEOREM RingKeepsPromise == FewReaders => (SnapshotSpec => Refinement)
<1> SUFFICES ASSUME FewReaders PROVE SnapshotSpec => Refinement
  BY Zenon
<1>1. SnapshotInit => Promise!Init
  BY Zenon DEF SnapshotInit, RingInit, Promise!Init, heldValue
<1>2. ASSUME RingInv, RingInv', [SnapshotNext]_snapshotVars
      PROVE  [Promise!Next]_(Promise!vars)
  <2> USE <1>2
  <2>0. handle \in [Reader -> Slots \cup {NoHandle}]
        /\ handle' \in [Reader -> Slots \cup {NoHandle}]
        /\ NoHandle \notin Slots
    BY DEF RingInv, RingTypeOK, NoHandle, Slots
  <2>1. CASE UNCHANGED snapshotVars
    BY Zenon, <2>1 DEF snapshotVars, Promise!vars, heldValue
  <2>2. CASE Change
    <3>1. heldValue' = heldValue /\ value' \in Value
      BY Zenon, <2>2 DEF Change, ringVars, heldValue
    <3> QED BY Zenon, <3>1 DEF Promise!Next, Promise!Change
  <2>3. ASSUME NEW r \in Reader, acquire(r)
        PROVE  Promise!acquire(r)
    <3>1. /\ heldValue[r] = Blank /\ value' = value
          /\ handle' = [handle EXCEPT ![r] = TargetSlot]
          /\ pool' = [pool EXCEPT ![TargetSlot] = value]
      BY Zenon, <2>3 DEF acquire, heldValue
    <3>2. TargetSlot \in Slots /\ TargetSlot # NoHandle
      BY Zenon, <2>0, TargetFacts DEF RingInv
    <3>3. handle'[r] = TargetSlot /\ pool'[TargetSlot] = value
      BY Zenon, <2>0, <3>1, <3>2 DEF RingInv, RingTypeOK
    <3>4. \A q \in Reader : q # r => heldValue'[q] = heldValue[q]
      <4> TAKE q \in Reader
      <4> HAVE q # r
      <4>1. handle'[q] = handle[q]
        BY Zenon, <2>0, <3>1
      <4>2. handle[q] # NoHandle => pool'[handle[q]] = pool[handle[q]]
        BY Zenon, <4>1, HeldKeptByAll DEF HeldKept
      <4> QED BY Zenon, <4>1, <4>2 DEF heldValue
    <3>5. heldValue'[r] = value
      BY Zenon, <3>2, <3>3 DEF heldValue
    <3>6. heldValue' = [heldValue EXCEPT ![r] = value]
      BY Zenon, <3>4, <3>5 DEF heldValue
    <3> QED BY Zenon, <3>1, <3>6 DEF Promise!acquire
  <2>4. ASSUME NEW r \in Reader, release(r)
        PROVE  Promise!release(r)
    <3>1. /\ handle[r] # NoHandle /\ value' = value /\ pool' = pool
          /\ handle' = [handle EXCEPT ![r] = NoHandle]
      BY Zenon, <2>4 DEF release
    <3>2. heldValue[r] # Blank
      BY Zenon, <3>1 DEF heldValue, RingInv, HandlesFilled
    <3>3. heldValue' = [heldValue EXCEPT ![r] = Blank]
      BY Zenon, <2>0, <3>1 DEF heldValue
    <3> QED BY Zenon, <3>1, <3>2, <3>3 DEF Promise!release
  <2> QED BY Zenon, <2>1, <2>2, <2>3, <2>4 DEF SnapshotNext, Promise!Next
<1> QED BY <1>1, <1>2, RingInvariance, PTL DEF SnapshotSpec, Refinement, Promise!Spec
-----------------------------------------------------------------------------
(* Processes.  One of the programs moves, the others rest. *)
LEMMA OneProgramMoves ==
  ASSUME [ProcessesNext]_processes
  PROVE  /\ Agent!Next \/ UNCHANGED agent
         /\ Server!Next \/ UNCHANGED dashboard
         /\ Sockets!Next \/ UNCHANGED programs
BY Zenon DEF ProcessesNext, AgentStep, ServerStep, SocketsStep, processes

(* The agent: before the cache is filled there is no refresh thread, and   *)
(* what that thread is about to store it has collected.                    *)
AgentInv ==
  /\ Agent!TypeOK /\ Agent!NoThreadOutlives
  /\ main = "init" => probe = "none"
  /\ probe = "store" => fresh_caps \in Agent!Look

LEMMA LookIsNotNone == Agent!None \notin Agent!Look /\ 0 \in Agent!Look
BY ProcessSizes DEF Agent!Look, Agent!None

LEMMA AgentMainInv ==
  ASSUME AgentInv, Agent!MainStep \/ Agent!PollFails
  PROVE  AgentInv'
<1>1. CASE Agent!vom_caps_init
  BY Zenon, <1>1, LookIsNotNone DEF AgentInv, Agent!vom_caps_init, Agent!TypeOK,
     Agent!NoThreadOutlives
<1>2. CASE Agent!Heartbeat
  BY Zenon, <1>2 DEF AgentInv, Agent!Heartbeat, Agent!Probe, Agent!TypeOK,
     Agent!NoThreadOutlives
<1>3. CASE Agent!Directive \/ Agent!PollFails \/ Agent!vom_caps_deinit
  BY Zenon, <1>3 DEF AgentInv, Agent!Directive, Agent!PollFails, Agent!vom_caps_deinit,
     Agent!Probe, Agent!TypeOK, Agent!NoThreadOutlives
<1>4. CASE Agent!Join
  BY Zenon, <1>4 DEF AgentInv, Agent!Join, Agent!Probe, Agent!TypeOK,
     Agent!NoThreadOutlives
<1> QED BY Zenon, <1>1, <1>2, <1>3, <1>4 DEF Agent!MainStep

LEMMA AgentProbeInv ==
  ASSUME AgentInv, Agent!ProbeStep
  PROVE  AgentInv'
<1>1. CASE Agent!Collect
  BY <1>1 DEF AgentInv, Agent!Collect, Agent!Rest, Agent!TypeOK, Agent!NoThreadOutlives
<1>2. CASE Agent!Store
  BY <1>2, ProcessSizes DEF AgentInv, Agent!Store, Agent!Rest, Agent!TypeOK,
     Agent!NoThreadOutlives, Agent!Look, Agent!None
<1>3. CASE Agent!Sleep
  BY <1>3, ProcessSizes DEF AgentInv, Agent!Sleep, Agent!Rest, Agent!TypeOK,
     Agent!NoThreadOutlives
<1>4. CASE Agent!Awake \/ Agent!End
  BY Zenon, <1>4 DEF AgentInv, Agent!Awake, Agent!End, Agent!Rest, Agent!TypeOK,
     Agent!NoThreadOutlives
<1> QED BY Zenon, <1>1, <1>2, <1>3, <1>4 DEF Agent!ProbeStep

LEMMA AgentKept ==
  ASSUME AgentInv, Agent!Next \/ UNCHANGED agent
  PROVE  AgentInv'
<1>1. CASE Agent!HotPlug
  <2>1. hardware' \in Agent!Look
    BY <1>1, ProcessSizes DEF AgentInv, Agent!HotPlug, Agent!TypeOK, Agent!Look
  <2> QED BY Zenon, <1>1, <2>1 DEF AgentInv, Agent!HotPlug, Agent!Probe, Agent!TypeOK,
             Agent!NoThreadOutlives
<1>2. CASE Agent!Type
  BY Zenon, <1>2 DEF AgentInv, Agent!Type, Agent!Probe, Agent!TypeOK,
     Agent!NoThreadOutlives
<1>3. CASE UNCHANGED agent
  BY Zenon, <1>3 DEF agent, AgentInv, Agent!TypeOK, Agent!NoThreadOutlives
<1> QED BY Zenon, <1>1, <1>2, <1>3, AgentMainInv, AgentProbeInv DEF Agent!Next

LEMMA AgentInvInit == Agent!Init => AgentInv
<1>1. 0 \in 0..REFRESH_SECONDS
  BY ProcessSizes
<1> QED BY Zenon, <1>1, LookIsNotNone DEF AgentInv, Agent!Init, Agent!TypeOK,
           Agent!NoThreadOutlives

-----------------------------------------------------------------------------
(* The dashboard's server: the ids of its dummy workers stay within the    *)
(* bound, and every one there is was shown when it was made.               *)
ServerInv ==
  /\ Server!TypeOK /\ Server!NoDummyHidden
  /\ _DUMMY_ID_COUNTER \in 100..(100 + MaxDummies)

(* What LatestState may be. *)
Shown == [cluster : {"None", "mock", "empty", "torn", "state"},
          gen : Server!Generation, dummies : SUBSET (101..(100 + MaxDummies))]

LEMMA ReadStateIs ==
  ASSUME ServerInv, NEW dummies \in SUBSET (101..(100 + MaxDummies)),
         NEW s, s = Server!_merge_dummy_workers(Server!ReadState, dummies)
  PROVE  s \in Shown /\ s.dummies = dummies
<1>1. Server!parse_wal \in {"none", "empty", "torn", "state"}
  BY Zenon DEF Server!parse_wal
<1>2. wal.gen \in Server!Generation /\ 0 \in Server!Generation
  BY ProcessSizes DEF ServerInv, Server!TypeOK, Server!Generation
<1> QED BY <1>1, <1>2 DEF Server!_merge_dummy_workers, Server!ReadState, Shown

LEMMA DummiesWithin ==
  ASSUME ServerInv
  PROVE  DummyWorkers \in SUBSET (101..(100 + MaxDummies))
BY ProcessSizes DEF ServerInv, Server!TypeOK

(* A request, or the first round of the broadcaster, that shows the dummy  *)
(* workers there are now.                                                  *)
LEMMA ShowingInv ==
  ASSUME ServerInv, LatestState' \in Shown, LatestState'.dummies = DummyWorkers',
         UNCHANGED wal, broadcaster' \in {"running", "ended"},
         DummyWorkers' \subseteq 101.._DUMMY_ID_COUNTER',
         _DUMMY_ID_COUNTER' \in 100..(100 + MaxDummies)
  PROVE  ServerInv'
BY Zenon DEF ServerInv, Server!TypeOK, Server!NoDummyHidden, Shown

LEMMA ServerShowsInv ==
  ASSUME ServerInv, Server!state_broadcaster \/ Server!clear_workers
  PROVE  ServerInv'
<1>0. /\ broadcaster' \in {"running", "ended"} /\ UNCHANGED wal
      /\ DummyWorkers' \subseteq 101.._DUMMY_ID_COUNTER'
      /\ _DUMMY_ID_COUNTER' \in 100..(100 + MaxDummies)
  <2>1. CASE Server!state_broadcaster
    BY Zenon, <2>1 DEF ServerInv, Server!TypeOK, Server!state_broadcaster
  <2>2. CASE Server!clear_workers
    BY Zenon, <2>2 DEF ServerInv, Server!TypeOK, Server!clear_workers
  <2> QED BY Zenon, <2>1, <2>2
<1>1. CASE Server!state_broadcaster
  <2>1. LatestState' \in Shown /\ LatestState'.dummies = DummyWorkers
    BY Zenon, <1>1, DummiesWithin, ReadStateIs DEF Server!state_broadcaster
  <2> QED BY Zenon, <1>0, <1>1, <2>1, ShowingInv DEF Server!state_broadcaster
<1>2. CASE Server!clear_workers
  <2>1. {} \in SUBSET (101..(100 + MaxDummies))
    BY Zenon
  <2>2. LatestState' \in Shown /\ LatestState'.dummies = {}
    BY Zenon, <1>2, <2>1, ReadStateIs DEF Server!clear_workers, Server!Refresh
  <2> QED BY Zenon, <1>0, <1>2, <2>2, ShowingInv DEF Server!clear_workers
<1> QED BY Zenon, <1>1, <1>2

LEMMA ServerAddsInv ==
  ASSUME ServerInv, Server!add_worker
  PROVE  ServerInv'
<1>1. /\ _DUMMY_ID_COUNTER' \in 100..(100 + MaxDummies)
      /\ DummyWorkers' \subseteq 101.._DUMMY_ID_COUNTER'
      /\ DummyWorkers' \in SUBSET (101..(100 + MaxDummies))
  BY ProcessSizes DEF ServerInv, Server!TypeOK, Server!add_worker
<1>2. LatestState' \in Shown /\ LatestState'.dummies = DummyWorkers'
  BY ZenonT(60), <1>1, ReadStateIs DEF Server!add_worker, Server!Refresh
<1>3. UNCHANGED <<wal, broadcaster>> /\ broadcaster \in {"running", "ended"}
  BY Zenon DEF ServerInv, Server!TypeOK, Server!add_worker
<1> QED BY Zenon, <1>1, <1>2, <1>3, ShowingInv

LEMMA ServerKept ==
  ASSUME ServerInv, Server!Next \/ UNCHANGED dashboard
  PROVE  ServerInv'
<1>1. ASSUME NEW id \in DummyWorkers, Server!remove_worker(id)
      PROVE  ServerInv'
  BY Zenon, <1>1 DEF ServerInv, Server!remove_worker, Server!TypeOK, Server!NoDummyHidden
<1>2. CASE Server!Truncate \/ Server!Write
  <2>1. wal' \in [part : {"missing", "truncated", "partial", "complete"},
                  gen : Server!Generation]
    BY <1>2, ProcessSizes DEF ServerInv, Server!Truncate, Server!Write, Server!TypeOK,
       Server!File, Server!Generation
  <2>2. UNCHANGED <<DummyWorkers, _DUMMY_ID_COUNTER, LatestState, broadcaster>>
    BY Zenon, <1>2 DEF Server!Truncate, Server!Write
  <2> QED BY Zenon, <2>1, <2>2 DEF ServerInv, Server!TypeOK, Server!NoDummyHidden
<1>3. CASE UNCHANGED dashboard
  BY Zenon, <1>3 DEF dashboard, ServerInv, Server!TypeOK, Server!NoDummyHidden
<1> QED BY Zenon, <1>1, <1>2, <1>3, ServerShowsInv, ServerAddsInv DEF Server!Next

LEMMA ServerInvInit == Server!Init => ServerInv
<1>1. 100 \in 100..(100 + MaxDummies) /\ 0 \in Server!Generation
  BY ProcessSizes DEF Server!Generation
<1> QED BY <1>1 DEF ServerInv, Server!Init, Server!TypeOK, Server!NoDummyHidden,
           Server!NoState, Server!Missing, Server!File

-----------------------------------------------------------------------------
(* The programs: what each is to give back is decided by where it is.      *)
WorkerPlaces == {"ctx", "socket", "connect", "join", "joining", "loop", "receiving",
                 "closing", "destroying", "exited"}
MasterPlaces == {"state", "ctx", "socket", "bind", "identity", "delimiter", "payload",
                 "closing", "destroying", "freeing", "exited"}
Places(p) == IF p = Master THEN MasterPlaces ELSE WorkerPlaces
Starting == {"ctx", "socket", "connect", "join", "joining"}

OfState(p) == IF p = Master THEN {"state"} ELSE {}
Due(p, place) ==
  CASE place \in {"state", "exited"} -> {}
    [] place \in {"ctx", "freeing"} -> OfState(p)
    [] place \in {"socket", "destroying"} -> OfState(p) \cup {"ctx"}
    [] OTHER -> OfState(p) \cup {"ctx", "socket"}

SocketsInv ==
  /\ Sockets!TypeOK
  /\ at \in [Sockets!Program -> WorkerPlaces \cup MasterPlaces]
  /\ \A p \in Sockets!Program : at[p] \in Places(p) /\ held[p] = Due(p, at[p])
  /\ \A w \in Worker : at[w] \in Starting => attempts[w] < MAX_ATTEMPTS

LEMMA DueIs ==
  ASSUME NEW p
  PROVE  /\ \A x \in {"state", "exited"} : Due(p, x) = {}
         /\ \A x \in {"ctx", "freeing"} : Due(p, x) = OfState(p)
         /\ \A x \in {"socket", "destroying"} : Due(p, x) = OfState(p) \cup {"ctx"}
         /\ \A x \in {"bind", "connect", "join", "joining", "loop", "receiving", "identity",
                       "delimiter", "payload", "closing"} :
              Due(p, x) = OfState(p) \cup {"ctx", "socket"}
         /\ \A x : Due(p, x) \in SUBSET {"state", "ctx", "socket"}
BY Zenon DEF Due, OfState

(* Program p goes to a place and holds what is due there. *)
LEMMA MoveInv ==
  ASSUME SocketsInv, NEW p \in Sockets!Program, NEW place \in Places(p), NEW h,
         at' = [at EXCEPT ![p] = place], held' = [held EXCEPT ![p] = h],
         h = Due(p, place),
         signals' \in 0..MaxSignals, flagged' \subseteq Sockets!Program,
         interrupted' \subseteq Sockets!Program,
         attempts' \in [Worker -> 0..MAX_ATTEMPTS], beats' \in [Worker -> 0..MaxHeartbeats],
         \A w \in Worker \ {p} : attempts'[w] = attempts[w],
         p \in Worker /\ place \in Starting => attempts'[p] < MAX_ATTEMPTS
  PROVE  SocketsInv'
<1>1. h \in SUBSET {"state", "ctx", "socket"} /\ place \in WorkerPlaces \cup MasterPlaces
  BY Zenon, DueIs DEF Places
<1>2. /\ held' \in [Sockets!Program -> SUBSET {"state", "ctx", "socket"}]
      /\ at' \in [Sockets!Program -> WorkerPlaces \cup MasterPlaces]
      /\ at'[p] = place /\ held'[p] = h
      /\ \A q \in Sockets!Program \ {p} : at'[q] = at[q] /\ held'[q] = held[q]
  BY Zenon, <1>1 DEF SocketsInv, Sockets!TypeOK
<1>3. Sockets!TypeOK'
  BY Zenon, <1>2 DEF Sockets!TypeOK
<1>4. \A q \in Sockets!Program : at'[q] \in Places(q) /\ held'[q] = Due(q, at'[q])
  BY Zenon, <1>2 DEF SocketsInv
<1>5. \A w \in Worker : at'[w] \in Starting => attempts'[w] < MAX_ATTEMPTS
  BY Zenon, <1>2 DEF SocketsInv, Sockets!Program
<1> QED BY Zenon, <1>2, <1>3, <1>4, <1>5 DEF SocketsInv, Places

(* The same, when it holds what it held and only calls and frames count. *)
LEMMA GoInv ==
  ASSUME SocketsInv, NEW p \in Sockets!Program, NEW place \in Places(p) \ Starting,
         Sockets!GoTo(p, place), Due(p, place) = Due(p, at[p]),
         UNCHANGED <<held, signals, flagged>>, interrupted' \subseteq interrupted,
         UNCHANGED attempts, beats' \in [Worker -> 0..MaxHeartbeats]
  PROVE  SocketsInv'
<1>1. held' = [held EXCEPT ![p] = Due(p, place)]
  BY Zenon DEF SocketsInv, Sockets!TypeOK
<1> QED BY Zenon, <1>1, MoveInv DEF SocketsInv, Sockets!TypeOK, Sockets!GoTo

(* The steps of start-up. *)
LEMMA OpensAre ==
  /\ LET o == Sockets!Opens(Master) IN
       o[1] = "state" /\ o[2] = "ctx" /\ o[3] = "socket" /\ o[4] = "bind"
  /\ \A w \in Worker : LET o == Sockets!Opens(w) IN
       o[1] = "ctx" /\ o[2] = "socket" /\ o[3] = "connect" /\ o[4] = "join"
BY ProcessSizes DEF Sockets!Opens

LEMMA MasterOpens ==
  ASSUME NEW i \in 1..4, NEW x, x = Sockets!Opens(Master)[i],
         NEW y, y = IF i = 4 THEN Sockets!MainLoop(Master) ELSE Sockets!Opens(Master)[i + 1]
  PROVE  y \in MasterPlaces /\ Due(Master, y) = Due(Master, x) \cup ({x} \ {"bind", "connect"})
<1>1. CASE i = 1
  <2>1. x = "state" /\ y = "ctx"
    BY <1>1, OpensAre
  <2> QED BY <2>1, DueIs DEF OfState, MasterPlaces
<1>2. CASE i = 2
  <2>1. x = "ctx" /\ y = "socket"
    BY <1>2, OpensAre
  <2> QED BY <2>1, DueIs DEF OfState, MasterPlaces
<1>3. CASE i = 3
  <2>1. x = "socket" /\ y = "bind"
    BY <1>3, OpensAre
  <2> QED BY <2>1, DueIs DEF OfState, MasterPlaces
<1>4. CASE i = 4
  <2>1. x = "bind" /\ y = "identity"
    BY <1>4, OpensAre DEF Sockets!MainLoop
  <2> QED BY <2>1, DueIs DEF OfState, MasterPlaces
<1> QED BY <1>1, <1>2, <1>3, <1>4

LEMMA WorkerOpens ==
  ASSUME NEW w \in Worker, NEW i \in 1..4, NEW x, x = Sockets!Opens(w)[i], x # "join",
         NEW y, y = IF i = 4 THEN Sockets!MainLoop(w) ELSE Sockets!Opens(w)[i + 1]
  PROVE  /\ y \in WorkerPlaces /\ x \in Starting
         /\ Due(w, y) = Due(w, x) \cup ({x} \ {"bind", "connect"})
<1>0. OfState(w) = {}
  BY Zenon, ProcessSizes DEF OfState
<1>1. CASE i = 1
  <2>1. x = "ctx" /\ y = "socket"
    BY <1>1, OpensAre
  <2> QED BY <1>0, <2>1, DueIs DEF WorkerPlaces, Starting
<1>2. CASE i = 2
  <2>1. x = "socket" /\ y = "connect"
    BY <1>2, OpensAre
  <2> QED BY <1>0, <2>1, DueIs DEF WorkerPlaces, Starting
<1>3. CASE i = 3
  <2>1. x = "connect" /\ y = "join"
    BY <1>3, OpensAre
  <2> QED BY <1>0, <2>1, DueIs DEF WorkerPlaces, Starting
<1>4. i # 4
  BY OpensAre
<1> QED BY <1>1, <1>2, <1>3, <1>4

LEMMA OpenInv ==
  ASSUME SocketsInv, NEW p \in Sockets!Program, Sockets!Open(p)
  PROVE  SocketsInv'
<1>1. PICK i \in 1..4 :
        /\ at[p] = Sockets!Opens(p)[i] /\ at[p] # "join"
        /\ Sockets!GoTo(p, IF i = 4 THEN Sockets!MainLoop(p) ELSE Sockets!Opens(p)[i + 1])
        /\ held' = [held EXCEPT ![p] = @ \cup ({at[p]} \ {"bind", "connect"})]
        /\ UNCHANGED <<Sockets!stopping, interrupted, Sockets!counts, Sockets!frames>>
  BY Zenon DEF Sockets!Open
<1>2. PICK y : y = IF i = 4 THEN Sockets!MainLoop(p) ELSE Sockets!Opens(p)[i + 1]
  BY Zenon
<1>3. /\ y \in Places(p) /\ Due(p, y) = Due(p, at[p]) \cup ({at[p]} \ {"bind", "connect"})
      /\ p \in Worker => at[p] \in Starting
  <2>1. CASE p = Master
    <3>1. PICK x : x = at[p]
      BY Zenon
    <3>2. x = Sockets!Opens(Master)[i]
      BY Zenon, <1>1, <2>1, <3>1
    <3>3. y = IF i = 4 THEN Sockets!MainLoop(Master) ELSE Sockets!Opens(Master)[i + 1]
      BY Zenon, <1>2, <2>1
    <3>4. /\ y \in MasterPlaces
          /\ Due(Master, y) = Due(Master, x) \cup ({x} \ {"bind", "connect"})
      BY Zenon, <3>2, <3>3, MasterOpens
    <3> QED BY Zenon, <2>1, <3>1, <3>4, ProcessSizes DEF Places
  <2>2. CASE p \in Worker
    <3>1. PICK x : x = at[p]
      BY Zenon
    <3>2. x = Sockets!Opens(p)[i] /\ x # "join"
      BY Zenon, <1>1, <3>1
    <3>3. /\ y \in WorkerPlaces /\ x \in Starting
          /\ Due(p, y) = Due(p, x) \cup ({x} \ {"bind", "connect"})
      BY <1>2, <2>2, <3>2, WorkerOpens
    <3>4. Places(p) = WorkerPlaces
      BY Zenon, <2>2, ProcessSizes DEF Places
    <3> QED BY Zenon, <3>1, <3>3, <3>4
  <2> QED BY Zenon, <2>1, <2>2 DEF Sockets!Program
<1>4. held' = [held EXCEPT ![p] = Due(p, y)] /\ at' = [at EXCEPT ![p] = y]
  BY Zenon, <1>1, <1>2, <1>3 DEF SocketsInv, Sockets!TypeOK, Sockets!GoTo
<1>5. UNCHANGED <<signals, flagged, interrupted, attempts, beats>>
  BY Zenon, <1>1 DEF Sockets!stopping, Sockets!counts
<1> QED BY Zenon, <1>3, <1>4, <1>5, MoveInv DEF SocketsInv, Sockets!TypeOK

LEMMA EndInv ==
  ASSUME SocketsInv, NEW p \in Sockets!Program, Sockets!GoTo(p, "exited"),
         held' = [held EXCEPT ![p] = {}], UNCHANGED <<signals, flagged, attempts, beats>>,
         interrupted' \subseteq interrupted
  PROVE  SocketsInv'
<1>1. "exited" \in Places(p) /\ "exited" \notin Starting /\ Due(p, "exited") = {}
  BY Zenon, DueIs DEF Places, WorkerPlaces, MasterPlaces, Starting
<1> QED BY Zenon, <1>1, MoveInv DEF SocketsInv, Sockets!TypeOK, Sockets!GoTo

(* The branches of start-up that fail. *)
LEMMA OpenFailsInv ==
  ASSUME SocketsInv, NEW p \in Sockets!Program, Sockets!OpenFails(p)
  PROVE  SocketsInv'
<1>1. PICK i \in 1..4 : at[p] = Sockets!Opens(p)[i]
  BY Zenon DEF Sockets!OpenFails
<1>2. \/ at[p] \in {"ctx", "socket", "bind", "connect", "join"}
      \/ p = Master /\ at[p] = "state"
  BY <1>1, OpensAre DEF Sockets!Program
<1>3. Due(p, at[p]) \ Sockets!GivenBack(at[p]) = {}
  <2>0. OfState(p) \subseteq {"state"}
    BY Zenon DEF OfState
  <2>1. CASE at[p] = "ctx"
    <3>1. Due(p, at[p]) = OfState(p)
      BY Zenon, <2>1, DueIs
    <3>2. Sockets!GivenBack(at[p]) = {"state"}
      BY Zenon, <2>1 DEF Sockets!GivenBack
    <3> QED BY Zenon, <2>0, <3>1, <3>2
  <2>2. CASE at[p] = "socket"
    <3>1. Due(p, at[p]) = OfState(p) \cup {"ctx"}
      BY Zenon, <2>2, DueIs
    <3>2. Sockets!GivenBack(at[p]) = {"ctx", "state"}
      BY Zenon, <2>2 DEF Sockets!GivenBack
    <3> QED BY Zenon, <2>0, <3>1, <3>2
  <2>3. CASE at[p] \in {"bind", "connect", "join"}
    <3>1. Due(p, at[p]) = OfState(p) \cup {"ctx", "socket"}
      BY Zenon, <2>3, DueIs
    <3>2. Sockets!GivenBack(at[p]) = {"socket", "ctx", "state"}
      BY Zenon, <2>3 DEF Sockets!GivenBack
    <3> QED BY Zenon, <2>0, <3>1, <3>2
  <2>4. CASE at[p] = "state"
    BY Zenon, <2>4, DueIs
  <2> QED BY Zenon, <1>2, <2>1, <2>2, <2>3, <2>4
<1>4. held' = [held EXCEPT ![p] = {}]
  BY Zenon, <1>3 DEF Sockets!OpenFails, SocketsInv, Sockets!TypeOK
<1> QED BY Zenon, <1>4, EndInv DEF Sockets!OpenFails, Sockets!stopping, Sockets!counts
-----------------------------------------------------------------------------
(* The worker. *)
LEMMA WorkerPlace ==
  ASSUME NEW w \in Worker
  PROVE  /\ Places(w) = WorkerPlaces /\ w \in Sockets!Program /\ w # Master
         /\ {"loop", "receiving", "closing", "joining"} \subseteq Places(w)
BY Zenon, ProcessSizes DEF Places, Sockets!Program, WorkerPlaces

LEMMA TakesFacts ==
  ASSUME NEW w, Sockets!Takes(w)
  PROVE  interrupted' \subseteq interrupted
BY Zenon DEF Sockets!Takes

LEMMA JoinInv ==
  ASSUME SocketsInv, NEW w \in Worker, Sockets!SendJoin(w) \/ Sockets!AwaitJoinResp(w)
  PROVE  SocketsInv'
<1>0. Due(w, "join") = Due(w, "joining") /\ Due(w, "loop") = Due(w, "joining")
  BY Zenon, DueIs
<1>1. /\ attempts \in [Worker -> 0..MAX_ATTEMPTS] /\ attempts[w] \in 0..MAX_ATTEMPTS
      /\ at[w] \in {"join", "joining"} => attempts[w] < MAX_ATTEMPTS
  BY Zenon DEF SocketsInv, Sockets!TypeOK, Starting
<1>2. CASE Sockets!SendJoin(w)
  <2>1. held' = [held EXCEPT ![w] = Due(w, "joining")]
    BY Zenon, <1>0, <1>2, WorkerPlace DEF Sockets!SendJoin, SocketsInv, Sockets!TypeOK
  <2>2. UNCHANGED <<signals, flagged, interrupted, attempts, beats>>
    BY Zenon, <1>2 DEF Sockets!SendJoin, Sockets!stopping, Sockets!counts
  <2>3. attempts[w] < MAX_ATTEMPTS /\ at' = [at EXCEPT ![w] = "joining"]
    BY Zenon, <1>1, <1>2 DEF Sockets!SendJoin, Sockets!GoTo
  <2> QED BY Zenon, <2>1, <2>2, <2>3, MoveInv, WorkerPlace DEF SocketsInv, Sockets!TypeOK
<1>3. CASE Sockets!AwaitJoinResp(w)
  <2>1. PICK y : y = IF Sockets!Answered(w) \/ attempts'[w] = MAX_ATTEMPTS THEN "loop" ELSE at[w]
    BY Zenon
  <2>2. /\ y \in {"loop", "joining"} /\ at[w] = "joining" /\ at' = [at EXCEPT ![w] = y]
        /\ y = "joining" => attempts'[w] # MAX_ATTEMPTS
    BY Zenon, <1>3, <2>1 DEF Sockets!AwaitJoinResp, Sockets!GoTo
  <2>3. held' = [held EXCEPT ![w] = Due(w, y)]
    BY Zenon, <1>0, <1>3, <2>2, WorkerPlace DEF Sockets!AwaitJoinResp, SocketsInv, Sockets!TypeOK
  <2>4. /\ UNCHANGED <<signals, flagged, beats>> /\ interrupted' \subseteq interrupted
        /\ attempts' = [attempts EXCEPT ![w] = attempts[w] + 1]
    BY Zenon, <1>3, TakesFacts DEF Sockets!AwaitJoinResp, Sockets!stopping
  <2>5. attempts[w] + 1 \in 0..MAX_ATTEMPTS /\ (attempts[w] + 1 # MAX_ATTEMPTS => attempts[w] + 1 < MAX_ATTEMPTS)
    BY <1>1, <2>2, ProcessSizes
  <2>6. /\ attempts' \in [Worker -> 0..MAX_ATTEMPTS] /\ attempts'[w] = attempts[w] + 1
        /\ \A v \in Worker \ {w} : attempts'[v] = attempts[v]
    BY Zenon, <1>1, <2>4, <2>5
  <2>7. y \in Places(w) /\ (y \in Starting => attempts'[w] < MAX_ATTEMPTS)
    BY Zenon, <2>2, <2>5, <2>6, WorkerPlace DEF Starting
  <2> QED BY Zenon, <2>2, <2>3, <2>4, <2>6, <2>7, MoveInv, WorkerPlace DEF SocketsInv, Sockets!TypeOK
<1> QED BY Zenon, <1>2, <1>3

LEMMA LoopInv ==
  ASSUME SocketsInv, NEW w \in Worker, Sockets!Heartbeat(w) \/ Sockets!Receive(w)
  PROVE  SocketsInv'
<1>0. Due(w, "loop") = Due(w, "receiving") /\ "loop" \notin Starting /\ "receiving" \notin Starting
  BY Zenon, DueIs DEF Starting
<1>1. CASE Sockets!Heartbeat(w)
  <2>1. beats \in [Worker -> 0..MaxHeartbeats] /\ beats[w] \in 0..MaxHeartbeats
    BY Zenon DEF SocketsInv, Sockets!TypeOK
  <2>2. beats[w] < MaxHeartbeats => beats[w] + 1 \in 0..MaxHeartbeats
    BY <2>1, ProcessSizes
  <2>3. beats' \in [Worker -> 0..MaxHeartbeats]
    BY Zenon, <1>1, <2>1, <2>2 DEF Sockets!Heartbeat
  <2>4. /\ UNCHANGED <<held, signals, flagged, interrupted, attempts>>
        /\ at[w] = "loop" /\ Sockets!GoTo(w, "receiving")
    BY Zenon, <1>1 DEF Sockets!Heartbeat, Sockets!stopping
  <2> QED BY Zenon, <1>0, <2>3, <2>4, GoInv, WorkerPlace
<1>2. CASE Sockets!Receive(w)
  <2>1. beats' \in [Worker -> 0..MaxHeartbeats]
    BY Zenon, <1>2 DEF Sockets!Receive, Sockets!counts, SocketsInv, Sockets!TypeOK
  <2>2. /\ UNCHANGED <<held, signals, flagged, attempts>> /\ interrupted' \subseteq interrupted
        /\ at[w] = "receiving" /\ Sockets!GoTo(w, "loop")
    BY Zenon, <1>2, TakesFacts DEF Sockets!Receive, Sockets!stopping, Sockets!counts
  <2> QED BY Zenon, <1>0, <2>1, <2>2, GoInv, WorkerPlace
<1> QED BY Zenon, <1>1, <1>2

(* The master's receives. *)
LEMMA RecvInv ==
  ASSUME SocketsInv,
         \/ Sockets!RecvIdentity \/ Sockets!RecvDelimiter
         \/ Sockets!RecvPayload \/ Sockets!PayloadInterrupted
  PROVE  SocketsInv'
<1>1. /\ UNCHANGED <<held, signals, flagged, attempts, beats>>
      /\ interrupted' \subseteq interrupted
      /\ at[Master] \in {"identity", "delimiter", "payload"}
      /\ \E y \in {"identity", "delimiter", "payload"} : Sockets!GoTo(Master, y)
  <2>1. CASE Sockets!RecvIdentity
    BY Zenon, <2>1 DEF Sockets!RecvIdentity, Sockets!stopping, Sockets!counts
  <2>2. CASE Sockets!RecvDelimiter
    BY Zenon, <2>2 DEF Sockets!RecvDelimiter, Sockets!stopping, Sockets!counts
  <2>3. CASE Sockets!RecvPayload
    BY Zenon, <2>3 DEF Sockets!RecvPayload, Sockets!stopping, Sockets!counts
  <2>4. CASE Sockets!PayloadInterrupted
    BY Zenon, <2>4 DEF Sockets!PayloadInterrupted, Sockets!stopping, Sockets!counts
  <2> QED BY Zenon, <2>1, <2>2, <2>3, <2>4
<1>2. PICK y \in {"identity", "delimiter", "payload"} : Sockets!GoTo(Master, y)
  BY Zenon, <1>1
<1>3. /\ y \in Places(Master) \ Starting /\ Master \in Sockets!Program
      /\ Due(Master, y) = Due(Master, at[Master])
  <2>1. \A x \in {"identity", "delimiter", "payload"} :
          /\ x \in MasterPlaces /\ x \notin Starting
          /\ Due(Master, x) = OfState(Master) \cup {"ctx", "socket"}
    BY Zenon, DueIs DEF MasterPlaces, Starting
  <2> QED BY Zenon, <1>1, <2>1 DEF Places, Sockets!Program
<1>4. beats' \in [Worker -> 0..MaxHeartbeats]
  BY Zenon, <1>1 DEF SocketsInv, Sockets!TypeOK
<1> QED BY ZenonT(60), <1>1, <1>2, <1>3, <1>4, GoInv
-----------------------------------------------------------------------------
(* The end of both. *)
LEMMA TeardownInv ==
  ASSUME SocketsInv, NEW p \in Sockets!Program,
         \/ Sockets!LeaveLoop(p) \/ Sockets!CloseSocket(p) \/ Sockets!DestroyContext(p)
         \/ p = Master /\ Sockets!FreeState
  PROVE  SocketsInv'
<1>1. /\ {"closing", "destroying", "exited"} \subseteq Places(p)
      /\ \A x \in {"closing", "destroying", "freeing", "exited"} : x \notin Starting
      /\ "freeing" \in Places(Master)
  BY Zenon DEF Places, WorkerPlaces, MasterPlaces, Starting
<1>2. /\ UNCHANGED <<signals, flagged, interrupted, attempts, beats>>
      /\ beats \in [Worker -> 0..MaxHeartbeats]
  <2>1. UNCHANGED <<Sockets!stopping, interrupted, Sockets!counts>>
    BY Zenon DEF Sockets!LeaveLoop, Sockets!CloseSocket, Sockets!DestroyContext,
       Sockets!FreeState, Sockets!Release
  <2> QED BY Zenon, <2>1 DEF Sockets!stopping, Sockets!counts, SocketsInv, Sockets!TypeOK
<1>3. CASE Sockets!LeaveLoop(p)
  <2>1. Due(p, "closing") = Due(p, at[p])
    BY Zenon, <1>3, DueIs DEF Sockets!LeaveLoop, Sockets!MainLoop
  <2> QED BY Zenon, <1>1, <1>2, <1>3, <2>1, GoInv DEF Sockets!LeaveLoop
<1>4. ASSUME NEW what, NEW place \in Places(p) \ Starting, Sockets!Release(p, what, place),
             Due(p, place) = Due(p, at[p]) \ {what}
      PROVE  SocketsInv'
  <2>1. held' = [held EXCEPT ![p] = Due(p, place)] /\ at' = [at EXCEPT ![p] = place]
    BY Zenon, <1>4 DEF Sockets!Release, Sockets!GoTo, SocketsInv, Sockets!TypeOK
  <2> QED BY Zenon, <1>2, <1>4, <2>1, MoveInv DEF SocketsInv, Sockets!TypeOK
<1>5. CASE Sockets!CloseSocket(p)
  <2>1. Due(p, "destroying") = Due(p, "closing") \ {"socket"}
    BY DueIs DEF OfState
  <2> QED BY Zenon, <1>1, <1>4, <1>5, <2>1 DEF Sockets!CloseSocket
<1>6. CASE Sockets!DestroyContext(p)
  <2>1. PICK y : y = IF p = Master THEN "freeing" ELSE "exited"
    BY Zenon
  <2>2. Due(p, y) = Due(p, "destroying") \ {"ctx"}
    BY SMTT(30), <2>1, DueIs DEF OfState
  <2>3. y \in Places(p) \ Starting
    BY Zenon, <1>1, <2>1
  <2> QED BY Zenon, <1>4, <1>6, <2>1, <2>2, <2>3 DEF Sockets!DestroyContext
<1>7. CASE p = Master /\ Sockets!FreeState
  <2>1. Due(Master, "exited") = Due(Master, "freeing") \ {"state"}
    BY Zenon, DueIs DEF OfState
  <2> QED BY Zenon, <1>1, <1>4, <1>7, <2>1 DEF Sockets!FreeState
<1> QED BY Zenon, <1>3, <1>5, <1>6, <1>7

LEMMA PowerOffInv ==
  ASSUME SocketsInv, NEW w \in Worker, Sockets!PowerOff(w)
  PROVE  SocketsInv'
BY Zenon, EndInv, WorkerPlace DEF Sockets!PowerOff, Sockets!stopping, Sockets!counts

LEMMA SignalInv ==
  ASSUME SocketsInv, NEW p \in Sockets!Program, Sockets!Signal(p)
  PROVE  SocketsInv'
<1>1. signals' \in 0..MaxSignals
  BY ProcessSizes DEF SocketsInv, Sockets!TypeOK, Sockets!Signal
<1>2. flagged' \subseteq Sockets!Program /\ interrupted' \subseteq Sockets!Program
  BY Zenon DEF SocketsInv, Sockets!TypeOK, Sockets!Signal
<1>3. UNCHANGED <<at, held, attempts, beats>>
  BY Zenon DEF Sockets!Signal, Sockets!counts
<1> QED BY Zenon, <1>1, <1>2, <1>3 DEF SocketsInv, Sockets!TypeOK

LEMMA SocketsKept ==
  ASSUME SocketsInv, Sockets!Next \/ UNCHANGED programs
  PROVE  SocketsInv'
<1>1. ASSUME NEW w \in Worker, Sockets!WorkerStep(w) \/ Sockets!PowerOff(w)
      PROVE  SocketsInv'
  BY ZenonT(60), <1>1, OpenInv, JoinInv, LoopInv, TeardownInv, PowerOffInv, WorkerPlace
     DEF Sockets!WorkerStep, Sockets!Step
<1>2. CASE Sockets!MasterStep
  <2>1. Master \in Sockets!Program
    BY Zenon DEF Sockets!Program
  <2> QED BY Zenon, <1>2, <2>1, OpenInv, RecvInv, TeardownInv DEF Sockets!MasterStep, Sockets!Step
<1>3. CASE UNCHANGED programs
  BY Zenon, <1>3 DEF programs, SocketsInv, Sockets!TypeOK
<1> QED BY Zenon, <1>1, <1>2, <1>3, OpenFailsInv, SignalInv DEF Sockets!Next

LEMMA SocketsInvInit == Sockets!Init => SocketsInv
<1> SUFFICES ASSUME Sockets!Init PROVE SocketsInv
  BY Zenon
<1>1. /\ \A p \in Sockets!Program : at[p] = Sockets!Opens(p)[1] /\ held[p] = {}
      /\ held \in [Sockets!Program -> SUBSET {"state", "ctx", "socket"}]
      /\ DOMAIN at = Sockets!Program /\ at = [p \in Sockets!Program |-> at[p]]
  BY Zenon DEF Sockets!Init
<1>2. \A p \in Sockets!Program : at[p] = IF p = Master THEN "state" ELSE "ctx"
  BY ZenonT(60), <1>1, OpensAre DEF Sockets!Program
<1>3. \A p \in Sockets!Program : /\ at[p] \in Places(p) /\ Due(p, at[p]) = {}
  BY Zenon, <1>2, DueIs DEF Places, WorkerPlaces, MasterPlaces, OfState
<1>4. at \in [Sockets!Program -> WorkerPlaces \cup MasterPlaces]
  BY Zenon, <1>1, <1>3 DEF Places
<1>5. /\ 0 \in 0..MaxSignals /\ 0 \in 0..MAX_ATTEMPTS /\ 0 < MAX_ATTEMPTS
      /\ 0 \in 0..MaxHeartbeats
  BY ProcessSizes
<1> QED BY Zenon, <1>1, <1>3, <1>4, <1>5 DEF SocketsInv, Sockets!Init, Sockets!TypeOK

LEMMA SocketsInvImplies == SocketsInv => Sockets!TypeOK /\ Sockets!NothingLeftOpen
<1> SUFFICES ASSUME SocketsInv, NEW p \in Sockets!Program
             PROVE  LET all == IF p = Master THEN {"state", "ctx", "socket"}
                                             ELSE {"ctx", "socket"} IN
                    /\ at[p] = "exited" => held[p] = {}
                    /\ at[p] \in {"joining", "loop", "receiving", "identity", "delimiter",
                                  "payload", "closing"} => held[p] = all
  BY Zenon DEF SocketsInv, Sockets!NothingLeftOpen
<1>1. held[p] = Due(p, at[p])
  BY Zenon DEF SocketsInv
<1>2. at[p] = "exited" => held[p] = {}
  BY Zenon, <1>1, DueIs
<1>3. at[p] \in {"joining", "loop", "receiving", "identity", "delimiter", "payload", "closing"}
        => held[p] = OfState(p) \cup {"ctx", "socket"}
  BY Zenon, <1>1, DueIs
<1> QED BY <1>2, <1>3 DEF OfState

(* Safety, heartbeat.c, server.py and both main functions, for any workers *)
(* and any bounds: the agent's refresh thread does not outlive it, what    *)
(* browsers are shown names every dummy worker there is, and a program     *)
(* that ends, on whatever path, has given back what it opened.             *)
THEOREM ProgramsAreSafe == ProcessesSpec => []ProgramsSafe
<1> DEFINE I == AgentInv /\ ServerInv /\ SocketsInv
<1>1. ProcessesInit => I
  BY Zenon, AgentInvInit, ServerInvInit, SocketsInvInit DEF ProcessesInit
<1>2. I /\ [ProcessesNext]_processes => I'
  BY Zenon, OneProgramMoves, AgentKept, ServerKept, SocketsKept
<1>3. I => ProgramsSafe
  BY Zenon, SocketsInvImplies DEF AgentInv, ServerInv, ProgramsSafe
<1> QED BY <1>1, <1>2, <1>3, PTL DEF ProcessesSpec
=============================================================================
