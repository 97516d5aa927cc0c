----------------------------- MODULE SnapshotRing -----------------------------
(***************************************************************************)
(* The ring of reference-counted copies that the cluster state and the     *)
(* worker registry hand out as snapshots (master/src/cluster_state.c and   *)
(* master/src/registry.c hold the same code).  acquire copies the state    *)
(* into the first slot, from the tail on, that nobody refers to; when      *)
(* every slot is referred to it takes the tail's slot all the same.        *)
(* Readers are well behaved: they give back what they hold, once.          *)
(***************************************************************************)
EXTENDS Tables, FiniteSets

CONSTANTS
  Reader, Value,
  Blank,          \* what calloc leaves in a slot
  RING            \* SNAPSHOT_RING_SIZE, REG_RING_SIZE

ASSUME RingSize == RING \in Nat \ {0}
ASSUME ReadersFinite == IsFiniteSet(Reader)
ASSUME BlankValue == Blank \notin Value

VARIABLES
  value,          \* the state that is copied
  pool, tail, refs,
  handle          \* the slot each reader has a pointer to

snapshotVars == <<value, pool, tail, refs, handle>>
ringVars == <<pool, tail, refs, handle>>

Slots == 0..(RING - 1)
NoHandle == -1

RingInit == /\ pool = [s \in Slots |-> Blank]
            /\ tail = 0
            /\ refs = [s \in Slots |-> 0]
            /\ handle = [r \in Reader |-> NoHandle]

SnapshotInit == value \in Value /\ RingInit

(* The k-th slot the search looks at, and the one it settles for. *)
Probe(k) == (tail + k) % RING
Free == {k \in Slots : refs[Probe(k)] = 0}
TargetSlot == IF Free = {} THEN tail ELSE Probe(First(Free))

(* Mutant: a slot used before keeps its old copy. *)
acquire_OldCopy(r) ==
  /\ handle[r] = NoHandle
  /\ pool' = [pool EXCEPT ![TargetSlot] = IF @ = Blank THEN value ELSE @]
  /\ refs' = [refs EXCEPT ![TargetSlot] = @ + 1]
  /\ tail' = (TargetSlot + 1) % RING
  /\ handle' = [handle EXCEPT ![r] = TargetSlot]
  /\ UNCHANGED value

acquire(r) ==
  /\ handle[r] = NoHandle
  /\ pool' = [pool EXCEPT ![TargetSlot] = value]
  /\ refs' = [refs EXCEPT ![TargetSlot] = @ + 1]
  /\ tail' = (TargetSlot + 1) % RING
  /\ handle' = [handle EXCEPT ![r] = TargetSlot]
  /\ UNCHANGED value

(* Mutant: the count is not lowered. *)
release_NoCount(r) ==
  /\ handle[r] # NoHandle
  /\ handle' = [handle EXCEPT ![r] = NoHandle]
  /\ UNCHANGED <<value, pool, tail, refs>>

release(r) ==
  /\ handle[r] # NoHandle
  /\ refs' = [refs EXCEPT ![handle[r]] = IF @ > 0 THEN @ - 1 ELSE @]
  /\ handle' = [handle EXCEPT ![r] = NoHandle]
  /\ UNCHANGED <<value, pool, tail>>

(* Any operation of the owner on its state. *)
Change == value' \in Value /\ UNCHANGED ringVars

SnapshotNext == Change \/ \E r \in Reader : acquire(r) \/ release(r)

SnapshotSpec == SnapshotInit /\ [][SnapshotNext]_snapshotVars

-----------------------------------------------------------------------------
(* Type invariant. *)
RingTypeOK == /\ value \in Value
              /\ pool \in [Slots -> Value \cup {Blank}]
              /\ tail \in Slots
              /\ refs \in [Slots -> Nat]
              /\ handle \in [Reader -> Slots \cup {NoHandle}]

Holders(s) == {r \in Reader : handle[r] = s}

(* Safety: the reference counts are the numbers of readers, also when a    *)
(* slot had to be shared; no count ever reaches zero under a reader.       *)
RefCountsExact == \A s \in Slots : refs[s] = Cardinality(Holders(s))

(* Safety: what a reader points to was copied from the state; no reader    *)
(* sees a slot that was never filled.                                      *)
HandlesFilled == \A r \in Reader : handle[r] # NoHandle => pool[handle[r]] # Blank

(* Action property: while a reader holds a snapshot nobody writes into it. *)
HeldKept(r) ==
  handle[r] # NoHandle /\ handle'[r] = handle[r] => pool'[handle[r]] = pool[handle[r]]
HeldUnchanged == [][\A r \in Reader : HeldKept(r)]_snapshotVars

(* Refinement: as long as there are no more readers than slots, the ring   *)
(* is the promise of Snapshots; Blank stands for holding nothing.          *)
heldValue == [r \in Reader |-> IF handle[r] = NoHandle THEN Blank ELSE pool[handle[r]]]
Promise == INSTANCE Snapshots WITH held <- heldValue, None <- Blank
Refinement == Promise!Spec
=============================================================================
