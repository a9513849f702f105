---------------------------- MODULE EvictionState ----------------------------
(***************************************************************************)
(* eviction.State and the engine's hooks around it: the window of slots    *)
(* whose accepted blocks are root blocks, the blocks the rest of the node  *)
(* treats as solid, booked and accepted without having them in memory.     *)
(* Accepted blocks become root blocks in a pool of one worker; a committed *)
(* slot advances the window at once.                                       *)
(***************************************************************************)
EXTENDS Naturals, Sequences, SequencesExt

CONSTANTS
    Block,                  \* the blocks other than the genesis block
    Genesis,                \* the genesis block, the first root block
    SlotOf,                 \* the slot of a block
    MaxCommittableAge,
    MaxSlot                 \* bound: the last slot that is committed

BlockID == Block \cup {Genesis}
Slot == 0 .. MaxSlot

ASSUME BlockAssumption == Genesis \notin Block
ASSUME SlotAssumption ==
    /\ MaxCommittableAge \in Nat \ {0} /\ MaxSlot \in Nat
    /\ SlotOf \in [BlockID -> Nat]
    /\ SlotOf[Genesis] = 0 /\ \A b \in Block : SlotOf[b] > 0

VARIABLES
    lastCommittedSlot,      \* State.lastCommittedSlot
    latestNonEmptySlot,     \* Settings.LatestNonEmptySlot
    rootBlocks,             \* the root block storage
    rootQueue,              \* the accepted blocks waiting in the pool EvictionState
    accepted                \* the blocks the block gadget accepted

evictionVars == <<lastCommittedSlot, latestNonEmptySlot, rootBlocks, rootQueue, accepted>>

EvictionTypeOK ==
    /\ lastCommittedSlot \in Slot /\ latestNonEmptySlot \in Slot
    /\ rootBlocks \subseteq BlockID /\ accepted \subseteq BlockID
    /\ rootQueue \in Seq(Block)

EvictionInit ==
    /\ lastCommittedSlot = 0 /\ latestNonEmptySlot = 0
    /\ rootBlocks = {Genesis} /\ accepted = {Genesis} /\ rootQueue = <<>>

-----------------------------------------------------------------------------

(* Mutant: a run of empty slots moves the window past the last block. *)
WindowStartUnclamped(target) ==
    IF target < MaxCommittableAge THEN 0 ELSE target - MaxCommittableAge + 1

(* activeIndexRange: the window ends at its argument and starts one        *)
(* committable age before it, or at the last slot that has a block.        *)
WindowStart(target) ==
    IF target < MaxCommittableAge THEN 0
    ELSE LET start == target - MaxCommittableAge + 1
         IN  IF start > latestNonEmptySlot THEN latestNonEmptySlot ELSE start

BelowRange(b) == SlotOf[b] < WindowStart(lastCommittedSlot)

InRange(b) ==
    /\ WindowStart(lastCommittedSlot) <= SlotOf[b]
    /\ SlotOf[b] <= lastCommittedSlot

IsActiveRootBlock(b) == InRange(b) /\ b \in rootBlocks

(* BlockAccepted hands the block to the pool. *)
QueueRootBlock(b) == rootQueue' = Append(rootQueue, b)

AddRootBlock ==
    /\ rootQueue # <<>>
    /\ rootQueue' = Tail(rootQueue)
    /\ rootBlocks' = IF BelowRange(Head(rootQueue)) THEN rootBlocks
                     ELSE rootBlocks \cup {Head(rootQueue)}
    /\ UNCHANGED <<lastCommittedSlot, latestNonEmptySlot, accepted>>

(* Mutant: every committed slot counts as a slot with blocks. *)
AdvanceActiveWindowAlways ==
    /\ lastCommittedSlot < MaxSlot
    /\ lastCommittedSlot' = lastCommittedSlot + 1
    /\ latestNonEmptySlot' = lastCommittedSlot'
    /\ UNCHANGED <<rootBlocks, rootQueue, accepted>>

(* A slot is committed: createCommitment records that it has blocks, and   *)
(* LatestCommitmentUpdated advances the window.                            *)
AdvanceActiveWindow ==
    /\ lastCommittedSlot < MaxSlot
    /\ lastCommittedSlot' = lastCommittedSlot + 1
    /\ latestNonEmptySlot' =
         IF \E b \in accepted : SlotOf[b] = lastCommittedSlot'
         THEN lastCommittedSlot' ELSE latestNonEmptySlot
    /\ UNCHANGED <<rootBlocks, rootQueue, accepted>>

(* LatestActiveRootBlock finds a root block however many empty slots were  *)
(* committed since the last accepted block: the window always holds a root *)
(* block, or one that waits in the pool and will not be too old.           *)
ActiveWindowHasRoot ==
    \E b \in rootBlocks \cup ToSet(rootQueue) : InRange(b)
=============================================================================
