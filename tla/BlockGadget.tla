---------------------------- MODULE BlockGadget ----------------------------
(***************************************************************************)
(* Acceptance and confirmation of blocks: thresholdblockgadget.Gadget.     *)
(*                                                                         *)
(* One worker runs TrackWitnessWeight for the booked blocks, one at a      *)
(* time, in any order: the booker triggers BlockBooked of a block after    *)
(* its children may have been booked.  A block of a committee member is a  *)
(* witness of its past cone.  The witness walk pre-accepts and             *)
(* pre-confirms blocks; every block newly pre-accepted (pre-confirmed)     *)
(* then starts a walk of its own that ratifies, and so accepts (confirms), *)
(* its past cone.                                                          *)
(*                                                                         *)
(* The filter updates the online committee and the eviction removes blocks *)
(* from the cache in goroutines of their own, so both may happen between   *)
(* any two blocks of a walk: a walk is modelled one block per step.        *)
(***************************************************************************)
EXTENDS Integers, FiniteSets, Sequences, Functions

CONSTANTS
    Block,            \* the blocks of the DAG
    NoBlock,          \* no block: the worker is idle
    RootBlock,        \* those that are root blocks
    Parents,          \* Block.Parents(): a sequence per block
    SlotOf,           \* the slot of each block
    EpochOf,          \* TimeProvider.EpochFromSlot, per slot
    Seat,             \* account.SeatIndex
    SeatOf,           \* the seat of the issuer of a validation block
    NoSeat,           \* other blocks have no seat
    SeatCount,        \* SeatManager.SeatCountInSlot, per slot
    MaxOnlineChanges, \* bound: changes of the online committee
    OnlineChangesMidWalk \* whether they may happen while the worker walks

ConfirmationRatificationThreshold == 2

ASSUME DAGAssumption ==
    /\ RootBlock \subseteq Block /\ NoBlock \notin Block
    /\ Parents \in [Block -> Seq(Block)]
    /\ SlotOf \in [Block -> Nat]
    /\ \A b \in Block : \A p \in Range(Parents[b]) : SlotOf[p] <= SlotOf[b]
ASSUME SeatAssumption ==
    /\ IsFiniteSet(Seat) /\ NoSeat \notin Seat
    /\ SeatOf \in [Block -> Seat \cup {NoSeat}]
    /\ SeatCount \in [Range(SlotOf) -> Nat]
    /\ EpochOf \in [Range(SlotOf) -> Nat]
ASSUME BoundAssumption == MaxOnlineChanges \in Nat /\ OnlineChangesMidWalk \in BOOLEAN

VARIABLES
    witnesses, acceptanceRatifiers, confirmationRatifiers,  \* seats per block
    preAccepted, accepted, preConfirmed, confirmed,         \* flags, as sets of blocks
    weightPropagated,  \* flag: TrackWitnessWeight returned for the block
    online,            \* SeatManager.OnlineCommittee()
    onlineChanges,     \* changes of it so far
    lastEvictedSlot,   \* blocks up to this slot left the cache
    pc,                \* what the worker does
    votingBlock,       \* the block TrackWitnessWeight runs for
    ratifierBlock,     \* the block that ratifies its past cone
    walk,              \* the queue of the walker
    visited,           \* the blocks it has visited
    collected,         \* toPreAccept, toAccept or toConfirm of this walk
    collectedConfirm,  \* toPreConfirm of the witness walk
    toRatify           \* blocks still to start a ratifying walk, with its kind

flags == <<preAccepted, accepted, preConfirmed, confirmed, weightPropagated>>
seats == <<witnesses, acceptanceRatifiers, confirmationRatifiers>>
environment == <<online, onlineChanges, lastEvictedSlot>>
walker == <<walk, visited>>
vars == <<seats, flags, environment, pc, votingBlock, ratifierBlock, walker, collected, collectedConfirm, toRatify>>

Init ==
    /\ witnesses = [b \in Block |-> {}]
    /\ acceptanceRatifiers = [b \in Block |-> {}]
    /\ confirmationRatifiers = [b \in Block |-> {}]
    /\ preAccepted = RootBlock /\ accepted = RootBlock
    /\ preConfirmed = {} /\ confirmed = {} /\ weightPropagated = RootBlock
    /\ online \in (SUBSET Seat) \ {{}} /\ onlineChanges = 0 /\ lastEvictedSlot = 0
    /\ pc = "idle" /\ votingBlock = NoBlock /\ ratifierBlock = NoBlock
    /\ walk = <<>> /\ visited = {} /\ collected = <<>> /\ collectedConfirm = <<>>
    /\ toRatify = <<>>

-----------------------------------------------------------------------------

IsThresholdReached(objectWeight, totalWeight) ==
    totalWeight # 0 /\ objectWeight > (67 * totalWeight) \div 100

Epoch(b) == EpochOf[SlotOf[b]]
InCache(b) == SlotOf[b] > lastEvictedSlot
AnyChildIn(b, list) == \E c \in Range(list) : b \in Range(Parents[c])

(* Mutant: the walk also stops at pre-accepted blocks. *)
SkippedPreAccepted(b) == b \in visited \/ ~InCache(b) \/ b \in RootBlock \cup preAccepted

(* Mutant: the walk only looks at blocks of the committee. *)
SkippedBasic(b) == b \in visited \/ ~InCache(b) \/ b \in RootBlock \/ SeatOf[b] = NoSeat

(* propagate skips blocks that left the cache and root blocks.  The walker *)
(* queues no block twice; here a block queued again is skipped when its    *)
(* turn comes, which visits the blocks in the same order.                  *)
Skipped(b) == b \in visited \/ ~InCache(b) \/ b \in RootBlock

(* Mutant: the walk follows the first parent only. *)
AdvanceFirstParent(b, further) ==
    /\ walk' = IF further THEN Tail(walk) \o SubSeq(Parents[b], 1, 1) ELSE Tail(walk)
    /\ visited' = visited \cup {b}

(* The worker moves on to the parents of a block if it propagates further. *)
Advance(b, further) ==
    /\ walk' = IF further THEN Tail(walk) \o Parents[b] ELSE Tail(walk)
    /\ visited' = visited \cup {b}

StartWalk(b) == walk' = Parents[b] /\ visited' = {}

shouldPreConfirm(b, blockSeats) == IsThresholdReached(Cardinality(blockSeats), SeatCount[SlotOf[b]])

shouldPreAccept(b, blockSeats) ==
    shouldPreConfirm(b, blockSeats) \/ IsThresholdReached(Cardinality(blockSeats), Cardinality(online))

shouldAccept(b, blockSeats) == IsThresholdReached(Cardinality(blockSeats), Cardinality(online))

shouldConfirm(b, blockSeats) == IsThresholdReached(Cardinality(blockSeats), SeatCount[SlotOf[b]])

(* The closure process of TrackWitnessWeight. *)
PreAccepts(b, blockSeats) ==
    b \notin preAccepted /\ (shouldPreAccept(b, blockSeats) \/ AnyChildIn(b, collected))

PreConfirms(b, blockSeats) ==
    /\ b \notin preConfirmed /\ Epoch(votingBlock') = Epoch(b)
    /\ shouldPreConfirm(b, blockSeats) \/ AnyChildIn(b, collectedConfirm)

Prepend(b, list, condition) == IF condition THEN <<b>> \o list ELSE list

Process(b, blockSeats) ==
    /\ collected' = Prepend(b, collected, PreAccepts(b, blockSeats))
    /\ collectedConfirm' = Prepend(b, collectedConfirm, PreConfirms(b, blockSeats))

-----------------------------------------------------------------------------

(* Mutant: the early return misses the deferred flag. *)
SkipBlockForgotten(b) ==
    /\ pc = "idle" /\ b \notin weightPropagated /\ SeatOf[b] = NoSeat
    /\ UNCHANGED vars

(* TrackWitnessWeight up to its walk.  Blocks without a seat only get the  *)
(* deferred flag.                                                          *)
SkipBlock(b) ==
    /\ pc = "idle" /\ b \notin weightPropagated /\ SeatOf[b] = NoSeat
    /\ weightPropagated' = weightPropagated \cup {b}
    /\ UNCHANGED <<seats, preAccepted, accepted, preConfirmed, confirmed, environment, pc,
                   votingBlock, ratifierBlock, walker, collected, collectedConfirm, toRatify>>

TrackWitnessWeight(b) ==
    /\ pc = "idle" /\ b \notin weightPropagated /\ SeatOf[b] # NoSeat
    /\ pc' = "witness" /\ votingBlock' = b
    /\ witnesses' = [witnesses EXCEPT ![b] = @ \cup {SeatOf[b]}]
    /\ IF SeatOf[b] \in witnesses[b] THEN UNCHANGED <<collected, collectedConfirm>>
       ELSE Process(b, witnesses'[b])
    /\ StartWalk(b)
    /\ UNCHANGED <<acceptanceRatifiers, confirmationRatifiers, flags, environment, ratifierBlock, toRatify>>

(* The walk reaches a block it does not look at. *)
SkipVisit ==
    /\ pc \in {"witness", "accept", "confirm"} /\ walk # <<>> /\ Skipped(Head(walk))
    /\ walk' = Tail(walk)
    /\ UNCHANGED <<seats, flags, environment, pc, votingBlock, ratifierBlock, visited,
                   collected, collectedConfirm, toRatify>>

(* evaluateFunc of TrackWitnessWeight. *)
VisitWitness ==
    /\ pc = "witness" /\ walk # <<>> /\ ~Skipped(Head(walk))
    /\ LET b == Head(walk)
           seat == SeatOf[votingBlock]
           new == witnesses[b] \cup {seat}
       IN  /\ witnesses' = [witnesses EXCEPT ![b] = new]
           /\ UNCHANGED votingBlock
           /\ Process(b, new)
           /\ Advance(b, seat \notin witnesses[b] \/ PreAccepts(b, new) \/ PreConfirms(b, new))
    /\ UNCHANGED <<acceptanceRatifiers, confirmationRatifiers, flags, environment, pc, ratifierBlock, toRatify>>

Tagged(list, kind) == [i \in DOMAIN list |-> <<list[i], kind>>]

(* Mutant: confirmation is ratified before acceptance. *)
ConfirmFirst ==
    /\ pc = "witness" /\ walk = <<>>
    /\ preAccepted' = preAccepted \cup Range(collected)
    /\ preConfirmed' = preConfirmed \cup Range(collectedConfirm)
    /\ toRatify' = Tagged(collectedConfirm, "confirm") \o Tagged(collected, "accept")
    /\ collected' = <<>> /\ collectedConfirm' = <<>>
    /\ pc' = "ratify" /\ visited' = {}
    /\ UNCHANGED <<seats, accepted, confirmed, weightPropagated, environment, votingBlock, ratifierBlock, walk>>

(* After the witness walk: the flags are set, and the blocks that got them *)
(* are to ratify, acceptance before confirmation.                          *)
SetPreAcceptedAndPreConfirmed ==
    /\ pc = "witness" /\ walk = <<>>
    /\ preAccepted' = preAccepted \cup Range(collected)
    /\ preConfirmed' = preConfirmed \cup Range(collectedConfirm)
    /\ toRatify' = Tagged(collected, "accept") \o Tagged(collectedConfirm, "confirm")
    /\ collected' = <<>> /\ collectedConfirm' = <<>>
    /\ pc' = "ratify" /\ visited' = {}
    /\ UNCHANGED <<seats, accepted, confirmed, weightPropagated, environment, votingBlock, ratifierBlock, walk>>

(* Mutant: blocks without a seat ratify as well. *)
StartRatificationUnchecked ==
    /\ pc = "ratify" /\ toRatify # <<>>
    /\ pc' = Head(toRatify)[2] /\ ratifierBlock' = Head(toRatify)[1]
    /\ StartWalk(Head(toRatify)[1])
    /\ toRatify' = Tail(toRatify)
    /\ UNCHANGED <<seats, flags, environment, votingBlock, collected, collectedConfirm>>

(* trackAcceptanceRatifierWeight and trackConfirmationRatifierWeight up to *)
(* their walks.                                                            *)
StartRatification ==
    /\ pc = "ratify" /\ toRatify # <<>>
    /\ LET b == Head(toRatify)[1]
       IN  \/ /\ SeatOf[b] = NoSeat
              /\ UNCHANGED <<pc, ratifierBlock, walker>>
           \/ /\ SeatOf[b] # NoSeat
              /\ pc' = Head(toRatify)[2] /\ ratifierBlock' = b
              /\ StartWalk(b)
    /\ toRatify' = Tail(toRatify)
    /\ UNCHANGED <<seats, flags, environment, votingBlock, collected, collectedConfirm>>

(* evaluateFunc of trackAcceptanceRatifierWeight. *)
VisitAcceptance ==
    /\ pc = "accept" /\ walk # <<>> /\ ~Skipped(Head(walk))
    /\ LET b == Head(walk)
           seat == SeatOf[ratifierBlock]
           new == acceptanceRatifiers[b] \cup {seat}
           accepts == AnyChildIn(b, collected) \/ shouldAccept(b, new)
       IN  \/ /\ b \in accepted
              /\ Advance(b, FALSE)
              /\ UNCHANGED <<acceptanceRatifiers, collected>>
           \/ /\ b \notin accepted
              /\ acceptanceRatifiers' = [acceptanceRatifiers EXCEPT ![b] = new]
              /\ collected' = Prepend(b, collected, accepts)
              /\ Advance(b, seat \notin acceptanceRatifiers[b] \/ accepts)
    /\ UNCHANGED <<witnesses, confirmationRatifiers, flags, environment, pc, votingBlock, ratifierBlock,
                   collectedConfirm, toRatify>>

(* Mutant: the epoch of the ratifier is not checked. *)
OutOfSlotRange(b) ==
    \/ /\ SlotOf[ratifierBlock] >= ConfirmationRatificationThreshold
       /\ SlotOf[b] <= SlotOf[ratifierBlock] - ConfirmationRatificationThreshold
    \/ b \in confirmed

(* evaluateFunc of trackConfirmationRatifierWeight: how far it walks. *)
OutOfConfirmationRange(b) ==
    \/ /\ SlotOf[ratifierBlock] >= ConfirmationRatificationThreshold
       /\ SlotOf[b] <= SlotOf[ratifierBlock] - ConfirmationRatificationThreshold
    \/ Epoch(ratifierBlock) # Epoch(b)
    \/ b \in confirmed

(* evaluateFunc of trackConfirmationRatifierWeight. *)
VisitConfirmation ==
    /\ pc = "confirm" /\ walk # <<>> /\ ~Skipped(Head(walk))
    /\ LET b == Head(walk)
           seat == SeatOf[ratifierBlock]
           new == confirmationRatifiers[b] \cup {seat}
       IN  \/ /\ OutOfConfirmationRange(b)
              /\ Advance(b, FALSE)
              /\ UNCHANGED <<confirmationRatifiers, collected>>
           \/ /\ ~OutOfConfirmationRange(b)
              /\ confirmationRatifiers' = [confirmationRatifiers EXCEPT ![b] = new]
              /\ collected' = Prepend(b, collected, shouldConfirm(b, new))
              /\ Advance(b, seat \notin confirmationRatifiers[b] \/ shouldConfirm(b, new))
    /\ UNCHANGED <<witnesses, acceptanceRatifiers, flags, environment, pc, votingBlock, ratifierBlock,
                   collectedConfirm, toRatify>>

(* The loops after the walks: one event per step. *)
TriggerAccepted ==
    /\ pc = "accept" /\ walk = <<>> /\ collected # <<>>
    /\ accepted' = accepted \cup {Head(collected)}
    /\ collected' = Tail(collected)
    /\ UNCHANGED <<seats, preAccepted, preConfirmed, confirmed, weightPropagated, environment, pc,
                   votingBlock, ratifierBlock, walker, collectedConfirm, toRatify>>

TriggerConfirmed ==
    /\ pc = "confirm" /\ walk = <<>> /\ collected # <<>>
    /\ confirmed' = confirmed \cup {Head(collected)}
    /\ collected' = Tail(collected)
    /\ UNCHANGED <<seats, preAccepted, accepted, preConfirmed, weightPropagated, environment, pc,
                   votingBlock, ratifierBlock, walker, collectedConfirm, toRatify>>

EndRatification ==
    /\ pc \in {"accept", "confirm"} /\ walk = <<>> /\ collected = <<>>
    /\ pc' = "ratify" /\ ratifierBlock' = NoBlock /\ visited' = {}
    /\ UNCHANGED <<seats, flags, environment, votingBlock, walk, collected, collectedConfirm, toRatify>>

(* TrackWitnessWeight returns. *)
SetWeightPropagated ==
    /\ pc = "ratify" /\ toRatify = <<>>
    /\ weightPropagated' = weightPropagated \cup {votingBlock}
    /\ pc' = "idle" /\ votingBlock' = NoBlock
    /\ UNCHANGED <<seats, preAccepted, accepted, preConfirmed, confirmed, environment, ratifierBlock,
                   walker, collected, collectedConfirm, toRatify>>

-----------------------------------------------------------------------------

(* The activity tracker adds a seat that became active or removes one that *)
(* is inactive; the seat whose activity removes others stays.              *)
ChangeOnline(seat) ==
    /\ onlineChanges < MaxOnlineChanges /\ (OnlineChangesMidWalk \/ pc = "idle")
    /\ onlineChanges' = onlineChanges + 1
    /\ online' = IF seat \in online THEN online \ {seat} ELSE online \cup {seat}
    /\ online' # {}
    /\ UNCHANGED <<seats, flags, lastEvictedSlot, pc, votingBlock, ratifierBlock, walker, collected, collectedConfirm, toRatify>>

(* A slot is committed and its blocks leave the cache. *)
EvictSlot ==
    /\ \E b \in Block : SlotOf[b] > lastEvictedSlot + 1
    /\ lastEvictedSlot' = lastEvictedSlot + 1
    /\ UNCHANGED <<seats, flags, online, onlineChanges, pc, votingBlock, ratifierBlock, walker, collected, collectedConfirm, toRatify>>

Worker ==
    \/ \E b \in Block : SkipBlock(b) \/ TrackWitnessWeight(b)
    \/ SkipVisit \/ VisitWitness \/ SetPreAcceptedAndPreConfirmed
    \/ StartRatification \/ VisitAcceptance \/ VisitConfirmation
    \/ TriggerAccepted \/ TriggerConfirmed \/ EndRatification \/ SetWeightPropagated

Next ==
    \/ Worker
    \/ \E seat \in Seat : ChangeOnline(seat)
    \/ EvictSlot

(* The worker of the gadget's pool keeps running. *)
Spec == Init /\ [][Next]_vars /\ WF_vars(Worker)

-----------------------------------------------------------------------------
Kind == {"accept", "confirm"}

TypeOK ==
    /\ witnesses \in [Block -> SUBSET Seat]
    /\ acceptanceRatifiers \in [Block -> SUBSET Seat]
    /\ confirmationRatifiers \in [Block -> SUBSET Seat]
    /\ preAccepted \in SUBSET Block /\ accepted \in SUBSET Block
    /\ preConfirmed \in SUBSET Block /\ confirmed \in SUBSET Block
    /\ weightPropagated \in SUBSET Block
    /\ online \in SUBSET Seat /\ onlineChanges \in 0 .. MaxOnlineChanges /\ lastEvictedSlot \in Nat
    /\ pc \in {"idle", "witness", "ratify"} \cup Kind
    /\ votingBlock \in Block \cup {NoBlock} /\ ratifierBlock \in Block \cup {NoBlock}
    /\ pc # "idle" => votingBlock \in Block
    /\ pc \in Kind => ratifierBlock \in Block
    /\ walk \in Seq(Block) /\ visited \in SUBSET Block
    /\ collected \in Seq(Block) /\ collectedConfirm \in Seq(Block)
    /\ toRatify \in Seq(Block \X Kind)

(* The blocks of the DAG whose past cone still matters to the walks. *)
Live(b) == InCache(b) /\ b \notin RootBlock

(* Between two blocks of the worker a parent has every witness its child   *)
(* has, although a walk stops where the witness is not new.                *)
WitnessesReachParents ==
    pc = "idle" => \A c \in Block : \A p \in Range(Parents[c]) :
        Live(p) => witnesses[c] \subseteq witnesses[p]

(* The same for the acceptance ratifiers of a parent that is not accepted. *)
RatifiersReachParents ==
    pc = "idle" => \A c \in Block : \A p \in Range(Parents[c]) :
        Live(p) /\ p \notin accepted => acceptanceRatifiers[c] \subseteq acceptanceRatifiers[p]

(* "Once a block is accepted, all its parents are implicitly accepted": no *)
(* accepted block keeps a parent that is not accepted.                     *)
AcceptanceIsMonotone ==
    pc = "idle" => \A c \in accepted : \A p \in Range(Parents[c]) :
        Live(p) => p \in accepted

(* The same for pre-acceptance. *)
PreAcceptanceIsMonotone ==
    pc = "idle" => \A c \in preAccepted : \A p \in Range(Parents[c]) :
        Live(p) => p \in preAccepted

(* A confirmed block is accepted and a pre-confirmed one pre-accepted: the *)
(* whole committee is never smaller than its online part, although the two *)
(* are tracked by separate walks with separate seats.                      *)
ConfirmedIsAccepted == confirmed \subseteq accepted /\ preConfirmed \subseteq preAccepted

(* The blocks that b refers to, directly or not: those in every set that   *)
(* holds the parents of b and of all its members.                          *)
PastCone(b) ==
    {a \in Block : \A S \in SUBSET Block :
        /\ Range(Parents[b]) \subseteq S
        /\ \A x \in S : Range(Parents[x]) \subseteq S
        => a \in S}

PastConeOf == [b \in Block |-> PastCone(b)]

(* Every seat counted for a block belongs to a committee block that refers *)
(* to it, that is pre-accepted or pre-confirmed if the seat ratifies, and  *)
(* that is of the same epoch and near enough if it confirms; a confirmed   *)
(* block has enough of those.                                              *)
SupportIsReal ==
    /\ \A b \in Block, s \in Seat : s \in witnesses[b] =>
         \E r \in Block : SeatOf[r] = s /\ (b = r \/ b \in PastConeOf[r])
    /\ \A b \in Block, s \in Seat : s \in acceptanceRatifiers[b] =>
         \E r \in preAccepted : SeatOf[r] = s /\ b \in PastConeOf[r]
    /\ \A b \in Block, s \in Seat : s \in confirmationRatifiers[b] =>
         \E r \in preConfirmed :
            /\ SeatOf[r] = s /\ b \in PastConeOf[r] /\ Epoch(r) = Epoch(b)
            /\ SlotOf[r] < SlotOf[b] + ConfirmationRatificationThreshold
    /\ \A b \in confirmed : shouldConfirm(b, confirmationRatifiers[b])

(* The worker finishes every block. *)
EveryBlockPropagates == \A b \in Block : <>(b \in weightPropagated)
=============================================================================
