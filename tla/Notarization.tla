---------------------------- MODULE Notarization ----------------------------
(***************************************************************************)
(* Slot commitments: slotnotarization.Manager with its SlotMutations.      *)
(*                                                                         *)
(* Three goroutines create commitments: the single worker that notarizes   *)
(* accepted blocks ("worker"), the operator's ForceCommitUntil ("force")   *)
(* and warp sync's ForceCommit ("warp").  createCommitment runs under      *)
(* commitmentMutex, but its stages take effect one after the other, the    *)
(* worker's notarizeAcceptedBlock does not take that mutex, and the        *)
(* callers choose the slot before they hold it.                            *)
(***************************************************************************)
EXTENDS Integers, Sequences, FiniteSets

CONSTANTS
    Block,              \* blocks the gadget may accept
    SlotOf,             \* the slot of a block
    ValidationBlock,    \* those of them that attest
    MinCommittableAge,
    MaxSlot,            \* bound: the last slot of the model
    MaxForceCalls,      \* bound: calls of ForceCommitUntil
    MaxFaults           \* bound: failing stages, resets and restarts

Slot == 0 .. MaxSlot
Thread == {"worker", "force", "warp"}

ASSUME BlockAssumption == SlotOf \in [Block -> 1 .. MaxSlot] /\ ValidationBlock \subseteq Block
ASSUME AgeAssumption == MinCommittableAge \in Nat \ {0}
ASSUME BoundAssumption == {MaxSlot, MaxForceCalls, MaxFaults} \subseteq Nat

VARIABLES
    accepted,           \* blocks BlockAccepted was triggered for
    queue,              \* AcceptedBlockProcessed events the worker has not handled
    notarized,          \* Block.notarized
    acceptedBlocks,     \* SlotMutations.acceptedBlocksBySlot
    mutationsSlot,      \* SlotMutations.latestCommittedSlot
    attestations,       \* futureAttestations of the attestation manager, per slot
    attestationsSlot,   \* lastCommittedSlot of the attestation manager
    ledgerSlot,         \* the slot of the UTXO ledger, on disk
    latestCommitment,   \* the slot of Settings().LatestCommitment(), on disk
    commitments,        \* the commitments stored per slot, on disk
    latestNonEmptySlot, \* Settings().LatestNonEmptySlot(), on disk
    forceCommitMode,    \* Manager.ForceCommitMode
    mutex,              \* the holder of commitmentMutex, or "free"
    pc, index, target,  \* per thread: where it is, its slot i, the end of its loop
    building,           \* what createCommitment has collected so far
    panicked,           \* CommitSlot of the ledger panicked
    forceCalls, faults,
    added,              \* history: blocks AddAcceptedBlock took
    failed,             \* history: slots an attempt to commit failed for
    forced,             \* history: slots ForceCommitUntil tried to commit
    warped              \* history: slots warp sync tried to commit

input == <<accepted, queue, notarized>>
memory == <<acceptedBlocks, mutationsSlot, attestations, attestationsSlot>>
disk == <<ledgerSlot, latestCommitment, commitments, latestNonEmptySlot>>
control == <<mutex, pc, index, target, building>>
bounds == <<forceCalls, faults>>
history == <<added, failed, forced, warped>>
vars == <<input, memory, disk, forceCommitMode, control, panicked, bounds, history>>

Empty == [s \in Slot |-> {}]
Nothing == [blocks |-> {}, attestations |-> {}]
BlocksOf(blocks, s) == {b \in blocks : SlotOf[b] = s}

Commitment == [blocks : SUBSET Block, attestations : SUBSET Block]

Init ==
    /\ accepted = {} /\ queue = <<>> /\ notarized = {}
    /\ acceptedBlocks = Empty /\ mutationsSlot = 0
    /\ attestations = Empty /\ attestationsSlot = 0
    /\ ledgerSlot = 0 /\ latestCommitment = 0 /\ latestNonEmptySlot = 0
    /\ commitments = [s \in Slot |-> Nothing]
    /\ forceCommitMode = FALSE
    /\ mutex = "free" /\ pc = [t \in Thread |-> "idle"]
    /\ index = [t \in Thread |-> 0] /\ target = [t \in Thread |-> 0]
    /\ building = Nothing /\ panicked = FALSE
    /\ forceCalls = 0 /\ faults = 0
    /\ added = {} /\ failed = {} /\ forced = {} /\ warped = {}

Goto(t, label) == pc' = [pc EXCEPT ![t] = label]

-----------------------------------------------------------------------------
(* The worker. *)

(* acceptanceHandler, as far as notarization is concerned.  In warp-sync   *)
(* mode an engine gets no blocks other than those of the commitment it is  *)
(* about to force.                                                         *)
BlockAccepted(b) ==
    /\ ~panicked /\ b \notin accepted /\ SlotOf[b] > latestCommitment
    /\ pc["warp"] # "idle" => SlotOf[b] # index["warp"]
    /\ accepted' = accepted \cup {b}
    /\ queue' = Append(queue, b)
    /\ UNCHANGED <<notarized, memory, disk, forceCommitMode, control, panicked, bounds, history>>

(* Mutant: a block of a committed slot is taken. *)
AddAcceptedBlockUnchecked ==
    /\ ~panicked /\ pc["worker"] = "idle" /\ queue # <<>>
    /\ acceptedBlocks' = [acceptedBlocks EXCEPT ![SlotOf[Head(queue)]] = @ \cup {Head(queue)}]
    /\ added' = added \cup {Head(queue)}
    /\ Goto("worker", "attest")
    /\ UNCHANGED <<input, mutationsSlot, attestations, attestationsSlot, disk, forceCommitMode,
                   mutex, index, target, building, panicked, bounds, failed, forced, warped>>

(* notarizeAcceptedBlock, first half.  An error skips the attestation. *)
AddAcceptedBlock ==
    /\ ~panicked /\ pc["worker"] = "idle" /\ queue # <<>>
    /\ LET b == Head(queue)
       IN  \/ /\ SlotOf[b] <= mutationsSlot
              /\ Goto("worker", "try")
              /\ UNCHANGED <<acceptedBlocks, added>>
           \/ /\ SlotOf[b] > mutationsSlot
              /\ acceptedBlocks' = [acceptedBlocks EXCEPT ![SlotOf[b]] = @ \cup {b}]
              /\ added' = added \cup {b}
              /\ Goto("worker", "attest")
    /\ UNCHANGED <<input, mutationsSlot, attestations, attestationsSlot, disk, forceCommitMode,
                   mutex, index, target, building, panicked, bounds, failed, forced, warped>>

(* notarizeAcceptedBlock, second half: the attestation manager ignores     *)
(* blocks of committed slots.                                              *)
AddAttestationFromValidationBlock ==
    /\ ~panicked /\ pc["worker"] = "attest"
    /\ LET b == Head(queue)
       IN  attestations' = IF b \in ValidationBlock /\ SlotOf[b] > attestationsSlot
                           THEN [attestations EXCEPT ![SlotOf[b]] = @ \cup {b}] ELSE attestations
    /\ Goto("worker", "try")
    /\ UNCHANGED <<input, acceptedBlocks, mutationsSlot, attestationsSlot, disk, forceCommitMode,
                   mutex, index, target, building, panicked, bounds, history>>

(* tryCommitUntil and the initialization of the loop in tryCommitSlotUntil. *)
TryCommitUntil ==
    /\ ~panicked /\ pc["worker"] = "try"
    /\ LET slot == SlotOf[Head(queue)]
       IN  \/ /\ forceCommitMode \/ slot <= latestCommitment
              /\ Goto("worker", "done")
              /\ UNCHANGED <<index, target>>
           \/ /\ ~forceCommitMode /\ slot > latestCommitment
              /\ Goto("worker", "loop")
              /\ index' = [index EXCEPT !["worker"] = latestCommitment + 1]
              /\ target' = [target EXCEPT !["worker"] = slot]
    /\ UNCHANGED <<input, memory, disk, forceCommitMode, mutex, building, panicked, bounds, history>>

(* Mutant: < in place of <=. *)
IsCommittableLater(slot, acceptedBlockSlot) == slot + MinCommittableAge < acceptedBlockSlot

IsCommittable(slot, acceptedBlockSlot) == slot + MinCommittableAge <= acceptedBlockSlot

(* The head of the loop in tryCommitSlotUntil. *)
TryCommitSlot ==
    /\ ~panicked /\ pc["worker"] = "loop"
    /\ Goto("worker", IF IsCommittable(index["worker"], target["worker"]) THEN "lock" ELSE "done")
    /\ UNCHANGED <<input, memory, disk, forceCommitMode, mutex, index, target, building, panicked, bounds, history>>

(* The end of the worker's handler. *)
SetNotarized ==
    /\ ~panicked /\ pc["worker"] = "done"
    /\ notarized' = notarized \cup {Head(queue)}
    /\ queue' = Tail(queue)
    /\ pc' = [pc EXCEPT !["worker"] = "idle"]
    /\ index' = [index EXCEPT !["worker"] = 0] /\ target' = [target EXCEPT !["worker"] = 0]
    /\ UNCHANGED <<accepted, memory, disk, forceCommitMode, mutex, building, panicked, bounds, history>>

-----------------------------------------------------------------------------
(* The callers that force commitments. *)

(* ForceCommitUntil up to its loop; a call during another one has no effect. *)
ForceCommitUntil(slot) ==
    /\ ~panicked /\ pc["force"] = "idle" /\ forceCalls < MaxForceCalls
    /\ forceCalls' = forceCalls + 1
    /\ \/ /\ forceCommitMode
          /\ UNCHANGED <<forceCommitMode, pc, index, target>>
       \/ /\ ~forceCommitMode
          /\ forceCommitMode' = TRUE
          /\ Goto("force", "loop")
          /\ index' = [index EXCEPT !["force"] = latestCommitment + 1]
          /\ target' = [target EXCEPT !["force"] = slot]
    /\ UNCHANGED <<input, memory, disk, mutex, building, panicked, faults, history>>

(* Mutant: the loop goes one slot too far. *)
ForceCommitNextPast ==
    /\ ~panicked /\ pc["force"] = "loop" /\ index["force"] <= target["force"] + 1
    /\ Goto("force", "lock")
    /\ forced' = forced \cup {index["force"]}
    /\ UNCHANGED <<input, memory, disk, forceCommitMode, mutex, index, target, building, panicked, bounds, added, failed, warped>>

(* The head of its loop.  The acceptance time ForceCommit gives to tip     *)
(* selection is never read here.                                           *)
ForceCommitNext ==
    /\ ~panicked /\ pc["force"] = "loop" /\ index["force"] <= target["force"]
    /\ Goto("force", "lock")
    /\ forced' = forced \cup {index["force"]}
    /\ UNCHANGED <<input, memory, disk, forceCommitMode, mutex, index, target, building, panicked, bounds, added, failed, warped>>

(* Its loop ends. *)
ForceCommitUntilReturns ==
    /\ ~panicked /\ pc["force"] = "loop" /\ index["force"] > target["force"]
    /\ forceCommitMode' = FALSE
    /\ Goto("force", "idle")
    /\ index' = [index EXCEPT !["force"] = 0] /\ target' = [target EXCEPT !["force"] = 0]
    /\ UNCHANGED <<input, memory, disk, mutex, building, panicked, bounds, history>>

(* Mutant: warp sync does not wait for the blocks to be notarized. *)
ForceCommitEarly(slot) ==
    /\ ~panicked /\ pc["warp"] = "idle" /\ slot = latestCommitment + 1
    /\ Goto("warp", "lock")
    /\ index' = [index EXCEPT !["warp"] = slot]
    /\ warped' = warped \cup {slot}
    /\ UNCHANGED <<input, memory, disk, forceCommitMode, mutex, target, building, panicked, bounds, added, failed, forced>>

(* ForceCommit as warp sync calls it: the parent of the commitment is      *)
(* verified and all the blocks of the slot are notarized.                  *)
ForceCommit(slot) ==
    /\ ~panicked /\ pc["warp"] = "idle" /\ slot = latestCommitment + 1
    /\ BlocksOf(accepted, slot) \subseteq notarized
    /\ Goto("warp", "lock")
    /\ index' = [index EXCEPT !["warp"] = slot]
    /\ warped' = warped \cup {slot}
    /\ UNCHANGED <<input, memory, disk, forceCommitMode, mutex, target, building, panicked, bounds, added, failed, forced>>

-----------------------------------------------------------------------------
(* createCommitment, one action per stage. *)

(* What the caller of createCommitment does with an error: the worker ends *)
(* its loop, ForceCommitUntil returns at once, warp sync gives up.         *)
ReturnError(t) ==
    /\ Goto(t, IF t = "worker" THEN "done" ELSE "idle")
    /\ index' = [index EXCEPT ![t] = 0] /\ target' = [target EXCEPT ![t] = 0]

(* What it does with a commitment. *)
ReturnCommitment(t) ==
    /\ Goto(t, IF t = "warp" THEN "idle" ELSE "loop")
    /\ index' = [index EXCEPT ![t] = IF t = "warp" THEN 0 ELSE @ + 1]
    /\ UNCHANGED target

(* The mutex is taken; a slot that does not follow the latest commitment   *)
(* is an error.                                                            *)
Lock(t) ==
    /\ ~panicked /\ pc[t] = "lock" /\ mutex = "free"
    /\ \/ /\ index[t] # latestCommitment + 1
          /\ ReturnError(t) /\ UNCHANGED mutex
       \/ /\ index[t] = latestCommitment + 1
          /\ mutex' = t /\ Goto(t, "mutations") /\ UNCHANGED <<index, target>>
    /\ UNCHANGED <<input, memory, disk, forceCommitMode, building, panicked, bounds, history>>

(* SlotMutations.Commit. *)
CommitMutations(t) ==
    /\ ~panicked /\ pc[t] = "mutations"
    /\ building' = [building EXCEPT !.blocks = acceptedBlocks[index[t]]]
    /\ acceptedBlocks' = [acceptedBlocks EXCEPT ![index[t]] = {}]
    /\ mutationsSlot' = index[t]
    /\ Goto(t, "attestations")
    /\ UNCHANGED <<input, attestations, attestationsSlot, disk, forceCommitMode,
                   mutex, index, target, panicked, bounds, history>>

(* Commit of the attestation manager. *)
CommitAttestations(t) ==
    /\ ~panicked /\ pc[t] = "attestations"
    /\ building' = [building EXCEPT !.attestations = attestations[index[t]]]
    /\ attestations' = [attestations EXCEPT ![index[t]] = {}]
    /\ attestationsSlot' = index[t]
    /\ Goto(t, "ledger")
    /\ UNCHANGED <<input, acceptedBlocks, mutationsSlot, disk, forceCommitMode,
                   mutex, index, target, panicked, bounds, history>>

(* CommitSlot of the ledger, up to ApplyDiff: a slot that does not follow  *)
(* the ledger's panics.                                                    *)
CommitLedger(t) ==
    /\ ~panicked /\ pc[t] = "ledger"
    /\ \/ /\ index[t] # ledgerSlot + 1
          /\ panicked' = TRUE /\ UNCHANGED <<ledgerSlot, pc>>
       \/ /\ index[t] = ledgerSlot + 1
          /\ ledgerSlot' = index[t] /\ Goto(t, "store") /\ UNCHANGED panicked
    /\ UNCHANGED <<input, memory, latestCommitment, commitments, latestNonEmptySlot, forceCommitMode,
                   mutex, index, target, building, bounds, history>>

(* Mutant: the commitment is stored under the slot of its parent. *)
StoreCommitmentAtParent(t) ==
    /\ ~panicked /\ pc[t] = "store"
    /\ commitments' = [commitments EXCEPT ![latestCommitment] = building]
    /\ Goto(t, "settings")
    /\ UNCHANGED <<input, memory, ledgerSlot, latestCommitment, latestNonEmptySlot, forceCommitMode,
                   mutex, index, target, building, panicked, bounds, history>>

(* The stages from there to Commitments().Store: what they change belongs  *)
(* to other modules.                                                       *)
StoreCommitment(t) ==
    /\ ~panicked /\ pc[t] = "store"
    /\ commitments' = [commitments EXCEPT ![index[t]] = building]
    /\ Goto(t, "settings")
    /\ UNCHANGED <<input, memory, ledgerSlot, latestCommitment, latestNonEmptySlot, forceCommitMode,
                   mutex, index, target, building, panicked, bounds, history>>

(* SetLatestCommitment, AdvanceLatestNonEmptySlot, unlock and return. *)
SetLatestCommitment(t) ==
    /\ ~panicked /\ pc[t] = "settings"
    /\ latestCommitment' = index[t]
    /\ latestNonEmptySlot' = IF building.blocks # {} THEN index[t] ELSE latestNonEmptySlot
    /\ mutex' = "free" /\ building' = Nothing
    /\ ReturnCommitment(t)
    /\ UNCHANGED <<input, memory, ledgerSlot, commitments, forceCommitMode, panicked, bounds, history>>

Stage == {"attestations", "ledger", "store", "settings"}

(* Mutant: an error returns without the deferred unlock. *)
StageFailsLocked(t) ==
    /\ ~panicked /\ pc[t] \in Stage /\ faults < MaxFaults
    /\ faults' = faults + 1 /\ failed' = failed \cup {index[t]}
    /\ building' = Nothing /\ ReturnError(t)
    /\ UNCHANGED <<input, memory, disk, forceCommitMode, mutex, panicked, forceCalls, added, forced, warped>>

(* A stage returns an error and createCommitment with it.  Nothing of the  *)
(* earlier stages is undone.  Commit of the attestation manager has        *)
(* already dropped the slot's attestations when it fails.                  *)
StageFails(t) ==
    /\ ~panicked /\ pc[t] \in Stage /\ faults < MaxFaults
    /\ faults' = faults + 1 /\ failed' = failed \cup {index[t]}
    /\ attestations' = IF pc[t] = "attestations" THEN [attestations EXCEPT ![index[t]] = {}] ELSE attestations
    /\ mutex' = "free" /\ building' = Nothing /\ ReturnError(t)
    /\ UNCHANGED <<input, acceptedBlocks, mutationsSlot, attestationsSlot, disk, forceCommitMode,
                   panicked, forceCalls, added, forced, warped>>

-----------------------------------------------------------------------------

(* Engine.Reset, which warp sync's worker calls once the engine's workers  *)
(* are idle.  The block cache is emptied: blocks can be accepted anew.     *)
Reset ==
    /\ ~panicked /\ faults < MaxFaults /\ queue = <<>> /\ pc["worker"] = "idle" /\ pc["warp"] = "idle"
    /\ faults' = faults + 1
    /\ accepted' = {} /\ notarized' = {}
    /\ acceptedBlocks' = Empty /\ attestations' = Empty
    /\ added' = {b \in added : SlotOf[b] <= mutationsSlot}
    /\ UNCHANGED <<queue, mutationsSlot, attestationsSlot, disk, forceCommitMode, control,
                   panicked, forceCalls, failed, forced, warped>>

(* The node stops, whatever it is doing, and starts from its disk. *)
Restart ==
    /\ faults < MaxFaults
    /\ faults' = faults + 1
    /\ accepted' = {} /\ queue' = <<>> /\ notarized' = {}
    /\ acceptedBlocks' = Empty /\ attestations' = Empty
    /\ mutationsSlot' = latestCommitment /\ attestationsSlot' = latestCommitment
    /\ forceCommitMode' = FALSE /\ panicked' = FALSE
    /\ mutex' = "free" /\ pc' = [t \in Thread |-> "idle"] /\ building' = Nothing
    /\ index' = [t \in Thread |-> 0] /\ target' = [t \in Thread |-> 0]
    /\ added' = {b \in added : SlotOf[b] <= latestCommitment}
    /\ UNCHANGED <<disk, forceCalls, failed, forced, warped>>

CreateCommitment(t) ==
    \/ Lock(t)
    \/ CommitMutations(t)
    \/ CommitAttestations(t)
    \/ CommitLedger(t)
    \/ StoreCommitment(t)
    \/ SetLatestCommitment(t)

Worker ==
    \/ AddAcceptedBlock
    \/ AddAttestationFromValidationBlock
    \/ TryCommitUntil
    \/ TryCommitSlot
    \/ SetNotarized

Next ==
    \/ \E b \in Block : BlockAccepted(b)
    \/ Worker
    \/ \E s \in Slot : ForceCommitUntil(s) \/ ForceCommit(s)
    \/ ForceCommitNext
    \/ ForceCommitUntilReturns
    \/ \E t \in Thread : CreateCommitment(t) \/ StageFails(t)
    \/ Reset
    \/ Restart

(* Every goroutine that runs keeps running; a mutex that is released is    *)
(* eventually handed to each goroutine that waits for it.                  *)
Fairness ==
    /\ WF_vars(Worker) /\ WF_vars(ForceCommitNext) /\ WF_vars(ForceCommitUntilReturns)
    /\ \A t \in Thread : SF_vars(CreateCommitment(t))

Spec == Init /\ [][Next]_vars /\ Fairness

-----------------------------------------------------------------------------
(* What the notarization manager guarantees. *)

(* The types of the manager's state. *)
TypeOK ==
    /\ accepted \in SUBSET Block /\ notarized \in SUBSET Block /\ added \in SUBSET Block
    /\ queue \in Seq(Block)
    /\ acceptedBlocks \in [Slot -> SUBSET Block] /\ attestations \in [Slot -> SUBSET Block]
    /\ {mutationsSlot, attestationsSlot, ledgerSlot, latestCommitment, latestNonEmptySlot} \subseteq Slot
    /\ commitments \in [Slot -> Commitment] /\ building \in Commitment
    /\ mutex \in Thread \cup {"free"}
    /\ pc \in [Thread -> Stage \cup {"idle", "attest", "try", "loop", "lock", "done", "mutations"}]
    /\ index \in [Thread -> 0 .. MaxSlot + 1] /\ target \in [Thread -> Slot]
    /\ forceCommitMode \in BOOLEAN /\ panicked \in BOOLEAN
    /\ failed \in SUBSET Slot /\ forced \in SUBSET Slot /\ warped \in SUBSET Slot

(* A commitment contains exactly the blocks that AddAcceptedBlock took for *)
(* its slot, whichever goroutine created it and whatever was reset before, *)
(* unless an earlier attempt for the slot failed half-way.                 *)
CommittedBlocksAreExact ==
    \A s \in 1 .. latestCommitment \ failed : commitments[s].blocks = BlocksOf(added, s)

(* A commitment that warp sync or the worker created counts the            *)
(* attestations of exactly its validation blocks.  ForceCommitUntil is     *)
(* exempt: it may run between the two halves of notarizeAcceptedBlock.     *)
AttestationsMatchBlocks ==
    \A s \in 1 .. latestCommitment \ (failed \cup forced) :
        commitments[s].attestations = commitments[s].blocks \cap ValidationBlock

(* While nothing failed and nobody forced a commitment, an idle worker has *)
(* left no committable slot uncommitted.                                   *)
NoCommittableSlotLeft ==
    pc["worker"] = "idle" /\ failed = {} /\ warped = {} /\ forceCalls = 0
    => \A b \in notarized : SlotOf[b] - MinCommittableAge <= latestCommitment

(* Commitments form one chain that only grows at its end: the latest       *)
(* commitment moves one slot at a time and no commitment at or below it is *)
(* replaced.                                                               *)
CommitmentsAreFinal ==
    [][/\ latestCommitment' \in {latestCommitment, latestCommitment + 1}
       /\ \A s \in 1 .. latestCommitment : commitments'[s] = commitments[s]]_vars

(* Every accepted block is notarized in the end, unless the node restarts  *)
(* or panics: no error, no forced commitment and no waiting for the mutex  *)
(* stops the worker.                                                       *)
AcceptedBlocksAreNotarized ==
    \A b \in Block : b \in accepted ~> (b \in notarized \/ b \notin accepted \/ panicked)

(* "force commitment already in progress": ForceCommitMode is only set     *)
(* while a call of ForceCommitUntil runs.                                  *)
ForceCommitInProgress ==
    forceCommitMode => pc["force"] # "idle"

(* "there is a gap in the ledgerstate": the panic in CommitSlot of the     *)
(* ledger is unreachable.                                                  *)
NoGapInLedgerState == ~panicked
=============================================================================
