----------------------------- MODULE SlotGadget -----------------------------
(***************************************************************************)
(* Slot finalization: totalweightslotgadget.Gadget with the SlotTrackers   *)
(* it keeps, one per slot of the confirmed blocks.  A confirmed block is a *)
(* vote of its issuer for the slot of the commitment it carries and for    *)
(* every slot before it.  A slot is finalized when, within the blocks of   *)
(* ONE slot, enough distinct issuers voted for it.                         *)
(*                                                                         *)
(* A tracker that does not exist and a tracker without votes behave alike, *)
(* so slotTrackers is a total function and deleting a tracker empties it.  *)
(***************************************************************************)
EXTENDS Integers, FiniteSets

CONSTANTS
    Account,      \* the issuers of blocks
    MaxSlot,      \* bound: the last slot of the model
    SeatCount,    \* SeatManager.SeatCountInSlot, per slot
    MaxRestarts   \* bound: restarts and resets of the node

ASSUME AccountAssumption == IsFiniteSet(Account)
ASSUME MaxSlotAssumption == MaxSlot \in Nat
ASSUME MaxRestartsAssumption == MaxRestarts \in Nat

Slot == 0 .. MaxSlot

ASSUME SeatCountAssumption == SeatCount \in [Slot -> Nat \ {0}]

(***************************************************************************)
(* The committee of a later slot is never smaller than the one of an       *)
(* earlier slot.  The seat manager gives min(candidates, target) seats, so *)
(* this holds while enough candidates register; see NoGapInFinalization    *)
(* for what depends on it.                                                 *)
(***************************************************************************)
SeatCountNeverShrinks ==
    \A s, t \in Slot : s <= t => SeatCount[s] <= SeatCount[t]

VARIABLES
    votesPerIdentity,   \* per tracker: the highest slot each issuer voted for
    votersPerSlot,      \* per tracker: the issuers that voted for each slot
    lastFinalizedSlot,  \* Gadget.lastFinalizedSlot
    storedFinalized,    \* Settings().LatestFinalizedSlot(), on disk
    toTrigger,          \* finalizedSlots whose event is still to be triggered
    latestCommitted,    \* the slot of the latest commitment of the engine
    restarts,           \* restarts and resets so far
    castVotes,          \* history: highest slot voted for, per block slot and issuer
    finalized,          \* history: every slot the gadget finalized
    triggered,          \* history: every slot SlotFinalized was triggered for
    lost                \* history: finalized slots whose event a restart dropped

trackers == <<votesPerIdentity, votersPerSlot>>
history == <<castVotes, finalized, triggered, lost>>
vars == <<trackers, lastFinalizedSlot, storedFinalized, toTrigger, latestCommitted, restarts, history>>

NoVotes == [a \in Account |-> 0]
NoVoters == [s \in Slot |-> {}]
Max2(a, b) == IF a > b THEN a ELSE b

(* votes.IsThresholdReached with the threshold 0.67: int() truncates. *)
IsThresholdReached(objectWeight, totalWeight) ==
    totalWeight # 0 /\ objectWeight > (67 * totalWeight) \div 100

TypeOK ==
    /\ votesPerIdentity \in [Slot -> [Account -> Slot]]
    /\ votersPerSlot \in [Slot -> [Slot -> SUBSET Account]]
    /\ lastFinalizedSlot \in Slot /\ storedFinalized \in Slot /\ latestCommitted \in Slot
    /\ toTrigger \in SUBSET Slot
    /\ restarts \in 0 .. MaxRestarts
    /\ castVotes \in [Slot -> [Account -> Slot]]
    /\ finalized \in SUBSET Slot /\ triggered \in SUBSET Slot /\ lost \in SUBSET Slot

Init ==
    /\ votesPerIdentity = [b \in Slot |-> NoVotes]
    /\ votersPerSlot = [b \in Slot |-> NoVoters]
    /\ lastFinalizedSlot = 0 /\ storedFinalized = 0 /\ latestCommitted = 0
    /\ toTrigger = {} /\ restarts = 0
    /\ castVotes = [b \in Slot |-> NoVotes]
    /\ finalized = {} /\ triggered = {} /\ lost = {}

-----------------------------------------------------------------------------

(* Mutant: the voter is counted for the slot of the commitment alone. *)
AddedVotersOnlyLatest(b, a, prev, slot) ==
    [votersPerSlot[b] EXCEPT ![slot] = @ \cup {a}]

(* The loop of TrackVotes: the voter joins the slots above the cut-off and *)
(* above its previous vote, up to the new one.                             *)
AddedVoters(b, a, prev, slot) ==
    [s \in Slot |-> IF Max2(lastFinalizedSlot, prev) < s /\ s <= slot
                    THEN votersPerSlot[b][s] \cup {a} ELSE votersPerSlot[b][s]]

(* Mutant: >= in place of > in the threshold. *)
ReachedAtEquality(voters, s) == Cardinality(voters[s]) >= (67 * SeatCount[s]) \div 100

(* refreshSlotFinalization walks the slots the voter was added to and      *)
(* stops at the first one without enough voters.                           *)
Reached(voters, s) == IsThresholdReached(Cardinality(voters[s]), SeatCount[s])

(* Mutant: the loop ends before the new vote's slot. *)
NewlyFinalizedShort(voters, prev, slot) ==
    {s \in Slot : /\ Max2(lastFinalizedSlot, prev) < s /\ s < slot
                  /\ \A t \in Slot : Max2(lastFinalizedSlot, prev) < t /\ t <= s => Reached(voters, t)}

NewlyFinalized(voters, prev, slot) ==
    {s \in Slot : /\ Max2(lastFinalizedSlot, prev) < s /\ s <= slot
                  /\ \A t \in Slot : Max2(lastFinalizedSlot, prev) < t /\ t <= s => Reached(voters, t)}

(* Mutant: the finalized slot is not stored. *)
SetLastFinalizedSlotInMemory(new) ==
    IF new = {} THEN UNCHANGED <<lastFinalizedSlot, storedFinalized>>
    ELSE \E last \in new : /\ \A s \in new : s <= last
                           /\ lastFinalizedSlot' = last /\ UNCHANGED storedFinalized

(* setLastFinalizedSlot, once per slot of the loop, in ascending order:    *)
(* the last call wins.                                                     *)
SetLastFinalizedSlot(new) ==
    IF new = {} THEN UNCHANGED <<lastFinalizedSlot, storedFinalized>>
    ELSE \E last \in new : /\ \A s \in new : s <= last
                           /\ lastFinalizedSlot' = last /\ storedFinalized' = last

(* trackVotes, the part under the mutex, for a confirmed block of slot b   *)
(* with issuer a and a commitment of slot c.                               *)
(* The gadget runs in the worker that confirms blocks: the events of one   *)
(* block are triggered before the next block is tracked.                   *)
TrackVotes(b, c, a) ==
    /\ toTrigger = {}
    /\ c < b /\ c <= latestCommitted
    /\ castVotes' = [castVotes EXCEPT ![b][a] = Max2(@, c)]
    /\ LET prev == votesPerIdentity[b][a]
           updated == a \notin votersPerSlot[b][c] /\ c > prev
           voters == AddedVoters(b, a, prev, c)
           new == NewlyFinalized(voters, prev, c)
       IN  \/ /\ ~updated
              /\ UNCHANGED <<trackers, lastFinalizedSlot, storedFinalized, toTrigger, finalized>>
           \/ /\ updated
              /\ votesPerIdentity' = [votesPerIdentity EXCEPT ![b][a] = c]
              /\ votersPerSlot' = [votersPerSlot EXCEPT ![b] = voters]
              /\ SetLastFinalizedSlot(new)
              /\ toTrigger' = new
              /\ finalized' = finalized \cup new
    /\ UNCHANGED <<latestCommitted, restarts, triggered, lost>>

(* Mutant: the loop returns after the first event. *)
TriggerFirstOnly(s) ==
    /\ s \in toTrigger /\ \A t \in toTrigger : s <= t
    /\ toTrigger' = {}
    /\ triggered' = triggered \cup {s}
    /\ UNCHANGED <<trackers, lastFinalizedSlot, storedFinalized, latestCommitted, restarts, castVotes, finalized, lost>>

(* trackVotes, the loop after the mutex is released: SlotFinalized is      *)
(* triggered and the tracker of the finalized slot dropped.                *)
TriggerSlotFinalized(s) ==
    /\ s \in toTrigger /\ \A t \in toTrigger : s <= t
    /\ toTrigger' = toTrigger \ {s}
    /\ triggered' = triggered \cup {s}
    /\ votesPerIdentity' = [votesPerIdentity EXCEPT ![s] = NoVotes]
    /\ votersPerSlot' = [votersPerSlot EXCEPT ![s] = NoVoters]
    /\ UNCHANGED <<lastFinalizedSlot, storedFinalized, latestCommitted, restarts, castVotes, finalized, lost>>

(* The engine commits the next slot. *)
Commit ==
    /\ latestCommitted < MaxSlot
    /\ latestCommitted' = latestCommitted + 1
    /\ UNCHANGED <<trackers, lastFinalizedSlot, storedFinalized, toTrigger, restarts, history>>

(* Reset(latestCommitted), once the workers are idle: the trackers of the  *)
(* uncommitted slots go.                                                   *)
Reset ==
    /\ toTrigger = {} /\ restarts < MaxRestarts
    /\ restarts' = restarts + 1
    /\ votesPerIdentity' = [b \in Slot |-> IF latestCommitted < b THEN NoVotes ELSE votesPerIdentity[b]]
    /\ votersPerSlot' = [b \in Slot |-> IF latestCommitted < b THEN NoVoters ELSE votersPerSlot[b]]
    /\ UNCHANGED <<lastFinalizedSlot, storedFinalized, toTrigger, latestCommitted, history>>

(* Mutant: the gadget starts one slot below the stored one. *)
RestartBelow ==
    /\ restarts < MaxRestarts /\ restarts' = restarts + 1
    /\ lastFinalizedSlot' = storedFinalized - 1
    /\ UNCHANGED <<trackers, storedFinalized, toTrigger, latestCommitted, history>>

(* The node stops, possibly between two events, and a new gadget starts    *)
(* from the settings on disk.                                              *)
Restart ==
    /\ restarts < MaxRestarts
    /\ restarts' = restarts + 1
    /\ votesPerIdentity' = [b \in Slot |-> NoVotes]
    /\ votersPerSlot' = [b \in Slot |-> NoVoters]
    /\ lastFinalizedSlot' = storedFinalized
    /\ toTrigger' = {}
    /\ lost' = lost \cup toTrigger
    /\ UNCHANGED <<storedFinalized, latestCommitted, castVotes, finalized, triggered>>

Next ==
    \/ \E b, c \in Slot, a \in Account : TrackVotes(b, c, a)
    \/ \E s \in Slot : TriggerSlotFinalized(s)
    \/ Commit
    \/ Reset
    \/ Restart

(* The loop that triggers the events runs on the worker's goroutine and has *)
(* nothing to wait for.                                                     *)
Spec == Init /\ [][Next]_vars /\ WF_vars(\E s \in Slot : TriggerSlotFinalized(s))

-----------------------------------------------------------------------------
(* What slot finalization guarantees. *)

(* Every slot refreshSlotFinalization finalizes is backed by enough        *)
(* distinct issuers whose confirmed blocks, all of ONE slot, carry a       *)
(* commitment at or above it, whatever resets and restarts came between.   *)
FinalizedBySuperMajority ==
    \A s \in finalized : \E b \in Slot :
        IsThresholdReached(Cardinality({a \in Account : castVotes[b][a] >= s}), SeatCount[s])

(* While committees do not shrink, slots are finalized without gaps: the   *)
(* early stop of refreshSlotFinalization and its start at the voter's      *)
(* previous vote together never jump over a slot.                          *)
NoGapInFinalization ==
    SeatCountNeverShrinks => finalized = 1 .. lastFinalizedSlot

(* No finalization is missed: refreshSlotFinalization only looks at the    *)
(* slots of the latest vote, yet no tracker is ever left with enough       *)
(* voters for a slot that is not finalized.                                *)
NoQuorumLeftBehind ==
    SeatCountNeverShrinks =>
        \A b, s \in Slot : s > lastFinalizedSlot => ~Reached(votersPerSlot[b], s)

(* SlotFinalized is triggered in ascending order and never twice for one   *)
(* slot, not even after a restart, and finalization is never taken back.   *)
FinalizationOnlyAdvances ==
    [][/\ lastFinalizedSlot' >= lastFinalizedSlot
       /\ \A s \in triggered' \ triggered : \A t \in triggered : t < s
       /\ \A s \in triggered' \cap triggered : s \notin toTrigger']_vars

(* Every finalized slot is announced in the end or lost to a restart. *)
FinalizedSlotsAreAnnounced ==
    \A s \in Slot : s \in finalized ~> s \in triggered \cup lost
=============================================================================
