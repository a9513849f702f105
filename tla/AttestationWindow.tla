------------------------- MODULE AttestationWindow -------------------------
(***************************************************************************)
(* What the attestation manager promises, without its stores: the          *)
(* commitment of a slot counts, for every member of the committee, the     *)
(* greatest attestation of the window that ends with the slot.             *)
(*                                                                         *)
(* "If attestationCommitmentOffset=3 and commitment is 10, then the        *)
(* returned attestations are blocks from 7 to 10 that commit to at least   *)
(* 7."                                                                     *)
(***************************************************************************)
EXTENDS Integers, FiniteSets

CONSTANTS
    Issuer,             \* the accounts that ever sit in a committee
    Committee,          \* the committee of each slot
    None,               \* no attestation
    MaxCommittableAge,
    MaxSlot             \* bound: the last slot of the model

Slot == 0 .. MaxSlot

ASSUME SlotAssumption == MaxSlot \in Nat /\ MaxCommittableAge \in Nat \ {0}
ASSUME CommitteeAssumption == IsFiniteSet(Issuer) /\ Committee \in [Slot -> SUBSET Issuer]

(* An attestation is known by the slot of its block and the slot of the    *)
(* commitment the block carries.                                           *)
Attestation == [slot : Slot, commit : Slot]

ASSUME NoneAssumption == None \notin Attestation

VARIABLES
    added,              \* the attestations taken from accepted blocks, per issuer
    committed,          \* the attestations counted by each commitment
    weights,            \* the cumulative weight of each commitment
    lastCommittedSlot

window == <<added, committed, weights, lastCommittedSlot>>

(* Attestation.Compare of iota.go: the later commitment, then the later block. *)
Greater(a, b) == a.commit > b.commit \/ (a.commit = b.commit /\ a.slot > b.slot)

IsGreatest(a, candidates) ==
    IF candidates = {} THEN a = None
    ELSE a \in candidates /\ \A c \in candidates : c = a \/ Greater(a, c)

(* The attestations of issuer i in blocks up to slot s that commit to at   *)
(* least slot c.                                                           *)
Candidates(i, s, c) == {a \in added[i] : a.slot <= s /\ a.commit >= c}

HasWindow(s) == s >= MaxCommittableAge
Cutoff(s) == IF HasWindow(s) THEN s - MaxCommittableAge ELSE 0

NoAttestations == [i \in Issuer |-> None]
Attestors(attestations) == {i \in Issuer : attestations[i] # None}

WindowInit ==
    /\ added = [i \in Issuer |-> {}]
    /\ committed = [s \in Slot |-> NoAttestations]
    /\ weights = [s \in Slot |-> 0]
    /\ lastCommittedSlot = 0

(* An accepted validation block of a member of the committee. *)
TakeAttestation(i, a) ==
    /\ a.slot > lastCommittedSlot /\ i \in Committee[a.slot]
    /\ added' = [added EXCEPT ![i] = @ \cup {a}]
    /\ UNCHANGED <<committed, weights, lastCommittedSlot>>

(* The next slot is committed. *)
CommitWindow ==
    /\ lastCommittedSlot < MaxSlot
    /\ LET slot == lastCommittedSlot + 1
       IN  /\ lastCommittedSlot' = slot
           /\ \E attestations \in [Issuer -> Attestation \cup {None}] :
                  /\ \A i \in Issuer :
                         IF HasWindow(slot) THEN IsGreatest(attestations[i], Candidates(i, slot, Cutoff(slot)))
                         ELSE attestations[i] = None
                  /\ committed' = [committed EXCEPT ![slot] = attestations]
                  /\ weights' = [weights EXCEPT ![slot] =
                         weights[lastCommittedSlot] + Cardinality(Attestors(attestations))]
    /\ UNCHANGED added

(* The engine goes back to slot s, or forgets the blocks it has accepted   *)
(* since its last commitment (s = lastCommittedSlot).                      *)
ReturnTo(s) ==
    /\ s <= lastCommittedSlot
    /\ lastCommittedSlot' = s
    /\ added' = [i \in Issuer |-> {a \in added[i] : a.slot <= s}]
    /\ committed' = [t \in Slot |-> IF t <= s THEN committed[t] ELSE NoAttestations]
    /\ weights' = [t \in Slot |-> IF t <= s THEN weights[t] ELSE 0]

WindowNext ==
    \/ \E i \in Issuer, a \in Attestation : TakeAttestation(i, a)
    \/ CommitWindow
    \/ \E s \in Slot : ReturnTo(s)

WindowSpec == WindowInit /\ [][WindowNext]_window
=============================================================================
