---------------------------- MODULE Attestations ----------------------------
(***************************************************************************)
(* slotattestation.Manager: the attestations of accepted validation blocks *)
(* wait in futureAttestations until their slot is committed, then move to  *)
(* pendingAttestations, which holds for every slot of the window the       *)
(* attestation an issuer has there, and are counted from there.  Shutdown, *)
(* restart, rollback and snapshots rebuild the pending attestations from   *)
(* what is on disk.                                                        *)
(***************************************************************************)
EXTENDS AttestationWindow

CONSTANTS
    FirstRestartSlot,   \* the node restarts only from this slot on
    FirstForkSlot,      \* engines are forked and snapshots taken only from this slot on
    MaxAttestations,    \* bound: attestations per issuer
    MaxRestarts         \* bound: resets, restarts and forks

ASSUME BoundAssumption == {FirstRestartSlot, FirstForkSlot, MaxAttestations, MaxRestarts} \subseteq Nat

VARIABLES
    future,             \* futureAttestations: per slot and issuer
    pending,            \* pendingAttestations: per slot and issuer
    cumulativeWeight,   \* lastCumulativeWeight
    restarts

vars == <<window, future, pending, cumulativeWeight, restarts>>

(* added is a history variable; committed and weights are the stored       *)
(* attestations and commitments.                                           *)
TypeOK ==
    /\ added \in [Issuer -> SUBSET Attestation]
    /\ committed \in [Slot -> [Issuer -> Attestation \cup {None}]]
    /\ weights \in [Slot -> Nat] /\ cumulativeWeight \in Nat
    /\ lastCommittedSlot \in Slot
    /\ future \in [Slot -> [Issuer -> Attestation \cup {None}]]
    /\ pending \in [Slot -> [Issuer -> Attestation \cup {None}]]
    /\ restarts \in 0 .. MaxRestarts

Nowhere == [s \in Slot |-> NoAttestations]

Init ==
    /\ WindowInit
    /\ future = Nowhere /\ pending = Nowhere
    /\ cumulativeWeight = 0 /\ restarts = 0

-----------------------------------------------------------------------------

(* Mutant: the later attestation wins, whatever it commits to. *)
ReplacesLatest(a, current) == current = None \/ a.slot >= current.slot

(* The closures of Compute: a new attestation replaces a smaller one. *)
Replaces(a, current) == current = None \/ Greater(a, current)

(* Mutant: the attestation is only applied to the cut-off slot. *)
ApplyToCutoffOnly(p, attestations, cutoff) ==
    [s \in Slot |-> [i \in Issuer |->
        IF /\ attestations[i] # None
           /\ attestations[i].commit >= cutoff
           /\ Replaces(attestations[i], p[cutoff][i])
           /\ s = cutoff
        THEN attestations[i] ELSE p[s][i]]]

(* applyToPendingAttestations for the attestations of one slot: each is    *)
(* compared with what its issuer has at the cut-off, and if it is greater  *)
(* it fills the window from there to the slot it commits to.               *)
ApplyToPendingAttestations(p, attestations, cutoff) ==
    [s \in Slot |-> [i \in Issuer |->
        IF /\ attestations[i] # None
           /\ attestations[i].commit >= cutoff
           /\ Replaces(attestations[i], p[cutoff][i])
           /\ cutoff <= s /\ s <= attestations[i].commit
        THEN attestations[i] ELSE p[s][i]]]

(* AddAttestationFromValidationBlock, past its early returns. *)
AddAttestationFromValidationBlock(i, a) ==
    /\ a.slot > lastCommittedSlot /\ i \in Committee[a.slot]
    /\ a.commit <= lastCommittedSlot
    /\ Cardinality(added[i]) < MaxAttestations
    /\ added' = [added EXCEPT ![i] = @ \cup {a}]
    /\ future' = IF Replaces(a, future[a.slot][i]) THEN [future EXCEPT ![a.slot][i] = a] ELSE future
    /\ UNCHANGED <<committed, weights, lastCommittedSlot, pending, cumulativeWeight, restarts>>

(* Mutant: the slot after the one that is committed counts as committed. *)
CommitSkips ==
    /\ lastCommittedSlot < MaxSlot
    /\ LET slot == lastCommittedSlot + 1
           applied == ApplyToPendingAttestations(pending, future[slot], Cutoff(slot))
       IN  /\ lastCommittedSlot' = slot + 1
           /\ future' = [future EXCEPT ![slot] = NoAttestations]
           /\ pending' = IF HasWindow(slot) THEN [applied EXCEPT ![Cutoff(slot)] = NoAttestations] ELSE applied
    /\ UNCHANGED <<added, committed, weights, cumulativeWeight, restarts>>

(* Commit(slot).  Before the first full window nothing is counted. *)
Commit ==
    /\ lastCommittedSlot < MaxSlot
    /\ LET slot == lastCommittedSlot + 1
           applied == ApplyToPendingAttestations(pending, future[slot], Cutoff(slot))
       IN  /\ lastCommittedSlot' = slot
           /\ future' = [future EXCEPT ![slot] = NoAttestations]
           /\ \/ /\ ~HasWindow(slot)
                 /\ pending' = applied
                 /\ weights' = [weights EXCEPT ![slot] = 0]
                 /\ UNCHANGED <<committed, cumulativeWeight>>
              \/ /\ HasWindow(slot)
                 /\ pending' = [applied EXCEPT ![Cutoff(slot)] = NoAttestations]
                 /\ committed' = [committed EXCEPT ![slot] = applied[Cutoff(slot)]]
                 /\ cumulativeWeight' = cumulativeWeight + Cardinality(Attestors(applied[Cutoff(slot)]))
                 /\ weights' = [weights EXCEPT ![slot] = cumulativeWeight']
    /\ UNCHANGED <<added, restarts>>

(* Engine.Reset: only the future attestations go. *)
Reset ==
    /\ restarts < MaxRestarts /\ restarts' = restarts + 1
    /\ future' = Nowhere
    /\ added' = [i \in Issuer |-> {a \in added[i] : a.slot <= lastCommittedSlot}]
    /\ UNCHANGED <<committed, weights, lastCommittedSlot, pending, cumulativeWeight>>

(* writeToDisk: the tracker stores of the window at shutdown. *)
WriteToDisk(s) == HasWindow(lastCommittedSlot) /\ Cutoff(lastCommittedSlot) <= s /\ s <= lastCommittedSlot

(* RestoreFromDisk: the stores of the window, one slot after the other. *)
RestoreFromDisk ==
    LET cutoff == Cutoff(lastCommittedSlot)
        restored[s \in Int] ==
            IF s < cutoff THEN Nowhere
            ELSE ApplyToPendingAttestations(restored[s - 1], IF WriteToDisk(s) THEN pending[s] ELSE NoAttestations, cutoff)
    IN  restored[lastCommittedSlot]

(* The node shuts down and starts again. *)
Restart ==
    /\ restarts < MaxRestarts /\ restarts' = restarts + 1
    /\ lastCommittedSlot >= FirstRestartSlot
    /\ pending' = RestoreFromDisk
    /\ future' = Nowhere
    /\ cumulativeWeight' = weights[lastCommittedSlot]
    /\ added' = [i \in Issuer |-> {a \in added[i] : a.slot <= lastCommittedSlot}]
    /\ UNCHANGED <<committed, weights, lastCommittedSlot>>

(* Mutant: the attestations of the slot before the target are used. *)
RollbackBelow(target) ==
    IF ~HasWindow(target) THEN Nowhere
    ELSE ApplyToPendingAttestations(Nowhere, committed[target - 1], Cutoff(target))

(* Rollback(target) on a new engine; Export at the target followed by      *)
(* Import on another node has the same result.                             *)
Rollback(target) ==
    IF ~HasWindow(target) THEN Nowhere
    ELSE ApplyToPendingAttestations(Nowhere, committed[target], Cutoff(target))

(* An engine is forked, or started from a snapshot, at an earlier slot. *)
Fork(target) ==
    /\ restarts < MaxRestarts /\ restarts' = restarts + 1
    /\ FirstForkSlot <= target /\ target <= lastCommittedSlot
    /\ lastCommittedSlot' = target
    /\ pending' = Rollback(target)
    /\ future' = Nowhere
    /\ cumulativeWeight' = weights[target]
    /\ added' = [i \in Issuer |-> {a \in added[i] : a.slot <= target}]
    /\ committed' = [s \in Slot |-> IF s <= target THEN committed[s] ELSE NoAttestations]
    /\ weights' = [s \in Slot |-> IF s <= target THEN weights[s] ELSE 0]

Next ==
    \/ \E i \in Issuer, a \in Attestation : AddAttestationFromValidationBlock(i, a)
    \/ Commit
    \/ Reset
    \/ Restart
    \/ \E target \in Slot : Fork(target)

Spec == Init /\ [][Next]_vars

-----------------------------------------------------------------------------
(* What the manager guarantees. *)

(* The manager implements the attestation window: whatever is reset,       *)
(* restarted, rolled back or imported, the next commitment counts the      *)
(* greatest attestation of every issuer and the weight adds up.            *)
ImplementsWindow == WindowSpec

(* pendingAttestations holds, for every slot of the window that is still   *)
(* to be counted, the greatest attestation of each issuer that commits to  *)
(* at least that slot.                                                     *)
PendingIsGreatest ==
    \A i \in Issuer, s \in Slot :
        (IF HasWindow(lastCommittedSlot) THEN s > Cutoff(lastCommittedSlot) ELSE TRUE)
        => IsGreatest(pending[s][i], Candidates(i, lastCommittedSlot, s))

(* The attestation of an issuer that a commitment counts is never smaller  *)
(* than the one the commitment before it counted.                          *)
AttestationsOnlyGrow ==
    \A i \in Issuer, s \in 1 .. lastCommittedSlot :
        committed[s][i] # None /\ committed[s - 1][i] # None
        => committed[s][i] = committed[s - 1][i] \/ Greater(committed[s][i], committed[s - 1][i])
=============================================================================
