--------------------------- MODULE MCAttestations ---------------------------
(* Two issuers, the second of which only joins the committee in slot 3. *)
EXTENDS Attestations

CONSTANTS i1, i2

MCCommittee == [s \in Slot |-> IF s < 3 THEN {i1} ELSE {i1, i2}]
=============================================================================
