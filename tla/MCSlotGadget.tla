---------------------------- MODULE MCSlotGadget ----------------------------
(* Three issuers and two seats: any two issuers finalize a slot, the third *)
(* one is late or votes for something else, and one vote may finalize two  *)
(* slots at once.                                                          *)
EXTENDS SlotGadget

MCSeatCount == [s \in 0 .. MaxSlot |-> 2]
=============================================================================
