--------------------------- MODULE MCNotarization ---------------------------
(* A block of slot 1, which attests, and one of slot 3, which makes two    *)
(* slots committable in one pass of the worker's loop, one of them empty.  *)
(* Queued the other way round, the block of slot 1 comes too late.         *)
EXTENDS Notarization

CONSTANTS b1, b3

MCSlotOf == [b \in Block |-> IF b = b1 THEN 1 ELSE 3]
=============================================================================
