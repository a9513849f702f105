--------------------------- MODULE MCBlockGadget ---------------------------
(* Two seats.  c is a child of p, and v1 references both, p first, so that *)
(* a walk meets p before c; the blocks above v1 witness and ratify.        *)
EXTENDS BlockGadget

CONSTANTS g, p, c, v1, v2, w1

MCBlock == {g, p, c, v1, v2, w1}
MCParents ==
    [b \in MCBlock |-> CASE b = g -> <<>> [] b = p -> <<g>> [] b = c -> <<p>> [] b = v1 -> <<p, c>>
                         [] b = v2 -> <<v1>> [] b = w1 -> <<c, v2>>]
MCSlotOf == [b \in MCBlock |-> CASE b = g -> 0 [] b = p -> 1 [] b \in {c, v1} -> 2 [] b = v2 -> 3 [] b = w1 -> 4]
MCEpochOf == [s \in 0 .. 4 |-> IF s < 2 THEN 0 ELSE 1]
MCSeatOf == [b \in MCBlock |-> CASE b \in {v1, w1} -> 1 [] b = v2 -> 2 [] OTHER -> NoSeat]
MCSeatCount == [s \in 0 .. 4 |-> 2]
=============================================================================
