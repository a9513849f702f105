---------------------------- MODULE MCBlockIntake ----------------------------
(* b1 is a child of the genesis block and b2 a child of b1.  The node has  *)
(* to reach a commitment for each of them, and the buffer holds one.       *)
EXTENDS BlockIntake

CONSTANTS b1, b2, w1, w2

MCSlotOf == Genesis :> 0 @@ b1 :> 2 @@ b2 :> 3
MCParents == b1 :> {Genesis} @@ b2 :> {b1}
MCKinds == { b1 :> k[1] @@ b2 :> k[2] :
              k \in { <<"valid", "valid">>, <<"filtered", "valid">>, <<"badReference", "foreign">> } }
MCMaxReceived == b1 :> 2 @@ b2 :> 1
MCCommitmentOf == b1 :> 1 @@ b2 :> 2
=============================================================================
