----------------------------- MODULE MCScheduler -----------------------------
(* blkA is the heaviest block and of the issuer with the least mana; blkC, *)
(* of the same issuer, is issued ahead of the clock; blkD is a validator's. *)
(* The account of i3 is only created during the run.                       *)
EXTENDS Scheduler

CONSTANTS i1, i2, i3, v1, blkA, blkB, blkC, blkD

MCIssuerOf == blkA :> i1 @@ blkB :> i2 @@ blkC :> i1 @@ blkD :> v1
MCParents == blkA :> {} @@ blkB :> {blkA} @@ blkC :> {blkB} @@ blkD :> {blkB}
MCTime == blkA :> 1 @@ blkB :> 2 @@ blkC :> 3 @@ blkD :> 4
MCWork == blkA :> 2 @@ blkB :> 1 @@ blkC :> 1 @@ blkD :> 1
MCQuantum == i1 :> 1 @@ i2 :> 3 @@ i3 :> 4
=============================================================================
