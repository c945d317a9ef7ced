------------------------------ MODULE MCChain ------------------------------
(***************************************************************************)
(* A small instance of ChainsCoordinator for TLC: burn blocks 1 and 2,     *)
(* where 1 is in the prepare phase and 2 begins the next reward cycle.     *)
(***************************************************************************)
EXTENDS ChainsCoordinator, TLC

CONSTANTS root, blkA, blkB, blkC, blkD, blkE

\* blkA in the tenure of burn block 1; blkB and blkC on top of it in that of burn block
\* 2; blkD and blkE extend the first tenure with burn block 2 in view, as a fork
Parents == blkA :> root @@ blkB :> blkA @@ blkC :> blkB @@ blkD :> blkA @@ blkE :> blkD
Heights == root :> 0 @@ blkA :> 1 @@ blkB :> 2 @@ blkC :> 3 @@ blkD :> 2 @@ blkE :> 3
Burns   == root :> 0 @@ blkA :> 1 @@ blkB :> 2 @@ blkC :> 2 @@ blkD :> 1 @@ blkE :> 1
Views   == root :> 0 @@ blkA :> 1 @@ blkB :> 2 @@ blkC :> 2 @@ blkD :> 2 @@ blkE :> 2
Cycles  == 0 :> 1 @@ 1 :> 1 @@ 2 :> 2
=============================================================================
