------------------------------ MODULE MCSigner ------------------------------
(***************************************************************************)
(* Small instances of SignerV0 for TLC: who holds the weight, and which    *)
(* blocks may be proposed.                                                 *)
(***************************************************************************)
EXTENDS SignerSafety, TLC

CONSTANTS h, g, p            \* signers: h and g are honest
CONSTANTS blk1, blk2, blk3
CONSTANTS ten1, ten2, ten3   \* tenures

Ten == 1..10

\* One honest signer with 3 of 10 units; the peer alone is a quorum (7).
PeerIsQuorum == [x \in Ten |-> IF x <= 3 THEN h ELSE p]

\* One honest signer and one peer who need each other.
BothNeeded == [x \in Ten |-> IF x <= 5 THEN h ELSE p]

\* Two honest signers who need each other, with or without the peer.
TwoHonest == [x \in Ten |-> IF x <= 4 THEN h ELSE IF x <= 8 THEN g ELSE p]

NoBlock == [x \in Blocks |-> None]
AllAtOne == [x \in Blocks |-> 1]
OneTenure == [x \in Blocks |-> ten1]

\* one block of the same height in each tenure; ten2 would reorg ten1
ThreeTenures == blk1 :> ten3 @@ blk2 :> ten1 @@ blk3 :> ten2
SecondReorgsFirst == {<<ten1, ten2>>}

\* blk1, then blk2 on top of it in the same tenure; blk3 starts ten2 on top of
\* blk1
ForkHeight == blk1 :> 1 @@ blk2 :> 2 @@ blk3 :> 2
ForkTenure == blk1 :> ten1 @@ blk2 :> ten1 @@ blk3 :> ten2
ForkPrev   == blk1 :> None @@ blk2 :> None @@ blk3 :> ten1
ForkParent == blk1 :> None @@ blk2 :> blk1 @@ blk3 :> blk1

SetSymmetry == Permutations({blk2, blk3}) \cup Permutations({h, g})
=============================================================================
