------------------------------- MODULE MCMiner -------------------------------
(***************************************************************************)
(* A small instance of MinerCoordinator for TLC.                           *)
(***************************************************************************)
EXTENDS MinerCoordinator, TLC

CONSTANTS s1, s2, s3, b1, b2, x1

Ten == 1..10

\* 70% is s1 with one of the others; s1 alone, or s2 with s3, can block it.
Unequal == [x \in Ten |-> IF x <= 4 THEN s1 ELSE IF x <= 7 THEN s2 ELSE s3]

\* Patient until 30% reject, then not at all.
Steps == 0 :> 1 @@ 30 :> 0

\* s2 changes its mind, s3 first asks for time and then blames a transaction; s2 and
\* s3 can block together.
Varied == s1 :> {"accept"} @@ s2 :> {"accept", "reject"}
          @@ s3 :> {"transient", "problematic"}
=============================================================================
