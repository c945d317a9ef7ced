------------------------------- MODULE MCViews -------------------------------
(***************************************************************************)
(* Bounds for SignerViews: two honest signers and one that keeps           *)
(* publishing a view of the older tenure with a block nobody has, of equal *)
(* weight, so that any two agree and any one is a blocking minority; one   *)
(* burn block to come.                                                     *)
(***************************************************************************)
EXTENDS SignerViews

OneEach == [u \in Units |-> IF u = 1 THEN "s1" ELSE IF u = 2 THEN "s2" ELSE "s3"]

Growing == [t \in 0 .. LastBurn |-> t]

Chained == [b \in 1 .. LastBurn |-> b - 1]

Ahead == [burn |-> 2, miner |-> [tenure |-> 1, height |-> 5]]

OtherViews == {Ahead}
=============================================================================
