---------------------------- MODULE SignerWeights ----------------------------
(***************************************************************************)
(* The voting weight of a signer set, as signers and miner count it: a     *)
(* signer's weight is the number of units (reward slots) it holds, and a   *)
(* block needs 70% of all of them.                                         *)
(***************************************************************************)
EXTENDS Integers, FiniteSets

CONSTANTS
  Signers,   \* the reward set: every address that may vote
  Units,     \* the units of voting weight
  Holder     \* Holder[u] is the signer that holds weight unit u

ASSUME SignersAssumption ==
  /\ IsFiniteSet(Units)
  /\ Holder \in [Units -> Signers]

WeightOf(S) == Cardinality({u \in Units : Holder[u] \in S})

TotalWeight == Cardinality(Units)

\* ceil(70% of the total)
VotingWeightThreshold ==
  (TotalWeight * 7) \div 10 + (IF (TotalWeight * 7) % 10 = 0 THEN 0 ELSE 1)

MeetsThreshold(S) == WeightOf(S) >= VotingWeightThreshold

\* The rejections of S make the threshold unreachable.
BlocksThreshold(S) == WeightOf(S) + VotingWeightThreshold > TotalWeight
=============================================================================
