------------------------- MODULE SignerWeightsProofs -------------------------
(***************************************************************************)
(* Facts about voting weights (module SignerWeights).                      *)
(***************************************************************************)
EXTENDS SignerWeights, FiniteSetTheorems, TLAPS

-----------------------------------------------------------------------------
\* The units held by the members of a set of signers.
UnitsOf(S) == {u \in Units : Holder[u] \in S}

\* Weights are natural numbers: any set of signers holds finitely many units
\* (compute_signature_signing_weight sums over the reward set).
LEMMA UnitsAreFinite ==
  ASSUME NEW S
  PROVE  /\ IsFiniteSet(UnitsOf(S))
         /\ UnitsOf(S) \subseteq Units
         /\ WeightOf(S) = Cardinality(UnitsOf(S))
         /\ WeightOf(S) \in Nat
<1>1. UnitsOf(S) \subseteq Units  BY DEF UnitsOf
<1>2. IsFiniteSet(UnitsOf(S))  BY <1>1, FS_Subset, SignersAssumption
<1>3. Cardinality(UnitsOf(S)) \in Nat  BY <1>2, FS_CardinalityType
<1>4. QED  BY <1>1, <1>2, <1>3 DEF UnitsOf, WeightOf

\* A larger set of signers never has less weight.
LEMMA WeightIsMonotone ==
  ASSUME NEW S, NEW T, S \subseteq T
  PROVE  WeightOf(S) <= WeightOf(T)
<1>1. UnitsOf(S) \subseteq UnitsOf(T)  BY DEF UnitsOf
<1>2. Cardinality(UnitsOf(S)) <= Cardinality(UnitsOf(T))
  BY <1>1, UnitsAreFinite, FS_Subset
<1>3. QED  BY <1>2, UnitsAreFinite

\* Two sets of signers share at least what their weights exceed the total by.
LEMMA SharedWeight ==
  ASSUME NEW S, NEW T
  PROVE  WeightOf(S) + WeightOf(T) <= TotalWeight + WeightOf(S \cap T)
<1> DEFINE A == UnitsOf(S)
           B == UnitsOf(T)
<1>1. IsFiniteSet(A) /\ IsFiniteSet(B) /\ A \cup B \subseteq Units
  BY UnitsAreFinite
<1>2. Cardinality(A \cup B) = Cardinality(A) + Cardinality(B) - Cardinality(A \cap B)
  BY <1>1, FS_Union
<1>3. Cardinality(A \cup B) <= Cardinality(Units)
  BY <1>1, FS_Subset, SignersAssumption
<1>4. A \cap B = UnitsOf(S \cap T)  BY DEF UnitsOf
<1>5. /\ Cardinality(A) \in Nat /\ Cardinality(B) \in Nat
      /\ Cardinality(A \cap B) \in Nat /\ Cardinality(Units) \in Nat
      /\ Cardinality(A \cup B) \in Nat
  BY <1>1, <1>4, UnitsAreFinite, FS_CardinalityType, SignersAssumption, FS_Union
<1>6. /\ WeightOf(S) = Cardinality(A) /\ WeightOf(T) = Cardinality(B)
      /\ WeightOf(S \cap T) = Cardinality(A \cap B)
  BY <1>4, UnitsAreFinite
<1> HIDE DEF A, B
<1>7. QED  BY <1>2, <1>3, <1>5, <1>6 DEF TotalWeight

\* Disjoint sets of signers add up (the running totals of the miner's
\* BlockStatus).
LEMMA WeightAdds ==
  ASSUME NEW S, NEW T, S \cap T = {}
  PROVE  WeightOf(S \cup T) = WeightOf(S) + WeightOf(T)
<1> DEFINE A == UnitsOf(S)
           B == UnitsOf(T)
<1>1. A \cup B = UnitsOf(S \cup T) /\ A \cap B = {}  BY DEF UnitsOf
<1>2. IsFiniteSet(A) /\ IsFiniteSet(B)  BY UnitsAreFinite
<1>3. Cardinality(A \cup B) = Cardinality(A) + Cardinality(B) - Cardinality(A \cap B)
  BY <1>2, FS_Union
<1>4. Cardinality(A \cap B) = 0  BY <1>1, FS_EmptySet
<1>5. Cardinality(A) \in Nat /\ Cardinality(B) \in Nat  BY UnitsAreFinite
<1>6. /\ WeightOf(S) = Cardinality(A) /\ WeightOf(T) = Cardinality(B)
      /\ WeightOf(S \cup T) = Cardinality(A \cup B)
  BY <1>1, UnitsAreFinite
<1> HIDE DEF A, B
<1>7. QED  BY <1>3, <1>4, <1>5, <1>6

\* The total and the threshold are natural numbers.
LEMMA ThresholdType == TotalWeight \in Nat /\ VotingWeightThreshold \in Nat
<1>1. TotalWeight \in Nat  BY SignersAssumption, FS_CardinalityType DEF TotalWeight
<1>2. QED  BY <1>1 DEF VotingWeightThreshold

\* Two sets of signers over the threshold have a member in common that is not
\* one of the few in F (compute_voting_weight_threshold).
LEMMA QuorumsIntersect ==
  ASSUME NEW F, 2 * VotingWeightThreshold > TotalWeight + WeightOf(F),
         NEW S, NEW T, MeetsThreshold(S), MeetsThreshold(T)
  PROVE  \E x \in S \cap T : x \notin F
<1> SUFFICES ASSUME \A x \in S \cap T : x \in F
             PROVE  FALSE
  OBVIOUS
<1>1. S \cap T \subseteq F  OBVIOUS
<1>2. WeightOf(S \cap T) <= WeightOf(F)  BY <1>1, WeightIsMonotone
<1>3. WeightOf(S) + WeightOf(T) <= TotalWeight + WeightOf(S \cap T)  BY SharedWeight
<1>4. /\ WeightOf(S) \in Nat /\ WeightOf(T) \in Nat /\ WeightOf(F) \in Nat
      /\ WeightOf(S \cap T) \in Nat
  BY UnitsAreFinite
<1>5. QED  BY <1>2, <1>3, <1>4, ThresholdType DEF MeetsThreshold
=============================================================================
