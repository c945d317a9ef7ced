------------------------- MODULE QuorumVotingProofs -------------------------
(***************************************************************************)
(* Proofs about the abstract voting of module QuorumVoting, for any reward *)
(* set, any split of the weight and any tree of blocks.                    *)
(***************************************************************************)
EXTENDS QuorumVoting, SignerWeightsProofs

-----------------------------------------------------------------------------
\* The votes and the excuses stay what they are meant to be.
THEOREM VotingTypeOK == Spec => []TypeOK
<1>1. Init => TypeOK  BY DEF Init, TypeOK
<1>2. TypeOK /\ [Next]_avars => TypeOK'
  <2> SUFFICES ASSUME TypeOK, [Next]_avars PROVE TypeOK'
    OBVIOUS
  <2>1. CASE UNCHANGED avars  BY <2>1 DEF avars, TypeOK
  <2>2. ASSUME NEW s \in Honest, NEW b \in Blocks, Sign(s, b) PROVE TypeOK'
    BY <2>2 DEF Sign, TypeOK
  <2>3. ASSUME NEW s \in Honest, NEW P \in SUBSET (Blocks \X Blocks), Excuse(s, P)
        PROVE TypeOK'
    BY <2>3 DEF Excuse, TypeOK
  <2>4. QED  BY <2>1, <2>2, <2>3 DEF Next
<1>3. QED  BY <1>1, <1>2, PTL DEF Spec

\* No signer holds two siblings without an excuse: the guard of Sign speaks of
\* the siblings signed before, and an excuse is never withdrawn.
THEOREM VotingNoUnexcusedPair == Spec => []NoUnexcusedPair
<1>1. Init => NoUnexcusedPair  BY DEF Init, NoUnexcusedPair
<1>2. TypeOK /\ NoUnexcusedPair /\ [Next]_avars => NoUnexcusedPair'
  <2> SUFFICES ASSUME TypeOK, NoUnexcusedPair, [Next]_avars PROVE NoUnexcusedPair'
    OBVIOUS
  <2>1. CASE UNCHANGED avars  BY <2>1 DEF avars, NoUnexcusedPair
  <2>2. ASSUME NEW s \in Honest, NEW b \in Blocks, Sign(s, b) PROVE NoUnexcusedPair'
    <3> SUFFICES ASSUME NEW x \in Honest, NEW c \in signed'[x], NEW d \in signed'[x],
                        Siblings(c, d)
                 PROVE  <<c, d>> \in excused[x] \/ <<d, c>> \in excused[x]
      BY <2>2 DEF NoUnexcusedPair, Sign
    <3>1. CASE c \in signed[x] /\ d \in signed[x]
      BY <3>1 DEF NoUnexcusedPair
    <3>2. CASE c \notin signed[x]
      <4>1. x = s /\ c = b  BY <2>2, <3>2 DEF Sign, TypeOK
      <4>2. d \in signed[s]  BY <2>2, <4>1 DEF Sign, TypeOK, Siblings
      <4>3. Siblings(d, b)  BY <4>1 DEF Siblings
      <4>4. QED  BY <2>2, <4>1, <4>2, <4>3 DEF Sign
    <3>3. CASE d \notin signed[x]
      <4>1. x = s /\ d = b  BY <2>2, <3>3 DEF Sign, TypeOK
      <4>2. c \in signed[s]  BY <2>2, <4>1 DEF Sign, TypeOK, Siblings
      <4>3. QED  BY <2>2, <4>1, <4>2 DEF Sign
    <3>4. QED  BY <3>1, <3>2, <3>3
  <2>3. ASSUME NEW s \in Honest, NEW P \in SUBSET (Blocks \X Blocks), Excuse(s, P)
        PROVE NoUnexcusedPair'
    BY <2>3 DEF Excuse, TypeOK, NoUnexcusedPair
  <2>4. QED  BY <2>1, <2>2, <2>3 DEF Next
<1>3. QED  BY <1>1, <1>2, VotingTypeOK, PTL DEF Spec

\* Two blocks of one height both carry signatures of 70% only if an honest
\* signer signed both, with an excuse.
THEOREM VotingAgreement == Spec => []Agreement
<1>1. NoUnexcusedPair => Agreement
  <2> SUFFICES ASSUME NoUnexcusedPair, FewFaulty, NEW b \in Blocks, NEW c \in Blocks,
                      Siblings(b, c),
                      MeetsThreshold(Signatories(b)), MeetsThreshold(Signatories(c))
               PROVE  \E s \in Honest :
                        /\ b \in signed[s] /\ c \in signed[s]
                        /\ <<b, c>> \in excused[s] \/ <<c, b>> \in excused[s]
    BY DEF Agreement
  <2>2. PICK s \in Signatories(b) \cap Signatories(c) : s \notin Faulty
    BY QuorumsIntersect DEF FewFaulty
  <2>3. s \in Honest /\ b \in signed[s] /\ c \in signed[s]
    BY <2>2 DEF Signatories
  <2>4. QED  BY <2>3 DEF NoUnexcusedPair
<1>2. QED  BY <1>1, VotingNoUnexcusedPair, PTL
=============================================================================
