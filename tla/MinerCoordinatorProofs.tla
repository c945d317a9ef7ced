----------------------- MODULE MinerCoordinatorProofs -----------------------
(***************************************************************************)
(* Proofs about the miner's signer coordinator (module MinerCoordinator):  *)
(* what propose_block returns is founded on what the signers really said.  *)
(***************************************************************************)
EXTENDS MinerCoordinator, SignerWeightsProofs, WellFoundedInduction

-----------------------------------------------------------------------------
\* The timeouts.

\* A bounded set of numbers has a largest member.
LEMMA MaxExists ==
  ASSUME NEW n \in Nat, NEW T, T \subseteq 0..n, T # {}
  PROVE  Max(T) \in T
<1> DEFINE R == OpToRel(<, Nat)
           C == {n - t : t \in T}
<1>1. C \subseteq Nat /\ C # {}
  <2>1. \A t \in T : n - t \in Nat  OBVIOUS
  <2>2. PICK t \in T : TRUE  OBVIOUS
  <2>3. n - t \in C  OBVIOUS
  <2>4. QED  BY <2>1, <2>3
<1>2. PICK c \in C : \A d \in C : ~(<<d, c>> \in R)
  BY <1>1, NatLessThanWellFounded, WFMin
<1>3. \A d \in C : ~(d < c)  BY <1>1, <1>2 DEF OpToRel
<1>4. PICK t \in T : c = n - t  OBVIOUS
<1>5. \A u \in T : t >= u
  <2> TAKE u \in T
  <2>1. n - u \in C  OBVIOUS
  <2>2. ~(n - u < n - t)  BY <1>3, <1>4, <2>1
  <2>3. QED  BY <2>2
<1>6. QED  BY <1>4, <1>5 DEF Max

\* build_block_rejection_timeout_steps has an entry for a weight of 0, and all its
\* timeouts are below the bound on the timer.
LEMMA TimeoutStepsType ==
  /\ 0 \in DOMAIN TimeoutSteps
  /\ DOMAIN TimeoutSteps \subseteq Nat
  /\ \A w \in DOMAIN TimeoutSteps : TimeoutSteps[w] \in 0..MaxElapsed
<1>1. \A p \in 0..100 : StepWeight(p) \in Nat
  BY ThresholdType DEF StepWeight
<1>2. StepWeight(0) = 0  BY ThresholdType DEF StepWeight
<1>3. DOMAIN TimeoutSteps = {StepWeight(p) : p \in DOMAIN ConfigSteps}  BY DEF TimeoutSteps
<1>4. ASSUME NEW w \in DOMAIN TimeoutSteps
      PROVE  TimeoutSteps[w] \in 0..MaxElapsed
  <2> DEFINE T == {ConfigSteps[p] : p \in {q \in DOMAIN ConfigSteps : StepWeight(q) = w}}
  <2>1. T # {}  BY <1>3
  <2>2. T \subseteq 0..MaxElapsed /\ MaxElapsed \in Nat  BY StepsAssumption
  <2>3. Max(T) \in T  BY <2>1, <2>2, MaxExists
  <2>4. TimeoutSteps[w] = Max(T)  BY <1>3 DEF TimeoutSteps
  <2>5. QED  BY <2>2, <2>3, <2>4
<1>5. QED  BY <1>1, <1>2, <1>3, <1>4, StepsAssumption

\* select_rejection_timeout always finds a step.
LEMMA SelectTimeoutType ==
  ASSUME NEW r \in Nat, NEW t \in Nat
  PROVE  SelectTimeout(r, t) \in 0..MaxElapsed
<1> DEFINE W == {w \in DOMAIN TimeoutSteps : w <= r}
<1>1. W \subseteq 0..r /\ W # {}  BY TimeoutStepsType
<1>2. Max(W) \in W  BY <1>1, MaxExists
<1>3. TimeoutSteps[Max(W)] \in 0..MaxElapsed  BY <1>2, TimeoutStepsType
<1>4. RetryTimeout \in 0..MaxElapsed  BY StepsAssumption
<1>5. QED  BY <1>3, <1>4 DEF SelectTimeout

-----------------------------------------------------------------------------
\* The counts of a block status against what was heard.

Substantive == Votes \ {"accept", "transient"}

\* What a status may say of b.
Founded(b, st) ==
  /\ st.gathered \subseteq Voters(b, {"accept"})
  /\ st.approved <= WeightOf(st.gathered)
  /\ st.transient <= WeightOf(st.responded)
  /\ st.rejected <= st.transient + WeightOf(st.responded \cap Voters(b, Substantive))
  /\ \A x \in Txids :
       /\ st.failed[x].total <= WeightOf(Blamers(b, Blaming, x))
       /\ st.failed[x].problematic <= WeightOf(Blamers(b, {"problematic"}, x))

Proposing == {"send", "top", "wait", "poll", "decide"}

\* The invariant: every status, and the copy the miner decides on, is founded; the
\* block being proposed has one, and only its proposals are answered.
MinerInv ==
  /\ TypeOK
  /\ \A b \in Blocks : status[b] \in BlockStatus => Founded(b, status[b])
  /\ \A b \in Blocks, s \in Signers : owed[s][b] > 0 => status[b] \in BlockStatus
  /\ miner.pc \in Proposing => miner.block \in Blocks /\ status[miner.block] \in BlockStatus
  /\ miner.pc \in {"broadcast", "processing"} => miner.block \in Blocks
  /\ miner.pc = "decide" => Founded(miner.block, miner.snap)
  /\ SignaturesSuffice
  /\ RejectionIsFounded
  /\ ExclusionIsFounded

\* A new status counts nothing.
LEMMA NewStatusFounded ==
  /\ NewStatus \in BlockStatus
  /\ \A b : Founded(b, NewStatus)
<1>1. NewStatus \in BlockStatus  BY DEF NewStatus, BlockStatus
<1>2. ASSUME NEW b PROVE Founded(b, NewStatus)
  BY UnitsAreFinite DEF Founded, NewStatus
<1>3. QED  BY <1>1, <1>2

\* reset_rejections keeps the counts founded: approvals and blame stay.
LEMMA ResetFounded ==
  ASSUME NEW b, NEW st \in BlockStatus, Founded(b, st)
  PROVE  ResetRejections(st) \in BlockStatus /\ Founded(b, ResetRejections(st))
<1> DEFINE r == ResetRejections(st)
<1>1. /\ r \in BlockStatus
      /\ r.responded = st.gathered /\ r.rejected = 0 /\ r.transient = 0
      /\ r.gathered = st.gathered /\ r.approved = st.approved /\ r.failed = st.failed
  BY DEF ResetRejections, BlockStatus
<1> HIDE DEF r
<1>2. Founded(b, r)  BY <1>1, UnitsAreFinite DEF Founded
<1>3. QED  BY <1>1, <1>2 DEF r

\* No set of signers exceeds the total, so no count of distinct signers saturates.
LEMMA NoSaturation ==
  ASSUME NEW S, NEW n \in Nat, n <= WeightOf(S)
  PROVE  /\ \A s : s \notin S => /\ SaturatingAdd(n, Weight(s)) = n + Weight(s)
                               /\ WeightOf(S \cup {s}) = WeightOf(S) + Weight(s)
         /\ \A s : SaturatingAdd(n, Weight(s)) <= n + Weight(s)
         /\ \A s : Weight(s) \in Nat /\ SaturatingAdd(n, Weight(s)) \in Nat
<1>1. \A s : Weight(s) \in Nat  BY UnitsAreFinite DEF Weight
<1>2. WeightCap \in Nat /\ TotalWeight \in Nat /\ 2 * TotalWeight <= WeightCap
  BY StepsAssumption, ThresholdType
<1>3. ASSUME NEW s, s \notin S
      PROVE  /\ WeightOf(S \cup {s}) = WeightOf(S) + Weight(s)
             /\ SaturatingAdd(n, Weight(s)) = n + Weight(s)
  <2>1. S \cap {s} = {}  BY <1>3
  <2>2. WeightOf(S \cup {s}) = WeightOf(S) + Weight(s)  BY <2>1, WeightAdds DEF Weight
  <2>3. WeightOf(S \cup {s}) <= TotalWeight
    BY UnitsAreFinite, FS_Subset, SignersAssumption DEF TotalWeight
  <2>4. WeightOf(S) \in Nat  BY UnitsAreFinite
  <2>5. n + Weight(s) <= WeightCap  BY <1>1, <1>2, <2>2, <2>3, <2>4
  <2>6. QED  BY <1>1, <1>2, <2>2, <2>5 DEF SaturatingAdd
<1>4. \A s : /\ SaturatingAdd(n, Weight(s)) <= n + Weight(s)
             /\ SaturatingAdd(n, Weight(s)) \in Nat
  BY <1>1, <1>2 DEF SaturatingAdd
<1>5. QED  BY <1>1, <1>3, <1>4

\* What is heard is never unheard.
LEMMA HeardGrows ==
  ASSUME heard \subseteq heard'
  PROVE  /\ \A b, votes : Voters(b, votes) \subseteq Voters(b, votes)'
         /\ \A b, votes, x : Blamers(b, votes, x) \subseteq Blamers(b, votes, x)'
         /\ \A b, votes : MeetsThreshold(Voters(b, votes)) => MeetsThreshold(Voters(b, votes)')
         /\ \A b, votes : BlocksThreshold(Voters(b, votes)) => BlocksThreshold(Voters(b, votes)')
         /\ \A b, votes, x : BlocksThreshold(Blamers(b, votes, x))
                               => BlocksThreshold(Blamers(b, votes, x)')
<1>1. \A b, votes : Voters(b, votes) \subseteq Voters(b, votes)'  BY DEF Voters
<1>2. \A b, votes, x : Blamers(b, votes, x) \subseteq Blamers(b, votes, x)'  BY DEF Blamers
<1>3. ASSUME NEW S, NEW T, S \subseteq T
      PROVE  /\ MeetsThreshold(S) => MeetsThreshold(T)
             /\ BlocksThreshold(S) => BlocksThreshold(T)
  BY <1>3, WeightIsMonotone, UnitsAreFinite, ThresholdType
     DEF MeetsThreshold, BlocksThreshold
<1>4. QED  BY <1>1, <1>2, <1>3

\* A status stays founded while more is heard.
LEMMA StaysFounded ==
  ASSUME heard \subseteq heard', NEW b, NEW st \in BlockStatus, Founded(b, st)
  PROVE  Founded(b, st)'
<1>1. st.gathered \subseteq Voters(b, {"accept"})'  BY HeardGrows DEF Founded
<1>2. WeightOf(st.responded \cap Voters(b, Substantive))
        <= WeightOf(st.responded \cap Voters(b, Substantive)')
  <2>1. st.responded \cap Voters(b, Substantive)
          \subseteq st.responded \cap Voters(b, Substantive)'  BY HeardGrows
  <2>2. QED  BY <2>1, WeightIsMonotone
<1>3. ASSUME NEW x \in Txids
      PROVE  /\ WeightOf(Blamers(b, Blaming, x)) <= WeightOf(Blamers(b, Blaming, x)')
             /\ WeightOf(Blamers(b, {"problematic"}, x))
                  <= WeightOf(Blamers(b, {"problematic"}, x)')
  BY HeardGrows, WeightIsMonotone
<1>4. /\ st.transient \in Nat /\ st.rejected \in Nat /\ st.approved \in Nat
      /\ \A x \in Txids : st.failed[x].total \in Nat /\ st.failed[x].problematic \in Nat
  BY DEF BlockStatus
<1>5. \A S : WeightOf(S) \in Nat  BY UnitsAreFinite
<1>6. st.rejected <= st.transient + WeightOf(st.responded \cap Voters(b, Substantive)')
  BY <1>2, <1>4, <1>5 DEF Founded
<1>7. ASSUME NEW x \in Txids
      PROVE  /\ st.failed[x].total <= WeightOf(Blamers(b, Blaming, x)')
             /\ st.failed[x].problematic <= WeightOf(Blamers(b, {"problematic"}, x)')
  BY <1>3, <1>4, <1>5 DEF Founded
<1>8. QED  BY <1>1, <1>6, <1>7 DEF Founded

\* Counting an acceptance: once per signer.
LEMMA AcceptedFounded ==
  ASSUME NEW b, NEW s \in Signers, NEW st \in BlockStatus, Founded(b, st),
         heard' = heard \cup {<<b, s, "accept", None>>}
  PROVE  CountAccepted(st, s) \in BlockStatus /\ Founded(b, CountAccepted(st, s))'
<1> DEFINE r == CountAccepted(st, s)
<1>1. st.approved \in Nat /\ st.transient \in Nat /\ st.rejected \in Nat
      /\ st.gathered \subseteq Signers /\ st.responded \subseteq Signers
  BY DEF BlockStatus
<1>2. st.approved <= WeightOf(st.gathered)  BY DEF Founded
<1>3. /\ SaturatingAdd(st.approved, Weight(s)) \in Nat
      /\ s \notin st.gathered => SaturatingAdd(st.approved, Weight(s))
                                   <= WeightOf(st.gathered \cup {s})
  BY <1>1, <1>2, NoSaturation, UnitsAreFinite
<1>4. /\ r \in BlockStatus
      /\ r.gathered = st.gathered \cup {s} /\ r.responded = st.responded \cup {s}
      /\ r.rejected = st.rejected /\ r.transient = st.transient /\ r.failed = st.failed
      /\ r.approved = IF s \in st.gathered THEN st.approved
                      ELSE SaturatingAdd(st.approved, Weight(s))
  BY <1>1, <1>3 DEF CountAccepted, BlockStatus
<1> HIDE DEF r
<1>5. heard \subseteq heard'  OBVIOUS
<1>6. Founded(b, st)'  BY <1>5, StaysFounded
<1>7. r.gathered \subseteq Voters(b, {"accept"})'
  <2>1. s \in Voters(b, {"accept"})'  BY DEF Voters
  <2>2. st.gathered \subseteq Voters(b, {"accept"})'  BY <1>6 DEF Founded
  <2>3. QED  BY <1>4, <2>1, <2>2
<1>8. r.approved <= WeightOf(r.gathered)
  <2>1. s \in st.gathered => st.gathered \cup {s} = st.gathered  OBVIOUS
  <2>2. QED  BY <1>2, <1>3, <1>4, <2>1
<1>9. r.transient <= WeightOf(r.responded)
  <2>1. WeightOf(st.responded) <= WeightOf(r.responded)  BY <1>4, WeightIsMonotone
  <2>2. QED  BY <1>1, <1>4, <2>1, UnitsAreFinite DEF Founded
<1>10. r.rejected <= r.transient + WeightOf(r.responded \cap Voters(b, Substantive)')
  <2>1. st.rejected <= st.transient + WeightOf(st.responded \cap Voters(b, Substantive)')
    BY <1>6 DEF Founded
  <2>2. WeightOf(st.responded \cap Voters(b, Substantive)')
          <= WeightOf(r.responded \cap Voters(b, Substantive)')
    BY <1>4, WeightIsMonotone
  <2>3. QED  BY <1>1, <1>4, <2>1, <2>2, UnitsAreFinite
<1>11. QED  BY <1>4, <1>6, <1>7, <1>8, <1>9, <1>10 DEF Founded, r

\* Blame: a signer blames once per block, so its weight is new to the blamers.
LEMMA BlameFounded ==
  ASSUME NEW b, NEW s \in Signers, NEW vote \in Blaming, NEW x \in Txids,
         NEW info \in [total : Nat, problematic : Nat], ~Blamed(b, s),
         heard' = heard \cup {<<b, s, vote, x>>},
         info.total <= WeightOf(Blamers(b, Blaming, x)),
         info.problematic <= WeightOf(Blamers(b, {"problematic"}, x))
  PROVE  /\ Blame(info, s, vote) \in [total : Nat, problematic : Nat]
         /\ Blame(info, s, vote).total <= WeightOf(Blamers(b, Blaming, x)')
         /\ Blame(info, s, vote).problematic <= WeightOf(Blamers(b, {"problematic"}, x)')
<1> DEFINE A == Blamers(b, Blaming, x)
           P == Blamers(b, {"problematic"}, x)
<1>1. s \notin A /\ s \notin P
  BY DEF Blamed, Blamers, Blaming
<1>2. A \cup {s} \subseteq Blamers(b, Blaming, x)'  BY DEF Blamers
<1>3. P \subseteq Blamers(b, {"problematic"}, x)'
      /\ (vote = "problematic" => P \cup {s} \subseteq Blamers(b, {"problematic"}, x)')
  BY DEF Blamers
<1>4. info.total \in Nat /\ info.problematic \in Nat  OBVIOUS
<1>5. /\ SaturatingAdd(info.total, Weight(s)) \in Nat
      /\ SaturatingAdd(info.total, Weight(s)) <= WeightOf(A \cup {s})
  BY <1>1, <1>4, NoSaturation, UnitsAreFinite
<1>6. /\ SaturatingAdd(info.problematic, Weight(s)) \in Nat
      /\ SaturatingAdd(info.problematic, Weight(s)) <= WeightOf(P \cup {s})
  BY <1>1, <1>4, NoSaturation, UnitsAreFinite
<1>7. WeightOf(A \cup {s}) <= WeightOf(Blamers(b, Blaming, x)')  BY <1>2, WeightIsMonotone
<1>8. /\ WeightOf(P) <= WeightOf(Blamers(b, {"problematic"}, x)')
      /\ vote = "problematic" =>
           WeightOf(P \cup {s}) <= WeightOf(Blamers(b, {"problematic"}, x)')
  BY <1>3, WeightIsMonotone
<1>9. \A S : WeightOf(S) \in Nat  BY UnitsAreFinite
<1> HIDE DEF A, P
<1>10. info.problematic <= WeightOf(P)  BY DEF P
<1>11. QED  BY <1>4, <1>5, <1>6, <1>7, <1>8, <1>9, <1>10 DEF Blame

\* Counting a rejection: the first response since the last reset.
LEMMA RejectedFounded ==
  ASSUME NEW b, NEW s \in Signers, NEW vote \in Votes \ {"accept"},
         NEW x \in Txids \cup {None}, vote \in Blaming => x \in Txids /\ ~Blamed(b, s),
         NEW st \in BlockStatus, Founded(b, st),
         heard' = heard \cup {<<b, s, vote, x>>}
  PROVE  CountRejected(st, s, vote, x) \in BlockStatus
         /\ Founded(b, CountRejected(st, s, vote, x))'
<1>1. heard \subseteq heard'  OBVIOUS
<1>2. Founded(b, st)'  BY <1>1, StaysFounded
<1>3. CASE s \in st.responded
  <2>1. CountRejected(st, s, vote, x) = st  BY <1>3 DEF CountRejected
  <2>2. QED  BY <1>2, <2>1
<1>4. CASE s \notin st.responded
  <2> DEFINE r == CountRejected(st, s, vote, x)
             w == Weight(s)
  <2>1. /\ st.transient \in Nat /\ st.rejected \in Nat
        /\ st.failed \in [Txids -> [total : Nat, problematic : Nat]]
        /\ st.responded \subseteq Signers
    BY DEF BlockStatus
  <2>2. /\ st.transient <= WeightOf(st.responded)
        /\ w \in Nat
        /\ SaturatingAdd(st.transient, w) = st.transient + w
        /\ WeightOf(st.responded \cup {s}) = WeightOf(st.responded) + w
    BY <1>4, <2>1, NoSaturation DEF Founded
  <2>3. SaturatingAdd(st.rejected, w) \in Nat /\ SaturatingAdd(st.rejected, w) <= st.rejected + w
    <3>1. WeightCap \in Nat  BY StepsAssumption
    <3>2. QED  BY <2>1, <2>2, <3>1 DEF SaturatingAdd
  <2>4. vote \in Blaming => /\ Blame(st.failed[x], s, vote) \in [total : Nat, problematic : Nat]
                            /\ Blame(st.failed[x], s, vote).total
                                 <= WeightOf(Blamers(b, Blaming, x)')
                            /\ Blame(st.failed[x], s, vote).problematic
                                 <= WeightOf(Blamers(b, {"problematic"}, x)')
    <3> HAVE vote \in Blaming
    <3>1. x \in Txids /\ ~Blamed(b, s) /\ st.failed[x] \in [total : Nat, problematic : Nat]
      BY <2>1
    <3>2. /\ st.failed[x].total <= WeightOf(Blamers(b, Blaming, x))
          /\ st.failed[x].problematic <= WeightOf(Blamers(b, {"problematic"}, x))
      BY <3>1 DEF Founded
    <3>3. QED  BY <3>1, <3>2, BlameFounded
  <2> DEFINE failed == IF vote \in Blaming
                       THEN [st.failed EXCEPT ![x] = Blame(st.failed[x], s, vote)]
                       ELSE st.failed
             trans  == IF vote = "transient" THEN st.transient + w ELSE st.transient
  <2>5. r = [st EXCEPT !.responded = st.responded \cup {s},
                       !.rejected = SaturatingAdd(st.rejected, w),
                       !.transient = trans, !.failed = failed]
    BY <1>4, <2>2 DEF CountRejected
  <2>6. failed \in [Txids -> [total : Nat, problematic : Nat]]  BY <2>1, <2>4
  <2>7. trans \in Nat  BY <2>1, <2>2
  <2> HIDE DEF failed, trans, w
  <2>8. /\ r \in BlockStatus
        /\ r.responded = st.responded \cup {s} /\ r.rejected = SaturatingAdd(st.rejected, w)
        /\ r.transient = trans /\ r.failed = failed
        /\ r.gathered = st.gathered /\ r.approved = st.approved
    <3> DEFINE F == [Txids -> [total : Nat, problematic : Nat]]
               S == [responded : SUBSET Signers, gathered : SUBSET Signers, approved : Nat,
                     rejected : Nat, transient : Nat, failed : F]
    <3>1. st \in S  BY DEF BlockStatus
    <3>2. failed \in F  BY <2>6
    <3>3. st.responded \cup {s} \in SUBSET Signers  BY <2>1
    <3> HIDE DEF F, r
    <3>4. /\ r \in S
          /\ r.responded = st.responded \cup {s} /\ r.rejected = SaturatingAdd(st.rejected, w)
          /\ r.transient = trans /\ r.failed = failed
          /\ r.gathered = st.gathered /\ r.approved = st.approved
      BY <2>3, <2>5, <2>7, <3>1, <3>2, <3>3
    <3>5. QED  BY <3>4 DEF BlockStatus, F
  <2> HIDE DEF r
  <2>9. \A S : WeightOf(S) \in Nat  BY UnitsAreFinite
  <2>10. r.transient <= WeightOf(r.responded)  BY <2>1, <2>2, <2>8, <2>9 DEF trans
  <2>11. r.rejected <= r.transient + WeightOf(r.responded \cap Voters(b, Substantive)')
    <3> DEFINE X == st.responded \cap Voters(b, Substantive)'
               Y == r.responded \cap Voters(b, Substantive)'
    <3>1. st.rejected <= st.transient + WeightOf(X)  BY <1>2 DEF Founded
    <3>2. CASE vote = "transient"
      <4>1. X \subseteq Y  BY <2>8
      <4>2. WeightOf(X) <= WeightOf(Y)  BY <4>1, WeightIsMonotone
      <4> HIDE DEF X, Y
      <4>3. r.rejected <= r.transient + WeightOf(Y)
        BY <2>1, <2>2, <2>3, <2>8, <2>9, <3>1, <3>2, <4>2 DEF trans
      <4>4. QED  BY <4>3 DEF Y
    <3>3. CASE vote # "transient"
      <4>1. s \in Voters(b, Substantive)'  BY <3>3 DEF Voters, Substantive
      <4>2. X \cup {s} \subseteq Y /\ X \cap {s} = {}  BY <1>4, <2>8, <4>1
      <4>3. WeightOf(X \cup {s}) <= WeightOf(Y)  BY <4>2, WeightIsMonotone
      <4>4. WeightOf(X \cup {s}) = WeightOf(X) + w  BY <4>2, WeightAdds DEF Weight, w
      <4> HIDE DEF X, Y
      <4>5. r.rejected <= r.transient + WeightOf(Y)
        BY <2>1, <2>2, <2>3, <2>8, <2>9, <3>1, <3>3, <4>3, <4>4 DEF trans
      <4>6. QED  BY <4>5 DEF Y
    <3>4. QED  BY <3>2, <3>3
  <2>12. ASSUME NEW y \in Txids
         PROVE  /\ r.failed[y].total <= WeightOf(Blamers(b, Blaming, y)')
                /\ r.failed[y].problematic <= WeightOf(Blamers(b, {"problematic"}, y)')
    <3>1. CASE vote \in Blaming /\ y = x
      <4>1. r.failed[y] = Blame(st.failed[x], s, vote)  BY <2>1, <2>8, <3>1 DEF failed
      <4>2. QED  BY <2>4, <3>1, <4>1
    <3>2. CASE ~(vote \in Blaming /\ y = x)
      <4>1. r.failed[y] = st.failed[y]  BY <2>1, <2>8, <3>2 DEF failed
      <4>2. QED  BY <1>2, <4>1 DEF Founded
    <3>3. QED  BY <3>1, <3>2
  <2>13. QED  BY <1>2, <2>8, <2>10, <2>11, <2>12 DEF Founded, r
<1>5. QED  BY <1>3, <1>4

-----------------------------------------------------------------------------
\* The invariant is kept.

\* The status that b has after the step is founded if its value is.
LEMMA FoundedNext ==
  ASSUME NEW b, NEW st, status'[b] = st, Founded(b, st)'
  PROVE  Founded(b, status[b])'
  BY DEF Founded

LEMMA SnapFoundedNext ==
  ASSUME NEW b, NEW st, miner'.block = b, miner'.snap = st, Founded(b, st)'
  PROVE  Founded(miner.block, miner.snap)'
  BY DEF Founded

\* All that was founded stays so in a step that leaves the statuses alone.
LEMMA StatusesKept ==
  ASSUME MinerInv, status' = status, heard' = heard
  PROVE  /\ \A b \in Blocks : status'[b] \in BlockStatus => Founded(b, status[b])'
         /\ miner' = miner => (miner'.pc = "decide" => Founded(miner.block, miner.snap)')
<1>1. ASSUME NEW b \in Blocks, status'[b] \in BlockStatus
      PROVE  Founded(b, status[b])'
  <2>1. PICK q \in BlockStatus : q = status'[b]  BY <1>1
  <2>2. Founded(b, q)  BY <2>1 DEF MinerInv
  <2>3. Founded(b, q)'  BY <2>2, StaysFounded
  <2>4. QED  BY <2>1, <2>3, FoundedNext
<1>2. miner' = miner => (miner'.pc = "decide" => Founded(miner.block, miner.snap)')
  BY DEF MinerInv, Founded, Voters, Blamers
<1>3. QED  BY <1>1, <1>2

\* The three properties depend on outcome, excluded and heard only.
LEMMA PropertiesKept ==
  ASSUME MinerInv, heard \subseteq heard',
         \A b \in Blocks : outcome'[b] \in {"signed", "rejected"} => outcome'[b] = outcome[b],
         excluded'.temporarily \subseteq excluded.temporarily,
         excluded'.permanently \cup excluded'.blacklist
           \subseteq excluded.permanently \cup excluded.blacklist
  PROVE  SignaturesSuffice' /\ RejectionIsFounded' /\ ExclusionIsFounded'
<1>1. SignaturesSuffice'
  <2> SUFFICES ASSUME NEW b \in Blocks, outcome'[b] = "signed"
               PROVE  MeetsThreshold(Voters(b, {"accept"})')
    BY DEF SignaturesSuffice, MeetsThreshold
  <2>1. MeetsThreshold(Voters(b, {"accept"}))  BY DEF MinerInv, SignaturesSuffice
  <2>2. QED  BY <2>1, HeardGrows
<1>2. RejectionIsFounded'
  <2> SUFFICES ASSUME NEW b \in Blocks, outcome'[b] = "rejected"
               PROVE  BlocksThreshold(Voters(b, Votes \ {"accept", "transient"})')
    BY DEF RejectionIsFounded, BlocksThreshold
  <2>1. BlocksThreshold(Voters(b, Votes \ {"accept", "transient"}))
    BY DEF MinerInv, RejectionIsFounded
  <2>2. QED  BY <2>1, HeardGrows
<1>3. ExclusionIsFounded'
  <2>1. ASSUME NEW x \in excluded'.temporarily
        PROVE  \E b \in Blocks : BlocksThreshold(Blamers(b, Blaming, x)')
    <3>1. PICK b \in Blocks : BlocksThreshold(Blamers(b, Blaming, x))
      BY <2>1 DEF MinerInv, ExclusionIsFounded
    <3>2. BlocksThreshold(Blamers(b, Blaming, x)')  BY <3>1, HeardGrows
    <3>3. QED  BY <3>2
  <2>2. ASSUME NEW x \in excluded'.permanently \cup excluded'.blacklist
        PROVE  \E b \in Blocks : BlocksThreshold(Blamers(b, {"problematic"}, x)')
    <3>1. PICK b \in Blocks : BlocksThreshold(Blamers(b, {"problematic"}, x))
      BY <2>2 DEF MinerInv, ExclusionIsFounded
    <3>2. BlocksThreshold(Blamers(b, {"problematic"}, x)')  BY <3>1, HeardGrows
    <3>3. QED  BY <3>2
  <2>3. QED  BY <2>1, <2>2 DEF ExclusionIsFounded, BlocksThreshold
<1>4. QED  BY <1>1, <1>2, <1>3

\* A response is heard.
LEMMA HearKeeps ==
  ASSUME MinerInv, NEW s \in Signers, NEW b \in Blocks, NEW vote \in Votes,
         NEW x \in Txids \cup {None}, Hear(s, b, vote, x)
  PROVE  MinerInv'
<1>1. heard' = heard \cup {<<b, s, vote, x>>} /\ heard \subseteq heard'  BY DEF Hear
<1>2. status[b] \in BlockStatus /\ Founded(b, status[b])  BY DEF MinerInv, Hear
<1>3. PICK st \in BlockStatus : st = status[b]  BY <1>2
<1>4. PICK r : r = IF vote = "accept" THEN CountAccepted(st, s)
                   ELSE CountRejected(st, s, vote, x)
  OBVIOUS
<1>5. Founded(b, st)  BY <1>2, <1>3
<1>6. r \in BlockStatus /\ Founded(b, r)'
  <2>1. CASE vote = "accept"
    <3>1. x = None  BY <2>1 DEF Hear, Blaming
    <3>2. CountAccepted(st, s) \in BlockStatus /\ Founded(b, CountAccepted(st, s))'
      BY <1>1, <1>5, <2>1, <3>1, AcceptedFounded
    <3>3. QED  BY <1>4, <2>1, <3>2 DEF Founded
  <2>2. CASE vote # "accept"
    <3>1. vote \in Blaming => x \in Txids /\ ~Blamed(b, s)  BY DEF Hear
    <3>2. CountRejected(st, s, vote, x) \in BlockStatus
          /\ Founded(b, CountRejected(st, s, vote, x))'
      BY <1>1, <1>5, <2>2, <3>1, RejectedFounded
    <3>3. QED  BY <1>4, <2>2, <3>2 DEF Founded
  <2>3. QED  BY <2>1, <2>2
<1>7. status' = [status EXCEPT ![b] = r]  BY <1>3, <1>4 DEF Hear
<1>8. status \in [Blocks -> BlockStatus \cup {None}] /\ TypeOK  BY DEF MinerInv, TypeOK
<1>9. status' \in [Blocks -> BlockStatus \cup {None}] /\ status'[b] = r
      /\ \A c \in Blocks : c # b => status'[c] = status[c]
  BY <1>6, <1>7, <1>8
<1>10. TypeOK'
  <2>1. owed' \in [Signers -> [Blocks -> 0..MaxOwed]]
    BY <1>8, StepsAssumption DEF TypeOK, Hear
  <2>2. heard' \subseteq Blocks \X Signers \X Votes \X (Txids \cup {None})
    BY <1>1, <1>8 DEF TypeOK
  <2>3. QED  BY <1>8, <1>9, <2>1, <2>2 DEF TypeOK, Hear, ListenerUnchanged
<1>11. ASSUME NEW c \in Blocks, status'[c] \in BlockStatus
       PROVE  Founded(c, status[c])'
  <2>1. CASE c = b  BY <1>6, <1>9, <2>1, FoundedNext
  <2>2. CASE c # b
    <3>1. PICK q \in BlockStatus : q = status'[c]  BY <1>11
    <3>2. Founded(c, q)  BY <1>9, <2>2, <3>1 DEF MinerInv
    <3>3. Founded(c, q)'  BY <1>1, <3>2, StaysFounded
    <3>4. QED  BY <3>1, <3>3, FoundedNext
  <2>3. QED  BY <2>1, <2>2
<1>12. \A c \in Blocks : status[c] \in BlockStatus => status'[c] \in BlockStatus
  BY <1>6, <1>9
<1>13. \A c \in Blocks, t \in Signers : owed'[t][c] > 0 => status'[c] \in BlockStatus
  <2>1. ASSUME NEW c \in Blocks, NEW t \in Signers, owed'[t][c] > 0
        PROVE  owed[t][c] > 0
    BY <1>8, <2>1 DEF TypeOK, Hear
  <2>2. QED  BY <1>12, <2>1 DEF MinerInv
<1>14. miner' = miner /\ outcome' = outcome /\ excluded' = excluded
  BY DEF Hear, ListenerUnchanged
<1>15. miner'.pc = "decide" => Founded(miner.block, miner.snap)'
  <2> HAVE miner'.pc = "decide"
  <2>1. PICK q \in BlockStatus : q = miner.snap  BY <1>8 DEF TypeOK
  <2>2. PICK c : c = miner.block  OBVIOUS
  <2>3. Founded(c, q)  BY <1>14, <2>1, <2>2 DEF MinerInv
  <2>4. Founded(c, q)'  BY <1>1, <2>3, StaysFounded
  <2>5. QED  BY <1>14, <2>1, <2>2, <2>4, SnapFoundedNext
<1>16. SignaturesSuffice' /\ RejectionIsFounded' /\ ExclusionIsFounded'
  BY <1>1, <1>14, PropertiesKept
<1>17. QED  BY <1>10, <1>11, <1>12, <1>13, <1>14, <1>15, <1>16 DEF MinerInv

\* A step that touches only the listener, the chain or the abort flag.
LEMMA OthersKeep ==
  ASSUME MinerInv,
         UNCHANGED <<status, owed, miner, outcome, excluded, heard>>,
         listener' \in {"running", "stopped", "failed"},
         chain' \in [staged : SUBSET Blocks, processed : SUBSET Blocks,
                     burn : BOOLEAN, rival : BOOLEAN],
         abort' \in BOOLEAN
  PROVE  MinerInv'
<1>1. TypeOK'  BY DEF MinerInv, TypeOK
<1>2. SignaturesSuffice' /\ RejectionIsFounded' /\ ExclusionIsFounded'
  BY PropertiesKept
<1>3. QED  BY <1>1, <1>2, StatusesKept DEF MinerInv

\* Where the thread may go without more ado.
LEMMA MovesKeep ==
  ASSUME MinerInv, UNCHANGED <<status, heard>>,
         owed' \in [Signers -> [Blocks -> 0..MaxOwed]],
         \A b \in Blocks, s \in Signers : owed'[s][b] > 0 => status[b] \in BlockStatus,
         listener' = listener, abort' = abort,
         miner' \in [pc : Places, block : Blocks \cup {None}, seen : Nat,
                     timeout : 0..MaxElapsed, elapsed : 0..MaxElapsed, snap : BlockStatus],
         miner'.pc \in Proposing => miner'.block \in Blocks /\ status[miner'.block] \in BlockStatus,
         miner'.pc \in {"broadcast", "processing"} => miner'.block \in Blocks,
         miner'.pc = "decide" => Founded(miner.block, miner.snap)',
         outcome' \in [Blocks -> Outcomes],
         \A b \in Blocks : outcome'[b] \in {"signed", "rejected"} => outcome'[b] = outcome[b],
         excluded' \in [temporarily : SUBSET Txids, permanently : SUBSET Txids,
                        blacklist : SUBSET Txids],
         excluded'.temporarily \subseteq excluded.temporarily,
         excluded'.permanently \cup excluded'.blacklist
           \subseteq excluded.permanently \cup excluded.blacklist,
         chain' \in [staged : SUBSET Blocks, processed : SUBSET Blocks,
                     burn : BOOLEAN, rival : BOOLEAN]
  PROVE  MinerInv'
<1>1. TypeOK'  BY DEF MinerInv, TypeOK
<1>2. SignaturesSuffice' /\ RejectionIsFounded' /\ ExclusionIsFounded'
  BY PropertiesKept
<1>3. \A b \in Blocks : status'[b] \in BlockStatus => Founded(b, status[b])'
  BY StatusesKept
<1>4. QED  BY <1>1, <1>2, <1>3 DEF MinerInv

MinerType == [pc : Places, block : Blocks \cup {None}, seen : Nat,
              timeout : 0..MaxElapsed, elapsed : 0..MaxElapsed, snap : BlockStatus]

LEMMA AtType ==
  ASSUME NEW pc \in Places, NEW b \in Blocks \cup {None}
  PROVE  At(pc, b) \in MinerType /\ At(pc, b).pc = pc /\ At(pc, b).block = b
<1>1. 0 \in 0..MaxElapsed  BY StepsAssumption
<1>2. QED  BY <1>1, NewStatusFounded DEF At, MinerType

\* The thread goes to a place where it waits for nothing; no status changes.
LEMMA AtKeeps ==
  ASSUME MinerInv, UNCHANGED <<status, owed, listener, abort, heard>>,
         NEW pc \in Places, NEW b \in Blocks \cup {None}, miner' = At(pc, b),
         pc \notin Proposing, pc \in {"broadcast", "processing"} => b \in Blocks,
         outcome' \in [Blocks -> Outcomes],
         \A c \in Blocks : outcome'[c] \in {"signed", "rejected"} => outcome'[c] = outcome[c],
         excluded' \in [temporarily : SUBSET Txids, permanently : SUBSET Txids,
                        blacklist : SUBSET Txids],
         excluded'.temporarily \subseteq excluded.temporarily,
         excluded'.permanently \cup excluded'.blacklist
           \subseteq excluded.permanently \cup excluded.blacklist,
         chain' \in [staged : SUBSET Blocks, processed : SUBSET Blocks,
                     burn : BOOLEAN, rival : BOOLEAN]
  PROVE  MinerInv'
<1>1. miner' \in MinerType /\ miner'.pc = pc /\ miner'.block = b  BY AtType
<1>2. pc # "decide"  BY DEF Proposing
<1>3. /\ owed' \in [Signers -> [Blocks -> 0..MaxOwed]]
      /\ \A c \in Blocks, s \in Signers : owed'[s][c] > 0 => status[c] \in BlockStatus
  BY DEF MinerInv, TypeOK
<1>4. QED  BY <1>1, <1>2, <1>3, MovesKeep DEF MinerType

\* A step that only moves the program counter of get_block_status.
LEMMA GotoKeeps ==
  ASSUME MinerInv, NEW pc \in Proposing \ {"decide"}, miner.pc \in Proposing, Goto(pc),
         UNCHANGED <<status, owed, listener, outcome, excluded, chain, abort, heard>>
  PROVE  MinerInv'
<1>1. miner \in MinerType  BY DEF MinerInv, TypeOK, MinerType
<1>2. pc \in Places  BY DEF Proposing, Places
<1>3. miner' \in MinerType /\ miner'.pc = pc /\ miner'.block = miner.block
  BY <1>1, <1>2, NewStatusFounded DEF Goto, MinerType
<1>4. miner'.block \in Blocks /\ status[miner'.block] \in BlockStatus
  BY <1>3 DEF MinerInv
<1>5. /\ owed' \in [Signers -> [Blocks -> 0..MaxOwed]]
      /\ \A c \in Blocks, s \in Signers : owed'[s][c] > 0 => status[c] \in BlockStatus
      /\ outcome' \in [Blocks -> Outcomes]
      /\ excluded' \in [temporarily : SUBSET Txids, permanently : SUBSET Txids,
                        blacklist : SUBSET Txids]
      /\ chain' \in [staged : SUBSET Blocks, processed : SUBSET Blocks,
                     burn : BOOLEAN, rival : BOOLEAN]
  BY DEF MinerInv, TypeOK
<1>6. miner'.pc # "decide" /\ miner'.pc \notin {"broadcast", "processing"}
  BY <1>3 DEF Proposing
<1>7. /\ \A b \in Blocks : outcome'[b] = outcome[b]
      /\ excluded' = excluded /\ listener' = listener /\ abort' = abort
      /\ status' = status /\ heard' = heard
  OBVIOUS
<1>8. QED  BY <1>3, <1>4, <1>5, <1>6, <1>7, MovesKeep DEF MinerType

\* propose_block returns without signatures of its own count and without a verdict.
LEMMA ReturnKeeps ==
  ASSUME MinerInv, miner.pc \in Proposing,
         NEW how \in Outcomes \ {"signed", "rejected"},
         NEW pc \in {"attempt", "shutdown", "broadcast"}, Return(how, pc),
         UNCHANGED <<status, owed, listener, excluded, chain, abort, heard>>
  PROVE  MinerInv'
<1>1. miner.block \in Blocks  BY DEF MinerInv
<1>2. outcome \in [Blocks -> Outcomes]  BY DEF MinerInv, TypeOK
<1>3. outcome' = [outcome EXCEPT ![miner.block] = how]  BY DEF Return
<1>4. /\ outcome' \in [Blocks -> Outcomes]
      /\ \A c \in Blocks : outcome'[c] \in {"signed", "rejected"} => outcome'[c] = outcome[c]
  BY <1>1, <1>2, <1>3
<1>5. PICK b \in Blocks \cup {None} :
        b = IF pc \in {"broadcast", "processing"} THEN miner.block ELSE None
  BY <1>1
<1>6. miner' = At(pc, b)  BY <1>5 DEF Return
<1>7. pc \in {"broadcast", "processing"} => b \in Blocks  BY <1>1, <1>5
<1>8. pc \in Places /\ pc \notin Proposing  BY DEF Places, Proposing
<1>9. /\ excluded' \in [temporarily : SUBSET Txids, permanently : SUBSET Txids,
                        blacklist : SUBSET Txids]
      /\ chain' \in [staged : SUBSET Blocks, processed : SUBSET Blocks,
                     burn : BOOLEAN, rival : BOOLEAN]
  BY DEF MinerInv, TypeOK
<1>10. QED  BY <1>4, <1>6, <1>7, <1>8, <1>9, AtKeeps

\* A status is entered or reset, the thread goes to send the proposal.
LEMMA ToSendKeeps ==
  ASSUME MinerInv, NEW b \in Blocks, NEW r \in BlockStatus, Founded(b, r),
         status' = [status EXCEPT ![b] = r], miner' = At("send", b),
         UNCHANGED <<owed, listener, outcome, abort, heard>>,
         excluded' \in [temporarily : SUBSET Txids, permanently : SUBSET Txids,
                        blacklist : SUBSET Txids],
         excluded'.temporarily \subseteq excluded.temporarily,
         excluded'.permanently \cup excluded'.blacklist
           \subseteq excluded.permanently \cup excluded.blacklist,
         chain' \in [staged : SUBSET Blocks, processed : SUBSET Blocks,
                     burn : BOOLEAN, rival : BOOLEAN]
  PROVE  MinerInv'
<1>1. status \in [Blocks -> BlockStatus \cup {None}]  BY DEF MinerInv, TypeOK
<1>2. /\ status' \in [Blocks -> BlockStatus \cup {None}] /\ status'[b] = r
      /\ \A c \in Blocks : c # b => status'[c] = status[c]
  BY <1>1
<1>3. miner' \in MinerType /\ miner'.pc = "send" /\ miner'.block = b
  BY AtType DEF Places
<1>4. TypeOK'  BY <1>2, <1>3 DEF MinerInv, TypeOK, MinerType
<1>5. ASSUME NEW c \in Blocks, status'[c] \in BlockStatus
      PROVE  Founded(c, status[c])'
  <2>1. PICK q \in BlockStatus : q = status'[c]  BY <1>5
  <2>2. Founded(c, q)  BY <1>2, <2>1 DEF MinerInv
  <2>3. Founded(c, q)'  BY <2>2, StaysFounded
  <2>4. QED  BY <2>1, <2>3, FoundedNext
<1>6. \A c \in Blocks, t \in Signers : owed'[t][c] > 0 => status'[c] \in BlockStatus
  BY <1>2 DEF MinerInv
<1>7. SignaturesSuffice' /\ RejectionIsFounded' /\ ExclusionIsFounded'
  BY PropertiesKept
<1>8. QED  BY <1>2, <1>3, <1>4, <1>5, <1>6, <1>7 DEF MinerInv, Proposing

LEMMA SendAgainKeeps ==
  ASSUME MinerInv, miner.pc \in Proposing, SendAgain,
         UNCHANGED <<owed, listener, excluded, chain, abort, heard>>
  PROVE  MinerInv'
<1>1. PICK b \in Blocks : b = miner.block  BY DEF MinerInv
<1>2. PICK st \in BlockStatus : st = status[b]  BY <1>1 DEF MinerInv
<1>3. Founded(b, st)  BY <1>2 DEF MinerInv
<1>4. PICK r : r = ResetRejections(st)  OBVIOUS
<1>5. r \in BlockStatus /\ Founded(b, r)  BY <1>3, <1>4, ResetFounded
<1>6. status' = [status EXCEPT ![b] = r] /\ miner' = At("send", b) /\ outcome' = outcome
  BY <1>1, <1>2, <1>4 DEF SendAgain
<1>7. /\ excluded' \in [temporarily : SUBSET Txids, permanently : SUBSET Txids,
                        blacklist : SUBSET Txids]
      /\ chain' \in [staged : SUBSET Blocks, processed : SUBSET Blocks,
                     burn : BOOLEAN, rival : BOOLEAN]
  BY DEF MinerInv, TypeOK
<1>8. QED  BY <1>5, <1>6, <1>7, ToSendKeeps

-----------------------------------------------------------------------------
\* One lemma per action of the miner thread that is more than a move.

LEMMA MineKeeps ==
  ASSUME MinerInv, NEW b \in Blocks, Mine(b)
  PROVE  MinerInv'
<1>1. PICK r \in BlockStatus : r = NewStatus /\ Founded(b, r)  BY NewStatusFounded
<1>2. status' = [status EXCEPT ![b] = r] /\ miner' = At("send", b)  BY <1>1 DEF Mine
<1>3. excluded \in [temporarily : SUBSET Txids, permanently : SUBSET Txids,
                    blacklist : SUBSET Txids]
      /\ chain \in [staged : SUBSET Blocks, processed : SUBSET Blocks,
                    burn : BOOLEAN, rival : BOOLEAN]
  BY DEF MinerInv, TypeOK
<1>4. /\ excluded' \in [temporarily : SUBSET Txids, permanently : SUBSET Txids,
                        blacklist : SUBSET Txids]
      /\ excluded'.temporarily = excluded.temporarily
      /\ excluded'.permanently \cup excluded'.blacklist
           \subseteq excluded.permanently \cup excluded.blacklist
      /\ chain' \in [staged : SUBSET Blocks, processed : SUBSET Blocks,
                     burn : BOOLEAN, rival : BOOLEAN]
  BY <1>3 DEF Mine
<1>5. UNCHANGED <<owed, listener, outcome, abort, heard>>  BY DEF Mine
<1>6. QED  BY <1>1, <1>2, <1>4, <1>5, ToSendKeeps

LEMMA SendKeeps ==
  ASSUME MinerInv, Send
  PROVE  MinerInv'
<1>1. miner.pc \in Proposing /\ UNCHANGED <<status, listener, excluded, chain, abort, heard>>
  BY DEF Send, Proposing
<1>2. CASE \E pc \in {"attempt", "shutdown"} : Return("failed", pc) /\ owed' = owed
  <2>1. PICK pc \in {"attempt", "shutdown"} : Return("failed", pc)  BY <1>2
  <2>2. owed' = owed  BY <1>2
  <2>3. "failed" \in Outcomes \ {"signed", "rejected"}  BY DEF Outcomes
  <2>4. pc \in {"attempt", "shutdown", "broadcast"}  OBVIOUS
  <2>5. QED  BY <1>1, <2>1, <2>2, <2>3, <2>4, ReturnKeeps
<1>3. CASE /\ owed' = [s \in Signers |-> [owed[s] EXCEPT ![miner.block] =
                                            IF @ < MaxOwed THEN @ + 1 ELSE @]]
           /\ miner' = [At("top", miner.block) EXCEPT !.timeout = TimeoutSteps[0]]
           /\ outcome' = outcome
  <2>1. miner.block \in Blocks /\ status[miner.block] \in BlockStatus
    BY <1>1 DEF MinerInv
  <2>2. owed \in [Signers -> [Blocks -> 0..MaxOwed]] /\ MaxOwed \in Nat
    BY StepsAssumption DEF MinerInv, TypeOK
  <2>3. owed' \in [Signers -> [Blocks -> 0..MaxOwed]]  BY <1>3, <2>1, <2>2
  <2>4. ASSUME NEW c \in Blocks, NEW s \in Signers, owed'[s][c] > 0
        PROVE  status[c] \in BlockStatus
    <3>1. c # miner.block => owed'[s][c] = owed[s][c]  BY <1>3, <2>1, <2>2
    <3>2. QED  BY <2>1, <2>4, <3>1 DEF MinerInv
  <2>5. At("top", miner.block) \in MinerType /\ At("top", miner.block).pc = "top"
        /\ At("top", miner.block).block = miner.block
    BY <2>1, AtType DEF Places
  <2>6. TimeoutSteps[0] \in 0..MaxElapsed  BY TimeoutStepsType
  <2>7. miner' \in MinerType /\ miner'.pc = "top" /\ miner'.block = miner.block
    BY <1>3, <2>5, <2>6 DEF MinerType
  <2>8. /\ outcome' \in [Blocks -> Outcomes]
        /\ excluded' \in [temporarily : SUBSET Txids, permanently : SUBSET Txids,
                          blacklist : SUBSET Txids]
        /\ chain' \in [staged : SUBSET Blocks, processed : SUBSET Blocks,
                       burn : BOOLEAN, rival : BOOLEAN]
    BY <1>1, <1>3 DEF MinerInv, TypeOK
  <2>9. \A b \in Blocks : outcome'[b] = outcome[b]  BY <1>3
  <2>10. excluded' = excluded /\ listener' = listener /\ abort' = abort
         /\ status' = status /\ heard' = heard
    BY <1>1
  <2>11. QED  BY <2>1, <2>3, <2>4, <2>7, <2>8, <2>9, <2>10, MovesKeep DEF MinerType
<1>4. QED  BY <1>2, <1>3 DEF Send

LEMMA WaitOverKeeps ==
  ASSUME MinerInv, WaitOver
  PROVE  MinerInv'
<1>1. miner.pc \in Proposing  BY DEF WaitOver, Proposing
<1>2. PICK b \in Blocks : b = miner.block  BY <1>1 DEF MinerInv
<1>3. PICK st \in BlockStatus : st = status[b]  BY <1>1, <1>2 DEF MinerInv
<1>4. Founded(b, st)  BY <1>3 DEF MinerInv
<1>5. heard' = heard  BY DEF WaitOver
<1>6. Founded(b, st)'  BY <1>4, <1>5, StaysFounded
<1>7. miner \in MinerType  BY DEF MinerInv, TypeOK, MinerType
<1>8. /\ miner' \in MinerType /\ miner'.pc = "decide" /\ miner'.block = b
      /\ miner'.snap = st
  BY <1>2, <1>3, <1>7 DEF WaitOver, MinerType, Places
<1>9. Founded(miner.block, miner.snap)'  BY <1>6, <1>8, SnapFoundedNext
<1>10. UNCHANGED <<status, owed, listener, outcome, excluded, chain, abort, heard>>
  BY DEF WaitOver
<1>11. /\ owed' \in [Signers -> [Blocks -> 0..MaxOwed]]
       /\ \A c \in Blocks, s \in Signers : owed'[s][c] > 0 => status[c] \in BlockStatus
       /\ outcome' \in [Blocks -> Outcomes]
       /\ excluded' \in [temporarily : SUBSET Txids, permanently : SUBSET Txids,
                        blacklist : SUBSET Txids]
       /\ chain' \in [staged : SUBSET Blocks, processed : SUBSET Blocks,
                     burn : BOOLEAN, rival : BOOLEAN]
  BY <1>10 DEF MinerInv, TypeOK
<1>12. \A c \in Blocks : outcome'[c] = outcome[c]  BY <1>10
<1>13. status[miner'.block] \in BlockStatus  BY <1>3, <1>8
<1>14. QED  BY <1>8, <1>9, <1>10, <1>11, <1>12, <1>13, MovesKeep DEF MinerType

LEMMA TickKeeps ==
  ASSUME MinerInv, Tick
  PROVE  MinerInv'
<1>1. miner \in MinerType /\ MaxElapsed \in Nat
  BY StepsAssumption DEF MinerInv, TypeOK, MinerType
<1>2. /\ miner' \in MinerType /\ miner'.pc = miner.pc /\ miner'.block = miner.block
      /\ miner'.snap = miner.snap
  BY <1>1 DEF Tick, MinerType
<1>3. UNCHANGED <<status, owed, listener, outcome, excluded, chain, abort, heard>>
  BY DEF Tick
<1>4. miner'.pc = "decide" => Founded(miner.block, miner.snap)'
  <2> HAVE miner'.pc = "decide"
  <2>1. PICK q \in BlockStatus : q = miner.snap  BY <1>1 DEF MinerType
  <2>2. PICK c : c = miner.block  OBVIOUS
  <2>3. Founded(c, q)  BY <1>2, <2>1, <2>2 DEF MinerInv
  <2>4. Founded(c, q)'  BY <1>3, <2>3, StaysFounded
  <2>5. QED  BY <1>2, <2>1, <2>2, <2>4, SnapFoundedNext
<1>5. /\ owed' \in [Signers -> [Blocks -> 0..MaxOwed]]
      /\ \A c \in Blocks, s \in Signers : owed'[s][c] > 0 => status[c] \in BlockStatus
      /\ outcome' \in [Blocks -> Outcomes]
      /\ excluded' \in [temporarily : SUBSET Txids, permanently : SUBSET Txids,
                        blacklist : SUBSET Txids]
      /\ chain' \in [staged : SUBSET Blocks, processed : SUBSET Blocks,
                     burn : BOOLEAN, rival : BOOLEAN]
  BY <1>3 DEF MinerInv, TypeOK
<1>6. /\ miner'.pc \in Proposing => miner'.block \in Blocks /\ status[miner'.block] \in BlockStatus
      /\ miner'.pc \in {"broadcast", "processing"} => miner'.block \in Blocks
  BY <1>2 DEF MinerInv
<1>7. \A c \in Blocks : outcome'[c] = outcome[c]  BY <1>3
<1>8. QED  BY <1>2, <1>3, <1>4, <1>5, <1>6, <1>7, MovesKeep DEF MinerType

\* The verdict: with signatures, or with rejections and what they blame.
LEMMA DecideKeeps ==
  ASSUME MinerInv, Decide
  PROVE  MinerInv'
<1>1. miner.pc = "decide" /\ miner.pc \in Proposing  BY DEF Decide, Proposing
<1>2. PICK b \in Blocks : b = miner.block  BY <1>1 DEF MinerInv
<1>3. miner \in MinerType  BY DEF MinerInv, TypeOK, MinerType
<1>4. PICK st \in BlockStatus : st = miner.snap  BY <1>3 DEF MinerType
<1>5. Founded(b, st)  BY <1>1, <1>2, <1>4 DEF MinerInv
<1>6. UNCHANGED <<owed, listener, chain, abort, heard>>  BY DEF Decide
<1>7. /\ outcome \in [Blocks -> Outcomes]
      /\ excluded \in [temporarily : SUBSET Txids, permanently : SUBSET Txids,
                       blacklist : SUBSET Txids]
      /\ TypeOK
  BY DEF MinerInv, TypeOK
<1>8. /\ st.rejected \in Nat /\ st.transient \in Nat /\ st.approved \in Nat
      /\ \A x \in Txids : st.failed[x].total \in Nat /\ st.failed[x].problematic \in Nat
  BY DEF BlockStatus
<1>9. /\ \A S : WeightOf(S) \in Nat
      /\ TotalWeight \in Nat /\ VotingWeightThreshold \in Nat
  BY UnitsAreFinite, ThresholdType
<1>10. CASE /\ ~ShouldResend(st)
            /\ Return("rejected", "attempt")
            /\ excluded' = [excluded EXCEPT
                              !.temporarily = ExcludedTemporarily(st),
                              !.permanently = @ \cup ExcludedPermanently(st)]
            /\ status' = status
  <2>1. outcome' = [outcome EXCEPT ![b] = "rejected"] /\ miner' = At("attempt", None)
    BY <1>2, <1>10 DEF Return
  <2>2. /\ outcome' \in [Blocks -> Outcomes] /\ outcome'[b] = "rejected"
        /\ \A c \in Blocks : c # b => outcome'[c] = outcome[c]
    BY <1>7, <2>1 DEF Outcomes
  <2>3. miner' \in MinerType /\ miner'.pc = "attempt"
    BY <2>1, AtType, SMTT(30) DEF Places
  <2>4. /\ excluded' \in [temporarily : SUBSET Txids, permanently : SUBSET Txids,
                          blacklist : SUBSET Txids]
        /\ excluded'.temporarily = ExcludedTemporarily(st)
        /\ excluded'.permanently = excluded.permanently \cup ExcludedPermanently(st)
        /\ excluded'.blacklist = excluded.blacklist
    BY <1>7, <1>10 DEF ExcludedTemporarily, ExcludedPermanently
  <2>5. TypeOK'
    BY <1>6, <1>7, <1>10, <2>2, <2>3, <2>4, SMTT(30) DEF TypeOK, MinerType
  <2>6. BlocksThreshold(Voters(b, Substantive))
    <3> DEFINE X == st.responded \cap Voters(b, Substantive)
    <3>1. st.rejected <= st.transient + WeightOf(X)  BY <1>5 DEF Founded
    <3>2. WeightOf(X) <= WeightOf(Voters(b, Substantive))  BY WeightIsMonotone
    <3>3. ~(st.rejected - st.transient <= TotalWeight - VotingWeightThreshold)
      BY <1>10 DEF ShouldResend, BlockingMinority
    <3> HIDE DEF X
    <3>4. QED  BY <1>8, <1>9, <3>1, <3>2, <3>3 DEF BlocksThreshold
  <2>7. ASSUME NEW x \in ExcludedTemporarily(st)
        PROVE  BlocksThreshold(Blamers(b, Blaming, x))
    <3>1. x \in Txids /\ st.failed[x].total > TotalWeight - VotingWeightThreshold
      BY <2>7 DEF ExcludedTemporarily, BlockingMinority
    <3>2. st.failed[x].total <= WeightOf(Blamers(b, Blaming, x))  BY <1>5, <3>1 DEF Founded
    <3>3. QED  BY <1>8, <1>9, <3>1, <3>2 DEF BlocksThreshold
  <2>8. ASSUME NEW x \in ExcludedPermanently(st)
        PROVE  BlocksThreshold(Blamers(b, {"problematic"}, x))
    <3>1. x \in Txids /\ st.failed[x].problematic > TotalWeight - VotingWeightThreshold
      BY <2>8 DEF ExcludedPermanently, BlockingMinority
    <3>2. st.failed[x].problematic <= WeightOf(Blamers(b, {"problematic"}, x))
      BY <1>5, <3>1 DEF Founded
    <3>3. QED  BY <1>8, <1>9, <3>1, <3>2 DEF BlocksThreshold
  <2>9. SignaturesSuffice'
    <3>1. \A c \in Blocks : outcome'[c] = "signed" => MeetsThreshold(Voters(c, {"accept"}))
      BY <2>2 DEF MinerInv, SignaturesSuffice
    <3>2. QED  BY <1>6, <3>1 DEF SignaturesSuffice, Voters, MeetsThreshold
  <2>10. RejectionIsFounded'
    <3>1. \A c \in Blocks : outcome'[c] = "rejected" =>
            BlocksThreshold(Voters(c, Votes \ {"accept", "transient"}))
      BY <2>2, <2>6 DEF MinerInv, RejectionIsFounded, Substantive
    <3>2. QED  BY <1>6, <3>1 DEF RejectionIsFounded, Voters, BlocksThreshold
  <2>11. ExclusionIsFounded'
    <3>1. \A x \in excluded'.temporarily :
            \E c \in Blocks : BlocksThreshold(Blamers(c, Blaming, x))
      BY <2>4, <2>7
    <3>2. \A x \in excluded'.permanently \cup excluded'.blacklist :
            \E c \in Blocks : BlocksThreshold(Blamers(c, {"problematic"}, x))
      BY <2>4, <2>8 DEF MinerInv, ExclusionIsFounded
    <3>3. QED  BY <1>6, <3>1, <3>2 DEF ExclusionIsFounded, Blamers, BlocksThreshold
  <2>12. \A c \in Blocks : status'[c] \in BlockStatus => Founded(c, status[c])'
    BY <1>6, <1>10, StatusesKept
  <2>13. QED  BY <1>6, <1>10, <2>3, <2>5, <2>9, <2>10, <2>11, <2>12 DEF MinerInv, Proposing
<1>11. CASE /\ HasSignatures(st) /\ Return("signed", "broadcast")
            /\ UNCHANGED <<status, excluded>>
  <2>1. outcome' = [outcome EXCEPT ![b] = "signed"] /\ miner' = At("broadcast", b)
    BY <1>2, <1>11 DEF Return
  <2>2. /\ outcome' \in [Blocks -> Outcomes] /\ outcome'[b] = "signed"
        /\ \A c \in Blocks : c # b => outcome'[c] = outcome[c]
    BY <1>7, <2>1 DEF Outcomes
  <2>3. miner' \in MinerType /\ miner'.pc = "broadcast" /\ miner'.block = b
    BY <2>1, AtType DEF Places
  <2>4. TypeOK'  BY <1>6, <1>7, <1>11, <2>2, <2>3 DEF TypeOK, MinerType
  <2>5. MeetsThreshold(Voters(b, {"accept"}))
    <3>1. WeightOf(st.gathered) <= WeightOf(Voters(b, {"accept"}))
      BY <1>5, WeightIsMonotone DEF Founded
    <3>2. st.approved >= VotingWeightThreshold /\ st.approved <= WeightOf(st.gathered)
      BY <1>5, <1>11 DEF HasSignatures, Founded
    <3>3. QED  BY <1>8, <1>9, <3>1, <3>2 DEF MeetsThreshold
  <2>6. SignaturesSuffice'
    <3>1. \A c \in Blocks : outcome'[c] = "signed" => MeetsThreshold(Voters(c, {"accept"}))
      BY <2>2, <2>5 DEF MinerInv, SignaturesSuffice
    <3>2. QED  BY <1>6, <3>1 DEF SignaturesSuffice, Voters, MeetsThreshold
  <2>7. RejectionIsFounded'
    <3>1. \A c \in Blocks : outcome'[c] = "rejected" =>
            BlocksThreshold(Voters(c, Votes \ {"accept", "transient"}))
      BY <2>2 DEF MinerInv, RejectionIsFounded
    <3>2. QED  BY <1>6, <3>1 DEF RejectionIsFounded, Voters, BlocksThreshold
  <2>8. ExclusionIsFounded'
    BY <1>6, <1>11 DEF MinerInv, ExclusionIsFounded, Blamers, BlocksThreshold
  <2>9. \A c \in Blocks : status'[c] \in BlockStatus => Founded(c, status[c])'
    BY <1>6, <1>11, StatusesKept
  <2>10. QED  BY <1>6, <1>11, <2>3, <2>4, <2>6, <2>7, <2>8, <2>9 DEF MinerInv, Proposing
<1>12. CASE SendAgain /\ excluded' = excluded
  BY <1>1, <1>6, <1>12, SendAgainKeeps
<1>13. CASE \E limit \in 0..MaxElapsed :
              /\ miner' = [miner EXCEPT !.pc = "top", !.seen = st.rejected,
                                        !.timeout = limit, !.snap = NewStatus]
              /\ UNCHANGED <<status, outcome, excluded>>
  <2>1. PICK limit \in 0..MaxElapsed :
          /\ miner' = [miner EXCEPT !.pc = "top", !.seen = st.rejected,
                                    !.timeout = limit, !.snap = NewStatus]
          /\ UNCHANGED <<status, outcome, excluded>>
    BY <1>13
  <2>2. miner' \in MinerType /\ miner'.pc = "top" /\ miner'.block = b
    BY <1>2, <1>3, <1>8, <2>1, NewStatusFounded DEF MinerType, Places
  <2>3. status[b] \in BlockStatus  BY <1>1, <1>2 DEF MinerInv
  <2>4. TypeOK'  BY <1>6, <1>7, <2>1, <2>2 DEF TypeOK, MinerType
  <2>5. SignaturesSuffice' /\ RejectionIsFounded' /\ ExclusionIsFounded'
    BY <1>6, <2>1, PropertiesKept
  <2>6. \A c \in Blocks : status'[c] \in BlockStatus => Founded(c, status[c])'
    BY <1>6, <2>1, StatusesKept
  <2>7. QED  BY <1>6, <2>1, <2>2, <2>3, <2>4, <2>5, <2>6 DEF MinerInv, Proposing
<1>14. miner.timeout \in 0..MaxElapsed
       /\ SelectTimeout(st.rejected, st.transient) \in 0..MaxElapsed
  BY <1>3, <1>8, SelectTimeoutType DEF MinerType
<1>15. QED  BY <1>4, <1>10, <1>11, <1>12, <1>13, <1>14 DEF Decide

LEMMA PollKeeps ==
  ASSUME MinerInv, Poll
  PROVE  MinerInv'
<1>1. miner.pc \in Proposing /\ UNCHANGED <<owed, listener, excluded, chain, abort, heard>>
  BY DEF Poll, Proposing
<1>2. {"relayed", "burnBlock", "tipChanged", "failed"} \subseteq Outcomes \ {"signed", "rejected"}
  BY DEF Outcomes
<1>3. CASE Return("relayed", "broadcast") /\ status' = status
  BY <1>1, <1>2, <1>3, ReturnKeeps
<1>4. CASE Return("burnBlock", "shutdown") /\ status' = status
  BY <1>1, <1>2, <1>4, ReturnKeeps
<1>5. CASE Return("tipChanged", "attempt") /\ status' = status
  BY <1>1, <1>2, <1>5, ReturnKeeps
<1>6. CASE Return("failed", "attempt") /\ status' = status
  BY <1>1, <1>2, <1>6, ReturnKeeps
<1>7. CASE SendAgain  BY <1>1, <1>7, SendAgainKeeps
<1>8. CASE Goto("top") /\ UNCHANGED <<status, outcome>>
  <2>1. "top" \in Proposing \ {"decide"}  BY DEF Proposing
  <2>2. UNCHANGED <<status, owed, listener, outcome, excluded, chain, abort, heard>>
    BY <1>1, <1>8
  <2>3. QED  BY <1>1, <1>8, <2>1, <2>2, GotoKeeps
<1>9. QED  BY <1>3, <1>4, <1>5, <1>6, <1>7, <1>8 DEF Poll

LEMMA TopKeeps ==
  ASSUME MinerInv, Top
  PROVE  MinerInv'
<1>1. miner.pc \in Proposing /\ UNCHANGED <<status, owed, listener, excluded, chain, abort, heard>>
  BY DEF Top, Proposing
<1>2. CASE Return("aborted", "shutdown")
  <2>1. "aborted" \in Outcomes \ {"signed", "rejected"}  BY DEF Outcomes
  <2>2. QED  BY <1>1, <1>2, <2>1, ReturnKeeps
<1>3. CASE Goto("wait") /\ outcome' = outcome
  <2>1. "wait" \in Proposing \ {"decide"}  BY DEF Proposing
  <2>2. UNCHANGED <<status, owed, listener, outcome, excluded, chain, abort, heard>>
    BY <1>1, <1>3
  <2>3. QED  BY <1>1, <1>3, <2>1, <2>2, GotoKeeps
<1>4. QED  BY <1>2, <1>3 DEF Top

LEMMA PollTimeoutKeeps ==
  ASSUME MinerInv, PollTimeout
  PROVE  MinerInv'
<1>1. "poll" \in Proposing \ {"decide"} /\ miner.pc \in Proposing
  BY DEF Proposing, PollTimeout
<1>2. Goto("poll")
      /\ UNCHANGED <<status, owed, listener, outcome, excluded, chain, abort, heard>>
  BY DEF PollTimeout
<1>3. QED  BY <1>1, <1>2, GotoKeeps

\* The steps outside propose_block.
LEMMA OutsideKeeps ==
  ASSUME MinerInv,
         Quit \/ MiningFails \/ Broadcast \/ AwaitProcessed \/ Shutdown \/ Join
  PROVE  MinerInv'
<1>1. UNCHANGED <<status, owed, listener, outcome, abort, heard>>
  BY DEF Quit, MiningFails, Broadcast, AwaitProcessed, Shutdown, Join
<1>2. PICK pc \in {"attempt", "shutdown", "joining", "stopped", "processing"},
            b \in Blocks \cup {None} :
        miner' = At(pc, b) /\ (pc = "processing" => b \in Blocks)
  BY DEF Quit, MiningFails, Broadcast, AwaitProcessed, Shutdown, Join, MinerInv
<1>3. /\ excluded \in [temporarily : SUBSET Txids, permanently : SUBSET Txids,
                       blacklist : SUBSET Txids]
      /\ chain \in [staged : SUBSET Blocks, processed : SUBSET Blocks,
                    burn : BOOLEAN, rival : BOOLEAN]
      /\ outcome \in [Blocks -> Outcomes]
  BY DEF MinerInv, TypeOK
<1>4. /\ excluded' \in [temporarily : SUBSET Txids, permanently : SUBSET Txids,
                        blacklist : SUBSET Txids]
      /\ excluded'.temporarily \subseteq excluded.temporarily
      /\ excluded'.permanently \cup excluded'.blacklist
           \subseteq excluded.permanently \cup excluded.blacklist
  BY <1>3 DEF Quit, MiningFails, Broadcast, AwaitProcessed, Shutdown, Join
<1>5. chain' \in [staged : SUBSET Blocks, processed : SUBSET Blocks,
                  burn : BOOLEAN, rival : BOOLEAN]
  BY <1>3 DEF Quit, MiningFails, Broadcast, AwaitProcessed, Shutdown, Join, MinerInv
<1>6. pc \in Places /\ pc \notin Proposing /\ pc # "broadcast"  BY DEF Places, Proposing
<1>7. /\ outcome' \in [Blocks -> Outcomes]
      /\ \A c \in Blocks : outcome'[c] \in {"signed", "rejected"} => outcome'[c] = outcome[c]
  BY <1>1, <1>3
<1>8. QED  BY <1>1, <1>2, <1>4, <1>5, <1>6, <1>7, AtKeeps

\* The other threads.
LEMMA EnvironmentKeeps ==
  ASSUME MinerInv,
         \/ ListenerStops \/ ListenerFails \/ RivalBlock \/ BurnBlock \/ Abort
         \/ \E b \in Blocks : Relay(b) \/ Process(b)
  PROVE  MinerInv'
<1>1. UNCHANGED <<status, owed, miner, outcome, excluded, heard>>
  BY DEF ListenerStops, ListenerFails, RivalBlock, BurnBlock, Abort, Relay, Process
<1>2. /\ listener \in {"running", "stopped", "failed"} /\ abort \in BOOLEAN
      /\ chain \in [staged : SUBSET Blocks, processed : SUBSET Blocks,
                    burn : BOOLEAN, rival : BOOLEAN]
  BY DEF MinerInv, TypeOK
<1>3. /\ listener' \in {"running", "stopped", "failed"} /\ abort' \in BOOLEAN
      /\ chain' \in [staged : SUBSET Blocks, processed : SUBSET Blocks,
                     burn : BOOLEAN, rival : BOOLEAN]
  <2>1. CASE ListenerStops \/ ListenerFails \/ Abort
    BY <1>2, <2>1 DEF ListenerStops, ListenerFails, Abort
  <2>2. CASE RivalBlock  BY <1>2, <2>2 DEF RivalBlock
  <2>3. CASE BurnBlock  BY <1>2, <2>3 DEF BurnBlock
  <2>4. CASE \E b \in Blocks : Relay(b) \/ Process(b)
    <3>1. PICK b \in Blocks : Relay(b) \/ Process(b)  BY <2>4
    <3>2. QED  BY <1>2, <3>1 DEF Relay, Process
  <2>5. QED  BY <2>1, <2>2, <2>3, <2>4
<1>4. QED  BY <1>1, <1>3, OthersKeep

LEMMA InitFounded ==
  ASSUME Init
  PROVE  MinerInv
<1>1. miner \in MinerType /\ miner.pc = "attempt"  BY AtType DEF Init, Places
<1>2. MaxOwed \in Nat /\ None \notin Blocks  BY StepsAssumption
<1>3. TypeOK
  <2>1. owed \in [Signers -> [Blocks -> 0..MaxOwed]]  BY <1>2 DEF Init
  <2>2. outcome \in [Blocks -> Outcomes] /\ status \in [Blocks -> BlockStatus \cup {None}]
    BY DEF Init, Outcomes
  <2>3. /\ chain \in [staged : SUBSET Blocks, processed : SUBSET Blocks,
                      burn : BOOLEAN, rival : BOOLEAN]
        /\ excluded \in [temporarily : SUBSET Txids, permanently : SUBSET Txids,
                         blacklist : SUBSET Txids]
    BY DEF Init
  <2>4. listener = "running" /\ abort = FALSE /\ heard = {}  BY DEF Init
  <2>5. QED  BY <1>1, <2>1, <2>2, <2>3, <2>4 DEF TypeOK, MinerType
<1>4. \A b \in Blocks : status[b] \in BlockStatus => Founded(b, status[b])
  <2> SUFFICES ASSUME NEW b \in Blocks, None \in BlockStatus
               PROVE  Founded(b, None)
    BY DEF Init
  <2>1. QED  BY StepsAssumption DEF BlockStatus
<1>5. SignaturesSuffice /\ RejectionIsFounded /\ ExclusionIsFounded
  BY DEF Init, SignaturesSuffice, RejectionIsFounded, ExclusionIsFounded
<1>6. \A b \in Blocks, s \in Signers : ~(owed[s][b] > 0)  BY DEF Init
<1>7. QED  BY <1>1, <1>3, <1>4, <1>5, <1>6 DEF MinerInv, Proposing

LEMMA NextKeeps ==
  ASSUME MinerInv, [Next]_vars
  PROVE  MinerInv'
<1>1. CASE UNCHANGED vars
  <2>1. UNCHANGED <<status, owed, miner, outcome, excluded, heard>>
        /\ listener' = listener /\ chain' = chain /\ abort' = abort
    BY <1>1 DEF vars
  <2>2. QED  BY <2>1, OthersKeep DEF MinerInv, TypeOK
<1>2. CASE \E s \in Signers, b \in Blocks, vote \in Votes, x \in Txids \cup {None} :
             Hear(s, b, vote, x)
  BY <1>2, HearKeeps
<1>3. CASE \E b \in Blocks : Mine(b)  BY <1>3, MineKeeps
<1>4. CASE Send  BY <1>4, SendKeeps
<1>5. CASE Top  BY <1>5, TopKeeps
<1>6. CASE WaitOver  BY <1>6, WaitOverKeeps
<1>7. CASE PollTimeout  BY <1>7, PollTimeoutKeeps
<1>8. CASE Poll  BY <1>8, PollKeeps
<1>9. CASE Decide  BY <1>9, DecideKeeps
<1>10. CASE Tick  BY <1>10, TickKeeps
<1>11. CASE Quit \/ MiningFails \/ Broadcast \/ AwaitProcessed \/ Shutdown \/ Join
  BY <1>11, OutsideKeeps
<1>12. CASE \/ ListenerStops \/ ListenerFails \/ RivalBlock \/ BurnBlock \/ Abort
            \/ \E b \in Blocks : Relay(b) \/ Process(b)
  BY <1>12, EnvironmentKeeps
<1>13. QED
  BY <1>1, <1>2, <1>3, <1>4, <1>5, <1>6, <1>7, <1>8, <1>9, <1>10, <1>11, <1>12
     DEF Next, MinerStep

\* The invariant holds for every signer set, every timeout configuration and any
\* number of blocks and transactions.
THEOREM MinerCorrect == Spec => []MinerInv
<1>1. Init => MinerInv  BY InitFounded
<1>2. MinerInv /\ [Next]_vars => MinerInv'  BY NextKeeps
<1>3. QED  BY <1>1, <1>2, PTL DEF Spec

\* Types of the listener's map and of the miner thread, no counter below zero.
THEOREM MinerTypes == Spec => []TypeOK
<1>1. MinerInv => TypeOK  BY DEF MinerInv
<1>2. QED  BY <1>1, MinerCorrect, PTL

\* Signatures returned by propose_block are those of 70%.
THEOREM MinerSignatures == Spec => []SignaturesSuffice
<1>1. MinerInv => SignaturesSuffice  BY DEF MinerInv
<1>2. QED  BY <1>1, MinerCorrect, PTL

\* A block is abandoned as rejected only on substantive rejections of a blocking
\* minority.
THEOREM MinerRejections == Spec => []RejectionIsFounded
<1>1. MinerInv => RejectionIsFounded  BY DEF MinerInv
<1>2. QED  BY <1>1, MinerCorrect, PTL

\* A transaction is excluded only if a blocking minority blames it.
THEOREM MinerExclusions == Spec => []ExclusionIsFounded
<1>1. MinerInv => ExclusionIsFounded  BY DEF MinerInv
<1>2. QED  BY <1>1, MinerCorrect, PTL
=============================================================================
