-------------------------- MODULE SignerViewsProofs --------------------------
(***************************************************************************)
(* What the signers' views rest on, for any signer set, any fork of burn   *)
(* blocks whose heights do not fall, any faults and whatever the others    *)
(* publish (module SignerViews).                                           *)
(*                                                                         *)
(* The strengthening says that a machine never gets ahead of its node's    *)
(* burn chain and that the miner it holds is one it knows.                 *)
(***************************************************************************)
EXTENDS SignerViews, SignerWeightsProofs

\* A miner s may hold.
Grounded(s, m) ==
  m.tenure # 0 =>
    /\ m.tenure <= Higher(heard[s], done[s])
    /\ m.height <= Higher(blocks[s][Prior[m.tenure]], rows[s][Prior[m.tenure]])

\* A state s may be in, started or not.
GoodState(s, l) ==
  /\ l = [mode |-> l.mode, burn |-> l.burn, miner |-> l.miner, expected |-> l.expected]
  /\ l.mode \in {"initialized", "pending", "uninitialized"}
  /\ l.mode = "uninitialized" => l.expected = 0
  /\ l.burn \in Tenures /\ l.burn <= done[s]
  /\ l.expected \in Tenures
  /\ l.miner \in Miners
  /\ Grounded(s, l.miner)

\* A machine that runs.
StartedState(s, l) == GoodState(s, l) /\ l.mode # "uninitialized"

ViewsInv == TypeOK /\ \A s \in Honest : StartedState(s, local[s])

\* The burn height of a state: the one it has reached or waits for.
Target(l) ==
  IF l.mode = "initialized" THEN BurnHeight[l.burn]
  ELSE Higher(BurnHeight[l.burn], BurnHeight[l.expected])

-----------------------------------------------------------------------------
\* Two different views never both have 70%, so that determine_global_state
\* does not depend on the order in which it goes through its map: from five
\* units of weight on, for with four 70% is rounded down to a half.
THEOREM GlobalStateIsUnique ==
  ASSUME TotalWeight >= 5, NEW e, NEW v, NEW w,
         IsGlobalState(e, v), IsGlobalState(e, w)
  PROVE  v = w
  <1> SUFFICES ASSUME v # w PROVE FALSE
    OBVIOUS
  <1>1. Holders(e, v) \cap Holders(e, w) = {}
    BY DEF Holders
  <1>2. WeightOf(Holders(e, v)) + WeightOf(Holders(e, w))
          = WeightOf(Holders(e, v) \cup Holders(e, w))
    BY <1>1, WeightAdds
  <1>3. WeightOf(Holders(e, v) \cup Holders(e, w)) <= TotalWeight
    <2>1. Holders(e, v) \cup Holders(e, w) \subseteq Signers
      BY DEF Holders
    <2>2. WeightOf(Holders(e, v) \cup Holders(e, w)) <= WeightOf(Signers)
      BY <2>1, WeightIsMonotone
    <2>3. UnitsOf(Signers) = Units
      BY SignersAssumption DEF UnitsOf
    <2> QED BY <2>2, <2>3, UnitsAreFinite DEF TotalWeight
  <1>4. /\ WeightOf(Holders(e, v)) >= (TotalWeight * 7) \div 10
        /\ WeightOf(Holders(e, w)) >= (TotalWeight * 7) \div 10
    BY DEF IsGlobalState, ReachedAgreement
  <1>5. /\ WeightOf(Holders(e, v)) \in Nat /\ WeightOf(Holders(e, w)) \in Nat
        /\ TotalWeight \in Nat
    BY UnitsAreFinite, ThresholdType
  <1>6. 2 * ((TotalWeight * 7) \div 10) > TotalWeight
    BY <1>5
  <1> QED BY <1>2, <1>3, <1>4, <1>5, <1>6

-----------------------------------------------------------------------------
\* What a signer asks of its node and its database.

\* The parent's height is one of the two it knows.
LEMMA ParentHeight ==
  ASSUME TypeOK, NEW s \in Honest, NEW t \in Burns, NEW up \in BOOLEAN
  PROVE  /\ ParentTenureLastBlock(s, t, up) \in Nat
         /\ ParentTenureLastBlock(s, t, up)
              <= Higher(blocks[s][Prior[t]], rows[s][Prior[t]])
         /\ MakeMinerState(s, t, up) \in Miners
         /\ t <= Higher(heard[s], done[s]) => Grounded(s, MakeMinerState(s, t, up))
  <1>1. Prior[t] \in Tenures /\ t \in Tenures /\ t # 0
    BY ViewsAssumption DEF Burns, Tenures
  <1>2. blocks[s][Prior[t]] \in Nat /\ rows[s][Prior[t]] \in Nat
    BY <1>1 DEF TypeOK
  <1>3. /\ ParentTenureLastBlock(s, t, up) \in Nat
        /\ ParentTenureLastBlock(s, t, up)
             <= Higher(blocks[s][Prior[t]], rows[s][Prior[t]])
    BY <1>2 DEF ParentTenureLastBlock, Higher
  <1>4. /\ MakeMinerState(s, t, up).tenure = t
        /\ MakeMinerState(s, t, up).height = ParentTenureLastBlock(s, t, up)
        /\ MakeMinerState(s, t, up) \in Miners
    BY <1>1, <1>3 DEF MakeMinerState, Miners
  <1> QED BY <1>3, <1>4 DEF Grounded

\* Where a burn block stands.
LEMMA Numbers ==
  ASSUME TypeOK, NEW s \in Honest
  PROVE  /\ done[s] \in Burns /\ done[s] \in Tenures /\ done[s] # 0
         /\ heard[s] \in Burns
         /\ Prior[done[s]] \in Tenures /\ Prior[done[s]] < done[s]
         /\ Prior[done[s]] # 0 => Prior[done[s]] \in Burns
         /\ done[s] <= Higher(heard[s], done[s])
         /\ heard[s] <= Higher(heard[s], done[s])
  <1>1. done[s] \in Burns /\ heard[s] \in Burns
    BY DEF TypeOK
  <1>2. Prior[done[s]] \in Tenures /\ Prior[done[s]] < done[s]
    BY <1>1, ViewsAssumption
  <1>3. LastBurn \in Nat
    BY ViewsAssumption
  <1>4. Prior[done[s]] # 0 => Prior[done[s]] \in Burns
    BY <1>1, <1>2, <1>3 DEF Burns, Tenures
  <1>5. done[s] \in Tenures /\ done[s] # 0
    BY <1>1, <1>3 DEF Burns, Tenures
  <1>6. done[s] <= Higher(heard[s], done[s]) /\ heard[s] <= Higher(heard[s], done[s])
    BY <1>1, <1>3 DEF Burns, Higher
  <1> QED BY <1>1, <1>2, <1>4, <1>5, <1>6

\* An arrival that succeeds settles for a miner that is known.
LEMMA ArrivalIsGrounded ==
  ASSUME TypeOK, NEW s \in Honest, NEW e, NEW up \in BOOLEAN, ArrivalSucceeds(s, e, up)
  PROVE  ArrivalMiner(s) \in Miners /\ Grounded(s, ArrivalMiner(s))
  <1>1. CASE ~IsTimedOut(s, done[s])
    <2>1. ArrivalMiner(s) = MakeMinerState(s, done[s], TRUE)
      BY <1>1 DEF ArrivalMiner
    <2> QED BY <2>1, Numbers, ParentHeight
  <1>2. CASE IsTimedOut(s, done[s]) /\ ~IsTimedOut(s, Prior[done[s]])
    <2>1. ArrivalMiner(s) = MakeMinerState(s, Prior[done[s]], TRUE)
      BY <1>2 DEF ArrivalMiner
    <2>2. Prior[done[s]] # 0
      BY <1>2 DEF ArrivalSucceeds
    <2>3. Prior[done[s]] <= Higher(heard[s], done[s])
      BY Numbers DEF Higher, Burns, Tenures
    <2> QED BY <2>1, <2>2, <2>3, Numbers, ParentHeight
  <1>3. CASE IsTimedOut(s, done[s]) /\ IsTimedOut(s, Prior[done[s]])
    <2>1. ArrivalMiner(s) = NoValidMiner
      BY <1>3 DEF ArrivalMiner
    <2> QED BY <2>1, ViewsAssumption DEF NoValidMiner, Miners, Grounded, Tenures
  <1> QED BY <1>1, <1>2, <1>3

\* A fresh state at the signer's own burn block, or at the node's.
LEMMA InitializedIsGood ==
  ASSUME NEW s \in Honest, NEW b \in Tenures, b <= done[s],
         NEW m \in Miners, Grounded(s, m)
  PROVE  /\ StartedState(s, Initialized(b, m))
         /\ Initialized(b, m).burn = b
         /\ Initialized(b, m).mode = "initialized"
  BY ViewsAssumption DEF StartedState, GoodState, Initialized, Tenures

-----------------------------------------------------------------------------
\* The steps of a pass and the events.

\* bitcoin_block_arrival leaves a machine that runs, whatever it was before;
\* and unless that was a machine not started yet, its burn height does not
\* fall and is at least that of the block given.
LEMMA ArrivalKeeps ==
  ASSUME TypeOK, NEW s \in Honest, NEW l, GoodState(s, l),
         NEW b \in Tenures, NEW up \in BOOLEAN
  PROVE  LET n == BitcoinBlockArrival(s, l, b, up)
         IN  /\ StartedState(s, n)
             /\ Target(n) >= Target(l)
             /\ Target(n) >= BurnHeight[b]
  <1> DEFINE e == ExpectedBurnBlock(l, b)
             n == BitcoinBlockArrival(s, l, b, up)
  <1>1. /\ l.burn \in Tenures /\ l.expected \in Tenures /\ l.miner \in Miners
        /\ l.burn <= done[s] /\ Grounded(s, l.miner)
    BY DEF GoodState
  <1>2. e \in Tenures
    BY <1>1 DEF ExpectedBurnBlock
  <1>3. /\ \A x \in Tenures : BurnHeight[x] \in Nat
        /\ BurnHeight[0] = 0 /\ 0 \in Tenures
        /\ \A x, y \in Tenures : x <= y => BurnHeight[x] <= BurnHeight[y]
    BY ViewsAssumption DEF Tenures
  <1>4. /\ BurnHeight[e] >= BurnHeight[b]
        /\ l.mode = "pending" => BurnHeight[e] >= BurnHeight[l.expected]
    BY <1>1, <1>3 DEF ExpectedBurnBlock
  <1>5. done[s] \in Tenures
    BY Numbers
  <1> HIDE DEF e
  <1>6. CASE ArrivalSucceeds(s, e, up)
    <2>1. n = Initialized(done[s], ArrivalMiner(s))
      BY <1>6 DEF BitcoinBlockArrival, e
    <2>2. StartedState(s, n) /\ n.burn = done[s] /\ n.mode = "initialized"
      <3>1. done[s] <= done[s]
        BY <1>5 DEF Tenures
      <3> QED BY <1>5, <1>6, <2>1, <3>1, ArrivalIsGrounded, InitializedIsGood
    <2>3. BurnHeight[done[s]] >= BurnHeight[e] /\ BurnHeight[done[s]] >= BurnHeight[l.burn]
      BY <1>1, <1>2, <1>3, <1>5, <1>6 DEF ArrivalSucceeds, NodeBehind
    <2>4. Target(n) = BurnHeight[done[s]]
      BY <2>2 DEF Target
    <2>5. BurnHeight[done[s]] >= Target(l)
      <3>1. CASE l.mode = "pending"
        BY <1>1, <1>2, <1>3, <1>4, <1>5, <2>3, <3>1 DEF Target, Higher
      <3>2. CASE l.mode = "initialized"
        BY <2>3, <3>2 DEF Target
      <3>3. CASE l.mode = "uninitialized"
        <4>1. l.expected = 0
          BY <3>3 DEF GoodState
        <4> QED BY <1>1, <1>3, <1>5, <2>3, <3>3, <4>1 DEF Target, Higher
      <3> QED BY <3>1, <3>2, <3>3 DEF GoodState
    <2> QED BY <1>1, <1>2, <1>3, <1>4, <1>5, <2>2, <2>3, <2>4, <2>5
  <1>7. CASE ~ArrivalSucceeds(s, e, up)
    <2>1. n = Park(l, e)
      BY <1>7 DEF BitcoinBlockArrival, e
    <2>2. /\ n = [mode |-> n.mode, burn |-> n.burn, miner |-> n.miner, expected |-> n.expected]
          /\ n.mode = "pending" /\ n.burn = l.burn /\ n.miner = l.miner
          /\ n.expected = IF e = 0 THEN l.burn ELSE e
      BY <2>1 DEF Park
    <2>3. StartedState(s, n)
      BY <1>1, <1>2, <2>2 DEF StartedState, GoodState
    <2>4. Target(n) = Higher(BurnHeight[l.burn], BurnHeight[n.expected])
      BY <2>2 DEF Target
    <2>5. /\ n.expected \in Tenures
          /\ BurnHeight[n.expected] >= BurnHeight[e]
      BY <1>1, <1>2, <1>3, <2>2
    <2>6. Target(n) >= Target(l)
      <3>1. CASE l.mode = "pending"
        <4>1. Target(l) = Higher(BurnHeight[l.burn], BurnHeight[l.expected])
          BY <3>1 DEF Target
        <4> QED BY <1>1, <1>2, <1>3, <1>4, <2>4, <2>5, <3>1, <4>1 DEF Higher
      <3>2. CASE l.mode = "initialized"
        <4>1. Target(l) = BurnHeight[l.burn]
          BY <3>2 DEF Target
        <4> QED BY <1>1, <1>3, <2>4, <2>5, <4>1 DEF Higher
      <3>3. CASE l.mode = "uninitialized"
        <4>1. Target(l) = Higher(BurnHeight[l.burn], 0)
          BY <1>3, <3>3 DEF Target, GoodState
        <4> QED BY <1>1, <1>3, <2>4, <2>5, <4>1 DEF Higher
      <3> QED BY <3>1, <3>2, <3>3 DEF GoodState
    <2>7. Target(n) >= BurnHeight[b]
      BY <1>1, <1>2, <1>3, <1>4, <2>4, <2>5 DEF Higher
    <2> QED BY <2>3, <2>6, <2>7
  <1> QED BY <1>6, <1>7

\* A started state of s with no lower target than l.
Follows(s, l, n) == StartedState(s, n) /\ Target(n) >= Target(l)

\* The target of a state is a height.
LEMMA TargetType ==
  ASSUME NEW s \in Honest, NEW l, GoodState(s, l)
  PROVE  Target(l) \in Nat
  <1>1. BurnHeight[l.burn] \in Nat /\ BurnHeight[l.expected] \in Nat
    BY ViewsAssumption DEF GoodState
  <1> QED BY <1>1 DEF Target, Higher

\* A miner that s knows can replace the one it holds.
LEMMA NewMinerFollows ==
  ASSUME NEW s \in Honest, NEW l, StartedState(s, l), l.mode = "initialized",
         NEW m \in Miners, Grounded(s, m)
  PROVE  Follows(s, l, Initialized(l.burn, m))
  <1>1. l.burn \in Tenures /\ l.burn <= done[s]
    BY DEF StartedState, GoodState
  <1>2. /\ StartedState(s, Initialized(l.burn, m))
        /\ Initialized(l.burn, m).burn = l.burn
        /\ Initialized(l.burn, m).mode = "initialized"
    BY <1>1, InitializedIsGood
  <1>3. BurnHeight[l.burn] \in Nat
    BY <1>1, ViewsAssumption
  <1> QED BY <1>2, <1>3 DEF Follows, Target

\* Leaving a state alone is fine.
LEMMA SameFollows ==
  ASSUME NEW s \in Honest, NEW l, StartedState(s, l)
  PROVE  Follows(s, l, l)
  BY TargetType DEF Follows, StartedState

LEMMA FollowsIsTransitive ==
  ASSUME NEW s \in Honest, NEW k, NEW l, NEW n, StartedState(s, k),
         Follows(s, k, l), Follows(s, l, n)
  PROVE  Follows(s, k, n)
  BY TargetType DEF Follows, StartedState

\* handle_pending_update and check_miner_inactivity.
LEMMA PendingUpdateFollows ==
  ASSUME TypeOK, NEW s \in Honest, NEW l, StartedState(s, l), NEW up \in BOOLEAN
  PROVE  Follows(s, l, HandlePendingUpdate(s, l, up))
  <1>1. CASE l.mode = "pending"
    <2>1. HandlePendingUpdate(s, l, up) = BitcoinBlockArrival(s, l, l.expected, up)
      BY <1>1 DEF HandlePendingUpdate
    <2>2. GoodState(s, l) /\ l.expected \in Tenures
      BY DEF StartedState, GoodState
    <2> QED BY <2>1, <2>2, ArrivalKeeps DEF Follows
  <1>2. CASE l.mode # "pending" /\ FallsBack(s, l, up)
    <2> DEFINE last == Prior[done[s]]
    <2>1. HandlePendingUpdate(s, l, up) = Initialized(l.burn, MakeMinerState(s, last, up))
      BY <1>2 DEF HandlePendingUpdate, CheckMinerInactivity
    <2>2. last # 0 /\ l.mode = "initialized"
      BY <1>2 DEF FallsBack
    <2>3. last \in Burns /\ last <= Higher(heard[s], done[s])
      BY <2>2, Numbers, ViewsAssumption DEF Higher, Burns, Tenures
    <2> QED BY <2>1, <2>2, <2>3, ParentHeight, NewMinerFollows
  <1>3. CASE l.mode # "pending" /\ ~FallsBack(s, l, up)
    <2>1. HandlePendingUpdate(s, l, up) = l
      BY <1>3 DEF HandlePendingUpdate, CheckMinerInactivity
    <2> QED BY <2>1, SameFollows
  <1> QED BY <1>1, <1>2, <1>3

\* update_parent_tenure_last_block.
LEMMA RefreshFollows ==
  ASSUME TypeOK, NEW s \in Honest, NEW l, StartedState(s, l), NEW up \in BOOLEAN
  PROVE  Follows(s, l, UpdateParentTenureLastBlock(s, l, up))
  <1> DEFINE t == l.miner.tenure
  <1>1. CASE l.mode = "initialized" /\ t # 0 /\ ParentTenureLastBlock(s, t, up) # 0
    <2>1. UpdateParentTenureLastBlock(s, l, up) = Initialized(l.burn, MakeMinerState(s, t, up))
      BY <1>1 DEF UpdateParentTenureLastBlock
    <2>2. t \in Burns
      BY <1>1, ViewsAssumption DEF StartedState, GoodState, Miners, Tenures, Burns
    <2>3. t <= Higher(heard[s], done[s])
      BY <1>1 DEF StartedState, GoodState, Grounded
    <2> QED BY <1>1, <2>1, <2>2, <2>3, ParentHeight, NewMinerFollows
  <1>2. CASE ~(l.mode = "initialized" /\ t # 0 /\ ParentTenureLastBlock(s, t, up) # 0)
    <2>1. UpdateParentTenureLastBlock(s, l, up) = l
      BY <1>2 DEF UpdateParentTenureLastBlock
    <2> QED BY <2>1, SameFollows
  <1> QED BY <1>1, <1>2

\* The view of a state, and the evaluator that holds it.
LEMMA OwnViewType ==
  ASSUME TypeOK, NEW s \in Honest, NEW l, GoodState(s, l)
  PROVE  ViewOf(l) \in Views /\ WithOwn(s, l) \in [Signers -> Views]
  <1>1. ViewOf(l) \in Views
    BY DEF GoodState, ViewOf, Views
  <1>2. eval[s] \in [Signers -> Views]
    BY DEF TypeOK
  <1> QED BY <1>1, <1>2 DEF WithOwn

\* capitulate_viewpoint: the miner s gives in to is one it knows.
LEMMA CapitulationFollows ==
  ASSUME TypeOK, NEW s \in Honest, NEW l, StartedState(s, l), NEW up \in BOOLEAN,
         NEW e \in [Signers -> Views], NEW matches,
         matches \subseteq PotentialMatches(s, l, e, up),
         NEW n \in CapitulateMinerView(l, e, matches)
  PROVE  Follows(s, l, n)
  <1>1. CASE matches = {}
    <2>1. n = l
      BY <1>1 DEF CapitulateMinerView
    <2> QED BY <2>1, SameFollows
  <1>2. CASE matches # {}
    <2>1. PICK m \in matches : n = Initialized(l.burn, m)
      BY <1>2 DEF CapitulateMinerView
    <2>2. /\ l.mode = "initialized"
          /\ m \in {e[r].miner : r \in Signers}
          /\ \E w : PotentialMatch(s, m, w, up)
      BY <2>1 DEF PotentialMatches
    <2>3. m \in Miners
      BY <2>2 DEF Views
    <2>4. m.tenure \in Burns /\ m.height \in Nat
      BY <2>2, <2>3, ViewsAssumption DEF PotentialMatch, Miners, Tenures, Burns
    <2>5. m.tenure <= heard[s] /\ m.height <= ParentTenureLastBlock(s, m.tenure, up)
      BY <2>2, <2>4, ParentHeight DEF PotentialMatch
    <2>6. m.tenure <= Higher(heard[s], done[s])
      BY <2>4, <2>5, Numbers, ViewsAssumption, SMTT(30) DEF Higher, Burns
    <2>7. Prior[m.tenure] \in Tenures
      BY <2>4, ViewsAssumption
    <2>8. Higher(blocks[s][Prior[m.tenure]], rows[s][Prior[m.tenure]]) \in Nat
      BY <2>7 DEF TypeOK, Higher
    <2>9. m.height <= Higher(blocks[s][Prior[m.tenure]], rows[s][Prior[m.tenure]])
      BY <2>4, <2>5, <2>8, ParentHeight
    <2>10. Grounded(s, m)
      BY <2>6, <2>9 DEF Grounded
    <2> QED BY <2>1, <2>2, <2>3, <2>10, NewMinerFollows
  <1> QED BY <1>1, <1>2

-----------------------------------------------------------------------------
\* The steps.

\* What nodes and databases know only grows.
Grows ==
  \A r \in Honest :
    /\ done[r] <= done'[r] /\ heard[r] <= heard'[r]
    /\ \A t \in Tenures : blocks[r][t] <= blocks'[r][t] /\ rows[r][t] <= rows'[r][t]

\* What a step does to the machine of r.
MachineStep(r) ==
  /\ StartedState(r, local'[r])
  /\ \/ restarts'[r] # restarts[r]
     \/ /\ Target(local'[r]) >= Target(local[r])
        /\ heard'[r] # heard[r] => Target(local'[r]) >= BurnHeight[heard'[r]]

GoodStep == TypeOK' /\ Grows /\ \A r \in Honest : MachineStep(r)

\* A started state has its type.
LEMMA StartedType ==
  ASSUME NEW s \in Honest, NEW l, StartedState(s, l)
  PROVE  l \in LocalStates
  BY DEF StartedState, GoodState, LocalStates

\* A machine that a step leaves alone.
LEMMA MachineAlone ==
  ASSUME ViewsInv, NEW r \in Honest, local'[r] = local[r], heard'[r] = heard[r]
  PROVE  MachineStep(r)
  <1>1. Follows(r, local[r], local[r])
    BY SameFollows DEF ViewsInv
  <1> QED BY <1>1 DEF MachineStep, Follows

\* What nodes and databases know are numbers.
LEMMA KnownNumbers ==
  ASSUME TypeOK, NEW r \in Honest
  PROVE  /\ done[r] \in Nat /\ heard[r] \in Nat /\ told[r] \in Nat
         /\ \A t \in Tenures : blocks[r][t] \in Nat /\ rows[r][t] \in Nat
  <1>1. done[r] \in Burns /\ heard[r] \in Burns /\ told[r] \in Burns
    BY DEF TypeOK
  <1>2. \A t \in Tenures : blocks[r][t] \in Nat /\ rows[r][t] \in Nat
    BY DEF TypeOK
  <1>3. Burns \subseteq Nat
    BY ViewsAssumption DEF Burns
  <1> QED BY <1>1, <1>2, <1>3

\* A step that changes none of what the signers' databases and nodes hold.
LEMMA SameGrows ==
  ASSUME TypeOK, UNCHANGED <<done, heard, blocks, rows>>
  PROVE  Grows
  <1>1. ASSUME NEW r \in Honest
        PROVE  done[r] <= done'[r] /\ heard[r] <= heard'[r]
    BY KnownNumbers
  <1>2. ASSUME NEW r \in Honest, NEW t \in Tenures
        PROVE  blocks[r][t] <= blocks'[r][t] /\ rows[r][t] <= rows'[r][t]
    BY KnownNumbers
  <1> QED BY <1>1, <1>2 DEF Grows

\* A new state of s, sent if it changed.
LEMMA NewStateTypes ==
  ASSUME TypeOK, NEW s \in Honest, NEW l, StartedState(s, l), NEW up \in BOOLEAN,
         local' = [local EXCEPT ![s] = l]
  PROVE  /\ local' \in [Honest -> LocalStates]
         /\ local'[s] = l
         /\ \A r \in Honest \ {s} : local'[r] = local[r]
         /\ SendIfChanged(s, l, up) => slot' \in [Signers -> Views]
  <1>1. local \in [Honest -> LocalStates] /\ slot \in [Signers -> Views]
    BY DEF TypeOK
  <1>2. l \in LocalStates
    BY StartedType
  <1>3. ViewOf(l) \in Views
    BY OwnViewType DEF StartedState
  <1> QED BY <1>1, <1>2, <1>3 DEF SendIfChanged

\* A pass.
LEMMA PassStep ==
  ASSUME ViewsInv, NEW s \in Honest, NEW up \in BOOLEAN, NEW due \in BOOLEAN,
         Pass(s, up, due)
  PROVE  GoodStep
  <1> USE DEF ViewsInv
  <1> DEFINE l1 == HandlePendingUpdate(s, local[s], up)
             l2 == IF due THEN UpdateParentTenureLastBlock(s, l1, up) ELSE l1
             e == WithOwn(s, l2)
             matches == IF due THEN PotentialMatches(s, l2, e, up) ELSE {}
  <1>1. PICK l3 \in CapitulateMinerView(l2, e, matches) :
          local' = [local EXCEPT ![s] = l3] /\ SendIfChanged(s, l3, up)
    BY DEF Pass
  <1>2. /\ UNCHANGED <<nodeVars, dbVars, eval, restarts>>
        /\ faults' \in 0 .. MaxFaults
    BY ViewsAssumption DEF Pass, Faults, Outage, TypeOK
  <1>3. Follows(s, local[s], l1)
    BY PendingUpdateFollows
  <1> HIDE DEF l1
  <1>4. Follows(s, local[s], l2)
    <2>1. CASE due
      <3>1. Follows(s, l1, UpdateParentTenureLastBlock(s, l1, up))
        BY <1>3, RefreshFollows DEF Follows
      <3> QED BY <1>3, <2>1, <3>1, FollowsIsTransitive
    <2>2. CASE ~due
      BY <1>3, <2>2
    <2> QED BY <2>1, <2>2
  <1> HIDE DEF l2
  <1>5. e \in [Signers -> Views]
    BY <1>4, OwnViewType DEF Follows, StartedState
  <1> HIDE DEF e
  <1>6. matches \subseteq PotentialMatches(s, l2, e, up)
    OBVIOUS
  <1> HIDE DEF matches
  <1>7. Follows(s, local[s], l3)
    <2>1. Follows(s, l2, l3)
      BY <1>1, <1>4, <1>5, <1>6, CapitulationFollows DEF Follows
    <2> QED BY <1>4, <2>1, FollowsIsTransitive
  <1>8. /\ local' \in [Honest -> LocalStates] /\ slot' \in [Signers -> Views]
        /\ local'[s] = l3 /\ \A r \in Honest \ {s} : local'[r] = local[r]
    BY <1>1, <1>7, NewStateTypes DEF Follows
  <1>9. TypeOK'
    BY <1>2, <1>8 DEF TypeOK, nodeVars, dbVars
  <1>10. Grows
    BY <1>2, SameGrows DEF nodeVars, dbVars
  <1>11. ASSUME NEW r \in Honest PROVE MachineStep(r)
    <2>1. heard'[r] = heard[r]
      BY <1>2 DEF dbVars
    <2>2. CASE r = s
      BY <1>7, <1>8, <2>1, <2>2 DEF MachineStep, Follows
    <2>3. CASE r # s
      BY <1>8, <2>1, <2>3, MachineAlone
    <2> QED BY <2>2, <2>3
  <1> QED BY <1>9, <1>10, <1>11 DEF GoodStep

\* A burn block event.
LEMMA BurnBlockStep ==
  ASSUME ViewsInv, NEW s \in Honest, NEW b \in Burns, NEW up \in BOOLEAN,
         NewBurnBlock(s, b, up)
  PROVE  GoodStep
  <1> USE DEF ViewsInv
  <1> DEFINE l == BitcoinBlockArrival(s, local[s], b, up)
  <1>1. /\ local' = [local EXCEPT ![s] = l] /\ SendIfChanged(s, l, up)
        /\ heard' = [heard EXCEPT ![s] = Higher(heard[s], b)]
        /\ UNCHANGED <<nodeVars, seen, rows, fresh, idle, eval, restarts>>
    BY DEF NewBurnBlock
  <1>2. faults' \in 0 .. MaxFaults
    BY ViewsAssumption DEF NewBurnBlock, Faults, Outage, TypeOK
  <1>3. b \in Tenures
    BY ViewsAssumption DEF Burns, Tenures
  <1>4. /\ Follows(s, local[s], l)
        /\ Target(l) >= BurnHeight[b]
    BY <1>3, ArrivalKeeps DEF Follows, StartedState
  <1> HIDE DEF l
  <1>5. /\ local' \in [Honest -> LocalStates] /\ slot' \in [Signers -> Views]
        /\ local'[s] = l /\ \A r \in Honest \ {s} : local'[r] = local[r]
    BY <1>1, <1>4, NewStateTypes DEF Follows
  <1>6. /\ Higher(heard[s], b) \in Burns /\ heard[s] <= Higher(heard[s], b)
        /\ Higher(heard[s], b) # heard[s] => Higher(heard[s], b) = b
        /\ heard \in [Honest -> Burns]
    <2>1. heard \in [Honest -> Burns] /\ heard[s] \in Burns
      BY DEF TypeOK
    <2>2. heard[s] \in Nat /\ b \in Nat
      BY <2>1, ViewsAssumption DEF Burns
    <2> QED BY <2>1, <2>2 DEF Higher
  <1>7. TypeOK'
    BY <1>1, <1>2, <1>5, <1>6 DEF TypeOK, nodeVars
  <1>8. Grows
    <2>1. ASSUME NEW r \in Honest PROVE heard[r] <= heard'[r]
      BY <1>1, <1>6, KnownNumbers
    <2>2. ASSUME NEW r \in Honest
          PROVE  /\ done[r] <= done'[r]
                 /\ \A t \in Tenures : blocks[r][t] <= blocks'[r][t] /\ rows[r][t] <= rows'[r][t]
      BY <1>1, KnownNumbers DEF nodeVars
    <2> QED BY <2>1, <2>2 DEF Grows
  <1>9. ASSUME NEW r \in Honest PROVE MachineStep(r)
    <2>1. CASE r = s
      BY <1>1, <1>4, <1>5, <1>6, <2>1 DEF MachineStep, Follows
    <2>2. CASE r # s
      BY <1>1, <1>5, <1>6, <2>2, MachineAlone
    <2> QED BY <2>1, <2>2
  <1> QED BY <1>7, <1>8, <1>9 DEF GoodStep

\* A block event: the height taken up is one the node has.
LEMMA BlockEventStep ==
  ASSUME ViewsInv, NEW s \in Honest, NEW t \in Burns, NEW up \in BOOLEAN,
         NewBlock(s, t, up)
  PROVE  GoodStep
  <1> USE DEF ViewsInv
  <1> DEFINE n == seen[s][t] + 1
             l == StacksBlockArrival(local[s], t, n)
  <1>1. t \in Tenures
    BY ViewsAssumption DEF Burns, Tenures
  <1>2. /\ n <= blocks[s][t]
        /\ seen' = [seen EXCEPT ![s] = [seen[s] EXCEPT ![t] = n]]
        /\ rows' = [rows EXCEPT ![s] = [rows[s] EXCEPT ![t] = Higher(rows[s][t], n)]]
        /\ fresh' = [fresh EXCEPT ![s] = fresh[s] \union {t}]
        /\ local' = [local EXCEPT ![s] = l]
        /\ SendIfChanged(s, l, up)
        /\ UNCHANGED <<nodeVars, heard, idle, eval, restarts>>
    BY DEF NewBlock
  <1>3. faults' \in 0 .. MaxFaults
    BY ViewsAssumption DEF NewBlock, Faults, Outage, TypeOK
  <1>4. seen[s] \in [Tenures -> Nat] /\ rows[s] \in [Tenures -> Nat]
        /\ fresh[s] \in SUBSET Tenures
    BY DEF TypeOK
  <1>5. n \in Nat
    BY <1>1, <1>4
  <1>6. Follows(s, local[s], l)
    <2> DEFINE k == local[s]
               m == [tenure |-> k.miner.tenure, height |-> n]
    <2>1. CASE /\ k.mode = "initialized" /\ k.miner.tenure # 0
               /\ Prior[k.miner.tenure] = t /\ n > k.miner.height
      <3>1. l = Initialized(k.burn, m)
        BY <2>1 DEF StacksBlockArrival
      <3>2. k.miner \in Miners /\ Grounded(s, k.miner)
        BY DEF StartedState, GoodState
      <3>3. m \in Miners
        BY <1>5, <3>2 DEF Miners
      <3>4. n <= Higher(blocks[s][t], rows[s][t])
        BY <1>1, <1>2, <1>5, KnownNumbers DEF Higher
      <3>5. Grounded(s, m)
        BY <2>1, <3>2, <3>4 DEF Grounded
      <3> QED BY <2>1, <3>1, <3>3, <3>5, NewMinerFollows
    <2>2. CASE ~(/\ k.mode = "initialized" /\ k.miner.tenure # 0
                 /\ Prior[k.miner.tenure] = t /\ n > k.miner.height)
      <3>1. l = local[s]
        BY <2>2 DEF StacksBlockArrival
      <3> QED BY <3>1, SameFollows
    <2> QED BY <2>1, <2>2
  <1> HIDE DEF l, n
  <1>7. /\ local' \in [Honest -> LocalStates] /\ slot' \in [Signers -> Views]
        /\ local'[s] = l /\ \A r \in Honest \ {s} : local'[r] = local[r]
    BY <1>2, <1>6, NewStateTypes DEF Follows
  <1>8. Higher(rows[s][t], n) \in Nat /\ rows[s][t] <= Higher(rows[s][t], n)
    BY <1>1, <1>5, KnownNumbers DEF Higher
  <1>9. TypeOK'
    <2>1. seen' \in [Honest -> [Tenures -> Nat]]
      BY <1>1, <1>2, <1>4, <1>5 DEF TypeOK
    <2>2. rows' \in [Honest -> [Tenures -> Nat]]
      BY <1>1, <1>2, <1>4, <1>8 DEF TypeOK
    <2>3. fresh' \in [Honest -> SUBSET Tenures]
      BY <1>1, <1>2, <1>4 DEF TypeOK
    <2> QED BY <1>2, <1>3, <1>7, <2>1, <2>2, <2>3 DEF TypeOK, nodeVars
  <1>10. Grows
    <2>1. rows \in [Honest -> [Tenures -> Nat]]
      BY DEF TypeOK
    <2>2. ASSUME NEW r \in Honest, NEW u \in Tenures PROVE rows[r][u] <= rows'[r][u]
      BY <1>1, <1>2, <1>8, <2>1, KnownNumbers
    <2>3. ASSUME NEW r \in Honest
          PROVE  /\ done[r] <= done'[r] /\ heard[r] <= heard'[r]
                 /\ \A u \in Tenures : blocks[r][u] <= blocks'[r][u]
      BY <1>2, KnownNumbers DEF nodeVars
    <2> QED BY <2>2, <2>3 DEF Grows
  <1>11. ASSUME NEW r \in Honest PROVE MachineStep(r)
    <2>1. CASE r = s
      BY <1>2, <1>6, <1>7, <2>1 DEF MachineStep, Follows
    <2>2. CASE r # s
      BY <1>2, <1>7, <2>2, MachineAlone
    <2> QED BY <2>1, <2>2
  <1> QED BY <1>9, <1>10, <1>11 DEF GoodStep

\* A restart builds the state anew from the place holder.
LEMMA RestartStep ==
  ASSUME ViewsInv, NEW s \in Honest, NEW up \in BOOLEAN, NEW read \in BOOLEAN,
         Restart(s, up, read)
  PROVE  GoodStep
  <1> USE DEF ViewsInv
  <1> DEFINE l == BitcoinBlockArrival(s, PlaceHolder, 0, up)
             evals == IF read THEN [slot EXCEPT ![s] = eval[s][s]] ELSE eval[s]
  <1>1. /\ local' = [local EXCEPT ![s] = l]
        /\ eval' = [eval EXCEPT ![s] = evals]
        /\ restarts' = [restarts EXCEPT ![s] = restarts[s] + 1]
        /\ UNCHANGED <<nodeVars, dbVars, slot>>
    BY DEF Restart
  <1>2. faults' \in 0 .. MaxFaults
    BY ViewsAssumption DEF Restart, Faults, TypeOK
  <1>3. restarts'[s] # restarts[s] /\ restarts[s] \in Nat
    BY <1>1, ViewsAssumption DEF TypeOK
  <1>4. GoodState(s, PlaceHolder) /\ 0 \in Tenures
    BY Numbers, ViewsAssumption
    DEF GoodState, PlaceHolder, Grounded, NoValidMiner, Miners, Tenures, Burns
  <1>5. StartedState(s, l)
    BY <1>4, ArrivalKeeps
  <1> HIDE DEF l
  <1>6. /\ local' \in [Honest -> LocalStates]
        /\ local'[s] = l /\ \A r \in Honest \ {s} : local'[r] = local[r]
    BY <1>1, <1>5, NewStateTypes
  <1>7. evals \in [Signers -> Views]
    BY ViewsAssumption DEF TypeOK
  <1> HIDE DEF evals
  <1>8. TypeOK'
    BY <1>1, <1>2, <1>3, <1>6, <1>7 DEF TypeOK, nodeVars, dbVars
  <1>9. Grows
    BY <1>1, SameGrows DEF nodeVars, dbVars
  <1>10. ASSUME NEW r \in Honest PROVE MachineStep(r)
    <2>1. CASE r = s
      BY <1>3, <1>5, <1>6, <2>1 DEF MachineStep
    <2>2. CASE r # s
      BY <1>1, <1>6, <2>2, MachineAlone DEF dbVars
    <2> QED BY <2>1, <2>2
  <1> QED BY <1>8, <1>9, <1>10 DEF GoodStep

\* What goes on at nodes, slots and clocks leaves every machine alone.
LEMMA OtherStep ==
  ASSUME ViewsInv, NEW s \in Honest,
         \/ \E r \in Signers \ {s} : HandleStateMachineUpdate(s, r)
         \/ AnnounceBurnBlock(s)
         \/ CommitSortition(s)
         \/ \E t \in Burns : \/ ProcessBlock(s, t)
                             \/ Sign(s, t)
                             \/ SignedBlockTimesOut(s, t)
                             \/ TenureTimesOut(s, t)
  PROVE  GoodStep
  <1> USE DEF ViewsInv
  <1>1. local' = local /\ heard' = heard
    BY DEF HandleStateMachineUpdate, AnnounceBurnBlock, CommitSortition, ProcessBlock,
           Sign, SignedBlockTimesOut, TenureTimesOut, viewVars, dbVars
  <1>2. \A r \in Honest : MachineStep(r)
    BY <1>1, MachineAlone
  <1>3. Burns \subseteq Tenures /\ Burns \subseteq Nat /\ LastBurn \in Nat
    BY ViewsAssumption DEF Burns, Tenures
  <1>4. SUFFICES TypeOK' /\ Grows
    BY <1>2 DEF GoodStep
  <1>5. CASE \E r \in Signers \ {s} : HandleStateMachineUpdate(s, r)
    <2>1. PICK r \in Signers \ {s} : HandleStateMachineUpdate(s, r)
      BY <1>5
    <2>2. /\ eval' = [eval EXCEPT ![s] = [eval[s] EXCEPT ![r] = slot[r]]]
          /\ UNCHANGED <<nodeVars, dbVars, local, slot, faultVars>>
      BY <2>1 DEF HandleStateMachineUpdate
    <2>3. eval[s] \in [Signers -> Views] /\ slot[r] \in Views
      BY DEF TypeOK
    <2>4. TypeOK'
      BY <2>2, <2>3 DEF TypeOK, nodeVars, dbVars, faultVars
    <2> QED BY <2>2, <2>4, SameGrows DEF nodeVars, dbVars
  <1>6. CASE AnnounceBurnBlock(s)
    <2>1. told[s] + 1 \in Burns
      <3>1. told[s] \in 1 .. LastBurn
        BY DEF TypeOK, Burns
      <3> QED BY <1>3, <1>6, <3>1 DEF AnnounceBurnBlock, Burns
    <2>2. TypeOK'
      BY <1>6, <2>1 DEF AnnounceBurnBlock, TypeOK, dbVars, viewVars, faultVars
    <2> QED BY <1>6, <2>2, SameGrows DEF AnnounceBurnBlock, dbVars
  <1>7. CASE CommitSortition(s)
    <2>1. TypeOK'
      BY <1>7 DEF CommitSortition, TypeOK, dbVars, viewVars, faultVars
    <2>2. ASSUME NEW r \in Honest PROVE done[r] <= done'[r]
      <3>1. done \in [Honest -> Burns]
        BY DEF TypeOK
      <3> QED BY <1>7, <3>1, KnownNumbers DEF CommitSortition
    <2>3. ASSUME NEW r \in Honest
          PROVE  /\ heard[r] <= heard'[r]
                 /\ \A t \in Tenures : blocks[r][t] <= blocks'[r][t] /\ rows[r][t] <= rows'[r][t]
      BY <1>7, KnownNumbers DEF CommitSortition, dbVars
    <2> QED BY <2>1, <2>2, <2>3 DEF Grows
  <1>8. CASE \E t \in Burns : ProcessBlock(s, t)
    <2>1. PICK t \in Burns : ProcessBlock(s, t)
      BY <1>8
    <2>2. /\ blocks' = [blocks EXCEPT ![s] = [blocks[s] EXCEPT ![t] = blocks[s][t] + 1]]
          /\ UNCHANGED <<told, done, dbVars, viewVars, faultVars>>
      BY <2>1 DEF ProcessBlock
    <2>3. /\ t \in Tenures /\ blocks \in [Honest -> [Tenures -> Nat]]
          /\ blocks[s] \in [Tenures -> Nat]
      BY <1>3 DEF TypeOK
    <2>4. blocks' \in [Honest -> [Tenures -> Nat]]
      BY <2>2, <2>3
    <2>5. TypeOK'
      BY <2>2, <2>4 DEF TypeOK, dbVars, viewVars, faultVars
    <2>6. ASSUME NEW r \in Honest, NEW u \in Tenures PROVE blocks[r][u] <= blocks'[r][u]
      BY <2>2, <2>3, KnownNumbers
    <2>7. ASSUME NEW r \in Honest
          PROVE  /\ done[r] <= done'[r] /\ heard[r] <= heard'[r]
                 /\ \A u \in Tenures : rows[r][u] <= rows'[r][u]
      BY <2>2, KnownNumbers DEF dbVars
    <2> QED BY <2>5, <2>6, <2>7 DEF Grows
  <1>9. CASE \E t \in Burns : Sign(s, t)
    <2>1. PICK t \in Burns : Sign(s, t)
      BY <1>9
    <2>2. /\ rows[s][t] <= blocks[s][t]
          /\ rows' = [rows EXCEPT ![s] = [rows[s] EXCEPT ![t] = blocks[s][t] + 1]]
          /\ fresh' = [fresh EXCEPT ![s] = fresh[s] \union {t}]
          /\ UNCHANGED <<nodeVars, heard, seen, idle, viewVars, faultVars>>
      BY <2>1 DEF Sign
    <2>3. /\ t \in Tenures /\ rows \in [Honest -> [Tenures -> Nat]]
          /\ rows[s] \in [Tenures -> Nat] /\ fresh[s] \in SUBSET Tenures
          /\ rows[s][t] \in Nat /\ blocks[s][t] \in Nat
      BY <1>3, KnownNumbers DEF TypeOK
    <2>4. rows' \in [Honest -> [Tenures -> Nat]]
      BY <2>2, <2>3
    <2>5. fresh' \in [Honest -> SUBSET Tenures]
      BY <2>2, <2>3 DEF TypeOK
    <2>6. TypeOK'
      BY <2>2, <2>4, <2>5 DEF TypeOK, nodeVars, viewVars, faultVars
    <2>7. ASSUME NEW r \in Honest, NEW u \in Tenures PROVE rows[r][u] <= rows'[r][u]
      BY <2>2, <2>3, KnownNumbers
    <2>8. ASSUME NEW r \in Honest
          PROVE  /\ done[r] <= done'[r] /\ heard[r] <= heard'[r]
                 /\ \A u \in Tenures : blocks[r][u] <= blocks'[r][u]
      BY <2>2, KnownNumbers DEF nodeVars
    <2> QED BY <2>6, <2>7, <2>8 DEF Grows
  <1>10. CASE \E t \in Burns : SignedBlockTimesOut(s, t) \/ TenureTimesOut(s, t)
    <2>1. PICK t \in Burns : SignedBlockTimesOut(s, t) \/ TenureTimesOut(s, t)
      BY <1>10
    <2>2. UNCHANGED <<nodeVars, heard, seen, rows, viewVars, faultVars>>
      BY <2>1 DEF SignedBlockTimesOut, TenureTimesOut
    <2>3. fresh' \in [Honest -> SUBSET Tenures] /\ idle' \in [Honest -> SUBSET Tenures]
      <3>1. fresh[s] \in SUBSET Tenures /\ idle[s] \in SUBSET Tenures /\ t \in Tenures
        BY <1>3 DEF TypeOK
      <3>2. CASE SignedBlockTimesOut(s, t)
        BY <3>1, <3>2 DEF SignedBlockTimesOut, TypeOK
      <3>3. CASE TenureTimesOut(s, t)
        BY <3>1, <3>3 DEF TenureTimesOut, TypeOK
      <3> QED BY <2>1, <3>2, <3>3
    <2>4. TypeOK'
      BY <2>2, <2>3 DEF TypeOK, nodeVars, viewVars, faultVars
    <2> QED BY <2>2, <2>4, SameGrows DEF nodeVars
  <1> QED BY <1>5, <1>6, <1>7, <1>8, <1>9, <1>10

\* Whatever knowledge grows, a state that was good stays so.
LEMMA GoodStepKeeps ==
  ASSUME TypeOK, GoodStep
  PROVE  ViewsInv'
  <1>1. TypeOK'
    BY DEF GoodStep
  <1>2. Tenures \subseteq Nat /\ Burns \subseteq Nat /\ \A t \in Tenures : t # 0 => t \in Burns
    BY ViewsAssumption DEF Tenures, Burns
  <1>3. \A r \in Honest : heard'[r] \in Nat /\ done'[r] \in Nat
    <2>1. heard' \in [Honest -> Burns] /\ done' \in [Honest -> Burns]
      BY <1>1 DEF TypeOK
    <2> QED BY <1>2, <2>1
  <1>4. ASSUME NEW r \in Honest PROVE StartedState(r, local[r])'
    <2> DEFINE l == local'[r]
    <2>1. StartedState(r, l)
      BY DEF GoodStep, MachineStep
    <2>2. l.burn <= done'[r]
      <3>1. l.burn <= done[r] /\ done[r] <= done'[r] /\ l.burn \in Tenures
        BY <2>1 DEF StartedState, GoodState, GoodStep, Grows
      <3>2. done[r] \in Nat /\ done'[r] \in Nat
        BY <1>3, KnownNumbers
      <3>3. l.burn \in Nat
        BY <1>2, <3>1
      <3> HIDE DEF l
      <3> QED BY <3>1, <3>2, <3>3
    <2>3. ASSUME l.miner.tenure # 0
          PROVE  /\ l.miner.tenure <= Higher(heard'[r], done'[r])
                 /\ l.miner.height <= Higher(blocks'[r][Prior[l.miner.tenure]],
                                             rows'[r][Prior[l.miner.tenure]])
      <3> DEFINE t == l.miner.tenure
                 h == l.miner.height
      <3>1. t \in Burns /\ h \in Nat /\ t \in Nat
        <4>1. t \in Tenures /\ h \in Nat
          BY <2>1 DEF StartedState, GoodState, Miners
        <4> HIDE DEF t, h
        <4>2. t # 0
          BY <2>3 DEF t
        <4> QED BY <1>2, <4>1, <4>2
      <3>2. Prior[t] \in Tenures
        BY <3>1, ViewsAssumption
      <3>3. /\ t <= Higher(heard[r], done[r])
            /\ h <= Higher(blocks[r][Prior[t]], rows[r][Prior[t]])
        BY <2>1, <2>3 DEF StartedState, GoodState, Grounded
      <3>4. /\ heard[r] \in Nat /\ done[r] \in Nat
            /\ blocks[r][Prior[t]] \in Nat /\ rows[r][Prior[t]] \in Nat
        BY <3>2, KnownNumbers
      <3>5. /\ heard'[r] \in Nat /\ done'[r] \in Nat
        BY <1>3
      <3>6. blocks'[r][Prior[t]] \in Nat /\ rows'[r][Prior[t]] \in Nat
        BY <3>2 DEF GoodStep, TypeOK
      <3>7. /\ heard[r] <= heard'[r] /\ done[r] <= done'[r]
            /\ blocks[r][Prior[t]] <= blocks'[r][Prior[t]]
            /\ rows[r][Prior[t]] <= rows'[r][Prior[t]]
        BY <3>2 DEF GoodStep, Grows
      <3> HIDE DEF t, h
      <3>8. t <= Higher(heard'[r], done'[r])
        BY <3>1, <3>3, <3>4, <3>5, <3>7 DEF Higher
      <3>9. h <= Higher(blocks'[r][Prior[t]], rows'[r][Prior[t]])
        BY <3>1, <3>3, <3>4, <3>6, <3>7 DEF Higher
      <3> QED BY <3>8, <3>9 DEF t, h
    <2> QED BY <2>1, <2>2, <2>3 DEF StartedState, GoodState, Grounded
  <1> QED BY <1>1, <1>4 DEF ViewsInv

\* Every step is a good one.
LEMMA NextStep ==
  ASSUME ViewsInv, [Next]_vars
  PROVE  GoodStep
  <1>1. CASE UNCHANGED vars
    <2>1. TypeOK'
      BY <1>1 DEF ViewsInv, TypeOK, vars, nodeVars, dbVars, viewVars, faultVars
    <2>2. Grows
      BY <1>1, SameGrows DEF ViewsInv, vars, nodeVars, dbVars
    <2>3. \A r \in Honest : MachineStep(r)
      BY <1>1, MachineAlone DEF vars, dbVars, viewVars
    <2> QED BY <2>1, <2>2, <2>3 DEF GoodStep
  <1>2. CASE Next
    <2>1. PICK s \in Honest :
            \/ \E up, due \in BOOLEAN : Pass(s, up, due)
            \/ \E b \in Burns, up \in BOOLEAN : NewBurnBlock(s, b, up)
            \/ \E t \in Burns, up \in BOOLEAN : NewBlock(s, t, up)
            \/ \E up, read \in BOOLEAN : Restart(s, up, read)
            \/ \E r \in Signers \ {s} : HandleStateMachineUpdate(s, r)
            \/ AnnounceBurnBlock(s)
            \/ CommitSortition(s)
            \/ \E t \in Burns : \/ ProcessBlock(s, t)
                                \/ Sign(s, t)
                                \/ SignedBlockTimesOut(s, t)
                                \/ TenureTimesOut(s, t)
      BY <1>2 DEF Next
    <2>2. CASE \E up, due \in BOOLEAN : Pass(s, up, due)
      BY <2>2, PassStep
    <2>3. CASE \E b \in Burns, up \in BOOLEAN : NewBurnBlock(s, b, up)
      BY <2>3, BurnBlockStep
    <2>4. CASE \E t \in Burns, up \in BOOLEAN : NewBlock(s, t, up)
      BY <2>4, BlockEventStep
    <2>5. CASE \E up, read \in BOOLEAN : Restart(s, up, read)
      BY <2>5, RestartStep
    <2> QED BY <2>1, <2>2, <2>3, <2>4, <2>5, OtherStep
  <1> QED BY <1>1, <1>2

\* The invariant holds initially: every signer agrees on tenure 1.
LEMMA InitGood == ASSUME Init PROVE ViewsInv
  <1> USE ViewsAssumption DEF Init
  <1>1. /\ 0 \in Tenures /\ 1 \in Tenures /\ 1 \in Burns /\ Burns \subseteq Tenures
        /\ Prior[1] = 0
    BY DEF Tenures, Burns
  <1>2. FirstBlocks \in [Tenures -> Nat] /\ FirstBlocks[0] = 1
    BY <1>1 DEF FirstBlocks
  <1>3. InitialView \in Views /\ InitialView.miner = [tenure |-> 1, height |-> 1]
    BY <1>1 DEF InitialView, Views, Miners
  <1>4. slot \in [Signers -> Views]
    <2>1. PICK v \in PeerViews : slot = [r \in Signers |-> IF r \in Honest THEN InitialView ELSE v]
      OBVIOUS
    <2>2. v \in Views
      BY <1>1 DEF Views, Miners
    <2> QED BY <1>3, <2>1, <2>2
  <1>5. ASSUME NEW s \in Honest PROVE StartedState(s, local[s])
    <2>1. local[s] = Initialized(1, InitialView.miner) /\ done[s] = 1 /\ heard[s] = 1
          /\ blocks[s] = FirstBlocks /\ rows[s] = FirstBlocks
      OBVIOUS
    <2>2. Grounded(s, InitialView.miner)
      BY <1>1, <1>2, <1>3, <2>1 DEF Grounded, Higher
    <2>3. InitialView.miner \in Miners
      BY <1>1, <1>3 DEF Miners
    <2> QED BY <1>1, <2>1, <2>2, <2>3, InitializedIsGood
  <1>6. local \in [Honest -> LocalStates]
    <2>1. Initialized(1, InitialView.miner) \in LocalStates
      BY <1>1, <1>3 DEF Initialized, LocalStates, Miners
    <2> QED BY <2>1
  <1>7. TypeOK
    BY <1>1, <1>2, <1>4, <1>6 DEF TypeOK
  <1> QED BY <1>5, <1>7 DEF ViewsInv

\* Every behaviour of the signers keeps the invariant.
LEMMA ViewsCorrect == Spec => []ViewsInv
  <1>1. Init => ViewsInv
    BY InitGood
  <1>2. ViewsInv /\ [Next]_vars => ViewsInv'
    BY NextStep, GoodStepKeeps DEF ViewsInv
  <1> QED BY <1>1, <1>2, PTL DEF Spec

\* Every variable keeps its type; in particular a machine is never left
\* uninitialized, whatever fails when the signer starts.
THEOREM ViewsTypes == Spec => []TypeOK
  BY ViewsCorrect, PTL DEF ViewsInv

\* Whatever the others publish, a signer holds a miner and a parent block
\* that it or its node knows (capitulate_viewpoint and the three other places
\* that set the active miner).
THEOREM ViewsGrounded == Spec => []ViewIsGrounded
  <1>1. ViewsInv => ViewIsGrounded
    BY DEF ViewsInv, StartedState, GoodState, Grounded, ViewIsGrounded
  <1> QED BY <1>1, ViewsCorrect, PTL

\* No burn block event, however late or often delivered, takes a signer back
\* (the pending update of bitcoin_block_arrival).
THEOREM ViewsBurn == Spec => BurnViewNeverFalls
  <1> DEFINE A == \A s \in Honest :
                    \/ restarts'[s] # restarts[s]
                    \/ /\ BurnTarget(s)' >= BurnTarget(s)
                       /\ heard'[s] # heard[s] => BurnTarget(s)' >= BurnHeight[heard'[s]]
  <1>1. ViewsInv /\ [Next]_vars => A
    <2> SUFFICES ASSUME ViewsInv, [Next]_vars, NEW s \in Honest
                 PROVE  \/ restarts'[s] # restarts[s]
                        \/ /\ BurnTarget(s)' >= BurnTarget(s)
                           /\ heard'[s] # heard[s] => BurnTarget(s)' >= BurnHeight[heard'[s]]
      OBVIOUS
    <2>1. MachineStep(s)
      BY NextStep DEF GoodStep
    <2>2. BurnTarget(s)' = Target(local'[s]) /\ BurnTarget(s) = Target(local[s])
      BY DEF BurnTarget, Target
    <2> QED BY <2>1, <2>2 DEF MachineStep
  <1>2. ViewsInv /\ [Next]_vars => [A]_vars
    BY <1>1
  <1> QED BY <1>2, ViewsCorrect, PTL DEF Spec, BurnViewNeverFalls
=============================================================================
