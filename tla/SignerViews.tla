----------------------------- MODULE SignerViews -----------------------------
(***************************************************************************)
(* The signer's state machine: which burn block it has reached, which      *)
(* miner it holds to be the active one and on what that miner must build,  *)
(* and how signers bring these views together.  Every signer publishes its *)
(* view in its StackerDB slot; a view held by 70% of the weight is the     *)
(* global one, without which no proposal is judged.                        *)
(*                                                                         *)
(* Burn blocks are numbered in the order in which the nodes process them,  *)
(* and a tenure is named after the burn block that elected it; tenure 0 is *)
(* the one before the window modelled, and stands for "none" in a view.    *)
(* A block of a tenure is its height in the tenure.  Every winner builds   *)
(* on the sortition before its own (SignerV0 models the other choice), and *)
(* every signer runs protocol version 2.                                   *)
(***************************************************************************)
EXTENDS SignerWeights

CONSTANTS
  Honest,      \* the signers that run this code
  PeerViews,   \* views the others may publish
  LastBurn,    \* the last burn block of the window
  BurnHeight,  \* BurnHeight[b]: height of burn block b
  Prior,       \* Prior[b]: the sortition before b on b's fork
  MaxBlocks,   \* a bound on the blocks that are made in the window
  MaySign,     \* the signers that may sign a block that is not accepted
  MayIdle,     \* the tenures whose miner may fall silent
  MayFail,     \* the honest signers that meet with faults: a restart, an
               \* event delivered again, a node that does not answer
  MaxFaults    \* a bound on the faults

Burns == 1 .. LastBurn

Tenures == 0 .. LastBurn

ASSUME ViewsAssumption ==
  /\ Honest \subseteq Signers /\ MaySign \subseteq Honest /\ MayFail \subseteq Honest
  /\ LastBurn \in Nat \ {0}
  /\ BurnHeight \in [Tenures -> Nat]
  /\ BurnHeight[0] = 0 /\ BurnHeight[1] > 0
  /\ \A a, b \in Tenures : a <= b => BurnHeight[a] <= BurnHeight[b]
  /\ PeerViews \subseteq [burn : Burns, miner : [tenure : Tenures, height : Nat]]
  /\ Prior \in [Burns -> Tenures]
  /\ \A b \in Burns : Prior[b] < b
  /\ MaxBlocks \in Nat
  /\ MayIdle \subseteq Burns
  /\ MaxFaults \in Nat

VARIABLES
  told,      \* told[s]: the last burn block the node of s announced
  done,      \* done[s]: the last one its sortition database holds, the tip
  blocks,    \* blocks[s][t]: the height the node of s has in tenure t
  heard,     \* heard[s]: the last burn block event s handled and saved
  seen,      \* seen[s][t]: the last block event of tenure t s handled
  rows,      \* rows[s][t]: the highest block of t s knows a signature of
  fresh,     \* fresh[s]: tenures whose highest signed block is not timed out
  idle,      \* idle[s]: tenures whose proposal timeout has run out at s
  local,     \* local[s]: the state machine of s
  eval,      \* eval[s][r]: the update of r in the evaluator of s (for r = s
             \* it is replaced by the state of s before every use)
  slot,      \* slot[r]: the latest update of r in StackerDB
  faults,    \* the faults so far
  restarts   \* restarts[s]: the restarts of s among them

nodeVars == <<told, done, blocks>>

dbVars == <<heard, seen, rows, fresh, idle>>

viewVars == <<local, eval, slot>>

faultVars == <<faults, restarts>>

vars == <<nodeVars, dbVars, viewVars, faultVars>>

-----------------------------------------------------------------------------
(* Views and the weight behind them                                        *)

NoValidMiner == [tenure |-> 0, height |-> 0]

NoView == [burn |-> 0, miner |-> NoValidMiner]

ViewOf(l) == [burn |-> l.burn, miner |-> l.miner]

ReachedAgreement(w) == w >= (TotalWeight * 7) \div 10

ReachedDisagreement(w) == w > (TotalWeight * 3) \div 10

Holders(e, v) == {r \in Signers : e[r] = v}

\* determine_global_burn_view finds b: 70% hold it, which no two can have.
IsGlobalBurnView(e, b) == ReachedAgreement(WeightOf({r \in Signers : e[r].burn = b}))

\* determine_global_state finds v.
IsGlobalState(e, v) == ReachedAgreement(WeightOf(Holders(e, v)))

-----------------------------------------------------------------------------
(* What a signer asks of its database and of its node                      *)

\* 70% of the weight is known to have reached burn block t, by the updates s
\* stored.  Its own weight counts for the event and again for its own update.
BurnBlockReceived(s, t) ==
  ReachedAgreement(  WeightOf({r \in Signers \ {s} : eval[s][r].burn = t})
                   + WeightOf({r \in {s} : slot[r].burn = t})
                   + WeightOf({r \in {s} : t <= heard[r]}))

IsTimedOut(s, t) == rows[s][t] = 0 /\ t \in idle[s]

Higher(a, b) == IF a >= b THEN a ELSE b

\* Height of the last block of the parent of tenure t: the higher of what the
\* node (if it answers) and the database know.  0: neither knows one.
ParentTenureLastBlock(s, t, up) ==
  LET p == Prior[t]
  IN  Higher(IF up THEN blocks[s][p] ELSE 0, IF p \in fresh[s] THEN rows[s][p] ELSE 0)

MakeMinerState(s, t, up) == [tenure |-> t, height |-> ParentTenureLastBlock(s, t, up)]

\* The tenure of the node's canonical Stacks tip.
StacksTip(s) == CHOOSE t \in Tenures :
  blocks[s][t] > 0 /\ \A u \in Tenures : blocks[s][u] > 0 => u <= t

-----------------------------------------------------------------------------
(* A burn block arrives                                                    *)

\* The miner a signer settles for: the winner of the tip's sortition, or the
\* one before if the winner timed out, or none.
ArrivalMiner(s) ==
  LET cur == done[s]
      last == Prior[cur]
  IN  IF ~IsTimedOut(s, cur) THEN MakeMinerState(s, cur, TRUE)
      ELSE IF ~IsTimedOut(s, last) THEN MakeMinerState(s, last, TRUE)
      ELSE NoValidMiner

NodeBehind(s, e) ==
  \/ BurnHeight[done[s]] < BurnHeight[e]
  \/ BurnHeight[done[s]] = BurnHeight[e] /\ done[s] # e

\* Everything compute_bitcoin_block_arrival asks is answered.
ArrivalSucceeds(s, e, up) ==
  /\ up
  /\ ~NodeBehind(s, e)
  /\ IsTimedOut(s, done[s]) => Prior[done[s]] # 0
  /\ ArrivalMiner(s).tenure # 0 => ArrivalMiner(s).height # 0

\* Fault variant: an event replaces a higher burn block that is pending.
LatestBurnBlock(l, e) == IF l.mode = "pending" /\ e = 0 THEN l.expected ELSE e

\* The burn block to wait for (0: none given) when another is pending.
ExpectedBurnBlock(l, e) ==
  IF l.mode = "pending" /\ (e = 0 \/ BurnHeight[l.expected] > BurnHeight[e])
  THEN l.expected
  ELSE e

Initialized(b, m) == [mode |-> "initialized", burn |-> b, miner |-> m, expected |-> 0]

\* An arrival that fails is parked, with the state before it.
Park(l, e) == [mode |-> "pending", burn |-> l.burn, miner |-> l.miner,
               expected |-> IF e = 0 THEN l.burn ELSE e]

BitcoinBlockArrival(s, l, given, up) ==
  LET e == ExpectedBurnBlock(l, given)
  IN  IF ArrivalSucceeds(s, e, up) THEN Initialized(done[s], ArrivalMiner(s)) ELSE Park(l, e)

PlaceHolder == [mode |-> "uninitialized", burn |-> 0, miner |-> NoValidMiner, expected |-> 0]

-----------------------------------------------------------------------------
(* Housekeeping of a pass                                                  *)

\* The active miner timed out and the one before it can go on.
FallsBack(s, l, up) ==
  LET last == Prior[done[s]]
  IN  /\ l.mode = "initialized"
      /\ l.miner.tenure # 0
      /\ IsTimedOut(s, l.miner.tenure)
      /\ up
      /\ last # 0 /\ last # l.miner.tenure
      /\ StacksTip(s) = last
      /\ ~IsTimedOut(s, last)
      /\ ParentTenureLastBlock(s, last, up) # 0

CheckMinerInactivity(s, l, up) ==
  IF FallsBack(s, l, up)
  THEN Initialized(l.burn, MakeMinerState(s, Prior[done[s]], up))
  ELSE l

\* Fault variant: a parked arrival is never retried.
NoRetry(s, l, up) == CheckMinerInactivity(s, l, up)

\* A retry that backoff delays is one the node does not answer.
HandlePendingUpdate(s, l, up) ==
  IF l.mode = "pending" THEN BitcoinBlockArrival(s, l, l.expected, up)
  ELSE CheckMinerInactivity(s, l, up)

\* The evaluator of s, in which its own view counts.
WithOwn(s, l) == [eval[s] EXCEPT ![s] = ViewOf(l)]

UpdateParentTenureLastBlock(s, l, up) ==
  IF /\ l.mode = "initialized"
     /\ l.miner.tenure # 0
     /\ ParentTenureLastBlock(s, l.miner.tenure, up) # 0
  THEN Initialized(l.burn, MakeMinerState(s, l.miner.tenure, up))
  ELSE l

\* Fault variant: whatever the signer knows of the parent tenure will do.
MatchOfAnyHeight(s, m, w, up) ==
  /\ m.tenure # 0
  /\ ReachedDisagreement(w)
  /\ seen[s][m.tenure] > 0 \/ ReachedAgreement(w)
  /\ m.tenure <= heard[s]
  /\ ParentTenureLastBlock(s, m.tenure, up) # 0

\* Fault variant: only a view that is global already is capitulated to.
MatchOfGlobalView(s, m, w, up) ==
  /\ m.tenure # 0
  /\ ReachedAgreement(w)
  /\ m.tenure <= heard[s]
  /\ ParentTenureLastBlock(s, m.tenure, up) # 0
  /\ ParentTenureLastBlock(s, m.tenure, up) >= m.height

\* Why s may capitulate to miner m, given the weight w behind it: a blocking
\* minority holds that view, m's tenure has an accepted block or 70% hold the
\* view, and s knows the tenure and as much of the one before.
PotentialMatch(s, m, w, up) ==
  /\ m.tenure # 0
  /\ ReachedDisagreement(w)
  /\ seen[s][m.tenure] > 0 \/ ReachedAgreement(w)
  /\ m.tenure <= heard[s]
  /\ ParentTenureLastBlock(s, m.tenure, up) # 0
  /\ ParentTenureLastBlock(s, m.tenure, up) >= m.height

\* Only views at the global burn block count, and only if it is the signer's.
PotentialMatches(s, l, e, up) ==
  IF l.mode = "initialized" /\ IsGlobalBurnView(e, l.burn)
  THEN {m \in {e[r].miner : r \in Signers} :
          PotentialMatch(s, m, WeightOf(Holders(e, [burn |-> l.burn, miner |-> m])), up)}
  ELSE {}

\* n ranks above m: by the height of its burn block, then by that of the
\* parent tenure, then by weight, then by the contents of the view.
RanksAbove(e, burn, n, m) ==
  LET weight(x) == WeightOf(Holders(e, [burn |-> burn, miner |-> x]))
  IN  \/ BurnHeight[n.tenure] > BurnHeight[m.tenure]
      \/ /\ BurnHeight[n.tenure] = BurnHeight[m.tenure]
         /\ \/ n.height > m.height
            \/ /\ n.height = m.height
               /\ \/ weight(n) > weight(m)
                  \/ weight(n) = weight(m) /\ n.tenure > m.tenure

\* The match that ranks highest is taken: the set has one member.
CapitulateMinerView(l, e, matches) ==
  IF matches = {} THEN {l}
  ELSE {Initialized(l.burn, m) :
          m \in {k \in matches : \A n \in matches : ~RanksAbove(e, l.burn, n, k)}}

\* A changed view is sent, once, if the machine is initialized and the node
\* takes the message.
SendIfChanged(s, l, up) ==
  slot' = IF l # local[s] /\ l.mode = "initialized" /\ up
          THEN [slot EXCEPT ![s] = ViewOf(l)]
          ELSE slot

-----------------------------------------------------------------------------
(* The signer.  process_event does its housekeeping, sends the view if it  *)
(* changed, handles an event and sends the view if that changed it: a      *)
(* Pass, then the event.  A Pass that has nothing due, at a node that does *)
(* not answer, leaves the view alone.                                      *)

\* A step in which s meets with n faults, 0 or 1.
Faults(s, n) ==
  /\ s \in MayFail \/ n = 0
  /\ faults + n <= MaxFaults
  /\ faults' = faults + n

Outage(up) == IF up THEN 0 ELSE 1

\* up: the node answers.  due: the time for a capitulation check has come.
\* A pass that changes nothing is a stuttering step.
Pass(s, up, due) ==
  /\ \E l1 \in {HandlePendingUpdate(s, local[s], up)} :
     \E l2 \in {IF due THEN UpdateParentTenureLastBlock(s, l1, up) ELSE l1} :
     \E e \in {WithOwn(s, l2)} :
     \E matches \in {IF due THEN PotentialMatches(s, l2, e, up) ELSE {}} :
     \E l3 \in CapitulateMinerView(l2, e, matches) :
       /\ l3 # local[s]
       /\ local' = [local EXCEPT ![s] = l3]
       /\ SendIfChanged(s, l3, up)
  /\ Faults(s, Outage(up))
  /\ UNCHANGED <<nodeVars, dbVars, eval, restarts>>

\* A burn block event: the next one, or one the node delivers again.
NewBurnBlock(s, b, up) ==
  /\ \/ b = heard[s] + 1 /\ b <= told[s] /\ Faults(s, Outage(up))
     \/ b <= heard[s] /\ Faults(s, 1)
  /\ heard' = [heard EXCEPT ![s] = Higher(heard[s], b)]
  /\ \E l \in {BitcoinBlockArrival(s, local[s], b, up)} :
       local' = [local EXCEPT ![s] = l] /\ SendIfChanged(s, l, up)
  /\ UNCHANGED <<nodeVars, seen, rows, fresh, idle, eval, restarts>>

StacksBlockArrival(l, t, n) ==
  IF /\ l.mode = "initialized"
     /\ l.miner.tenure # 0
     /\ Prior[l.miner.tenure] = t
     /\ n > l.miner.height
  THEN Initialized(l.burn, [tenure |-> l.miner.tenure, height |-> n])
  ELSE l

\* A block event: the block of tenure t is now signed by the group.
NewBlock(s, t, up) ==
  LET n == seen[s][t] + 1
      l == StacksBlockArrival(local[s], t, n)
  IN  /\ n <= blocks[s][t]
      /\ seen' = [seen EXCEPT ![s] = [seen[s] EXCEPT ![t] = n]]
      /\ rows' = [rows EXCEPT ![s] = [rows[s] EXCEPT ![t] = Higher(rows[s][t], n)]]
      /\ fresh' = [fresh EXCEPT ![s] = fresh[s] \union {t}]
      /\ local' = [local EXCEPT ![s] = l]
      /\ SendIfChanged(s, l, up)
      /\ Faults(s, Outage(up))
      /\ UNCHANGED <<nodeVars, heard, idle, eval, restarts>>

\* The latest update of r reaches s.
HandleStateMachineUpdate(s, r) ==
  /\ slot[r] # NoView /\ eval[s][r] # slot[r]
  /\ eval' = [eval EXCEPT ![s] = [eval[s] EXCEPT ![r] = slot[r]]]
  /\ UNCHANGED <<nodeVars, dbVars, local, slot, faultVars>>

\* The signer restarts: it reads the updates in StackerDB (or fails to, and
\* has those it had stored), builds its state anew, and sends nothing.
Restart(s, up, read) ==
  LET l == BitcoinBlockArrival(s, PlaceHolder, 0, up)
  IN  /\ Faults(s, 1)
      /\ restarts' = [restarts EXCEPT ![s] = restarts[s] + 1]
      /\ local' = [local EXCEPT ![s] = l]
      /\ eval' = [eval EXCEPT ![s] = IF read THEN [slot EXCEPT ![s] = eval[s][s]] ELSE eval[s]]
      /\ UNCHANGED <<nodeVars, dbVars, slot>>

-----------------------------------------------------------------------------
(* Its node, its votes and its clock                                       *)

\* The node announces a burn block before its sortition database holds it.
AnnounceBurnBlock(s) ==
  /\ told[s] = done[s] /\ told[s] < LastBurn
  /\ told' = [told EXCEPT ![s] = told[s] + 1]
  /\ UNCHANGED <<done, blocks, dbVars, viewVars, faultVars>>

CommitSortition(s) ==
  /\ done[s] < told[s]
  /\ done' = [done EXCEPT ![s] = told[s]]
  /\ UNCHANGED <<told, blocks, dbVars, viewVars, faultVars>>

\* The blocks that honest nodes have or honest signers signed.
Made == {x \in Tenures \X (1 .. MaxBlocks) :
           \E r \in Honest : blocks[r][x[1]] >= x[2] \/ rows[r][x[1]] >= x[2]}

\* Block n of tenure t exists, or can be made within the bound.
MayExist(t, n) == <<t, n>> \in Made \/ Cardinality(Made) < MaxBlocks

\* Another node has a block of tenure t that the node of s lacks.
Lags(s, t) == \E r \in Honest : blocks[r][t] > blocks[s][t]

\* The node processes a block of tenure t, perhaps as the first one: the next
\* of a tenure nothing is built on yet, on the last of the tenure before.
ProcessBlock(s, t) ==
  /\ t <= done[s] /\ MayExist(t, blocks[s][t] + 1) /\ ~Lags(s, Prior[t])
  /\ ~Lags(s, t) => \A u \in Burns : Prior[u] = t => \A r \in Honest : blocks[r][u] = 0
  /\ blocks' = [blocks EXCEPT ![s] = [blocks[s] EXCEPT ![t] = blocks[s][t] + 1]]
  /\ UNCHANGED <<told, done, dbVars, viewVars, faultVars>>

\* s signs the block that follows its node's tip in the tenure of the active
\* miner; the network may never accept it.
Sign(s, t) ==
  /\ s \in MaySign /\ local[s].mode = "initialized" /\ local[s].miner.tenure = t
  /\ rows[s][t] <= blocks[s][t] /\ MayExist(t, blocks[s][t] + 1)
  /\ rows' = [rows EXCEPT ![s] = [rows[s] EXCEPT ![t] = blocks[s][t] + 1]]
  /\ fresh' = [fresh EXCEPT ![s] = fresh[s] \union {t}]
  /\ UNCHANGED <<nodeVars, heard, seen, idle, viewVars, faultVars>>

\* tenure_last_block_proposal_timeout passes; only of tenures that others
\* build on is it ever asked.
SignedBlockTimesOut(s, t) ==
  /\ t \in fresh[s] /\ \E u \in Burns : Prior[u] = t
  /\ fresh' = [fresh EXCEPT ![s] = fresh[s] \ {t}]
  /\ UNCHANGED <<nodeVars, heard, seen, rows, idle, viewVars, faultVars>>

\* block_proposal_timeout passes without a proposal of the miner of t.
TenureTimesOut(s, t) ==
  /\ t \in MayIdle \ idle[s] /\ BurnBlockReceived(s, t)
  /\ idle' = [idle EXCEPT ![s] = idle[s] \union {t}]
  /\ UNCHANGED <<nodeVars, heard, seen, rows, fresh, viewVars, faultVars>>

-----------------------------------------------------------------------------
FirstBlocks == [t \in Tenures |-> IF t <= 1 THEN 1 ELSE 0]

InitialView == [burn |-> 1, miner |-> [tenure |-> 1, height |-> 1]]

\* Every signer agrees on tenure 1 and has its first block.
Init ==
  /\ told = [s \in Honest |-> 1]
  /\ done = [s \in Honest |-> 1]
  /\ blocks = [s \in Honest |-> FirstBlocks]
  /\ heard = [s \in Honest |-> 1]
  /\ seen = [s \in Honest |-> FirstBlocks]
  /\ rows = [s \in Honest |-> FirstBlocks]
  /\ fresh = [s \in Honest |-> {}]
  /\ idle = [s \in Honest |-> {}]
  /\ local = [s \in Honest |-> Initialized(1, InitialView.miner)]
  /\ \E v \in PeerViews : slot = [r \in Signers |-> IF r \in Honest THEN InitialView ELSE v]
  /\ eval = [s \in Honest |-> slot]
  /\ faults = 0
  /\ restarts = [s \in Honest |-> 0]

Next ==
  \/ \E s \in Honest :
       \/ \E up, due \in BOOLEAN : Pass(s, up, due)
       \/ \E b \in Burns, up \in BOOLEAN : NewBurnBlock(s, b, up)
       \/ \E t \in Burns, up \in BOOLEAN : NewBlock(s, t, up)
       \/ \E r \in Signers \ {s} : HandleStateMachineUpdate(s, r)
       \/ \E up, read \in BOOLEAN : Restart(s, up, read)
       \/ AnnounceBurnBlock(s)
       \/ CommitSortition(s)
       \/ \E t \in Burns :
            \/ ProcessBlock(s, t)
            \/ Sign(s, t)
            \/ SignedBlockTimesOut(s, t)
            \/ TenureTimesOut(s, t)

Spec == Init /\ [][Next]_vars

\* What goes on by itself at the node of s and at its clock: events are
\* delivered, every node gets the burn blocks and the Stacks blocks another
\* has, signed blocks that are not accepted time out, and a miner silent to
\* one signer is silent to all.  Each of these happens finitely often.
Progress(s) ==
  \/ \E b \in Burns : b > heard[s] /\ NewBurnBlock(s, b, TRUE)
  \/ AnnounceBurnBlock(s)
  \/ CommitSortition(s)
  \/ \E t \in Burns :
       \/ NewBlock(s, t, TRUE)
       \/ Lags(s, t) /\ ProcessBlock(s, t)
       \/ SignedBlockTimesOut(s, t)
       \/ (\E r \in Honest : t \in idle[r]) /\ TenureTimesOut(s, t)

\* Passes go on, the node answers in one of them when a capitulation check is
\* due, and updates are delivered in the end.
Fairness ==
  \A s \in Honest :
    /\ WF_vars(Pass(s, TRUE, TRUE))
    /\ WF_vars(\E r \in Signers \ {s} : HandleStateMachineUpdate(s, r))
    /\ WF_vars(Progress(s))

FairSpec == Spec /\ Fairness

-----------------------------------------------------------------------------
(* Properties                                                              *)

Miners == [tenure : Tenures, height : Nat]

Views == [burn : Tenures, miner : Miners]

\* A machine is never left uninitialized.
LocalStates == [mode : {"initialized", "pending"}, burn : Tenures, miner : Miners, expected : Tenures]

\* Every variable has its type.
TypeOK ==
  /\ told \in [Honest -> Burns]
  /\ done \in [Honest -> Burns]
  /\ blocks \in [Honest -> [Tenures -> Nat]]
  /\ heard \in [Honest -> Burns]
  /\ seen \in [Honest -> [Tenures -> Nat]]
  /\ rows \in [Honest -> [Tenures -> Nat]]
  /\ fresh \in [Honest -> SUBSET Tenures]
  /\ idle \in [Honest -> SUBSET Tenures]
  /\ local \in [Honest -> LocalStates]
  /\ eval \in [Honest -> [Signers -> Views]]
  /\ slot \in [Signers -> Views]
  /\ faults \in 0 .. MaxFaults
  /\ restarts \in [Honest -> Nat]

\* The burn height s has reached or waits for.
BurnTarget(s) ==
  IF local[s].mode = "initialized" THEN BurnHeight[local[s].burn]
  ELSE Higher(BurnHeight[local[s].burn], BurnHeight[local[s].expected])

Ready(s) == local[s].mode = "initialized"

\* Whatever burn block events arrive, in whatever order and while the node is
\* behind or does not answer, only a restart takes a signer back to a lower
\* burn block, and it never settles below one it has just been told of.
BurnViewNeverFalls ==
  [][\A s \in Honest :
       \/ restarts'[s] # restarts[s]
       \/ /\ BurnTarget(s)' >= BurnTarget(s)
          /\ heard'[s] # heard[s] => BurnTarget(s)' >= BurnHeight[heard'[s]]]_vars

\* A signer never holds a miner of a tenure unknown to it and its node, nor
\* asks it to build on a block of the parent tenure that neither has seen,
\* whatever views it capitulated to.
ViewIsGrounded ==
  \A s \in Honest : local[s].miner.tenure # 0 =>
    LET m == local[s].miner
    IN  /\ m.tenure <= Higher(heard[s], done[s])
        /\ m.height <= Higher(blocks[s][Prior[m.tenure]], rows[s][Prior[m.tenure]])

\* Signers that parked an arrival, or failed to start, have a view again
\* without waiting for the next burn block.
PendingSettles == []<>(\A s \in Honest : Ready(s))

\* No fault has occurred, or the signers are at the last burn block and what
\* they hold is published.
Published ==
  \/ faults = 0
  \/ \A s \in Honest :
       Ready(s) /\ local[s].burn = LastBurn /\ slot[s] = ViewOf(local[s])

\* The honest signers hold one view and all see that it is the global one.
AllAgree ==
  \E m \in {local[r].miner : r \in Honest} : \A s \in Honest :
    LET v == [burn |-> LastBurn, miner |-> m]
    IN  Ready(s) /\ ViewOf(local[s]) = v /\ IsGlobalState(WithOwn(s, local[s]), v)

\* Signers split over the active miner, by a timeout that ran out at some of
\* them only, by signatures over a block that died, or by nodes that lag, come
\* to one view in the end: always if no fault occurs, and else if they are at
\* the last burn block and have published what they hold.
ViewsConverge == <>[]Published => <>[]AllAgree
=============================================================================
