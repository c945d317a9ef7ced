-------------------------- MODULE MinerCoordinator --------------------------
(***************************************************************************)
(* One miner thread of the stacks-node gathering signatures for the blocks *)
(* it mines (stacks-node/src/nakamoto_node/miner.rs, signer_coordinator.rs)*)
(* and the listener thread that counts the responses of the signers for it *)
(* (stackerdb_listener.rs).  The two share the map of block statuses under *)
(* a mutex; the miner waits for it on a condition variable with a timeout. *)
(*                                                                         *)
(* One action of the miner is what it does between two points where other  *)
(* threads can come in: the lock is held only while the status is read,    *)
(* counted into or reset.  A wait on the condition variable ends when its  *)
(* condition is found false, by whatever wake-up, or with a poll timeout.  *)
(*                                                                         *)
(* The running totals are the code's; `heard' is a history of what the     *)
(* listener was really told.  The chunk versions of the StackerDB, the     *)
(* extend timestamps and the contents of blocks are left out; errors of    *)
(* the databases are choices.                                              *)
(***************************************************************************)
EXTENDS SignerWeights, FiniteSetsExt

CONSTANTS
  Blocks,       \* the blocks this thread may mine
  Txids,        \* the transactions a signer may blame for its rejection
  ConfigSteps,  \* block_rejection_timeout_steps: percentage -> timeout
  RetryTimeout, \* transient_rejection_retry_timeout
  MaxElapsed,   \* bound: the rejections timer stops here
  MaxOwed,      \* bound: proposals a signer may still have to answer
  Answers,      \* bound: Answers[s] are the responses signer s may give
  MaxTroubles,  \* bound: how many of the four Troubles one behaviour has
  WeightCap,    \* where saturating_add stops (u32::MAX in the code)
  None

\* What is known of a proposed block.
BlockStatus ==
  [responded : SUBSET Signers, gathered : SUBSET Signers, approved : Nat,
   rejected : Nat, transient : Nat,
   failed : [Txids -> [total : Nat, problematic : Nat]]]

ASSUME StepsAssumption ==
  /\ 0 \in DOMAIN ConfigSteps
  /\ DOMAIN ConfigSteps \subseteq 0..100
  /\ \A p \in DOMAIN ConfigSteps : ConfigSteps[p] \in 0..(MaxElapsed - 1)
  /\ RetryTimeout \in 0..(MaxElapsed - 1)
  /\ MaxElapsed \in Nat /\ MaxOwed \in Nat \ {0}
  /\ WeightCap \in Nat /\ 2 * TotalWeight <= WeightCap
  /\ None \notin Blocks \cup Txids \cup BlockStatus

VARIABLES
  status,    \* blocks: what the listener counted for each requested block
  owed,      \* owed[s][b]: proposals of b that s may still answer
  listener,  \* the listener thread
  miner,     \* the miner thread: program counter and locals
  outcome,   \* outcome[b]: how propose_block(b) ended
  excluded,  \* txids kept out of the next block, and out of the mempool
  chain,     \* what the other threads of the node have stored
  abort,     \* miner_abort_flag, set by the relayer
  heard      \* history: what the listener was told, <<b, s, vote, x>>

vars == <<status, owed, listener, miner, outcome, excluded, chain, abort, heard>>

\* A response: accepted, or rejected.  A rejection is transient or not; it may
\* blame a transaction as bad or as problematic (those are never transient).
Votes == {"accept", "reject", "transient", "bad", "problematic"}
Blaming == {"bad", "problematic"}

BlockingMinority == TotalWeight - VotingWeightThreshold

Weight(s) == WeightOf({s})

SaturatingAdd(x, y) == IF x + y > WeightCap THEN WeightCap ELSE x + y

-----------------------------------------------------------------------------
\* The timeout while waiting for responses.

\* build_block_rejection_timeout_steps: of the percentages that come to the same
\* weight, the longest timeout.
StepWeight(p) == (TotalWeight * p) \div 100

TimeoutSteps ==
  [w \in {StepWeight(p) : p \in DOMAIN ConfigSteps} |->
     Max({ConfigSteps[p] : p \in {q \in DOMAIN ConfigSteps : StepWeight(q) = w}})]

\* select_rejection_timeout
SelectTimeout(rejected, transient) ==
  IF transient > 0 THEN RetryTimeout
  ELSE TimeoutSteps[Max({w \in DOMAIN TimeoutSteps : w <= rejected})]

-----------------------------------------------------------------------------
\* The status of a block.

NewStatus ==
  [responded |-> {}, gathered |-> {}, approved |-> 0, rejected |-> 0,
   transient |-> 0,
   failed |-> [x \in Txids |-> [total |-> 0, problematic |-> 0]]]

\* Variant with a fault (a repeated signature counts again).
CountAcceptedTwice(st, s) ==
  [st EXCEPT !.approved = SaturatingAdd(@, Weight(s)),
             !.gathered = @ \cup {s}, !.responded = @ \cup {s}]

\* BlockResponse::Accepted
CountAccepted(st, s) ==
  [st EXCEPT !.approved = IF s \in st.gathered THEN @ ELSE SaturatingAdd(@, Weight(s)),
             !.gathered = @ \cup {s}, !.responded = @ \cup {s}]

Blame(info, s, vote) ==
  [total       |-> SaturatingAdd(info.total, Weight(s)),
   problematic |-> IF vote = "problematic" THEN SaturatingAdd(info.problematic, Weight(s))
                   ELSE info.problematic]

\* BlockResponse::Rejected: only the first response since the last reset counts.
CountRejected(st, s, vote, x) ==
  IF s \in st.responded THEN st
  ELSE [st EXCEPT
          !.responded = @ \cup {s},
          !.rejected  = SaturatingAdd(@, Weight(s)),
          !.transient = IF vote = "transient" THEN SaturatingAdd(@, Weight(s)) ELSE @,
          !.failed    = IF vote \in Blaming
                        THEN [st.failed EXCEPT ![x] = Blame(st.failed[x], s, vote)] ELSE @]

\* Variant with a fault: the approvals go too.
ResetEverything(st) ==
  [st EXCEPT !.responded = {}, !.rejected = 0, !.transient = 0,
             !.gathered = {}, !.approved = 0]

\* reset_rejections; the blamed transactions keep their weights.
ResetRejections(st) ==
  [st EXCEPT !.responded = st.gathered, !.rejected = 0, !.transient = 0]

\* The verdicts get_block_status reads off a status.
HasSignatures(st) == st.approved >= VotingWeightThreshold
IsRejected(st)    == SaturatingAdd(st.rejected, VotingWeightThreshold) > TotalWeight

\* Variant with a fault (transient rejections weigh like all others).
NeverResend(st) == FALSE

\* should_resend_on_transient_rejection
ShouldResend(st) == st.rejected - st.transient <= BlockingMinority

\* Variant with a fault (off by one).
ExcludedAtMinority(st) == {x \in Txids : st.failed[x].total >= BlockingMinority}

\* txids blamed by more than the blocking minority
ExcludedTemporarily(st) ==
  {x \in Txids : /\ st.failed[x].total > BlockingMinority
                 /\ ~(st.failed[x].problematic > BlockingMinority)}
ExcludedPermanently(st) ==
  {x \in Txids : /\ st.failed[x].total > BlockingMinority
                 /\ st.failed[x].problematic > BlockingMinority}

-----------------------------------------------------------------------------
\* The listener thread.

ListenerUnchanged == UNCHANGED <<listener, miner, outcome, excluded, chain, abort>>

Blamed(b, s) == \E vote \in Blaming, x \in Txids : <<b, s, vote, x>> \in heard

\* A response of s to a proposal of b.  It may come late, after the proposal was
\* sent again or the miner went on to another block.  A signer that blamed a
\* transaction answers the next proposal of b with RejectedInPriorRound, which
\* blames none.
Hear(s, b, vote, x) ==
  /\ listener = "running"
  /\ owed[s][b] > 0 /\ vote \in Answers[s]
  /\ x \in (IF vote \in Blaming THEN Txids ELSE {None})
  /\ vote \in Blaming => ~Blamed(b, s)
  /\ owed'   = [owed EXCEPT ![s][b] = @ - 1]
  /\ status' = [status EXCEPT ![b] = IF vote = "accept" THEN CountAccepted(@, s)
                                     ELSE CountRejected(@, s, vote, x)]
  /\ heard'  = heard \cup {<<b, s, vote, x>>}
  /\ ListenerUnchanged

\* What happens to the thread from outside: its listener ended, another block
\* became the tip, a burn block came, the relayer wants it to stop.
Troubles ==
  {t \in {"failed", "rival", "burn", "abort"} :
     \/ t = "failed" /\ listener = "failed"
     \/ t = "rival"  /\ chain.rival
     \/ t = "burn"   /\ chain.burn
     \/ t = "abort"  /\ abort}

TroubleLeft == Cardinality(Troubles) < MaxTroubles

\* The loop finds keep_running unset.
ListenerStops ==
  /\ listener = "running" /\ miner.pc = "joining"
  /\ listener' = "stopped"
  /\ UNCHANGED <<status, owed, miner, outcome, excluded, chain, abort, heard>>

\* The channel is disconnected, or a chunk comes from a slot of no signer: the
\* thread ends, and the miner is not told.
ListenerFails ==
  /\ TroubleLeft /\ listener = "running"
  /\ listener' = "failed"
  /\ UNCHANGED <<status, owed, miner, outcome, excluded, chain, abort, heard>>

-----------------------------------------------------------------------------
\* The miner thread.

\* Where a thread that waits for nothing stands.
At(pc, b) == [pc |-> pc, block |-> b, seen |-> 0, timeout |-> 0, elapsed |-> 0,
              snap |-> NewStatus]

Goto(pc) == miner' = [miner EXCEPT !.pc = pc, !.snap = NewStatus]

\* propose_block(b) ends with the outcome, the thread goes on at pc.
Return(how, pc) ==
  /\ outcome' = [outcome EXCEPT ![miner.block] = how]
  /\ miner'   = At(pc, IF pc \in {"broadcast", "processing"} THEN miner.block ELSE None)

\* attempt_mine_and_propose_block up to the proposal: blacklist what the signers
\* called problematic, mine a block on the highest one there is, enter it into the
\* status map.
Mine(b) ==
  /\ miner.pc = "attempt" /\ ~abort /\ ~chain.burn
  /\ status[b] = None
  /\ status' = [status EXCEPT ![b] = NewStatus]
  /\ miner'  = At("send", b)
  /\ excluded' = [excluded EXCEPT !.permanently = {},
                                  !.blacklist = @ \cup excluded.permanently]
  /\ chain' = [chain EXCEPT !.rival = FALSE]
  /\ UNCHANGED <<owed, listener, outcome, abort, heard>>

\* The abort flag or a new burn block ends the thread; so does an error that is
\* not worth another attempt.  (An attempt that is tried again changes nothing.)
Quit ==
  /\ miner.pc = "attempt" /\ (abort \/ chain.burn)
  /\ miner' = At("shutdown", None)
  /\ UNCHANGED <<status, owed, listener, outcome, excluded, chain, abort, heard>>

MiningFails ==
  /\ miner.pc = "attempt"
  /\ miner' = At("shutdown", None)
  /\ UNCHANGED <<status, owed, listener, outcome, excluded, chain, abort, heard>>

\* send_miners_message, and get_block_status up to its loop.  A stale slot
\* version or a failed request is tried again with another block; any other
\* refusal of the chunk ends the thread.
Send ==
  /\ miner.pc = "send"
  /\ \/ /\ owed' = [s \in Signers |-> [owed[s] EXCEPT ![miner.block] =
                                         IF @ < MaxOwed THEN @ + 1 ELSE @]]
        /\ miner' = [At("top", miner.block) EXCEPT !.timeout = TimeoutSteps[0]]
        /\ UNCHANGED outcome
     \/ /\ \E pc \in {"attempt", "shutdown"} : Return("failed", pc)
        /\ UNCHANGED owed
  /\ UNCHANGED <<status, listener, excluded, chain, abort, heard>>

\* Variant with a fault (the abort flag is not looked at).
TopUnaware ==
  /\ miner.pc = "top"
  /\ Goto("wait")
  /\ UNCHANGED <<status, owed, listener, outcome, excluded, chain, abort, heard>>

Top ==
  /\ miner.pc = "top"
  /\ \/ abort /\ Return("aborted", "shutdown")
     \/ ~abort /\ Goto("wait") /\ UNCHANGED outcome
  /\ UNCHANGED <<status, owed, listener, excluded, chain, abort, heard>>

TimerExpired == miner.elapsed > miner.timeout

\* The condition of wait_for_block_status: go on waiting.
KeepWaiting(st) ==
  /\ ~TimerExpired
  /\ st.rejected = miner.seen
  /\ ~HasSignatures(st)

\* The condition is found false: the status is copied, the lock released.
WaitOver ==
  /\ miner.pc = "wait"
  /\ ~KeepWaiting(status[miner.block])
  /\ miner' = [miner EXCEPT !.pc = "decide", !.snap = status[miner.block]]
  /\ UNCHANGED <<status, owed, listener, outcome, excluded, chain, abort, heard>>

\* Nothing new for EVENT_RECEIVER_POLL.
PollTimeout ==
  /\ miner.pc = "wait"
  /\ KeepWaiting(status[miner.block])
  /\ Goto("poll")
  /\ UNCHANGED <<status, owed, listener, outcome, excluded, chain, abort, heard>>

\* Timed out: reset the rejections and propose the same block again.
SendAgain ==
  /\ status' = [status EXCEPT ![miner.block] = ResetRejections(@)]
  /\ miner'  = At("send", miner.block)
  /\ UNCHANGED outcome

\* What is checked after a poll timeout, in the code's order.  A query of the
\* staging database that fails counts as not found; the later queries are tried
\* with another block.
Poll ==
  /\ miner.pc = "poll"
  /\ \/ /\ miner.block \in chain.staged
        /\ Return("relayed", "broadcast")
        /\ UNCHANGED status
     \/ /\ chain.burn
        /\ Return("burnBlock", "shutdown")
        /\ UNCHANGED status
     \/ /\ ~chain.burn /\ TimerExpired
        /\ SendAgain
     \/ /\ ~chain.burn /\ ~TimerExpired
        /\ \/ miner.block \in chain.processed /\ Return("relayed", "broadcast")
           \/ chain.rival /\ Return("tipChanged", "attempt")
           \/ Return("failed", "attempt")
        /\ UNCHANGED status
     \/ /\ ~chain.burn /\ ~TimerExpired
        /\ miner.block \notin chain.processed /\ ~chain.rival
        /\ Goto("top")
        /\ UNCHANGED <<status, outcome>>
  /\ UNCHANGED <<owed, listener, excluded, chain, abort, heard>>

\* The copied status is looked at.  The timeout follows the rejections before
\* it is compared with the timer.
Decide ==
  LET st    == miner.snap
      limit == IF st.rejected # miner.seen THEN SelectTimeout(st.rejected, st.transient)
               ELSE miner.timeout
  IN  /\ miner.pc = "decide"
      /\ \/ /\ IsRejected(st) /\ ~ShouldResend(st)
            /\ Return("rejected", "attempt")
            /\ excluded' = [excluded EXCEPT
                              !.temporarily = ExcludedTemporarily(st),
                              !.permanently = @ \cup ExcludedPermanently(st)]
            /\ UNCHANGED status
         \/ /\ ~IsRejected(st) \/ ShouldResend(st)
            /\ HasSignatures(st)
            /\ Return("signed", "broadcast")
            /\ UNCHANGED <<status, excluded>>
         \/ /\ ~IsRejected(st) \/ ShouldResend(st)
            /\ ~HasSignatures(st) /\ miner.elapsed > limit
            /\ SendAgain
            /\ UNCHANGED excluded
         \/ /\ ~IsRejected(st) \/ ShouldResend(st)
            /\ ~HasSignatures(st) /\ ~(miner.elapsed > limit)
            /\ miner' = [miner EXCEPT !.pc = "top", !.seen = st.rejected,
                                      !.timeout = limit, !.snap = NewStatus]
            /\ UNCHANGED <<status, outcome, excluded>>
      /\ UNCHANGED <<owed, listener, chain, abort, heard>>

\* The signed block is stored and pushed; on an error the thread mines again.
Broadcast ==
  /\ miner.pc = "broadcast"
  /\ \/ /\ chain' = [chain EXCEPT !.staged = @ \cup {miner.block}]
        /\ excluded' = [excluded EXCEPT !.temporarily = {}]
        /\ miner' = At("processing", miner.block)
     \/ /\ miner' = At("attempt", None)
        /\ \/ UNCHANGED chain
           \/ chain' = [chain EXCEPT !.staged = @ \cup {miner.block}]
        /\ UNCHANGED excluded
  /\ UNCHANGED <<status, owed, listener, outcome, abort, heard>>

\* wait_for_last_block_mined_and_processed: the miner status may be blocked when
\* the block is processed; a sortition database that cannot be opened ends the
\* wait.
AwaitProcessed ==
  /\ miner.pc = "processing"
  /\ \/ miner.block \in chain.processed /\ miner' = At("attempt", None)
     \/ (abort \/ chain.burn) /\ miner' = At("shutdown", None)
     \/ ~abort /\ miner' = At("attempt", None)
  /\ UNCHANGED <<status, owed, listener, outcome, excluded, chain, abort, heard>>

\* shutdown: unset keep_running, then join the listener.
Shutdown ==
  /\ miner.pc = "shutdown"
  /\ miner' = At("joining", None)
  /\ UNCHANGED <<status, owed, listener, outcome, excluded, chain, abort, heard>>

Join ==
  /\ miner.pc = "joining" /\ listener # "running"
  /\ miner' = At("stopped", None)
  /\ UNCHANGED <<status, owed, listener, outcome, excluded, chain, abort, heard>>

\* The rejections timer of get_block_status.
Tick ==
  /\ miner.pc \in {"top", "wait", "poll", "decide"}
  /\ miner.elapsed < MaxElapsed
  /\ miner' = [miner EXCEPT !.elapsed = @ + 1]
  /\ UNCHANGED <<status, owed, listener, outcome, excluded, chain, abort, heard>>

-----------------------------------------------------------------------------
\* The other threads of the node.

\* A signed block arrives from the network; it has been proposed.
Relay(b) ==
  /\ status[b] # None /\ ~(miner.block = b /\ miner.pc = "send")
  /\ b \notin chain.staged
  /\ chain' = [chain EXCEPT !.staged = @ \cup {b}]
  /\ UNCHANGED <<status, owed, listener, miner, outcome, excluded, abort, heard>>

Process(b) ==
  /\ b \in chain.staged \ chain.processed
  /\ chain' = [chain EXCEPT !.processed = @ \cup {b}]
  /\ UNCHANGED <<status, owed, listener, miner, outcome, excluded, abort, heard>>

\* Another block shows up in the parent's tenure, or in the tenure to start.
RivalBlock ==
  /\ TroubleLeft /\ ~chain.rival
  /\ chain' = [chain EXCEPT !.rival = TRUE]
  /\ UNCHANGED <<status, owed, listener, miner, outcome, excluded, abort, heard>>

BurnBlock ==
  /\ TroubleLeft /\ ~chain.burn
  /\ chain' = [chain EXCEPT !.burn = TRUE]
  /\ UNCHANGED <<status, owed, listener, miner, outcome, excluded, abort, heard>>

\* The relayer wants this thread to stop (MinerStopHandle::stop).
Abort ==
  /\ TroubleLeft /\ ~abort
  /\ abort' = TRUE
  /\ UNCHANGED <<status, owed, listener, miner, outcome, excluded, chain, heard>>

-----------------------------------------------------------------------------
Init ==
  /\ status   = [b \in Blocks |-> None]
  /\ owed     = [s \in Signers |-> [b \in Blocks |-> 0]]
  /\ listener = "running"
  /\ miner    = At("attempt", None)
  /\ outcome  = [b \in Blocks |-> "none"]
  /\ excluded = [temporarily |-> {}, permanently |-> {}, blacklist |-> {}]
  /\ chain    = [staged |-> {}, processed |-> {}, burn |-> FALSE, rival |-> FALSE]
  /\ abort    = FALSE
  /\ heard    = {}

MinerStep ==
  \/ \E b \in Blocks : Mine(b)
  \/ Quit \/ Send \/ Top \/ WaitOver \/ PollTimeout \/ Poll \/ Decide
  \/ Broadcast \/ AwaitProcessed \/ Shutdown \/ Join

Next ==
  \/ \E s \in Signers, b \in Blocks, vote \in Votes, x \in Txids \cup {None} :
       Hear(s, b, vote, x)
  \/ ListenerStops \/ ListenerFails
  \/ MinerStep \/ MiningFails \/ Tick
  \/ \E b \in Blocks : Relay(b) \/ Process(b)
  \/ RivalBlock \/ BurnBlock \/ Abort

Spec == Init /\ [][Next]_vars

\* The threads are scheduled.  Nothing makes a signer answer, the chain grow or
\* the relayer abort, and the listener may fail.
FairSpec ==
  /\ Spec
  /\ WF_vars(MinerStep)
  /\ WF_vars(ListenerStops)

-----------------------------------------------------------------------------
\* Properties.

\* Who answered a proposal of b with one of the votes.
Voters(b, votes) ==
  {s \in Signers : \E vote \in votes, x \in Txids \cup {None} :
                     <<b, s, vote, x>> \in heard}

Places == {"attempt", "send", "top", "wait", "poll", "decide", "broadcast",
           "processing", "shutdown", "joining", "stopped"}

Outcomes == {"none", "signed", "relayed", "rejected", "failed", "aborted",
             "burnBlock", "tipChanged"}

\* The status map, the locals of the miner thread and the history have their types.
TypeOK ==
  /\ status \in [Blocks -> BlockStatus \cup {None}]
  /\ owed \in [Signers -> [Blocks -> 0..MaxOwed]]
  /\ listener \in {"running", "stopped", "failed"}
  /\ miner \in [pc : Places, block : Blocks \cup {None}, seen : Nat,
                timeout : 0..MaxElapsed, elapsed : 0..MaxElapsed, snap : BlockStatus]
  /\ outcome \in [Blocks -> Outcomes]
  /\ excluded \in [temporarily : SUBSET Txids, permanently : SUBSET Txids,
                   blacklist : SUBSET Txids]
  /\ chain \in [staged : SUBSET Blocks, processed : SUBSET Blocks,
                burn : BOOLEAN, rival : BOOLEAN]
  /\ abort \in BOOLEAN
  /\ heard \subseteq (Blocks \X Signers \X Votes \X (Txids \cup {None}))

\* The signatures propose_block returns are of signers with 70% of the weight, each
\* counted once however often the proposal was sent and the rejections were reset
\* in between (get_block_status, reset_rejections).
SignaturesSuffice ==
  \A b \in Blocks : outcome[b] = "signed" => MeetsThreshold(Voters(b, {"accept"}))

\* A block is abandoned as rejected only if signers who rejected it for a reason
\* that a re-evaluation cannot lift hold enough weight to block it: no rejection
\* is counted twice across re-sends, and transient ones do not count.
RejectionIsFounded ==
  \A b \in Blocks : outcome[b] = "rejected" =>
    BlocksThreshold(Voters(b, Votes \ {"accept", "transient"}))

\* A transaction is kept out of the next block, or dropped from the mempool, only if
\* a blocking minority agrees on it, although the blame outlives reset_rejections.
Blamers(b, votes, x) == {s \in Signers : \E vote \in votes : <<b, s, vote, x>> \in heard}

ExclusionIsFounded ==
  /\ \A x \in excluded.temporarily :
       \E b \in Blocks : BlocksThreshold(Blamers(b, Blaming, x))
  /\ \A x \in excluded.permanently \cup excluded.blacklist :
       \E b \in Blocks : BlocksThreshold(Blamers(b, {"problematic"}, x))

\* Once enough signatures for the proposed block are counted propose_block returns:
\* no wake-up is lost between the listener's count and the wait, and no re-send
\* forgets a signature.
Collected(b) ==
  /\ miner.block = b /\ miner.pc \in {"send", "top", "wait", "poll", "decide"}
  /\ HasSignatures(status[b])

CollectedIsReturned == \A b \in Blocks : Collected(b) ~> outcome[b] # "none"

\* A miner thread that is told to stop does, and its listener with it, whatever the
\* signers do.
AbortStops == abort ~> (miner.pc = "stopped" /\ listener # "running")
=============================================================================
