-------------------------- MODULE ChainsCoordinator --------------------------
(***************************************************************************)
(* How the stacks-node turns what it has received into chain state         *)
(* (stackslib/src/chainstate: coordinator/comm.rs, coordinator/mod.rs,     *)
(* nakamoto/coordinator/mod.rs, nakamoto/staging_blocks.rs and             *)
(* process_next_nakamoto_block in nakamoto/mod.rs).  Other threads store   *)
(* blocks in the staging database and burn blocks in the burnchain         *)
(* database and announce them by setting a bit under a mutex; one          *)
(* coordinator thread waits for the bits, processes staged blocks parents  *)
(* first, and sortitions until one needs an anchor block that is not there *)
(* yet.  A block goes through three databases in three transactions, and   *)
(* the process may end between any two of them.                            *)
(*                                                                         *)
(* The burnchain does not fork and every burn block elects a tenure.       *)
(* Blocks are stored with the signatures of 70%; whether one can be        *)
(* appended is known only when it is tried.  burn_attachable is always set *)
(* when a block is stored; a second copy of a block differs from the       *)
(* stored one in its signatures only.  Both are left out, as are the first *)
(* Nakamoto cycle with its epoch 2 parents, and the flag that pauses the   *)
(* miner.                                                                  *)
(***************************************************************************)
EXTENDS Integers, FiniteSetsExt

CONSTANTS
  Blocks,      \* Nakamoto blocks that may arrive
  Genesis,     \* the processed block they all descend from
  Parent, Height,
  Burn,        \* Burn[b]: height of the burn block that elected b's tenure
  View,        \* View[b]: height of b's burn view
  Cycle,       \* Cycle[h]: reward cycle of burn height h
  Prepare,     \* burn heights in a prepare phase
  FirstBurn,   \* burn height processed at the start
  MaxBurn,     \* bound: burn blocks
  MaxTroubles, \* bound: blocks or sortitions that fail, and restarts
  None

BurnHeights == 0..MaxBurn

ASSUME CoordinatorAssumption ==
  /\ Genesis \notin Blocks /\ None \notin Blocks \cup {Genesis}
  /\ None \notin [processed : BOOLEAN, orphaned : BOOLEAN]
  /\ Parent \in [Blocks -> Blocks \cup {Genesis}]
  /\ Height \in [Blocks \cup {Genesis} -> Nat]
  /\ \A b \in Blocks : Height[b] = Height[Parent[b]] + 1
  /\ Burn \in [Blocks \cup {Genesis} -> BurnHeights]
  /\ View \in [Blocks \cup {Genesis} -> BurnHeights] /\ View[Genesis] <= FirstBurn
  /\ Cycle \in [BurnHeights -> Nat] /\ Prepare \subseteq BurnHeights
  /\ FirstBurn \in BurnHeights /\ MaxBurn \in Nat
  /\ MaxTroubles \in Nat

VARIABLES
  signal,     \* SignalBools: announcements the coordinator has not received
  coord,      \* the coordinator thread
  staging,    \* nakamoto_staging_blocks: the state of a block's row, or None
  headers,    \* the blocks whose chain state is committed
  tips,       \* tips[h]: stacks_chain_tips_by_burn_view of sortition h
  sortition,  \* height of the last processed sortition
  downloaded, \* height of the last burn block in the burnchain database
  announcing, \* what another thread has stored and is about to announce
  owed,       \* history: what this process was told of and has not done
  troubles    \* failures and restarts so far

vars == <<signal, coord, staging, headers, tips, sortition, downloaded, announcing,
          owed, troubles>>

chain == <<staging, headers, tips, sortition, downloaded>>

Row(processed, orphaned) == [processed |-> processed, orphaned |-> orphaned]

Nothing == [blocks |-> {}, burn |-> 0]

\* pc: "top" and "waiting" in wait_on; "stacks", "mark", "accept" and "anchor" in
\* handle_new_nakamoto_stacks_block; "burn" in handle_new_nakamoto_burnchain_block.
\* at: the sortition tip the handler of Stacks blocks took when it began
Fresh == [pc |-> "top", bits |-> {}, woken |-> FALSE, block |-> None, at |-> 0, goal |-> 0]

Init ==
  /\ signal     = {"burn"}
  /\ coord      = Fresh
  /\ staging    = [b \in Blocks |-> None]
  /\ headers    = {}
  /\ tips       = [h \in BurnHeights |-> IF h = View[Genesis] THEN Genesis ELSE None]
  /\ sortition  = FirstBurn
  /\ downloaded = FirstBurn
  /\ announcing = {}
  /\ owed       = Nothing
  /\ troubles   = 0

-----------------------------------------------------------------------------
\* The threads that announce.

\* Variant with a fault (the bit is set and nobody is woken).
NotifyNobody(bit) ==
  /\ signal' = signal \cup {bit}
  /\ UNCHANGED coord

\* announce_new_stacks_block, announce_new_burn_block, stop_chains_coordinator: the
\* bit is set and the condition variable notified under the mutex
Notify(bit) ==
  /\ signal' = signal \cup {bit}
  /\ coord'  = [coord EXCEPT !.woken = coord.pc = "waiting"]

Carries(b) == View[b] # View[Parent[b]] \/ Burn[b] # Burn[Parent[b]]

\* process_new_nakamoto_block and accept_block: the sortition of the tenure must be
\* known, and the burn view of a tenure transaction; a block we have is not stored
\* again and not announced
AcceptBlock(b) ==
  /\ "stacks" \notin announcing
  /\ staging[b] = None /\ b \notin headers
  /\ Burn[b] <= sortition
  /\ Carries(b) => View[b] <= sortition
  /\ staging' = [staging EXCEPT ![b] = Row(FALSE, FALSE)]
  /\ announcing' = announcing \cup {"stacks"}
  /\ UNCHANGED <<signal, coord, headers, tips, sortition, downloaded, owed, troubles>>

\* process_block of the burnchain-db thread
DownloadBurnBlock ==
  /\ "burn" \notin announcing
  /\ downloaded < MaxBurn
  /\ downloaded' = downloaded + 1
  /\ announcing' = announcing \cup {"burn"}
  /\ UNCHANGED <<signal, coord, staging, headers, tips, sortition, owed, troubles>>

Unprocessed == {b \in Blocks : staging[b] = Row(FALSE, FALSE)}

\* also announced without a new block: by a relayer that mines after a sortition, and
\* for blocks uploaded over HTTP
AnnounceNewStacksBlock ==
  /\ Notify("stacks")
  /\ announcing' = announcing \ {"stacks"}
  /\ owed' = [owed EXCEPT !.blocks = @ \cup (Unprocessed \ headers)]
  /\ UNCHANGED <<chain, troubles>>

AnnounceNewBurnBlock ==
  /\ "burn" \in announcing
  /\ Notify("burn")
  /\ announcing' = announcing \ {"burn"}
  /\ owed' = [owed EXCEPT !.burn = downloaded]
  /\ UNCHANGED <<chain, troubles>>

StopChainsCoordinator ==
  /\ "stop" \notin signal
  /\ Notify("stop")
  /\ UNCHANGED <<chain, announcing, owed, troubles>>

-----------------------------------------------------------------------------
\* The coordinator waits: comms_loop, wait_on and receive_signal.

\* handle_comms_nakamoto: Stacks blocks first, then burn blocks, then the stop
Handle(bits) ==
  CASE "stacks" \in bits ->
         [Fresh EXCEPT !.pc = "stacks", !.bits = bits \ {"stacks"}, !.at = sortition]
    [] "stacks" \notin bits /\ "burn" \in bits ->
         [Fresh EXCEPT !.pc = "burn", !.bits = bits \ {"burn"}, !.goal = downloaded]
    [] bits = {"stop"} -> [Fresh EXCEPT !.pc = "stopped"]
    [] OTHER -> Fresh

\* the stop stays set
ReceiveSignal ==
  /\ signal' = signal \cap {"stop"}
  /\ coord'  = Handle(signal)

WaitOn ==
  /\ coord.pc = "top"
  /\ IF signal # {}
     THEN ReceiveSignal
     ELSE coord' = [coord EXCEPT !.pc = "waiting"] /\ UNCHANGED signal
  /\ UNCHANGED <<chain, announcing, owed, troubles>>

WakeUp ==
  /\ coord.pc = "waiting" /\ coord.woken
  /\ ReceiveSignal
  /\ UNCHANGED <<chain, announcing, owed, troubles>>

\* the wait is not in a loop: a spurious wake-up returns whatever is set
WakeSpuriously ==
  /\ coord.pc = "waiting" /\ ~coord.woken
  /\ ReceiveSignal
  /\ UNCHANGED <<chain, announcing, owed, troubles>>

-----------------------------------------------------------------------------
\* One pass of the loop in handle_new_nakamoto_stacks_block.

EndHandler == coord' = Handle(coord.bits)

Trouble == troubles < MaxTroubles /\ troubles' = troubles + 1

\* an error is logged, and what was announced waits for the next announcement
GiveUp ==
  /\ EndHandler
  /\ owed' = [owed EXCEPT !.blocks = {}]

HasHeader(b) == b = Genesis \/ b \in headers

IsProcessed(b) == b = Genesis \/ (staging[b] # None /\ staging[b].processed)

\* the rows of the query in next_ready_nakamoto_block; it does not ask whether the
\* parent was orphaned
Ready == {b \in Unprocessed : IsProcessed(Parent[b])}

NextReady(b) == b \in Ready /\ \A c \in Ready : Height[b] <= Height[c]

\* Variant with a fault (the blocks with the same parent).
OrphanSiblings(b) ==
  [c \in Blocks |->
     CASE c = b -> Row(TRUE, TRUE)
       [] c # b /\ Parent[c] = Parent[b] /\ staging[c] # None ->
            [staging[c] EXCEPT !.orphaned = TRUE]
       [] OTHER -> staging[c]]

\* the row of the block and those of its children that are stored
SetBlockOrphaned(b) ==
  [c \in Blocks |->
     CASE c = b -> Row(TRUE, TRUE)
       [] c # b /\ Parent[c] = b /\ staging[c] # None ->
            [staging[c] EXCEPT !.orphaned = TRUE]
       [] OTHER -> staging[c]]

\* a stop is pending, there is no ready block, or the first one has a parent without
\* chain state, where no reward set can be read: an error, and the row stays as it is
EndOfBlocks ==
  /\ coord.pc = "stacks"
  /\ \/ "stop" \in signal
     \/ Ready = {}
     \/ \E b \in Ready : NextReady(b) /\ ~HasHeader(Parent[b])
  /\ EndHandler
  /\ UNCHANGED <<signal, chain, announcing, owed, troubles>>

CanAppend(b) ==
  /\ coord.pc = "stacks" /\ "stop" \notin signal
  /\ NextReady(b) /\ HasHeader(Parent[b])

\* Variant with a fault (the row is marked before the chain state is committed).
MarkEarly(b) ==
  /\ staging' = [staging EXCEPT ![b] = Row(TRUE, FALSE)]
  /\ headers' = headers

\* clarity_commit and the transaction of the headers
Commit(b) ==
  /\ headers' = headers \cup {b}
  /\ UNCHANGED staging

AppendBlock(b) ==
  /\ CanAppend(b) /\ b \notin headers
  /\ Commit(b)
  /\ coord' = [coord EXCEPT !.pc = "mark", !.block = b]
  /\ owed'  = [owed EXCEPT !.blocks = @ \ {b}]
  /\ UNCHANGED <<signal, tips, sortition, downloaded, announcing, troubles>>

\* append_block fails with InvalidStacksBlock: the loop goes on
AppendInvalid(b) ==
  /\ CanAppend(b) /\ b \notin headers
  /\ Trouble
  /\ staging' = SetBlockOrphaned(b)
  /\ UNCHANGED <<signal, coord, headers, tips, sortition, downloaded, announcing, owed>>

\* append_block fails otherwise: the handler returns the error
AppendError(b) ==
  /\ CanAppend(b) /\ b \notin headers
  /\ Trouble
  /\ staging' = SetBlockOrphaned(b)
  /\ GiveUp
  /\ UNCHANGED <<signal, headers, tips, sortition, downloaded, announcing>>

\* the chain state was committed before a crash: advance_tip finds it and fails
AppendAgain(b) ==
  /\ CanAppend(b) /\ b \in headers
  /\ staging' = SetBlockOrphaned(b)
  /\ GiveUp
  /\ UNCHANGED <<signal, headers, tips, sortition, downloaded, announcing, troubles>>

\* infallible_set_block_processed
SetBlockProcessed ==
  /\ coord.pc = "mark"
  /\ staging' = [staging EXCEPT ![coord.block] = Row(TRUE, @.orphaned)]
  /\ coord' = [coord EXCEPT !.pc = "accept"]
  /\ UNCHANGED <<signal, headers, tips, sortition, downloaded, announcing, owed, troubles>>

\* get_canonical_nakamoto_tip_hash_and_height: the tip of the newest burn view
CanonicalTip(h) == tips[Max({v \in 0..h : tips[v] # None})]

\* Variant with a fault (every block becomes the tip of its burn view).
ReplacesAlways(b, t) == TRUE

\* set_stacks_block_accepted_at_tip: a higher block, or one of equal height of a later
\* tenure
WillReplace(b, t) ==
  \/ Height[b] > Height[t]
  \/ Height[b] = Height[t] /\ Burn[b] > Burn[t]

\* Variant with a fault (the sortitions wait for the next burn block).
NoAnchorDuty(b) == FALSE

\* the block is in a prepare phase whose next cycle had not begun when we started
AnchorDuty(b) == Burn[b] \in Prepare /\ Cycle[coord.at] <= Cycle[Burn[b]]

\* set_stacks_block_accepted, compared with the tip of the sortition the handler began
\* at; then the sortitions that may have waited for this block
SetStacksBlockAccepted ==
  /\ coord.pc = "accept"
  /\ LET b == coord.block IN
       /\ tips' = IF WillReplace(b, CanonicalTip(coord.at))
                  THEN [tips EXCEPT ![View[b]] = b] ELSE tips
       /\ coord' = IF AnchorDuty(b)
                   THEN [coord EXCEPT !.pc = "anchor", !.block = None, !.goal = downloaded]
                   ELSE [coord EXCEPT !.pc = "stacks", !.block = None]
  /\ UNCHANGED <<signal, staging, headers, sortition, downloaded, announcing, owed, troubles>>

-----------------------------------------------------------------------------
\* handle_new_nakamoto_burnchain_block, announced ("burn") or called by the handler of
\* Stacks blocks ("anchor").

Ancestry[b \in Blocks \cup {Genesis}] ==
  {b} \cup (IF b = Genesis THEN {} ELSE Ancestry[Parent[b]])

\* get_nakamoto_reward_cycle_info: the tip descends from a tenure of the prepare phase
AnchorKnown(h) ==
  \E a \in Ancestry[CanonicalTip(sortition)] :
    Burn[a] \in Prepare /\ Cycle[Burn[a]] = Cycle[h - 1]

CycleStart(h) == h \in BurnHeights /\ Cycle[h] # Cycle[h - 1]

MustBlock(h) == CycleStart(h) /\ ~AnchorKnown(h)

InBurnHandler == coord.pc \in {"burn", "anchor"}

\* Variant with a fault (one sortition too many).
EvaluateOneMore ==
  /\ InBurnHandler
  /\ sortition <= coord.goal /\ ~MustBlock(sortition + 1)
  /\ sortition' = sortition + 1
  /\ UNCHANGED <<signal, coord, staging, headers, tips, downloaded, announcing, owed, troubles>>

\* evaluate_sortition; the tip moves with it
EvaluateSortition ==
  /\ InBurnHandler
  /\ sortition < coord.goal /\ ~MustBlock(sortition + 1)
  /\ sortition' = sortition + 1
  /\ UNCHANGED <<signal, coord, staging, headers, tips, downloaded, announcing, owed, troubles>>

\* all sortitions are processed, or the next one must wait for its anchor block
EndOfSortitions ==
  /\ InBurnHandler
  /\ sortition >= coord.goal \/ MustBlock(sortition + 1)
  /\ IF coord.pc = "anchor"
     THEN coord' = [coord EXCEPT !.pc = "stacks", !.goal = 0]
     ELSE EndHandler
  /\ UNCHANGED <<signal, chain, announcing, owed, troubles>>

\* an error ends both handlers; it is logged
SortitionError ==
  /\ InBurnHandler
  /\ sortition < coord.goal
  /\ Trouble
  /\ EndHandler
  /\ owed' = IF coord.pc = "anchor" THEN Nothing ELSE [owed EXCEPT !.burn = 0]
  /\ UNCHANGED <<signal, chain, announcing>>

-----------------------------------------------------------------------------
\* The process ends, at any point or after a stop, and is started again: the run loop
\* announces a burn block, and no Stacks block.
Restart ==
  /\ Trouble
  /\ signal' = {"burn"}
  /\ coord' = Fresh
  /\ announcing' = {}
  /\ owed' = [blocks |-> {}, burn |-> downloaded]
  /\ UNCHANGED chain

Coordinator ==
  \/ WaitOn \/ WakeUp \/ EndOfBlocks
  \/ \E b \in Blocks : AppendBlock(b) \/ AppendInvalid(b) \/ AppendError(b) \/ AppendAgain(b)
  \/ SetBlockProcessed \/ SetStacksBlockAccepted
  \/ EvaluateSortition \/ EndOfSortitions \/ SortitionError

Next ==
  \/ \E b \in Blocks : AcceptBlock(b)
  \/ DownloadBurnBlock \/ AnnounceNewStacksBlock \/ AnnounceNewBurnBlock
  \/ StopChainsCoordinator
  \/ Coordinator \/ WakeSpuriously
  \/ Restart

Spec == Init /\ [][Next]_vars

\* The coordinator thread and a thread that has begun to announce are scheduled; that
\* the system wakes a thread without reason is not assumed.
FairSpec ==
  /\ Spec
  /\ WF_vars(Coordinator)
  /\ WF_vars("stacks" \in announcing /\ AnnounceNewStacksBlock)
  /\ WF_vars(AnnounceNewBurnBlock)

-----------------------------------------------------------------------------
(***************************************************************************)
(* Types, and what ties the places together: the coordinator is never      *)
(* beyond what was downloaded, and a block in its hands has a row.         *)
(***************************************************************************)
TypeOK ==
  /\ signal \subseteq {"stacks", "burn", "stop"}
  /\ coord \in [pc : {"top", "waiting", "stacks", "mark", "accept", "anchor", "burn", "stopped"},
                bits : SUBSET {"stacks", "burn", "stop"}, woken : BOOLEAN,
                block : Blocks \cup {None}, at : BurnHeights, goal : BurnHeights]
  /\ coord.pc \in {"mark", "accept"} => coord.block # None
  /\ coord.block # None => staging[coord.block] # None
  /\ staging \in [Blocks -> [processed : BOOLEAN, orphaned : BOOLEAN] \cup {None}]
  /\ headers \subseteq Blocks
  /\ tips \in [BurnHeights -> Blocks \cup {Genesis, None}]
  /\ downloaded \in FirstBurn..MaxBurn /\ sortition \in FirstBurn..downloaded
  /\ announcing \subseteq {"stacks", "burn"}
  /\ owed \in [blocks : SUBSET Blocks, burn : BurnHeights]
  /\ troubles \in 0..MaxTroubles

(***************************************************************************)
(* What the staging database calls processed is chain state, wherever the  *)
(* process ended, and so is the parent of every block that is; a tip is    *)
(* chain state too.  next_ready_nakamoto_block relies on the first, since  *)
(* it looks for processed parents among the staged rows only.              *)
(***************************************************************************)
ProcessedIsCommitted ==
  /\ \A b \in Blocks : staging[b] = Row(TRUE, FALSE) => b \in headers
  /\ \A b \in headers : HasHeader(Parent[b])
  /\ \A h \in BurnHeights : tips[h] # None => HasHeader(tips[h])

\* chain state whose row was never marked: the process ended in between
Torn(b) == b \in headers /\ staging[b] # Row(TRUE, FALSE)

(***************************************************************************)
(* A row is orphaned only if its block failed, its parent did, or its or   *)
(* its parent's chain state was committed just before the process ended.   *)
(* Nothing undoes the mark (store_block_if_better keeps orphaned rows).    *)
(***************************************************************************)
OrphansAreFounded ==
  \A b \in Blocks :
    staging[b] # None /\ staging[b].orphaned =>
      \/ Torn(b)
      \/ ~HasHeader(b) /\ staging[b].processed
      \/ Parent[b] # Genesis /\ staging[Parent[b]] = Row(TRUE, TRUE)

(***************************************************************************)
(* The canonical tip is only ever replaced by a block at least as high     *)
(* ("it represents more overall signer votes"), unless sortitions were     *)
(* processed since the handler took its copy of the sortition tip.         *)
(***************************************************************************)
TipHeight == Height[CanonicalTip(sortition)]

TipFallsOnlyWhenStale ==
  [][TipHeight' < TipHeight => coord.pc = "accept" /\ coord.at < sortition]_vars

\* nothing went wrong with the block or its ancestors
Sound(b) ==
  \A a \in Ancestry[b] : a = Genesis \/ (staging[a] # None /\ ~staging[a].orphaned)

\* the first ready block cannot be appended, and hides the others at every attempt
HeadIsStuck == \E b \in Ready : NextReady(b) /\ ~HasHeader(Parent[b])

\* announced since the last error or start, and nothing stands in the way
Due == {b \in owed.blocks : Sound(b)}

(***************************************************************************)
(* No announcement is lost: again and again every block that was stored    *)
(* when the coordinator was told of one is chain state, with its           *)
(* ancestors, unless the coordinator stops, an error cancels the handler   *)
(* or a block whose parent has no chain state hides it.                    *)
(***************************************************************************)
AnnouncedIsProcessed == []<>(Due = {} \/ HeadIsStuck \/ "stop" \in signal)

(***************************************************************************)
(* Sortitions follow the burn blocks that were announced; one that waits   *)
(* for its anchor block goes on when that block is processed, though       *)
(* nobody announces a burn block then.                                     *)
(***************************************************************************)
SortitionsKeepUp ==
  []<>(sortition >= owed.burn \/ MustBlock(sortition + 1) \/ "stop" \in signal)

(***************************************************************************)
(* The coordinator ends when it is told to stop, however much is ready.    *)
(***************************************************************************)
StopIsHeard == "stop" \in signal ~> coord.pc = "stopped" \/ "stop" \notin signal
=============================================================================
