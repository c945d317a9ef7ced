----------------------- MODULE ChainsCoordinatorProofs -----------------------
(***************************************************************************)
(* Proofs about the chains coordinator (module ChainsCoordinator): the     *)
(* three databases agree wherever the process ends, and the canonical tip  *)
(* falls only behind a stale copy of the sortition tip.                    *)
(***************************************************************************)
EXTENDS ChainsCoordinator, WellFoundedInduction, TLAPS

-----------------------------------------------------------------------------
\* The inductive invariant.

\* the block in the coordinator's hands is chain state; it began no later than the last
\* sortition and will not go beyond what is downloaded
CoordOK ==
  /\ coord.pc \in {"mark", "accept"} => coord.block \in headers
  /\ coord.at <= sortition
  /\ coord.goal <= downloaded

\* no block is ahead of the sortitions: its burn view was known when it was stored, or
\* is that of its parent
ViewsSeen ==
  /\ \A b \in Blocks : staging[b] # None /\ Carries(b) => View[b] <= sortition
  /\ \A b \in headers : View[b] <= sortition

\* nor is a tip, and there always is one
TipsSeen ==
  /\ \A h \in BurnHeights : tips[h] # None => h <= sortition
  /\ tips[View[Genesis]] # None

CoordinatorInv ==
  TypeOK /\ ProcessedIsCommitted /\ OrphansAreFounded /\ CoordOK /\ ViewsSeen /\ TipsSeen

-----------------------------------------------------------------------------
\* Types.

CoordType ==
  [pc : {"top", "waiting", "stacks", "mark", "accept", "anchor", "burn", "stopped"},
   bits : SUBSET {"stacks", "burn", "stop"}, woken : BOOLEAN,
   block : Blocks \cup {None}, at : BurnHeights, goal : BurnHeights]

RowType == [processed : BOOLEAN, orphaned : BOOLEAN]

\* what is kept outside the databases
VolatileType ==
  /\ signal \subseteq {"stacks", "burn", "stop"}
  /\ coord \in CoordType
  /\ announcing \subseteq {"stacks", "burn"}
  /\ owed \in [blocks : SUBSET Blocks, burn : BurnHeights]
  /\ troubles \in 0..MaxTroubles

\* A row is never the absence of a row.
LEMMA RowFacts ==
  ASSUME NEW p \in BOOLEAN, NEW o \in BOOLEAN
  PROVE  Row(p, o) \in RowType /\ Row(p, o) # None
         /\ Row(p, o).processed = p /\ Row(p, o).orphaned = o
<1>1. Row(p, o) \in RowType  BY DEF Row, RowType
<1>2. None \notin RowType  BY CoordinatorAssumption DEF RowType
<1>3. QED  BY <1>1, <1>2 DEF Row

\* A row is determined by its two flags.
LEMMA RowIsItsFlags ==
  ASSUME NEW r \in RowType
  PROVE  r = Row(r.processed, r.orphaned)
  BY DEF Row, RowType

\* The heights the process keeps are burn heights.
LEMMA HeightTypes ==
  ASSUME TypeOK
  PROVE  /\ sortition \in BurnHeights /\ downloaded \in BurnHeights
         /\ sortition \in Nat /\ downloaded \in Nat /\ 0 \in BurnHeights
         /\ FirstBurn \in Nat /\ View[Genesis] \in BurnHeights
         /\ View[Genesis] <= sortition
<1>1. /\ FirstBurn \in BurnHeights /\ MaxBurn \in Nat
      /\ View[Genesis] \in BurnHeights /\ View[Genesis] <= FirstBurn
  BY CoordinatorAssumption
<1>2. downloaded \in FirstBurn..MaxBurn /\ sortition \in FirstBurn..downloaded
  BY DEF TypeOK
<1>3. QED  BY <1>1, <1>2 DEF BurnHeights

\* handle_comms_nakamoto begins with the tip and the burn block of the moment, and with
\* no block in its hands.
LEMMA HandleFacts ==
  ASSUME TypeOK, NEW bits \in SUBSET {"stacks", "burn", "stop"}
  PROVE  LET c == Handle(bits)
         IN  /\ c \in CoordType /\ c.block = None
             /\ c.pc \notin {"mark", "accept"}
             /\ c.at <= sortition /\ c.goal <= downloaded
<1> DEFINE A == [Fresh EXCEPT !.pc = "stacks", !.bits = bits \ {"stacks"}, !.at = sortition]
           B == [Fresh EXCEPT !.pc = "burn", !.bits = bits \ {"burn"}, !.goal = downloaded]
           C == [Fresh EXCEPT !.pc = "stopped"]
<1>1. /\ sortition \in BurnHeights /\ downloaded \in BurnHeights
      /\ 0 \in BurnHeights /\ sortition \in Nat /\ downloaded \in Nat
  BY HeightTypes
<1>2. Handle(bits) \in {A, B, C, Fresh}  BY DEF Handle
<1>3. /\ A \in CoordType /\ A.block = None /\ A.pc = "stacks"
      /\ A.at = sortition /\ A.goal = 0
  BY <1>1 DEF Fresh, CoordType
<1>4. /\ B \in CoordType /\ B.block = None /\ B.pc = "burn"
      /\ B.at = 0 /\ B.goal = downloaded
  BY <1>1 DEF Fresh, CoordType
<1>5. /\ C \in CoordType /\ C.block = None /\ C.pc = "stopped" /\ C.at = 0 /\ C.goal = 0
      /\ Fresh \in CoordType /\ Fresh.block = None /\ Fresh.pc = "top"
      /\ Fresh.at = 0 /\ Fresh.goal = 0
  BY <1>1 DEF Fresh, CoordType
<1> HIDE DEF A, B, C
<1>6. QED  BY <1>1, <1>2, <1>3, <1>4, <1>5

\* A step that leaves the databases alone, and takes no block into hand, keeps the
\* invariant.
LEMMA DatabasesUnchanged ==
  ASSUME CoordinatorInv, UNCHANGED chain, VolatileType',
         coord'.block \in {None, coord.block},
         coord'.pc \in {"mark", "accept"} => coord'.pc = coord.pc /\ coord'.block = coord.block,
         coord'.at <= sortition, coord'.goal <= downloaded
  PROVE  CoordinatorInv'
<1>1. /\ staging' = staging /\ headers' = headers /\ tips' = tips
      /\ sortition' = sortition /\ downloaded' = downloaded
  BY DEF chain
<1>2. TypeOK'
  BY <1>1 DEF CoordinatorInv, TypeOK, VolatileType, CoordType
<1>3. ProcessedIsCommitted' /\ OrphansAreFounded' /\ ViewsSeen' /\ TipsSeen'
  BY <1>1 DEF CoordinatorInv, ProcessedIsCommitted, OrphansAreFounded, ViewsSeen, TipsSeen,
              HasHeader, Torn
<1>4. CoordOK'  BY <1>1 DEF CoordinatorInv, CoordOK
<1>5. QED  BY <1>2, <1>3, <1>4 DEF CoordinatorInv

-----------------------------------------------------------------------------
\* The steps outside the databases: announcements, waiting, the ends of the handlers.

\* notify_one changes nothing but the mark that the coordinator was woken.
LEMMA NotifyFacts ==
  ASSUME TypeOK, NEW bit \in {"stacks", "burn", "stop"}, Notify(bit)
  PROVE  /\ signal' \subseteq {"stacks", "burn", "stop"}
         /\ coord' \in CoordType
         /\ coord'.block = coord.block /\ coord'.pc = coord.pc
         /\ coord'.at = coord.at /\ coord'.goal = coord.goal
<1>1. coord \in CoordType  BY DEF TypeOK, CoordType
<1>2. QED  BY <1>1 DEF Notify, TypeOK, CoordType

\* announce_new_stacks_block, announce_new_burn_block and stop_chains_coordinator
LEMMA AnnounceStep ==
  ASSUME CoordinatorInv,
         AnnounceNewStacksBlock \/ AnnounceNewBurnBlock \/ StopChainsCoordinator
  PROVE  CoordinatorInv'
<1>0. TypeOK /\ CoordOK  BY DEF CoordinatorInv
<1>1. PICK bit \in {"stacks", "burn", "stop"} : Notify(bit)
  BY DEF AnnounceNewStacksBlock, AnnounceNewBurnBlock, StopChainsCoordinator
<1>2. UNCHANGED chain
  BY DEF AnnounceNewStacksBlock, AnnounceNewBurnBlock, StopChainsCoordinator
<1>3. announcing' \subseteq {"stacks", "burn"} /\ troubles' \in 0..MaxTroubles
  BY <1>0 DEF AnnounceNewStacksBlock, AnnounceNewBurnBlock, StopChainsCoordinator, TypeOK
<1>4. owed' \in [blocks : SUBSET Blocks, burn : BurnHeights]
  <2>1. owed \in [blocks : SUBSET Blocks, burn : BurnHeights]  BY <1>0 DEF TypeOK
  <2>2. Unprocessed \ headers \subseteq Blocks  BY DEF Unprocessed
  <2>3. downloaded \in BurnHeights  BY <1>0, HeightTypes
  <2>4. CASE AnnounceNewStacksBlock  BY <2>1, <2>2, <2>4 DEF AnnounceNewStacksBlock
  <2>5. CASE AnnounceNewBurnBlock  BY <2>1, <2>3, <2>5 DEF AnnounceNewBurnBlock
  <2>6. CASE StopChainsCoordinator  BY <2>1, <2>6 DEF StopChainsCoordinator
  <2>7. QED  BY <2>4, <2>5, <2>6
<1>5. VolatileType'  BY <1>0, <1>1, <1>3, <1>4, NotifyFacts DEF VolatileType
<1>6. QED  BY <1>0, <1>1, <1>2, <1>5, NotifyFacts, DatabasesUnchanged DEF CoordOK

\* The coordinator begins a handler: it read the bits, or one handler ended and the next
\* bit is served, with or without an error.
LEMMA HandleStep ==
  ASSUME CoordinatorInv, NEW bits \in SUBSET {"stacks", "burn", "stop"},
         coord' = Handle(bits), UNCHANGED chain,
         signal' \subseteq signal, announcing' = announcing,
         owed' \in [blocks : SUBSET Blocks, burn : BurnHeights],
         troubles' \in 0..MaxTroubles
  PROVE  CoordinatorInv'
<1>1. TypeOK  BY DEF CoordinatorInv
<1>2. VolatileType'  BY <1>1, HandleFacts DEF VolatileType, TypeOK
<1>3. QED  BY <1>1, <1>2, HandleFacts, DatabasesUnchanged

\* wait_on and receive_signal
LEMMA WaitStep ==
  ASSUME CoordinatorInv, WaitOn \/ WakeUp \/ WakeSpuriously
  PROVE  CoordinatorInv'
<1>1. TypeOK /\ CoordOK  BY DEF CoordinatorInv
<1>2. /\ UNCHANGED chain /\ UNCHANGED <<announcing, owed, troubles>>
      /\ owed' \in [blocks : SUBSET Blocks, burn : BurnHeights]
      /\ troubles' \in 0..MaxTroubles
  BY <1>1 DEF WaitOn, WakeUp, WakeSpuriously, TypeOK
<1>3. CASE ReceiveSignal
  <2>1. signal \in SUBSET {"stacks", "burn", "stop"}  BY <1>1 DEF TypeOK
  <2>2. QED  BY <1>2, <1>3, <2>1, HandleStep DEF ReceiveSignal
<1>4. CASE coord.pc = "top" /\ coord' = [coord EXCEPT !.pc = "waiting"] /\ signal' = signal
  <2>1. coord \in CoordType  BY <1>1 DEF TypeOK, CoordType
  <2>2. /\ coord' \in CoordType /\ coord'.pc = "waiting"
        /\ coord'.block = coord.block /\ coord'.at = coord.at /\ coord'.goal = coord.goal
    BY <1>4, <2>1 DEF CoordType
  <2>3. VolatileType'  BY <1>1, <1>2, <1>4, <2>2 DEF VolatileType, TypeOK
  <2>4. QED  BY <1>1, <1>2, <2>2, <2>3, DatabasesUnchanged DEF CoordOK
<1>5. QED  BY <1>3, <1>4 DEF WaitOn, WakeUp, WakeSpuriously

\* The ends of the handlers, without and with an error.
LEMMA EndStep ==
  ASSUME CoordinatorInv, EndOfBlocks \/ EndOfSortitions \/ SortitionError
  PROVE  CoordinatorInv'
<1>0. TypeOK /\ CoordOK  BY DEF CoordinatorInv
<1>1. coord \in CoordType /\ owed \in [blocks : SUBSET Blocks, burn : BurnHeights]
  BY <1>0 DEF TypeOK, CoordType
<1>2. coord.bits \in SUBSET {"stacks", "burn", "stop"}  BY <1>1 DEF CoordType
<1>3. 0 \in BurnHeights /\ downloaded \in Nat  BY <1>0, HeightTypes
<1>4. CASE EndOfBlocks
  <2>1. troubles \in 0..MaxTroubles  BY <1>0 DEF TypeOK
  <2>2. QED  BY <1>1, <1>2, <1>4, <2>1, HandleStep DEF EndOfBlocks, EndHandler
<1>5. CASE EndOfSortitions
  <2>1. troubles \in 0..MaxTroubles  BY <1>0 DEF TypeOK
  <2>2. CASE EndHandler
    BY <1>1, <1>2, <1>5, <2>1, <2>2, HandleStep DEF EndOfSortitions, EndHandler
  <2>3. CASE coord' = [coord EXCEPT !.pc = "stacks", !.goal = 0]
    <3>1. /\ coord' \in CoordType /\ coord'.pc = "stacks" /\ coord'.goal = 0
          /\ coord'.block = coord.block /\ coord'.at = coord.at
      BY <1>1, <1>3, <2>3 DEF CoordType
    <3>2. VolatileType'  BY <1>0, <1>5, <3>1 DEF EndOfSortitions, VolatileType, TypeOK
    <3>3. QED
      BY <1>0, <1>3, <1>5, <3>1, <3>2, DatabasesUnchanged DEF EndOfSortitions, CoordOK
  <2>4. QED  BY <1>5, <2>2, <2>3 DEF EndOfSortitions
<1>6. CASE SortitionError
  <2>1. troubles' \in 0..MaxTroubles
    BY <1>0, <1>6, CoordinatorAssumption DEF SortitionError, Trouble, TypeOK
  <2>2. owed' \in [blocks : SUBSET Blocks, burn : BurnHeights]
    BY <1>1, <1>3, <1>6 DEF SortitionError, Nothing
  <2>3. QED  BY <1>2, <1>6, <2>1, <2>2, HandleStep DEF SortitionError, EndHandler
<1>7. QED  BY <1>4, <1>5, <1>6

\* The process is started again; it keeps its databases only.
LEMMA RestartStep ==
  ASSUME CoordinatorInv, Restart
  PROVE  CoordinatorInv'
<1>0. TypeOK  BY DEF CoordinatorInv
<1>1. downloaded \in BurnHeights /\ downloaded \in Nat /\ sortition \in Nat /\ 0 \in BurnHeights
  BY <1>0, HeightTypes
<1>2. coord' = Fresh /\ UNCHANGED chain  BY DEF Restart
<1>3. /\ Fresh \in CoordType /\ Fresh.block = None /\ Fresh.pc = "top"
      /\ Fresh.at = 0 /\ Fresh.goal = 0
  BY <1>1 DEF Fresh, CoordType
<1>4. VolatileType'
  BY <1>0, <1>1, <1>2, <1>3, CoordinatorAssumption DEF Restart, Trouble, TypeOK, VolatileType
<1>5. QED  BY <1>1, <1>2, <1>3, <1>4, DatabasesUnchanged

-----------------------------------------------------------------------------
\* The steps of the databases.

\* accept_block: a block is stored once its burn view is known.
LEMMA AcceptStep ==
  ASSUME CoordinatorInv, NEW b \in Blocks, AcceptBlock(b)
  PROVE  CoordinatorInv'
<1>0. TypeOK /\ ProcessedIsCommitted /\ OrphansAreFounded /\ CoordOK /\ ViewsSeen /\ TipsSeen
  BY DEF CoordinatorInv
<1>1. /\ staging' = [staging EXCEPT ![b] = Row(FALSE, FALSE)]
      /\ staging[b] = None /\ b \notin headers
      /\ Carries(b) => View[b] <= sortition
      /\ UNCHANGED <<signal, coord, headers, tips, sortition, downloaded, owed, troubles>>
      /\ announcing' = announcing \cup {"stacks"}
  BY DEF AcceptBlock
<1>2. staging \in [Blocks -> RowType \cup {None}]  BY <1>0 DEF TypeOK, RowType
<1>3. /\ Row(FALSE, FALSE) \in RowType /\ Row(FALSE, FALSE) # None
      /\ ~Row(FALSE, FALSE).processed /\ ~Row(FALSE, FALSE).orphaned
      /\ Row(TRUE, TRUE) # None
      /\ Row(TRUE, FALSE) # Row(FALSE, FALSE)
  BY RowFacts
<1>4. /\ staging' \in [Blocks -> RowType \cup {None}] /\ staging'[b] = Row(FALSE, FALSE)
      /\ \A c \in Blocks \ {b} : staging'[c] = staging[c]
  BY <1>1, <1>2, <1>3
<1>5. TypeOK'
  <2>1. coord.block # None => coord.block \in Blocks /\ staging'[coord.block] # None
    BY <1>0, <1>3, <1>4 DEF TypeOK
  <2>2. QED  BY <1>0, <1>1, <1>4, <2>1 DEF TypeOK, RowType
<1>6. ProcessedIsCommitted'
  BY <1>0, <1>1, <1>3, <1>4 DEF ProcessedIsCommitted, HasHeader
<1>7. OrphansAreFounded'
  <2> SUFFICES ASSUME NEW c \in Blocks, staging'[c] # None, staging'[c].orphaned
               PROVE  \/ Torn(c)'
                      \/ ~HasHeader(c)' /\ staging'[c].processed
                      \/ Parent[c] # Genesis /\ staging'[Parent[c]] = Row(TRUE, TRUE)
    BY DEF OrphansAreFounded
  <2>1. c # b /\ staging'[c] = staging[c]  BY <1>3, <1>4
  <2>2. Parent[c] # Genesis /\ staging[Parent[c]] = Row(TRUE, TRUE)
          => Parent[c] # b /\ Parent[c] \in Blocks
    BY <1>1, <1>3, CoordinatorAssumption
  <2>3. QED  BY <1>0, <1>1, <1>4, <2>1, <2>2 DEF OrphansAreFounded, Torn, HasHeader
<1>8. CoordOK' /\ TipsSeen'  BY <1>0, <1>1 DEF CoordOK, TipsSeen
<1>9. ViewsSeen'  BY <1>0, <1>1, <1>4 DEF ViewsSeen
<1>10. QED  BY <1>5, <1>6, <1>7, <1>8, <1>9 DEF CoordinatorInv

\* a burn block is downloaded
LEMMA DownloadStep ==
  ASSUME CoordinatorInv, DownloadBurnBlock
  PROVE  CoordinatorInv'
<1>0. TypeOK /\ ProcessedIsCommitted /\ OrphansAreFounded /\ CoordOK /\ ViewsSeen /\ TipsSeen
  BY DEF CoordinatorInv
<1>1. /\ downloaded' = downloaded + 1 /\ downloaded < MaxBurn
      /\ announcing' = announcing \cup {"burn"}
      /\ UNCHANGED <<signal, coord, staging, headers, tips, sortition, owed, troubles>>
  BY DEF DownloadBurnBlock
<1>2. /\ sortition \in Nat /\ downloaded \in Nat /\ FirstBurn \in Nat /\ MaxBurn \in Nat
  BY <1>0, HeightTypes, CoordinatorAssumption
<1>3. downloaded' \in FirstBurn..MaxBurn /\ sortition' \in FirstBurn..downloaded'
  BY <1>0, <1>1, <1>2 DEF TypeOK
<1>4. TypeOK'  BY <1>0, <1>1, <1>3 DEF TypeOK
<1>5. coord.goal \in Nat  BY <1>0 DEF TypeOK, BurnHeights
<1>6. CoordOK'  BY <1>0, <1>1, <1>2, <1>5 DEF CoordOK
<1>7. ProcessedIsCommitted' /\ OrphansAreFounded' /\ ViewsSeen' /\ TipsSeen'
  BY <1>0, <1>1 DEF ProcessedIsCommitted, OrphansAreFounded, ViewsSeen, TipsSeen, HasHeader,
                    Torn
<1>8. QED  BY <1>4, <1>6, <1>7 DEF CoordinatorInv

\* evaluate_sortition: only what was downloaded, and nothing was ahead of it
LEMMA SortitionStep ==
  ASSUME CoordinatorInv, EvaluateSortition
  PROVE  CoordinatorInv'
<1>0. TypeOK /\ ProcessedIsCommitted /\ OrphansAreFounded /\ CoordOK /\ ViewsSeen /\ TipsSeen
  BY DEF CoordinatorInv
<1>1. /\ sortition' = sortition + 1 /\ sortition < coord.goal
      /\ UNCHANGED <<signal, coord, staging, headers, tips, downloaded, announcing, owed,
                     troubles>>
  BY DEF EvaluateSortition
<1>2. /\ sortition \in Nat /\ downloaded \in Nat /\ FirstBurn \in Nat /\ MaxBurn \in Nat
  BY <1>0, HeightTypes, CoordinatorAssumption
<1>3. coord.goal \in Nat /\ coord.at \in Nat  BY <1>0 DEF TypeOK, BurnHeights
<1>4. coord.goal <= downloaded /\ coord.at <= sortition  BY <1>0 DEF CoordOK
<1>5. sortition' \in FirstBurn..downloaded'
  BY <1>0, <1>1, <1>2, <1>3, <1>4 DEF TypeOK
<1>6. TypeOK'  BY <1>0, <1>1, <1>5 DEF TypeOK
<1>7. CoordOK'  BY <1>0, <1>1, <1>2, <1>3, <1>4 DEF CoordOK
<1>8. ProcessedIsCommitted' /\ OrphansAreFounded'
  BY <1>0, <1>1 DEF ProcessedIsCommitted, OrphansAreFounded, HasHeader, Torn
<1>9. ViewsSeen' /\ TipsSeen'
  <2>1. \A b \in Blocks : View[b] \in Nat  BY CoordinatorAssumption DEF BurnHeights
  <2>2. headers \subseteq Blocks  BY <1>0 DEF TypeOK
  <2>3. BurnHeights \subseteq Nat  BY DEF BurnHeights
  <2>4. ViewsSeen'  BY <1>0, <1>1, <1>2, <2>1, <2>2 DEF ViewsSeen
  <2>5. TipsSeen'  BY <1>0, <1>1, <1>2, <2>3 DEF TipsSeen
  <2>6. QED  BY <2>4, <2>5
<1>10. QED  BY <1>6, <1>7, <1>8, <1>9 DEF CoordinatorInv

\* The chain state of a block is committed: its row waited, unmarked, and its parent is
\* chain state.
LEMMA AppendStep ==
  ASSUME CoordinatorInv, NEW b \in Blocks, AppendBlock(b)
  PROVE  CoordinatorInv'
<1>0. TypeOK /\ ProcessedIsCommitted /\ OrphansAreFounded /\ CoordOK /\ ViewsSeen /\ TipsSeen
  BY DEF CoordinatorInv
<1>1. /\ headers' = headers \cup {b} /\ staging' = staging
      /\ coord' = [coord EXCEPT !.pc = "mark", !.block = b]
      /\ owed'  = [owed EXCEPT !.blocks = @ \ {b}]
      /\ UNCHANGED <<signal, tips, sortition, downloaded, announcing, troubles>>
  BY DEF AppendBlock, Commit
<1>2. staging[b] = Row(FALSE, FALSE) /\ HasHeader(Parent[b])
  BY DEF AppendBlock, CanAppend, NextReady, Ready, Unprocessed
<1>3. /\ staging[b] # None /\ ~staging[b].orphaned /\ staging[b] # Row(TRUE, FALSE)
  BY <1>2, RowFacts
<1>4. coord \in CoordType /\ owed \in [blocks : SUBSET Blocks, burn : BurnHeights]
  BY <1>0 DEF TypeOK, CoordType
<1>5. /\ coord' \in CoordType /\ coord'.pc = "mark" /\ coord'.block = b
      /\ coord'.at = coord.at /\ coord'.goal = coord.goal
      /\ owed' \in [blocks : SUBSET Blocks, burn : BurnHeights]
  BY <1>1, <1>4 DEF CoordType
<1>6. TypeOK'
  BY <1>0, <1>1, <1>3, <1>5, CoordinatorAssumption DEF TypeOK, CoordType
<1>7. ProcessedIsCommitted'
  BY <1>0, <1>1, <1>2 DEF ProcessedIsCommitted, HasHeader
<1>8. OrphansAreFounded'
  <2> SUFFICES ASSUME NEW c \in Blocks, staging[c] # None, staging[c].orphaned
               PROVE  \/ Torn(c)'
                      \/ ~HasHeader(c)' /\ staging[c].processed
                      \/ Parent[c] # Genesis /\ staging[Parent[c]] = Row(TRUE, TRUE)
    BY <1>1 DEF OrphansAreFounded
  <2>1. c # b  BY <1>3
  <2>2. QED  BY <1>0, <1>1, <2>1 DEF OrphansAreFounded, Torn, HasHeader
<1>9. CoordOK' /\ TipsSeen'  BY <1>0, <1>1, <1>5 DEF CoordOK, TipsSeen
<1>10. ViewsSeen'
  <2>1. View[b] <= sortition
    <3>1. CASE Carries(b)  BY <1>0, <1>3, <3>1 DEF ViewsSeen
    <3>2. CASE ~Carries(b)
      <4>1. View[b] = View[Parent[b]]  BY <3>2 DEF Carries
      <4>2. View[Genesis] <= sortition  BY <1>0, HeightTypes
      <4>3. QED  BY <1>0, <1>2, <4>1, <4>2 DEF ViewsSeen, HasHeader
    <3>3. QED  BY <3>1, <3>2
  <2>2. QED  BY <1>0, <1>1, <2>1 DEF ViewsSeen
<1>11. QED  BY <1>6, <1>7, <1>8, <1>9, <1>10 DEF CoordinatorInv

\* set_block_orphaned marks rows, and neither makes nor removes one.
LEMMA OrphanFacts ==
  ASSUME TypeOK, NEW b \in Blocks
  PROVE  LET st == SetBlockOrphaned(b)
         IN  /\ st \in [Blocks -> RowType \cup {None}]
             /\ st[b] = Row(TRUE, TRUE)
             /\ \A c \in Blocks \ {b} :
                  /\ st[c] = None <=> staging[c] = None
                  /\ st[c] # None => /\ st[c].processed = staging[c].processed
                                     /\ staging[c].orphaned => st[c] = staging[c]
                  /\ st[c] # staging[c] => Parent[c] = b /\ st[c].orphaned
<1> DEFINE st == SetBlockOrphaned(b)
<1>1. staging \in [Blocks -> RowType \cup {None}]  BY DEF TypeOK, RowType
<1>2. Row(TRUE, TRUE) \in RowType /\ None \notin RowType
  BY RowFacts, CoordinatorAssumption DEF RowType
<1>3. st[b] = Row(TRUE, TRUE)  BY DEF SetBlockOrphaned
<1>4. ASSUME NEW c \in Blocks \ {b}
      PROVE  /\ st[c] \in RowType \cup {None}
             /\ st[c] = None <=> staging[c] = None
             /\ st[c] # None => /\ st[c].processed = staging[c].processed
                                /\ staging[c].orphaned => st[c] = staging[c]
             /\ st[c] # staging[c] => Parent[c] = b /\ st[c].orphaned
  <2>1. CASE Parent[c] = b /\ staging[c] # None
    <3>1. st[c] = [staging[c] EXCEPT !.orphaned = TRUE]  BY <2>1 DEF SetBlockOrphaned
    <3>2. staging[c] \in RowType  BY <1>1, <2>1
    <3>3. QED  BY <1>2, <2>1, <3>1, <3>2, ZenonT(60) DEF RowType
  <2>2. CASE ~(Parent[c] = b /\ staging[c] # None)
    <3>1. st[c] = staging[c]  BY <2>2 DEF SetBlockOrphaned
    <3>2. QED  BY <1>1, <3>1
  <2>3. QED  BY <2>1, <2>2
<1>5. st \in [Blocks -> RowType \cup {None}]
  <2>1. st = [c \in Blocks |-> st[c]]  BY DEF SetBlockOrphaned
  <2>2. \A c \in Blocks : st[c] \in RowType \cup {None}  BY <1>2, <1>3, <1>4
  <2>3. QED  BY <2>1, <2>2
<1>6. QED  BY <1>3, <1>4, <1>5

\* A block that could not be appended is orphaned with its stored children.
LEMMA OrphanStep ==
  ASSUME CoordinatorInv, NEW b \in Blocks,
         AppendInvalid(b) \/ AppendError(b) \/ AppendAgain(b)
  PROVE  CoordinatorInv'
<1>0. TypeOK /\ ProcessedIsCommitted /\ OrphansAreFounded /\ CoordOK /\ ViewsSeen /\ TipsSeen
  BY DEF CoordinatorInv
<1>1. /\ staging' = SetBlockOrphaned(b) /\ coord.pc = "stacks"
      /\ UNCHANGED <<signal, headers, tips, sortition, downloaded, announcing>>
      /\ staging[b] = Row(FALSE, FALSE)
  BY DEF AppendInvalid, AppendError, AppendAgain, CanAppend, NextReady, Ready, Unprocessed
<1>2. /\ staging' \in [Blocks -> RowType \cup {None}]
      /\ staging'[b] = Row(TRUE, TRUE)
      /\ \A c \in Blocks \ {b} :
           /\ staging'[c] = None <=> staging[c] = None
           /\ staging'[c] # None => /\ staging'[c].processed = staging[c].processed
                                    /\ staging[c].orphaned => staging'[c] = staging[c]
           /\ staging'[c] # staging[c] => Parent[c] = b /\ staging'[c].orphaned
  BY <1>0, <1>1, OrphanFacts
<1>3. /\ Row(TRUE, TRUE) # None /\ Row(TRUE, TRUE).orphaned /\ Row(TRUE, TRUE).processed
      /\ ~Row(TRUE, FALSE).orphaned /\ Row(FALSE, FALSE) # None
      /\ ~Row(FALSE, FALSE).processed
  BY RowFacts
<1>4. /\ coord \in CoordType /\ owed \in [blocks : SUBSET Blocks, burn : BurnHeights]
      /\ coord.bits \in SUBSET {"stacks", "burn", "stop"}
  BY <1>0 DEF TypeOK, CoordType
<1>5. /\ owed' \in [blocks : SUBSET Blocks, burn : BurnHeights]
      /\ troubles' \in 0..MaxTroubles
  BY <1>0, <1>4, CoordinatorAssumption
  DEF AppendInvalid, AppendError, AppendAgain, GiveUp, Trouble, TypeOK
<1>6. /\ coord' \in CoordType /\ coord'.block \in {None, coord.block}
      /\ coord'.pc \notin {"mark", "accept"}
      /\ coord'.at <= sortition /\ coord'.goal <= downloaded
  <2>1. CASE coord' = coord  BY <1>0, <1>1, <1>4, <2>1 DEF CoordOK
  <2>2. CASE coord' = Handle(coord.bits)  BY <1>0, <1>4, <2>2, HandleFacts
  <2>3. QED  BY <2>1, <2>2 DEF AppendInvalid, AppendError, AppendAgain, GiveUp, EndHandler
<1>7. TypeOK'
  <2>1. coord'.block # None => staging'[coord'.block] # None
    <3> SUFFICES ASSUME coord'.block # None PROVE staging'[coord'.block] # None
      OBVIOUS
    <3>1. coord'.block = coord.block /\ coord.block \in Blocks
      BY <1>4, <1>6 DEF CoordType
    <3>2. staging[coord.block] # None  BY <1>0, <3>1 DEF TypeOK
    <3>3. CASE coord.block = b  BY <1>2, <1>3, <3>1, <3>3
    <3>4. CASE coord.block # b  BY <1>2, <3>1, <3>2, <3>4
    <3>5. QED  BY <3>3, <3>4
  <2>2. QED
    BY <1>0, <1>1, <1>2, <1>5, <1>6, <2>1, ZenonT(60) DEF TypeOK, RowType, CoordType
<1>8. ProcessedIsCommitted'
  <2>1. \A c \in Blocks : staging'[c] = Row(TRUE, FALSE) => staging[c] = Row(TRUE, FALSE)
    BY <1>2, <1>3
  <2>2. QED  BY <1>0, <1>1, <2>1 DEF ProcessedIsCommitted, HasHeader
<1>9. OrphansAreFounded'
  <2> SUFFICES ASSUME NEW c \in Blocks, staging'[c] # None, staging'[c].orphaned
               PROVE  \/ Torn(c)'
                      \/ ~HasHeader(c)' /\ staging'[c].processed
                      \/ Parent[c] # Genesis /\ staging'[Parent[c]] = Row(TRUE, TRUE)
    BY DEF OrphansAreFounded
  <2>1. CASE c = b
    <3>1. b # Genesis  BY CoordinatorAssumption
    <3>2. QED  BY <1>1, <1>2, <1>3, <2>1, <3>1 DEF Torn, HasHeader
  <2>2. CASE c # b /\ staging'[c] # staging[c]
    <3>1. Parent[c] = b /\ b # Genesis  BY <1>2, <2>2, CoordinatorAssumption
    <3>2. QED  BY <1>2, <3>1
  <2>3. CASE c # b /\ staging'[c] = staging[c]
    <3>1. Parent[c] # Genesis => Parent[c] \in Blocks  BY CoordinatorAssumption
    <3>2. Parent[c] # Genesis /\ staging[Parent[c]] = Row(TRUE, TRUE)
            => staging'[Parent[c]] = Row(TRUE, TRUE)
      BY <1>2, <1>3, <3>1
    <3>3. QED  BY <1>0, <1>1, <2>3, <3>2 DEF OrphansAreFounded, Torn, HasHeader
  <2>4. QED  BY <2>1, <2>2, <2>3
<1>10. CoordOK' /\ TipsSeen'  BY <1>0, <1>1, <1>6 DEF CoordOK, TipsSeen
<1>11. ViewsSeen'  BY <1>0, <1>1, <1>2, <1>3 DEF ViewsSeen
<1>12. QED  BY <1>7, <1>8, <1>9, <1>10, <1>11 DEF CoordinatorInv

\* infallible_set_block_processed: the row of a block whose chain state is committed
LEMMA ProcessedStep ==
  ASSUME CoordinatorInv, SetBlockProcessed
  PROVE  CoordinatorInv'
<1>0. TypeOK /\ ProcessedIsCommitted /\ OrphansAreFounded /\ CoordOK /\ ViewsSeen /\ TipsSeen
  BY DEF CoordinatorInv
<1> DEFINE b == coord.block
<1>1. b \in Blocks /\ b \in headers /\ staging[b] # None
  <2>1. b # None /\ b \in headers  BY <1>0 DEF SetBlockProcessed, TypeOK, CoordOK
  <2>2. QED  BY <1>0, <2>1 DEF TypeOK
<1>2. staging \in [Blocks -> RowType \cup {None}]  BY <1>0 DEF TypeOK, RowType
<1>3. staging[b] \in RowType  BY <1>1, <1>2
<1> DEFINE o == staging[b].orphaned
<1>4. o \in BOOLEAN /\ Row(TRUE, o) \in RowType /\ Row(TRUE, o) # None
      /\ Row(TRUE, o).orphaned = o /\ ~Row(TRUE, FALSE).orphaned /\ Row(TRUE, TRUE).orphaned
  BY <1>3, RowFacts DEF RowType
<1>5. /\ staging' = [staging EXCEPT ![b] = Row(TRUE, o)]
      /\ coord' = [coord EXCEPT !.pc = "accept"]
      /\ UNCHANGED <<signal, headers, tips, sortition, downloaded, announcing, owed, troubles>>
  BY DEF SetBlockProcessed
<1>6. /\ staging' \in [Blocks -> RowType \cup {None}] /\ staging'[b] = Row(TRUE, o)
      /\ \A c \in Blocks \ {b} : staging'[c] = staging[c]
  BY <1>1, <1>2, <1>4, <1>5
<1>7. coord \in CoordType  BY <1>0 DEF TypeOK, CoordType
<1>8. /\ coord' \in CoordType /\ coord'.pc = "accept" /\ coord'.block = b
      /\ coord'.at = coord.at /\ coord'.goal = coord.goal
  BY <1>5, <1>7 DEF CoordType
<1> HIDE DEF b, o
<1>9. TypeOK'
  <2>1. b # None  BY <1>1, CoordinatorAssumption
  <2>2. QED  BY <1>0, <1>4, <1>5, <1>6, <1>8, <2>1 DEF TypeOK, RowType, CoordType
<1>10. ProcessedIsCommitted'
  BY <1>0, <1>1, <1>5, <1>6 DEF ProcessedIsCommitted, HasHeader
<1>11. OrphansAreFounded'
  <2> SUFFICES ASSUME NEW c \in Blocks, staging'[c] # None, staging'[c].orphaned
               PROVE  \/ Torn(c)'
                      \/ ~HasHeader(c)' /\ staging'[c].processed
                      \/ Parent[c] # Genesis /\ staging'[Parent[c]] = Row(TRUE, TRUE)
    BY DEF OrphansAreFounded
  <2>1. CASE c = b
    BY <1>1, <1>4, <1>5, <1>6, <2>1 DEF Torn
  <2>2. CASE c # b
    <3>1. Parent[c] # Genesis => Parent[c] \in Blocks  BY CoordinatorAssumption
    <3>2. staging[b] = Row(TRUE, TRUE) => Row(TRUE, o) = Row(TRUE, TRUE)
      BY <1>4 DEF o
    <3>3. Parent[c] # Genesis /\ staging[Parent[c]] = Row(TRUE, TRUE)
            => staging'[Parent[c]] = Row(TRUE, TRUE)
      BY <1>6, <3>1, <3>2
    <3>4. QED  BY <1>0, <1>5, <1>6, <2>2, <3>3 DEF OrphansAreFounded, Torn, HasHeader
  <2>3. QED  BY <2>1, <2>2
<1>12. CoordOK' /\ TipsSeen'  BY <1>0, <1>1, <1>5, <1>8 DEF CoordOK, TipsSeen
<1>13. ViewsSeen'  BY <1>0, <1>1, <1>5, <1>6 DEF ViewsSeen
<1>14. QED  BY <1>9, <1>10, <1>11, <1>12, <1>13 DEF CoordinatorInv

\* set_stacks_block_accepted: the new tip is chain state of a sortition we know.
LEMMA AcceptedStep ==
  ASSUME CoordinatorInv, SetStacksBlockAccepted
  PROVE  CoordinatorInv'
<1>0. TypeOK /\ ProcessedIsCommitted /\ OrphansAreFounded /\ CoordOK /\ ViewsSeen /\ TipsSeen
  BY DEF CoordinatorInv
<1> DEFINE b == coord.block
<1>1. b \in Blocks /\ b \in headers
  BY <1>0 DEF SetStacksBlockAccepted, TypeOK, CoordOK
<1>2. /\ tips' = tips \/ tips' = [tips EXCEPT ![View[b]] = b]
      /\ \/ coord' = [coord EXCEPT !.pc = "anchor", !.block = None, !.goal = downloaded]
         \/ coord' = [coord EXCEPT !.pc = "stacks", !.block = None]
      /\ UNCHANGED <<signal, staging, headers, sortition, downloaded, announcing, owed, troubles>>
  BY DEF SetStacksBlockAccepted
<1>3. coord \in CoordType /\ downloaded \in BurnHeights /\ downloaded \in Nat
  BY <1>0, HeightTypes DEF TypeOK, CoordType
<1>4. /\ coord' \in CoordType /\ coord'.pc \notin {"mark", "accept"} /\ coord'.block = None
      /\ coord'.at = coord.at /\ coord'.goal \in {coord.goal, downloaded}
  BY <1>2, <1>3 DEF CoordType
<1>5. View[b] \in BurnHeights /\ b # None  BY <1>1, CoordinatorAssumption
<1> HIDE DEF b
<1>6. /\ tips' \in [BurnHeights -> Blocks \cup {Genesis, None}]
      /\ \A h \in BurnHeights : tips'[h] = tips[h] \/ (h = View[b] /\ tips'[h] = b)
  BY <1>0, <1>1, <1>2, <1>5 DEF TypeOK
<1>7. TypeOK'  BY <1>0, <1>2, <1>4, <1>6 DEF TypeOK, CoordType
<1>8. ProcessedIsCommitted' /\ OrphansAreFounded'
  <2>1. HasHeader(b)  BY <1>1 DEF HasHeader
  <2>2. QED
    BY <1>0, <1>2, <1>6, <2>1 DEF ProcessedIsCommitted, OrphansAreFounded, HasHeader, Torn
<1>9. CoordOK'  BY <1>0, <1>2, <1>3, <1>4 DEF CoordOK
<1>10. ViewsSeen'  BY <1>0, <1>2 DEF ViewsSeen
<1>11. TipsSeen'
  <2>1. View[b] <= sortition  BY <1>0, <1>1 DEF ViewsSeen
  <2>2. View[Genesis] \in BurnHeights  BY CoordinatorAssumption
  <2>3. QED  BY <1>0, <1>2, <1>5, <1>6, <2>1, <2>2 DEF TipsSeen
<1>12. QED  BY <1>7, <1>8, <1>9, <1>10, <1>11 DEF CoordinatorInv

-----------------------------------------------------------------------------
\* The invariant, and what it implies.

LEMMA CoordinatorInvInit == Init => CoordinatorInv
<1> SUFFICES ASSUME Init PROVE CoordinatorInv
  OBVIOUS
<1>1. /\ FirstBurn \in BurnHeights /\ MaxBurn \in Nat /\ MaxTroubles \in Nat
      /\ View[Genesis] \in BurnHeights /\ View[Genesis] <= FirstBurn
      /\ Genesis # None /\ FirstBurn \in 0..MaxBurn /\ 0 \in BurnHeights
  BY CoordinatorAssumption DEF BurnHeights
<1>2. /\ Fresh \in CoordType /\ Fresh.block = None /\ Fresh.pc = "top"
      /\ Fresh.at = 0 /\ Fresh.goal = 0
  BY <1>1 DEF Fresh, CoordType
<1>3. TypeOK
  <2>1. owed \in [blocks : SUBSET Blocks, burn : BurnHeights]  BY <1>1 DEF Init, Nothing
  <2>2. tips \in [BurnHeights -> Blocks \cup {Genesis, None}]  BY DEF Init
  <2>3. QED  BY <1>1, <1>2, <2>1, <2>2 DEF Init, TypeOK, CoordType
<1>4. ProcessedIsCommitted /\ OrphansAreFounded
  <2>1. Row(TRUE, FALSE) # None  BY RowFacts
  <2>2. \A h \in BurnHeights : tips[h] # None => tips[h] = Genesis  BY DEF Init
  <2>3. QED  BY <2>1, <2>2 DEF Init, ProcessedIsCommitted, OrphansAreFounded, HasHeader
<1>5. CoordOK  BY <1>1, <1>2 DEF Init, CoordOK, BurnHeights
<1>6. ViewsSeen  BY DEF Init, ViewsSeen
<1>7. TipsSeen  BY <1>1 DEF Init, TipsSeen
<1>8. QED  BY <1>3, <1>4, <1>5, <1>6, <1>7 DEF CoordinatorInv

LEMMA CoordinatorInvNext == CoordinatorInv /\ [Next]_vars => CoordinatorInv'
<1> SUFFICES ASSUME CoordinatorInv, [Next]_vars PROVE CoordinatorInv'
  OBVIOUS
<1>1. CASE UNCHANGED vars
  <2>1. UNCHANGED chain /\ coord' = coord  BY <1>1 DEF vars, chain
  <2>2. VolatileType'
    BY <1>1 DEF vars, CoordinatorInv, TypeOK, VolatileType, CoordType
  <2>3. coord.at <= sortition /\ coord.goal <= downloaded  BY DEF CoordinatorInv, CoordOK
  <2>4. QED  BY <2>1, <2>2, <2>3, DatabasesUnchanged
<1>2. CASE Next
  BY <1>2, AcceptStep, DownloadStep, AnnounceStep, WaitStep, EndStep, AppendStep, OrphanStep,
     ProcessedStep, AcceptedStep, SortitionStep, RestartStep
  DEF Next, Coordinator
<1>3. QED  BY <1>1, <1>2

\* The coordinator's databases and what it holds in memory fit together in every state.
THEOREM CoordinatorInvariant == Spec => []CoordinatorInv
  BY CoordinatorInvInit, CoordinatorInvNext, PTL DEF Spec

\* The thread keeps its types, does not go beyond what was downloaded, and holds a block
\* only while it has a row.
THEOREM CoordinatorTypeOK == Spec => []TypeOK
<1>1. CoordinatorInv => TypeOK  BY DEF CoordinatorInv
<1>2. QED  BY <1>1, CoordinatorInvariant, PTL

\* A processed row is chain state whose ancestors are chain state, though the two are
\* written in different transactions and the process may end in between.
THEOREM ProcessedBlocksAreCommitted == Spec => []ProcessedIsCommitted
<1>1. CoordinatorInv => ProcessedIsCommitted  BY DEF CoordinatorInv
<1>2. QED  BY <1>1, CoordinatorInvariant, PTL

\* set_block_orphaned never marks a row without one of the reasons it may have.
THEOREM OrphansHaveACause == Spec => []OrphansAreFounded
<1>1. CoordinatorInv => OrphansAreFounded  BY DEF CoordinatorInv
<1>2. QED  BY <1>1, CoordinatorInvariant, PTL

-----------------------------------------------------------------------------
\* The canonical tip.

\* A bounded set of numbers has a largest member, and Max is it.
LEMMA MaxFacts ==
  ASSUME NEW n \in Nat, NEW T, T \subseteq 0..n, T # {}
  PROVE  Max(T) \in T /\ \A u \in T : u <= Max(T)
<1> DEFINE R == OpToRel(<, Nat)
           C == {n - t : t \in T}
<1>1. C \subseteq Nat /\ C # {}
  <2>1. \A t \in T : n - t \in Nat  OBVIOUS
  <2>2. PICK t \in T : TRUE  OBVIOUS
  <2>3. n - t \in C  OBVIOUS
  <2>4. QED  BY <2>1, <2>3
<1>2. PICK c \in C : \A d \in C : ~(<<d, c>> \in R)
  BY <1>1, NatLessThanWellFounded, WFMin
<1>3. \A d \in C : ~(d < c)  BY <1>1, <1>2 DEF OpToRel
<1>4. PICK t \in T : c = n - t  OBVIOUS
<1>5. \A u \in T : t >= u
  <2> TAKE u \in T
  <2>1. n - u \in C  OBVIOUS
  <2>2. ~(n - u < n - t)  BY <1>3, <1>4, <2>1
  <2>3. QED  BY <2>2
<1>6. Max(T) \in T /\ \A u \in T : Max(T) >= u  BY <1>4, <1>5 DEF Max
<1>7. QED  BY <1>6

\* the burn views that have a tip
TipViews == {v \in 0..sortition : tips[v] # None}

\* There always is a canonical tip, a block or the root.
LEMMA TipFacts ==
  CoordinatorInv =>
    /\ Max(TipViews) \in TipViews /\ TipViews \subseteq BurnHeights
    /\ \A v \in TipViews : v <= Max(TipViews)
    /\ CanonicalTip(sortition) = tips[Max(TipViews)]
    /\ CanonicalTip(sortition) \in Blocks \cup {Genesis}
<1> SUFFICES ASSUME CoordinatorInv
             PROVE  /\ Max(TipViews) \in TipViews /\ TipViews \subseteq BurnHeights
                    /\ \A v \in TipViews : v <= Max(TipViews)
                    /\ CanonicalTip(sortition) = tips[Max(TipViews)]
                    /\ CanonicalTip(sortition) \in Blocks \cup {Genesis}
  OBVIOUS
<1>0. TypeOK /\ TipsSeen  BY DEF CoordinatorInv
<1>1. /\ sortition \in BurnHeights /\ sortition \in Nat
      /\ View[Genesis] \in BurnHeights /\ View[Genesis] <= sortition
  BY <1>0, HeightTypes
<1>2. View[Genesis] \in TipViews  BY <1>0, <1>1 DEF TipViews, TipsSeen, BurnHeights
<1>3. TipViews \subseteq 0..sortition /\ TipViews # {}  BY <1>2 DEF TipViews
<1>4. Max(TipViews) \in TipViews /\ \A v \in TipViews : v <= Max(TipViews)
  BY <1>1, <1>3, MaxFacts
<1>5. TipViews \subseteq BurnHeights  BY <1>1, <1>3, CoordinatorAssumption DEF BurnHeights
<1>6. CanonicalTip(sortition) = tips[Max(TipViews)]  BY DEF CanonicalTip, TipViews
<1>7. tips[Max(TipViews)] \in Blocks \cup {Genesis}
  BY <1>0, <1>4, <1>5 DEF TypeOK, TipViews
<1>8. QED  BY <1>4, <1>5, <1>6, <1>7

\* What the two steps that touch the tip do to it.
LEMMA TipStep ==
  ASSUME CoordinatorInv, CoordinatorInv', [Next]_vars
  PROVE  TipHeight' < TipHeight => coord.pc = "accept" /\ coord.at < sortition
<1> DEFINE t == CanonicalTip(sortition)
           m == Max(TipViews)
           n == Max(TipViews')
<1>0. TypeOK /\ TypeOK' /\ TipsSeen /\ CoordOK /\ ViewsSeen
  BY DEF CoordinatorInv
<1>1. /\ m \in TipViews /\ TipViews \subseteq BurnHeights /\ \A v \in TipViews : v <= m
      /\ t = tips[m] /\ t \in Blocks \cup {Genesis}
  BY TipFacts
<1>2. /\ n \in TipViews' /\ TipViews' \subseteq BurnHeights /\ \A v \in TipViews' : v <= n
      /\ TipHeight' = Height[tips'[n]]
  <2>1. (/\ Max(TipViews) \in TipViews /\ TipViews \subseteq BurnHeights
         /\ \A v \in TipViews : v <= Max(TipViews)
         /\ CanonicalTip(sortition) = tips[Max(TipViews)]
         /\ CanonicalTip(sortition) \in Blocks \cup {Genesis})'
    BY TipFacts, PTL
  <2>2. QED  BY <2>1 DEF TipHeight
<1>3. TipHeight = Height[t] /\ Height[t] \in Nat
  BY <1>1, CoordinatorAssumption DEF TipHeight
<1>4. CASE UNCHANGED <<tips, sortition>>
  <2>1. TipViews' = TipViews  BY <1>4 DEF TipViews
  <2>2. QED  BY <1>1, <1>2, <1>3, <1>4, <2>1
<1>5. CASE EvaluateSortition
  <2>1. sortition' = sortition + 1 /\ tips' = tips  BY <1>5 DEF EvaluateSortition
  <2>2. sortition \in Nat /\ sortition' \in BurnHeights
    <3>1. downloaded' \in FirstBurn..MaxBurn /\ sortition' \in FirstBurn..downloaded'
      BY <1>0 DEF TypeOK
    <3>2. FirstBurn \in Nat /\ sortition \in Nat  BY <1>0, HeightTypes
    <3>3. QED  BY <3>1, <3>2, CoordinatorAssumption DEF BurnHeights
  <2>3. tips[sortition'] = None  BY <1>0, <2>1, <2>2 DEF TipsSeen
  <2>4. TipViews' = TipViews  BY <2>1, <2>2, <2>3 DEF TipViews
  <2>5. QED  BY <1>1, <1>2, <1>3, <2>1, <2>4
<1>6. CASE SetStacksBlockAccepted /\ coord.at = sortition
  <2> DEFINE b == coord.block
  <2>1. b \in headers /\ b \in Blocks /\ sortition' = sortition
    BY <1>0, <1>6 DEF SetStacksBlockAccepted, CoordOK, TypeOK
  <2>2. tips' = IF WillReplace(b, t) THEN [tips EXCEPT ![View[b]] = b] ELSE tips
    BY <1>6 DEF SetStacksBlockAccepted
  <2>3. View[b] <= sortition /\ View[b] \in BurnHeights /\ Height[b] \in Nat /\ b # None
    BY <1>0, <2>1, CoordinatorAssumption DEF ViewsSeen
  <2> HIDE DEF b, t, m, n
  <2>4. CASE ~WillReplace(b, t)  BY <1>4, <2>1, <2>2, <2>4
  <2>5. CASE WillReplace(b, t)
    <3>1. Height[b] >= Height[t]  BY <1>3, <2>3, <2>5 DEF WillReplace
    <3>2. /\ tips'[View[b]] = b
          /\ \A h \in BurnHeights : h # View[b] => tips'[h] = tips[h]
      BY <1>0, <2>2, <2>3, <2>5 DEF TypeOK
    <3>3. TipViews' = TipViews \cup {View[b]}
      <4>1. 0..sortition \subseteq BurnHeights
        <5>1. sortition \in BurnHeights  BY <1>0, HeightTypes
        <5>2. QED  BY <5>1, CoordinatorAssumption DEF BurnHeights
      <4>2. View[b] \in 0..sortition  BY <2>3 DEF BurnHeights
      <4>3. QED  BY <2>1, <2>3, <3>2, <4>1, <4>2 DEF TipViews
    <3>4. m \in Nat /\ n \in Nat /\ View[b] \in Nat
      BY <1>1, <1>2, <2>3 DEF BurnHeights
    <3>5. CASE n = View[b]  BY <1>2, <1>3, <2>3, <3>1, <3>2, <3>5
    <3>6. CASE n # View[b]
      <4>1. n \in TipViews /\ n <= m /\ m <= n  BY <1>1, <1>2, <3>3, <3>6
      <4>2. n = m  BY <3>4, <4>1
      <4>3. QED  BY <1>1, <1>2, <1>3, <3>2, <3>6, <4>2
    <3>7. QED  BY <3>5, <3>6
  <2>6. QED  BY <2>4, <2>5
<1>7. CASE SetStacksBlockAccepted /\ coord.at # sortition
  <2>1. coord.at \in Nat /\ sortition \in Nat /\ coord.at <= sortition
    BY <1>0, HeightTypes DEF TypeOK, CoordOK, BurnHeights
  <2>2. QED  BY <1>7, <2>1 DEF SetStacksBlockAccepted
<1>8. SetStacksBlockAccepted \/ EvaluateSortition \/ UNCHANGED <<tips, sortition>>
  BY DEF Next, Coordinator, vars, chain, AcceptBlock, DownloadBurnBlock,
         AnnounceNewStacksBlock, AnnounceNewBurnBlock, StopChainsCoordinator, WaitOn, WakeUp,
         WakeSpuriously, EndOfBlocks, AppendBlock, AppendInvalid, AppendError, AppendAgain,
         SetBlockProcessed, EndOfSortitions, SortitionError, Restart
<1>9. QED  BY <1>4, <1>5, <1>6, <1>7, <1>8

\* Blocks of lower height replace the canonical tip only through the comparison with a
\* sortition tip that was taken before sortitions were processed.
THEOREM TipFallsOnlyBehindStaleView == Spec => TipFallsOnlyWhenStale
<1>1. CoordinatorInv /\ CoordinatorInv' /\ [Next]_vars =>
        [TipHeight' < TipHeight => coord.pc = "accept" /\ coord.at < sortition]_vars
  BY TipStep
<1>2. QED  BY <1>1, CoordinatorInvariant, PTL DEF Spec, TipFallsOnlyWhenStale
=============================================================================
