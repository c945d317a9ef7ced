------------------------------ MODULE SignerV0 ------------------------------
(***************************************************************************)
(* The voting of the v0 signers (stacks-signer/src/v0/signer.rs).          *)
(*                                                                         *)
(* A miner proposes a block to every signer.  A signer checks it against   *)
(* its view and database, has its node validate it, announces a pre-commit *)
(* and, once pre-commits of 70% of the weight are known and no conflicting *)
(* signature stands in the way, signs it.  Signatures of 70% make the      *)
(* block acceptable to every node.                                         *)
(*                                                                         *)
(* Each Honest signer runs the code; the others may send any vote at any   *)
(* time.  One action is one pass of process_event: the housekeeping before *)
(* the event, the whole handler, the housekeeping after it.  A handler is  *)
(* an operator from the signer's record (and its node's) to its new record.*)
(*                                                                         *)
(* Time is a choice: a validation times out in a pass of its own (Tick) or *)
(* while a proposal is handled; the endorsement of a block ages in Expire. *)
(* Messages are never consumed: they may be lost, duplicated and reordered.*)
(***************************************************************************)
EXTENDS SignerDb

CONSTANTS
  Reorgs,    \* pairs <<t, u>>: the sortition of u would reorg tenure t
  PeerVotes, \* the kinds of vote arbitrary signers send (bounds a run)
  Events     \* the events of the environment that a run includes

\* check_parent_tenure_choice names the reorging tenure and skips the tenure
\* it builds on.
ASSUME ReorgsAssumption ==
  /\ Reorgs \subseteq Tenures \X Tenures
  /\ \A p \in Reorgs :
       p[1] # p[2]
         /\ \A b \in Blocks : Tenure[b] = p[1] => PrevTenure[b] # p[2]

Votes == {"pc", "sig", "rej"}

VARIABLES
  signer,   \* signer[s]: database and memory of s, and what it has sent
  node,     \* node[s]: the stacks-node s asks
  excused   \* history: excused[s] has <<c, b>> once the code may let a
            \* signature of s over c no longer stand in the way of b

vars == <<signer, node, excused>>

\* slot: submitted_block_proposal; queue: block_validations_pending; asked:
\* what the node was ever asked to validate (late answers included); posted:
\* blocks this signer assembled and handed to its node.
InitSigner ==
  [row        |-> [b \in Blocks |-> Unseen],
   preCommits |-> [b \in Blocks |-> {}],
   signatures |-> [b \in Blocks |-> {}],
   rejections |-> [b \in Blocks |-> [v \in Signers |-> "none"]],
   parked     |-> [k \in Votes |-> [v \in Signers |-> <<>>]],
   permits    |-> [t \in Tenures |-> None],
   slot       |-> None, queue   |-> <<>>,  asked   |-> {}, posted  |-> {},
   miner      |-> None, retired |-> FALSE,
   sentPc     |-> {},   sentSig |-> {},    sentRej |-> {}]

\* chain: the canonical fork among the processed blocks; orphaned: tenures
\* whose sortition is not on the node's burnchain.
InitNode == [processed |-> {}, chain |-> {}, orphaned |-> {}]

-----------------------------------------------------------------------------
\* Questions to the node.  A handler is given e.up, the calls that succeed;
\* the calls of one kind made in one pass succeed or fail together.

Calls == {"check", "recheck", "sortition", "tip"}

\* get_tenure_tip; {} is a 404.
TenureTip(n, t) ==
  {c \in n.chain : /\ Tenure[c] = t
                   /\ \A x \in n.chain : Tenure[x] = t => Height[x] <= Height[c]}

\* The tip of tenure t is at or above the height.
TipReaches(n, t, height) == \E x \in n.chain : Tenure[x] = t /\ Height[x] >= height

\* The row get_last_signed_block returns; e.tie is the database's choice among
\* rows of equal height.
LastSignedRow(d, t, excluded, e) ==
  LET tops == LastSigned(d.row, t, excluded)
  IN  IF e.tie \in tops THEN e.tie ELSE CHOOSE x \in tops : TRUE

\* get_tenure_last_block_info finds a recent signed block that b does not top.
VetoedBySigned(d, t, b, excluded, e) ==
  /\ LastSigned(d.row, t, excluded) # {}
  /\ LET last == LastSignedRow(d, t, excluded, e)
     IN  d.row[last].fresh /\ Height[b] <= Height[last]

\* check_latest_block_in_tenure: its answer, and the rows it leaves behind.
ConfirmsLatest(d, n, t, b, excluded, up, e) ==
  /\ ~VetoedBySigned(d, t, b, excluded, e)
  /\ up => ~TipReaches(n, t, Height[b])

SeenAsTip(r) ==
  IF r.state \in {"Unseen", "GloballyAccepted"} THEN r ELSE MarkGloballyAccepted(r)

RowsAfterLatest(d, n, t, b, excluded, up, e) ==
  IF VetoedBySigned(d, t, b, excluded, e) \/ ~up THEN d.row
  ELSE [c \in Blocks |-> IF c \in TenureTip(n, t) THEN SeenAsTip(d.row[c])
                                                  ELSE d.row[c]]

\* check_block_against_signer_db_state, before signing anything: the code of
\* the rejection ("none" if it passes) and the rows it leaves behind.
TenureToConfirm(b) == IF PrevTenure[b] # None THEN PrevTenure[b] ELSE Tenure[b]
ExcludedSelf(b)    == IF PrevTenure[b] # None THEN None ELSE b

\* is_reward_cycle_retired, check_block_not_in_superseded_tenure
Frozen(d, b) ==
  d.retired \/ (d.miner # None /\ d.permits[Tenure[b]] = d.miner)

\* Variant with a fault (the freezes are not asked about).
DbVerdictUnfrozen(d, n, b, up, e) ==
  IF ConfirmsLatest(d, n, TenureToConfirm(b), b, ExcludedSelf(b), up, e)
  THEN "none" ELSE "final"

DbVerdict(d, n, b, up, e) ==
  IF Frozen(d, b) THEN "reconsider"
  ELSE IF ConfirmsLatest(d, n, TenureToConfirm(b), b, ExcludedSelf(b), up, e)
  THEN "none" ELSE "final"

RowsAfterDbCheck(d, n, b, up, e) ==
  IF Frozen(d, b) THEN d.row
  ELSE RowsAfterLatest(d, n, TenureToConfirm(b), b, ExcludedSelf(b), up, e)

-----------------------------------------------------------------------------
\* The conflict guard of handle_block_pre_commit.

\* Variant with a fault (a permit counts for every proposal).
AnyPermitStands(d, n, c, b, e) == d.permits[Tenure[c]] # None

\* reorg_permit_stands for conflict c against proposal b
ReorgPermitStands(d, n, c, b, e) ==
  LET u == d.permits[Tenure[c]]
  IN  /\ u # None
      /\ Tenure[b] = u \/ PrevTenure[b] = u
      /\ "sortition" \in e.up
      /\ u \notin n.orphaned

\* Variant with a fault (an unreachable node clears the conflict).
ConflictFailsOpen(d, n, c, b, e) ==
  /\ {"sortition", "tip"} \subseteq e.up
  /\ Tenure[c] \notin n.orphaned
  /\ \/ TipReaches(n, Tenure[c], Height[c])
     \/ d.row[c].state # "GloballyAccepted" /\ Height[c] <= Height[b]

\* conflict_still_blocks; the tenure's burn block is taken to be saved.
ConflictStillBlocks(d, n, c, b, e) ==
  \/ "sortition" \notin e.up
  \/ /\ Tenure[c] \notin n.orphaned
     /\ \/ "tip" \notin e.up
        \/ TipReaches(n, Tenure[c], Height[c])
        \/ d.row[c].state # "GloballyAccepted" /\ Height[c] <= Height[b]

HeldByConflict(d, n, b, e) ==
  LET conflicts == SignedConflicts(d.row, b)
  IN  \/ \E c \in conflicts : /\ d.row[c].fresh
                              /\ ~ReorgPermitStands(d, n, c, b, e)
                              /\ ConflictStillBlocks(d, n, c, b, e)
      \/ /\ \E c \in conflicts : Tenure[c] = Tenure[b]
         /\ "tip" \in e.up
         /\ TipReaches(n, Tenure[b], Height[b])

-----------------------------------------------------------------------------
\* Votes on a known block.

RejectedBy(d, b) == {v \in Signers : d.rejections[b][v] # "none"}

\* store_and_process_block_rejection
StoreRejection(d, from, b, code) ==
  LET d1 == [d EXCEPT !.rejections[b][from] = code]
  IN  IF from \in d.signatures[b] \/ d.rejections[b][from] = code THEN d
      ELSE IF HasReachedConsensus(d.row[b]) \/ ~BlocksThreshold(RejectedBy(d1, b))
      THEN d1
      ELSE [d1 EXCEPT !.row[b] = MarkGloballyRejected(@)]

\* Variant with a fault (an earlier rejection is kept).
AddSignatureOnly(d, from, b) == [d EXCEPT !.signatures[b] = @ \cup {from}]

\* add_block_signature
AddSignature(d, from, b) ==
  [d EXCEPT !.signatures[b] = @ \cup {from}, !.rejections[b][from] = "none"]

\* Variant with a fault (pre-commits are tallied).
TallyPreCommits(d, b) ==
  IF d.row[b].group \/ ~MeetsThreshold(d.preCommits[b]) THEN d
  ELSE [d EXCEPT !.row[b] = MarkGroupSigned(@), !.posted = @ \cup {b}]

\* store_and_process_block_signature past its pre-commit detour
TallySignatures(d, b) ==
  IF d.row[b].group \/ ~MeetsThreshold(d.signatures[b]) THEN d
  ELSE [d EXCEPT !.row[b] = MarkGroupSigned(@), !.posted = @ \cup {b}]

\* Reject b after validation: r is the row as it was when the handler read it,
\* and is what the handler writes back.
Reject(d, s, b, r, code) ==
  [StoreRejection([d EXCEPT !.row[b] = MarkLocallyRejected(r, code)], s, b, code)
     EXCEPT !.sentRej = @ \cup {<<b, code>>}]

\* Variant with a fault (the row is not written).
StampNotStored(d, b, r) == d

StampSelf(d, b, r) == [d EXCEPT !.row[b] = MarkSelfSigned(r)]

\* handle_block_signature of our own acceptance
TallyOwn(d, s, b) ==
  IF s \in d.signatures[b] THEN AddSignature(d, s, b)
  ELSE TallySignatures(AddSignature(d, s, b), b)

Sign(d, s, b, r) ==
  [TallyOwn(StampSelf(d, b, r), s, b) EXCEPT !.sentSig = @ \cup {b}]

AddPreCommit(d, from, b) == [d EXCEPT !.preCommits[b] = @ \cup {from}]

\* Variants with a fault: a signed block is decided on again; one pre-commit is
\* enough.
MustDecideAgain(d, b) == d.row[b].valid = "yes" /\ MeetsThreshold(d.preCommits[b])
MustDecideEarly(d, b) == ~d.row[b].self /\ d.row[b].valid = "yes"

\* A pre-commit makes us decide on a block that is valid and not yet signed.
MustDecide(d, b) ==
  ~d.row[b].self /\ d.row[b].valid = "yes" /\ MeetsThreshold(d.preCommits[b])

Recheck(d, n, b, e)      == DbVerdict(d, n, b, "recheck" \in e.up, e)
AfterRecheck(d, n, b, e) ==
  [d EXCEPT !.row = RowsAfterDbCheck(d, n, b, "recheck" \in e.up, e)]

MaySign(d, n, b, e) ==
  /\ MustDecide(d, b)
  /\ Recheck(d, n, b, e) = "none"
  /\ ~HeldByConflict(AfterRecheck(d, n, b, e), n, b, e)

\* handle_block_pre_commit for a known block
DecideOnPreCommit(d, n, s, b, e) ==
  LET d1 == AfterRecheck(d, n, b, e)
  IN  IF ~MustDecide(d, b) THEN d
      ELSE IF Recheck(d, n, b, e) # "none"
      THEN Reject(d1, s, b, d.row[b], Recheck(d, n, b, e))
      ELSE IF HeldByConflict(d1, n, b, e) THEN d1
      ELSE Sign(d1, s, b, d.row[b])

Park(d, kind, from, b, code) ==
  [d EXCEPT !.parked[kind][from] = ParkVote(@, b, code)]

HandlePreCommit(d, n, s, from, b, e) ==
  IF d.row[b].state = "Unseen" THEN Park(d, "pc", from, b, "none")
  ELSE DecideOnPreCommit(AddPreCommit(d, from, b), n, s, b, e)

HandleRejection(d, from, b, code) ==
  IF d.row[b].state = "Unseen" THEN Park(d, "rej", from, b, code)
  ELSE StoreRejection(d, from, b, code)

\* A new signature of a peer that never pre-committed counts as its pre-commit,
\* and is not tallied.
HandleSignature(d, n, s, from, b, e) ==
  LET d1 == AddSignature(d, from, b)
  IN  IF d.row[b].state = "Unseen" THEN Park(d, "sig", from, b, "none")
      ELSE IF from \in d.signatures[b] THEN d1
      ELSE IF from # s /\ from \notin d.preCommits[b]
      THEN HandlePreCommit(d1, n, s, from, b, e)
      ELSE TallySignatures(d1, b)

-----------------------------------------------------------------------------
\* Validation by the node.

\* submit_block_for_validation.  "wait": the parent is not processed yet, or
\* the node answers 429; "error": any other failure.
Submit(d, b, answer, requeued) ==
  CASE answer = "ok"    -> [d EXCEPT !.slot = b, !.asked = @ \cup {b}]
    [] answer = "wait"  -> [d EXCEPT !.queue = requeued]
    [] answer = "error" -> d

\* check_pending_block_validations
CheckPending(d, answer) ==
  IF d.slot # None \/ d.queue = <<>> THEN d
  ELSE LET b == Head(d.queue)
           q == Tail(d.queue)
       IN  Submit([d EXCEPT !.queue = q], b, answer, QueueAtFront(q, b))

\* Variant with a fault (the block is given up without a verdict).
ExpireSlotSilently(d) == [d EXCEPT !.slot = None]

\* check_submitted_block_proposal once the timeout has passed.  The rejection
\* is not entered into our own table of rejections.
ExpireSlot(d) ==
  LET b == d.slot
      d1 == [d EXCEPT !.slot = None]
  IN  IF b = None THEN d
      ELSE IF HasReachedConsensus(d.row[b]) THEN d1
      ELSE [d1 EXCEPT !.row[b] = MarkLocallyRejected(@, "reconsider"),
                      !.sentRej = @ \cup {<<b, "reconsider">>}]

FreeSlot(d, b) == [d EXCEPT !.slot = IF @ = b THEN None ELSE @]

\* Variant with a fault (the queue entry stays).
FinishKeepingQueue(d, b, e) == CheckPending(d, e.sub)

\* the tail of handle_block_validate_response
FinishValidation(d, b, e) ==
  CheckPending([d EXCEPT !.queue = DropFromSeq(@, b)], e.sub)

AwaitsVerdict(d, b) == d.row[b].state # "Unseen" /\ d.row[b].valid = "unknown"

\* handle_block_validate_ok
ApproveValidated(d, n, s, b, e) ==
  LET r == d.row[b]
      v == DbVerdict(d, n, b, "check" \in e.up, e)
      d1 == [d EXCEPT !.row = RowsAfterDbCheck(d, n, b, "check" \in e.up, e)]
  IN  IF v # "none" THEN Reject(d1, s, b, r, v)
      ELSE IF r.state = "LocallyRejected" THEN d1
      ELSE HandlePreCommit([d1 EXCEPT !.row[b] = MarkPreCommitted(r),
                                      !.sentPc = @ \cup {b}], n, s, s, b, e)

HandleValidateOk(d, n, s, b, e) ==
  LET d1 == FreeSlot(d, b)
  IN  FinishValidation(IF AwaitsVerdict(d1, b) THEN ApproveValidated(d1, n, s, b, e)
                                               ELSE d1, b, e)

\* handle_block_validate_reject
HandleValidateReject(d, s, b, code, e) ==
  LET d1 == FreeSlot(d, b)
  IN  FinishValidation(IF AwaitsVerdict(d1, b)
                       THEN Reject(d1, s, b, d1.row[b], code) ELSE d1, b, e)

-----------------------------------------------------------------------------
\* A proposal.

\* The verdict of the view on everything that is not in the signer database.
\* "old": ProposalTooOld; "notYet": a reason that is reconsidered; "invalid":
\* one that is not; "extend": a tenure extend refused after the block checks.
Verdicts == {"ok", "old", "notYet", "invalid", "extend"}

\* Variant with a fault (only acceptance by the node settles a block).
OnlyGloballyDecided(d, b) ==
  d.row[b].state # "Unseen" /\ GloballyApprovedAndResponded(d.row[b])

\* Variant with a fault (no rejection is reconsidered).
RejectionStands(d, b) ==
  /\ d.row[b].state # "Unseen"
  /\ \/ GloballyApprovedAndResponded(d.row[b])
     \/ d.row[b].valid # "unknown" \/ InSeq(d.queue, b)

\* should_reevaluate_block answers false: the earlier decision stands.
DecisionStands(d, b) ==
  LET r == d.row[b]
  IN  /\ r.state # "Unseen"
      /\ \/ GloballyApprovedAndResponded(r)
         \/ r.reason # "reconsider" /\ (r.valid # "unknown" \/ InSeq(d.queue, b))

\* What is sent again for a decision that stands.
RepeatDecision(d, n, s, b, e) ==
  LET r == d.row[b]
  IN  IF GloballyApprovedAndResponded(r) \/ r.valid = "unknown" THEN d
      ELSE IF r.valid = "no" THEN [d EXCEPT !.sentRej = @ \cup {<<b, "final">>}]
      ELSE IF r.self THEN [d EXCEPT !.sentSig = @ \cup {b}]
      ELSE IF r.state = "GloballyAccepted" THEN d
      ELSE HandlePreCommit([d EXCEPT !.sentPc = @ \cup {b}], n, s, s, b, e)

RefuseProposal(d, b, code) == [d EXCEPT !.sentRej = @ \cup {<<b, code>>}]

\* drain_pending_block_responses
Drain(d, b) ==
  [d EXCEPT !.parked = [k \in Votes |-> [v \in Signers |-> DropParked(@[k][v], b)]]]

\* check_proposal's checks against the signer database
RowsAfterIntake(d, n, b, e) ==
  RowsAfterLatest(d, n, TenureToConfirm(b), b, None, "check" \in e.up, e)

PassesIntake(d, n, b, e) ==
  /\ ConfirmsLatest(d, n, TenureToConfirm(b), b, None, "check" \in e.up, e)
  /\ PrevTenure[b] # None =>
       LastSigned(RowsAfterIntake(d, n, b, e), Tenure[b], None) = {}

\* process_pending_responses_for_block on the row just stored: the pre-commits,
\* then the rejections, then the signatures, in any order within a kind.  old
\* is the record the votes were parked in.  Nobody decides here: the block is
\* not validated yet.  A parked signature of a voter with no pre-commit counts
\* as its pre-commit and triggers no tally; e.early says whether these come
\* before or after the ones that do.
Replay(d, old, s, b, e) ==
  LET votes(k)  == {v \in Signers : ParkedFor(old.parked[k][v], b) # {}}
      code(v)   == (CHOOSE x \in ParkedFor(old.parked["rej"][v], b) : TRUE)[2]
      counted   == d.preCommits[b] \cup votes("pc")
      tallied   == votes("sig") \cap (counted \cup {s})
      rejected  == votes("rej") \ d.signatures[b]
      afterRej  == [v \in Signers |-> IF v \in rejected THEN code(v)
                                      ELSE d.rejections[b][v]]
      blocked   == /\ rejected # {}
                   /\ BlocksThreshold({v \in Signers : afterRej[v] # "none"})
      reaches   == /\ tallied # {}
                   /\ MeetsThreshold(d.signatures[b] \cup
                                     (IF e.early THEN votes("sig") ELSE tallied))
      row1      == IF blocked THEN MarkGloballyRejected(d.row[b]) ELSE d.row[b]
  IN  [d EXCEPT !.preCommits[b] = counted \cup (votes("sig") \ {s}),
                !.rejections[b] = [v \in Signers |-> IF v \in votes("sig") THEN "none"
                                                     ELSE afterRej[v]],
                !.signatures[b] = @ \cup votes("sig"),
                !.row[b] = IF reaches THEN MarkGroupSigned(row1) ELSE row1,
                !.posted = IF reaches THEN @ \cup {b} ELSE @]

\* The proposal passed: submit or queue it, store a new row over any old one,
\* replay the votes that came before it.
TakeUp(d, old, s, b, late, e) ==
  LET d1 == IF late THEN ExpireSlot(d) ELSE d
      d2 == IF d1.slot = None THEN Submit(d1, b, e.sub, QueueAtEnd(d1.queue, b))
            ELSE [d1 EXCEPT !.queue = QueueAtEnd(@, b)]
      d3 == [d2 EXCEPT !.row[b] = FreshRow]
  IN  IF old.row[b].state = "Unseen" THEN Replay(d3, old, s, b, e) ELSE d3

\* A refused proposal is answered and not stored.  Its drained votes are gone.
Evaluate(d, n, s, b, view, late, e) ==
  LET d1 == IF d.row[b].state = "Unseen" THEN Drain(d, b) ELSE d
      d2 == [d1 EXCEPT !.row = RowsAfterIntake(d1, n, b, e)]
  IN  CASE d.retired          -> RefuseProposal(d, b, "reconsider")
        [] ~d.retired /\ view = "old"     -> RefuseProposal(d, b, "final")
        [] ~d.retired /\ view = "notYet"  -> RefuseProposal(d1, b, "reconsider")
        [] ~d.retired /\ view = "invalid" -> RefuseProposal(d1, b, "final")
        [] ~d.retired /\ view \in {"ok", "extend"} ->
             IF ~PassesIntake(d1, n, b, e) THEN RefuseProposal(d2, b, "final")
             ELSE IF view = "extend" THEN RefuseProposal(d2, b, "reconsider")
             ELSE TakeUp(d2, d, s, b, late, e)

\* handle_block_proposal
HandleProposal(d, n, s, b, view, late, e) ==
  IF DecisionStands(d, b) THEN RepeatDecision(d, n, s, b, e)
  ELSE Evaluate(d, n, s, b, view, late, e)

\* SignerEvent::NewBlock
HandleNewBlock(d, b) == [d EXCEPT !.row[b] = SeenAsTip(@)]

-----------------------------------------------------------------------------
\* A new burn block.

\* get_globally_accepted_block_count_in_tenure > 1: the span of their heights
ManyGloballyAccepted(d, t) ==
  \E b, c \in Blocks : /\ Tenure[b] = t /\ d.row[b].state = "GloballyAccepted"
                       /\ Tenure[c] = t /\ d.row[c].state = "GloballyAccepted"
                       /\ Height[b] < Height[c]

\* check_parent_tenure_choice lets u reorg t (the timing is a free choice).
MayPermit(d, n, t, u) ==
  /\ <<t, u>> \in Reorgs
  /\ ~ManyGloballyAccepted(d, t)
  /\ \/ TenureTip(n, t) = {}
     \/ \E b \in Blocks : /\ Tenure[b] = t
                          /\ d.row[b].self \/ d.row[b].group \/ d.row[b].approved

\* SignerEvent::NewBurnBlock: prune old permits, then settle the miner of the
\* new sortition.  reorged are the tenures u is permitted to reorg.  With both
\* sets empty this is any other change of the active miner or of the sortitions
\* seen (handle_pending_update, capitulate_viewpoint).
HandleNewBurnBlock(d, u, reorged, pruned, miner, retired) ==
  [d EXCEPT !.permits = [t \in Tenures |-> IF t \in reorged THEN u
                                           ELSE IF t \in pruned THEN None
                                           ELSE @[t]],
            !.miner = miner,
            !.retired = retired]

-----------------------------------------------------------------------------
\* The passes of process_event.

Outcomes == {"ok"} \cup (Events \cap {"wait", "error"})

Siblings(b, c) == b # c /\ Height[b] = Height[c]

\* The answers one pass gets from the node and the database.
Answers(s, orders) ==
  [up    : IF "down" \in Events THEN SUBSET Calls ELSE {Calls},
   tie   : IF \E b, c \in Blocks : Siblings(b, c) /\ Tenure[b] = Tenure[c]
           THEN Blocks ELSE {None},
   pre   : IF signer[s].slot = None /\ signer[s].queue # <<>> THEN Outcomes
           ELSE {"ok"},
   sub   : Outcomes,
   early : orders]

\* The housekeeping before and after the handler of an event.
Before(s, e) == CheckPending(signer[s], e.pre)

Finish(s, d, e) ==
  /\ signer' = [signer EXCEPT ![s] = CheckPending(d, e.sub)]
  /\ UNCHANGED <<node, excused>>

Sent(from, kind, b, code) ==
  IF from \in Honest
  THEN CASE kind = "pc"  -> b \in signer[from].sentPc
         [] kind = "sig" -> b \in signer[from].sentSig
         [] kind = "rej" -> <<b, code>> \in signer[from].sentRej
  ELSE kind \in PeerVotes

ReceiveProposal(s, b, view, late) ==
  /\ late => "timeout" \in Events /\ signer[s].slot # None
  /\ view # "ok" => "views" \in Events
  /\ \E e \in Answers(s, BOOLEAN) :
       Finish(s, HandleProposal(Before(s, e), node[s], s, b, view, late, e), e)

ReceivePreCommit(s, from, b) ==
  /\ Sent(from, "pc", b, "none")
  /\ \E e \in Answers(s, {TRUE}) :
       Finish(s, HandlePreCommit(Before(s, e), node[s], s, from, b, e), e)

ReceiveSignature(s, from, b) ==
  /\ Sent(from, "sig", b, "none")
  /\ \E e \in Answers(s, {TRUE}) :
       Finish(s, HandleSignature(Before(s, e), node[s], s, from, b, e), e)

ReceiveRejection(s, from, b, code) ==
  /\ Sent(from, "rej", b, code)
  /\ \E e \in Answers(s, {TRUE}) :
       Finish(s, HandleRejection(Before(s, e), from, b, code), e)

\* The node can only validate a block whose parent it has processed.
ReceiveValidateOk(s, b) ==
  /\ b \in signer[s].asked
  /\ Parent[b] \in node[s].processed \cup {None}
  /\ \E e \in Answers(s, {TRUE}) :
       Finish(s, HandleValidateOk(Before(s, e), node[s], s, b, e), e)

ReceiveValidateReject(s, b, code) ==
  /\ "invalid" \in Events
  /\ b \in signer[s].asked
  /\ \E e \in Answers(s, {TRUE}) :
       Finish(s, HandleValidateReject(Before(s, e), s, b, code, e), e)

\* The event may come long after the block was processed.
ReceiveNewBlock(s, b) ==
  /\ b \in node[s].processed
  /\ \E e \in Answers(s, {TRUE}) : Finish(s, HandleNewBlock(Before(s, e), b), e)

\* A pass without an event, in which the validation timeout may have passed.
Tick(s, late) ==
  /\ late => "timeout" \in Events /\ signer[s].slot # None
  /\ \E answer \in Outcomes :
       signer' = [signer EXCEPT ![s] = CheckPending(IF late THEN ExpireSlot(@) ELSE @,
                                                    answer)]
  /\ UNCHANGED <<node, excused>>

\* The blocks whose signed siblings b a permit of t to u may excuse.
BranchOf(u) == {b \in Blocks : Tenure[b] = u \/ PrevTenure[b] = u}

ReceiveNewBurnBlock(s, u, reorged, pruned, miner, retired) ==
  /\ "burn" \in Events
  /\ retired => "retire" \in Events
  /\ pruned # {} => "prune" \in Events
  /\ \A t \in reorged : MayPermit(signer[s], node[s], t, u)
  /\ \E e \in Answers(s, {TRUE}) :
       signer' = [signer EXCEPT ![s] = CheckPending(
                    HandleNewBurnBlock(Before(s, e), u, reorged, pruned, miner, retired),
                    e.sub)]
  /\ excused' = [excused EXCEPT ![s] =
       @ \cup {c \in Blocks : Tenure[c] \in reorged} \X BranchOf(u)]
  /\ UNCHANGED node

\* What is lost with the process: the slot and the state machine.
Reboot(d) == [d EXCEPT !.slot = None, !.miner = None]

Restart(s) ==
  /\ "crash" \in Events
  /\ signer' = [signer EXCEPT ![s] = Reboot(@)]
  /\ UNCHANGED <<node, excused>>

\* The process dies after the row says signed_self, before the signature is
\* sent; stored says whether it was entered into the table of signatures.
CrashWhileSigning(s, from, b, stored) ==
  /\ "crash" \in Events
  /\ Sent(from, "pc", b, "none")
  /\ \E e \in Answers(s, {TRUE}) :
       LET d  == AddPreCommit(Before(s, e), from, b)
           d1 == StampSelf(AfterRecheck(d, node[s], b, e), b, d.row[b])
       IN  /\ d.row[b].state # "Unseen"
           /\ MaySign(d, node[s], b, e)
           /\ signer' = [signer EXCEPT ![s] =
                Reboot(IF stored THEN AddSignature(d1, s, b) ELSE d1)]
  /\ UNCHANGED <<node, excused>>

-----------------------------------------------------------------------------
\* Time and the stacks-node of each signer.

\* tenure_last_block_proposal_timeout passes since b was last endorsed.
Expire(s, b) ==
  /\ "expire" \in Events
  /\ signer[s].row[b].fresh
  /\ signer' = [signer EXCEPT ![s].row[b].fresh = FALSE]
  /\ excused' = [excused EXCEPT ![s] = @ \cup ({b} \X Blocks)]
  /\ UNCHANGED node

\* Blocks the node shows to be dead: processed but off its canonical fork, or
\* in a tenure without a canonical sortition.
Dead(n) == (n.processed \ n.chain) \cup {b \in Blocks : Tenure[b] \in n.orphaned}

NodeBecomes(s, n) ==
  /\ node' = [node EXCEPT ![s] = n]
  /\ excused' = [excused EXCEPT ![s] = @ \cup (Dead(n) \X Blocks)]
  /\ UNCHANGED signer

Minters(b) == {h \in Honest : b \in signer[h].sentSig}

\* b and its ancestors among the blocks P
BranchTo(b, P) ==
  {x \in P : \A C \in SUBSET P :
     b \in C /\ (\A c \in C : Parent[c] \in C \cup {None}) => x \in C}

\* The canonical chains the node may have once it processed b: a higher block
\* takes over; at equal height the block of a later sortition does (the order of
\* sortitions is left open), and within a tenure the first one stays.
ChainsAfter(n, b) ==
  {C \in {n.chain, BranchTo(b, n.processed \cup {b})} :
     /\ b \in C => /\ Tenure[b] \notin n.orphaned
                   /\ \A x \in n.chain : \/ Height[x] < Height[b]
                                         \/ Height[x] = Height[b] /\ Tenure[x] # Tenure[b]
     /\ b \notin C => \/ Tenure[b] \in n.orphaned
                      \/ \E x \in n.chain : Height[x] >= Height[b]}

\* A block with signatures of 70% reaches the node, by whatever route.
NodeProcess(s, b) ==
  LET n == node[s]
  IN  /\ b \notin n.processed
      /\ Parent[b] \in n.processed \cup {None}
      /\ MeetsThreshold(Minters(b) \cup Faulty)
      /\ \E C \in ChainsAfter(n, b) :
           NodeBecomes(s, [n EXCEPT !.processed = @ \cup {b}, !.chain = C])

\* The burnchain forks: the tenures T are orphaned, and the canonical chain is
\* the one the new fork had come to, which may be shorter.
NodeFork(s, T, C) ==
  LET n == node[s]
  IN  /\ "fork" \in Events
      /\ \A c \in C : Tenure[c] \notin T /\ Parent[c] \in C \cup {None}
      /\ \A c, x \in C : ~Siblings(c, x)
      /\ NodeBecomes(s, [n EXCEPT !.orphaned = T, !.chain = C])

-----------------------------------------------------------------------------
Init ==
  /\ signer  = [s \in Honest |-> InitSigner]
  /\ node    = [s \in Honest |-> InitNode]
  /\ excused = [s \in Honest |-> {}]

Step(s) ==
  \/ \E b \in Blocks, view \in Verdicts, late \in BOOLEAN :
       ReceiveProposal(s, b, view, late)
  \/ \E from \in Signers, b \in Blocks : ReceivePreCommit(s, from, b)
  \/ \E from \in Signers, b \in Blocks : ReceiveSignature(s, from, b)
  \/ \E from \in Signers, b \in Blocks, code \in Codes :
       ReceiveRejection(s, from, b, code)
  \/ \E b \in Blocks : ReceiveValidateOk(s, b)
  \/ \E b \in Blocks, code \in Codes : ReceiveValidateReject(s, b, code)
  \/ \E b \in Blocks : ReceiveNewBlock(s, b)
  \/ \E late \in BOOLEAN : Tick(s, late)
  \/ \E u \in Tenures, reorged \in SUBSET Tenures, pruned \in SUBSET Tenures,
        miner \in Tenures \cup {None}, retired \in BOOLEAN :
       ReceiveNewBurnBlock(s, u, reorged, pruned, miner, retired)
  \/ Restart(s)
  \/ \E from \in Signers, b \in Blocks, stored \in BOOLEAN :
       CrashWhileSigning(s, from, b, stored)
  \/ \E b \in Blocks : Expire(s, b)
  \/ \E b \in Blocks : NodeProcess(s, b)
  \/ \E T \in SUBSET Tenures, C \in SUBSET node[s].processed : NodeFork(s, T, C)

Next == \E s \in Honest : Step(s)

Spec == Init /\ [][Next]_vars
=============================================================================
