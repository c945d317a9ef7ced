---------------------------- MODULE SignerSafety ----------------------------
(***************************************************************************)
(* What the v0 signers promise: the properties of module SignerV0.         *)
(***************************************************************************)
EXTENDS SignerV0

-----------------------------------------------------------------------------
\* The type of a signer's record and of its node.
SignerType ==
  [row        : [Blocks -> Rows],
   preCommits : [Blocks -> SUBSET Signers],
   signatures : [Blocks -> SUBSET Signers],
   rejections : [Blocks -> [Signers -> Codes \cup {"none"}]],
   parked     : [Votes -> [Signers -> Seq(Blocks \X (Codes \cup {"none"}))]],
   permits    : [Tenures -> Tenures \cup {None}],
   slot       : Blocks \cup {None},
   queue      : Seq(Blocks),
   asked      : SUBSET Blocks,
   posted     : SUBSET Blocks,
   miner      : Tenures \cup {None},
   retired    : BOOLEAN,
   sentPc     : SUBSET Blocks,
   sentSig    : SUBSET Blocks,
   sentRej    : SUBSET (Blocks \X Codes)]

NodeType == [processed : SUBSET Blocks, chain : SUBSET Blocks,
             orphaned : SUBSET Tenures]

TypeOK ==
  /\ signer  \in [Honest -> SignerType]
  /\ node    \in [Honest -> NodeType]
  /\ excused \in [Honest -> SUBSET (Blocks \X Blocks)]

\* The blocks stamped signed_self.
Self(d) == {b \in Blocks : d.row[b].self}
Signed(s) == Self(signer[s])

\* A signer never holds signatures over two blocks of one height unless, since
\* it signed the first, the endorsement went stale, the node showed the block
\* to be dead, or a reorg of its tenure was permitted to the second's branch
\* (get_signed_conflicts, conflict_still_blocks, reorg_permit_stands).
NoDoubleSign ==
  \A s \in Honest : \A b, c \in Signed(s) :
    Siblings(b, c) => <<b, c>> \in excused[s] \/ <<c, b>> \in excused[s]

\* A signature that was sent is on record, whatever crash came in between: the
\* row is written before the signature leaves (insert_block before
\* send_block_response in handle_block_pre_commit).
SentSignatureIsRecorded == \A s \in Honest : signer[s].sentSig \subseteq Signed(s)

\* A signature needs pre-commits of 70% of the weight: those of honest signers
\* were really sent, however the messages were lost, repeated or reordered, and
\* however often rows were reset.
SignatureNeedsPreCommits ==
  \A s \in Honest : \A b \in Signed(s) :
    MeetsThreshold({h \in Honest : b \in signer[h].sentPc} \cup Faulty)

\* A block is marked GloballyAccepted only if our node really processed it
\* (NewBlock event, or seen as a tenure tip).
AcceptedOnEvidence ==
  \A s \in Honest, b \in Blocks :
    signer[s].row[b].state = "GloballyAccepted" => b \in node[s].processed

\* The validator slot and the queue only hold blocks that are stored and have
\* no verdict in favour yet: "This should never happen" in
\* check_pending_block_validations, and no second verdict over a signature.
ValidatingIsUndecided ==
  \A s \in Honest, b \in Blocks :
    signer[s].slot = b \/ InSeq(signer[s].queue, b) =>
      signer[s].row[b].state # "Unseen" /\ signer[s].row[b].valid # "yes"

\* Nobody is counted on both sides of a block (add_block_signature,
\* add_block_rejection_signer_addr).
OneVotePerSigner ==
  \A s \in Honest, b \in Blocks :
    signer[s].signatures[b] \cap RejectedBy(signer[s], b) = {}

\* A block this signer assembled carries signatures of 70%, and those of honest
\* signers were really given.
PostedHasQuorum ==
  \A s \in Honest : \A b \in signer[s].posted :
    MeetsThreshold({h \in Honest : b \in Signed(h)} \cup Faulty)

\* Once signed, a block is never again rejected by the same signer: not by a
\* late validation, a timeout, a retirement or a re-proposal.
NeverContradictsSignature ==
  [][\A s \in Honest, b \in Blocks, code \in Codes :
       b \in Signed(s) /\ <<b, code>> \in signer'[s].sentRej
         => <<b, code>> \in signer[s].sentRej]_vars

\* A retired signer set, and a tenure whose reorg was permitted to the active
\* miner, get no first signature (is_reward_cycle_retired,
\* check_block_not_in_superseded_tenure), by whatever path it would come.
FrozenSignsNothing ==
  [][\A s \in Honest, b \in Blocks :
       Frozen(signer[s], b) /\ b \notin Signed(s) => ~signer'[s].row[b].self]_vars

-----------------------------------------------------------------------------
\* The inductive invariant, in parts: d is a signer's record, n its node, x its
\* excuses.  W are the blocks that slot and queue are consistent for: all of them,
\* but in the middle of a validation all the others.

RowOK(r, b, n, x) ==
  /\ r.self => r.valid = "yes" /\ r.state # "Unseen"
  /\ r.reason # "none" => r.valid = "no"
  /\ r.self /\ ~r.fresh => \A c \in Blocks : <<b, c>> \in x
  /\ r.state = "GloballyAccepted" => b \in n.processed

QueueOK(d, W) ==
  /\ NoRepeats(d.queue)
  /\ d.slot \in W \cup {None}
  /\ \A b \in W : d.slot = b \/ InSeq(d.queue, b) =>
       d.row[b].state # "Unseen" /\ d.row[b].valid # "yes"

PermitsOK(d, x) ==
  \A b, c \in Blocks :
    d.permits[Tenure[c]] # None /\ b \in BranchOf(d.permits[Tenure[c]]) => <<c, b>> \in x

SignerOK(d, n, x, W) ==
  /\ d \in SignerType
  /\ \A b \in Blocks : RowOK(d.row[b], b, n, x)
  /\ QueueOK(d, W)
  /\ PermitsOK(d, x)
  /\ d.sentSig \subseteq Self(d)

NodeOK(n, x) ==
  /\ n \in NodeType
  /\ n.chain \subseteq n.processed
  /\ \A b \in Dead(n), c \in Blocks : <<b, c>> \in x

\* Whatever a handler may leave half done, at the end of every pass a stamp of
\* signed_self sits on a validated row that is not being validated again, what
\* could let the stamp be ignored is on record, and the sent signatures are
\* among the stamps.
SignerInv ==
  /\ TypeOK
  /\ \A s \in Honest : /\ SignerOK(signer[s], node[s], excused[s], Blocks)
                        /\ NodeOK(node[s], excused[s])

-----------------------------------------------------------------------------
\* The signers implement the abstract voting of module QuorumVoting: every
\* stamp of signed_self is one Sign, every history step one Excuse, and nothing
\* ever takes a stamp back.
Voting == INSTANCE QuorumVoting WITH signed <- [s \in Honest |-> Signed(s)]

ImplementsVoting == Voting!Spec

\* Two blocks of one height both get signatures of 70% only if an honest signer
\* signed both and was excused.
Agreement == Voting!Agreement

-----------------------------------------------------------------------------
\* Liveness.  The run loop keeps calling process_event, with or without an
\* event, and a validation that is not answered times out.
PassesGoOn ==
  \A s \in Honest : WF_vars(Tick(s, TRUE)) /\ WF_vars(Tick(s, FALSE))

FairSpec == Spec /\ PassesGoOn

\* A stored block gets our verdict or the signer set's, whatever is proposed
\* again in the meantime: it never sits between slot and queue for good.
StoredGetsVerdict ==
  \A s \in Honest, b \in Blocks :
    AwaitsVerdict(signer[s], b) ~>
      (~AwaitsVerdict(signer[s], b) \/ HasReachedConsensus(signer[s].row[b]))

\* The miner repeats its proposal, the StackerDB keeps serving the votes of
\* honest signers, and the nodes answer and pass on what is complete.
Delivery ==
  \A s \in Honest, b \in Blocks :
    /\ WF_vars(ReceiveProposal(s, b, "ok", FALSE))
    /\ \A from \in Honest : /\ WF_vars(ReceivePreCommit(s, from, b))
                            /\ WF_vars(ReceiveSignature(s, from, b))
    /\ WF_vars(ReceiveValidateOk(s, b))
    /\ WF_vars(NodeProcess(s, b))
    /\ WF_vars(ReceiveNewBlock(s, b))

DeliverySpec == Spec /\ Delivery

\* From some time on no validation takes longer than the timeout.
TimeoutsCease ==
  <>[][\A s \in Honest : /\ ~Tick(s, TRUE)
                         /\ \A b \in Blocks : ~ReceiveProposal(s, b, "ok", TRUE)]_vars

\* Without competing proposals, honest signers of 70% get every proposed block
\* accepted once validations are timely: in whatever order the messages arrive,
\* whatever timeout made a signer reject the block before, and wherever its process
\* died (the slot is in memory only, and a signature may be stored and not sent).
ProposalsAreAccepted ==
  TimeoutsCease =>
    \A s \in Honest, b \in Blocks :
      <>[](signer[s].row[b].state = "GloballyAccepted")
=============================================================================
