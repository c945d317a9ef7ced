------------------------------ MODULE SignerDb ------------------------------
(***************************************************************************)
(* The part of a v0 signer's database that decides how it votes            *)
(* (stacks-signer/src/signerdb.rs): one row per proposed block, the state  *)
(* machine of a row, the queries the handlers ask, and the tables of votes *)
(* received from the signer set.                                           *)
(*                                                                         *)
(* Everything here is a constant-level operator on database values; the    *)
(* handlers that read and write them are the actions of module SignerV0.   *)
(*                                                                         *)
(* What is abstracted: a block is an opaque value with a height, a tenure  *)
(* and a parent; a timestamp is kept as "set or not", and the comparison   *)
(* of the latest endorsement with tenure_last_block_proposal_timeout as    *)
(* one flag, `fresh'; a RejectReason is the class it belongs to, whether a *)
(* re-proposal is reconsidered or not.  validation_time_ms and the         *)
(* activity times only feed timeouts outside this model.                   *)
(***************************************************************************)
EXTENDS SignerWeights, Sequences

CONSTANTS
  Honest,       \* the signers that run this code; the rest are arbitrary
  Blocks,       \* the blocks a miner may propose
  Tenures,      \* the tenures (consensus hashes) they belong to
  Height,       \* Height[b]: chain_length of the block
  Tenure,       \* Tenure[b]: consensus_hash of the block
  PrevTenure,   \* PrevTenure[b]: prev_tenure_consensus_hash of a tenure
                \* change block, None for any other block
  Parent,       \* Parent[b]: parent block, None if it is settled history
  PendingLimit, \* parked votes kept per voter and kind (3 in the schema)
  None

ASSUME HonestAssumption == Honest \subseteq Signers

ASSUME BlocksAssumption ==
  /\ Height \in [Blocks -> Nat]
  /\ Tenure \in [Blocks -> Tenures]
  /\ PrevTenure \in [Blocks -> Tenures \cup {None}]
  /\ Parent \in [Blocks -> Blocks \cup {None}]
  /\ None \notin Blocks \cup Tenures
  /\ PendingLimit \in Nat \ {0}

-----------------------------------------------------------------------------
Faulty == Signers \ Honest

\* Two quorums share more weight than the arbitrary signers hold.
FewFaulty == 2 * VotingWeightThreshold > TotalWeight + WeightOf(Faulty)

-----------------------------------------------------------------------------
\* The row of a block.

BlockStates == {"Unprocessed", "PreCommitted", "LocallyAccepted",
                "LocallyRejected", "GloballyAccepted", "GloballyRejected"}

\* "reconsider": should_reevaluate_reason holds of the reason.
Codes == {"reconsider", "final"}

Rows == [state  : BlockStates \cup {"Unseen"},
         valid  : {"unknown", "yes", "no"},
         approved : BOOLEAN,          \* approved_time is set
         self   : BOOLEAN,            \* signed_self is set
         group  : BOOLEAN,            \* signed_group is set
         fresh  : BOOLEAN,            \* the later of the two is recent
         reason : Codes \cup {"none"}]

\* No row is stored for the block.
Unseen == [state |-> "Unseen", valid |-> "unknown",
           approved |-> FALSE, self |-> FALSE,
           group |-> FALSE, fresh |-> FALSE, reason |-> "none"]

\* BlockInfo::from(BlockProposal)
FreshRow == [Unseen EXCEPT !.state = "Unprocessed"]

HasReachedConsensus(r) == r.state \in {"GloballyAccepted", "GloballyRejected"}

GloballyApprovedAndResponded(r) ==
  r.state = "GloballyAccepted" /\ (r.self \/ r.valid = "no")

\* The moves check_state allows.
CheckState(prev, next) ==
  \/ prev = next
  \/ next \in {"LocallyAccepted", "LocallyRejected"}
       /\ prev \notin {"GloballyAccepted", "GloballyRejected"}
  \/ next = "GloballyAccepted"
  \/ next = "GloballyRejected" /\ prev # "GloballyAccepted"
  \/ next = "PreCommitted" /\ prev = "Unprocessed"

\* A refused move leaves the state alone; the fields set before it stay set.
MoveTo(r, next) ==
  [r EXCEPT !.state = IF CheckState(@, next) THEN next ELSE @]

MarkPreCommitted(r) ==
  MoveTo([r EXCEPT !.valid = "yes", !.approved = TRUE], "PreCommitted")

\* Variant with a fault (the endorsement time is not the time of signing).
MarkSelfSignedUndated(r) ==
  MoveTo([r EXCEPT !.valid = "yes", !.approved = TRUE, !.self = TRUE],
         "LocallyAccepted")

\* get_or_insert: only a first stamp moves the endorsement time.
MarkSelfSigned(r) ==
  MoveTo([r EXCEPT !.valid = "yes", !.approved = TRUE, !.self = TRUE,
                   !.fresh = IF r.self THEN @ ELSE TRUE],
         "LocallyAccepted")

\* Variant with a fault (signatures are taken for acceptance by the node).
MarkGroupAccepted(r) ==
  MoveTo([r EXCEPT !.group = TRUE, !.fresh = TRUE], "GloballyAccepted")

MarkGroupSigned(r) ==
  MoveTo([r EXCEPT !.group = TRUE, !.fresh = IF r.group THEN @ ELSE TRUE],
         "LocallyAccepted")

MarkGloballyAccepted(r) ==
  MoveTo([r EXCEPT !.group = TRUE, !.fresh = IF r.group THEN @ ELSE TRUE],
         "GloballyAccepted")

MarkLocallyRejected(r, code) ==
  MoveTo([r EXCEPT !.valid = "no", !.reason = code], "LocallyRejected")

MarkGloballyRejected(r) == MoveTo(r, "GloballyRejected")

-----------------------------------------------------------------------------
\* Queries over the rows of one signer, row \in [Blocks -> Rows].

\* The rows get_last_signed_block ranks: accepted blocks of tenure t, but not
\* the excluded one (excluded = None excludes nothing).
AcceptedInTenure(row, t, excluded) ==
  {b \in Blocks : /\ Tenure[b] = t
                  /\ b # excluded
                  /\ row[b].state \in {"GloballyAccepted", "LocallyAccepted"}}

\* The rows that can come first in ORDER BY stacks_height DESC LIMIT 1: the
\* order of rows of equal height is the database's choice.
LastSigned(row, t, excluded) ==
  LET A == AcceptedInTenure(row, t, excluded)
  IN  {b \in A : \A c \in A : Height[c] <= Height[b]}

\* Every block a signature was put over, ours or the group's, at or above
\* the height of b, in any tenure.
SignedConflicts(row, b) ==
  {c \in Blocks : /\ row[c].self \/ row[c].group
                  /\ Height[c] >= Height[b]
                  /\ c # b}

-----------------------------------------------------------------------------
\* The validation queue (block_validations_pending, oldest first).  The hash is
\* the primary key: inserting a block that is already queued does nothing.

InSeq(q, x) == \E i \in 1..Len(q) : q[i] = x

NoRepeats(q) == \A i, j \in 1..Len(q) : q[i] = q[j] => i = j

\* q without its i-th element
RemoveIndex(q, i) == [k \in 1..(Len(q) - 1) |-> IF k < i THEN q[k] ELSE q[k + 1]]

DropFromSeq(q, x) ==
  IF InSeq(q, x) THEN RemoveIndex(q, CHOOSE i \in 1..Len(q) : q[i] = x) ELSE q

QueueAtEnd(q, b)   == IF InSeq(q, b) THEN q ELSE Append(q, b)
QueueAtFront(q, b) == IF InSeq(q, b) THEN q ELSE <<b>> \o q

\* The parked votes of one voter, oldest first: pairs of a block and, for a
\* rejection, its code.  ParkedFor is the vote for b, if any.
ParkedFor(q, b) == {q[i] : i \in {j \in 1..Len(q) : q[j][1] = b}}

DropParked(q, b) ==
  IF ParkedFor(q, b) = {} THEN q
  ELSE RemoveIndex(q, CHOOSE i \in 1..Len(q) : q[i][1] = b)

\* INSERT OR REPLACE, then the trigger keeps the PendingLimit newest entries.
ParkVote(q, b, code) ==
  LET r == Append(DropParked(q, b), <<b, code>>)
  IN  IF Len(r) > PendingLimit THEN Tail(r) ELSE r
=============================================================================
