---------------------------- MODULE SignerProofs ----------------------------
(***************************************************************************)
(* Proofs about the voting of the signers, for any reward set, any tree of *)
(* blocks and any environment.                                             *)
(*                                                                         *)
(* First come facts about the operators of module SignerDb.  A handler is  *)
(* a chain of operators on a signer's record.  For each link there is a    *)
(* lemma with two conclusions: the record is still good (SignerOK), and    *)
(* what changed is a move that voting allows (Quiet if no block is stamped *)
(* signed_self, Moves if one may be).  The actions then only put the links *)
(* together.  A second lemma for each link says that the votes the signer  *)
(* counts stay in order (VotesKept).                                       *)
(***************************************************************************)
EXTENDS SignerSafety, SignerWeightsProofs, SequenceTheorems

-----------------------------------------------------------------------------
\* Rows.  What a mark keeps: the row stays a row, it is never taken back to
\* Unseen, and only mark_locally_accepted(false) stamps signed_self.

\* move_to changes nothing but the state, and never to Unseen.
LEMMA MoveToFacts ==
  ASSUME NEW r \in Rows, NEW next \in BlockStates
  PROVE  LET m == MoveTo(r, next)
         IN  /\ m \in Rows
             /\ m.state = r.state \/ m.state = next
             /\ m.valid = r.valid /\ m.reason = r.reason
             /\ m.self = r.self /\ m.group = r.group /\ m.fresh = r.fresh
  BY DEF MoveTo, Rows, BlockStates

\* mark_pre_committed
LEMMA MarkPreCommittedFacts ==
  ASSUME NEW r \in Rows
  PROVE  LET m == MarkPreCommitted(r)
         IN  /\ m \in Rows
             /\ m.state = r.state \/ m.state = "PreCommitted"
             /\ m.valid = "yes" /\ m.reason = r.reason
             /\ m.self = r.self /\ m.fresh = r.fresh
<1> DEFINE q == [r EXCEPT !.valid = "yes", !.approved = TRUE]
<1>1. q \in Rows  BY DEF Rows
<1>2. q.state = r.state /\ q.valid = "yes" /\ q.reason = r.reason
      /\ q.self = r.self /\ q.fresh = r.fresh
  BY DEF Rows
<1> HIDE DEF q
<1>3. "PreCommitted" \in BlockStates  BY DEF BlockStates
<1>4. MarkPreCommitted(r) = MoveTo(q, "PreCommitted")  BY DEF MarkPreCommitted, q
<1>5. QED  BY <1>1, <1>2, <1>3, <1>4, MoveToFacts

\* mark_locally_accepted(false): the stamp of signed_self
LEMMA MarkSelfSignedFacts ==
  ASSUME NEW r \in Rows
  PROVE  LET m == MarkSelfSigned(r)
         IN  /\ m \in Rows
             /\ m.state = r.state \/ m.state = "LocallyAccepted"
             /\ m.valid = "yes" /\ m.reason = r.reason
             /\ m.self = TRUE
             /\ r.self = FALSE => m.fresh = TRUE
<1> DEFINE q == [r EXCEPT !.valid = "yes", !.approved = TRUE, !.self = TRUE,
                          !.fresh = IF r.self THEN @ ELSE TRUE]
<1>1. q \in Rows  BY DEF Rows
<1>2. /\ q.state = r.state /\ q.valid = "yes" /\ q.reason = r.reason
      /\ q.self = TRUE /\ (r.self = FALSE => q.fresh = TRUE)
  BY DEF Rows
<1> HIDE DEF q
<1>3. "LocallyAccepted" \in BlockStates  BY DEF BlockStates
<1>4. MarkSelfSigned(r) = MoveTo(q, "LocallyAccepted")  BY DEF MarkSelfSigned, q
<1>5. QED  BY <1>1, <1>2, <1>3, <1>4, MoveToFacts

\* mark_locally_accepted(true) and mark_globally_accepted
LEMMA MarkGroupFacts ==
  ASSUME NEW r \in Rows, NEW next \in {"LocallyAccepted", "GloballyAccepted"}
  PROVE  LET q == [r EXCEPT !.group = TRUE, !.fresh = IF r.group THEN @ ELSE TRUE]
             m == MoveTo(q, next)
         IN  /\ m \in Rows
             /\ m.state = r.state \/ m.state = next
             /\ m.valid = r.valid /\ m.reason = r.reason
             /\ m.self = r.self
             /\ m.fresh = FALSE => r.fresh = FALSE
<1> DEFINE q == [r EXCEPT !.group = TRUE, !.fresh = IF r.group THEN @ ELSE TRUE]
<1>1. q \in Rows  BY DEF Rows
<1>2. /\ q.state = r.state /\ q.valid = r.valid /\ q.reason = r.reason
      /\ q.self = r.self /\ (q.fresh = FALSE => r.fresh = FALSE)
  BY DEF Rows
<1> HIDE DEF q
<1>3. next \in BlockStates  BY DEF BlockStates
<1>4. LET m == MoveTo(q, next)
      IN  /\ m \in Rows
          /\ m.state = r.state \/ m.state = next
          /\ m.valid = r.valid /\ m.reason = r.reason
          /\ m.self = r.self
          /\ m.fresh = FALSE => r.fresh = FALSE
  BY <1>1, <1>2, <1>3, MoveToFacts
<1>5. QED  BY <1>4 DEF q

\* mark_locally_rejected with a reject reason
LEMMA MarkLocallyRejectedFacts ==
  ASSUME NEW r \in Rows, NEW code \in Codes
  PROVE  LET m == MarkLocallyRejected(r, code)
         IN  /\ m \in Rows
             /\ m.state = r.state \/ m.state = "LocallyRejected"
             /\ m.valid = "no" /\ m.self = r.self /\ m.fresh = r.fresh
<1> DEFINE q == [r EXCEPT !.valid = "no", !.reason = code]
<1>1. q \in Rows  BY DEF Rows, Codes
<1>2. q.state = r.state /\ q.valid = "no" /\ q.self = r.self /\ q.fresh = r.fresh
  BY DEF Rows
<1> HIDE DEF q
<1>3. "LocallyRejected" \in BlockStates  BY DEF BlockStates
<1>4. MarkLocallyRejected(r, code) = MoveTo(q, "LocallyRejected")
  BY DEF MarkLocallyRejected, q
<1>5. QED  BY <1>1, <1>2, <1>3, <1>4, MoveToFacts
-----------------------------------------------------------------------------
\* The queue and the parked votes.

\* DELETE of one row: the others keep their order.
LEMMA RemoveIndexFacts ==
  ASSUME NEW S, NEW q \in Seq(S), NEW i \in 1..Len(q)
  PROVE  LET r == RemoveIndex(q, i)
         IN  /\ r \in Seq(S)
             /\ Len(r) = Len(q) - 1
             /\ \A k \in 1..Len(r) : r[k] = IF k < i THEN q[k] ELSE q[k + 1]
<1>1. Len(q) \in Nat /\ Len(q) - 1 \in Nat  BY LenProperties
<1>2. \A k \in 1..(Len(q) - 1) : (IF k < i THEN q[k] ELSE q[k + 1]) \in S
  BY <1>1, ElementOfSeq
<1>3. QED  BY <1>1, <1>2 DEF RemoveIndex

\* remove_pending_block_validation takes the block out and nothing else, because
\* the hash is the primary key of the table.
LEMMA DropFromSeqFacts ==
  ASSUME NEW S, NEW q \in Seq(S), NEW x
  PROVE  LET r == DropFromSeq(q, x)
         IN  /\ r \in Seq(S)
             /\ \A y : InSeq(r, y) => InSeq(q, y)
             /\ NoRepeats(q) => NoRepeats(r) /\ ~InSeq(r, x)
<1>1. CASE ~InSeq(q, x)  BY <1>1 DEF DropFromSeq
<1>2. CASE InSeq(q, x)
  <2> DEFINE i == CHOOSE k \in 1..Len(q) : q[k] = x
             r == RemoveIndex(q, i)
  <2>1. i \in 1..Len(q) /\ q[i] = x  BY <1>2 DEF InSeq
  <2>2. DropFromSeq(q, x) = r  BY <1>2 DEF DropFromSeq
  <2> HIDE DEF i
  <2>3. /\ r \in Seq(S) /\ Len(r) = Len(q) - 1
        /\ \A k \in 1..Len(r) : r[k] = IF k < i THEN q[k] ELSE q[k + 1]
    BY <2>1, RemoveIndexFacts
  <2>4. Len(q) \in Nat  BY LenProperties
  <2> HIDE DEF r
  <2>5. ASSUME NEW y, InSeq(r, y) PROVE InSeq(q, y)
    BY <2>1, <2>3, <2>4, <2>5, SMTT(30) DEF InSeq
  <2>6. ASSUME NoRepeats(q) PROVE NoRepeats(r)
    BY <2>1, <2>3, <2>4, <2>6, SMTT(30) DEF NoRepeats
  <2>7. ASSUME NoRepeats(q) PROVE ~InSeq(r, x)
    BY <2>1, <2>3, <2>4, <2>7, SMTT(30) DEF NoRepeats, InSeq
  <2>8. QED  BY <2>2, <2>3, <2>5, <2>6, <2>7
<1>3. QED  BY <1>1, <1>2

\* insert_pending_block_validation
LEMMA QueueAtEndFacts ==
  ASSUME NEW S, NEW q \in Seq(S), NEW x \in S
  PROVE  LET r == QueueAtEnd(q, x)
         IN  /\ r \in Seq(S)
             /\ \A y : InSeq(r, y) => InSeq(q, y) \/ y = x
             /\ NoRepeats(q) => NoRepeats(r)
<1>1. CASE InSeq(q, x)  BY <1>1 DEF QueueAtEnd
<1>2. CASE ~InSeq(q, x)
  <2> DEFINE r == Append(q, x)
  <2>1. /\ r \in Seq(S) /\ Len(r) = Len(q) + 1 /\ Len(q) \in Nat
        /\ \A i \in 1..Len(q) : r[i] = q[i]
        /\ r[Len(q) + 1] = x
    BY LenProperties
  <2> HIDE DEF r
  <2>2. \A y : InSeq(r, y) => InSeq(q, y) \/ y = x  BY <2>1 DEF InSeq
  <2>3. NoRepeats(q) => NoRepeats(r)  BY <2>1, <1>2 DEF NoRepeats, InSeq
  <2>4. QueueAtEnd(q, x) = r  BY <1>2 DEF QueueAtEnd, r
  <2>5. QED  BY <2>1, <2>2, <2>3, <2>4
<1>3. QED  BY <1>1, <1>2

\* A queue that was popped and got its head back, or not.
LEMMA HeadTailFacts ==
  ASSUME NEW S, NEW q \in Seq(S), q # <<>>
  PROVE  /\ Head(q) \in S /\ Tail(q) \in Seq(S) /\ InSeq(q, Head(q))
         /\ \A y : InSeq(Tail(q), y) => InSeq(q, y)
         /\ NoRepeats(q) => NoRepeats(Tail(q))
<1>1. /\ Head(q) \in S /\ Tail(q) \in Seq(S) /\ Len(Tail(q)) = Len(q) - 1
      /\ \A i \in 1..Len(Tail(q)) : Tail(q)[i] = q[i + 1]
      /\ Head(q) = q[1]
  BY HeadTailProperties
<1>2. Len(q) \in Nat \ {0}  BY EmptySeq
<1> DEFINE r == Tail(q)
<1> HIDE DEF r
<1>3. /\ r \in Seq(S) /\ Len(r) = Len(q) - 1
      /\ \A i \in 1..Len(r) : r[i] = q[i + 1]
  BY <1>1 DEF r
<1>4. InSeq(q, Head(q))  BY <1>1, <1>2 DEF InSeq
<1>5. ASSUME NEW y, InSeq(r, y) PROVE InSeq(q, y)
  BY <1>2, <1>3, <1>5 DEF InSeq
<1>6. NoRepeats(q) => NoRepeats(r)  BY <1>2, <1>3, SMTT(30) DEF NoRepeats
<1>7. QED  BY <1>1, <1>4, <1>5, <1>6 DEF r

\* insert_pending_block_validation in front of the queue
LEMMA QueueAtFrontFacts ==
  ASSUME NEW S, NEW q \in Seq(S), NEW x \in S
  PROVE  LET r == QueueAtFront(q, x)
         IN  /\ r \in Seq(S)
             /\ \A y : InSeq(r, y) => InSeq(q, y) \/ y = x
             /\ NoRepeats(q) => NoRepeats(r)
<1>1. CASE InSeq(q, x)  BY <1>1 DEF QueueAtFront
<1>2. CASE ~InSeq(q, x)
  <2> DEFINE r == <<x>> \o q
  <2>1. <<x>> \in Seq(S) /\ Len(<<x>>) = 1 /\ <<x>>[1] = x  OBVIOUS
  <2>2. /\ r \in Seq(S) /\ Len(r) = Len(q) + 1 /\ Len(q) \in Nat
        /\ \A i \in 1..(Len(q) + 1) : r[i] = IF i <= 1 THEN x ELSE q[i - 1]
    BY <2>1, ConcatProperties, LenProperties
  <2> HIDE DEF r
  <2>3. \A y : InSeq(r, y) => InSeq(q, y) \/ y = x  BY <2>2 DEF InSeq
  <2>4. NoRepeats(q) => NoRepeats(r)
    <3> SUFFICES ASSUME NoRepeats(q), NEW i \in 1..Len(r), NEW j \in 1..Len(r),
                        r[i] = r[j]
                 PROVE  i = j
      BY DEF NoRepeats
    <3>1. CASE i = 1 /\ j # 1  BY <3>1, <2>2, <1>2, SMTT(30) DEF InSeq
    <3>2. CASE i # 1 /\ j = 1  BY <3>2, <2>2, <1>2, SMTT(30) DEF InSeq
    <3>3. CASE i # 1 /\ j # 1
      <4>1. i - 1 \in 1..Len(q) /\ j - 1 \in 1..Len(q) /\ q[i - 1] = q[j - 1]
        BY <3>3, <2>2
      <4>2. i - 1 = j - 1  BY <4>1 DEF NoRepeats
      <4>3. QED  BY <4>2, <2>2
    <3>4. QED  BY <3>1, <3>2, <3>3
  <2>5. QueueAtFront(q, x) = r  BY <1>2 DEF QueueAtFront, r
  <2>6. QED  BY <2>2, <2>3, <2>4, <2>5
<1>3. QED  BY <1>1, <1>2

\* Parking a vote, and draining the vote for a block, keep a voter's list a list.
LEMMA DropParkedFacts ==
  ASSUME NEW S, NEW q \in Seq(S), NEW b
  PROVE  DropParked(q, b) \in Seq(S)
<1>1. CASE ParkedFor(q, b) = {}  BY <1>1 DEF DropParked
<1>2. CASE ParkedFor(q, b) # {}
  <2> DEFINE i == CHOOSE k \in 1..Len(q) : q[k][1] = b
  <2>1. \E k \in 1..Len(q) : q[k][1] = b  BY <1>2 DEF ParkedFor
  <2>2. i \in 1..Len(q)  BY <2>1
  <2> HIDE DEF i
  <2>3. RemoveIndex(q, i) \in Seq(S)  BY <2>2, RemoveIndexFacts
  <2>4. QED  BY <1>2, <2>3 DEF DropParked, i
<1>3. QED  BY <1>1, <1>2

LEMMA ParkVoteFacts ==
  ASSUME NEW S, NEW q \in Seq(S), NEW b, NEW code, <<b, code>> \in S
  PROVE  ParkVote(q, b, code) \in Seq(S)
<1> DEFINE r == Append(DropParked(q, b), <<b, code>>)
<1>1. r \in Seq(S) /\ r # <<>>  BY DropParkedFacts
<1> HIDE DEF r
<1>2. Tail(r) \in Seq(S)  BY <1>1, HeadTailProperties
<1>3. QED  BY <1>1, <1>2 DEF ParkVote, r

-----------------------------------------------------------------------------
\* A signer's record.

\* What is sent about a block that was stamped signed_self is no rejection.
NoContradiction(d, d2) ==
  \A b \in Self(d), code \in Codes :
    <<b, code>> \in d2.sentRej => <<b, code>> \in d.sentRej

\* d2 comes from d within one pass, and no block is stamped.
Quiet(d, d2) ==
  /\ Self(d2) = Self(d)
  /\ NoContradiction(d, d2)
  /\ d2.permits = d.permits /\ d2.miner = d.miner /\ d2.retired = d.retired

\* Every stamped sibling of b may be given up for b.
SiblingsExcused(d, b, x) == \A c \in Self(d) : Siblings(c, b) => <<c, b>> \in x

\* From d to d2 no stamp is lost and at most one block is stamped, which is not
\* frozen and whose stamped siblings are excused.
VotesAllowed(d, d2, x) ==
  /\ Self(d) \subseteq Self(d2)
  /\ \A b \in Self(d2) \ Self(d) :
       /\ Self(d2) = Self(d) \cup {b}
       /\ ~Frozen(d, b)
       /\ SiblingsExcused(d, b, x)
  /\ NoContradiction(d, d2)

\* d2 comes from d within one pass.
Moves(d, d2, x) ==
  /\ VotesAllowed(d, d2, x)
  /\ d2.permits = d.permits /\ d2.miner = d.miner /\ d2.retired = d.retired

\* The fields that decide how a signer votes are the same.
SameCore(d, d2) ==
  /\ d2.row = d.row /\ d2.slot = d.slot /\ d2.queue = d.queue
  /\ d2.permits = d.permits /\ d2.miner = d.miner /\ d2.retired = d.retired
  /\ d2.sentSig = d.sentSig /\ d2.sentRej = d.sentRej

LEMMA QuietIsMove ==
  ASSUME NEW d, NEW d2, NEW x, Quiet(d, d2)
  PROVE  Moves(d, d2, x)
  BY DEF Quiet, Moves, VotesAllowed

LEMMA QuietQuiet ==
  ASSUME NEW d, NEW d1, NEW d2, Quiet(d, d1), Quiet(d1, d2)
  PROVE  Quiet(d, d2)
  BY DEF Quiet, NoContradiction

LEMMA QuietMoves ==
  ASSUME NEW d, NEW d1, NEW d2, NEW x, Quiet(d, d1), Moves(d1, d2, x)
  PROVE  Moves(d, d2, x)
  BY DEF Quiet, Moves, VotesAllowed, NoContradiction, Frozen, SiblingsExcused

LEMMA MovesQuiet ==
  ASSUME NEW d, NEW d1, NEW d2, NEW x, Moves(d, d1, x), Quiet(d1, d2)
  PROVE  Moves(d, d2, x)
  BY DEF Quiet, Moves, VotesAllowed, NoContradiction

\* The votes of others, what was asked, posted and parked decide nothing.
LEMMA SameCoreIsQuiet ==
  ASSUME NEW d, NEW n, NEW x, NEW W, NEW d2 \in SignerType,
         SignerOK(d, n, x, W), SameCore(d, d2)
  PROVE  SignerOK(d2, n, x, W) /\ Quiet(d, d2)
  BY DEF SignerOK, SameCore, QueueOK, PermitsOK, Self, Quiet, NoContradiction

\* Writing one row back.
LEMMA WriteRow ==
  ASSUME NEW d, NEW n, NEW x, NEW W, NEW b \in Blocks, NEW r \in Rows,
         SignerOK(d, n, x, W), RowOK(r, b, n, x), r.self = d.row[b].self,
         b \in W /\ d.row[b].state # "Unseen" /\ d.row[b].valid # "yes"
           => r.state # "Unseen" /\ r.valid # "yes"
  PROVE  LET d2 == [d EXCEPT !.row[b] = r]
         IN  SignerOK(d2, n, x, W) /\ Quiet(d, d2)
<1> DEFINE d2 == [d EXCEPT !.row[b] = r]
<1>1. d \in SignerType  BY DEF SignerOK
<1>2. d2 \in SignerType  BY <1>1 DEF SignerType
<1>3. /\ d2.row = [d.row EXCEPT ![b] = r]
      /\ d2.slot = d.slot /\ d2.queue = d.queue
      /\ d2.permits = d.permits /\ d2.miner = d.miner /\ d2.retired = d.retired
      /\ d2.sentSig = d.sentSig /\ d2.sentRej = d.sentRej
  BY <1>1 DEF SignerType
<1>4. \A c \in Blocks : d2.row[c] = IF c = b THEN r ELSE d.row[c]
  BY <1>1, <1>3 DEF SignerType
<1> HIDE DEF d2
<1>5. Self(d2) = Self(d)  BY <1>4 DEF Self
<1>6. Quiet(d, d2)  BY <1>3, <1>5 DEF Quiet, NoContradiction
<1>7. \A c \in Blocks : RowOK(d2.row[c], c, n, x)  BY <1>4 DEF SignerOK
<1>8. QueueOK(d2, W)
  <2> SUFFICES ASSUME NEW c \in W, d2.slot = c \/ InSeq(d2.queue, c)
               PROVE  d2.row[c].state # "Unseen" /\ d2.row[c].valid # "yes"
    BY <1>3 DEF QueueOK, SignerOK
  <2>1. d.row[c].state # "Unseen" /\ d.row[c].valid # "yes"
    BY <1>3 DEF QueueOK, SignerOK
  <2>2. CASE c = b  BY <2>1, <2>2, <1>4
  <2>3. CASE c # b  BY <2>1, <2>3, <1>1, <1>3 DEF SignerType
  <2>4. QED  BY <2>2, <2>3
<1>9. PermitsOK(d2, x) /\ d2.sentSig \subseteq Self(d2)
  BY <1>3, <1>5 DEF PermitsOK, SignerOK
<1>10. SignerOK(d2, n, x, W)  BY <1>2, <1>7, <1>8, <1>9 DEF SignerOK
<1>11. QED  BY <1>6, <1>10 DEF d2
-----------------------------------------------------------------------------
\* The marks on a row that leave the stamp alone.

\* mark_globally_rejected, mark_locally_accepted(true) and mark_globally_accepted
LEMMA MarksKeepRowOK ==
  ASSUME NEW r \in Rows, NEW b, NEW n, NEW x, RowOK(r, b, n, x),
         NEW m, \/ m = MarkGloballyRejected(r)
                \/ m = MarkGroupSigned(r)
                \/ m = SeenAsTip(r) /\ b \in n.processed
  PROVE  /\ m \in Rows /\ RowOK(m, b, n, x)
         /\ m.self = r.self /\ m.valid = r.valid
         /\ r.state # "Unseen" => m.state # "Unseen"
<1> r.self \in BOOLEAN /\ r.fresh \in BOOLEAN  BY DEF Rows
<1>1. CASE m = MarkGloballyRejected(r)
  <2>1. /\ m \in Rows /\ (m.state = r.state \/ m.state = "GloballyRejected")
        /\ m.valid = r.valid /\ m.reason = r.reason
        /\ m.self = r.self /\ m.fresh = r.fresh
    BY <1>1, MoveToFacts DEF MarkGloballyRejected, BlockStates
  <2>2. QED  BY <2>1 DEF RowOK
<1>2. CASE m = MarkGroupSigned(r)
  <2>1. /\ m \in Rows /\ (m.state = r.state \/ m.state = "LocallyAccepted")
        /\ m.valid = r.valid /\ m.reason = r.reason
        /\ m.self = r.self /\ (m.fresh = FALSE => r.fresh = FALSE)
    BY <1>2, MarkGroupFacts DEF MarkGroupSigned
  <2>2. m.fresh \in BOOLEAN  BY <2>1 DEF Rows
  <2>3. QED  BY <2>1, <2>2 DEF RowOK
<1>3. CASE m = SeenAsTip(r) /\ b \in n.processed
  <2>1. CASE m = r  BY <1>3, <2>1
  <2>2. CASE m = MarkGloballyAccepted(r)
    <3>1. /\ m \in Rows /\ (m.state = r.state \/ m.state = "GloballyAccepted")
          /\ m.valid = r.valid /\ m.reason = r.reason
          /\ m.self = r.self /\ (m.fresh = FALSE => r.fresh = FALSE)
      BY <2>2, MarkGroupFacts DEF MarkGloballyAccepted
    <3>2. m.fresh \in BOOLEAN  BY <3>1 DEF Rows
    <3>3. QED  BY <1>3, <3>1, <3>2 DEF RowOK
  <2>3. QED  BY <1>3, <2>1, <2>2 DEF SeenAsTip
<1>4. QED  BY <1>1, <1>2, <1>3

\* mark_locally_rejected, which only ever meets a row without a stamp
LEMMA RejectKeepsRowOK ==
  ASSUME NEW r \in Rows, NEW b, NEW n, NEW x, NEW code \in Codes, RowOK(r, b, n, x),
         r.self = FALSE
  PROVE  LET m == MarkLocallyRejected(r, code)
         IN  /\ m \in Rows /\ RowOK(m, b, n, x) /\ m.self = FALSE /\ m.valid = "no"
             /\ r.state # "Unseen" => m.state # "Unseen"
  BY MarkLocallyRejectedFacts DEF RowOK

-----------------------------------------------------------------------------
\* Votes.

\* store_and_process_block_rejection
LEMMA StoreRejectionIsQuiet ==
  ASSUME NEW d, NEW n, NEW x, NEW W, SignerOK(d, n, x, W),
         NEW from \in Signers, NEW b \in Blocks, NEW code \in Codes
  PROVE  LET d2 == StoreRejection(d, from, b, code)
         IN  /\ SignerOK(d2, n, x, W) /\ Quiet(d, d2)
             /\ d2.sentRej = d.sentRej /\ d2.sentSig = d.sentSig
<1> DEFINE d1 == [d EXCEPT !.rejections[b][from] = code]
           d2 == [d1 EXCEPT !.row[b] = MarkGloballyRejected(@)]
<1>1. d \in SignerType  BY DEF SignerOK
<1>2. d1 \in SignerType  BY <1>1 DEF SignerType, Codes
<1>3. SameCore(d, d1)  BY <1>1 DEF SignerType, SameCore
<1>4. SignerOK(d1, n, x, W) /\ Quiet(d, d1)  BY <1>2, <1>3, SameCoreIsQuiet
<1>5. d1.row[b] \in Rows /\ RowOK(d1.row[b], b, n, x)
  BY <1>2, <1>4 DEF SignerType, SignerOK
<1>6. d1.sentRej = d.sentRej /\ d1.sentSig = d.sentSig  BY <1>3 DEF SameCore
<1> HIDE DEF d1
<1> DEFINE m == MarkGloballyRejected(d1.row[b])
<1>7. /\ m \in Rows /\ RowOK(m, b, n, x) /\ m.self = d1.row[b].self
      /\ m.valid = d1.row[b].valid
      /\ d1.row[b].state # "Unseen" => m.state # "Unseen"
  BY <1>5, MarksKeepRowOK
<1>8. d2 = [d1 EXCEPT !.row[b] = m]  OBVIOUS
<1> HIDE DEF m
<1>9. SignerOK(d2, n, x, W) /\ Quiet(d1, d2)  BY <1>4, <1>7, <1>8, WriteRow
<1>10. Quiet(d, d2)  BY <1>4, <1>9, QuietQuiet
<1>11. d2.sentRej = d1.sentRej /\ d2.sentSig = d1.sentSig
  BY <1>2, <1>8 DEF SignerType
<1> HIDE DEF d2
<1>12. Quiet(d, d)  BY DEF Quiet, NoContradiction
<1>13. StoreRejection(d, from, b, code) \in {d, d1, d2}
  BY DEF StoreRejection, d1, d2
<1>14. QED  BY <1>4, <1>6, <1>9, <1>10, <1>11, <1>12, <1>13

\* add_block_signature
LEMMA AddSignatureIsQuiet ==
  ASSUME NEW d, NEW n, NEW x, NEW W, SignerOK(d, n, x, W),
         NEW from \in Signers, NEW b \in Blocks
  PROVE  LET d2 == AddSignature(d, from, b)
         IN  SignerOK(d2, n, x, W) /\ Quiet(d, d2) /\ SameCore(d, d2)
<1> DEFINE d2 == AddSignature(d, from, b)
<1>1. d \in SignerType  BY DEF SignerOK
<1>2. d2 \in SignerType  BY <1>1 DEF SignerType, AddSignature
<1>3. SameCore(d, d2)
  <2>1. d2.row = d.row /\ d2.slot = d.slot  BY <1>1 DEF SignerType, AddSignature
  <2>2. d2.queue = d.queue /\ d2.permits = d.permits  BY <1>1 DEF SignerType, AddSignature
  <2>3. d2.miner = d.miner /\ d2.retired = d.retired  BY <1>1 DEF SignerType, AddSignature
  <2>4. d2.sentSig = d.sentSig /\ d2.sentRej = d.sentRej  BY <1>1 DEF SignerType, AddSignature
  <2>5. QED  BY <2>1, <2>2, <2>3, <2>4 DEF SameCore
<1>4. QED  BY <1>2, <1>3, SameCoreIsQuiet

\* store_and_process_block_signature: the group's threshold stamps signed_group
LEMMA TallySignaturesIsQuiet ==
  ASSUME NEW d, NEW n, NEW x, NEW W, SignerOK(d, n, x, W), NEW b \in Blocks
  PROVE  LET d2 == TallySignatures(d, b)
         IN  SignerOK(d2, n, x, W) /\ Quiet(d, d2)
<1> DEFINE m  == MarkGroupSigned(d.row[b])
           d1 == [d EXCEPT !.row[b] = m]
           d2 == [d EXCEPT !.row[b] = MarkGroupSigned(@), !.posted = @ \cup {b}]
<1>1. d \in SignerType  BY DEF SignerOK
<1>2. d.row[b] \in Rows /\ RowOK(d.row[b], b, n, x)  BY <1>1 DEF SignerType, SignerOK
<1>3. /\ m \in Rows /\ RowOK(m, b, n, x) /\ m.self = d.row[b].self
      /\ m.valid = d.row[b].valid
      /\ d.row[b].state # "Unseen" => m.state # "Unseen"
  BY <1>2, MarksKeepRowOK
<1>4. d2 = [d1 EXCEPT !.posted = @ \cup {b}]  BY <1>1 DEF SignerType
<1> HIDE DEF m
<1>5. SignerOK(d1, n, x, W) /\ Quiet(d, d1)  BY <1>3, WriteRow
<1> HIDE DEF d1, d2
<1>6. d1 \in SignerType  BY <1>5 DEF SignerOK
<1>7. d2 \in SignerType /\ SameCore(d1, d2)  BY <1>4, <1>6 DEF SignerType, SameCore
<1>8. SignerOK(d2, n, x, W) /\ Quiet(d, d2)
  BY <1>5, <1>7, SameCoreIsQuiet, QuietQuiet
<1>9. Quiet(d, d)  BY DEF Quiet, NoContradiction
<1>10. QED  BY <1>8, <1>9 DEF TallySignatures, d2

\* send_block_response with a rejection
LEMMA SendRejectionIsQuiet ==
  ASSUME NEW d, NEW n, NEW x, NEW W, SignerOK(d, n, x, W),
         NEW b \in Blocks, NEW code \in Codes, b \notin Self(d)
  PROVE  LET d2 == [d EXCEPT !.sentRej = @ \cup {<<b, code>>}]
         IN  SignerOK(d2, n, x, W) /\ Quiet(d, d2)
<1> DEFINE y  == d.sentRej \cup {<<b, code>>}
           d2 == [d EXCEPT !.sentRej = y]
<1>1. d \in SignerType  BY DEF SignerOK
<1>a. d.sentRej \in SUBSET (Blocks \X Codes)  BY <1>1 DEF SignerType
<1>b. y \in SUBSET (Blocks \X Codes)  BY <1>a
<1> HIDE DEF y
<1>2. d2 \in SignerType  BY <1>1, <1>b DEF SignerType
<1>3. /\ d2.row = d.row /\ d2.slot = d.slot /\ d2.queue = d.queue
      /\ d2.permits = d.permits /\ d2.miner = d.miner /\ d2.retired = d.retired
      /\ d2.sentSig = d.sentSig /\ d2.sentRej = d.sentRej \cup {<<b, code>>}
  BY <1>1 DEF SignerType, y
<1> HIDE DEF d2
<1>4. Self(d2) = Self(d)  BY <1>3 DEF Self
<1>5. NoContradiction(d, d2)  BY <1>3 DEF NoContradiction
<1>6. Quiet(d, d2)  BY <1>3, <1>4, <1>5 DEF Quiet
<1>7. SignerOK(d2, n, x, W)  BY <1>2, <1>3, <1>4 DEF SignerOK, QueueOK, PermitsOK
<1>8. QED  BY <1>6, <1>7 DEF d2, y

\* A rejection of a block without a stamp, with the row as it was read.
LEMMA RejectIsQuiet ==
  ASSUME NEW d, NEW n, NEW x, NEW W, SignerOK(d, n, x, W),
         NEW s \in Signers, NEW b \in Blocks, NEW code \in Codes,
         NEW r \in Rows, RowOK(r, b, n, x), r.self = FALSE, d.row[b].self = FALSE,
         r.state # "Unseen"
  PROVE  LET d2 == Reject(d, s, b, r, code)
         IN  SignerOK(d2, n, x, W) /\ Quiet(d, d2)
<1> DEFINE m  == MarkLocallyRejected(r, code)
           d1 == [d EXCEPT !.row[b] = m]
           d2 == StoreRejection(d1, s, b, code)
           d3 == [d2 EXCEPT !.sentRej = @ \cup {<<b, code>>}]
<1>1. /\ m \in Rows /\ RowOK(m, b, n, x) /\ m.self = FALSE /\ m.valid = "no"
      /\ m.state # "Unseen"
  BY RejectKeepsRowOK
<1>2. Reject(d, s, b, r, code) = d3  BY DEF Reject
<1> HIDE DEF m
<1>3. SignerOK(d1, n, x, W) /\ Quiet(d, d1)  BY <1>1, WriteRow
<1> HIDE DEF d1
<1>4. SignerOK(d2, n, x, W) /\ Quiet(d1, d2)  BY <1>3, StoreRejectionIsQuiet
<1>5. Quiet(d, d2)  BY <1>3, <1>4, QuietQuiet
<1>6. b \notin Self(d2)  BY <1>5 DEF Quiet, Self
<1> HIDE DEF d2
<1>7. SignerOK(d3, n, x, W) /\ Quiet(d2, d3)  BY <1>4, <1>6, SendRejectionIsQuiet
<1>8. Quiet(d, d3)  BY <1>5, <1>7, QuietQuiet
<1>9. QED  BY <1>2, <1>7, <1>8

\* add_block_pre_commit
LEMMA AddPreCommitIsQuiet ==
  ASSUME NEW d, NEW n, NEW x, NEW W, SignerOK(d, n, x, W),
         NEW from \in Signers, NEW b \in Blocks
  PROVE  LET d2 == AddPreCommit(d, from, b)
         IN  SignerOK(d2, n, x, W) /\ Quiet(d, d2) /\ d2.row = d.row
<1> DEFINE d2 == AddPreCommit(d, from, b)
<1>1. d \in SignerType  BY DEF SignerOK
<1>2. d2 \in SignerType  BY <1>1 DEF SignerType, AddPreCommit
<1>3. SameCore(d, d2)
  <2>1. d2.row = d.row /\ d2.slot = d.slot  BY <1>1 DEF SignerType, AddPreCommit
  <2>2. d2.queue = d.queue /\ d2.permits = d.permits  BY <1>1 DEF SignerType, AddPreCommit
  <2>3. d2.miner = d.miner /\ d2.retired = d.retired  BY <1>1 DEF SignerType, AddPreCommit
  <2>4. d2.sentSig = d.sentSig /\ d2.sentRej = d.sentRej  BY <1>1 DEF SignerType, AddPreCommit
  <2>5. QED  BY <2>1, <2>2, <2>3, <2>4 DEF SameCore
<1>4. QED  BY <1>2, <1>3, SameCoreIsQuiet DEF SameCore

\* insert_pending_block_response
LEMMA ParkIsQuiet ==
  ASSUME NEW d, NEW n, NEW x, NEW W, SignerOK(d, n, x, W), NEW kind \in Votes,
         NEW from \in Signers, NEW b \in Blocks, NEW code \in Codes \cup {"none"}
  PROVE  LET d2 == Park(d, kind, from, b, code)
         IN  SignerOK(d2, n, x, W) /\ Quiet(d, d2)
<1> DEFINE q  == ParkVote(d.parked[kind][from], b, code)
           d2 == [d EXCEPT !.parked[kind][from] = q]
<1>1. d \in SignerType  BY DEF SignerOK
<1>2. d.parked[kind][from] \in Seq(Blocks \X (Codes \cup {"none"}))
  BY <1>1 DEF SignerType
<1>3. q \in Seq(Blocks \X (Codes \cup {"none"}))  BY <1>2, ParkVoteFacts
<1>4. Park(d, kind, from, b, code) = d2  BY DEF Park
<1> HIDE DEF q
<1>5. d2 \in SignerType  BY <1>1, <1>3 DEF SignerType
<1>6. SameCore(d, d2)  BY <1>1 DEF SignerType, SameCore
<1>7. QED  BY <1>4, <1>5, <1>6, SameCoreIsQuiet

\* handle_block_rejection
LEMMA HandleRejectionIsQuiet ==
  ASSUME NEW d, NEW n, NEW x, NEW W, SignerOK(d, n, x, W),
         NEW from \in Signers, NEW b \in Blocks, NEW code \in Codes
  PROVE  LET d2 == HandleRejection(d, from, b, code)
         IN  SignerOK(d2, n, x, W) /\ Quiet(d, d2)
<1>1. "rej" \in Votes  BY DEF Votes
<1>2. QED  BY <1>1, ParkIsQuiet, StoreRejectionIsQuiet DEF HandleRejection
-----------------------------------------------------------------------------
\* The check against the signer database.

\* check_latest_block_in_tenure may mark the tip of the tenure as accepted, and
\* does nothing else to the rows.
LEMMA RowsAfterLatestIsQuiet ==
  ASSUME NEW d, NEW n, NEW x, NEW W, W \subseteq Blocks, SignerOK(d, n, x, W),
         NodeOK(n, x), NEW t, NEW b, NEW excluded, NEW up, NEW e
  PROVE  LET d2 == [d EXCEPT !.row = RowsAfterLatest(d, n, t, b, excluded, up, e)]
         IN  /\ SignerOK(d2, n, x, W) /\ Quiet(d, d2)
             /\ \A c \in Blocks : /\ d2.row[c].self = d.row[c].self
                                  /\ d2.row[c].valid = d.row[c].valid
                                  /\ d.row[c].state # "Unseen" => d2.row[c].state # "Unseen"
<1> DEFINE R  == RowsAfterLatest(d, n, t, b, excluded, up, e)
           d2 == [d EXCEPT !.row = R]
<1>1. d \in SignerType  BY DEF SignerOK
<1>2. /\ R \in [Blocks -> Rows]
      /\ \A c \in Blocks : /\ RowOK(R[c], c, n, x)
                           /\ R[c].self = d.row[c].self /\ R[c].valid = d.row[c].valid
                           /\ d.row[c].state # "Unseen" => R[c].state # "Unseen"
  <2>1. d.row \in [Blocks -> Rows]  BY <1>1 DEF SignerType
  <2>2. TenureTip(n, t) \subseteq n.processed  BY DEF TenureTip, NodeOK
  <2>3. CASE R = d.row  BY <2>1, <2>3 DEF SignerOK
  <2>4. CASE R = [c \in Blocks |-> IF c \in TenureTip(n, t) THEN SeenAsTip(d.row[c])
                                                            ELSE d.row[c]]
    <3>1. ASSUME NEW c \in Blocks
          PROVE  /\ R[c] \in Rows /\ RowOK(R[c], c, n, x)
                 /\ R[c].self = d.row[c].self /\ R[c].valid = d.row[c].valid
                 /\ d.row[c].state # "Unseen" => R[c].state # "Unseen"
      <4>1. d.row[c] \in Rows /\ RowOK(d.row[c], c, n, x)  BY <2>1 DEF SignerOK
      <4>2. CASE c \in TenureTip(n, t)
        <5>1. R[c] = SeenAsTip(d.row[c]) /\ c \in n.processed  BY <2>2, <2>4, <4>2
        <5> HIDE DEF R
        <5>2. QED  BY <4>1, <5>1, MarksKeepRowOK
      <4>3. CASE c \notin TenureTip(n, t)
        <5>1. R[c] = d.row[c]  BY <2>4, <4>3
        <5>2. QED  BY <4>1, <5>1
      <4>4. QED  BY <4>2, <4>3
    <3> HIDE DEF R
    <3>2. QED  BY <2>4, <3>1
  <2>5. QED  BY <2>3, <2>4 DEF RowsAfterLatest
<1> HIDE DEF R
<1>3. d2 \in SignerType  BY <1>1, <1>2 DEF SignerType
<1>4. /\ d2.row = R /\ d2.slot = d.slot /\ d2.queue = d.queue
      /\ d2.permits = d.permits /\ d2.miner = d.miner /\ d2.retired = d.retired
      /\ d2.sentSig = d.sentSig /\ d2.sentRej = d.sentRej
  BY <1>1 DEF SignerType
<1> HIDE DEF d2
<1>5. Self(d2) = Self(d)  BY <1>2, <1>4 DEF Self
<1>6. Quiet(d, d2)  BY <1>4, <1>5 DEF Quiet, NoContradiction
<1>7. QueueOK(d2, W)
  <2> SUFFICES ASSUME NEW c \in W, d2.slot = c \/ InSeq(d2.queue, c)
               PROVE  d2.row[c].state # "Unseen" /\ d2.row[c].valid # "yes"
    BY <1>4 DEF QueueOK, SignerOK
  <2>1. d.row[c].state # "Unseen" /\ d.row[c].valid # "yes"
    BY <1>4 DEF QueueOK, SignerOK
  <2>2. QED  BY <2>1, <1>2, <1>4
<1>8. SignerOK(d2, n, x, W)
  BY <1>2, <1>3, <1>4, <1>5, <1>7 DEF SignerOK, PermitsOK
<1>9. QED  BY <1>2, <1>4, <1>6, <1>8 DEF d2, R

\* check_block_against_signer_db_state
LEMMA RowsAfterDbCheckIsQuiet ==
  ASSUME NEW d, NEW n, NEW x, NEW W, W \subseteq Blocks, SignerOK(d, n, x, W),
         NodeOK(n, x), NEW b, NEW up, NEW e
  PROVE  LET d2 == [d EXCEPT !.row = RowsAfterDbCheck(d, n, b, up, e)]
         IN  /\ SignerOK(d2, n, x, W) /\ Quiet(d, d2)
             /\ \A c \in Blocks : /\ d2.row[c].self = d.row[c].self
                                  /\ d2.row[c].valid = d.row[c].valid
                                  /\ d.row[c].state # "Unseen" => d2.row[c].state # "Unseen"
<1>1. CASE Frozen(d, b)
  <2>1. RowsAfterDbCheck(d, n, b, up, e) = d.row  BY <1>1 DEF RowsAfterDbCheck
  <2>2. d \in SignerType  BY DEF SignerOK
  <2>3. [d EXCEPT !.row = d.row] = d  BY <2>2 DEF SignerType
  <2>4. Quiet(d, d)  BY DEF Quiet, NoContradiction
  <2>5. QED  BY <2>1, <2>3, <2>4
<1>2. CASE ~Frozen(d, b)
  BY <1>2, RowsAfterLatestIsQuiet DEF RowsAfterDbCheck
<1>3. QED  BY <1>1, <1>2

-----------------------------------------------------------------------------
\* The signature.

\* The conflict guard: a stamped sibling that does not hold b back is stale, or
\* its tenure may be reorged to b's branch, or the node shows it to be dead.
LEMMA GuardExcuses ==
  ASSUME NEW d, NEW n, NEW x, NEW W, SignerOK(d, n, x, W), NodeOK(n, x),
         NEW b \in Blocks, NEW e, ~HeldByConflict(d, n, b, e),
         NEW c \in Self(d), Siblings(c, b)
  PROVE  <<c, b>> \in x
<1>1. c \in Blocks /\ d.row[c].self  BY DEF Self
<1>2. Height[c] = Height[b] /\ c # b  BY DEF Siblings
<1>3. Height[b] \in Nat /\ Tenure[c] \in Tenures /\ Tenure[b] \in Tenures
  BY <1>1, BlocksAssumption
<1>4. c \in SignedConflicts(d.row, b)  BY <1>1, <1>2, <1>3 DEF SignedConflicts
<1>5. RowOK(d.row[c], c, n, x)  BY <1>1 DEF SignerOK
<1>6. CASE ~d.row[c].fresh  BY <1>1, <1>5, <1>6 DEF RowOK
<1>7. CASE ReorgPermitStands(d, n, c, b, e)
  <2>1. d.permits[Tenure[c]] # None /\ b \in BranchOf(d.permits[Tenure[c]])
    BY <1>7 DEF ReorgPermitStands, BranchOf
  <2>2. QED  BY <1>1, <2>1 DEF SignerOK, PermitsOK
<1>8. CASE ~ConflictStillBlocks(d, n, c, b, e)
  <2>1. CASE Tenure[c] \in n.orphaned
    <3>1. c \in Dead(n)  BY <1>1, <2>1 DEF Dead
    <3>2. QED  BY <3>1 DEF NodeOK
  <2>2. CASE Tenure[c] \notin n.orphaned
    <3>1. ~TipReaches(n, Tenure[c], Height[c]) /\ d.row[c].state = "GloballyAccepted"
      BY <1>2, <1>3, <1>8, <2>2 DEF ConflictStillBlocks
    <3>2. c \in n.processed  BY <1>5, <3>1 DEF RowOK
    <3>3. c \notin n.chain  BY <1>2, <1>3, <3>1 DEF TipReaches
    <3>4. c \in Dead(n)  BY <3>2, <3>3 DEF Dead
    <3>5. QED  BY <3>4 DEF NodeOK
  <2>3. QED  BY <2>1, <2>2
<1>9. QED  BY <1>4, <1>6, <1>7, <1>8 DEF HeldByConflict

\* insert_block with signed_self, the only place a stamp comes from
LEMMA StampSelfMoves ==
  ASSUME NEW d, NEW n, NEW x, NEW W, SignerOK(d, n, x, W),
         NEW b \in Blocks, NEW r \in Rows, RowOK(r, b, n, x),
         r.self = FALSE, r.valid = "yes", r.state # "Unseen",
         d.row[b].self = FALSE, d.row[b].valid = "yes",
         ~Frozen(d, b), SiblingsExcused(d, b, x)
  PROVE  LET d2 == StampSelf(d, b, r)
         IN  /\ SignerOK(d2, n, x, W) /\ Moves(d, d2, x)
             /\ b \in Self(d2)
<1> DEFINE m  == MarkSelfSigned(r)
           d2 == [d EXCEPT !.row[b] = m]
<1>1. d \in SignerType  BY DEF SignerOK
<1>2. /\ m \in Rows /\ (m.state = r.state \/ m.state = "LocallyAccepted")
      /\ m.valid = "yes" /\ m.reason = r.reason /\ m.self = TRUE /\ m.fresh = TRUE
  BY MarkSelfSignedFacts
<1> HIDE DEF m
<1>3. RowOK(m, b, n, x)  BY <1>2 DEF RowOK
<1>4. d2 \in SignerType  BY <1>1, <1>2 DEF SignerType
<1>5. /\ d2.slot = d.slot /\ d2.queue = d.queue
      /\ d2.permits = d.permits /\ d2.miner = d.miner /\ d2.retired = d.retired
      /\ d2.sentSig = d.sentSig /\ d2.sentRej = d.sentRej
      /\ d2.row = [d.row EXCEPT ![b] = m]
  BY <1>1 DEF SignerType
<1>6. \A c \in Blocks : d2.row[c] = IF c = b THEN m ELSE d.row[c]
  BY <1>1, <1>5 DEF SignerType
<1>7. d2 = StampSelf(d, b, r)  BY DEF StampSelf, m
<1> HIDE DEF d2
<1>8. Self(d2) = Self(d) \cup {b}  BY <1>2, <1>6 DEF Self
<1>9. Moves(d, d2, x)
  BY <1>5, <1>8 DEF Moves, VotesAllowed, NoContradiction
<1>10. \A c \in Blocks : RowOK(d2.row[c], c, n, x)  BY <1>3, <1>6 DEF SignerOK
<1>11. QueueOK(d2, W)
  <2> SUFFICES ASSUME NEW c \in W, d2.slot = c \/ InSeq(d2.queue, c)
               PROVE  d2.row[c].state # "Unseen" /\ d2.row[c].valid # "yes"
    BY <1>5 DEF QueueOK, SignerOK
  <2>1. d.row[c].state # "Unseen" /\ d.row[c].valid # "yes"
    BY <1>5 DEF QueueOK, SignerOK
  <2>2. c # b  BY <2>1
  <2>3. QED  BY <1>1, <1>5, <2>1, <2>2 DEF SignerType
<1>12. SignerOK(d2, n, x, W)
  BY <1>4, <1>5, <1>8, <1>10, <1>11 DEF SignerOK, PermitsOK
<1>13. QED  BY <1>7, <1>8, <1>9, <1>12
\* send_block_response with an acceptance of a stamped block
LEMMA SendSignatureIsQuiet ==
  ASSUME NEW d, NEW n, NEW x, NEW W, SignerOK(d, n, x, W), NEW b \in Self(d)
  PROVE  LET d2 == [d EXCEPT !.sentSig = @ \cup {b}]
         IN  SignerOK(d2, n, x, W) /\ Quiet(d, d2)
<1> DEFINE d2 == [d EXCEPT !.sentSig = @ \cup {b}]
<1>1. d \in SignerType /\ b \in Blocks  BY DEF SignerOK, Self
<1>2. d2 \in SignerType  BY <1>1 DEF SignerType
<1>3. /\ d2.row = d.row /\ d2.slot = d.slot /\ d2.queue = d.queue
      /\ d2.permits = d.permits /\ d2.miner = d.miner /\ d2.retired = d.retired
      /\ d2.sentSig = d.sentSig \cup {b} /\ d2.sentRej = d.sentRej
  BY <1>1 DEF SignerType
<1> HIDE DEF d2
<1>4. Self(d2) = Self(d)  BY <1>3 DEF Self
<1>5. Quiet(d, d2)  BY <1>3, <1>4 DEF Quiet, NoContradiction
<1>6. SignerOK(d2, n, x, W)  BY <1>2, <1>3, <1>4 DEF SignerOK, QueueOK, PermitsOK
<1>7. QED  BY <1>5, <1>6 DEF d2

\* send_block_pre_commit
LEMMA SendPreCommitIsQuiet ==
  ASSUME NEW d, NEW n, NEW x, NEW W, SignerOK(d, n, x, W), NEW b \in Blocks
  PROVE  LET d2 == [d EXCEPT !.sentPc = @ \cup {b}]
         IN  SignerOK(d2, n, x, W) /\ Quiet(d, d2) /\ d2.row = d.row
<1> DEFINE d2 == [d EXCEPT !.sentPc = @ \cup {b}]
<1>1. d \in SignerType  BY DEF SignerOK
<1>2. d2 \in SignerType /\ SameCore(d, d2)  BY <1>1 DEF SignerType, SameCore
<1> HIDE DEF d2
<1>3. SignerOK(d2, n, x, W) /\ Quiet(d, d2) /\ d2.row = d.row
  BY <1>2, SameCoreIsQuiet DEF SameCore
<1>4. QED  BY <1>3 DEF d2

\* handle_block_signature of our own acceptance
LEMMA TallyOwnIsQuiet ==
  ASSUME NEW d, NEW n, NEW x, NEW W, SignerOK(d, n, x, W),
         NEW s \in Signers, NEW b \in Blocks
  PROVE  LET d2 == TallyOwn(d, s, b)
         IN  SignerOK(d2, n, x, W) /\ Quiet(d, d2)
<1> DEFINE d1 == AddSignature(d, s, b)
           d2 == TallySignatures(d1, b)
<1>1. SignerOK(d1, n, x, W) /\ Quiet(d, d1)  BY AddSignatureIsQuiet
<1> HIDE DEF d1
<1>2. SignerOK(d2, n, x, W) /\ Quiet(d1, d2)  BY <1>1, TallySignaturesIsQuiet
<1>3. Quiet(d, d2)  BY <1>1, <1>2, QuietQuiet
<1> HIDE DEF d2
<1>4. QED  BY <1>1, <1>2, <1>3 DEF TallyOwn, d1, d2

\* The end of handle_block_pre_commit: the row is written, the signature tallied
\* and sent.
LEMMA SignMoves ==
  ASSUME NEW d, NEW n, NEW x, NEW W, SignerOK(d, n, x, W),
         NEW s \in Signers, NEW b \in Blocks, NEW r \in Rows, RowOK(r, b, n, x),
         r.self = FALSE, r.valid = "yes", r.state # "Unseen",
         d.row[b].self = FALSE, d.row[b].valid = "yes",
         ~Frozen(d, b), SiblingsExcused(d, b, x)
  PROVE  LET d2 == Sign(d, s, b, r)
         IN  SignerOK(d2, n, x, W) /\ Moves(d, d2, x)
<1> DEFINE d1 == StampSelf(d, b, r)
           d2 == TallyOwn(d1, s, b)
           d3 == [d2 EXCEPT !.sentSig = @ \cup {b}]
<1>1. Sign(d, s, b, r) = d3  BY DEF Sign
<1>2. SignerOK(d1, n, x, W) /\ Moves(d, d1, x) /\ b \in Self(d1)
  BY StampSelfMoves
<1> HIDE DEF d1
<1>3. SignerOK(d2, n, x, W) /\ Quiet(d1, d2)  BY <1>2, TallyOwnIsQuiet
<1> HIDE DEF d2
<1>4. b \in Self(d2)  BY <1>2, <1>3 DEF Quiet
<1>5. SignerOK(d3, n, x, W) /\ Quiet(d2, d3)  BY <1>3, <1>4, SendSignatureIsQuiet
<1> HIDE DEF d3
<1>6. Quiet(d1, d3)  BY <1>3, <1>5, QuietQuiet
<1>7. Moves(d, d3, x)  BY <1>2, <1>6, MovesQuiet
<1>8. QED  BY <1>1, <1>5, <1>7

\* handle_block_pre_commit for a known block
LEMMA DecideMoves ==
  ASSUME NEW d, NEW n, NEW x, NEW W, W \subseteq Blocks, SignerOK(d, n, x, W),
         NodeOK(n, x), NEW s \in Signers, NEW b \in Blocks, NEW e,
         d.row[b].state # "Unseen"
  PROVE  LET d2 == DecideOnPreCommit(d, n, s, b, e)
         IN  SignerOK(d2, n, x, W) /\ Moves(d, d2, x)
<1> DEFINE d1 == AfterRecheck(d, n, b, e)
           r  == d.row[b]
           v  == Recheck(d, n, b, e)
<1>1. CASE ~MustDecide(d, b)
  <2>1. DecideOnPreCommit(d, n, s, b, e) = d  BY <1>1 DEF DecideOnPreCommit
  <2>2. Quiet(d, d)  BY DEF Quiet, NoContradiction
  <2>3. QED  BY <2>1, <2>2, QuietIsMove
<1>2. CASE MustDecide(d, b)
  <2>1. d \in SignerType  BY DEF SignerOK
  <2>2. r \in Rows /\ RowOK(r, b, n, x)  BY <2>1 DEF SignerType, SignerOK
  <2>3. r.self = FALSE /\ r.valid = "yes" /\ r.state # "Unseen"
    BY <1>2, <2>2 DEF MustDecide, Rows
  <2>4. /\ SignerOK(d1, n, x, W) /\ Quiet(d, d1)
        /\ d1.row[b].self = FALSE /\ d1.row[b].valid = "yes"
    <3> DEFINE R == RowsAfterDbCheck(d, n, b, "recheck" \in e.up, e)
    <3>1. /\ SignerOK([d EXCEPT !.row = R], n, x, W) /\ Quiet(d, [d EXCEPT !.row = R])
          /\ \A c \in Blocks : /\ [d EXCEPT !.row = R].row[c].self = d.row[c].self
                               /\ [d EXCEPT !.row = R].row[c].valid = d.row[c].valid
      BY RowsAfterDbCheckIsQuiet
    <3>2. d1 = [d EXCEPT !.row = R]  BY DEF AfterRecheck
    <3> HIDE DEF R, d1
    <3>3. QED  BY <2>3, <3>1, <3>2
  <2>5. v \in Codes \cup {"none"}  BY DEF Recheck, DbVerdict, Codes
  <2>6. CASE v # "none"
    <3>1. DecideOnPreCommit(d, n, s, b, e) = Reject(d1, s, b, r, v)
      BY <1>2, <2>6 DEF DecideOnPreCommit
    <3> HIDE DEF d1, r, v
    <3>2. v \in Codes  BY <2>5, <2>6
    <3>4. LET d2 == Reject(d1, s, b, r, v)
          IN  SignerOK(d2, n, x, W) /\ Quiet(d1, d2)
      BY <2>2, <2>3, <2>4, <3>2, RejectIsQuiet
    <3>5. QED  BY <2>4, <3>1, <3>4, QuietQuiet, QuietIsMove
  <2>7. CASE v = "none" /\ HeldByConflict(d1, n, b, e)
    <3>1. DecideOnPreCommit(d, n, s, b, e) = d1
      BY <1>2, <2>7 DEF DecideOnPreCommit
    <3>2. QED  BY <2>4, <3>1, QuietIsMove
  <2>8. CASE v = "none" /\ ~HeldByConflict(d1, n, b, e)
    <3>1. DecideOnPreCommit(d, n, s, b, e) = Sign(d1, s, b, r)
      BY <1>2, <2>8 DEF DecideOnPreCommit
    <3>2. ~Frozen(d, b)  BY <2>8 DEF Recheck, DbVerdict
    <3>3. ~Frozen(d1, b)  BY <2>4, <3>2 DEF Quiet, Frozen
    <3> HIDE DEF d1, r, v
    <3>4. SiblingsExcused(d1, b, x)
      BY <2>4, <2>8, GuardExcuses DEF SiblingsExcused
    <3>5. LET d2 == Sign(d1, s, b, r)
          IN  SignerOK(d2, n, x, W) /\ Moves(d1, d2, x)
      BY <2>2, <2>3, <2>4, <3>3, <3>4, SignMoves
    <3>6. QED  BY <2>4, <3>1, <3>5, QuietMoves
  <2>9. QED  BY <2>6, <2>7, <2>8
<1>3. QED  BY <1>1, <1>2

\* handle_block_pre_commit
LEMMA HandlePreCommitMoves ==
  ASSUME NEW d, NEW n, NEW x, NEW W, W \subseteq Blocks, SignerOK(d, n, x, W),
         NodeOK(n, x), NEW s \in Signers, NEW from \in Signers, NEW b \in Blocks, NEW e
  PROVE  LET d2 == HandlePreCommit(d, n, s, from, b, e)
         IN  SignerOK(d2, n, x, W) /\ Moves(d, d2, x)
<1>1. CASE d.row[b].state = "Unseen"
  <2>1. "pc" \in Votes  BY DEF Votes
  <2>2. LET d2 == Park(d, "pc", from, b, "none")
        IN  SignerOK(d2, n, x, W) /\ Quiet(d, d2)
    BY <2>1, ParkIsQuiet
  <2>3. QED  BY <1>1, <2>2, QuietIsMove DEF HandlePreCommit
<1>2. CASE d.row[b].state # "Unseen"
  <2> DEFINE d1 == AddPreCommit(d, from, b)
             d2 == DecideOnPreCommit(d1, n, s, b, e)
  <2>1. SignerOK(d1, n, x, W) /\ Quiet(d, d1) /\ d1.row = d.row
    BY AddPreCommitIsQuiet
  <2> HIDE DEF d1
  <2>2. SignerOK(d2, n, x, W) /\ Moves(d1, d2, x)
    BY <1>2, <2>1, DecideMoves
  <2> HIDE DEF d2
  <2>3. Moves(d, d2, x)  BY <2>1, <2>2, QuietMoves
  <2>4. HandlePreCommit(d, n, s, from, b, e) = d2
    BY <1>2 DEF HandlePreCommit, d1, d2
  <2>5. QED  BY <2>2, <2>3, <2>4
<1>3. QED  BY <1>1, <1>2

\* handle_block_signature
LEMMA HandleSignatureMoves ==
  ASSUME NEW d, NEW n, NEW x, NEW W, W \subseteq Blocks, SignerOK(d, n, x, W),
         NodeOK(n, x), NEW s \in Signers, NEW from \in Signers, NEW b \in Blocks, NEW e
  PROVE  LET d2 == HandleSignature(d, n, s, from, b, e)
         IN  SignerOK(d2, n, x, W) /\ Moves(d, d2, x)
<1> DEFINE d1 == AddSignature(d, from, b)
           p2 == HandlePreCommit(d1, n, s, from, b, e)
           t2 == TallySignatures(d1, b)
           k2 == Park(d, "sig", from, b, "none")
<1>1. "sig" \in Votes  BY DEF Votes
<1>2. SignerOK(k2, n, x, W) /\ Moves(d, k2, x)
  BY <1>1, ParkIsQuiet, QuietIsMove
<1>3. HandleSignature(d, n, s, from, b, e) \in {k2, d1, p2, t2}
  BY DEF HandleSignature
<1>4. SignerOK(d1, n, x, W) /\ Quiet(d, d1)  BY AddSignatureIsQuiet
<1> HIDE DEF d1, k2
<1>5. SignerOK(p2, n, x, W) /\ Moves(d1, p2, x)  BY <1>4, HandlePreCommitMoves
<1>6. SignerOK(t2, n, x, W) /\ Quiet(d1, t2)  BY <1>4, TallySignaturesIsQuiet
<1> HIDE DEF p2, t2
<1>7. Moves(d, p2, x) /\ Moves(d, t2, x) /\ Moves(d, d1, x)
  BY <1>4, <1>5, <1>6, QuietMoves, QuietQuiet, QuietIsMove
<1>8. QED  BY <1>2, <1>3, <1>4, <1>5, <1>6, <1>7
-----------------------------------------------------------------------------
\* Validation.

\* All but the validator slot and the queue is the same.
SameButQueue(d, d2) ==
  /\ d2.row = d.row /\ d2.permits = d.permits
  /\ d2.miner = d.miner /\ d2.retired = d.retired
  /\ d2.sentSig = d.sentSig /\ d2.sentRej = d.sentRej

\* Moving blocks between slot and queue decides nothing.
LEMMA SameButQueueIsQuiet ==
  ASSUME NEW d, NEW n, NEW x, NEW W, NEW V, NEW d2 \in SignerType,
         SignerOK(d, n, x, W), SameButQueue(d, d2), NoRepeats(d2.queue),
         d2.slot \in V \cup {None},
         \A c \in V : d2.slot = c \/ InSeq(d2.queue, c)
                        => c \in W /\ (d.slot = c \/ InSeq(d.queue, c))
  PROVE  SignerOK(d2, n, x, V) /\ Quiet(d, d2)
<1>1. Self(d2) = Self(d)  BY DEF Self, SameButQueue
<1>2. Quiet(d, d2)  BY <1>1 DEF Quiet, NoContradiction, SameButQueue
<1>3. QueueOK(d2, V)  BY DEF SignerOK, QueueOK, SameButQueue
<1>4. QED  BY <1>1, <1>2, <1>3 DEF SignerOK, PermitsOK, SameButQueue

\* check_pending_block_validations
LEMMA CheckPendingIsQuiet ==
  ASSUME NEW d, NEW n, NEW x, SignerOK(d, n, x, Blocks),
         NEW answer \in {"ok", "wait", "error"}
  PROVE  LET d2 == CheckPending(d, answer)
         IN  SignerOK(d2, n, x, Blocks) /\ Quiet(d, d2)
<1>1. CASE d.slot # None \/ d.queue = <<>>
  BY <1>1 DEF CheckPending, Quiet, NoContradiction
<1>2. CASE d.slot = None /\ d.queue # <<>>
  <2> DEFINE b  == Head(d.queue)
             q  == Tail(d.queue)
             d1 == [d EXCEPT !.queue = q]
             d2 == Submit(d1, b, answer, QueueAtFront(q, b))
  <2>1. d \in SignerType /\ NoRepeats(d.queue)  BY DEF SignerOK, QueueOK
  <2>2. d.queue \in Seq(Blocks)  BY <2>1 DEF SignerType
  <2>3. /\ b \in Blocks /\ q \in Seq(Blocks) /\ InSeq(d.queue, b) /\ NoRepeats(q)
        /\ \A y : InSeq(q, y) => InSeq(d.queue, y)
    BY <1>2, <2>1, <2>2, HeadTailFacts
  <2>4. CheckPending(d, answer) = d2  BY <1>2 DEF CheckPending
  <2> DEFINE f == QueueAtFront(q, b)
  <2>5. /\ f \in Seq(Blocks) /\ NoRepeats(f)
        /\ \A y : InSeq(f, y) => InSeq(d.queue, y)
    <3> HIDE DEF b, q
    <3>1. QED  BY <2>3, QueueAtFrontFacts
  <2> HIDE DEF b, q, f
  <2>6. d2 \in SignerType /\ SameButQueue(d, d2)
    <3>1. d1 \in SignerType /\ SameButQueue(d, d1)
      BY <2>1, <2>3 DEF SignerType, SameButQueue
    <3>2. d2 = CASE answer = "ok"    -> [d1 EXCEPT !.slot = b, !.asked = @ \cup {b}]
                 [] answer = "wait"  -> [d1 EXCEPT !.queue = f]
                 [] answer = "error" -> d1
      BY DEF Submit, f
    <3> HIDE DEF d1, d2
    <3>3. CASE answer = "ok"
      <4>1. d2 = [d1 EXCEPT !.slot = b, !.asked = @ \cup {b}]  BY <3>2, <3>3
      <4>2. QED  BY <3>1, <4>1, <2>3 DEF SignerType, SameButQueue
    <3>4. CASE answer = "wait"
      <4>1. d2 = [d1 EXCEPT !.queue = f]  BY <3>2, <3>4
      <4>2. QED  BY <3>1, <4>1, <2>5 DEF SignerType, SameButQueue
    <3>5. CASE answer = "error"
      <4>1. d2 = d1  BY <3>2, <3>5
      <4>2. QED  BY <3>1, <4>1
    <3>6. QED  BY <3>3, <3>4, <3>5
  <2>7. /\ NoRepeats(d2.queue)
        /\ \A c \in Blocks : d2.slot = c \/ InSeq(d2.queue, c)
                               => d.slot = c \/ InSeq(d.queue, c)
    <3>1. CASE answer = "ok"
      <4>1. d2.slot = b /\ d2.queue = q  BY <3>1, <2>1 DEF Submit, SignerType
      <4>2. QED  BY <4>1, <2>3
    <3>2. CASE answer = "wait"
      <4>1. d2.slot = d.slot /\ d2.queue = f  BY <3>2, <2>1 DEF Submit, SignerType, f
      <4>2. QED  BY <4>1, <2>5
    <3>3. CASE answer = "error"
      <4>1. d2.slot = d.slot /\ d2.queue = q  BY <3>3, <2>1 DEF Submit, SignerType
      <4>2. QED  BY <4>1, <2>3
    <3>4. QED  BY <3>1, <3>2, <3>3
  <2> HIDE DEF d2
  <2>8. d2.slot \in Blocks \cup {None}  BY <2>6 DEF SignerType
  <2>9. QED  BY <2>4, <2>6, <2>7, <2>8, SameButQueueIsQuiet
<1>3. QED  BY <1>1, <1>2

\* check_submitted_block_proposal.  A block in the slot has no verdict in favour,
\* so it has no stamp: the rejection contradicts no signature.
LEMMA ExpireSlotIsQuiet ==
  ASSUME NEW d, NEW n, NEW x, SignerOK(d, n, x, Blocks)
  PROVE  LET d2 == ExpireSlot(d)
         IN  SignerOK(d2, n, x, Blocks) /\ Quiet(d, d2)
<1> DEFINE b  == d.slot
           d1 == [d EXCEPT !.slot = None]
<1>1. d \in SignerType  BY DEF SignerOK
<1>2. CASE b = None
  BY <1>2 DEF ExpireSlot, Quiet, NoContradiction
<1>3. CASE b # None
  <2>1. b \in Blocks  BY <1>1, <1>3 DEF SignerType
  <2>2. d1 \in SignerType /\ SameButQueue(d, d1) /\ d1.slot = None /\ d1.queue = d.queue
    BY <1>1 DEF SignerType, SameButQueue
  <2>3. None \notin Blocks  BY BlocksAssumption
  <2> HIDE DEF d1
  <2>4. NoRepeats(d1.queue)  BY <2>2 DEF SignerOK, QueueOK
  <2>5. SignerOK(d1, n, x, Blocks) /\ Quiet(d, d1)
    BY <2>2, <2>3, <2>4, SameButQueueIsQuiet
  <2>6. CASE HasReachedConsensus(d.row[b])
    BY <1>3, <2>5, <2>6 DEF ExpireSlot, d1
  <2>7. CASE ~HasReachedConsensus(d.row[b])
    <3> DEFINE r  == d1.row[b]
               m  == MarkLocallyRejected(r, "reconsider")
               d2 == [d1 EXCEPT !.row[b] = m]
               d3 == [d2 EXCEPT !.sentRej = @ \cup {<<b, "reconsider">>}]
    <3>1. ExpireSlot(d) = d3
      <4>1. ExpireSlot(d) = [d1 EXCEPT !.row[b] = MarkLocallyRejected(@, "reconsider"),
                                       !.sentRej = @ \cup {<<b, "reconsider">>}]
        BY <1>3, <2>7 DEF ExpireSlot, d1
      <4>2. QED  BY <2>2, <4>1 DEF SignerType
    <3>2. r \in Rows /\ RowOK(r, b, n, x)
      BY <2>1, <2>2, <2>5 DEF SignerType, SignerOK
    <3>3. r.state # "Unseen" /\ r.valid # "yes"
      BY <2>1, <2>2 DEF SignerOK, QueueOK, SameButQueue
    <3>4. r.self = FALSE  BY <3>2, <3>3 DEF RowOK, Rows
    <3>5. "reconsider" \in Codes  BY DEF Codes
    <3>6. /\ m \in Rows /\ RowOK(m, b, n, x) /\ m.self = FALSE /\ m.valid = "no"
          /\ m.state # "Unseen"
      <4> HIDE DEF r, b
      <4>1. QED  BY <3>2, <3>3, <3>4, <3>5, RejectKeepsRowOK
    <3>7. d1.row[b].self = FALSE  BY <3>4
    <3> HIDE DEF r, m
    <3>8. SignerOK(d2, n, x, Blocks) /\ Quiet(d1, d2)
      <4>1. m.self = d1.row[b].self  BY <3>6, <3>7
      <4> HIDE DEF b
      <4>2. QED  BY <2>1, <2>5, <3>6, <4>1, WriteRow
    <3>9. b \notin Self(d2)
      BY <3>7, <3>8 DEF Quiet, Self
    <3> HIDE DEF d2, b
    <3>10. SignerOK(d3, n, x, Blocks) /\ Quiet(d2, d3)
      BY <2>1, <3>5, <3>8, <3>9, SendRejectionIsQuiet
    <3> HIDE DEF d3
    <3>11. Quiet(d1, d3)  BY <3>8, <3>10, QuietQuiet
    <3>12. Quiet(d, d3)  BY <2>5, <3>11, QuietQuiet
    <3>13. QED  BY <3>1, <3>10, <3>12
  <2>8. QED  BY <2>6, <2>7
<1>4. QED  BY <1>2, <1>3

\* The slot is freed for the block that was answered.
LEMMA FreeSlotIsQuiet ==
  ASSUME NEW d, NEW n, NEW x, SignerOK(d, n, x, Blocks), NEW b \in Blocks
  PROVE  LET d2 == FreeSlot(d, b)
         IN  SignerOK(d2, n, x, Blocks) /\ Quiet(d, d2) /\ d2.slot # b
<1> DEFINE d2 == FreeSlot(d, b)
<1>1. d \in SignerType /\ NoRepeats(d.queue)  BY DEF SignerOK, QueueOK
<1>2. None \notin Blocks  BY BlocksAssumption
<1>3. /\ d2 \in SignerType /\ SameButQueue(d, d2) /\ d2.queue = d.queue
      /\ d2.slot = IF d.slot = b THEN None ELSE d.slot
  BY <1>1 DEF FreeSlot, SignerType, SameButQueue
<1> HIDE DEF d2
<1>4. d2.slot # b  BY <1>2, <1>3
<1>5. \A c \in Blocks : d2.slot = c \/ InSeq(d2.queue, c)
                          => c \in Blocks /\ (d.slot = c \/ InSeq(d.queue, c))
  BY <1>2, <1>3
<1>a. d2.slot \in Blocks \cup {None}  BY <1>3 DEF SignerType
<1>6. SignerOK(d2, n, x, Blocks) /\ Quiet(d, d2)
  BY <1>1, <1>3, <1>5, <1>a, SameButQueueIsQuiet
<1>7. QED  BY <1>4, <1>6 DEF d2

\* The tail of handle_block_validate_response puts the queue right for the block
\* that was answered.
LEMMA FinishValidationIsQuiet ==
  ASSUME NEW d, NEW n, NEW x, NEW b \in Blocks, SignerOK(d, n, x, Blocks \ {b}),
         NEW e, e.sub \in {"ok", "wait", "error"}
  PROVE  LET d2 == FinishValidation(d, b, e)
         IN  SignerOK(d2, n, x, Blocks) /\ Quiet(d, d2)
<1> DEFINE q  == DropFromSeq(d.queue, b)
           d1 == [d EXCEPT !.queue = q]
           d2 == CheckPending(d1, e.sub)
<1>1. d \in SignerType /\ NoRepeats(d.queue)  BY DEF SignerOK, QueueOK
<1>2. d.queue \in Seq(Blocks)  BY <1>1 DEF SignerType
<1>3. /\ q \in Seq(Blocks) /\ NoRepeats(q) /\ ~InSeq(q, b)
      /\ \A y : InSeq(q, y) => InSeq(d.queue, y)
  BY <1>1, <1>2, DropFromSeqFacts
<1> HIDE DEF q
<1>4. /\ d1 \in SignerType /\ SameButQueue(d, d1) /\ d1.queue = q /\ d1.slot = d.slot
  BY <1>1, <1>3 DEF SignerType, SameButQueue
<1>5. FinishValidation(d, b, e) = d2  BY DEF FinishValidation, q
<1> HIDE DEF d1
<1>6. /\ d1.slot \in Blocks \cup {None}
      /\ \A c \in Blocks : d1.slot = c \/ InSeq(d1.queue, c)
                          => c \in Blocks \ {b} /\ (d.slot = c \/ InSeq(d.queue, c))
  <2>1. d.slot \in (Blocks \ {b}) \cup {None} /\ None \notin Blocks
    BY BlocksAssumption DEF SignerOK, QueueOK
  <2>2. QED  BY <1>3, <1>4, <2>1
<1>7. SignerOK(d1, n, x, Blocks) /\ Quiet(d, d1)
  BY <1>3, <1>4, <1>6, SameButQueueIsQuiet
<1>8. SignerOK(d2, n, x, Blocks) /\ Quiet(d1, d2)
  BY <1>7, CheckPendingIsQuiet
<1> HIDE DEF d2
<1>9. Quiet(d, d2)  BY <1>7, <1>8, QuietQuiet
<1>10. QED  BY <1>5, <1>8, <1>9
\* Between the answer for b and the end of the pass, only the other blocks have
\* to be consistent with the queue.
LEMMA SetBlockAside ==
  ASSUME NEW d, NEW n, NEW x, SignerOK(d, n, x, Blocks), NEW b \in Blocks, d.slot # b
  PROVE  SignerOK(d, n, x, Blocks \ {b})
  BY DEF SignerOK, QueueOK

\* handle_block_validate_ok for a block that awaits its verdict
LEMMA ApproveValidatedMoves ==
  ASSUME NEW d, NEW n, NEW x, NEW b \in Blocks, SignerOK(d, n, x, Blocks \ {b}),
         NodeOK(n, x), NEW s \in Signers, NEW e, AwaitsVerdict(d, b)
  PROVE  LET d2 == ApproveValidated(d, n, s, b, e)
         IN  SignerOK(d2, n, x, Blocks \ {b}) /\ Moves(d, d2, x)
<1> DEFINE W  == Blocks \ {b}
           r  == d.row[b]
           up == "check" \in e.up
           v  == DbVerdict(d, n, b, up, e)
           d1 == [d EXCEPT !.row = RowsAfterDbCheck(d, n, b, up, e)]
           m  == MarkPreCommitted(r)
           d2 == [d1 EXCEPT !.row[b] = m]
           d3 == [d2 EXCEPT !.sentPc = @ \cup {b}]
           d4 == HandlePreCommit(d3, n, s, s, b, e)
<1>1. d \in SignerType /\ W \subseteq Blocks  BY DEF SignerOK
<1>2. r \in Rows /\ RowOK(r, b, n, x)  BY <1>1 DEF SignerType, SignerOK
<1>3. r.state # "Unseen" /\ r.valid = "unknown" /\ r.self = FALSE /\ r.reason = "none"
  BY <1>2 DEF AwaitsVerdict, RowOK, Rows
<1>4. v \in Codes \cup {"none"}  BY DEF DbVerdict, Codes
<1> HIDE DEF W
<1>5. /\ SignerOK(d1, n, x, W) /\ Quiet(d, d1) /\ d1.row[b].self = FALSE
  <2> HIDE DEF up
  <2>1. /\ SignerOK(d1, n, x, W) /\ Quiet(d, d1)
        /\ \A c \in Blocks : d1.row[c].self = d.row[c].self
    BY <1>1, RowsAfterDbCheckIsQuiet DEF W
  <2>2. QED  BY <1>3, <2>1
<1>6. ApproveValidated(d, n, s, b, e) =
        IF v # "none" THEN Reject(d1, s, b, r, v)
        ELSE IF r.state = "LocallyRejected" THEN d1
        ELSE HandlePreCommit([d1 EXCEPT !.row[b] = m, !.sentPc = @ \cup {b}], n, s, s, b, e)
  BY DEF ApproveValidated
<1> HIDE DEF d1, v
<1>7. CASE v # "none"
  <2>1. v \in Codes  BY <1>4, <1>7
  <2> HIDE DEF r
  <2>2. LET z == Reject(d1, s, b, r, v)
        IN  SignerOK(z, n, x, W) /\ Quiet(d1, z)
    BY <1>2, <1>3, <1>5, <2>1, RejectIsQuiet
  <2>3. QED  BY <1>5, <1>6, <1>7, <2>2, QuietQuiet, QuietIsMove DEF W
<1>8. CASE v = "none" /\ r.state = "LocallyRejected"
  <2>1. ApproveValidated(d, n, s, b, e) = d1  BY <1>6, <1>8
  <2>2. QED  BY <1>5, <2>1, QuietIsMove DEF W
<1>9. CASE v = "none" /\ r.state # "LocallyRejected"
  <2>1. /\ m \in Rows /\ (m.state = r.state \/ m.state = "PreCommitted")
        /\ m.valid = "yes" /\ m.reason = "none" /\ m.self = FALSE
    <3> HIDE DEF r
    <3>1. QED  BY <1>2, <1>3, MarkPreCommittedFacts
  <2> HIDE DEF m
  <2>2. RowOK(m, b, n, x)  BY <1>2, <2>1 DEF RowOK
  <2>3. b \notin W /\ m.self = d1.row[b].self  BY <1>5, <2>1 DEF W
  <2>4. SignerOK(d2, n, x, W) /\ Quiet(d1, d2)
    BY <1>5, <2>1, <2>2, <2>3, WriteRow
  <2>5. d1 \in SignerType  BY <1>5 DEF SignerOK
  <2>6. [d1 EXCEPT !.row[b] = m, !.sentPc = @ \cup {b}] = d3
    BY <2>5 DEF SignerType
  <2>7. ApproveValidated(d, n, s, b, e) = d4  BY <1>6, <1>9, <2>6
  <2> HIDE DEF d2
  <2>8. SignerOK(d3, n, x, W) /\ Quiet(d2, d3)  BY <2>4, SendPreCommitIsQuiet
  <2> HIDE DEF d3
  <2>9. SignerOK(d4, n, x, W) /\ Moves(d3, d4, x)
    BY <1>1, <2>8, HandlePreCommitMoves
  <2> HIDE DEF d4
  <2>10. Quiet(d1, d3)  BY <2>4, <2>8, QuietQuiet
  <2>11. Quiet(d, d3)  BY <1>5, <2>10, QuietQuiet
  <2>12. Moves(d, d4, x)  BY <2>9, <2>11, QuietMoves
  <2>13. QED  BY <2>7, <2>9, <2>12 DEF W
<1>10. QED  BY <1>7, <1>8, <1>9

\* handle_block_validate_response with an approval
LEMMA HandleValidateOkMoves ==
  ASSUME NEW d, NEW n, NEW x, SignerOK(d, n, x, Blocks), NodeOK(n, x),
         NEW s \in Signers, NEW b \in Blocks, NEW e,
         e.sub \in {"ok", "wait", "error"}
  PROVE  LET d2 == HandleValidateOk(d, n, s, b, e)
         IN  SignerOK(d2, n, x, Blocks) /\ Moves(d, d2, x)
<1> DEFINE d1 == FreeSlot(d, b)
           d2 == IF AwaitsVerdict(d1, b) THEN ApproveValidated(d1, n, s, b, e) ELSE d1
           d3 == FinishValidation(d2, b, e)
<1>1. SignerOK(d1, n, x, Blocks) /\ Quiet(d, d1) /\ d1.slot # b
  BY FreeSlotIsQuiet
<1>2. HandleValidateOk(d, n, s, b, e) = d3  BY DEF HandleValidateOk
<1> HIDE DEF d1
<1>3. SignerOK(d1, n, x, Blocks \ {b})  BY <1>1, SetBlockAside
<1>4. SignerOK(d2, n, x, Blocks \ {b}) /\ Moves(d1, d2, x)
  <2>1. Moves(d1, d1, x)  BY DEF Moves, VotesAllowed, NoContradiction
  <2>2. CASE AwaitsVerdict(d1, b)  BY <1>3, <2>2, ApproveValidatedMoves
  <2>3. CASE ~AwaitsVerdict(d1, b)  BY <1>3, <2>1, <2>3
  <2>4. QED  BY <2>2, <2>3
<1> HIDE DEF d2
<1>5. SignerOK(d3, n, x, Blocks) /\ Quiet(d2, d3)
  BY <1>4, FinishValidationIsQuiet
<1> HIDE DEF d3
<1>6. Moves(d1, d3, x)  BY <1>4, <1>5, MovesQuiet
<1>7. Moves(d, d3, x)  BY <1>1, <1>6, QuietMoves
<1>8. QED  BY <1>2, <1>5, <1>7

\* handle_block_validate_response with a rejection
LEMMA HandleValidateRejectMoves ==
  ASSUME NEW d, NEW n, NEW x, SignerOK(d, n, x, Blocks),
         NEW s \in Signers, NEW b \in Blocks, NEW code \in Codes, NEW e,
         e.sub \in {"ok", "wait", "error"}
  PROVE  LET d2 == HandleValidateReject(d, s, b, code, e)
         IN  SignerOK(d2, n, x, Blocks) /\ Moves(d, d2, x)
<1> DEFINE d1 == FreeSlot(d, b)
           r  == d1.row[b]
           d2 == IF AwaitsVerdict(d1, b) THEN Reject(d1, s, b, r, code) ELSE d1
           d3 == FinishValidation(d2, b, e)
<1>1. SignerOK(d1, n, x, Blocks) /\ Quiet(d, d1) /\ d1.slot # b
  BY FreeSlotIsQuiet
<1>2. HandleValidateReject(d, s, b, code, e) = d3  BY DEF HandleValidateReject
<1> HIDE DEF d1
<1>3. SignerOK(d1, n, x, Blocks \ {b})  BY <1>1, SetBlockAside
<1>4. SignerOK(d2, n, x, Blocks \ {b}) /\ Quiet(d1, d2)
  <2>1. Quiet(d1, d1)  BY DEF Quiet, NoContradiction
  <2>2. CASE AwaitsVerdict(d1, b)
    <3>1. d1 \in SignerType  BY <1>1 DEF SignerOK
    <3>2. r \in Rows /\ RowOK(r, b, n, x)  BY <1>1, <3>1 DEF SignerType, SignerOK
    <3>3. r.state # "Unseen" /\ r.self = FALSE
      BY <2>2, <3>2 DEF AwaitsVerdict, RowOK, Rows
    <3>4. d1.row[b].self = FALSE  BY <3>3
    <3>5. d2 = Reject(d1, s, b, r, code)  BY <2>2
    <3> HIDE DEF r, d2
    <3>6. QED  BY <1>3, <3>2, <3>3, <3>4, <3>5, RejectIsQuiet
  <2>3. CASE ~AwaitsVerdict(d1, b)  BY <1>3, <2>1, <2>3
  <2>4. QED  BY <2>2, <2>3
<1> HIDE DEF d2
<1>5. SignerOK(d3, n, x, Blocks) /\ Quiet(d2, d3)
  BY <1>4, FinishValidationIsQuiet
<1> HIDE DEF d3
<1>6. Quiet(d1, d3)  BY <1>4, <1>5, QuietQuiet
<1>7. Quiet(d, d3)  BY <1>1, <1>6, QuietQuiet
<1>8. QED  BY <1>2, <1>5, <1>7, QuietIsMove

\* SignerEvent::NewBlock
LEMMA HandleNewBlockIsQuiet ==
  ASSUME NEW d, NEW n, NEW x, SignerOK(d, n, x, Blocks),
         NEW b \in Blocks, b \in n.processed
  PROVE  LET d2 == HandleNewBlock(d, b)
         IN  SignerOK(d2, n, x, Blocks) /\ Quiet(d, d2)
<1> DEFINE r == d.row[b]
           m == SeenAsTip(r)
<1>1. d \in SignerType  BY DEF SignerOK
<1>2. r \in Rows /\ RowOK(r, b, n, x)  BY <1>1 DEF SignerType, SignerOK
<1>3. /\ m \in Rows /\ RowOK(m, b, n, x) /\ m.self = r.self /\ m.valid = r.valid
      /\ r.state # "Unseen" => m.state # "Unseen"
  <2> HIDE DEF r
  <2>1. QED  BY <1>2, MarksKeepRowOK
<1>4. HandleNewBlock(d, b) = [d EXCEPT !.row[b] = m]  BY DEF HandleNewBlock
<1> HIDE DEF m
<1>5. QED  BY <1>3, <1>4, WriteRow
-----------------------------------------------------------------------------
\* Proposals.

\* A decision that stands is repeated: a signature only of a stamped block, a
\* rejection only of one without a stamp.
LEMMA RepeatDecisionMoves ==
  ASSUME NEW d, NEW n, NEW x, SignerOK(d, n, x, Blocks), NodeOK(n, x),
         NEW s \in Signers, NEW b \in Blocks, NEW e
  PROVE  LET d2 == RepeatDecision(d, n, s, b, e)
         IN  SignerOK(d2, n, x, Blocks) /\ Moves(d, d2, x)
<1> DEFINE r  == d.row[b]
           j2 == [d EXCEPT !.sentRej = @ \cup {<<b, "final">>}]
           g2 == [d EXCEPT !.sentSig = @ \cup {b}]
           d1 == [d EXCEPT !.sentPc = @ \cup {b}]
           p2 == HandlePreCommit(d1, n, s, s, b, e)
<1>1. d \in SignerType  BY DEF SignerOK
<1>2. r \in Rows /\ RowOK(r, b, n, x)  BY <1>1 DEF SignerType, SignerOK
<1>3. RepeatDecision(d, n, s, b, e) =
        IF GloballyApprovedAndResponded(r) \/ r.valid = "unknown" THEN d
        ELSE IF r.valid = "no" THEN j2
        ELSE IF r.self THEN g2
        ELSE IF r.state = "GloballyAccepted" THEN d ELSE p2
  BY DEF RepeatDecision
<1>4. Moves(d, d, x)  BY DEF Moves, VotesAllowed, NoContradiction
<1>5. ASSUME r.valid = "no" PROVE SignerOK(j2, n, x, Blocks) /\ Moves(d, j2, x)
  <2>1. b \notin Self(d)  BY <1>2, <1>5 DEF RowOK, Self
  <2>2. "final" \in Codes  BY DEF Codes
  <2>3. SignerOK(j2, n, x, Blocks) /\ Quiet(d, j2)  BY <2>1, <2>2, SendRejectionIsQuiet
  <2> HIDE DEF j2
  <2>4. QED  BY <2>3, QuietIsMove
<1>6. ASSUME r.self PROVE SignerOK(g2, n, x, Blocks) /\ Moves(d, g2, x)
  <2>1. b \in Self(d)  BY <1>6 DEF Self
  <2>2. SignerOK(g2, n, x, Blocks) /\ Quiet(d, g2)  BY <2>1, SendSignatureIsQuiet
  <2> HIDE DEF g2
  <2>3. QED  BY <2>2, QuietIsMove
<1>7. SignerOK(p2, n, x, Blocks) /\ Moves(d, p2, x)
  <2>1. SignerOK(d1, n, x, Blocks) /\ Quiet(d, d1)  BY SendPreCommitIsQuiet
  <2> HIDE DEF d1
  <2>2. SignerOK(p2, n, x, Blocks) /\ Moves(d1, p2, x)
    BY <2>1, HandlePreCommitMoves
  <2> HIDE DEF p2
  <2>3. QED  BY <2>1, <2>2, QuietMoves
<1> HIDE DEF r, j2, g2, d1, p2
<1>8. QED  BY <1>3, <1>4, <1>5, <1>6, <1>7

\* should_reevaluate_block never re-opens a stamped block.
LEMMA StampedDecisionStands ==
  ASSUME NEW d, NEW n, NEW x, NEW W, SignerOK(d, n, x, W), NEW b \in Blocks,
         ~DecisionStands(d, b)
  PROVE  b \notin Self(d)
<1>1. RowOK(d.row[b], b, n, x)  BY DEF SignerOK
<1>2. QED  BY <1>1 DEF DecisionStands, RowOK, Self

\* drain_pending_block_responses
LEMMA DrainIsQuiet ==
  ASSUME NEW d, NEW n, NEW x, SignerOK(d, n, x, Blocks), NEW b \in Blocks
  PROVE  LET d2 == Drain(d, b)
         IN  SignerOK(d2, n, x, Blocks) /\ Quiet(d, d2)
<1> DEFINE S  == Blocks \X (Codes \cup {"none"})
           P  == [k \in Votes |-> [v \in Signers |-> DropParked(d.parked[k][v], b)]]
           d2 == [d EXCEPT !.parked = P]
<1>1. d \in SignerType  BY DEF SignerOK
<1>2. \A k \in Votes, v \in Signers : d.parked[k][v] \in Seq(S)
  BY <1>1 DEF SignerType
<1> HIDE DEF S
<1>3. \A k \in Votes, v \in Signers : DropParked(d.parked[k][v], b) \in Seq(S)
  BY <1>2, DropParkedFacts
<1>4. P \in [Votes -> [Signers -> Seq(S)]]  BY <1>3
<1>5. Drain(d, b) = d2  BY DEF Drain
<1> HIDE DEF P
<1>6. d2 \in SignerType /\ SameCore(d, d2)
  BY <1>1, <1>4 DEF SignerType, SameCore, S
<1> HIDE DEF d2
<1>7. QED  BY <1>5, <1>6, SameCoreIsQuiet

\* process_pending_responses_for_block: the parked votes stamp at most the
\* group's threshold.
LEMMA ReplayIsQuiet ==
  ASSUME NEW d, NEW n, NEW x, SignerOK(d, n, x, Blocks), NEW old \in SignerType,
         NEW s \in Signers, NEW b \in Blocks, NEW e
  PROVE  LET d2 == Replay(d, old, s, b, e)
         IN  SignerOK(d2, n, x, Blocks) /\ Quiet(d, d2)
<1> DEFINE votes(k) == {v \in Signers : ParkedFor(old.parked[k][v], b) # {}}
           code(v)  == (CHOOSE z \in ParkedFor(old.parked["rej"][v], b) : TRUE)[2]
           counted  == d.preCommits[b] \cup votes("pc")
           tallied  == votes("sig") \cap (counted \cup {s})
           rejected == votes("rej") \ d.signatures[b]
           afterRej == [v \in Signers |-> IF v \in rejected THEN code(v)
                                          ELSE d.rejections[b][v]]
           blocked  == /\ rejected # {}
                       /\ BlocksThreshold({v \in Signers : afterRej[v] # "none"})
           reaches  == /\ tallied # {}
                       /\ MeetsThreshold(d.signatures[b] \cup
                                         (IF e.early THEN votes("sig") ELSE tallied))
           row1     == IF blocked THEN MarkGloballyRejected(d.row[b]) ELSE d.row[b]
           P == counted \cup (votes("sig") \ {s})
           J == [v \in Signers |-> IF v \in votes("sig") THEN "none" ELSE afterRej[v]]
           G == d.signatures[b] \cup votes("sig")
           m == IF reaches THEN MarkGroupSigned(row1) ELSE row1
           Q == IF reaches THEN d.posted \cup {b} ELSE d.posted
           d1 == [d EXCEPT !.row[b] = m]
           d2 == [d1 EXCEPT !.preCommits[b] = P, !.rejections[b] = J,
                            !.signatures[b] = G, !.posted = Q]
<1>1. d \in SignerType  BY DEF SignerOK
<1>2. Replay(d, old, s, b, e) =
        [d EXCEPT !.preCommits[b] = P, !.rejections[b] = J, !.signatures[b] = G,
                  !.row[b] = m, !.posted = Q]
  BY DEF Replay
<1>3. P \in SUBSET Signers /\ G \in SUBSET Signers /\ Q \in SUBSET Blocks
  BY <1>1 DEF SignerType
<1>4. J \in [Signers -> Codes \cup {"none"}]
  <2>1. ASSUME NEW v \in Signers PROVE afterRej[v] \in Codes \cup {"none"}
    <3>1. CASE v \in rejected
      <4> DEFINE q == old.parked["rej"][v]
                 z == CHOOSE y \in ParkedFor(q, b) : TRUE
      <4>1. "rej" \in Votes  BY DEF Votes
      <4>2. q \in Seq(Blocks \X (Codes \cup {"none"}))  BY <4>1 DEF SignerType
      <4>3. ParkedFor(q, b) # {}  BY <3>1
      <4> HIDE DEF q
      <4>4. z \in ParkedFor(q, b)  BY <4>3
      <4> HIDE DEF z
      <4>5. PICK i \in 1..Len(q) : z = q[i]  BY <4>4 DEF ParkedFor
      <4>6. z \in Blocks \X (Codes \cup {"none"})  BY <4>2, <4>5, ElementOfSeq
      <4>7. z[2] \in Codes \cup {"none"}  BY <4>6
      <4>8. code(v) = z[2]  BY DEF z, q
      <4> HIDE DEF rejected, code
      <4>9. afterRej[v] = code(v)  BY <3>1
      <4>10. QED  BY <4>7, <4>8, <4>9
    <3>2. CASE v \notin rejected
      <4> HIDE DEF rejected, code
      <4>1. QED  BY <1>1, <3>2 DEF SignerType
    <3>3. QED  BY <3>1, <3>2
  <2> HIDE DEF afterRej, votes
  <2>2. QED  BY <2>1
<1> HIDE DEF P, J, G, Q, votes, blocked, reaches
<1>5. d.row[b] \in Rows /\ RowOK(d.row[b], b, n, x)  BY <1>1 DEF SignerType, SignerOK
<1>6. /\ row1 \in Rows /\ RowOK(row1, b, n, x) /\ row1.self = d.row[b].self
      /\ row1.valid = d.row[b].valid
      /\ d.row[b].state # "Unseen" => row1.state # "Unseen"
  <2>1. CASE blocked  BY <1>5, <2>1, MarksKeepRowOK
  <2>2. CASE ~blocked  BY <1>5, <2>2
  <2>3. QED  BY <2>1, <2>2
<1> HIDE DEF row1
<1>7. /\ m \in Rows /\ RowOK(m, b, n, x) /\ m.self = d.row[b].self
      /\ m.valid = d.row[b].valid
      /\ d.row[b].state # "Unseen" => m.state # "Unseen"
  <2>1. CASE reaches  BY <1>6, <2>1, MarksKeepRowOK
  <2>2. CASE ~reaches  BY <1>6, <2>2
  <2>3. QED  BY <2>1, <2>2
<1> HIDE DEF m
<1>8. Replay(d, old, s, b, e) = d2  BY <1>1, <1>2 DEF SignerType
<1>9. SignerOK(d1, n, x, Blocks) /\ Quiet(d, d1)  BY <1>7, WriteRow
<1>10. d1 \in SignerType  BY <1>9 DEF SignerOK
<1> HIDE DEF d1
<1>11. d2 \in SignerType  BY <1>3, <1>4, <1>10 DEF SignerType
<1>12. SameCore(d1, d2)  BY <1>10 DEF SignerType, SameCore
<1> HIDE DEF d2
<1>13. SignerOK(d2, n, x, Blocks) /\ Quiet(d1, d2)
  BY <1>9, <1>11, <1>12, SameCoreIsQuiet
<1>14. Quiet(d, d2)  BY <1>9, <1>13, QuietQuiet
<1>15. QED  BY <1>8, <1>13, <1>14
\* insert_block of a new row over one without a stamp, with the block now in the
\* slot or the queue.
LEMMA StoreFreshIsQuiet ==
  ASSUME NEW d, NEW n, NEW x, SignerOK(d, n, x, Blocks), NEW b \in Blocks,
         b \notin Self(d), NEW answer \in {"ok", "wait", "error"}
  PROVE  LET d2 == IF d.slot = None THEN Submit(d, b, answer, QueueAtEnd(d.queue, b))
                   ELSE [d EXCEPT !.queue = QueueAtEnd(@, b)]
             d3 == [d2 EXCEPT !.row[b] = FreshRow]
         IN  SignerOK(d3, n, x, Blocks) /\ Quiet(d, d3)
<1> DEFINE q  == QueueAtEnd(d.queue, b)
           d2 == IF d.slot = None THEN Submit(d, b, answer, q)
                 ELSE [d EXCEPT !.queue = q]
           d3 == [d2 EXCEPT !.row[b] = FreshRow]
<1>1. d \in SignerType /\ NoRepeats(d.queue)  BY DEF SignerOK, QueueOK
<1>2. d.queue \in Seq(Blocks)  BY <1>1 DEF SignerType
<1>3. /\ q \in Seq(Blocks) /\ NoRepeats(q)
      /\ \A y : InSeq(q, y) => InSeq(d.queue, y) \/ y = b
  BY <1>1, <1>2, QueueAtEndFacts
<1> HIDE DEF q
<1>4. /\ d2 \in SignerType /\ SameButQueue(d, d2)
      /\ d2.slot \in {d.slot, b} /\ d2.queue \in {d.queue, q}
  <2>1. \/ d2 = [d EXCEPT !.slot = b, !.asked = @ \cup {b}]
        \/ d2 = [d EXCEPT !.queue = q]
        \/ d2 = d
    BY DEF Submit
  <2> HIDE DEF d2
  <2>2. CASE d2 = [d EXCEPT !.slot = b, !.asked = @ \cup {b}]
    BY <1>1, <2>2 DEF SignerType, SameButQueue
  <2>3. CASE d2 = [d EXCEPT !.queue = q]
    BY <1>1, <1>3, <2>3 DEF SignerType, SameButQueue
  <2>4. CASE d2 = d  BY <1>1, <2>4 DEF SameButQueue
  <2>5. QED  BY <2>1, <2>2, <2>3, <2>4
<1> HIDE DEF d2
<1>5. /\ FreshRow \in Rows /\ FreshRow.state = "Unprocessed"
      /\ FreshRow.valid = "unknown" /\ FreshRow.self = FALSE /\ FreshRow.reason = "none"
  BY DEF FreshRow, Unseen, Rows, BlockStates, Codes
<1>6. d3 \in SignerType  BY <1>4, <1>5 DEF SignerType
<1>7. /\ d3.slot = d2.slot /\ d3.queue = d2.queue
      /\ d3.permits = d2.permits /\ d3.miner = d2.miner /\ d3.retired = d2.retired
      /\ d3.sentSig = d2.sentSig /\ d3.sentRej = d2.sentRej
      /\ \A c \in Blocks : d3.row[c] = IF c = b THEN FreshRow ELSE d2.row[c]
  BY <1>4 DEF SignerType
<1> HIDE DEF d3
<1>8. Self(d3) = Self(d)
  BY <1>4, <1>5, <1>7 DEF Self, SameButQueue
<1>9. Quiet(d, d3)
  BY <1>4, <1>7, <1>8 DEF Quiet, NoContradiction, SameButQueue
<1>10. \A c \in Blocks : RowOK(d3.row[c], c, n, x)
  <2>1. RowOK(FreshRow, b, n, x)  BY <1>5 DEF RowOK
  <2>2. QED  BY <1>4, <1>7, <2>1 DEF SignerOK, SameButQueue
<1>11. QueueOK(d3, Blocks)
  <2>1. NoRepeats(d3.queue)  BY <1>1, <1>3, <1>4, <1>7
  <2>2. d3.slot \in Blocks \cup {None}  BY <1>6 DEF SignerType
  <2>3. ASSUME NEW c \in Blocks, d3.slot = c \/ InSeq(d3.queue, c)
        PROVE  d3.row[c].state # "Unseen" /\ d3.row[c].valid # "yes"
    <3>1. CASE c = b  BY <1>5, <1>7, <3>1
    <3>2. CASE c # b
      <4>1. d.slot = c \/ InSeq(d.queue, c)  BY <1>3, <1>4, <1>7, <2>3, <3>2
      <4>2. d.row[c].state # "Unseen" /\ d.row[c].valid # "yes"
        BY <4>1 DEF SignerOK, QueueOK
      <4>3. QED  BY <1>4, <1>7, <3>2, <4>2 DEF SameButQueue
    <3>3. QED  BY <3>1, <3>2
  <2>4. QED  BY <2>1, <2>2, <2>3 DEF QueueOK
<1>12. SignerOK(d3, n, x, Blocks)
  BY <1>4, <1>6, <1>7, <1>8, <1>10, <1>11 DEF SignerOK, PermitsOK, SameButQueue
<1>13. QED  BY <1>9, <1>12 DEF d3, d2, q

\* The end of handle_block_proposal_inner for a proposal that passed.
LEMMA TakeUpIsQuiet ==
  ASSUME NEW d, NEW n, NEW x, SignerOK(d, n, x, Blocks), NEW old \in SignerType,
         NEW s \in Signers, NEW b \in Blocks, b \notin Self(d), NEW late, NEW e,
         e.sub \in {"ok", "wait", "error"}
  PROVE  LET d2 == TakeUp(d, old, s, b, late, e)
         IN  SignerOK(d2, n, x, Blocks) /\ Quiet(d, d2)
<1> DEFINE d1 == IF late THEN ExpireSlot(d) ELSE d
           d2 == IF d1.slot = None THEN Submit(d1, b, e.sub, QueueAtEnd(d1.queue, b))
                 ELSE [d1 EXCEPT !.queue = QueueAtEnd(@, b)]
           d3 == [d2 EXCEPT !.row[b] = FreshRow]
           d4 == Replay(d3, old, s, b, e)
<1>1. SignerOK(d1, n, x, Blocks) /\ Quiet(d, d1)
  <2>1. Quiet(d, d)  BY DEF Quiet, NoContradiction
  <2>2. QED  BY <2>1, ExpireSlotIsQuiet
<1>2. TakeUp(d, old, s, b, late, e) \in {d3, d4}  BY DEF TakeUp
<1> HIDE DEF d1
<1>3. b \notin Self(d1)  BY <1>1 DEF Quiet
<1>4. SignerOK(d3, n, x, Blocks) /\ Quiet(d1, d3)  BY <1>1, <1>3, StoreFreshIsQuiet
<1> HIDE DEF d3
<1>5. SignerOK(d4, n, x, Blocks) /\ Quiet(d3, d4)  BY <1>4, ReplayIsQuiet
<1> HIDE DEF d4
<1>6. Quiet(d, d3)  BY <1>1, <1>4, QuietQuiet
<1>7. Quiet(d, d4)  BY <1>5, <1>6, QuietQuiet
<1>8. QED  BY <1>2, <1>4, <1>5, <1>6, <1>7

\* handle_block_proposal_inner for a block without a stamp
LEMMA EvaluateIsQuiet ==
  ASSUME NEW d, NEW n, NEW x, SignerOK(d, n, x, Blocks), NodeOK(n, x),
         NEW s \in Signers, NEW b \in Blocks, b \notin Self(d),
         NEW view \in Verdicts, NEW late, NEW e, e.sub \in {"ok", "wait", "error"}
  PROVE  LET d2 == Evaluate(d, n, s, b, view, late, e)
         IN  SignerOK(d2, n, x, Blocks) /\ Quiet(d, d2)
<1> DEFINE d1 == IF d.row[b].state = "Unseen" THEN Drain(d, b) ELSE d
           d2 == [d1 EXCEPT !.row = RowsAfterIntake(d1, n, b, e)]
           d3 == TakeUp(d2, d, s, b, late, e)
<1>1. d \in SignerType  BY DEF SignerOK
<1>2. Quiet(d, d)  BY DEF Quiet, NoContradiction
<1>3. SignerOK(d1, n, x, Blocks) /\ Quiet(d, d1)  BY <1>2, DrainIsQuiet
<1>4. \/ \E code \in Codes : Evaluate(d, n, s, b, view, late, e) = RefuseProposal(d, b, code)
      \/ \E code \in Codes : Evaluate(d, n, s, b, view, late, e) = RefuseProposal(d1, b, code)
      \/ \E code \in Codes : Evaluate(d, n, s, b, view, late, e) = RefuseProposal(d2, b, code)
      \/ Evaluate(d, n, s, b, view, late, e) = d3
  <2> HIDE DEF d1, d2, d3
  <2>1. "reconsider" \in Codes /\ "final" \in Codes  BY DEF Codes
  <2>2. Evaluate(d, n, s, b, view, late, e) =
          CASE d.retired          -> RefuseProposal(d, b, "reconsider")
            [] ~d.retired /\ view = "old"     -> RefuseProposal(d, b, "final")
            [] ~d.retired /\ view = "notYet"  -> RefuseProposal(d1, b, "reconsider")
            [] ~d.retired /\ view = "invalid" -> RefuseProposal(d1, b, "final")
            [] ~d.retired /\ view \in {"ok", "extend"} ->
                 IF ~PassesIntake(d1, n, b, e) THEN RefuseProposal(d2, b, "final")
                 ELSE IF view = "extend" THEN RefuseProposal(d2, b, "reconsider")
                 ELSE d3
    BY DEF Evaluate, d1, d2, d3
  <2>3. CASE d.retired  BY <2>1, <2>2, <2>3
  <2>4. CASE ~d.retired /\ view = "old"  BY <2>1, <2>2, <2>4
  <2>5. CASE ~d.retired /\ view = "notYet"  BY <2>1, <2>2, <2>5
  <2>6. CASE ~d.retired /\ view = "invalid"  BY <2>1, <2>2, <2>6
  <2>7. CASE ~d.retired /\ view \in {"ok", "extend"}  BY <2>1, <2>2, <2>7
  <2>8. QED  BY <2>3, <2>4, <2>5, <2>6, <2>7 DEF Verdicts
<1> HIDE DEF d1
<1>5. SignerOK(d2, n, x, Blocks) /\ Quiet(d1, d2)
  BY <1>3, RowsAfterLatestIsQuiet DEF RowsAfterIntake
<1> HIDE DEF d2
<1>6. Quiet(d, d2)  BY <1>3, <1>5, QuietQuiet
<1>7. b \notin Self(d1) /\ b \notin Self(d2)  BY <1>3, <1>6 DEF Quiet
<1>8. SignerOK(d3, n, x, Blocks) /\ Quiet(d2, d3)
  BY <1>1, <1>5, <1>7, TakeUpIsQuiet
<1> HIDE DEF d3
<1>9. Quiet(d, d3)  BY <1>6, <1>8, QuietQuiet
<1>10. ASSUME NEW y, SignerOK(y, n, x, Blocks), Quiet(d, y), NEW code \in Codes
       PROVE  LET z == RefuseProposal(y, b, code)
              IN  SignerOK(z, n, x, Blocks) /\ Quiet(d, z)
  <2> DEFINE z == [y EXCEPT !.sentRej = @ \cup {<<b, code>>}]
  <2>1. b \notin Self(y)  BY <1>10 DEF Quiet
  <2>2. SignerOK(z, n, x, Blocks) /\ Quiet(y, z)
    BY <1>10, <2>1, SendRejectionIsQuiet
  <2>3. RefuseProposal(y, b, code) = z  BY DEF RefuseProposal
  <2> HIDE DEF z
  <2>4. Quiet(d, z)  BY <1>10, <2>2, QuietQuiet
  <2>5. QED  BY <2>2, <2>3, <2>4
<1>11. QED  BY <1>2, <1>3, <1>4, <1>5, <1>6, <1>8, <1>9, <1>10

\* handle_block_proposal
LEMMA HandleProposalMoves ==
  ASSUME NEW d, NEW n, NEW x, SignerOK(d, n, x, Blocks), NodeOK(n, x),
         NEW s \in Signers, NEW b \in Blocks,
         NEW view \in Verdicts, NEW late, NEW e, e.sub \in {"ok", "wait", "error"}
  PROVE  LET d2 == HandleProposal(d, n, s, b, view, late, e)
         IN  SignerOK(d2, n, x, Blocks) /\ Moves(d, d2, x)
<1>1. CASE DecisionStands(d, b)
  BY <1>1, RepeatDecisionMoves DEF HandleProposal
<1>2. CASE ~DecisionStands(d, b)
  <2> DEFINE d2 == Evaluate(d, n, s, b, view, late, e)
  <2>1. b \notin Self(d)  BY <1>2, StampedDecisionStands
  <2>2. SignerOK(d2, n, x, Blocks) /\ Quiet(d, d2)  BY <2>1, EvaluateIsQuiet
  <2>3. HandleProposal(d, n, s, b, view, late, e) = d2  BY <1>2 DEF HandleProposal
  <2> HIDE DEF d2
  <2>4. QED  BY <2>2, <2>3, QuietIsMove
<1>3. QED  BY <1>1, <1>2
-----------------------------------------------------------------------------
\* Steps.

\* A signer handles an event.
PassStep(s) ==
  \E d2 \in SignerType :
    /\ signer' = [signer EXCEPT ![s] = d2]
    /\ SignerOK(d2, node[s], excused[s], Blocks)
    /\ VotesAllowed(signer[s], d2, excused[s])
    /\ UNCHANGED <<node, excused>>

\* The world of s changes: a new burn block, time, the node's view of the chain.
\* Nothing is stamped or sent.
WorldStep(s) ==
  \E d2 \in SignerType, n2 \in NodeType, P \in SUBSET (Blocks \X Blocks) :
    /\ signer'  = [signer EXCEPT ![s] = d2]
    /\ node'    = [node EXCEPT ![s] = n2]
    /\ excused' = [excused EXCEPT ![s] = @ \cup P]
    /\ Self(d2) = Self(signer[s]) /\ NoContradiction(signer[s], d2)
    /\ SignerOK(d2, n2, excused[s] \cup P, Blocks)
    /\ NodeOK(n2, excused[s] \cup P)

\* What the invariant says of one signer.
LEMMA InvFor ==
  ASSUME SignerInv, NEW s \in Honest
  PROVE  /\ s \in Signers
         /\ signer[s] \in SignerType /\ node[s] \in NodeType
         /\ excused[s] \in SUBSET (Blocks \X Blocks)
         /\ SignerOK(signer[s], node[s], excused[s], Blocks)
         /\ NodeOK(node[s], excused[s])
<1>1. Honest \subseteq Signers  BY HonestAssumption
<1>2. QED  BY <1>1 DEF SignerInv, TypeOK

\* The node's answers to a submission.
LEMMA AnswersType ==
  ASSUME NEW s, NEW orders, NEW e \in Answers(s, orders)
  PROVE  e.pre \in {"ok", "wait", "error"} /\ e.sub \in {"ok", "wait", "error"}
<1>1. Outcomes \subseteq {"ok", "wait", "error"}  BY DEF Outcomes
<1>2. e.sub \in Outcomes /\ e.pre \in Outcomes \cup {"ok"}  BY DEF Answers
<1>3. QED  BY <1>1, <1>2

\* Excuses and processed blocks only help.
LEMMA SignerOKMonotone ==
  ASSUME NEW d, NEW n, NEW x, NEW n2, NEW x2, SignerOK(d, n, x, Blocks),
         n.processed \subseteq n2.processed, x \subseteq x2
  PROVE  SignerOK(d, n2, x2, Blocks)
<1>1. \A b \in Blocks : RowOK(d.row[b], b, n2, x2)  BY DEF SignerOK, RowOK
<1>2. PermitsOK(d, x2)  BY DEF SignerOK, PermitsOK
<1>3. QED  BY <1>1, <1>2 DEF SignerOK

\* The housekeeping around a handler: pending validations are looked at before
\* the event and after it.
LEMMA PassOf ==
  ASSUME SignerInv, NEW s \in Honest, NEW orders, NEW e \in Answers(s, orders), NEW d,
         SignerOK(Before(s, e), node[s], excused[s], Blocks) =>
           SignerOK(d, node[s], excused[s], Blocks) /\ Moves(Before(s, e), d, excused[s]),
         Finish(s, d, e)
  PROVE  PassStep(s)
<1> DEFINE n  == node[s]
           x  == excused[s]
           d0 == signer[s]
           d1 == Before(s, e)
           d2 == CheckPending(d, e.sub)
<1>1. e.pre \in {"ok", "wait", "error"} /\ e.sub \in {"ok", "wait", "error"}
  BY AnswersType
<1>2. SignerOK(d0, n, x, Blocks)  BY InvFor
<1>3. d1 = CheckPending(d0, e.pre)  BY DEF Before
<1>4. SignerOK(d1, n, x, Blocks) /\ Quiet(d0, d1)
  <2> HIDE DEF n, x, d0, d1
  <2>1. QED  BY <1>1, <1>2, <1>3, CheckPendingIsQuiet
<1>5. SignerOK(d, n, x, Blocks) /\ Moves(d1, d, x)  BY <1>4
<1>6. signer' = [signer EXCEPT ![s] = d2] /\ UNCHANGED <<node, excused>>
  BY DEF Finish
<1> HIDE DEF n, x, d0, d1
<1>7. SignerOK(d2, n, x, Blocks) /\ Quiet(d, d2)
  BY <1>1, <1>5, CheckPendingIsQuiet
<1> HIDE DEF d2
<1>8. Moves(d1, d2, x)  BY <1>5, <1>7, MovesQuiet
<1>9. Moves(d0, d2, x)  BY <1>4, <1>8, QuietMoves
<1>10. VotesAllowed(d0, d2, x) /\ d2 \in SignerType  BY <1>7, <1>9 DEF Moves, SignerOK
<1>11. QED  BY <1>6, <1>7, <1>10 DEF PassStep, d0, n, x

\* A restart loses the slot and the active miner, and no vote.
LEMMA RebootFacts ==
  ASSUME NEW d, NEW n, NEW x, SignerOK(d, n, x, Blocks)
  PROVE  LET d2 == Reboot(d)
         IN  /\ SignerOK(d2, n, x, Blocks)
             /\ Self(d2) = Self(d) /\ d2.sentRej = d.sentRej
<1> DEFINE d2 == Reboot(d)
<1>1. d \in SignerType  BY DEF SignerOK
<1>2. None \notin Blocks  BY BlocksAssumption
<1>3. /\ d2 \in SignerType /\ d2.slot = None /\ d2.queue = d.queue /\ d2.row = d.row
      /\ d2.permits = d.permits /\ d2.sentSig = d.sentSig /\ d2.sentRej = d.sentRej
  BY <1>1 DEF Reboot, SignerType
<1> HIDE DEF d2
<1>4. Self(d2) = Self(d)  BY <1>3 DEF Self
<1>5. QueueOK(d2, Blocks)  BY <1>2, <1>3 DEF SignerOK, QueueOK
<1>6. SignerOK(d2, n, x, Blocks)  BY <1>3, <1>4, <1>5 DEF SignerOK, PermitsOK
<1>7. QED  BY <1>3, <1>4, <1>6 DEF d2

\* A crash between the stamp and the signature leaves the stamp of a block that
\* was allowed to be signed.
LEMMA CrashStep ==
  ASSUME SignerInv, NEW s \in Honest, NEW from \in Signers, NEW b \in Blocks,
         NEW stored \in BOOLEAN, CrashWhileSigning(s, from, b, stored)
  PROVE  PassStep(s)
<1> DEFINE n  == node[s]
           x  == excused[s]
           d0 == signer[s]
<1>1. PICK e \in Answers(s, {TRUE}) :
        LET d  == AddPreCommit(Before(s, e), from, b)
            d1 == StampSelf(AfterRecheck(d, n, b, e), b, d.row[b])
        IN  /\ d.row[b].state # "Unseen"
            /\ MaySign(d, n, b, e)
            /\ signer' = [signer EXCEPT ![s] =
                 Reboot(IF stored THEN AddSignature(d1, s, b) ELSE d1)]
  BY DEF CrashWhileSigning
<1> DEFINE d1 == Before(s, e)
           d2 == AddPreCommit(d1, from, b)
           r  == d2.row[b]
           d3 == AfterRecheck(d2, n, b, e)
           d4 == StampSelf(d3, b, r)
           d5 == IF stored THEN AddSignature(d4, s, b) ELSE d4
           d6 == Reboot(d5)
<1>2. /\ r.state # "Unseen" /\ MaySign(d2, n, b, e)
      /\ signer' = [signer EXCEPT ![s] = d6] /\ UNCHANGED <<node, excused>>
  BY <1>1 DEF CrashWhileSigning
<1>3. SignerOK(d0, n, x, Blocks) /\ NodeOK(n, x) /\ s \in Signers  BY InvFor
<1>4. d1 = CheckPending(d0, e.pre) /\ e.pre \in {"ok", "wait", "error"}
  BY AnswersType DEF Before
<1> HIDE DEF n, x, d0, d1
<1>5. SignerOK(d1, n, x, Blocks) /\ Quiet(d0, d1)  BY <1>3, <1>4, CheckPendingIsQuiet
<1>6. SignerOK(d2, n, x, Blocks) /\ Quiet(d1, d2)  BY <1>5, AddPreCommitIsQuiet
<1> HIDE DEF d2
<1>7. r \in Rows /\ RowOK(r, b, n, x)  BY <1>6 DEF SignerOK, SignerType
<1>8. r.self = FALSE /\ r.valid = "yes"  BY <1>2, <1>7 DEF MaySign, MustDecide, Rows
<1>9. /\ SignerOK(d3, n, x, Blocks) /\ Quiet(d2, d3)
      /\ d3.row[b].self = FALSE /\ d3.row[b].valid = "yes"
  <2> DEFINE R  == RowsAfterDbCheck(d2, n, b, "recheck" \in e.up, e)
             z  == [d2 EXCEPT !.row = R]
  <2>1. /\ SignerOK(z, n, x, Blocks) /\ Quiet(d2, z)
        /\ \A c \in Blocks : /\ z.row[c].self = d2.row[c].self
                             /\ z.row[c].valid = d2.row[c].valid
    BY <1>3, <1>6, RowsAfterDbCheckIsQuiet
  <2>2. d3 = z  BY DEF AfterRecheck
  <2> HIDE DEF z, d3
  <2>3. QED  BY <1>8, <2>1, <2>2
<1>10. Recheck(d2, n, b, e) = "none" /\ ~HeldByConflict(d3, n, b, e)
  BY <1>2 DEF MaySign
<1>11. ~Frozen(d2, b)  BY <1>10 DEF Recheck, DbVerdict
<1>12. ~Frozen(d3, b)  BY <1>9, <1>11 DEF Quiet, Frozen
<1> HIDE DEF r, d3
<1>13. SiblingsExcused(d3, b, x)
  BY <1>3, <1>9, <1>10, GuardExcuses DEF SiblingsExcused
<1>14. SignerOK(d4, n, x, Blocks) /\ Moves(d3, d4, x)
  BY <1>2, <1>7, <1>8, <1>9, <1>12, <1>13, StampSelfMoves
<1> HIDE DEF d4
<1>15. SignerOK(d5, n, x, Blocks) /\ Quiet(d4, d5)
  <2>1. Quiet(d4, d4)  BY DEF Quiet, NoContradiction
  <2>2. QED  BY <1>3, <1>14, <2>1, AddSignatureIsQuiet
<1> HIDE DEF d5
<1>16. /\ SignerOK(d6, n, x, Blocks) /\ Self(d6) = Self(d5) /\ d6.sentRej = d5.sentRej
  BY <1>15, RebootFacts
<1> HIDE DEF d6
<1>17. Moves(d3, d5, x)  BY <1>14, <1>15, MovesQuiet
<1>18. Moves(d2, d5, x)  BY <1>9, <1>17, QuietMoves
<1>19. Moves(d1, d5, x)  BY <1>6, <1>18, QuietMoves
<1>20. Moves(d0, d5, x)  BY <1>5, <1>19, QuietMoves
<1>21. VotesAllowed(d0, d6, x)
  BY <1>16, <1>20 DEF Moves, VotesAllowed, NoContradiction
<1>22. d6 \in SignerType  BY <1>16 DEF SignerOK
<1>23. QED  BY <1>2, <1>16, <1>21, <1>22 DEF PassStep, n, x, d0
\* A pass without an event.
LEMMA TickStep ==
  ASSUME SignerInv, NEW s \in Honest, NEW late \in BOOLEAN, Tick(s, late)
  PROVE  PassStep(s)
<1> DEFINE n  == node[s]
           x  == excused[s]
           d0 == signer[s]
           d1 == IF late THEN ExpireSlot(d0) ELSE d0
<1>1. PICK answer \in Outcomes : signer' = [signer EXCEPT ![s] = CheckPending(d1, answer)]
  BY DEF Tick
<1>2. answer \in {"ok", "wait", "error"} /\ UNCHANGED <<node, excused>>
  BY DEF Tick, Outcomes
<1>3. SignerOK(d0, n, x, Blocks)  BY InvFor
<1> DEFINE d2 == CheckPending(d1, answer)
<1> HIDE DEF n, x, d0
<1>4. SignerOK(d1, n, x, Blocks) /\ Quiet(d0, d1)
  <2>1. Quiet(d0, d0)  BY DEF Quiet, NoContradiction
  <2>2. QED  BY <1>3, <2>1, ExpireSlotIsQuiet
<1> HIDE DEF d1
<1>5. SignerOK(d2, n, x, Blocks) /\ Quiet(d1, d2)  BY <1>2, <1>4, CheckPendingIsQuiet
<1>6. signer' = [signer EXCEPT ![s] = d2]  BY <1>1 DEF d1
<1> HIDE DEF d2
<1>7. Quiet(d0, d2)  BY <1>4, <1>5, QuietQuiet
<1>8. VotesAllowed(d0, d2, x) /\ d2 \in SignerType
  BY <1>5, <1>7, QuietIsMove DEF Moves, SignerOK
<1>9. QED  BY <1>2, <1>5, <1>6, <1>8 DEF PassStep, n, x, d0

\* A restart in the middle of nothing.
LEMMA RestartStep ==
  ASSUME SignerInv, NEW s \in Honest, Restart(s)
  PROVE  PassStep(s)
<1> DEFINE d0 == signer[s]
           d2 == Reboot(d0)
           n  == node[s]
           x  == excused[s]
<1>1. SignerOK(d0, n, x, Blocks)  BY InvFor
<1>2. signer' = [signer EXCEPT ![s] = d2] /\ UNCHANGED <<node, excused>>
  BY DEF Restart
<1> HIDE DEF d0, n, x
<1>3. SignerOK(d2, n, x, Blocks) /\ Self(d2) = Self(d0) /\ d2.sentRej = d0.sentRej
  BY <1>1, RebootFacts
<1> HIDE DEF d2
<1>4. VotesAllowed(d0, d2, x) /\ d2 \in SignerType
  BY <1>3 DEF VotesAllowed, NoContradiction, SignerOK
<1>5. QED  BY <1>2, <1>3, <1>4 DEF PassStep, d0, n, x

\* A new burn block: every permit comes with its excuse.
LEMMA BurnBlockStep ==
  ASSUME SignerInv, NEW s \in Honest, NEW u \in Tenures, NEW reorged \in SUBSET Tenures,
         NEW pruned \in SUBSET Tenures, NEW miner \in Tenures \cup {None},
         NEW retired \in BOOLEAN, ReceiveNewBurnBlock(s, u, reorged, pruned, miner, retired)
  PROVE  WorldStep(s)
<1> DEFINE n  == node[s]
           x  == excused[s]
           d0 == signer[s]
           P  == {c \in Blocks : Tenure[c] \in reorged} \X BranchOf(u)
           x2 == x \cup P
<1>1. PICK e \in Answers(s, {TRUE}) :
        signer' = [signer EXCEPT ![s] = CheckPending(
                     HandleNewBurnBlock(Before(s, e), u, reorged, pruned, miner, retired),
                     e.sub)]
  BY DEF ReceiveNewBurnBlock
<1>2. excused' = [excused EXCEPT ![s] = @ \cup P] /\ UNCHANGED node
  BY DEF ReceiveNewBurnBlock
<1>3. e.pre \in {"ok", "wait", "error"} /\ e.sub \in {"ok", "wait", "error"}
  BY AnswersType
<1>4. /\ SignerOK(d0, n, x, Blocks) /\ NodeOK(n, x)
      /\ node \in [Honest -> NodeType] /\ n \in NodeType
  BY InvFor DEF SignerInv, TypeOK
<1>5. P \in SUBSET (Blocks \X Blocks)  BY DEF BranchOf
<1> DEFINE d1 == Before(s, e)
           M  == [t \in Tenures |-> IF t \in reorged THEN u
                                    ELSE IF t \in pruned THEN None ELSE d1.permits[t]]
           d2 == [d1 EXCEPT !.permits = M, !.miner = miner, !.retired = retired]
           d3 == CheckPending(d2, e.sub)
<1>6. signer' = [signer EXCEPT ![s] = d3]  BY <1>1 DEF HandleNewBurnBlock
<1>7. d1 = CheckPending(d0, e.pre)  BY DEF Before
<1>8. node' = [node EXCEPT ![s] = n]  BY <1>2, <1>4
<1>9. NodeOK(n, x2)  BY <1>4 DEF NodeOK
<1> HIDE DEF n, x, d0, d1
<1>10. SignerOK(d1, n, x, Blocks) /\ Quiet(d0, d1)
  BY <1>3, <1>4, <1>7, CheckPendingIsQuiet
<1>11. SignerOK(d2, n, x2, Blocks) /\ Self(d2) = Self(d1) /\ d2.sentRej = d1.sentRej
  <2>1. d1 \in SignerType  BY <1>10 DEF SignerOK
  <2>2. M \in [Tenures -> Tenures \cup {None}]  BY <2>1 DEF SignerType
  <2>3. \A t \in Tenures : M[t] = IF t \in reorged THEN u
                                  ELSE IF t \in pruned THEN None ELSE d1.permits[t]
    OBVIOUS
  <2> HIDE DEF M
  <2>4. /\ d2 \in SignerType /\ d2.slot = d1.slot /\ d2.queue = d1.queue
        /\ d2.row = d1.row /\ d2.sentSig = d1.sentSig /\ d2.sentRej = d1.sentRej
        /\ d2.permits = M
    BY <2>1, <2>2 DEF SignerType
  <2> HIDE DEF d2
  <2>5. Self(d2) = Self(d1)  BY <2>4 DEF Self
  <2>6. PermitsOK(d2, x2)
    <3> SUFFICES ASSUME NEW b \in Blocks, NEW c \in Blocks, d2.permits[Tenure[c]] # None,
                        b \in BranchOf(d2.permits[Tenure[c]])
                 PROVE  <<c, b>> \in x2
      BY DEF PermitsOK
    <3>1. Tenure[c] \in Tenures  BY BlocksAssumption
    <3>2. CASE Tenure[c] \in reorged
      <4>1. b \in BranchOf(u)  BY <2>3, <2>4, <3>1, <3>2
      <4>2. QED  BY <3>2, <4>1
    <3>3. CASE Tenure[c] \notin reorged
      <4>1. d2.permits[Tenure[c]] = d1.permits[Tenure[c]]  BY <2>3, <2>4, <3>1, <3>3
      <4>2. <<c, b>> \in x  BY <1>10, <4>1 DEF SignerOK, PermitsOK
      <4>3. QED  BY <4>2
    <3>4. QED  BY <3>2, <3>3
  <2>7. SignerOK(d1, n, x2, Blocks)  BY <1>10, SignerOKMonotone
  <2> HIDE DEF x2
  <2>8. QueueOK(d2, Blocks)  BY <2>4, <2>7 DEF SignerOK, QueueOK
  <2>9. QED  BY <2>4, <2>5, <2>6, <2>7, <2>8 DEF SignerOK
<1> HIDE DEF d2, x2
<1>12. SignerOK(d3, n, x2, Blocks) /\ Quiet(d2, d3)
  BY <1>3, <1>11, CheckPendingIsQuiet
<1> HIDE DEF d3
<1>13. Self(d3) = Self(d0) /\ NoContradiction(d0, d3)
  BY <1>10, <1>11, <1>12 DEF Quiet, NoContradiction
<1>14. d3 \in SignerType  BY <1>12 DEF SignerOK
<1> HIDE DEF P
<1>15. QED
  BY <1>2, <1>4, <1>5, <1>6, <1>8, <1>9, <1>12, <1>13, <1>14 DEF WorldStep, n, x, d0, x2

\* An endorsement goes stale: the block may be given up for any other.
LEMMA ExpireStep ==
  ASSUME SignerInv, NEW s \in Honest, NEW b \in Blocks, Expire(s, b)
  PROVE  WorldStep(s)
<1> DEFINE n  == node[s]
           x  == excused[s]
           d0 == signer[s]
           P  == {b} \X Blocks
           x2 == x \cup P
           r  == [d0.row[b] EXCEPT !.fresh = FALSE]
           d2 == [d0 EXCEPT !.row[b] = r]
<1>1. /\ SignerOK(d0, n, x, Blocks) /\ NodeOK(n, x)
      /\ node \in [Honest -> NodeType] /\ n \in NodeType
      /\ signer \in [Honest -> SignerType]
  BY InvFor DEF SignerInv, TypeOK
<1>2. /\ signer' = [signer EXCEPT ![s] = d2]
      /\ excused' = [excused EXCEPT ![s] = @ \cup P] /\ UNCHANGED node
  BY DEF Expire
<1>3. P \in SUBSET (Blocks \X Blocks) /\ (\A c \in Blocks : <<b, c>> \in P)  OBVIOUS
<1>4. node' = [node EXCEPT ![s] = n]  BY <1>1, <1>2
<1>5. NodeOK(n, x2)  BY <1>1 DEF NodeOK
<1> HIDE DEF n, x, d0, P
<1>6. SignerOK(d0, n, x2, Blocks)  BY <1>1, SignerOKMonotone
<1>7. \A c \in Blocks : <<b, c>> \in x2  BY <1>3
<1> HIDE DEF x2
<1>8. d0.row[b] \in Rows /\ RowOK(d0.row[b], b, n, x2)
  BY <1>6 DEF SignerOK, SignerType
<1>9. /\ r \in Rows /\ r.self = d0.row[b].self /\ r.valid = d0.row[b].valid
      /\ r.state = d0.row[b].state /\ r.reason = d0.row[b].reason
  BY <1>8 DEF Rows
<1> HIDE DEF r
<1>10. RowOK(r, b, n, x2)  BY <1>7, <1>8, <1>9 DEF RowOK
<1>11. SignerOK(d2, n, x2, Blocks) /\ Quiet(d0, d2)
  BY <1>6, <1>9, <1>10, WriteRow
<1> HIDE DEF d2
<1>12. Self(d2) = Self(d0) /\ NoContradiction(d0, d2) /\ d2 \in SignerType
  BY <1>11 DEF Quiet, SignerOK
<1>13. QED
  BY <1>1, <1>2, <1>3, <1>4, <1>5, <1>11, <1>12 DEF WorldStep, n, x, d0, x2

\* The node processes a block or changes fork: what it shows to be dead may be
\* given up for any block.
LEMMA NodeStep ==
  ASSUME SignerInv, NEW s \in Honest, NEW n2 \in NodeType,
         node[s].processed \subseteq n2.processed, n2.chain \subseteq n2.processed,
         NodeBecomes(s, n2)
  PROVE  WorldStep(s)
<1> DEFINE n  == node[s]
           x  == excused[s]
           d0 == signer[s]
           P  == Dead(n2) \X Blocks
           x2 == x \cup P
<1>1. SignerOK(d0, n, x, Blocks) /\ NodeOK(n, x) /\ d0 \in SignerType
  BY InvFor
<1>2. /\ node' = [node EXCEPT ![s] = n2]
      /\ excused' = [excused EXCEPT ![s] = @ \cup P] /\ UNCHANGED signer
  BY DEF NodeBecomes
<1>3. signer' = [signer EXCEPT ![s] = d0]  BY <1>2 DEF SignerInv, TypeOK
<1>4. P \in SUBSET (Blocks \X Blocks)  BY DEF Dead, NodeType
<1>5. NodeOK(n2, x2)  BY DEF NodeOK
<1>6. n.processed \subseteq n2.processed  OBVIOUS
<1> HIDE DEF n, x, d0, P
<1>7. SignerOK(d0, n2, x2, Blocks)  BY <1>1, <1>6, SignerOKMonotone
<1>8. NoContradiction(d0, d0)  BY DEF NoContradiction
<1>9. QED  BY <1>1, <1>2, <1>3, <1>4, <1>5, <1>7, <1>8 DEF WorldStep, x, d0

\* Every action is one or the other.
LEMMA StepCases ==
  ASSUME SignerInv, NEW s \in Honest, Step(s)
  PROVE  PassStep(s) \/ WorldStep(s)
<1> DEFINE n == node[s]
           x == excused[s]
<1>0. s \in Signers /\ NodeOK(n, x) /\ n \in NodeType  BY InvFor
<1>1. ASSUME NEW b \in Blocks, NEW view \in Verdicts, NEW late \in BOOLEAN,
             ReceiveProposal(s, b, view, late)
      PROVE  PassStep(s)
  <2>1. PICK e \in Answers(s, BOOLEAN) :
          Finish(s, HandleProposal(Before(s, e), n, s, b, view, late, e), e)
    BY <1>1 DEF ReceiveProposal
  <2> DEFINE d == HandleProposal(Before(s, e), n, s, b, view, late, e)
  <2>2. e.sub \in {"ok", "wait", "error"}  BY AnswersType
  <2>3. SignerOK(Before(s, e), n, x, Blocks) =>
          SignerOK(d, n, x, Blocks) /\ Moves(Before(s, e), d, x)
    BY <1>0, <2>2, HandleProposalMoves
  <2> HIDE DEF d
  <2>4. QED  BY <2>1, <2>3, PassOf DEF d
<1>2. ASSUME NEW from \in Signers, NEW b \in Blocks, ReceivePreCommit(s, from, b)
      PROVE  PassStep(s)
  <2>1. PICK e \in Answers(s, {TRUE}) :
          Finish(s, HandlePreCommit(Before(s, e), n, s, from, b, e), e)
    BY <1>2 DEF ReceivePreCommit
  <2> DEFINE d == HandlePreCommit(Before(s, e), n, s, from, b, e)
  <2>2. SignerOK(Before(s, e), n, x, Blocks) =>
          SignerOK(d, n, x, Blocks) /\ Moves(Before(s, e), d, x)
    BY <1>0, HandlePreCommitMoves
  <2> HIDE DEF d
  <2>3. QED  BY <2>1, <2>2, PassOf DEF d
<1>3. ASSUME NEW from \in Signers, NEW b \in Blocks, ReceiveSignature(s, from, b)
      PROVE  PassStep(s)
  <2>1. PICK e \in Answers(s, {TRUE}) :
          Finish(s, HandleSignature(Before(s, e), n, s, from, b, e), e)
    BY <1>3 DEF ReceiveSignature
  <2> DEFINE d == HandleSignature(Before(s, e), n, s, from, b, e)
  <2>2. SignerOK(Before(s, e), n, x, Blocks) =>
          SignerOK(d, n, x, Blocks) /\ Moves(Before(s, e), d, x)
    BY <1>0, HandleSignatureMoves
  <2> HIDE DEF d
  <2>3. QED  BY <2>1, <2>2, PassOf DEF d
<1>4. ASSUME NEW from \in Signers, NEW b \in Blocks, NEW code \in Codes,
             ReceiveRejection(s, from, b, code)
      PROVE  PassStep(s)
  <2>1. PICK e \in Answers(s, {TRUE}) :
          Finish(s, HandleRejection(Before(s, e), from, b, code), e)
    BY <1>4 DEF ReceiveRejection
  <2> DEFINE d == HandleRejection(Before(s, e), from, b, code)
  <2>2. SignerOK(Before(s, e), n, x, Blocks) =>
          SignerOK(d, n, x, Blocks) /\ Quiet(Before(s, e), d)
    BY HandleRejectionIsQuiet
  <2> HIDE DEF d
  <2>3. QED  BY <2>1, <2>2, QuietIsMove, PassOf DEF d
<1>5. ASSUME NEW b \in Blocks, ReceiveValidateOk(s, b)
      PROVE  PassStep(s)
  <2>1. PICK e \in Answers(s, {TRUE}) :
          Finish(s, HandleValidateOk(Before(s, e), n, s, b, e), e)
    BY <1>5 DEF ReceiveValidateOk
  <2> DEFINE d == HandleValidateOk(Before(s, e), n, s, b, e)
  <2>2. e.sub \in {"ok", "wait", "error"}  BY AnswersType
  <2>3. SignerOK(Before(s, e), n, x, Blocks) =>
          SignerOK(d, n, x, Blocks) /\ Moves(Before(s, e), d, x)
    BY <1>0, <2>2, HandleValidateOkMoves
  <2> HIDE DEF d
  <2>4. QED  BY <2>1, <2>3, PassOf DEF d
<1>6. ASSUME NEW b \in Blocks, NEW code \in Codes, ReceiveValidateReject(s, b, code)
      PROVE  PassStep(s)
  <2>1. PICK e \in Answers(s, {TRUE}) :
          Finish(s, HandleValidateReject(Before(s, e), s, b, code, e), e)
    BY <1>6 DEF ReceiveValidateReject
  <2> DEFINE d == HandleValidateReject(Before(s, e), s, b, code, e)
  <2>2. e.sub \in {"ok", "wait", "error"}  BY AnswersType
  <2>3. SignerOK(Before(s, e), n, x, Blocks) =>
          SignerOK(d, n, x, Blocks) /\ Moves(Before(s, e), d, x)
    BY <1>0, <2>2, HandleValidateRejectMoves
  <2> HIDE DEF d
  <2>4. QED  BY <2>1, <2>3, PassOf DEF d
<1>7. ASSUME NEW b \in Blocks, ReceiveNewBlock(s, b)
      PROVE  PassStep(s)
  <2>1. PICK e \in Answers(s, {TRUE}) : Finish(s, HandleNewBlock(Before(s, e), b), e)
    BY <1>7 DEF ReceiveNewBlock
  <2> DEFINE d == HandleNewBlock(Before(s, e), b)
  <2>2. b \in n.processed  BY <1>7 DEF ReceiveNewBlock
  <2>3. SignerOK(Before(s, e), n, x, Blocks) =>
          SignerOK(d, n, x, Blocks) /\ Quiet(Before(s, e), d)
    BY <2>2, HandleNewBlockIsQuiet
  <2> HIDE DEF d
  <2>4. QED  BY <2>1, <2>3, QuietIsMove, PassOf DEF d
<1>8. ASSUME NEW b \in Blocks, NodeProcess(s, b) PROVE WorldStep(s)
  <2>1. PICK C \in ChainsAfter(n, b) :
          NodeBecomes(s, [n EXCEPT !.processed = @ \cup {b}, !.chain = C])
    BY <1>8 DEF NodeProcess
  <2> DEFINE n2 == [n EXCEPT !.processed = @ \cup {b}, !.chain = C]
  <2>2. n.chain \subseteq n.processed  BY <1>0 DEF NodeOK
  <2>3. C \subseteq n.processed \cup {b}  BY <2>2 DEF ChainsAfter, BranchTo
  <2>4. /\ n2 \in NodeType /\ n.processed \subseteq n2.processed
        /\ n2.chain \subseteq n2.processed
    BY <1>0, <2>3 DEF NodeType
  <2>5. NodeBecomes(s, n2)  BY <2>1
  <2> HIDE DEF n2
  <2>6. QED  BY <2>4, <2>5, NodeStep
<1>9. ASSUME NEW T \in SUBSET Tenures, NEW C \in SUBSET node[s].processed,
             NodeFork(s, T, C)
      PROVE  WorldStep(s)
  <2> DEFINE n2 == [n EXCEPT !.orphaned = T, !.chain = C]
  <2>1. NodeBecomes(s, n2)  BY <1>9 DEF NodeFork
  <2>2. /\ n2 \in NodeType /\ n.processed \subseteq n2.processed
        /\ n2.chain \subseteq n2.processed
    BY <1>0 DEF NodeType
  <2> HIDE DEF n2
  <2>3. QED  BY <2>1, <2>2, NodeStep
<1> HIDE DEF n, x
<1>10. QED
  BY <1>1, <1>2, <1>3, <1>4, <1>5, <1>6, <1>7, <1>8, <1>9,
     TickStep, RestartStep, CrashStep, BurnBlockStep, ExpireStep DEF Step
-----------------------------------------------------------------------------
\* The invariant.

LEMMA InvInit == Init => SignerInv
<1> SUFFICES ASSUME Init PROVE SignerInv
  OBVIOUS
<1>1. Unseen \in Rows  BY DEF Unseen, Rows, BlockStates, Codes
<1>2. /\ <<>> \in Seq(Blocks) /\ <<>> \in Seq(Blocks \X (Codes \cup {"none"}))
      /\ NoRepeats(<<>>) /\ (\A y : ~InSeq(<<>>, y))
  BY EmptySeq DEF NoRepeats, InSeq
<1>3. InitSigner \in SignerType  BY <1>1, <1>2 DEF InitSigner, SignerType
<1>4. InitNode \in NodeType  BY DEF InitNode, NodeType
<1>5. TypeOK  BY <1>3, <1>4 DEF Init, TypeOK
<1>6. NodeOK(InitNode, {})  BY <1>4 DEF NodeOK, InitNode, Dead
<1>7. SignerOK(InitSigner, InitNode, {}, Blocks)
  <2>1. /\ InitSigner.row = [b \in Blocks |-> Unseen] /\ InitSigner.slot = None
        /\ InitSigner.queue = <<>> /\ InitSigner.sentSig = {}
        /\ InitSigner.permits = [t \in Tenures |-> None]
    BY DEF InitSigner
  <2>2. RowOK(Unseen, None, InitNode, {}) /\ Unseen.self = FALSE
    BY DEF RowOK, Unseen
  <2>3. \A b \in Blocks : RowOK(InitSigner.row[b], b, InitNode, {})
    BY <2>1 DEF RowOK, Unseen
  <2>4. None \notin Blocks /\ (\A c \in Blocks : Tenure[c] \in Tenures)
    BY BlocksAssumption
  <2>5. QueueOK(InitSigner, Blocks)  BY <1>2, <2>1, <2>4 DEF QueueOK
  <2>6. PermitsOK(InitSigner, {})  BY <2>1, <2>4 DEF PermitsOK
  <2>7. QED  BY <1>3, <2>1, <2>3, <2>5, <2>6 DEF SignerOK
<1>8. QED  BY <1>5, <1>6, <1>7 DEF SignerInv, Init

LEMMA InvNext == SignerInv /\ [Next]_vars => SignerInv'
<1> SUFFICES ASSUME SignerInv, [Next]_vars PROVE SignerInv'
  OBVIOUS
<1>1. CASE UNCHANGED vars
  BY <1>1 DEF vars, SignerInv, TypeOK
<1>2. ASSUME NEW s \in Honest, Step(s) PROVE SignerInv'
  <2>1. TypeOK  BY DEF SignerInv
  <2>2. CASE PassStep(s)
    <3>1. PICK d2 \in SignerType :
            /\ signer' = [signer EXCEPT ![s] = d2]
            /\ SignerOK(d2, node[s], excused[s], Blocks)
            /\ UNCHANGED <<node, excused>>
      BY <2>2 DEF PassStep
    <3>2. TypeOK'  BY <2>1, <3>1 DEF TypeOK
    <3>3. ASSUME NEW y \in Honest
          PROVE  /\ SignerOK(signer'[y], node'[y], excused'[y], Blocks)
                 /\ NodeOK(node'[y], excused'[y])
      <4>1. signer'[y] = IF y = s THEN d2 ELSE signer[y]  BY <2>1, <3>1 DEF TypeOK
      <4>2. QED  BY <3>1, <4>1, InvFor
    <3>4. QED  BY <3>2, <3>3 DEF SignerInv
  <2>3. CASE WorldStep(s)
    <3>1. PICK d2 \in SignerType, n2 \in NodeType, P \in SUBSET (Blocks \X Blocks) :
            /\ signer'  = [signer EXCEPT ![s] = d2]
            /\ node'    = [node EXCEPT ![s] = n2]
            /\ excused' = [excused EXCEPT ![s] = @ \cup P]
            /\ SignerOK(d2, n2, excused[s] \cup P, Blocks)
            /\ NodeOK(n2, excused[s] \cup P)
      BY <2>3 DEF WorldStep
    <3>2. TypeOK'  BY <2>1, <3>1 DEF TypeOK
    <3>3. ASSUME NEW y \in Honest
          PROVE  /\ SignerOK(signer'[y], node'[y], excused'[y], Blocks)
                 /\ NodeOK(node'[y], excused'[y])
      <4>1. CASE y = s
        <5>1. signer'[y] = d2 /\ node'[y] = n2 /\ excused'[y] = excused[s] \cup P
          BY <2>1, <3>1, <4>1 DEF TypeOK
        <5>2. QED  BY <3>1, <5>1
      <4>2. CASE y # s
        <5>1. signer'[y] = signer[y] /\ node'[y] = node[y] /\ excused'[y] = excused[y]
          BY <2>1, <3>1, <4>2 DEF TypeOK
        <5>2. QED  BY <5>1, InvFor
      <4>3. QED  BY <4>1, <4>2
    <3>4. QED  BY <3>2, <3>3 DEF SignerInv
  <2>4. QED  BY <1>2, <2>2, <2>3, StepCases
<1>3. QED  BY <1>1, <1>2 DEF Next

\* At the end of every pass of process_event, in every order of messages,
\* validations, timeouts, crashes and forks, the records of all signers are
\* consistent: stamps sit on validated rows outside slot and queue, and whatever
\* could let a stamp be ignored is on record.
THEOREM SignerInvariant == Spec => []SignerInv
  BY InvInit, InvNext, PTL DEF Spec

\* The database, the memory and the messages of a signer keep their types.
THEOREM SignerTypeOK == Spec => []TypeOK
<1>1. SignerInv => TypeOK  BY DEF SignerInv
<1>2. QED  BY <1>1, SignerInvariant, PTL

\* A signature that left the signer is stamped in its database, whatever crash
\* came in between.
THEOREM SignaturesAreRecorded == Spec => []SentSignatureIsRecorded
<1>1. SignerInv => SentSignatureIsRecorded
  BY InvFor DEF SentSignatureIsRecorded, SignerOK, Signed
<1>2. QED  BY <1>1, SignerInvariant, PTL

\* A block is GloballyAccepted only if the signer's own node processed it.
THEOREM AcceptanceHasEvidence == Spec => []AcceptedOnEvidence
<1>1. SignerInv => AcceptedOnEvidence
  BY InvFor DEF AcceptedOnEvidence, SignerOK, RowOK
<1>2. QED  BY <1>1, SignerInvariant, PTL

\* Slot and queue only hold stored blocks without a verdict in favour.
THEOREM ValidatingUndecided == Spec => []ValidatingIsUndecided
<1>1. SignerInv => ValidatingIsUndecided
  BY InvFor DEF ValidatingIsUndecided, SignerOK, QueueOK
<1>2. QED  BY <1>1, SignerInvariant, PTL

-----------------------------------------------------------------------------
\* The abstract voting.

LEMMA VotingInit == Init => Voting!Init
<1> SUFFICES ASSUME Init PROVE Voting!Init
  OBVIOUS
<1>1. \A b \in Blocks : InitSigner.row[b].self = FALSE  BY DEF InitSigner, Unseen
<1>2. Self(InitSigner) = {}  BY <1>1 DEF Self
<1>3. QED  BY <1>2 DEF Init, Voting!Init, Signed

LEMMA VotingNext == SignerInv /\ [Next]_vars => [Voting!Next]_(Voting!avars)
<1> SUFFICES ASSUME SignerInv, [Next]_vars PROVE [Voting!Next]_(Voting!avars)
  OBVIOUS
<1> DEFINE signed == [y \in Honest |-> Self(signer[y])]
           after  == [y \in Honest |-> Self(signer'[y])]
<1>1. CASE UNCHANGED vars
  BY <1>1 DEF vars, Voting!avars, Signed
<1>2. ASSUME NEW s \in Honest, Step(s) PROVE [Voting!Next]_(Voting!avars)
  <2>1. TypeOK  BY DEF SignerInv
  <2>2. CASE PassStep(s)
    <3>1. PICK d2 \in SignerType :
            /\ signer' = [signer EXCEPT ![s] = d2]
            /\ VotesAllowed(signer[s], d2, excused[s])
            /\ UNCHANGED <<node, excused>>
      BY <2>2 DEF PassStep
    <3>2. \A y \in Honest : signer'[y] = IF y = s THEN d2 ELSE signer[y]
      BY <2>1, <3>1 DEF TypeOK
    <3>3. CASE Self(d2) = Self(signer[s])
      <4>1. after = signed  BY <3>2, <3>3
      <4>2. QED  BY <3>1, <4>1 DEF Voting!avars, Signed
    <3>4. CASE Self(d2) # Self(signer[s])
      <4>1. PICK b \in Self(d2) : b \notin Self(signer[s])
        BY <3>1, <3>4 DEF VotesAllowed
      <4>2. /\ b \in Blocks /\ Self(d2) = Self(signer[s]) \cup {b}
            /\ SiblingsExcused(signer[s], b, excused[s])
        BY <3>1, <4>1 DEF VotesAllowed, Self
      <4>3. after = [signed EXCEPT ![s] = @ \cup {b}]  BY <3>2, <4>2
      <4>4. Voting!Sign(s, b)
        BY <3>1, <4>1, <4>2, <4>3
        DEF Voting!Sign, Signed, SiblingsExcused, Siblings, Voting!Siblings
      <4>5. QED  BY <4>2, <4>4 DEF Voting!Next
    <3>5. QED  BY <3>3, <3>4
  <2>3. CASE WorldStep(s)
    <3>1. PICK d2 \in SignerType, n2 \in NodeType, P \in SUBSET (Blocks \X Blocks) :
            /\ signer'  = [signer EXCEPT ![s] = d2]
            /\ excused' = [excused EXCEPT ![s] = @ \cup P]
            /\ Self(d2) = Self(signer[s])
      BY <2>3 DEF WorldStep
    <3>2. \A y \in Honest : signer'[y] = IF y = s THEN d2 ELSE signer[y]
      BY <2>1, <3>1 DEF TypeOK
    <3>3. after = signed  BY <3>1, <3>2
    <3>4. Voting!Excuse(s, P)  BY <3>1, <3>3 DEF Voting!Excuse, Signed
    <3>5. QED  BY <3>4 DEF Voting!Next
  <2>4. QED  BY <1>2, <2>2, <2>3, StepCases
<1>3. QED  BY <1>1, <1>2 DEF Next

\* The signers implement the abstract voting: every action of SignerV0 is one
\* Sign, one Excuse or no change of it.
THEOREM SignersImplementVoting == Spec => ImplementsVoting
  BY VotingInit, VotingNext, SignerInvariant, PTL DEF Spec, ImplementsVoting, Voting!Spec
\* No two stamps of one height without an excuse, in one state and the next.
LEMMA NoDoubleSignNext ==
  SignerInv /\ NoDoubleSign /\ [Next]_vars => NoDoubleSign'
<1> SUFFICES ASSUME SignerInv, NoDoubleSign, [Next]_vars PROVE NoDoubleSign'
  OBVIOUS
<1>1. CASE UNCHANGED vars
  BY <1>1 DEF vars, NoDoubleSign, Signed, Siblings
<1>2. ASSUME NEW s \in Honest, Step(s) PROVE NoDoubleSign'
  <2>1. TypeOK  BY DEF SignerInv
  <2>2. SUFFICES ASSUME NEW y \in Honest, NEW b \in Self(signer'[y]),
                        NEW c \in Self(signer'[y]), Siblings(b, c)
                 PROVE  <<b, c>> \in excused'[y] \/ <<c, b>> \in excused'[y]
    BY DEF NoDoubleSign, Signed, Siblings
  <2>3. b \in Self(signer[y]) /\ c \in Self(signer[y]) =>
          <<b, c>> \in excused[y] \/ <<c, b>> \in excused[y]
    BY <2>2 DEF NoDoubleSign, Signed
  <2>4. CASE PassStep(s)
    <3>1. PICK d2 \in SignerType :
            /\ signer' = [signer EXCEPT ![s] = d2]
            /\ VotesAllowed(signer[s], d2, excused[s])
            /\ UNCHANGED <<node, excused>>
      BY <2>4 DEF PassStep
    <3>2. signer'[y] = IF y = s THEN d2 ELSE signer[y]  BY <2>1, <3>1 DEF TypeOK
    <3>3. CASE y # s  BY <2>2, <2>3, <3>1, <3>2, <3>3
    <3>4. CASE y = s
      <4>1. b # c /\ Siblings(c, b)  BY <2>2 DEF Siblings
      <4>2. b \in Self(d2) /\ c \in Self(d2)  BY <2>2, <3>2, <3>4
      <4>3. CASE b \in Self(signer[s]) /\ c \in Self(signer[s])
        BY <2>3, <3>1, <3>4, <4>3
      <4>4. CASE b \notin Self(signer[s])
        <5>1. c \in Self(signer[s]) /\ SiblingsExcused(signer[s], b, excused[s])
          BY <3>1, <4>1, <4>2, <4>4 DEF VotesAllowed
        <5>2. <<c, b>> \in excused[s]  BY <4>1, <5>1 DEF SiblingsExcused
        <5>3. QED  BY <3>1, <3>4, <5>2
      <4>5. CASE c \notin Self(signer[s])
        <5>1. b \in Self(signer[s]) /\ SiblingsExcused(signer[s], c, excused[s])
          BY <3>1, <4>1, <4>2, <4>5 DEF VotesAllowed
        <5>2. <<b, c>> \in excused[s]  BY <2>2, <5>1 DEF SiblingsExcused
        <5>3. QED  BY <3>1, <3>4, <5>2
      <4>6. QED  BY <4>3, <4>4, <4>5
    <3>5. QED  BY <3>3, <3>4
  <2>5. CASE WorldStep(s)
    <3>1. PICK d2 \in SignerType, n2 \in NodeType, P \in SUBSET (Blocks \X Blocks) :
            /\ signer'  = [signer EXCEPT ![s] = d2]
            /\ excused' = [excused EXCEPT ![s] = @ \cup P]
            /\ Self(d2) = Self(signer[s])
      BY <2>5 DEF WorldStep
    <3>2. /\ Self(signer'[y]) = Self(signer[y])
          /\ excused[y] \subseteq excused'[y]
      BY <2>1, <3>1 DEF TypeOK
    <3>3. QED  BY <2>2, <2>3, <3>2
  <2>6. QED  BY <1>2, <2>4, <2>5, StepCases
<1>3. QED  BY <1>1, <1>2 DEF Next

\* For every signer set, every tree of proposed blocks and every event, an
\* honest signer holds signatures over two blocks of one height only if one of
\* the three excuses of the conflict guard came up since the first of them.
THEOREM HonestNeverDoubleSigns == Spec => []NoDoubleSign
<1>1. Init => NoDoubleSign
  <2> SUFFICES ASSUME Init PROVE NoDoubleSign
    OBVIOUS
  <2>1. \A b \in Blocks : InitSigner.row[b].self = FALSE  BY DEF InitSigner, Unseen
  <2>2. Self(InitSigner) = {}  BY <2>1 DEF Self
  <2>3. QED  BY <2>2 DEF Init, NoDoubleSign, Signed
<1>2. QED  BY <1>1, NoDoubleSignNext, SignerInvariant, PTL DEF Spec

\* Two blocks of one height both gather signatures of 70% only through an
\* honest signer that signed both with an excuse, as long as the arbitrary
\* signers hold less weight than two quorums share.
THEOREM SignersAgree == Spec => []Agreement
<1>0. /\ Voting!FewFaulty <=> FewFaulty
      /\ \A S : Voting!MeetsThreshold(S) <=> MeetsThreshold(S)
      /\ Voting!Faulty = Faulty
  <2>1. Voting!TotalWeight = TotalWeight /\ Voting!Faulty = Faulty
    BY DEF Voting!TotalWeight, TotalWeight, Voting!Faulty, Faulty,
           Voting!Cardinality, Cardinality
  <2>2. \A S : Voting!WeightOf(S) = WeightOf(S)
    BY DEF Voting!WeightOf, WeightOf, Voting!Cardinality, Cardinality
  <2>3. Voting!VotingWeightThreshold = VotingWeightThreshold
    BY <2>1 DEF Voting!VotingWeightThreshold, VotingWeightThreshold
  <2>4. \A S : Voting!MeetsThreshold(S) <=> MeetsThreshold(S)
    BY <2>2, <2>3 DEF Voting!MeetsThreshold, MeetsThreshold
  <2>5. Voting!FewFaulty <=> FewFaulty
    BY <2>1, <2>2, <2>3 DEF Voting!FewFaulty, FewFaulty
  <2>6. QED  BY <2>1, <2>4, <2>5
<1>1. NoDoubleSign => Agreement
  <2> SUFFICES ASSUME NoDoubleSign, FewFaulty, NEW b \in Blocks, NEW c \in Blocks,
                      Voting!Siblings(b, c),
                      MeetsThreshold(Voting!Signatories(b)),
                      MeetsThreshold(Voting!Signatories(c))
               PROVE  \E s \in Honest :
                        /\ b \in Signed(s) /\ c \in Signed(s)
                        /\ <<b, c>> \in excused[s] \/ <<c, b>> \in excused[s]
    BY <1>0 DEF Agreement, Voting!Agreement
  <2> DEFINE A == Voting!Signatories(b)
             B == Voting!Signatories(c)
  <2>1. /\ A = {s \in Honest : b \in Signed(s)} \cup Faulty
        /\ B = {s \in Honest : c \in Signed(s)} \cup Faulty
    BY <1>0 DEF Voting!Signatories
  <2>2. A \in SUBSET Signers /\ B \in SUBSET Signers
    BY <2>1, HonestAssumption DEF Faulty
  <2>3. PICK s \in A \cap B : s \notin Faulty
    BY <2>2, QuorumsIntersect DEF FewFaulty
  <2>4. s \in Honest /\ b \in Signed(s) /\ c \in Signed(s)
    BY <2>1, <2>3
  <2>5. Siblings(b, c)  BY DEF Siblings, Voting!Siblings
  <2>6. QED  BY <2>4, <2>5 DEF NoDoubleSign
<1>2. QED  BY <1>1, HonestNeverDoubleSigns, PTL

-----------------------------------------------------------------------------
\* What a step may never do.

\* No message, timeout, retirement or crash makes a signer reject a block it
\* has signed.
THEOREM SignaturesAreNotContradicted == Spec => NeverContradictsSignature
<1> DEFINE A == \A s \in Honest, b \in Blocks, code \in Codes :
                  b \in Signed(s) /\ <<b, code>> \in signer'[s].sentRej
                    => <<b, code>> \in signer[s].sentRej
<1>1. SignerInv /\ [Next]_vars => [A]_vars
  <2> SUFFICES ASSUME SignerInv, NEW s \in Honest, Step(s) PROVE A
    BY DEF Next
  <2>1. TypeOK  BY DEF SignerInv
  <2>2. PICK d2 \in SignerType : /\ signer' = [signer EXCEPT ![s] = d2]
                                 /\ NoContradiction(signer[s], d2)
    BY StepCases DEF PassStep, WorldStep, VotesAllowed
  <2>3. \A y \in Honest : signer'[y] = IF y = s THEN d2 ELSE signer[y]
    BY <2>1, <2>2 DEF TypeOK
  <2>4. QED  BY <2>2, <2>3 DEF NoContradiction, Signed
<1>2. QED  BY <1>1, SignerInvariant, PTL DEF Spec, NeverContradictsSignature

\* No path to a signature goes around the two freezes.
THEOREM FrozenBlocksStayUnsigned == Spec => FrozenSignsNothing
<1> DEFINE A == \A s \in Honest, b \in Blocks :
                  Frozen(signer[s], b) /\ b \notin Signed(s) => ~signer'[s].row[b].self
<1>1. SignerInv /\ [Next]_vars => [A]_vars
  <2> SUFFICES ASSUME SignerInv, NEW s \in Honest, Step(s),
                      NEW y \in Honest, NEW b \in Blocks,
                      Frozen(signer[y], b), b \notin Signed(y)
               PROVE  b \notin Self(signer'[y])
    BY DEF Next, Self
  <2>1. TypeOK  BY DEF SignerInv
  <2>2. PICK d2 \in SignerType :
          /\ signer' = [signer EXCEPT ![s] = d2]
          /\ VotesAllowed(signer[s], d2, excused[s]) \/ Self(d2) = Self(signer[s])
    BY StepCases DEF PassStep, WorldStep
  <2>3. signer'[y] = IF y = s THEN d2 ELSE signer[y]  BY <2>1, <2>2 DEF TypeOK
  <2>4. QED  BY <2>2, <2>3 DEF VotesAllowed, Signed
<1>2. QED  BY <1>1, SignerInvariant, PTL DEF Spec, FrozenSignsNothing

-----------------------------------------------------------------------------
\* The votes a signer counts.  While s runs a pass the others stand still: P[b] are
\* the other signers that may have pre-committed to b, and G[b] those that may have
\* signed it (an arbitrary signer may have sent anything).

\* with s itself
GavePc(d, s, P, b)  == IF b \in d.sentPc THEN P[b] \cup {s} ELSE P[b]
GaveSig(d, s, G, b) == IF b \in Self(d) THEN G[b] \cup {s} ELSE G[b]

\* Nothing is counted for b, or parked to be counted later, that was not given;
\* nobody is counted on both sides; what was posted or stamped had its quorum; a
\* valid block was pre-committed to.
BlockVotesOK(d, s, P, G, b) ==
  /\ d.row[b].valid = "yes" => b \in d.sentPc
  /\ d.preCommits[b] \subseteq GavePc(d, s, P, b)
  /\ d.signatures[b] \subseteq GaveSig(d, s, G, b)
  /\ \A v \in Signers : ParkedFor(d.parked["pc"][v], b) # {} => v \in GavePc(d, s, P, b)
  /\ \A v \in Signers : ParkedFor(d.parked["sig"][v], b) # {} => v \in GaveSig(d, s, G, b)
  /\ d.signatures[b] \cap RejectedBy(d, b) = {}
  /\ b \in d.posted => MeetsThreshold(GaveSig(d, s, G, b))
  /\ b \in Self(d) => MeetsThreshold(GavePc(d, s, P, b))

VotesOK(d, s, P, G) == \A b \in Blocks : BlockVotesOK(d, s, P, G, b)

\* d2 comes from d within one pass, and the votes are still in order.
VotesKept(d, d2, s, P, G) == VotesOK(d2, s, P, G) /\ d.sentPc \subseteq d2.sentPc

\* No vote is counted, none is parked, and a block becomes valid only with its
\* pre-commit.
SameVotes(d, d2) ==
  /\ d2.preCommits = d.preCommits /\ d2.signatures = d.signatures
  /\ d2.rejections = d.rejections /\ d2.posted = d.posted
  /\ \A k \in Votes, v \in Signers, b \in Blocks :
       ParkedFor(d2.parked[k][v], b) # {} => ParkedFor(d.parked[k][v], b) # {}
  /\ d.sentPc \subseteq d2.sentPc
  /\ \A b \in Blocks :
       d2.row[b].valid = "yes" => d.row[b].valid = "yes" \/ b \in d2.sentPc

\* More given votes never unmake a quorum.
LEMMA QuorumGrows ==
  ASSUME NEW S, NEW T, S \subseteq T, MeetsThreshold(S)
  PROVE  MeetsThreshold(T)
<1>1. WeightOf(S) <= WeightOf(T)  BY WeightIsMonotone
<1>2. WeightOf(S) \in Nat /\ WeightOf(T) \in Nat /\ VotingWeightThreshold \in Nat
  BY UnitsAreFinite, ThresholdType
<1>3. QED  BY <1>1, <1>2 DEF MeetsThreshold

\* What a signer counts, seen from a later record: if the counted votes are the
\* same, the given ones may only have grown.
LEMMA SameVotesKeep ==
  ASSUME NEW d, NEW d2, NEW s, NEW P, NEW G, VotesOK(d, s, P, G),
         SameVotes(d, d2), Self(d2) = Self(d)
  PROVE  VotesKept(d, d2, s, P, G)
<1>1. ASSUME NEW b \in Blocks PROVE BlockVotesOK(d2, s, P, G, b)
  <2>1. BlockVotesOK(d, s, P, G, b)  BY DEF VotesOK
  <2>2. /\ GavePc(d, s, P, b) \subseteq GavePc(d2, s, P, b)
        /\ GaveSig(d2, s, G, b) = GaveSig(d, s, G, b)
    BY DEF SameVotes, GavePc, GaveSig
  <2>3. RejectedBy(d2, b) = RejectedBy(d, b)  BY DEF SameVotes, RejectedBy
  <2>4. "pc" \in Votes /\ "sig" \in Votes  BY DEF Votes
  <2>5. b \in Self(d) => MeetsThreshold(GavePc(d2, s, P, b))
    BY <2>1, <2>2, QuorumGrows DEF BlockVotesOK
  <2>6. d2.row[b].valid = "yes" => b \in d2.sentPc
    BY <2>1 DEF BlockVotesOK, SameVotes
  <2>7. /\ d2.preCommits[b] = d.preCommits[b] /\ d2.signatures[b] = d.signatures[b]
        /\ d2.posted = d.posted
        /\ \A k \in Votes, v \in Signers :
             ParkedFor(d2.parked[k][v], b) # {} => ParkedFor(d.parked[k][v], b) # {}
    BY DEF SameVotes
  <2>8. QED  BY <2>1, <2>2, <2>3, <2>4, <2>5, <2>6, <2>7 DEF BlockVotesOK
<1>2. QED  BY <1>1 DEF VotesOK, VotesKept, SameVotes

LEMMA SameVotesTwice ==
  ASSUME NEW d, NEW d1, NEW d2, SameVotes(d, d1), SameVotes(d1, d2)
  PROVE  SameVotes(d, d2)
  BY DEF SameVotes

LEMMA VotesKeptTwice ==
  ASSUME NEW d, NEW d1, NEW d2, NEW s, NEW P, NEW G,
         VotesKept(d, d1, s, P, G), VotesKept(d1, d2, s, P, G)
  PROVE  VotesKept(d, d2, s, P, G)
  BY DEF VotesKept

\* Votes of the other signers only ever come in.
LEMMA VotesOKGrows ==
  ASSUME NEW d, NEW s, NEW P, NEW G, NEW P2, NEW G2, VotesOK(d, s, P, G),
         \A b \in Blocks : P[b] \subseteq P2[b] /\ G[b] \subseteq G2[b]
  PROVE  VotesOK(d, s, P2, G2)
<1>1. ASSUME NEW b \in Blocks PROVE BlockVotesOK(d, s, P2, G2, b)
  <2>1. BlockVotesOK(d, s, P, G, b)  BY DEF VotesOK
  <2>2. /\ GavePc(d, s, P, b) \subseteq GavePc(d, s, P2, b)
        /\ GaveSig(d, s, G, b) \subseteq GaveSig(d, s, G2, b)
    BY DEF GavePc, GaveSig
  <2>3. /\ b \in Self(d) => MeetsThreshold(GavePc(d, s, P2, b))
        /\ b \in d.posted => MeetsThreshold(GaveSig(d, s, G2, b))
    BY <2>1, <2>2, QuorumGrows DEF BlockVotesOK
  <2>4. QED  BY <2>1, <2>2, <2>3 DEF BlockVotesOK
<1>2. QED  BY <1>1 DEF VotesOK

\* A record that differs in fields no vote depends on.
LEMMA SameVoteFields ==
  ASSUME NEW d, NEW d2,
         d2.preCommits = d.preCommits, d2.signatures = d.signatures,
         d2.rejections = d.rejections, d2.posted = d.posted, d2.parked = d.parked,
         d.sentPc \subseteq d2.sentPc,
         \A b \in Blocks : d2.row[b].valid = "yes" => d.row[b].valid = "yes" \/ b \in d2.sentPc
  PROVE  SameVotes(d, d2)
  BY DEF SameVotes

-----------------------------------------------------------------------------
\* Counting a vote.

\* DELETE and INSERT of parked votes: only the vote parked is new.
LEMMA DropParkedKeeps ==
  ASSUME NEW S, NEW q \in Seq(S), NEW b, NEW c, ParkedFor(DropParked(q, b), c) # {}
  PROVE  ParkedFor(q, c) # {}
<1>1. CASE ParkedFor(q, b) = {}  BY <1>1 DEF DropParked
<1>2. CASE ParkedFor(q, b) # {}
  <2> DEFINE i == CHOOSE k \in 1..Len(q) : q[k][1] = b
             r == RemoveIndex(q, i)
  <2>1. \E k \in 1..Len(q) : q[k][1] = b  BY <1>2 DEF ParkedFor
  <2>2. i \in 1..Len(q)  BY <2>1
  <2>3. DropParked(q, b) = r  BY <1>2 DEF DropParked
  <2> HIDE DEF i
  <2>4. /\ Len(r) = Len(q) - 1 /\ Len(q) \in Nat
        /\ \A k \in 1..Len(r) : r[k] = IF k < i THEN q[k] ELSE q[k + 1]
    BY <2>2, RemoveIndexFacts, LenProperties
  <2> HIDE DEF r
  <2>5. PICK k \in 1..Len(r) : r[k][1] = c  BY <2>3 DEF ParkedFor
  <2>6. PICK j \in 1..Len(q) : r[k] = q[j]  BY <2>2, <2>4
  <2>7. QED  BY <2>5, <2>6 DEF ParkedFor
<1>3. QED  BY <1>1, <1>2

LEMMA ParkVoteAdds ==
  ASSUME NEW S, NEW q \in Seq(S), NEW b, NEW code, <<b, code>> \in S, NEW c,
         ParkedFor(ParkVote(q, b, code), c) # {}
  PROVE  c = b \/ ParkedFor(q, c) # {}
<1> DEFINE p == DropParked(q, b)
           r == Append(p, <<b, code>>)
           z == ParkVote(q, b, code)
<1>1. p \in Seq(S)  BY DropParkedFacts
<1>2. ParkedFor(p, c) # {} => ParkedFor(q, c) # {}  BY DropParkedKeeps
<1>3. z = r \/ z = Tail(r)  BY DEF ParkVote
<1> HIDE DEF p
<1>4. /\ r \in Seq(S) /\ Len(p) \in Nat /\ Len(r) = Len(p) + 1
      /\ r[Len(r)] = <<b, code>> /\ \A k \in 1..Len(p) : r[k] = p[k]
  BY <1>1, AppendProperties, LenProperties
<1>5. /\ Len(Tail(r)) = Len(r) - 1
      /\ \A k \in 1..Len(Tail(r)) : Tail(r)[k] = r[k + 1]
  BY <1>4
<1> HIDE DEF r, z
<1>6. PICK k \in 1..Len(z) : z[k][1] = c  BY DEF ParkedFor, z
<1>7. PICK j \in 1..Len(r) : z[k] = r[j]  BY <1>3, <1>4, <1>5
<1>8. CASE j = Len(r)  BY <1>4, <1>6, <1>7, <1>8
<1>9. CASE j \in 1..Len(p)
  <2>1. p[j][1] = c  BY <1>4, <1>6, <1>7, <1>9
  <2>2. QED  BY <1>2, <1>9, <2>1 DEF ParkedFor
<1>10. QED  BY <1>4, <1>8, <1>9

\* add_block_signature of a signature that was given
LEMMA AddSignatureVotes ==
  ASSUME NEW d \in SignerType, NEW s, NEW P, NEW G, VotesOK(d, s, P, G),
         NEW from \in Signers, NEW b \in Blocks, from \in GaveSig(d, s, G, b)
  PROVE  VotesKept(d, AddSignature(d, from, b), s, P, G)
<1> DEFINE d2 == AddSignature(d, from, b)
<1>1. /\ d2.row = d.row /\ d2.preCommits = d.preCommits /\ d2.parked = d.parked
      /\ d2.posted = d.posted /\ d2.sentPc = d.sentPc
      /\ \A c \in Blocks : d2.signatures[c] = IF c = b THEN d.signatures[c] \cup {from}
                                              ELSE d.signatures[c]
      /\ \A c \in Blocks, v \in Signers :
           d2.rejections[c][v] = IF c = b /\ v = from THEN "none" ELSE d.rejections[c][v]
  BY DEF AddSignature, SignerType
<1> HIDE DEF d2
<1>2. Self(d2) = Self(d)  BY <1>1 DEF Self
<1>3. ASSUME NEW c \in Blocks PROVE BlockVotesOK(d2, s, P, G, c)
  <2>1. BlockVotesOK(d, s, P, G, c)  BY DEF VotesOK
  <2>2. GavePc(d2, s, P, c) = GavePc(d, s, P, c) /\ GaveSig(d2, s, G, c) = GaveSig(d, s, G, c)
    BY <1>1, <1>2 DEF GavePc, GaveSig
  <2>3. RejectedBy(d2, c) = IF c = b THEN RejectedBy(d, c) \ {from} ELSE RejectedBy(d, c)
    BY <1>1 DEF RejectedBy
  <2>4. d2.signatures[c] \subseteq GaveSig(d, s, G, c)  BY <1>1, <2>1 DEF BlockVotesOK
  <2>5. d2.signatures[c] \cap RejectedBy(d2, c) = {}  BY <1>1, <2>1, <2>3 DEF BlockVotesOK
  <2>6. QED  BY <1>1, <1>2, <2>1, <2>2, <2>4, <2>5 DEF BlockVotesOK
<1>4. QED  BY <1>1, <1>3 DEF VotesKept, VotesOK, d2

\* store_and_process_block_signature: what is posted has the signatures of 70%.
LEMMA TallySignaturesVotes ==
  ASSUME NEW d \in SignerType, NEW s, NEW P, NEW G, VotesOK(d, s, P, G), NEW b \in Blocks
  PROVE  VotesKept(d, TallySignatures(d, b), s, P, G)
<1> DEFINE m  == MarkGroupSigned(d.row[b])
           d2 == [d EXCEPT !.row[b] = m, !.posted = @ \cup {b}]
<1>1. CASE TallySignatures(d, b) = d  BY <1>1 DEF VotesKept
<1>2. CASE TallySignatures(d, b) # d
  <2>1. TallySignatures(d, b) = d2 /\ MeetsThreshold(d.signatures[b])
    BY <1>2 DEF TallySignatures
  <2>2. d.row[b] \in Rows  BY DEF SignerType
  <2>3. m.self = d.row[b].self /\ m.valid = d.row[b].valid
    BY <2>2, MarkGroupFacts DEF MarkGroupSigned
  <2> HIDE DEF m
  <2>4. /\ d2.preCommits = d.preCommits /\ d2.signatures = d.signatures
        /\ d2.rejections = d.rejections /\ d2.parked = d.parked /\ d2.sentPc = d.sentPc
        /\ d2.posted = d.posted \cup {b}
        /\ \A c \in Blocks : d2.row[c] = IF c = b THEN m ELSE d.row[c]
    BY DEF SignerType
  <2> HIDE DEF d2
  <2>5. Self(d2) = Self(d)  BY <2>3, <2>4 DEF Self
  <2>6. ASSUME NEW c \in Blocks PROVE BlockVotesOK(d2, s, P, G, c)
    <3>1. BlockVotesOK(d, s, P, G, c)  BY DEF VotesOK
    <3>2. /\ GavePc(d2, s, P, c) = GavePc(d, s, P, c)
          /\ GaveSig(d2, s, G, c) = GaveSig(d, s, G, c)
      BY <2>4, <2>5 DEF GavePc, GaveSig
    <3>3. RejectedBy(d2, c) = RejectedBy(d, c)  BY <2>4 DEF RejectedBy
    <3>4. c \in d2.posted => MeetsThreshold(GaveSig(d, s, G, c))
      <4>1. CASE c = b  BY <2>1, <3>1, <4>1, QuorumGrows DEF BlockVotesOK
      <4>2. CASE c # b  BY <2>4, <3>1, <4>2 DEF BlockVotesOK
      <4>3. QED  BY <4>1, <4>2
    <3>5. d2.row[c].valid = d.row[c].valid  BY <2>3, <2>4
    <3>6. QED  BY <2>4, <2>5, <3>1, <3>2, <3>3, <3>4, <3>5 DEF BlockVotesOK
  <2>7. QED  BY <2>1, <2>4, <2>6 DEF VotesKept, VotesOK
<1>3. QED  BY <1>1, <1>2

\* add_block_rejection_signer_addr leaves a signer alone that has signed.
LEMMA StoreRejectionVotes ==
  ASSUME NEW d \in SignerType, NEW s, NEW P, NEW G, VotesOK(d, s, P, G),
         NEW from \in Signers, NEW b \in Blocks, NEW code \in Codes
  PROVE  VotesKept(d, StoreRejection(d, from, b, code), s, P, G)
<1> DEFINE d1 == [d EXCEPT !.rejections[b][from] = code]
           m  == MarkGloballyRejected(d1.row[b])
           d2 == [d1 EXCEPT !.row[b] = m]
<1>1. CASE StoreRejection(d, from, b, code) = d  BY <1>1 DEF VotesKept
<1>2. CASE StoreRejection(d, from, b, code) # d
  <2>1. StoreRejection(d, from, b, code) \in {d1, d2} /\ from \notin d.signatures[b]
    BY <1>2 DEF StoreRejection
  <2>2. d1 \in SignerType  BY DEF SignerType, Codes
  <2>3. /\ d1.preCommits = d.preCommits /\ d1.signatures = d.signatures
        /\ d1.row = d.row /\ d1.parked = d.parked /\ d1.sentPc = d.sentPc
        /\ d1.posted = d.posted
        /\ \A c \in Blocks, v \in Signers :
             d1.rejections[c][v] = IF c = b /\ v = from THEN code ELSE d.rejections[c][v]
    BY DEF SignerType
  <2> HIDE DEF d1
  <2>4. Self(d1) = Self(d)  BY <2>3 DEF Self
  <2>5. ASSUME NEW c \in Blocks PROVE BlockVotesOK(d1, s, P, G, c)
    <3>1. BlockVotesOK(d, s, P, G, c)  BY DEF VotesOK
    <3>2. /\ GavePc(d1, s, P, c) = GavePc(d, s, P, c)
          /\ GaveSig(d1, s, G, c) = GaveSig(d, s, G, c)
      BY <2>3, <2>4 DEF GavePc, GaveSig
    <3>3. RejectedBy(d1, c) \subseteq IF c = b THEN RejectedBy(d, c) \cup {from}
                                      ELSE RejectedBy(d, c)
      BY <2>3 DEF RejectedBy
    <3>4. d1.signatures[c] \cap RejectedBy(d1, c) = {}
      BY <2>1, <2>3, <3>1, <3>3 DEF BlockVotesOK
    <3>5. QED  BY <2>3, <2>4, <3>1, <3>2, <3>4 DEF BlockVotesOK
  <2>6. VotesKept(d, d1, s, P, G)  BY <2>3, <2>5 DEF VotesKept, VotesOK
  <2>7. d1.row[b] \in Rows  BY <2>2 DEF SignerType
  <2>8. m.self = d1.row[b].self /\ m.valid = d1.row[b].valid
    BY <2>7, MoveToFacts DEF MarkGloballyRejected, BlockStates
  <2> HIDE DEF m
  <2>9. /\ d2.preCommits = d1.preCommits /\ d2.signatures = d1.signatures
        /\ d2.rejections = d1.rejections /\ d2.parked = d1.parked
        /\ d2.sentPc = d1.sentPc /\ d2.posted = d1.posted
        /\ \A c \in Blocks : d2.row[c] = IF c = b THEN m ELSE d1.row[c]
    BY <2>2 DEF SignerType
  <2> HIDE DEF d2
  <2>10. Self(d2) = Self(d1)  BY <2>8, <2>9 DEF Self
  <2>11. SameVotes(d1, d2)  BY <2>8, <2>9, SameVoteFields
  <2>12. VotesKept(d1, d2, s, P, G)  BY <2>6, <2>10, <2>11, SameVotesKeep DEF VotesKept
  <2>13. QED  BY <2>1, <2>6, <2>12, VotesKeptTwice
<1>3. QED  BY <1>1, <1>2

\* add_block_pre_commit of a pre-commit that was given
LEMMA AddPreCommitVotes ==
  ASSUME NEW d \in SignerType, NEW s, NEW P, NEW G, VotesOK(d, s, P, G),
         NEW from \in Signers, NEW b \in Blocks, from \in GavePc(d, s, P, b)
  PROVE  VotesKept(d, AddPreCommit(d, from, b), s, P, G)
<1> DEFINE d2 == AddPreCommit(d, from, b)
<1>1. /\ d2.row = d.row /\ d2.signatures = d.signatures /\ d2.parked = d.parked
      /\ d2.posted = d.posted /\ d2.sentPc = d.sentPc /\ d2.rejections = d.rejections
      /\ \A c \in Blocks : d2.preCommits[c] = IF c = b THEN d.preCommits[c] \cup {from}
                                              ELSE d.preCommits[c]
  BY DEF AddPreCommit, SignerType
<1> HIDE DEF d2
<1>2. Self(d2) = Self(d)  BY <1>1 DEF Self
<1>3. ASSUME NEW c \in Blocks PROVE BlockVotesOK(d2, s, P, G, c)
  <2>1. BlockVotesOK(d, s, P, G, c)  BY DEF VotesOK
  <2>2. GavePc(d2, s, P, c) = GavePc(d, s, P, c) /\ GaveSig(d2, s, G, c) = GaveSig(d, s, G, c)
    BY <1>1, <1>2 DEF GavePc, GaveSig
  <2>3. RejectedBy(d2, c) = RejectedBy(d, c)  BY <1>1 DEF RejectedBy
  <2>4. d2.preCommits[c] \subseteq GavePc(d, s, P, c)  BY <1>1, <2>1 DEF BlockVotesOK
  <2>5. QED  BY <1>1, <1>2, <2>1, <2>2, <2>3, <2>4 DEF BlockVotesOK
<1>4. QED  BY <1>1, <1>3 DEF VotesKept, VotesOK, d2

\* insert_pending_block_response of a vote that was given
LEMMA ParkVotes ==
  ASSUME NEW d \in SignerType, NEW s, NEW P, NEW G, VotesOK(d, s, P, G),
         NEW kind \in Votes, NEW from \in Signers, NEW b \in Blocks,
         NEW code \in Codes \cup {"none"},
         kind = "pc" => from \in GavePc(d, s, P, b),
         kind = "sig" => from \in GaveSig(d, s, G, b)
  PROVE  VotesKept(d, Park(d, kind, from, b, code), s, P, G)
<1> DEFINE S  == Blocks \X (Codes \cup {"none"})
           q  == d.parked[kind][from]
           p  == ParkVote(q, b, code)
           d2 == [d EXCEPT !.parked[kind][from] = p]
<1>1. q \in Seq(S)  BY DEF SignerType
<1>2. Park(d, kind, from, b, code) = d2  BY DEF Park
<1>3. <<b, code>> \in S  OBVIOUS
<1> HIDE DEF S
<1>4. \A c : ParkedFor(p, c) # {} => c = b \/ ParkedFor(q, c) # {}
  <2> HIDE DEF q
  <2>1. QED  BY <1>1, <1>3, ParkVoteAdds
<1> HIDE DEF p
<1>5. /\ d2.row = d.row /\ d2.signatures = d.signatures /\ d2.preCommits = d.preCommits
      /\ d2.posted = d.posted /\ d2.sentPc = d.sentPc /\ d2.rejections = d.rejections
      /\ \A k \in Votes, v \in Signers :
           d2.parked[k][v] = IF k = kind /\ v = from THEN p ELSE d.parked[k][v]
  BY DEF SignerType
<1> HIDE DEF d2
<1>6. Self(d2) = Self(d)  BY <1>5 DEF Self
<1>7. ASSUME NEW c \in Blocks PROVE BlockVotesOK(d2, s, P, G, c)
  <2>1. BlockVotesOK(d, s, P, G, c)  BY DEF VotesOK
  <2>2. GavePc(d2, s, P, c) = GavePc(d, s, P, c) /\ GaveSig(d2, s, G, c) = GaveSig(d, s, G, c)
    BY <1>5, <1>6 DEF GavePc, GaveSig
  <2>3. RejectedBy(d2, c) = RejectedBy(d, c)  BY <1>5 DEF RejectedBy
  <2>4. \A k \in Votes, v \in Signers : ParkedFor(d2.parked[k][v], c) # {} =>
          ParkedFor(d.parked[k][v], c) # {} \/ (k = kind /\ v = from /\ c = b)
    BY <1>4, <1>5
  <2>5. "pc" \in Votes /\ "sig" \in Votes  BY DEF Votes
  <2>6. /\ \A v \in Signers : ParkedFor(d2.parked["pc"][v], c) # {} => v \in GavePc(d, s, P, c)
        /\ \A v \in Signers : ParkedFor(d2.parked["sig"][v], c) # {} => v \in GaveSig(d, s, G, c)
    BY <2>1, <2>4, <2>5 DEF BlockVotesOK
  <2>7. QED  BY <1>5, <1>6, <2>1, <2>2, <2>3, <2>6 DEF BlockVotesOK
<1>8. QED  BY <1>2, <1>5, <1>7 DEF VotesKept, VotesOK

\* handle_block_rejection
LEMMA HandleRejectionVotes ==
  ASSUME NEW d \in SignerType, NEW s, NEW P, NEW G, VotesOK(d, s, P, G),
         NEW from \in Signers, NEW b \in Blocks, NEW code \in Codes
  PROVE  VotesKept(d, HandleRejection(d, from, b, code), s, P, G)
<1>1. "rej" \in Votes  BY DEF Votes
<1>2. QED  BY <1>1, ParkVotes, StoreRejectionVotes DEF HandleRejection

-----------------------------------------------------------------------------
\* Our own votes.

\* A row is written back with a verdict that is not more in favour.
LEMMA WriteRowVotes ==
  ASSUME NEW d \in SignerType, NEW b \in Blocks, NEW r \in Rows,
         r.valid = "yes" => d.row[b].valid = "yes" \/ b \in d.sentPc
  PROVE  SameVotes(d, [d EXCEPT !.row[b] = r])
<1> DEFINE d2 == [d EXCEPT !.row[b] = r]
<1>1. /\ d2.preCommits = d.preCommits /\ d2.signatures = d.signatures
      /\ d2.rejections = d.rejections /\ d2.parked = d.parked
      /\ d2.sentPc = d.sentPc /\ d2.posted = d.posted
      /\ \A c \in Blocks : d2.row[c] = IF c = b THEN r ELSE d.row[c]
  BY DEF SignerType
<1> HIDE DEF d2
<1>2. SameVotes(d, d2)  BY <1>1, SameVoteFields
<1>3. QED  BY <1>2 DEF d2

\* send_block_response counts nothing.
LEMMA SendVotes ==
  ASSUME NEW d \in SignerType, NEW y
  PROVE  /\ SameVotes(d, [d EXCEPT !.sentRej = y])
         /\ SameVotes(d, [d EXCEPT !.sentSig = y])
         /\ SameVotes(d, [d EXCEPT !.sentPc = d.sentPc \cup y])
  BY DEF SignerType, SameVotes

\* A rejection of a block without a stamp, with the row as it was read.
LEMMA RejectVotes ==
  ASSUME NEW d, NEW n, NEW x, NEW W, SignerOK(d, n, x, W),
         NEW s \in Signers, NEW b \in Blocks, NEW code \in Codes,
         NEW r \in Rows, RowOK(r, b, n, x), r.self = FALSE, d.row[b].self = FALSE,
         r.state # "Unseen", NEW P, NEW G, VotesOK(d, s, P, G)
  PROVE  VotesKept(d, Reject(d, s, b, r, code), s, P, G)
<1> DEFINE m  == MarkLocallyRejected(r, code)
           d1 == [d EXCEPT !.row[b] = m]
           d2 == StoreRejection(d1, s, b, code)
           y  == d2.sentRej \cup {<<b, code>>}
           d3 == [d2 EXCEPT !.sentRej = y]
<1>1. /\ m \in Rows /\ RowOK(m, b, n, x) /\ m.self = FALSE /\ m.valid = "no"
      /\ m.state # "Unseen"
  BY RejectKeepsRowOK
<1>2. Reject(d, s, b, r, code) = d3  BY DEF Reject
<1> HIDE DEF m
<1>3. SignerOK(d1, n, x, W) /\ Quiet(d, d1)  BY <1>1, WriteRow
<1>4. SameVotes(d, d1)  BY <1>1, WriteRowVotes DEF SignerOK
<1> HIDE DEF d1
<1>5. Self(d1) = Self(d) /\ d1 \in SignerType  BY <1>3 DEF Quiet, SignerOK
<1>6. VotesKept(d, d1, s, P, G)  BY <1>4, <1>5, SameVotesKeep
<1>7. VotesKept(d1, d2, s, P, G)  BY <1>5, <1>6, StoreRejectionVotes DEF VotesKept
<1>8. SignerOK(d2, n, x, W)  BY <1>3, StoreRejectionIsQuiet
<1> HIDE DEF d2, y
<1>9. d2 \in SignerType  BY <1>8 DEF SignerOK
<1>10. SameVotes(d2, d3) /\ d3.row = d2.row  BY <1>9, SendVotes DEF SignerType
<1> HIDE DEF d3
<1>11. Self(d3) = Self(d2)  BY <1>10 DEF Self
<1>12. VotesKept(d2, d3, s, P, G)  BY <1>7, <1>10, <1>11, SameVotesKeep DEF VotesKept
<1>13. QED  BY <1>2, <1>6, <1>7, <1>12, VotesKeptTwice

\* check_latest_block_in_tenure and check_block_against_signer_db_state
LEMMA RowsSameVotes ==
  ASSUME NEW d \in SignerType, NEW R,
         \A c \in Blocks : [d EXCEPT !.row = R].row[c].valid = d.row[c].valid
  PROVE  SameVotes(d, [d EXCEPT !.row = R])
<1> DEFINE d2 == [d EXCEPT !.row = R]
<1>1. /\ d2.preCommits = d.preCommits /\ d2.signatures = d.signatures
      /\ d2.rejections = d.rejections /\ d2.parked = d.parked
      /\ d2.sentPc = d.sentPc /\ d2.posted = d.posted
  BY DEF SignerType
<1>2. \A c \in Blocks : d2.row[c].valid = d.row[c].valid  OBVIOUS
<1> HIDE DEF d2
<1>3. SameVotes(d, d2)  BY <1>1, <1>2, SameVoteFields
<1>4. QED  BY <1>3 DEF d2

LEMMA AfterRecheckVotes ==
  ASSUME NEW d, NEW n, NEW x, NEW W, W \subseteq Blocks, SignerOK(d, n, x, W),
         NodeOK(n, x), NEW b, NEW up, NEW e, NEW s, NEW P, NEW G, VotesOK(d, s, P, G)
  PROVE  LET d2 == [d EXCEPT !.row = RowsAfterDbCheck(d, n, b, up, e)]
         IN  /\ VotesKept(d, d2, s, P, G) /\ d2.preCommits = d.preCommits
             /\ d2.sentPc = d.sentPc
<1> DEFINE R  == RowsAfterDbCheck(d, n, b, up, e)
           d2 == [d EXCEPT !.row = R]
<1>1. /\ Quiet(d, d2) /\ \A c \in Blocks : d2.row[c].valid = d.row[c].valid
  BY RowsAfterDbCheckIsQuiet
<1>2. d \in SignerType  BY DEF SignerOK
<1> HIDE DEF R
<1>3. SameVotes(d, d2)  BY <1>1, <1>2, RowsSameVotes
<1>4. d2.preCommits = d.preCommits /\ d2.sentPc = d.sentPc  BY <1>2 DEF SignerType
<1> HIDE DEF d2
<1>5. Self(d2) = Self(d)  BY <1>1 DEF Quiet
<1>6. VotesKept(d, d2, s, P, G)  BY <1>3, <1>5, SameVotesKeep
<1>7. QED  BY <1>4, <1>6 DEF d2, R

\* insert_block with signed_self needs the pre-commits of 70%, ours among those sent.
LEMMA StampSelfVotes ==
  ASSUME NEW d \in SignerType, NEW s, NEW P, NEW G, VotesOK(d, s, P, G),
         NEW b \in Blocks, NEW r \in Rows, b \in d.sentPc, MeetsThreshold(d.preCommits[b])
  PROVE  LET d2 == StampSelf(d, b, r)
         IN  VotesKept(d, d2, s, P, G) /\ b \in Self(d2) /\ d2.sentPc = d.sentPc
<1> DEFINE m  == MarkSelfSigned(r)
           d2 == [d EXCEPT !.row[b] = m]
<1>1. m \in Rows /\ m.self = TRUE  BY MarkSelfSignedFacts
<1>2. d2 = StampSelf(d, b, r)  BY DEF StampSelf
<1> HIDE DEF m
<1>3. /\ d2.preCommits = d.preCommits /\ d2.signatures = d.signatures
      /\ d2.rejections = d.rejections /\ d2.parked = d.parked
      /\ d2.sentPc = d.sentPc /\ d2.posted = d.posted
      /\ \A c \in Blocks : d2.row[c] = IF c = b THEN m ELSE d.row[c]
  BY DEF SignerType
<1> HIDE DEF d2
<1>4. Self(d2) = Self(d) \cup {b}  BY <1>1, <1>3 DEF Self
<1>5. ASSUME NEW c \in Blocks PROVE BlockVotesOK(d2, s, P, G, c)
  <2>1. BlockVotesOK(d, s, P, G, c)  BY DEF VotesOK
  <2>2. /\ GavePc(d2, s, P, c) = GavePc(d, s, P, c)
        /\ GaveSig(d, s, G, c) \subseteq GaveSig(d2, s, G, c)
    BY <1>3, <1>4 DEF GavePc, GaveSig
  <2>3. RejectedBy(d2, c) = RejectedBy(d, c)  BY <1>3 DEF RejectedBy
  <2>4. c \in d2.posted => MeetsThreshold(GaveSig(d2, s, G, c))
    BY <1>3, <2>1, <2>2, QuorumGrows DEF BlockVotesOK
  <2>5. c \in Self(d2) => MeetsThreshold(GavePc(d, s, P, c))
    BY <1>4, <2>1, QuorumGrows DEF BlockVotesOK
  <2>6. d2.row[c].valid = "yes" => c \in d2.sentPc
    BY <1>3, <2>1 DEF BlockVotesOK
  <2>7. QED  BY <1>3, <2>1, <2>2, <2>3, <2>4, <2>5, <2>6 DEF BlockVotesOK
<1>6. QED  BY <1>2, <1>3, <1>4, <1>5 DEF VotesKept, VotesOK

\* handle_block_signature of our own acceptance
LEMMA TallyOwnVotes ==
  ASSUME NEW d, NEW n, NEW x, NEW W, SignerOK(d, n, x, W), NEW s \in Signers,
         NEW P, NEW G, VotesOK(d, s, P, G), NEW b \in Self(d)
  PROVE  VotesKept(d, TallyOwn(d, s, b), s, P, G)
<1> DEFINE d1 == AddSignature(d, s, b)
           d2 == TallySignatures(d1, b)
<1>1. b \in Blocks /\ d \in SignerType  BY DEF Self, SignerOK
<1>2. s \in GaveSig(d, s, G, b)  BY DEF GaveSig
<1>3. VotesKept(d, d1, s, P, G)  BY <1>1, <1>2, AddSignatureVotes
<1>4. SignerOK(d1, n, x, W)  BY <1>1, AddSignatureIsQuiet
<1> HIDE DEF d1
<1>5. d1 \in SignerType  BY <1>4 DEF SignerOK
<1>6. VotesKept(d1, d2, s, P, G)  BY <1>1, <1>3, <1>5, TallySignaturesVotes DEF VotesKept
<1> HIDE DEF d2
<1>7. VotesKept(d, d2, s, P, G)  BY <1>3, <1>6, VotesKeptTwice
<1>8. QED  BY <1>3, <1>7 DEF TallyOwn, d1, d2

\* The end of handle_block_pre_commit: the row is written, the signature tallied
\* and sent.
LEMMA SignVotes ==
  ASSUME NEW d, NEW n, NEW x, NEW W, SignerOK(d, n, x, W),
         NEW s \in Signers, NEW b \in Blocks, NEW r \in Rows, RowOK(r, b, n, x),
         r.self = FALSE, r.valid = "yes", r.state # "Unseen",
         d.row[b].self = FALSE, d.row[b].valid = "yes",
         ~Frozen(d, b), SiblingsExcused(d, b, x),
         NEW P, NEW G, VotesOK(d, s, P, G), MeetsThreshold(d.preCommits[b])
  PROVE  VotesKept(d, Sign(d, s, b, r), s, P, G)
<1> DEFINE d1 == StampSelf(d, b, r)
           d2 == TallyOwn(d1, s, b)
           y  == d2.sentSig \cup {b}
           d3 == [d2 EXCEPT !.sentSig = y]
<1>1. Sign(d, s, b, r) = d3  BY DEF Sign
<1>2. d \in SignerType  BY DEF SignerOK
<1>3. b \in d.sentPc  BY DEF VotesOK, BlockVotesOK
<1>4. VotesKept(d, d1, s, P, G) /\ b \in Self(d1)  BY <1>2, <1>3, StampSelfVotes
<1>5. SignerOK(d1, n, x, W)  BY StampSelfMoves
<1> HIDE DEF d1
<1>6. VotesKept(d1, d2, s, P, G)  BY <1>4, <1>5, TallyOwnVotes DEF VotesKept
<1>7. SignerOK(d2, n, x, W)  BY <1>5, TallyOwnIsQuiet
<1> HIDE DEF d2, y
<1>8. d2 \in SignerType  BY <1>7 DEF SignerOK
<1>9. SameVotes(d2, d3) /\ d3.row = d2.row  BY <1>8, SendVotes DEF SignerType
<1> HIDE DEF d3
<1>10. Self(d3) = Self(d2)  BY <1>9 DEF Self
<1>11. VotesKept(d2, d3, s, P, G)  BY <1>6, <1>9, <1>10, SameVotesKeep DEF VotesKept
<1>12. QED  BY <1>1, <1>4, <1>6, <1>11, VotesKeptTwice

\* handle_block_pre_commit for a known block
LEMMA DecideVotes ==
  ASSUME NEW d, NEW n, NEW x, NEW W, W \subseteq Blocks, SignerOK(d, n, x, W),
         NodeOK(n, x), NEW s \in Signers, NEW b \in Blocks, NEW e,
         d.row[b].state # "Unseen", NEW P, NEW G, VotesOK(d, s, P, G)
  PROVE  VotesKept(d, DecideOnPreCommit(d, n, s, b, e), s, P, G)
<1> DEFINE d1 == AfterRecheck(d, n, b, e)
           r  == d.row[b]
           v  == Recheck(d, n, b, e)
<1>1. CASE ~MustDecide(d, b)
  <2>1. DecideOnPreCommit(d, n, s, b, e) = d  BY <1>1 DEF DecideOnPreCommit
  <2>2. QED  BY <2>1 DEF VotesKept
<1>2. CASE MustDecide(d, b)
  <2>1. d \in SignerType  BY DEF SignerOK
  <2>2. r \in Rows /\ RowOK(r, b, n, x)  BY <2>1 DEF SignerType, SignerOK
  <2>3. r.self = FALSE /\ r.valid = "yes" /\ r.state # "Unseen"
    BY <1>2, <2>2 DEF MustDecide, Rows
  <2>4. /\ SignerOK(d1, n, x, W) /\ Quiet(d, d1)
        /\ d1.row[b].self = FALSE /\ d1.row[b].valid = "yes"
        /\ VotesKept(d, d1, s, P, G) /\ d1.preCommits = d.preCommits
    <3> DEFINE up == "recheck" \in e.up
               R == RowsAfterDbCheck(d, n, b, up, e)
               z == [d EXCEPT !.row = R]
    <3>1. d1 = z  BY DEF AfterRecheck
    <3> HIDE DEF up
    <3>2. /\ SignerOK(z, n, x, W) /\ Quiet(d, z)
          /\ \A c \in Blocks : /\ z.row[c].self = d.row[c].self
                               /\ z.row[c].valid = d.row[c].valid
      BY RowsAfterDbCheckIsQuiet
    <3>3. VotesKept(d, z, s, P, G) /\ z.preCommits = d.preCommits
      BY AfterRecheckVotes
    <3> HIDE DEF z, d1
    <3>4. QED  BY <2>3, <3>1, <3>2, <3>3
  <2>5. v \in Codes \cup {"none"}  BY DEF Recheck, DbVerdict, Codes
  <2>6. VotesOK(d1, s, P, G)  BY <2>4 DEF VotesKept
  <2>7. CASE v # "none"
    <3>1. DecideOnPreCommit(d, n, s, b, e) = Reject(d1, s, b, r, v)
      BY <1>2, <2>7 DEF DecideOnPreCommit
    <3> HIDE DEF d1, r, v
    <3>2. v \in Codes  BY <2>5, <2>7
    <3>3. VotesKept(d1, Reject(d1, s, b, r, v), s, P, G)
      BY <2>2, <2>3, <2>4, <2>6, <3>2, RejectVotes
    <3>4. QED  BY <2>4, <3>1, <3>3, VotesKeptTwice
  <2>8. CASE v = "none" /\ HeldByConflict(d1, n, b, e)
    <3>1. DecideOnPreCommit(d, n, s, b, e) = d1
      BY <1>2, <2>8 DEF DecideOnPreCommit
    <3>2. QED  BY <2>4, <3>1
  <2>9. CASE v = "none" /\ ~HeldByConflict(d1, n, b, e)
    <3>1. DecideOnPreCommit(d, n, s, b, e) = Sign(d1, s, b, r)
      BY <1>2, <2>9 DEF DecideOnPreCommit
    <3>2. ~Frozen(d, b)  BY <2>9 DEF Recheck, DbVerdict
    <3>3. ~Frozen(d1, b)  BY <2>4, <3>2 DEF Quiet, Frozen
    <3>4. MeetsThreshold(d1.preCommits[b])  BY <1>2, <2>4 DEF MustDecide
    <3> HIDE DEF d1, r, v
    <3>5. SiblingsExcused(d1, b, x)
      BY <2>4, <2>9, GuardExcuses DEF SiblingsExcused
    <3>6. VotesKept(d1, Sign(d1, s, b, r), s, P, G)
      BY <2>2, <2>3, <2>4, <2>6, <3>3, <3>4, <3>5, SignVotes
    <3>7. QED  BY <2>4, <3>1, <3>6, VotesKeptTwice
  <2>10. QED  BY <2>7, <2>8, <2>9
<1>3. QED  BY <1>1, <1>2

\* handle_block_pre_commit of a pre-commit that was given
LEMMA HandlePreCommitVotes ==
  ASSUME NEW d, NEW n, NEW x, NEW W, W \subseteq Blocks, SignerOK(d, n, x, W),
         NodeOK(n, x), NEW s \in Signers, NEW from \in Signers, NEW b \in Blocks, NEW e,
         NEW P, NEW G, VotesOK(d, s, P, G), from \in GavePc(d, s, P, b)
  PROVE  VotesKept(d, HandlePreCommit(d, n, s, from, b, e), s, P, G)
<1>0. d \in SignerType  BY DEF SignerOK
<1>1. CASE d.row[b].state = "Unseen"
  <2>1. "pc" \in Votes  BY DEF Votes
  <2>2. VotesKept(d, Park(d, "pc", from, b, "none"), s, P, G)
    BY <1>0, <2>1, ParkVotes
  <2>3. QED  BY <1>1, <2>2 DEF HandlePreCommit
<1>2. CASE d.row[b].state # "Unseen"
  <2> DEFINE d1 == AddPreCommit(d, from, b)
             d2 == DecideOnPreCommit(d1, n, s, b, e)
  <2>1. SignerOK(d1, n, x, W) /\ d1.row = d.row  BY AddPreCommitIsQuiet
  <2>2. VotesKept(d, d1, s, P, G)  BY <1>0, AddPreCommitVotes
  <2> HIDE DEF d1
  <2>3. VotesKept(d1, d2, s, P, G)  BY <1>2, <2>1, <2>2, DecideVotes DEF VotesKept
  <2> HIDE DEF d2
  <2>4. HandlePreCommit(d, n, s, from, b, e) = d2
    BY <1>2 DEF HandlePreCommit, d1, d2
  <2>5. QED  BY <2>2, <2>3, <2>4, VotesKeptTwice
<1>3. QED  BY <1>1, <1>2

\* handle_block_signature of a signature that was given: its signer pre-committed
\* too, so it may count as a pre-commit.
LEMMA HandleSignatureVotes ==
  ASSUME NEW d, NEW n, NEW x, NEW W, W \subseteq Blocks, SignerOK(d, n, x, W),
         NodeOK(n, x), NEW s \in Signers, NEW from \in Signers, NEW b \in Blocks, NEW e,
         NEW P, NEW G, G[b] \subseteq P[b], VotesOK(d, s, P, G),
         from \in GaveSig(d, s, G, b)
  PROVE  VotesKept(d, HandleSignature(d, n, s, from, b, e), s, P, G)
<1> DEFINE d1 == AddSignature(d, from, b)
           p2 == HandlePreCommit(d1, n, s, from, b, e)
           t2 == TallySignatures(d1, b)
           k2 == Park(d, "sig", from, b, "none")
<1>0. d \in SignerType /\ "sig" \in Votes  BY DEF SignerOK, Votes
<1>1. VotesKept(d, k2, s, P, G)  BY <1>0, ParkVotes
<1>2. \/ HandleSignature(d, n, s, from, b, e) \in {k2, d1, t2}
      \/ HandleSignature(d, n, s, from, b, e) = p2 /\ from # s
  BY DEF HandleSignature
<1>3. VotesKept(d, d1, s, P, G)  BY <1>0, AddSignatureVotes
<1>4. SignerOK(d1, n, x, W)  BY AddSignatureIsQuiet
<1> HIDE DEF d1, k2
<1>5. d1 \in SignerType  BY <1>4 DEF SignerOK
<1>6. VotesKept(d1, t2, s, P, G)  BY <1>3, <1>5, TallySignaturesVotes DEF VotesKept
<1>7. from # s => VotesKept(d1, p2, s, P, G)
  <2>1. from # s => from \in GavePc(d1, s, P, b)  BY DEF GaveSig, GavePc
  <2>2. QED  BY <1>3, <1>4, <2>1, HandlePreCommitVotes DEF VotesKept
<1> HIDE DEF p2, t2
<1>8. QED  BY <1>1, <1>2, <1>3, <1>6, <1>7, VotesKeptTwice

-----------------------------------------------------------------------------
\* Validation, and the record of blocks the node processed.

\* check_pending_block_validations
LEMMA SubmitVotes ==
  ASSUME NEW d \in SignerType, NEW b, NEW answer \in {"ok", "wait", "error"}, NEW q
  PROVE  SameVotes(d, Submit(d, b, answer, q)) /\ Submit(d, b, answer, q).row = d.row
<1> DEFINE d2 == Submit(d, b, answer, q)
<1>1. /\ d2.preCommits = d.preCommits /\ d2.signatures = d.signatures
      /\ d2.rejections = d.rejections /\ d2.posted = d.posted /\ d2.parked = d.parked
      /\ d2.sentPc = d.sentPc /\ d2.row = d.row
  <2>1. CASE answer = "ok"
    <3>1. d2 = [d EXCEPT !.slot = b, !.asked = @ \cup {b}]  BY <2>1 DEF Submit
    <3>2. QED  BY <3>1 DEF SignerType
  <2>2. CASE answer = "wait"
    <3>1. d2 = [d EXCEPT !.queue = q]  BY <2>2 DEF Submit
    <3>2. QED  BY <3>1 DEF SignerType
  <2>3. CASE answer = "error"
    <3>1. d2 = d  BY <2>3 DEF Submit
    <3>2. QED  BY <3>1
  <2>4. QED  BY <2>1, <2>2, <2>3
<1> HIDE DEF d2
<1>2. SameVotes(d, d2)  BY <1>1, SameVoteFields
<1>3. QED  BY <1>1, <1>2 DEF d2

LEMMA CheckPendingVotes ==
  ASSUME NEW d \in SignerType, NEW answer \in {"ok", "wait", "error"}
  PROVE  SameVotes(d, CheckPending(d, answer)) /\ CheckPending(d, answer).row = d.row
<1>1. CASE d.slot # None \/ d.queue = <<>>
  BY <1>1 DEF CheckPending, SameVotes
<1>2. CASE d.slot = None /\ d.queue # <<>>
  <2> DEFINE b  == Head(d.queue)
             q  == Tail(d.queue)
             d1 == [d EXCEPT !.queue = q]
             d2 == Submit(d1, b, answer, QueueAtFront(q, b))
  <2>1. CheckPending(d, answer) = d2  BY <1>2 DEF CheckPending
  <2>2. d.queue \in Seq(Blocks)  BY DEF SignerType
  <2>3. q \in Seq(Blocks)  BY <1>2, <2>2, HeadTailProperties
  <2> HIDE DEF q, b
  <2>4. d1 \in SignerType /\ SameVotes(d, d1) /\ d1.row = d.row
    BY <2>3 DEF SignerType, SameVotes
  <2> HIDE DEF d1
  <2>5. SameVotes(d1, d2) /\ d2.row = d1.row  BY <2>4, SubmitVotes
  <2> HIDE DEF d2
  <2>6. QED  BY <2>1, <2>4, <2>5, SameVotesTwice
<1>3. QED  BY <1>1, <1>2

\* check_submitted_block_proposal: the rejection is sent, and not counted.
LEMMA ExpireSlotVotes ==
  ASSUME NEW d \in SignerType
  PROVE  SameVotes(d, ExpireSlot(d))
<1> DEFINE b  == d.slot
           m  == MarkLocallyRejected(d.row[b], "reconsider")
           y  == d.sentRej \cup {<<b, "reconsider">>}
           d1 == [d EXCEPT !.slot = None]
           d2 == [d EXCEPT !.slot = None, !.row[b] = m, !.sentRej = y]
<1>1. CASE b = None  BY <1>1 DEF ExpireSlot, SameVotes
<1>2. CASE b # None
  <2>1. b \in Blocks  BY <1>2 DEF SignerType
  <2>2. d.row[b] \in Rows /\ "reconsider" \in Codes  BY <2>1 DEF SignerType, Codes
  <2>3. m \in Rows /\ m.valid = "no"
    <3> HIDE DEF b
    <3>1. QED  BY <2>2, MarkLocallyRejectedFacts
  <2>4. ExpireSlot(d) \in {d1, d2}
    <3>1. d1.row = d.row /\ d1.sentRej = d.sentRej  BY DEF SignerType
    <3>2. [d1 EXCEPT !.row[b] = MarkLocallyRejected(@, "reconsider"),
                     !.sentRej = @ \cup {<<b, "reconsider">>}] = d2
      BY <3>1 DEF SignerType
    <3>3. QED  BY <1>2, <3>2 DEF ExpireSlot
  <2>5. SameVotes(d, d1)  BY DEF SignerType, SameVotes
  <2> HIDE DEF m, y, b
  <2>6. /\ d2.preCommits = d.preCommits /\ d2.signatures = d.signatures
        /\ d2.rejections = d.rejections /\ d2.parked = d.parked
        /\ d2.sentPc = d.sentPc /\ d2.posted = d.posted
        /\ \A c \in Blocks : d2.row[c] = IF c = b THEN m ELSE d.row[c]
    BY DEF SignerType
  <2> HIDE DEF d2
  <2>7. SameVotes(d, d2)  BY <2>3, <2>6, SameVoteFields
  <2>8. QED  BY <2>4, <2>5, <2>7
<1>3. QED  BY <1>1, <1>2

LEMMA FreeSlotVotes ==
  ASSUME NEW d \in SignerType, NEW b
  PROVE  SameVotes(d, FreeSlot(d, b)) /\ FreeSlot(d, b).row = d.row
  BY DEF FreeSlot, SignerType, SameVotes

\* The tail of handle_block_validate_response
LEMMA FinishValidationVotes ==
  ASSUME NEW d \in SignerType, NEW b, NEW e, e.sub \in {"ok", "wait", "error"}
  PROVE  SameVotes(d, FinishValidation(d, b, e))
<1> DEFINE q  == DropFromSeq(d.queue, b)
           d1 == [d EXCEPT !.queue = q]
           d2 == CheckPending(d1, e.sub)
<1>1. d.queue \in Seq(Blocks)  BY DEF SignerType
<1>2. q \in Seq(Blocks)  BY <1>1, DropFromSeqFacts
<1>3. FinishValidation(d, b, e) = d2  BY DEF FinishValidation
<1> HIDE DEF q
<1>4. d1 \in SignerType /\ SameVotes(d, d1)  BY <1>2 DEF SignerType, SameVotes
<1> HIDE DEF d1
<1>5. SameVotes(d1, d2)  BY <1>4, CheckPendingVotes
<1> HIDE DEF d2
<1>6. QED  BY <1>3, <1>4, <1>5, SameVotesTwice

\* handle_block_validate_ok: the block becomes valid and our pre-commit is sent in
\* one go.
LEMMA ApproveValidatedVotes ==
  ASSUME NEW d, NEW n, NEW x, NEW b \in Blocks, SignerOK(d, n, x, Blocks \ {b}),
         NodeOK(n, x), NEW s \in Signers, NEW e, AwaitsVerdict(d, b),
         NEW P, NEW G, VotesOK(d, s, P, G)
  PROVE  VotesKept(d, ApproveValidated(d, n, s, b, e), s, P, G)
<1> DEFINE W  == Blocks \ {b}
           r  == d.row[b]
           up == "check" \in e.up
           v  == DbVerdict(d, n, b, up, e)
           d1 == [d EXCEPT !.row = RowsAfterDbCheck(d, n, b, up, e)]
           m  == MarkPreCommitted(r)
           d2 == [d1 EXCEPT !.row[b] = m]
           d3 == [d2 EXCEPT !.sentPc = @ \cup {b}]
           d4 == HandlePreCommit(d3, n, s, s, b, e)
<1>1. d \in SignerType /\ W \subseteq Blocks  BY DEF SignerOK
<1>2. r \in Rows /\ RowOK(r, b, n, x)  BY <1>1 DEF SignerType, SignerOK
<1>3. r.state # "Unseen" /\ r.valid = "unknown" /\ r.self = FALSE /\ r.reason = "none"
  BY <1>2 DEF AwaitsVerdict, RowOK, Rows
<1>4. v \in Codes \cup {"none"}  BY DEF DbVerdict, Codes
<1>5. ApproveValidated(d, n, s, b, e) =
        IF v # "none" THEN Reject(d1, s, b, r, v)
        ELSE IF r.state = "LocallyRejected" THEN d1
        ELSE HandlePreCommit([d1 EXCEPT !.row[b] = m, !.sentPc = @ \cup {b}], n, s, s, b, e)
  BY DEF ApproveValidated
<1> HIDE DEF W
<1>6. /\ SignerOK(d1, n, x, W) /\ Quiet(d, d1) /\ d1.row[b].self = FALSE
      /\ VotesKept(d, d1, s, P, G)
  <2> HIDE DEF up
  <2>1. /\ SignerOK(d1, n, x, W) /\ Quiet(d, d1)
        /\ \A c \in Blocks : d1.row[c].self = d.row[c].self
    BY <1>1, RowsAfterDbCheckIsQuiet DEF W
  <2>2. VotesKept(d, d1, s, P, G)  BY <1>1, AfterRecheckVotes DEF W
  <2>3. QED  BY <1>3, <2>1, <2>2
<1> HIDE DEF d1, v
<1>7. VotesOK(d1, s, P, G)  BY <1>6 DEF VotesKept
<1>8. CASE v # "none"
  <2>1. v \in Codes  BY <1>4, <1>8
  <2> HIDE DEF r
  <2>2. VotesKept(d1, Reject(d1, s, b, r, v), s, P, G)
    BY <1>2, <1>3, <1>6, <1>7, <2>1, RejectVotes
  <2>3. QED  BY <1>5, <1>6, <1>8, <2>2, VotesKeptTwice
<1>9. CASE v = "none" /\ r.state = "LocallyRejected"
  BY <1>5, <1>6, <1>9
<1>10. CASE v = "none" /\ r.state # "LocallyRejected"
  <2>1. /\ m \in Rows /\ (m.state = r.state \/ m.state = "PreCommitted")
        /\ m.valid = "yes" /\ m.reason = "none" /\ m.self = FALSE
    <3> HIDE DEF r
    <3>1. QED  BY <1>2, <1>3, MarkPreCommittedFacts
  <2> HIDE DEF m
  <2>2. RowOK(m, b, n, x)  BY <1>2, <2>1 DEF RowOK
  <2>3. b \notin W /\ m.self = d1.row[b].self  BY <1>6, <2>1 DEF W
  <2>4. SignerOK(d2, n, x, W) /\ Quiet(d1, d2)
    BY <1>6, <2>1, <2>2, <2>3, WriteRow
  <2>5. d1 \in SignerType  BY <1>6 DEF SignerOK
  <2>6. [d1 EXCEPT !.row[b] = m, !.sentPc = @ \cup {b}] = d3
    BY <2>5 DEF SignerType
  <2>7. ApproveValidated(d, n, s, b, e) = d4  BY <1>5, <1>10, <2>6
  <2>8. SignerOK(d3, n, x, W) /\ Quiet(d2, d3)
    <3> HIDE DEF d2
    <3>1. QED  BY <2>4, SendPreCommitIsQuiet
  <2>9. /\ d3.preCommits = d1.preCommits /\ d3.signatures = d1.signatures
        /\ d3.rejections = d1.rejections /\ d3.parked = d1.parked
        /\ d3.sentPc = d1.sentPc \cup {b} /\ d3.posted = d1.posted
        /\ \A c \in Blocks : d3.row[c] = IF c = b THEN m ELSE d1.row[c]
    BY <2>5 DEF SignerType
  <2> HIDE DEF d2, d3
  <2>10. SameVotes(d1, d3)  BY <2>9, SameVoteFields
  <2>11. Self(d3) = Self(d1)  BY <2>4, <2>8 DEF Quiet
  <2>12. VotesKept(d1, d3, s, P, G)  BY <1>7, <2>10, <2>11, SameVotesKeep
  <2>13. s \in GavePc(d3, s, P, b)  BY <2>9 DEF GavePc
  <2>14. VotesKept(d3, d4, s, P, G)
    BY <1>1, <2>8, <2>12, <2>13, HandlePreCommitVotes DEF VotesKept
  <2> HIDE DEF d4
  <2>15. QED  BY <1>6, <2>7, <2>12, <2>14, VotesKeptTwice
<1>11. QED  BY <1>8, <1>9, <1>10

\* handle_block_validate_response with an approval
LEMMA HandleValidateOkVotes ==
  ASSUME NEW d, NEW n, NEW x, SignerOK(d, n, x, Blocks), NodeOK(n, x),
         NEW s \in Signers, NEW b \in Blocks, NEW e,
         e.sub \in {"ok", "wait", "error"}, NEW P, NEW G, VotesOK(d, s, P, G)
  PROVE  VotesKept(d, HandleValidateOk(d, n, s, b, e), s, P, G)
<1> DEFINE d1 == FreeSlot(d, b)
           d2 == IF AwaitsVerdict(d1, b) THEN ApproveValidated(d1, n, s, b, e) ELSE d1
           d3 == FinishValidation(d2, b, e)
<1>0. d \in SignerType  BY DEF SignerOK
<1>1. SignerOK(d1, n, x, Blocks) /\ Quiet(d, d1) /\ d1.slot # b
  BY FreeSlotIsQuiet
<1>2. HandleValidateOk(d, n, s, b, e) = d3  BY DEF HandleValidateOk
<1>3. SameVotes(d, d1)  BY <1>0, FreeSlotVotes
<1> HIDE DEF d1
<1>4. VotesKept(d, d1, s, P, G)  BY <1>1, <1>3, SameVotesKeep DEF Quiet
<1>5. SignerOK(d1, n, x, Blocks \ {b})  BY <1>1, SetBlockAside
<1>6. SignerOK(d2, n, x, Blocks \ {b}) /\ VotesKept(d1, d2, s, P, G)
  <2>1. CASE AwaitsVerdict(d1, b)
    BY <1>4, <1>5, <2>1, ApproveValidatedMoves, ApproveValidatedVotes DEF VotesKept
  <2>2. CASE ~AwaitsVerdict(d1, b)  BY <1>4, <1>5, <2>2 DEF VotesKept
  <2>3. QED  BY <2>1, <2>2
<1> HIDE DEF d2
<1>a. d2 \in SignerType  BY <1>6 DEF SignerOK
<1>7. Quiet(d2, d3) /\ SameVotes(d2, d3)
  BY <1>6, <1>a, FinishValidationIsQuiet, FinishValidationVotes
<1> HIDE DEF d3
<1>8. VotesKept(d2, d3, s, P, G)  BY <1>6, <1>7, SameVotesKeep DEF Quiet, VotesKept
<1>9. QED  BY <1>2, <1>4, <1>6, <1>8, VotesKeptTwice

\* handle_block_validate_response with a rejection
LEMMA HandleValidateRejectVotes ==
  ASSUME NEW d, NEW n, NEW x, SignerOK(d, n, x, Blocks),
         NEW s \in Signers, NEW b \in Blocks, NEW code \in Codes, NEW e,
         e.sub \in {"ok", "wait", "error"}, NEW P, NEW G, VotesOK(d, s, P, G)
  PROVE  VotesKept(d, HandleValidateReject(d, s, b, code, e), s, P, G)
<1> DEFINE d1 == FreeSlot(d, b)
           r  == d1.row[b]
           d2 == IF AwaitsVerdict(d1, b) THEN Reject(d1, s, b, r, code) ELSE d1
           d3 == FinishValidation(d2, b, e)
<1>0. d \in SignerType  BY DEF SignerOK
<1>1. SignerOK(d1, n, x, Blocks) /\ Quiet(d, d1) /\ d1.slot # b
  BY FreeSlotIsQuiet
<1>2. HandleValidateReject(d, s, b, code, e) = d3  BY DEF HandleValidateReject
<1>3. SameVotes(d, d1)  BY <1>0, FreeSlotVotes
<1> HIDE DEF d1
<1>4. VotesKept(d, d1, s, P, G)  BY <1>1, <1>3, SameVotesKeep DEF Quiet
<1>5. SignerOK(d1, n, x, Blocks \ {b})  BY <1>1, SetBlockAside
<1>6. SignerOK(d2, n, x, Blocks \ {b}) /\ VotesKept(d1, d2, s, P, G)
  <2>1. CASE AwaitsVerdict(d1, b)
    <3>1. d1 \in SignerType  BY <1>1 DEF SignerOK
    <3>2. r \in Rows /\ RowOK(r, b, n, x)  BY <1>1, <3>1 DEF SignerType, SignerOK
    <3>3. r.state # "Unseen" /\ r.self = FALSE
      BY <2>1, <3>2 DEF AwaitsVerdict, RowOK, Rows
    <3>4. d1.row[b].self = FALSE  BY <3>3
    <3>5. d2 = Reject(d1, s, b, r, code)  BY <2>1
    <3>6. VotesOK(d1, s, P, G)  BY <1>4 DEF VotesKept
    <3> HIDE DEF r, d2
    <3>7. SignerOK(d2, n, x, Blocks \ {b})
      BY <1>5, <3>2, <3>3, <3>4, <3>5, RejectIsQuiet
    <3>8. QED  BY <1>5, <3>2, <3>3, <3>4, <3>5, <3>6, <3>7, RejectVotes
  <2>2. CASE ~AwaitsVerdict(d1, b)  BY <1>4, <1>5, <2>2 DEF VotesKept
  <2>3. QED  BY <2>1, <2>2
<1> HIDE DEF d2
<1>a. d2 \in SignerType  BY <1>6 DEF SignerOK
<1>7. Quiet(d2, d3) /\ SameVotes(d2, d3)
  BY <1>6, <1>a, FinishValidationIsQuiet, FinishValidationVotes
<1> HIDE DEF d3
<1>8. VotesKept(d2, d3, s, P, G)  BY <1>6, <1>7, SameVotesKeep DEF Quiet, VotesKept
<1>9. QED  BY <1>2, <1>4, <1>6, <1>8, VotesKeptTwice

\* SignerEvent::NewBlock
LEMMA HandleNewBlockVotes ==
  ASSUME NEW d, NEW n, NEW x, SignerOK(d, n, x, Blocks),
         NEW b \in Blocks, b \in n.processed, NEW s, NEW P, NEW G, VotesOK(d, s, P, G)
  PROVE  VotesKept(d, HandleNewBlock(d, b), s, P, G)
<1> DEFINE r  == d.row[b]
           m  == SeenAsTip(r)
           d2 == [d EXCEPT !.row[b] = m]
<1>1. d \in SignerType  BY DEF SignerOK
<1>2. r \in Rows /\ RowOK(r, b, n, x)  BY <1>1 DEF SignerType, SignerOK
<1>3. m \in Rows /\ m.valid = d.row[b].valid
  <2>1. m \in Rows /\ m.valid = r.valid
    <3> HIDE DEF r
    <3>1. QED  BY <1>2, MarksKeepRowOK
  <2>2. QED  BY <2>1
<1>4. HandleNewBlock(d, b) = d2  BY DEF HandleNewBlock
<1> HIDE DEF m
<1>5. SameVotes(d, d2)  BY <1>1, <1>3, WriteRowVotes
<1> HIDE DEF d2
<1>6. Quiet(d, d2)  BY <1>4, HandleNewBlockIsQuiet
<1>7. QED  BY <1>4, <1>5, <1>6, SameVotesKeep DEF Quiet

-----------------------------------------------------------------------------
\* Proposals: the repeated decision, and the votes that came before the block.

\* should_reevaluate_block answers false
LEMMA RepeatDecisionVotes ==
  ASSUME NEW d, NEW n, NEW x, SignerOK(d, n, x, Blocks), NodeOK(n, x),
         NEW s \in Signers, NEW b \in Blocks, NEW e, NEW P, NEW G, VotesOK(d, s, P, G)
  PROVE  VotesKept(d, RepeatDecision(d, n, s, b, e), s, P, G)
<1> DEFINE y  == d.sentRej \cup {<<b, "final">>}
           z  == d.sentSig \cup {b}
           j2 == [d EXCEPT !.sentRej = y]
           g2 == [d EXCEPT !.sentSig = z]
           d1 == [d EXCEPT !.sentPc = d.sentPc \cup {b}]
           p2 == HandlePreCommit(d1, n, s, s, b, e)
<1>1. d \in SignerType  BY DEF SignerOK
<1>2. RepeatDecision(d, n, s, b, e) \in {d, j2, g2, p2}
  BY DEF RepeatDecision
<1>3. VotesKept(d, d, s, P, G)  BY DEF VotesKept
<1> HIDE DEF y, z
<1>4. /\ SameVotes(d, j2) /\ j2.row = d.row /\ SameVotes(d, g2) /\ g2.row = d.row
      /\ SameVotes(d, d1) /\ d1.row = d.row /\ b \in d1.sentPc
  BY <1>1, SendVotes DEF SignerType
<1>5. SignerOK(d1, n, x, Blocks)  BY SendPreCommitIsQuiet
<1> HIDE DEF j2, g2, d1
<1>6. Self(j2) = Self(d) /\ Self(g2) = Self(d) /\ Self(d1) = Self(d)  BY <1>4 DEF Self
<1>7. VotesKept(d, j2, s, P, G) /\ VotesKept(d, g2, s, P, G) /\ VotesKept(d, d1, s, P, G)
  BY <1>4, <1>6, SameVotesKeep
<1>8. s \in GavePc(d1, s, P, b)  BY <1>4 DEF GavePc
<1>9. VotesKept(d1, p2, s, P, G)  BY <1>5, <1>7, <1>8, HandlePreCommitVotes DEF VotesKept
<1> HIDE DEF p2
<1>10. QED  BY <1>2, <1>3, <1>7, <1>9, VotesKeptTwice

\* drain_pending_block_responses
LEMMA DrainVotes ==
  ASSUME NEW d \in SignerType, NEW b
  PROVE  SameVotes(d, Drain(d, b))
<1> DEFINE S  == Blocks \X (Codes \cup {"none"})
           D  == [k \in Votes |-> [v \in Signers |-> DropParked(d.parked[k][v], b)]]
           d2 == [d EXCEPT !.parked = D]
<1>1. \A k \in Votes, v \in Signers : d.parked[k][v] \in Seq(S)  BY DEF SignerType
<1>2. \A k \in Votes, v \in Signers : D[k][v] = DropParked(d.parked[k][v], b)  OBVIOUS
<1> HIDE DEF S
<1>3. \A k \in Votes, v \in Signers, c \in Blocks :
        ParkedFor(D[k][v], c) # {} => ParkedFor(d.parked[k][v], c) # {}
  BY <1>1, <1>2, DropParkedKeeps
<1>4. Drain(d, b) = d2  BY DEF Drain
<1> HIDE DEF D
<1>5. /\ d2.preCommits = d.preCommits /\ d2.signatures = d.signatures
      /\ d2.rejections = d.rejections /\ d2.posted = d.posted /\ d2.parked = D
      /\ d2.sentPc = d.sentPc /\ d2.row = d.row
  BY DEF SignerType
<1> HIDE DEF d2
<1>6. SameVotes(d, d2)  BY <1>3, <1>5 DEF SameVotes
<1>7. QED  BY <1>4, <1>6

\* process_pending_responses_for_block: old is the record the votes were parked in.
\* A parked signature takes the rejection of its signer back, a parked rejection
\* does not take a signature back.
LEMMA ReplayVotes ==
  ASSUME NEW d, NEW n, NEW x, SignerOK(d, n, x, Blocks), NEW old \in SignerType,
         NEW s \in Signers, NEW b \in Blocks, NEW e,
         NEW P, NEW G, G[b] \subseteq P[b], VotesOK(d, s, P, G),
         VotesOK(old, s, P, G), old.sentPc \subseteq d.sentPc, Self(d) = Self(old)
  PROVE  VotesKept(d, Replay(d, old, s, b, e), s, P, G)
<1> DEFINE votes(k) == {v \in Signers : ParkedFor(old.parked[k][v], b) # {}}
           code(v)  == (CHOOSE z \in ParkedFor(old.parked["rej"][v], b) : TRUE)[2]
           counted  == d.preCommits[b] \cup votes("pc")
           tallied  == votes("sig") \cap (counted \cup {s})
           rejected == votes("rej") \ d.signatures[b]
           afterRej == [v \in Signers |-> IF v \in rejected THEN code(v)
                                          ELSE d.rejections[b][v]]
           blocked  == /\ rejected # {}
                       /\ BlocksThreshold({v \in Signers : afterRej[v] # "none"})
           reaches  == /\ tallied # {}
                       /\ MeetsThreshold(d.signatures[b] \cup
                                         (IF e.early THEN votes("sig") ELSE tallied))
           row1     == IF blocked THEN MarkGloballyRejected(d.row[b]) ELSE d.row[b]
           C == counted \cup (votes("sig") \ {s})
           J == [v \in Signers |-> IF v \in votes("sig") THEN "none" ELSE afterRej[v]]
           A == d.signatures[b] \cup votes("sig")
           m == IF reaches THEN MarkGroupSigned(row1) ELSE row1
           Q == IF reaches THEN d.posted \cup {b} ELSE d.posted
           d2 == [d EXCEPT !.preCommits[b] = C, !.rejections[b] = J, !.signatures[b] = A,
                           !.row[b] = m, !.posted = Q]
<1>1. d \in SignerType  BY DEF SignerOK
<1>2. Replay(d, old, s, b, e) = d2  BY DEF Replay
<1>3. BlockVotesOK(d, s, P, G, b) /\ BlockVotesOK(old, s, P, G, b)  BY DEF VotesOK
<1>4. /\ GavePc(old, s, P, b) \subseteq GavePc(d, s, P, b)
      /\ GaveSig(old, s, G, b) = GaveSig(d, s, G, b)
  BY DEF GavePc, GaveSig
<1>5. votes("pc") \subseteq GavePc(d, s, P, b) /\ votes("sig") \subseteq GaveSig(d, s, G, b)
  BY <1>3, <1>4 DEF BlockVotesOK
<1>6. C \subseteq GavePc(d, s, P, b)
  <2> HIDE DEF votes
  <2>1. d.preCommits[b] \subseteq GavePc(d, s, P, b)  BY <1>3 DEF BlockVotesOK
  <2>2. votes("sig") \ {s} \subseteq P[b]  BY <1>5 DEF GaveSig
  <2>3. P[b] \subseteq GavePc(d, s, P, b)  BY DEF GavePc
  <2>4. QED  BY <1>5, <2>1, <2>2, <2>3
<1>7. A \subseteq GaveSig(d, s, G, b)
  <2> HIDE DEF votes
  <2>1. QED  BY <1>3, <1>5 DEF BlockVotesOK
<1>8. \A v \in A : v \in Signers => J[v] = "none"
  <2> SUFFICES ASSUME NEW v \in A, v \in Signers PROVE J[v] = "none"
    OBVIOUS
  <2>1. CASE v \in votes("sig")
    <3> HIDE DEF votes, afterRej
    <3>1. QED  BY <2>1
  <2>2. CASE v \notin votes("sig")
    <3>1. v \in d.signatures[b]
      <4> HIDE DEF votes
      <4>1. QED  BY <2>2
    <3>2. d.rejections[b][v] = "none"  BY <1>3, <3>1 DEF BlockVotesOK, RejectedBy
    <3>3. v \notin rejected
      <4> HIDE DEF votes
      <4>1. QED  BY <3>1
    <3>4. afterRej[v] = "none"
      <4> HIDE DEF rejected, code
      <4>1. QED  BY <3>2, <3>3
    <3> HIDE DEF votes, afterRej
    <3>5. QED  BY <2>2, <3>4
  <2>3. QED  BY <2>1, <2>2
<1>9. reaches => MeetsThreshold(A)
  <2> DEFINE T == IF e.early THEN votes("sig") ELSE tallied
  <2> HIDE DEF votes, counted
  <2>1. T \subseteq votes("sig")  OBVIOUS
  <2>2. reaches => MeetsThreshold(d.signatures[b] \cup T)  OBVIOUS
  <2> HIDE DEF T, reaches
  <2>3. QED  BY <2>1, <2>2, QuorumGrows
<1>10. d.row[b] \in Rows  BY <1>1 DEF SignerType
<1> HIDE DEF blocked, reaches, J, A, C
<1>11. row1 \in Rows /\ row1.valid = d.row[b].valid
  <2>1. CASE blocked
    <3>1. "GloballyRejected" \in BlockStates  BY DEF BlockStates
    <3>2. LET y == MoveTo(d.row[b], "GloballyRejected")
          IN  y \in Rows /\ y.valid = d.row[b].valid
      BY <1>10, <3>1, MoveToFacts
    <3>3. QED  BY <2>1, <3>2 DEF MarkGloballyRejected
  <2>2. CASE ~blocked  BY <1>10, <2>2
  <2>3. QED  BY <2>1, <2>2
<1> HIDE DEF row1
<1>12. m \in Rows /\ m.valid = d.row[b].valid
  <2>1. CASE reaches  BY <1>11, <2>1, MarkGroupFacts DEF MarkGroupSigned
  <2>2. CASE ~reaches  BY <1>11, <2>2
  <2>3. QED  BY <2>1, <2>2
<1> HIDE DEF m
<1>13. Q \subseteq d.posted \cup {b} /\ (b \in Q => b \in d.posted \/ MeetsThreshold(A))
  BY <1>9
<1> HIDE DEF Q
<1>14. /\ d2.parked = d.parked /\ d2.sentPc = d.sentPc /\ d2.posted = Q
       /\ \A c \in Blocks :
            /\ d2.row[c]        = IF c = b THEN m ELSE d.row[c]
            /\ d2.preCommits[c] = IF c = b THEN C ELSE d.preCommits[c]
            /\ d2.signatures[c] = IF c = b THEN A ELSE d.signatures[c]
            /\ d2.rejections[c] = IF c = b THEN J ELSE d.rejections[c]
  BY <1>1 DEF SignerType
<1> HIDE DEF d2
<1>15. Self(d2) = Self(d)  BY <1>2, ReplayIsQuiet DEF Quiet
<1>16. ASSUME NEW c \in Blocks PROVE BlockVotesOK(d2, s, P, G, c)
  <2>1. BlockVotesOK(d, s, P, G, c)  BY DEF VotesOK
  <2>2. GavePc(d2, s, P, c) = GavePc(d, s, P, c) /\ GaveSig(d2, s, G, c) = GaveSig(d, s, G, c)
    BY <1>14, <1>15 DEF GavePc, GaveSig
  <2>3. d2.row[c].valid = d.row[c].valid  BY <1>12, <1>14
  <2>4. d2.preCommits[c] \subseteq GavePc(d, s, P, c)  BY <1>6, <1>14, <2>1 DEF BlockVotesOK
  <2>5. d2.signatures[c] \subseteq GaveSig(d, s, G, c)  BY <1>7, <1>14, <2>1 DEF BlockVotesOK
  <2>6. d2.signatures[c] \cap RejectedBy(d2, c) = {}
    <3>1. CASE c = b  BY <1>8, <1>14, <3>1 DEF RejectedBy
    <3>2. CASE c # b  BY <1>14, <2>1, <3>2 DEF RejectedBy, BlockVotesOK
    <3>3. QED  BY <3>1, <3>2
  <2>7. c \in d2.posted => MeetsThreshold(GaveSig(d, s, G, c))
    <3>1. CASE c = b  BY <1>7, <1>13, <1>14, <2>1, <3>1, QuorumGrows DEF BlockVotesOK
    <3>2. CASE c # b  BY <1>13, <1>14, <2>1, <3>2 DEF BlockVotesOK
    <3>3. QED  BY <3>1, <3>2
  <2>8. QED
    BY <1>14, <1>15, <2>1, <2>2, <2>3, <2>4, <2>5, <2>6, <2>7 DEF BlockVotesOK
<1>17. QED  BY <1>2, <1>14, <1>16 DEF VotesKept, VotesOK

\* insert_block of a new row
LEMMA StoreFreshVotes ==
  ASSUME NEW d, NEW n, NEW x, SignerOK(d, n, x, Blocks), NEW b \in Blocks,
         NEW answer \in {"ok", "wait", "error"}
  PROVE  LET d2 == IF d.slot = None THEN Submit(d, b, answer, QueueAtEnd(d.queue, b))
                   ELSE [d EXCEPT !.queue = QueueAtEnd(@, b)]
             d3 == [d2 EXCEPT !.row[b] = FreshRow]
         IN  SameVotes(d, d3)
<1> DEFINE q  == QueueAtEnd(d.queue, b)
           d2 == IF d.slot = None THEN Submit(d, b, answer, q)
                 ELSE [d EXCEPT !.queue = q]
           d3 == [d2 EXCEPT !.row[b] = FreshRow]
<1>1. d \in SignerType /\ NoRepeats(d.queue)  BY DEF SignerOK, QueueOK
<1>2. d.queue \in Seq(Blocks)  BY <1>1 DEF SignerType
<1>3. q \in Seq(Blocks)  BY <1>1, <1>2, QueueAtEndFacts
<1> HIDE DEF q
<1>4. d2 \in SignerType /\ SameVotes(d, d2)
  <2>1. \/ d2 = [d EXCEPT !.slot = b, !.asked = @ \cup {b}]
        \/ d2 = [d EXCEPT !.queue = q]
        \/ d2 = d
    BY DEF Submit
  <2> HIDE DEF d2
  <2>2. CASE d2 = [d EXCEPT !.slot = b, !.asked = @ \cup {b}]
    BY <1>1, <2>2 DEF SignerType, SameVotes
  <2>3. CASE d2 = [d EXCEPT !.queue = q]
    BY <1>1, <1>3, <2>3 DEF SignerType, SameVotes
  <2>4. CASE d2 = d  BY <1>1, <2>4 DEF SameVotes
  <2>5. QED  BY <2>1, <2>2, <2>3, <2>4
<1> HIDE DEF d2
<1>5. FreshRow \in Rows /\ FreshRow.valid = "unknown"
  BY DEF FreshRow, Unseen, Rows, BlockStates, Codes
<1>6. SameVotes(d2, d3)  BY <1>4, <1>5, WriteRowVotes
<1> HIDE DEF d3
<1>7. SameVotes(d, d3)  BY <1>4, <1>6, SameVotesTwice
<1>8. QED  BY <1>7 DEF d3, d2, q

\* The end of handle_block_proposal_inner for a proposal that passed.
LEMMA TakeUpVotes ==
  ASSUME NEW d, NEW n, NEW x, SignerOK(d, n, x, Blocks), NEW old \in SignerType,
         NEW s \in Signers, NEW b \in Blocks, b \notin Self(d), NEW late, NEW e,
         e.sub \in {"ok", "wait", "error"},
         NEW P, NEW G, G[b] \subseteq P[b], VotesOK(d, s, P, G),
         VotesOK(old, s, P, G), old.sentPc \subseteq d.sentPc, Self(d) = Self(old)
  PROVE  VotesKept(d, TakeUp(d, old, s, b, late, e), s, P, G)
<1> DEFINE d1 == IF late THEN ExpireSlot(d) ELSE d
           d2 == IF d1.slot = None THEN Submit(d1, b, e.sub, QueueAtEnd(d1.queue, b))
                 ELSE [d1 EXCEPT !.queue = QueueAtEnd(@, b)]
           d3 == [d2 EXCEPT !.row[b] = FreshRow]
           d4 == Replay(d3, old, s, b, e)
<1>1. SignerOK(d1, n, x, Blocks) /\ Quiet(d, d1) /\ SameVotes(d, d1)
  <2>1. Quiet(d, d) /\ SameVotes(d, d)  BY DEF Quiet, NoContradiction, SameVotes
  <2>2. QED  BY <2>1, ExpireSlotIsQuiet, ExpireSlotVotes DEF SignerOK
<1>2. TakeUp(d, old, s, b, late, e) \in {d3, d4}  BY DEF TakeUp
<1> HIDE DEF d1
<1>3. b \notin Self(d1)  BY <1>1 DEF Quiet
<1>4. SignerOK(d3, n, x, Blocks) /\ Quiet(d1, d3)  BY <1>1, <1>3, StoreFreshIsQuiet
<1>5. SameVotes(d1, d3)  BY <1>1, StoreFreshVotes
<1> HIDE DEF d3
<1>6. SameVotes(d, d3) /\ Quiet(d, d3)  BY <1>1, <1>4, <1>5, SameVotesTwice, QuietQuiet
<1>7. VotesKept(d, d3, s, P, G)  BY <1>6, SameVotesKeep DEF Quiet
<1>8. VotesOK(d3, s, P, G) /\ old.sentPc \subseteq d3.sentPc /\ Self(d3) = Self(old)
  BY <1>6, <1>7 DEF VotesKept, Quiet
<1>9. VotesKept(d3, d4, s, P, G)  BY <1>4, <1>8, ReplayVotes
<1> HIDE DEF d4
<1>10. QED  BY <1>2, <1>7, <1>9, VotesKeptTwice

\* handle_block_proposal_inner for a block without a stamp
LEMMA EvaluateVotes ==
  ASSUME NEW d, NEW n, NEW x, SignerOK(d, n, x, Blocks), NodeOK(n, x),
         NEW s \in Signers, NEW b \in Blocks, b \notin Self(d),
         NEW view \in Verdicts, NEW late, NEW e, e.sub \in {"ok", "wait", "error"},
         NEW P, NEW G, G[b] \subseteq P[b], VotesOK(d, s, P, G)
  PROVE  VotesKept(d, Evaluate(d, n, s, b, view, late, e), s, P, G)
<1> DEFINE d1 == IF d.row[b].state = "Unseen" THEN Drain(d, b) ELSE d
           d2 == [d1 EXCEPT !.row = RowsAfterIntake(d1, n, b, e)]
           d3 == TakeUp(d2, d, s, b, late, e)
<1>1. d \in SignerType  BY DEF SignerOK
<1>2. Quiet(d, d) /\ SameVotes(d, d)  BY DEF Quiet, NoContradiction, SameVotes
<1>3. SignerOK(d1, n, x, Blocks) /\ Quiet(d, d1) /\ SameVotes(d, d1)
  BY <1>1, <1>2, DrainIsQuiet, DrainVotes
<1>4. \/ \E code \in Codes : Evaluate(d, n, s, b, view, late, e) = RefuseProposal(d, b, code)
      \/ \E code \in Codes : Evaluate(d, n, s, b, view, late, e) = RefuseProposal(d1, b, code)
      \/ \E code \in Codes : Evaluate(d, n, s, b, view, late, e) = RefuseProposal(d2, b, code)
      \/ Evaluate(d, n, s, b, view, late, e) = d3
  <2> HIDE DEF d1, d2, d3
  <2>1. "reconsider" \in Codes /\ "final" \in Codes  BY DEF Codes
  <2>2. Evaluate(d, n, s, b, view, late, e) =
          CASE d.retired          -> RefuseProposal(d, b, "reconsider")
            [] ~d.retired /\ view = "old"     -> RefuseProposal(d, b, "final")
            [] ~d.retired /\ view = "notYet"  -> RefuseProposal(d1, b, "reconsider")
            [] ~d.retired /\ view = "invalid" -> RefuseProposal(d1, b, "final")
            [] ~d.retired /\ view \in {"ok", "extend"} ->
                 IF ~PassesIntake(d1, n, b, e) THEN RefuseProposal(d2, b, "final")
                 ELSE IF view = "extend" THEN RefuseProposal(d2, b, "reconsider")
                 ELSE d3
    BY DEF Evaluate, d1, d2, d3
  <2>3. CASE d.retired  BY <2>1, <2>2, <2>3
  <2>4. CASE ~d.retired /\ view = "old"  BY <2>1, <2>2, <2>4
  <2>5. CASE ~d.retired /\ view = "notYet"  BY <2>1, <2>2, <2>5
  <2>6. CASE ~d.retired /\ view = "invalid"  BY <2>1, <2>2, <2>6
  <2>7. CASE ~d.retired /\ view \in {"ok", "extend"}  BY <2>1, <2>2, <2>7
  <2>8. QED  BY <2>3, <2>4, <2>5, <2>6, <2>7 DEF Verdicts
<1> HIDE DEF d1
<1>5. SignerOK(d2, n, x, Blocks) /\ Quiet(d1, d2) /\ SameVotes(d1, d2)
  <2> DEFINE R == RowsAfterIntake(d1, n, b, e)
  <2>1. /\ SignerOK(d2, n, x, Blocks) /\ Quiet(d1, d2)
        /\ \A c \in Blocks : d2.row[c].valid = d1.row[c].valid
    BY <1>3, RowsAfterLatestIsQuiet DEF RowsAfterIntake
  <2>2. d1 \in SignerType  BY <1>3 DEF SignerOK
  <2> HIDE DEF R
  <2>3. QED  BY <2>1, <2>2, RowsSameVotes
<1> HIDE DEF d2
<1>6. Quiet(d, d2) /\ SameVotes(d, d2)  BY <1>3, <1>5, QuietQuiet, SameVotesTwice
<1>7. b \notin Self(d2) /\ Self(d2) = Self(d) /\ d.sentPc \subseteq d2.sentPc
  BY <1>6 DEF Quiet, SameVotes
<1>8. VotesKept(d, d2, s, P, G)  BY <1>6, <1>7, SameVotesKeep
<1>9. VotesKept(d2, d3, s, P, G)
  BY <1>1, <1>5, <1>7, <1>8, TakeUpVotes DEF VotesKept
<1> HIDE DEF d3
<1>10. ASSUME NEW y, SignerOK(y, n, x, Blocks), Quiet(d, y), SameVotes(d, y), NEW code
       PROVE  VotesKept(d, RefuseProposal(y, b, code), s, P, G)
  <2> DEFINE w == y.sentRej \cup {<<b, code>>}
             z == [y EXCEPT !.sentRej = w]
  <2>1. y \in SignerType  BY <1>10 DEF SignerOK
  <2>2. RefuseProposal(y, b, code) = z  BY DEF RefuseProposal
  <2> HIDE DEF w
  <2>3. SameVotes(y, z) /\ z.row = y.row  BY <2>1, SendVotes DEF SignerType
  <2> HIDE DEF z
  <2>4. SameVotes(d, z)  BY <1>10, <2>3, SameVotesTwice
  <2>5. Self(z) = Self(d)  BY <1>10, <2>3 DEF Self, Quiet
  <2>6. QED  BY <2>2, <2>4, <2>5, SameVotesKeep
<1>11. QED  BY <1>2, <1>3, <1>4, <1>5, <1>6, <1>8, <1>9, <1>10, VotesKeptTwice

\* handle_block_proposal
LEMMA HandleProposalVotes ==
  ASSUME NEW d, NEW n, NEW x, SignerOK(d, n, x, Blocks), NodeOK(n, x),
         NEW s \in Signers, NEW b \in Blocks,
         NEW view \in Verdicts, NEW late, NEW e, e.sub \in {"ok", "wait", "error"},
         NEW P, NEW G, G[b] \subseteq P[b], VotesOK(d, s, P, G)
  PROVE  VotesKept(d, HandleProposal(d, n, s, b, view, late, e), s, P, G)
<1>1. CASE DecisionStands(d, b)
  BY <1>1, RepeatDecisionVotes DEF HandleProposal
<1>2. CASE ~DecisionStands(d, b)
  <2>1. b \notin Self(d)  BY <1>2, StampedDecisionStands
  <2>2. VotesKept(d, Evaluate(d, n, s, b, view, late, e), s, P, G)
    BY <2>1, EvaluateVotes
  <2>3. QED  BY <1>2, <2>2 DEF HandleProposal
<1>3. QED  BY <1>1, <1>2

-----------------------------------------------------------------------------
\* Steps and votes.

OtherPc(s) ==
  [b \in Blocks |-> {v \in Signers \ {s} : v \in Honest => b \in signer[v].sentPc}]
OtherSig(s) ==
  [b \in Blocks |-> {v \in Signers \ {s} : v \in Honest => b \in Signed(v)}]

\* The votes of every signer are in order.
VotesInv == \A s \in Honest : VotesOK(signer[s], s, OtherPc(s), OtherSig(s))

\* A step of s leaves its votes in order.
VotesStep(s) ==
  \E d2 : /\ signer' = [signer EXCEPT ![s] = d2]
          /\ VotesKept(signer[s], d2, s, OtherPc(s), OtherSig(s))

\* Whoever signed had pre-committed.
LEMMA SignersPreCommitted ==
  ASSUME SignerInv, VotesInv, NEW s \in Honest, NEW b \in Blocks
  PROVE  OtherSig(s)[b] \subseteq OtherPc(s)[b]
<1>1. ASSUME NEW v \in Honest, b \in Signed(v) PROVE b \in signer[v].sentPc
  <2>1. signer[v].row[b].self  BY <1>1 DEF Signed, Self
  <2>2. signer[v].row[b].valid = "yes"  BY <2>1, InvFor DEF SignerOK, RowOK
  <2>3. QED  BY <2>2 DEF VotesInv, VotesOK, BlockVotesOK
<1>2. QED  BY <1>1 DEF OtherSig, OtherPc

\* A message an honest signer receives as the vote of another one was given.
LEMMA SentIsGiven ==
  ASSUME SignerInv, NEW s \in Honest, NEW from \in Signers, NEW b \in Blocks,
         NEW d, signer[s].sentPc \subseteq d.sentPc, Self(d) = Self(signer[s])
  PROVE  /\ Sent(from, "pc", b, "none") => from \in GavePc(d, s, OtherPc(s), b)
         /\ Sent(from, "sig", b, "none") => from \in GaveSig(d, s, OtherSig(s), b)
<1>1. from \in Honest /\ Sent(from, "pc", b, "none") => b \in signer[from].sentPc
  BY DEF Sent
<1>2. from \in Honest /\ Sent(from, "sig", b, "none") => b \in signer[from].sentSig
  BY DEF Sent
<1>3. from \in Honest => signer[from].sentSig \subseteq Self(signer[from])
  BY InvFor DEF SignerOK
<1>4. CASE from = s  BY <1>1, <1>2, <1>3, <1>4 DEF GavePc, GaveSig
<1>5. CASE from # s
  <2>1. Sent(from, "pc", b, "none") => from \in OtherPc(s)[b]
    BY <1>1, <1>5 DEF OtherPc
  <2>2. Sent(from, "sig", b, "none") => from \in OtherSig(s)[b]
    BY <1>2, <1>3, <1>5 DEF OtherSig, Signed
  <2>3. QED  BY <2>1, <2>2 DEF GavePc, GaveSig
<1>6. QED  BY <1>4, <1>5

\* The housekeeping before the event
LEMMA BeforeVotes ==
  ASSUME SignerInv, VotesInv, NEW s \in Honest, NEW orders, NEW e \in Answers(s, orders)
  PROVE  LET d == Before(s, e)
         IN  /\ SignerOK(d, node[s], excused[s], Blocks)
             /\ VotesKept(signer[s], d, s, OtherPc(s), OtherSig(s))
             /\ VotesOK(d, s, OtherPc(s), OtherSig(s))
             /\ signer[s].sentPc \subseteq d.sentPc /\ Self(d) = Self(signer[s])
<1> DEFINE d0 == signer[s]
           d  == CheckPending(d0, e.pre)
           n  == node[s]
           x  == excused[s]
           P  == OtherPc(s)
           G  == OtherSig(s)
<1>1. SignerOK(d0, n, x, Blocks) /\ VotesOK(d0, s, P, G)  BY InvFor DEF VotesInv
<1>2. e.pre \in {"ok", "wait", "error"}  BY AnswersType
<1>3. Before(s, e) = d  BY DEF Before
<1> HIDE DEF d0, n, x, P, G
<1>4. SignerOK(d, n, x, Blocks) /\ Quiet(d0, d) /\ SameVotes(d0, d)
  BY <1>1, <1>2, CheckPendingIsQuiet, CheckPendingVotes DEF SignerOK
<1> HIDE DEF d
<1>5. Self(d) = Self(d0)  BY <1>4 DEF Quiet
<1>6. VotesKept(d0, d, s, P, G)  BY <1>1, <1>4, <1>5, SameVotesKeep
<1>7. VotesOK(d, s, P, G) /\ d0.sentPc \subseteq d.sentPc  BY <1>6 DEF VotesKept
<1>8. QED  BY <1>3, <1>4, <1>5, <1>6, <1>7 DEF d0, n, x, P, G

\* and after it
LEMMA VotesPassOf ==
  ASSUME SignerInv, VotesInv, NEW s \in Honest, NEW orders, NEW e \in Answers(s, orders),
         NEW d, SignerOK(d, node[s], excused[s], Blocks),
         VotesKept(Before(s, e), d, s, OtherPc(s), OtherSig(s)), Finish(s, d, e)
  PROVE  VotesStep(s)
<1> DEFINE d1 == Before(s, e)
           d2 == CheckPending(d, e.sub)
           n  == node[s]
           x  == excused[s]
           P  == OtherPc(s)
           G  == OtherSig(s)
<1>1. e.sub \in {"ok", "wait", "error"}  BY AnswersType
<1>2. VotesKept(signer[s], d1, s, P, G)  BY BeforeVotes
<1>3. signer' = [signer EXCEPT ![s] = d2]  BY DEF Finish
<1>4. SignerOK(d, n, x, Blocks) /\ VotesKept(d1, d, s, P, G)  OBVIOUS
<1> HIDE DEF d1, n, x, P, G
<1>5. Quiet(d, d2) /\ SameVotes(d, d2)  
  BY <1>1, <1>4, CheckPendingIsQuiet, CheckPendingVotes DEF SignerOK
<1> HIDE DEF d2
<1>6. VotesKept(d, d2, s, P, G)  BY <1>4, <1>5, SameVotesKeep DEF Quiet, VotesKept
<1>7. VotesKept(signer[s], d2, s, P, G)  BY <1>2, <1>4, <1>6, VotesKeptTwice
<1>8. QED  BY <1>3, <1>7 DEF VotesStep, P, G

\* A signer whose votes and stamps a step leaves alone.
LEMMA VotesQuietStep ==
  ASSUME VotesInv, NEW s \in Honest, NEW d2, SameVotes(signer[s], d2),
         Self(d2) = Self(signer[s]), signer' = [signer EXCEPT ![s] = d2]
  PROVE  VotesStep(s)
<1>1. VotesOK(signer[s], s, OtherPc(s), OtherSig(s))  BY DEF VotesInv
<1>2. VotesKept(signer[s], d2, s, OtherPc(s), OtherSig(s))  BY <1>1, SameVotesKeep
<1>3. QED  BY <1>2 DEF VotesStep

\* A crash between the stamp and the signature
LEMMA CrashVotes ==
  ASSUME SignerInv, VotesInv, NEW s \in Honest, NEW from \in Signers, NEW b \in Blocks,
         NEW stored \in BOOLEAN, CrashWhileSigning(s, from, b, stored)
  PROVE  VotesStep(s)
<1> DEFINE n  == node[s]
           x  == excused[s]
           d0 == signer[s]
           P  == OtherPc(s)
           G  == OtherSig(s)
<1>1. PICK e \in Answers(s, {TRUE}) :
        LET d  == AddPreCommit(Before(s, e), from, b)
            d1 == StampSelf(AfterRecheck(d, n, b, e), b, d.row[b])
        IN  /\ d.row[b].state # "Unseen"
            /\ MaySign(d, n, b, e)
            /\ signer' = [signer EXCEPT ![s] =
                 Reboot(IF stored THEN AddSignature(d1, s, b) ELSE d1)]
  BY DEF CrashWhileSigning
<1> DEFINE up == "recheck" \in e.up
           d1 == Before(s, e)
           d2 == AddPreCommit(d1, from, b)
           r  == d2.row[b]
           d3 == [d2 EXCEPT !.row = RowsAfterDbCheck(d2, n, b, up, e)]
           d4 == StampSelf(d3, b, r)
           d5 == IF stored THEN AddSignature(d4, s, b) ELSE d4
           d6 == Reboot(d5)
<1>2. MustDecide(d2, b) /\ signer' = [signer EXCEPT ![s] = d6]
  BY <1>1 DEF MaySign, AfterRecheck
<1>3. Sent(from, "pc", b, "none")  BY DEF CrashWhileSigning
<1>4. NodeOK(n, x) /\ s \in Signers  BY InvFor
<1>5. /\ SignerOK(d1, n, x, Blocks) /\ VotesKept(d0, d1, s, P, G) /\ VotesOK(d1, s, P, G)
      /\ d0.sentPc \subseteq d1.sentPc /\ Self(d1) = Self(d0)
  BY BeforeVotes
<1>6. from \in GavePc(d1, s, P, b)
  <2> HIDE DEF d1
  <2>1. QED  BY <1>3, <1>5, SentIsGiven
<1> HIDE DEF n, x, d0, d1, P, G, up
<1>7. SignerOK(d2, n, x, Blocks)  BY <1>5, AddPreCommitIsQuiet
<1>8. VotesKept(d1, d2, s, P, G)  BY <1>5, <1>6, AddPreCommitVotes DEF SignerOK
<1> HIDE DEF d2
<1>9. VotesOK(d2, s, P, G)  BY <1>8 DEF VotesKept
<1>10. r \in Rows  BY <1>7 DEF SignerOK, SignerType
<1>11. b \in d2.sentPc /\ MeetsThreshold(d2.preCommits[b])
  BY <1>2, <1>9 DEF MustDecide, VotesOK, BlockVotesOK
<1>12. /\ VotesKept(d2, d3, s, P, G) /\ d3.preCommits = d2.preCommits
       /\ d3.sentPc = d2.sentPc
  BY <1>4, <1>7, <1>9, AfterRecheckVotes
<1>13. SignerOK(d3, n, x, Blocks)  BY <1>4, <1>7, RowsAfterDbCheckIsQuiet
<1> HIDE DEF d3, r
<1>14. d3 \in SignerType /\ VotesOK(d3, s, P, G)  BY <1>12, <1>13 DEF SignerOK, VotesKept
<1>15. VotesKept(d3, d4, s, P, G) /\ b \in Self(d4)
  BY <1>10, <1>11, <1>12, <1>14, StampSelfVotes
<1>16. d4 \in SignerType
  <2>1. MarkSelfSigned(r) \in Rows  BY <1>10, MarkSelfSignedFacts
  <2>2. QED  BY <1>14, <2>1 DEF StampSelf, SignerType
<1> HIDE DEF d4
<1>17. VotesKept(d4, d5, s, P, G) /\ d5 \in SignerType
  <2>1. s \in GaveSig(d4, s, G, b)  BY <1>15 DEF GaveSig
  <2>2. VotesKept(d4, AddSignature(d4, s, b), s, P, G)
    BY <1>4, <1>15, <1>16, <2>1, AddSignatureVotes DEF VotesKept
  <2>3. AddSignature(d4, s, b) \in SignerType
    BY <1>4, <1>16, ZenonT(60) DEF AddSignature, SignerType
  <2>4. VotesKept(d4, d4, s, P, G)  BY <1>15 DEF VotesKept
  <2>5. QED  BY <1>16, <2>2, <2>3, <2>4
<1> HIDE DEF d5
<1>18. SameVotes(d5, d6) /\ d6.row = d5.row  BY <1>17 DEF Reboot, SignerType, SameVotes
<1> HIDE DEF d6
<1>19. Self(d6) = Self(d5)  BY <1>18 DEF Self
<1>20. VotesKept(d5, d6, s, P, G)  BY <1>17, <1>18, <1>19, SameVotesKeep DEF VotesKept
<1>21. VotesKept(d0, d3, s, P, G)  BY <1>5, <1>8, <1>12, VotesKeptTwice
<1>22. VotesKept(d3, d6, s, P, G)  BY <1>15, <1>17, <1>20, VotesKeptTwice
<1>23. VotesKept(d0, d6, s, P, G)  BY <1>21, <1>22, VotesKeptTwice
<1>24. QED  BY <1>2, <1>23 DEF VotesStep, d0, P, G

\* A pass without an event, a restart, a burn block, a stale endorsement
LEMMA QuietVotes ==
  ASSUME SignerInv, VotesInv, NEW s \in Honest,
         \/ \E late \in BOOLEAN : Tick(s, late)
         \/ Restart(s)
         \/ \E b \in Blocks : Expire(s, b)
  PROVE  VotesStep(s)
<1> DEFINE n  == node[s]
           x  == excused[s]
           d0 == signer[s]
<1>0. SignerOK(d0, n, x, Blocks) /\ d0 \in SignerType  BY InvFor
<1>1. ASSUME NEW late \in BOOLEAN, Tick(s, late) PROVE VotesStep(s)
  <2> DEFINE d1 == IF late THEN ExpireSlot(d0) ELSE d0
  <2>1. PICK answer \in Outcomes : signer' = [signer EXCEPT ![s] = CheckPending(d1, answer)]
    BY <1>1 DEF Tick
  <2>2. answer \in {"ok", "wait", "error"}  BY DEF Outcomes
  <2> DEFINE d2 == CheckPending(d1, answer)
  <2> HIDE DEF n, x, d0
  <2>3. SignerOK(d1, n, x, Blocks) /\ Quiet(d0, d1) /\ SameVotes(d0, d1)
    <3>1. Quiet(d0, d0) /\ SameVotes(d0, d0)  BY DEF Quiet, NoContradiction, SameVotes
    <3>2. QED  BY <1>0, <3>1, ExpireSlotIsQuiet, ExpireSlotVotes
  <2> HIDE DEF d1
  <2>4. Quiet(d1, d2) /\ SameVotes(d1, d2)
    BY <2>2, <2>3, CheckPendingIsQuiet, CheckPendingVotes DEF SignerOK
  <2>5. signer' = [signer EXCEPT ![s] = d2]  BY <2>1 DEF d1
  <2> HIDE DEF d2
  <2>6. Self(d2) = Self(d0) /\ SameVotes(d0, d2)
    BY <2>3, <2>4, SameVotesTwice DEF Quiet
  <2>7. QED  BY <2>5, <2>6, VotesQuietStep DEF d0
<1>2. ASSUME Restart(s) PROVE VotesStep(s)
  <2> DEFINE d2 == Reboot(d0)
  <2>1. signer' = [signer EXCEPT ![s] = d2]  BY <1>2 DEF Restart
  <2> HIDE DEF d0
  <2>2. SameVotes(d0, d2) /\ d2.row = d0.row  BY <1>0 DEF Reboot, SignerType, SameVotes
  <2> HIDE DEF d2
  <2>3. Self(d2) = Self(d0)  BY <2>2 DEF Self
  <2>4. QED  BY <2>1, <2>2, <2>3, VotesQuietStep DEF d0
<1>3. ASSUME NEW b \in Blocks, Expire(s, b) PROVE VotesStep(s)
  <2> DEFINE r  == [d0.row[b] EXCEPT !.fresh = FALSE]
             d2 == [d0 EXCEPT !.row[b] = r]
  <2>1. signer' = [signer EXCEPT ![s] = d2]  BY <1>0, <1>3 DEF Expire, SignerInv, TypeOK
  <2> HIDE DEF d0
  <2>2. d0.row[b] \in Rows  BY <1>0 DEF SignerType
  <2>3. r \in Rows /\ r.valid = d0.row[b].valid /\ r.self = d0.row[b].self
    BY <2>2 DEF Rows
  <2> HIDE DEF r
  <2>4. SameVotes(d0, d2)  BY <1>0, <2>3, WriteRowVotes
  <2>5. \A c \in Blocks : d2.row[c] = IF c = b THEN r ELSE d0.row[c]
    BY <1>0 DEF SignerType
  <2> HIDE DEF d2
  <2>6. Self(d2) = Self(d0)  BY <2>3, <2>5 DEF Self
  <2>7. QED  BY <2>1, <2>4, <2>6, VotesQuietStep DEF d0
<1>4. QED  BY <1>1, <1>2, <1>3

LEMMA BurnBlockVotes ==
  ASSUME SignerInv, VotesInv, NEW s \in Honest, NEW u \in Tenures,
         NEW reorged \in SUBSET Tenures, NEW pruned \in SUBSET Tenures,
         NEW miner \in Tenures \cup {None}, NEW retired \in BOOLEAN,
         ReceiveNewBurnBlock(s, u, reorged, pruned, miner, retired)
  PROVE  VotesStep(s)
<1> DEFINE d0 == signer[s]
<1>1. PICK e \in Answers(s, {TRUE}) :
        signer' = [signer EXCEPT ![s] = CheckPending(
                     HandleNewBurnBlock(Before(s, e), u, reorged, pruned, miner, retired),
                     e.sub)]
  BY DEF ReceiveNewBurnBlock
<1> DEFINE d1 == Before(s, e)
           M  == [t \in Tenures |-> IF t \in reorged THEN u
                                    ELSE IF t \in pruned THEN None ELSE d1.permits[t]]
           d2 == [d1 EXCEPT !.permits = M, !.miner = miner, !.retired = retired]
           d3 == CheckPending(d2, e.sub)
           P  == OtherPc(s)
           G  == OtherSig(s)
<1>2. signer' = [signer EXCEPT ![s] = d3]  BY <1>1 DEF HandleNewBurnBlock
<1>3. SignerOK(d1, node[s], excused[s], Blocks) /\ VotesKept(d0, d1, s, P, G)
  BY BeforeVotes
<1>4. e.sub \in {"ok", "wait", "error"}  BY AnswersType
<1> HIDE DEF d0, d1, P, G
<1>5. d1 \in SignerType  BY <1>3 DEF SignerOK
<1>6. M \in [Tenures -> Tenures \cup {None}]  BY <1>5 DEF SignerType
<1> HIDE DEF M
<1>7. d2 \in SignerType /\ SameVotes(d1, d2) /\ d2.row = d1.row
  BY <1>5, <1>6 DEF SignerType, SameVotes
<1> HIDE DEF d2
<1>8. SameVotes(d2, d3) /\ d3.row = d2.row  BY <1>4, <1>7, CheckPendingVotes
<1> HIDE DEF d3
<1>9. SameVotes(d1, d3) /\ Self(d3) = Self(d1)  BY <1>7, <1>8, SameVotesTwice DEF Self
<1>10. VotesKept(d1, d3, s, P, G)  BY <1>3, <1>9, SameVotesKeep DEF VotesKept
<1>11. VotesKept(d0, d3, s, P, G)  BY <1>3, <1>10, VotesKeptTwice
<1>12. QED  BY <1>2, <1>11 DEF VotesStep, d0, P, G

\* Every action leaves the votes of its signer in order.
LEMMA VotesStepCases ==
  ASSUME SignerInv, VotesInv, NEW s \in Honest, Step(s)
  PROVE  VotesStep(s)
<1> DEFINE n == node[s]
           x == excused[s]
           P == OtherPc(s)
           G == OtherSig(s)
<1>0. /\ s \in Signers /\ NodeOK(n, x) /\ \A b \in Blocks : G[b] \subseteq P[b]
  BY InvFor, SignersPreCommitted
<1>a. ASSUME NEW orders, NEW e \in Answers(s, orders)
      PROVE  LET d == Before(s, e)
             IN  /\ SignerOK(d, n, x, Blocks) /\ VotesOK(d, s, P, G)
                 /\ e.sub \in {"ok", "wait", "error"}
                 /\ \A from \in Signers, b \in Blocks :
                      /\ Sent(from, "pc", b, "none") => from \in GavePc(d, s, P, b)
                      /\ Sent(from, "sig", b, "none") => from \in GaveSig(d, s, G, b)
  <2> DEFINE d == Before(s, e)
  <2>1. /\ SignerOK(d, n, x, Blocks) /\ VotesOK(d, s, P, G)
        /\ signer[s].sentPc \subseteq d.sentPc /\ Self(d) = Self(signer[s])
    BY BeforeVotes
  <2> HIDE DEF d
  <2>2. \A from \in Signers, b \in Blocks :
          /\ Sent(from, "pc", b, "none") => from \in GavePc(d, s, P, b)
          /\ Sent(from, "sig", b, "none") => from \in GaveSig(d, s, G, b)
    BY <2>1, SentIsGiven
  <2>3. QED  BY <2>1, <2>2, AnswersType DEF d
<1>1. ASSUME NEW b \in Blocks, NEW view \in Verdicts, NEW late \in BOOLEAN,
             ReceiveProposal(s, b, view, late)
      PROVE  VotesStep(s)
  <2>1. PICK e \in Answers(s, BOOLEAN) :
          Finish(s, HandleProposal(Before(s, e), n, s, b, view, late, e), e)
    BY <1>1 DEF ReceiveProposal
  <2> DEFINE d1 == Before(s, e)
             d  == HandleProposal(d1, n, s, b, view, late, e)
  <2>2. SignerOK(d1, n, x, Blocks) /\ VotesOK(d1, s, P, G) /\ e.sub \in {"ok", "wait", "error"}
    BY <1>a
  <2>3. SignerOK(d, n, x, Blocks) /\ VotesKept(d1, d, s, P, G)
    <3> HIDE DEF d1, n, x, P, G
    <3>1. QED  BY <1>0, <2>2, HandleProposalMoves, HandleProposalVotes
  <2> HIDE DEF d
  <2>4. QED  BY <2>1, <2>3, VotesPassOf DEF d
<1>2. ASSUME NEW from \in Signers, NEW b \in Blocks, ReceivePreCommit(s, from, b)
      PROVE  VotesStep(s)
  <2>1. PICK e \in Answers(s, {TRUE}) :
          Finish(s, HandlePreCommit(Before(s, e), n, s, from, b, e), e)
    BY <1>2 DEF ReceivePreCommit
  <2> DEFINE d1 == Before(s, e)
             d  == HandlePreCommit(d1, n, s, from, b, e)
  <2>2. Sent(from, "pc", b, "none")  BY <1>2 DEF ReceivePreCommit
  <2>3. SignerOK(d1, n, x, Blocks) /\ VotesOK(d1, s, P, G) /\ from \in GavePc(d1, s, P, b)
    BY <1>a, <2>2
  <2>4. SignerOK(d, n, x, Blocks) /\ VotesKept(d1, d, s, P, G)
    <3> HIDE DEF d1, n, x, P, G
    <3>1. QED  BY <1>0, <2>3, HandlePreCommitMoves, HandlePreCommitVotes
  <2> HIDE DEF d
  <2>5. QED  BY <2>1, <2>4, VotesPassOf DEF d
<1>3. ASSUME NEW from \in Signers, NEW b \in Blocks, ReceiveSignature(s, from, b)
      PROVE  VotesStep(s)
  <2>1. PICK e \in Answers(s, {TRUE}) :
          Finish(s, HandleSignature(Before(s, e), n, s, from, b, e), e)
    BY <1>3 DEF ReceiveSignature
  <2> DEFINE d1 == Before(s, e)
             d  == HandleSignature(d1, n, s, from, b, e)
  <2>2. Sent(from, "sig", b, "none")  BY <1>3 DEF ReceiveSignature
  <2>3. SignerOK(d1, n, x, Blocks) /\ VotesOK(d1, s, P, G) /\ from \in GaveSig(d1, s, G, b)
    BY <1>a, <2>2
  <2>4. SignerOK(d, n, x, Blocks) /\ VotesKept(d1, d, s, P, G)
    <3> HIDE DEF d1, n, x, P, G
    <3>1. QED  BY <1>0, <2>3, HandleSignatureMoves, HandleSignatureVotes
  <2> HIDE DEF d
  <2>5. QED  BY <2>1, <2>4, VotesPassOf DEF d
<1>4. ASSUME NEW from \in Signers, NEW b \in Blocks, NEW code \in Codes,
             ReceiveRejection(s, from, b, code)
      PROVE  VotesStep(s)
  <2>1. PICK e \in Answers(s, {TRUE}) :
          Finish(s, HandleRejection(Before(s, e), from, b, code), e)
    BY <1>4 DEF ReceiveRejection
  <2> DEFINE d1 == Before(s, e)
             d  == HandleRejection(d1, from, b, code)
  <2>2. SignerOK(d1, n, x, Blocks) /\ VotesOK(d1, s, P, G)  BY <1>a
  <2>3. SignerOK(d, n, x, Blocks) /\ VotesKept(d1, d, s, P, G)
    <3> HIDE DEF d1, n, x, P, G
    <3>1. d1 \in SignerType  BY <2>2 DEF SignerOK
    <3>2. QED  BY <2>2, <3>1, HandleRejectionIsQuiet, HandleRejectionVotes
  <2> HIDE DEF d
  <2>4. QED  BY <2>1, <2>3, VotesPassOf DEF d
<1>5. ASSUME NEW b \in Blocks, ReceiveValidateOk(s, b)
      PROVE  VotesStep(s)
  <2>1. PICK e \in Answers(s, {TRUE}) :
          Finish(s, HandleValidateOk(Before(s, e), n, s, b, e), e)
    BY <1>5 DEF ReceiveValidateOk
  <2> DEFINE d1 == Before(s, e)
             d  == HandleValidateOk(d1, n, s, b, e)
  <2>2. SignerOK(d1, n, x, Blocks) /\ VotesOK(d1, s, P, G) /\ e.sub \in {"ok", "wait", "error"}
    BY <1>a
  <2>3. SignerOK(d, n, x, Blocks) /\ VotesKept(d1, d, s, P, G)
    <3> HIDE DEF d1, n, x, P, G
    <3>1. QED  BY <1>0, <2>2, HandleValidateOkMoves, HandleValidateOkVotes
  <2> HIDE DEF d
  <2>4. QED  BY <2>1, <2>3, VotesPassOf DEF d
<1>6. ASSUME NEW b \in Blocks, NEW code \in Codes, ReceiveValidateReject(s, b, code)
      PROVE  VotesStep(s)
  <2>1. PICK e \in Answers(s, {TRUE}) :
          Finish(s, HandleValidateReject(Before(s, e), s, b, code, e), e)
    BY <1>6 DEF ReceiveValidateReject
  <2> DEFINE d1 == Before(s, e)
             d  == HandleValidateReject(d1, s, b, code, e)
  <2>2. SignerOK(d1, n, x, Blocks) /\ VotesOK(d1, s, P, G) /\ e.sub \in {"ok", "wait", "error"}
    BY <1>a
  <2>3. SignerOK(d, n, x, Blocks) /\ VotesKept(d1, d, s, P, G)
    <3> HIDE DEF d1, n, x, P, G
    <3>1. QED  BY <1>0, <2>2, HandleValidateRejectMoves, HandleValidateRejectVotes
  <2> HIDE DEF d
  <2>4. QED  BY <2>1, <2>3, VotesPassOf DEF d
<1>7. ASSUME NEW b \in Blocks, ReceiveNewBlock(s, b)
      PROVE  VotesStep(s)
  <2>1. PICK e \in Answers(s, {TRUE}) : Finish(s, HandleNewBlock(Before(s, e), b), e)
    BY <1>7 DEF ReceiveNewBlock
  <2> DEFINE d1 == Before(s, e)
             d  == HandleNewBlock(d1, b)
  <2>2. SignerOK(d1, n, x, Blocks) /\ VotesOK(d1, s, P, G)  BY <1>a
  <2>3. b \in n.processed  BY <1>7 DEF ReceiveNewBlock
  <2>4. SignerOK(d, n, x, Blocks) /\ VotesKept(d1, d, s, P, G)
    <3> HIDE DEF d1, n, x, P, G
    <3>1. QED  BY <2>2, <2>3, HandleNewBlockIsQuiet, HandleNewBlockVotes
  <2> HIDE DEF d
  <2>5. QED  BY <2>1, <2>4, VotesPassOf DEF d
<1>8. ASSUME UNCHANGED signer PROVE VotesStep(s)
  <2>1. signer' = [signer EXCEPT ![s] = signer[s]]  BY <1>8 DEF SignerInv, TypeOK
  <2>2. SameVotes(signer[s], signer[s])  BY DEF SameVotes
  <2>3. QED  BY <2>1, <2>2, VotesQuietStep
<1>9. \A b \in Blocks : NodeProcess(s, b) => UNCHANGED signer
  BY DEF NodeProcess, NodeBecomes
<1>10. \A T \in SUBSET Tenures, C \in SUBSET node[s].processed :
         NodeFork(s, T, C) => UNCHANGED signer
  BY DEF NodeFork, NodeBecomes
<1> HIDE DEF n, x, P, G
<1>11. QED
  BY <1>1, <1>2, <1>3, <1>4, <1>5, <1>6, <1>7, <1>8, <1>9, <1>10,
     QuietVotes, BurnBlockVotes, CrashVotes
  DEF Step

LEMMA VotesInit == Init => VotesInv
<1> SUFFICES ASSUME Init, NEW s \in Honest PROVE VotesOK(InitSigner, s, OtherPc(s), OtherSig(s))
  BY DEF VotesInv, Init
<1>1. /\ InitSigner.row = [b \in Blocks |-> Unseen]
      /\ InitSigner.preCommits = [b \in Blocks |-> {}]
      /\ InitSigner.signatures = [b \in Blocks |-> {}]
      /\ InitSigner.parked = [k \in Votes |-> [v \in Signers |-> <<>>]]
      /\ InitSigner.posted = {}
  BY DEF InitSigner
<1>2. Unseen.valid = "unknown" /\ Unseen.self = FALSE  BY DEF Unseen
<1>3. Self(InitSigner) = {}  BY <1>1, <1>2 DEF Self
<1>4. \A b : ParkedFor(<<>>, b) = {}  BY DEF ParkedFor
<1>5. "pc" \in Votes /\ "sig" \in Votes  BY DEF Votes
<1>6. \A b \in Blocks : BlockVotesOK(InitSigner, s, OtherPc(s), OtherSig(s), b)
  BY <1>1, <1>2, <1>3, <1>4, <1>5 DEF BlockVotesOK
<1>7. QED  BY <1>6 DEF VotesOK

LEMMA VotesNext == SignerInv /\ VotesInv /\ [Next]_vars => VotesInv'
<1> SUFFICES ASSUME SignerInv, VotesInv, [Next]_vars PROVE VotesInv'
  OBVIOUS
<1>1. CASE UNCHANGED vars
  BY <1>1 DEF vars, VotesInv, OtherPc, OtherSig, Signed
<1>2. ASSUME NEW s \in Honest, Step(s) PROVE VotesInv'
  <2>1. PICK d2 : /\ signer' = [signer EXCEPT ![s] = d2]
                  /\ VotesKept(signer[s], d2, s, OtherPc(s), OtherSig(s))
    BY <1>2, VotesStepCases DEF VotesStep
  <2>2. \A y \in Honest : signer'[y] = IF y = s THEN d2 ELSE signer[y]
    BY <2>1 DEF SignerInv, TypeOK
  <2>3. Self(signer[s]) \subseteq Self(d2)
    BY <1>2, <2>2, StepCases DEF PassStep, WorldStep, VotesAllowed, SignerInv, TypeOK
  <2>4. \A y \in Honest : /\ signer[y].sentPc \subseteq signer'[y].sentPc
                          /\ Self(signer[y]) \subseteq Self(signer'[y])
    BY <2>1, <2>2, <2>3 DEF VotesKept
  <2>5. ASSUME NEW y \in Honest
        PROVE  VotesOK(signer'[y], y, OtherPc(y)', OtherSig(y)')
    <3>1. VotesOK(signer'[y], y, OtherPc(y), OtherSig(y))
      BY <2>1, <2>2 DEF VotesInv, VotesKept
    <3>2. \A b \in Blocks : /\ OtherPc(y)[b] \subseteq OtherPc(y)'[b]
                            /\ OtherSig(y)[b] \subseteq OtherSig(y)'[b]
      BY <2>4 DEF OtherPc, OtherSig, Signed
    <3>3. QED  BY <3>1, <3>2, VotesOKGrows
  <2>6. QED  BY <2>5 DEF VotesInv
<1>3. QED  BY <1>1, <1>2 DEF Next

\* However messages are lost, repeated and reordered, whenever a signer crashes and
\* whatever is parked and replayed: no signer counts a vote that was not given.
THEOREM CountedVotesWereGiven == Spec => []VotesInv
  BY VotesInit, VotesNext, SignerInvariant, PTL DEF Spec

\* The votes counted for and against a block never come from the same signer.
THEOREM SignersVoteOnce == Spec => []OneVotePerSigner
<1>1. VotesInv => OneVotePerSigner
  BY DEF VotesInv, VotesOK, BlockVotesOK, OneVotePerSigner
<1>2. QED  BY <1>1, CountedVotesWereGiven, PTL

\* The given votes are those of honest signers that really gave them, and of any
\* arbitrary signer.
LEMMA GivenVotes ==
  ASSUME NEW s \in Honest, NEW b \in Blocks
  PROVE  /\ GavePc(signer[s], s, OtherPc(s), b)
              \subseteq {h \in Honest : b \in signer[h].sentPc} \cup Faulty
         /\ GaveSig(signer[s], s, OtherSig(s), b)
              \subseteq {h \in Honest : b \in Signed(h)} \cup Faulty
  BY DEF GavePc, GaveSig, OtherPc, OtherSig, Faulty, Signed

\* A block a signer assembled and posted was signed by honest signers that, with
\* the arbitrary ones, hold 70% of the weight.
THEOREM PostedBlocksHaveQuorum == Spec => []PostedHasQuorum
<1>1. SignerInv /\ VotesInv => PostedHasQuorum
  <2> SUFFICES ASSUME SignerInv, VotesInv, NEW s \in Honest, NEW b \in signer[s].posted
               PROVE  MeetsThreshold({h \in Honest : b \in Signed(h)} \cup Faulty)
    BY DEF PostedHasQuorum
  <2>1. b \in Blocks  BY InvFor DEF SignerType
  <2>2. MeetsThreshold(GaveSig(signer[s], s, OtherSig(s), b))
    BY <2>1 DEF VotesInv, VotesOK, BlockVotesOK
  <2>3. QED  BY <2>1, <2>2, GivenVotes, QuorumGrows
<1>2. QED  BY <1>1, SignerInvariant, CountedVotesWereGiven, PTL

\* A signature comes only after pre-commits of honest signers that, with the
\* arbitrary ones, hold 70% of the weight.
THEOREM SignaturesNeedPreCommits == Spec => []SignatureNeedsPreCommits
<1>1. VotesInv => SignatureNeedsPreCommits
  <2> SUFFICES ASSUME VotesInv, NEW s \in Honest, NEW b \in Signed(s)
               PROVE  MeetsThreshold({h \in Honest : b \in signer[h].sentPc} \cup Faulty)
    BY DEF SignatureNeedsPreCommits
  <2>1. b \in Blocks /\ b \in Self(signer[s])  BY DEF Signed, Self
  <2>2. MeetsThreshold(GavePc(signer[s], s, OtherPc(s), b))
    BY <2>1 DEF VotesInv, VotesOK, BlockVotesOK
  <2>3. QED  BY <2>1, <2>2, GivenVotes, QuorumGrows
<1>2. QED  BY <1>1, CountedVotesWereGiven, PTL
=============================================================================
