---------------------------- MODULE QuorumVoting ----------------------------
(***************************************************************************)
(* What voting on blocks promises, with the protocol left out: an honest   *)
(* signer that signs a block has, for every sibling it signed before, an   *)
(* excuse to give it up in favour of the new block.  From that and the     *)
(* weights alone, two siblings can both collect 70% only if an honest      *)
(* signer had such an excuse.                                              *)
(*                                                                         *)
(* Module SignerV0 implements this specification (module SignerSafety).    *)
(***************************************************************************)
EXTENDS SignerDb

VARIABLES
  signed,   \* signed[s]: the blocks s has signed
  excused   \* excused[s]: pairs <<c, b>>, c may be given up in favour of b

avars == <<signed, excused>>

Siblings(b, c) == b # c /\ Height[b] = Height[c]

Init ==
  /\ signed  = [s \in Honest |-> {}]
  /\ excused = [s \in Honest |-> {}]

Sign(s, b) ==
  /\ b \notin signed[s]
  /\ \A c \in signed[s] : Siblings(c, b) => <<c, b>> \in excused[s]
  /\ signed' = [signed EXCEPT ![s] = @ \cup {b}]
  /\ UNCHANGED excused

Excuse(s, P) ==
  /\ excused' = [excused EXCEPT ![s] = @ \cup P]
  /\ UNCHANGED signed

Next ==
  \E s \in Honest :
    \/ \E b \in Blocks : Sign(s, b)
    \/ \E P \in SUBSET (Blocks \X Blocks) : Excuse(s, P)

Spec == Init /\ [][Next]_avars

-----------------------------------------------------------------------------
\* Everything sent by arbitrary signers counts.
Signatories(b) == {s \in Honest : b \in signed[s]} \cup Faulty

TypeOK ==
  /\ signed  \in [Honest -> SUBSET Blocks]
  /\ excused \in [Honest -> SUBSET (Blocks \X Blocks)]

\* The inductive part: no signer has two siblings without an excuse.
NoUnexcusedPair ==
  \A s \in Honest : \A b, c \in signed[s] :
    Siblings(b, c) => <<b, c>> \in excused[s] \/ <<c, b>> \in excused[s]

\* Two blocks of one height both acceptable to the nodes: an honest signer
\* signed both, and had an excuse.
Agreement ==
  FewFaulty =>
    \A b, c \in Blocks :
      Siblings(b, c) /\ MeetsThreshold(Signatories(b)) /\ MeetsThreshold(Signatories(c))
        => \E s \in Honest : /\ b \in signed[s] /\ c \in signed[s]
                             /\ <<b, c>> \in excused[s] \/ <<c, b>> \in excused[s]
=============================================================================
