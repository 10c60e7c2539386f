---------------------------- MODULE ReplayFilter ----------------------------
(***************************************************************************)
(* wireguard/replay/replay.go: the sliding window over packet counters, a  *)
(* ring of blocks of bits.  Each keypair has one, asked only by the        *)
(* sequential receiver of its peer.                                        *)
(*                                                                         *)
(* A block is the set of its bits that are on.  accepted is not in the     *)
(* code: it remembers what the filter answered, for the comparison with    *)
(* ReplayWindow.                                                           *)
(***************************************************************************)
EXTENDS Integers

CONSTANTS
    BlockBits,   \* bits of a block (64)
    RingBlocks,  \* blocks of the ring (128)
    Limit,       \* RejectAfterMessages
    Counters     \* the counters that arrive

VARIABLES last, ring, accepted, verdict

vars == <<last, ring, accepted, verdict>>

WindowSize == (RingBlocks - 1) * BlockBits

Blocks == 0..(RingBlocks - 1)

Bits == 0..(BlockBits - 1)

\* The zero value.
Init ==
    /\ last = 0
    /\ ring = [b \in Blocks |-> {}]
    /\ accepted = {}
    /\ verdict = [counter |-> 0, ok |-> FALSE]

\* Mutant: the first block keeps its bits.
Reset_KeepsRing ==
    /\ last' = 0
    /\ accepted' = {}
    /\ UNCHANGED <<ring, verdict>>

\* Only the first block is cleared; the others are cleared when the window
\* reaches them.
Reset ==
    /\ last' = 0
    /\ ring' = [ring EXCEPT ![0] = {}]
    /\ accepted' = {}
    /\ UNCHANGED verdict

Capped(diff) == IF diff > RingBlocks THEN RingBlocks ELSE diff

\* The ring once the window has moved forward to c.
Moved(c) ==
    LET current == last \div BlockBits
        diff == Capped(c \div BlockBits - current)
    IN [b \in Blocks |->
           IF \E i \in (current + 1)..(current + diff) : i % RingBlocks = b
           THEN {} ELSE ring[b]]

\* Over the limit, or behind the window.
Rejected(c) == c >= Limit \/ last - c > WindowSize

ValidateCounter(c) ==
    LET base == IF c > last THEN Moved(c) ELSE ring
        b == (c \div BlockBits) % RingBlocks
        bit == c % BlockBits
    IN \/ /\ Rejected(c)
          /\ verdict' = [counter |-> c, ok |-> FALSE]
          /\ UNCHANGED <<last, ring, accepted>>
       \/ /\ ~Rejected(c)
          /\ last' = IF c > last THEN c ELSE last
          /\ ring' = [base EXCEPT ![b] = @ \cup {bit}]
          /\ verdict' = [counter |-> c, ok |-> bit \notin base[b]]
          /\ accepted' = IF bit \notin base[b] THEN accepted \cup {c} ELSE accepted

Next == Reset \/ \E c \in Counters : ValidateCounter(c)

Spec == Init /\ [][Next]_vars

-----------------------------------------------------------------------------
\* Shapes of the state; the window never reaches the limit, and nothing ahead of
\* the newest counter was accepted.
TypeOK ==
    /\ last \in 0..(Limit - 1)
    /\ ring \in [Blocks -> SUBSET Bits]
    /\ accepted \subseteq 0..last
    /\ verdict \in [counter : Counters \cup {0}, ok : BOOLEAN]

Window == INSTANCE ReplayWindow WITH top <- last, seen <- accepted

\* The ring implements the sliding window exactly: whatever order the counters
\* come in, however far the window jumps and whatever stale bits a Reset leaves
\* in the ring, ValidateCounter accepts a counter if and only if the window does.
ImplementsWindow == Window!Spec

=============================================================================
