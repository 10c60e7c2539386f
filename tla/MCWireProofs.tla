---------------------------- MODULE MCWireProofs ----------------------------
(***************************************************************************)
(* Proofs about what goes over the wire.  The ring of the replay filter    *)
(* implements the abstract window; the preflights of AtomicNoize and the   *)
(* obfuscation of QUIC's packets keep to their settings, whatever their    *)
(* goroutines do at once; the sockets send every batch whole, coalesced or *)
(* not, and belong to the bind or to nobody.  The parts share nothing, so  *)
(* each has an inductive invariant of its own, kept by its own steps and   *)
(* untouched by the others'.                                               *)
(***************************************************************************)
EXTENDS MCPackets, DataLemmas, FiniteSetTheorems, SequenceTheorems, TLAPS

-----------------------------------------------------------------------------
(* The replay filter implements the window.                                *)

\* A larger number is in no earlier block, and one at most n blocks larger is at most
\* n blocks later.
LEMMA BlocksInOrder ==
    ASSUME NEW B \in Nat \ {0}, NEW x \in Nat, NEW y \in Nat
    PROVE  /\ x <= y => x \div B <= y \div B
           /\ \A n \in Nat : y - x <= n * B => y \div B - x \div B <= n
<1> DEFINE p == x \div B
           q == y \div B
           r == x % B
           s == y % B
<1>1. /\ p \in Nat /\ r \in 0 .. (B - 1) /\ B * p \in Nat /\ x = B * p + r
      /\ q \in Nat /\ s \in 0 .. (B - 1) /\ B * q \in Nat /\ y = B * q + s
  BY Division
<1> HIDE DEF p, q, r, s
<1>2. ASSUME x <= y, q < p PROVE FALSE
  <2>1. B * p >= B * q + B
    BY <1>1, <1>2, Multiples
  <2> QED BY <1>1, <1>2, <2>1
<1>3. ASSUME NEW n \in Nat, y - x <= n * B, q - p > n PROVE FALSE
  <2>1. B * (p + n) \in Int /\ B * q >= B * (p + n) + B
    BY <1>1, <1>3, Multiples
  <2>2. B * (p + n) = B * p + B * n /\ B * n \in Nat /\ n * B = B * n
    BY <1>1
  <2> QED BY <1>1, <1>3, <2>1, <2>2
<1> QED BY <1>1, <1>2, <1>3 DEF p, q

\* Fewer than R in a row have different remainders.
LEMMA RemaindersDiffer ==
    ASSUME NEW R \in Nat \ {0}, NEW i \in Nat, NEW q \in Nat, q <= i, i - q < R, i % R = q % R
    PROVE  i = q
<1> DEFINE a == i \div R
           b == q \div R
           r == i % R
<1>1. /\ a \in Nat /\ r \in 0 .. (R - 1) /\ R * a \in Nat /\ i = R * a + r
      /\ b \in Nat /\ R * b \in Nat /\ q = R * b + r
  BY Division
<1> HIDE DEF a, b, r
<1>2. ASSUME b < a PROVE FALSE
  <2>1. R * a >= R * b + R
    BY <1>1, <1>2, Multiples
  <2> QED BY <1>1, <2>1
<1>3. ASSUME a < b PROVE FALSE
  <2>1. R * b >= R * a + R
    BY <1>1, <1>3, Multiples
  <2> QED BY <1>1, <2>1
<1>4. a = b
  BY <1>1, <1>2, <1>3
<1> QED BY <1>1, <1>4

\* R in a row have every remainder.
LEMMA RemaindersCover ==
    ASSUME NEW R \in Nat \ {0}, NEW n \in Nat, NEW b \in 0 .. (R - 1)
    PROVE  \E i \in (n + 1) .. (n + R) : i % R = b
<1> DEFINE q == (n + 1) \div R
           r == (n + 1) % R
<1>0. n + 1 \in Nat
  OBVIOUS
<1>1. q \in Nat /\ r \in 0 .. (R - 1) /\ R * q \in Nat /\ n + 1 = R * q + r
  BY <1>0, Division
<1> HIDE DEF q, r
<1>2. CASE b >= r
  <2>1. (R * q + b) % R = b
    BY <1>1, PartsOfSum
  <2>2. R * q + b \in (n + 1) .. (n + R)
    BY <1>1, <1>2
  <2> QED BY <2>1, <2>2
<1>3. CASE b < r
  <2>0. q + 1 \in Nat
    BY <1>1
  <2>1. (R * (q + 1) + b) % R = b
    BY <2>0, PartsOfSum
  <2>2. R * (q + 1) = R * q + R
    BY <1>1
  <2>3. R * (q + 1) + b \in (n + 1) .. (n + R)
    BY <1>1, <1>3, <2>2
  <2> QED BY <2>1, <2>3
<1> QED BY <1>1, <1>2, <1>3

\* A counter's block is in the ring.
InRing(x) == x \div BlockBits <= last \div BlockBits /\ last \div BlockBits - x \div BlockBits < RingBlocks

\* The ring knows exactly which counters of its blocks were accepted; what a Reset left
\* in the other blocks is not looked at.
RingAgrees ==
    \A x \in Nat :
        InRing(x) => (x % BlockBits \in ring[(x \div BlockBits) % RingBlocks] <=> x \in accepted)

ReplayTypes ==
    /\ last \in Nat
    /\ ring \in [Replay!Blocks -> SUBSET Replay!Bits]
    /\ accepted \subseteq 0 .. last

ReplayInv == ReplayTypes /\ RingAgrees

\* The place of a counter in the ring.
LEMMA PlaceInRing ==
    ASSUME NEW x \in Nat
    PROVE  /\ x \div BlockBits \in Nat /\ x % BlockBits \in Replay!Bits
           /\ (x \div BlockBits) % RingBlocks \in Replay!Blocks
<1>1. BlockBits \in Nat \ {0} /\ RingBlocks \in Nat \ {0}
  BY ReplayAssumption
<1>2. x \div BlockBits \in Nat /\ x % BlockBits \in 0 .. (BlockBits - 1)
  BY <1>1, Division
<1>3. (x \div BlockBits) % RingBlocks \in 0 .. (RingBlocks - 1)
  BY <1>1, <1>2, Division
<1> QED BY <1>2, <1>3 DEF Replay!Bits, Replay!Blocks

\* Two counters at one place of the ring, less than a ring apart, are one.
LEMMA PlacesAreApart ==
    ASSUME NEW x \in Nat, NEW y \in Nat, x % BlockBits = y % BlockBits,
           (x \div BlockBits) % RingBlocks = (y \div BlockBits) % RingBlocks,
           x \div BlockBits - y \div BlockBits < RingBlocks,
           y \div BlockBits - x \div BlockBits < RingBlocks
    PROVE  x = y
<1> DEFINE p == x \div BlockBits
           q == y \div BlockBits
<1>1. BlockBits \in Nat \ {0} /\ RingBlocks \in Nat \ {0}
  BY ReplayAssumption
<1>2. p \in Nat /\ q \in Nat
  BY PlaceInRing
<1>3. p = q
  <2> HIDE DEF p, q
  <2>1. p % RingBlocks = q % RingBlocks /\ p - q < RingBlocks /\ q - p < RingBlocks
    BY DEF p, q
  <2>2. CASE p <= q
    BY <1>1, <1>2, <2>1, <2>2, RemaindersDiffer
  <2>3. CASE q <= p
    BY <1>1, <1>2, <2>1, <2>3, RemaindersDiffer
  <2> QED BY <1>2, <2>2, <2>3
<1>4. x = BlockBits * p + (x % BlockBits) /\ y = BlockBits * q + (y % BlockBits)
  BY <1>1, Division
<1> QED BY <1>3, <1>4

\* Moving forward to c clears the blocks that come in and no block that stays.
LEMMA MovedRing ==
    ASSUME ReplayInv, NEW c \in Nat, c > last, NEW x \in Nat,
           x \div BlockBits <= c \div BlockBits, c \div BlockBits - x \div BlockBits < RingBlocks
    PROVE  x % BlockBits \in Replay!Moved(c)[(x \div BlockBits) % RingBlocks] <=> x \in accepted
<1> DEFINE cur == last \div BlockBits
           new == c \div BlockBits
           q == x \div BlockBits
           b == q % RingBlocks
           diff == Replay!Capped(new - cur)
<1>1. BlockBits \in Nat \ {0} /\ RingBlocks \in Nat \ {0} /\ last \in Nat
  BY ReplayAssumption DEF ReplayInv, ReplayTypes
<1>2. cur \in Nat /\ new \in Nat /\ q \in Nat /\ b \in Replay!Blocks
  BY <1>1, PlaceInRing
<1>3. cur <= new
  BY <1>1, BlocksInOrder
<1>4. Replay!Moved(c)[b] = IF \E i \in (cur + 1) .. (cur + diff) : i % RingBlocks = b THEN {} ELSE ring[b]
  BY <1>2 DEF Replay!Moved
<1>5. diff \in Nat /\ diff <= new - cur /\ (diff = new - cur \/ diff = RingBlocks)
  BY <1>1, <1>2, <1>3 DEF Replay!Capped
<1>6. CASE q > cur
  <2>1. x \notin accepted
    <3>1. ~(x <= last)
      BY <1>1, <1>2, <1>6, BlocksInOrder
    <3> QED BY <1>1, <3>1 DEF ReplayInv, ReplayTypes
  <2>2. \E i \in (cur + 1) .. (cur + diff) : i % RingBlocks = b
    <3>1. CASE diff = new - cur
      <4>1. q \in (cur + 1) .. (cur + diff)
        <5> HIDE DEF cur, new, q, diff
        <5> QED BY <1>2, <1>6, <3>1 DEF q, new
      <4> QED BY <4>1
    <3>2. CASE diff = RingBlocks
      <4>1. b \in 0 .. (RingBlocks - 1)
        BY <1>2 DEF Replay!Blocks
      <4> HIDE DEF cur, b, diff
      <4>2. \E i \in (cur + 1) .. (cur + RingBlocks) : i % RingBlocks = b
        BY <1>1, <1>2, <4>1, RemaindersCover
      <4> QED BY <3>2, <4>2
    <3> QED BY <1>5, <3>1, <3>2
  <2> QED BY <1>4, <2>1, <2>2
<1>7. CASE q <= cur
  <2>1. new - q < RingBlocks
    OBVIOUS
  <2>2. ASSUME NEW i \in (cur + 1) .. (cur + diff), i % RingBlocks = b PROVE FALSE
    <3>1. i \in Nat /\ q <= i /\ i - q < RingBlocks /\ i # q
      <4> HIDE DEF cur, new, q, diff, b
      <4> QED BY <1>1, <1>2, <1>5, <1>7, <2>1, <2>2
    <3> QED BY <1>1, <1>2, <2>2, <3>1, RemaindersDiffer
  <2>3. InRing(x)
    <3>1. cur - q < RingBlocks
      <4> HIDE DEF cur, new, q
      <4> QED BY <1>1, <1>2, <1>3, <2>1
    <3> QED BY <1>7, <3>1 DEF InRing
  <2> QED BY <1>4, <2>2, <2>3 DEF ReplayInv, RingAgrees
<1> QED BY <1>2, <1>6, <1>7

\* The zero value is a ring for the empty window.
LEMMA ReplayInit == Replay!Init => ReplayInv
<1> SUFFICES ASSUME Replay!Init PROVE ReplayInv
  OBVIOUS
<1>1. ReplayTypes
  BY DEF Replay!Init, ReplayTypes
<1>2. RingAgrees
  BY PlaceInRing DEF Replay!Init, RingAgrees
<1> QED BY <1>1, <1>2 DEF ReplayInv

\* A counter that is not rejected finds its bit off exactly when it was not accepted
\* before, and the ring agrees again once its bit is on.
LEMMA ReplayAsk ==
    ASSUME ReplayInv, NEW c \in Nat, ~Replay!Rejected(c), NEW base, NEW bit, NEW b,
           base = IF c > last THEN Replay!Moved(c) ELSE ring,
           bit = c % BlockBits, b = (c \div BlockBits) % RingBlocks,
           last' = IF c > last THEN c ELSE last,
           ring' = [base EXCEPT ![b] = base[b] \cup {bit}],
           accepted' = IF bit \notin base[b] THEN accepted \cup {c} ELSE accepted
    PROVE  /\ bit \in base[b] <=> c \in accepted
           /\ ReplayInv'
<1>1. BlockBits \in Nat \ {0} /\ RingBlocks \in Nat \ {0} /\ last \in Nat /\ last' \in Nat
  BY ReplayAssumption DEF ReplayInv, ReplayTypes
<1>2. c \div BlockBits \in Nat /\ bit \in Replay!Bits /\ b \in Replay!Blocks
      /\ last \div BlockBits \in Nat /\ last' \div BlockBits \in Nat
  BY <1>1, PlaceInRing
<1>3. base \in [Replay!Blocks -> SUBSET Replay!Bits]
  BY DEF Replay!Moved, ReplayInv, ReplayTypes
<1>4. ASSUME NEW x \in Nat, x \div BlockBits <= last' \div BlockBits,
             last' \div BlockBits - x \div BlockBits < RingBlocks
      PROVE  x % BlockBits \in base[(x \div BlockBits) % RingBlocks] <=> x \in accepted
  <2>1. CASE c > last
    BY <1>4, <2>1, MovedRing
  <2>2. CASE ~(c > last)
    BY <1>4, <2>2 DEF ReplayInv, RingAgrees, InRing
  <2> QED BY <2>1, <2>2
<1>5. /\ c \div BlockBits <= last' \div BlockBits
      /\ last' \div BlockBits - c \div BlockBits < RingBlocks
  <2>1. CASE c > last
    BY <1>1, <1>2, <2>1
  <2>2. CASE ~(c > last)
    <3>1. c <= last /\ last' = last
      BY <1>1, <2>2
    <3>2. c \div BlockBits <= last \div BlockBits
      BY <1>1, <3>1, BlocksInOrder
    <3>3. last - c <= (RingBlocks - 1) * BlockBits
      <4>1. (RingBlocks - 1) * BlockBits \in Int
        BY <1>1
      <4>2. ~(last - c > (RingBlocks - 1) * BlockBits)
        BY DEF Replay!Rejected, Replay!WindowSize
      <4> QED BY <1>1, <4>1, <4>2
    <3>4. RingBlocks - 1 \in Nat
      BY <1>1
    <3>5. last \div BlockBits - c \div BlockBits <= RingBlocks - 1
      BY <1>1, <3>3, <3>4, BlocksInOrder
    <3> QED BY <1>1, <1>2, <3>1, <3>2, <3>5
  <2> QED BY <2>1, <2>2
<1>6. bit \in base[b] <=> c \in accepted
  BY <1>4, <1>5
<1>7. accepted' = accepted \cup {c}
  BY <1>6
<1>8. ReplayTypes'
  <2>1. accepted' \subseteq 0 .. last'
    BY <1>1, <1>7 DEF ReplayInv, ReplayTypes
  <2>2. ring' \in [Replay!Blocks -> SUBSET Replay!Bits]
    BY <1>2, <1>3
  <2> QED BY <1>1, <2>1, <2>2 DEF ReplayTypes, Replay!Blocks, Replay!Bits
<1>9. RingAgrees'
  <2> SUFFICES ASSUME NEW x \in Nat, x \div BlockBits <= last' \div BlockBits,
                      last' \div BlockBits - x \div BlockBits < RingBlocks
               PROVE  x % BlockBits \in ring'[(x \div BlockBits) % RingBlocks] <=> x \in accepted'
    BY DEF RingAgrees, InRing
  <2> DEFINE y == x % BlockBits
             k == (x \div BlockBits) % RingBlocks
  <2>1. y \in base[k] <=> x \in accepted
    BY <1>4
  <2>2. k \in Replay!Blocks /\ x \div BlockBits \in Nat
    BY PlaceInRing
  <2>3. ring'[k] = IF k = b THEN base[k] \cup {bit} ELSE base[k]
    BY <1>2, <1>3, <2>2
  <2>4. k = b /\ y = bit => x = c
    <3>1. /\ x \div BlockBits - c \div BlockBits < RingBlocks
          /\ c \div BlockBits - x \div BlockBits < RingBlocks
      BY <1>1, <1>2, <1>5, <2>2
    <3> QED BY <3>1, PlacesAreApart
  <2>5. x = c => k = b /\ y = bit
    OBVIOUS
  <2> HIDE DEF y, k
  <2>6. y \in ring'[k] <=> x \in accepted'
    BY <1>7, <2>1, <2>3, <2>4, <2>5
  <2> QED BY <2>6 DEF y, k
<1> QED BY <1>6, <1>8, <1>9 DEF ReplayInv

\* A step of the filter is a step of the window, and keeps the ring in agreement.
LEMMA ReplayStep == ReplayInv /\ Replay!Next => ReplayInv' /\ Replay!Window!Next
<1> SUFFICES ASSUME ReplayInv, Replay!Next PROVE ReplayInv' /\ Replay!Window!Next
  OBVIOUS
<1>1. CASE Replay!Reset
  <2>1. Replay!Window!Next
    BY <1>1 DEF Replay!Reset, Replay!Window!Next, Replay!Window!Reset
  <2>2. BlockBits \in Nat \ {0} /\ RingBlocks \in Nat \ {0} /\ 0 \in Replay!Blocks
    BY ReplayAssumption DEF Replay!Blocks
  <2>3. ReplayTypes'
    BY <1>1, <2>2 DEF Replay!Reset, ReplayInv, ReplayTypes, Replay!Blocks, Replay!Bits
  <2>4. RingAgrees'
    <3> SUFFICES ASSUME NEW x \in Nat, x \div BlockBits <= 0 \div BlockBits
                 PROVE  x % BlockBits \notin ring'[(x \div BlockBits) % RingBlocks]
      BY <1>1 DEF Replay!Reset, RingAgrees, InRing
    <3>1. 0 \div BlockBits = 0 /\ 0 % RingBlocks = 0
      BY <2>2
    <3>2. x \div BlockBits = 0
      BY <3>1, PlaceInRing
    <3>3. ring'[0] = {}
      BY <1>1, <2>2 DEF Replay!Reset, ReplayInv, ReplayTypes
    <3> QED BY <3>1, <3>2, <3>3
  <2> QED BY <2>1, <2>3, <2>4 DEF ReplayInv
<1>2. ASSUME NEW c \in Counters, Replay!ValidateCounter(c) PROVE ReplayInv' /\ Replay!Window!Next
  <2>0. c \in Nat /\ Limit \in Nat /\ last \in Nat /\ Replay!WindowSize \in Int
    BY ReplayAssumption DEF ReplayInv, ReplayTypes, Replay!WindowSize
  <2>1. CASE Replay!Rejected(c)
    <3>1. UNCHANGED <<last, ring, accepted>> /\ verdict' = [counter |-> c, ok |-> FALSE]
      BY <1>2, <2>1 DEF Replay!ValidateCounter
    <3>2. ~Replay!Window!Fresh(c)
      BY <2>0, <2>1 DEF Replay!Rejected, Replay!Window!Fresh
    <3>3. Replay!Window!Refuse(c)
      BY <3>1, <3>2 DEF Replay!Window!Refuse
    <3>4. ReplayInv'
      BY <3>1 DEF ReplayInv, ReplayTypes, RingAgrees, InRing, Replay!Blocks, Replay!Bits
    <3> QED BY <3>3, <3>4 DEF Replay!Window!Next
  <2>2. CASE ~Replay!Rejected(c)
    <3> DEFINE base == IF c > last THEN Replay!Moved(c) ELSE ring
               b == (c \div BlockBits) % RingBlocks
               bit == c % BlockBits
    <3>1. /\ last' = IF c > last THEN c ELSE last
          /\ ring' = [base EXCEPT ![b] = base[b] \cup {bit}]
          /\ accepted' = IF bit \notin base[b] THEN accepted \cup {c} ELSE accepted
          /\ verdict' = [counter |-> c, ok |-> bit \notin base[b]]
      BY <1>2, <2>2 DEF Replay!ValidateCounter
    <3>2. (bit \in base[b] <=> c \in accepted) /\ ReplayInv'
      <4>1. /\ base = IF c > last THEN Replay!Moved(c) ELSE ring
            /\ bit = c % BlockBits /\ b = (c \div BlockBits) % RingBlocks
        OBVIOUS
      <4> HIDE DEF base, b, bit
      <4> QED BY <2>0, <2>2, <3>1, <4>1, ReplayAsk
    <3> HIDE DEF base, b, bit
    <3>3. CASE c \in accepted
      <4>1. c <= last
        BY <3>3 DEF ReplayInv, ReplayTypes
      <4>0. (bit \notin base[b]) = FALSE
        BY <3>2, <3>3
      <4>2. UNCHANGED <<last, accepted>> /\ verdict' = [counter |-> c, ok |-> FALSE]
        <5>1. last' = last
          BY <2>0, <3>1, <4>1
        <5>2. accepted' = accepted /\ verdict' = [counter |-> c, ok |-> FALSE]
          BY <3>1, <4>0
        <5> QED BY <5>1, <5>2
      <4> QED BY <3>2, <3>3, <4>2 DEF Replay!Window!Next, Replay!Window!Refuse, Replay!Window!Fresh
    <3>4. CASE c \notin accepted
      <4>1. Replay!Window!Fresh(c)
        BY <2>0, <2>2, <3>4 DEF Replay!Rejected, Replay!Window!Fresh
      <4>2. accepted' = accepted \cup {c} /\ verdict' = [counter |-> c, ok |-> TRUE]
        BY <3>1, <3>2, <3>4
      <4> QED BY <3>1, <3>2, <4>1, <4>2 DEF Replay!Window!Next, Replay!Window!Accept
    <3> QED BY <3>3, <3>4
  <2> QED BY <2>1, <2>2
<1> QED BY <1>1, <1>2 DEF Replay!Next

\* Steps of the other parts leave the filter as it is.
LEMMA ReplayStays == ASSUME ReplayInv, UNCHANGED replayVars PROVE ReplayInv'
BY DEF replayVars, ReplayInv, ReplayTypes, RingAgrees, InRing, Replay!Blocks, Replay!Bits

-----------------------------------------------------------------------------
(* The preflights of AtomicNoize.                                          *)

PreLen == Len(Pre!Sequence)

JunkPlaces == {j \in 1 .. PreLen : Pre!Sequence[j] = "junk"}

PerPreflight == JcAfterI1 + JcBeforeHS

\* The junk packets of the preflights to d that are still to be sent.
Pending(d) ==
    {x \in Senders \X JunkPlaces :
        /\ sender[x[1]].at = "preflight" /\ sender[x[1]].to = d
        /\ x[2] > PreLen - Len(sender[x[1]].left)}

SenderTypes ==
    [at : {"idle", "gate", "lock", "preflight", "post", "inner"}, to : Dests \cup {Pre!Idle.to}, init : BOOLEAN,
     left : Seq({"sig", "junk"}), now : Nat, sends : Nat]

PreTypes ==
    /\ clock \in Nat /\ clock >= Interval
    /\ lastSent \in [Dests -> Nat] /\ \A d \in Dests : lastSent[d] <= clock
    /\ postSent \subseteq Dests
    /\ sender \in [Senders -> SenderTypes]
    /\ trailing \in [Dests -> 0 .. Jc]
    /\ begun \in [Dests -> SUBSET (Nat \X Nat)] /\ \A d \in Dests : IsFiniteSet(begun[d])
    /\ sent \in [Dests -> [sig : Nat, junk : Nat, init : Nat]]

\* A reading of the clock is not ahead of it and not before the start; what is left to
\* send of a preflight is the end of the sequence, and who is past the gate goes to an
\* address that has had a preflight begun.
SenderKnows(s) ==
    /\ sender[s].now <= clock
    /\ sender[s].at = "lock" => sender[s].now >= Interval
    /\ sender[s].at # "idle" => sender[s].to \in Dests
    /\ sender[s].at = "preflight" =>
          /\ Len(sender[s].left) <= PreLen
          /\ \A i \in 1 .. Len(sender[s].left) :
                sender[s].left[i] = Pre!Sequence[PreLen - Len(sender[s].left) + i]
    /\ sender[s].at \in {"preflight", "post"} => lastSent[sender[s].to] # 0
    /\ sender[s].at = "inner" /\ sender[s].init => lastSent[sender[s].to] # 0

\* A preflight that was begun was sent or is being sent.
Announced(d) ==
    lastSent[d] # 0 => d \in prepared \/ \E t \in Senders : sender[t].at = "preflight" /\ sender[t].to = d

\* Each preflight has an interval to itself before the time of the last, and none began
\* before the time it was given.
BegunApart(d) ==
    /\ Cardinality(begun[d]) * Interval <= lastSent[d]
    /\ \A a \in begun[d] : a[1] <= lastSent[d] /\ a[1] <= a[2]
    /\ \A a, b \in begun[d] : a # b => a[1] >= b[1] + Interval \/ b[1] >= a[1] + Interval

\* Junk that was sent and junk that is to come.
JunkCounted(d) ==
    /\ d \notin postSent => trailing[d] = 0
    /\ sent[d].junk + Cardinality(Pending(d)) + trailing[d]
          <= Cardinality(begun[d]) * PerPreflight + (IF d \in postSent THEN Pre!Trailing ELSE 0)

PreInv ==
    /\ PreTypes /\ naked = {}
    /\ \A s \in Senders : SenderKnows(s)
    /\ \A d \in Dests : Announced(d) /\ BegunApart(d) /\ JunkCounted(d)

\* What is at which place of two sequences put together.
LEMMA Joined ==
    ASSUME NEW S, NEW a \in Seq(S), NEW b \in Seq(S), NEW m \in Nat, NEW n \in Nat, Len(a) = m, Len(b) = n
    PROVE  /\ a \o b \in Seq(S) /\ Len(a \o b) = m + n
           /\ \A i \in 1 .. (m + n) : (a \o b)[i] = IF i <= m THEN a[i] ELSE b[i - m]
<1>1. a \o b \in Seq(S)
  OBVIOUS
<1>2. Len(a \o b) = m + n
  OBVIOUS
<1> QED BY <1>1, <1>2

\* The same packet over and over.
LEMMA Repeated ==
    ASSUME NEW S, NEW x \in S, NEW n \in Nat
    PROVE  [i \in 1 .. n |-> x] \in Seq(S) /\ Len([i \in 1 .. n |-> x]) = n
OBVIOUS

\* The sequence has the junk of its two settings.
LEMMA SequenceShape ==
    /\ Pre!Sequence \in Seq({"sig", "junk"}) /\ PreLen \in Nat
    /\ JunkPlaces \subseteq 1 .. PreLen
    /\ IsFiniteSet(JunkPlaces) /\ Cardinality(JunkPlaces) = PerPreflight /\ PerPreflight \in Nat
<1> DEFINE S == {"sig", "junk"}
           first == IF Pre!Parsed(Signature[1]) > 0 THEN <<"sig">> ELSE <<>>
           o == IF Pre!Parsed(Signature[1]) > 0 THEN 1 ELSE 0
           k == Cardinality({s \in 2 .. 5 : Pre!Parsed(Signature[s]) > 0})
           J == PerPreflight
           junk == [i \in 1 .. J |-> "junk"]
           rest == [i \in 1 .. k |-> "sig"]
<1>1. \A X : Pre!Cardinality(X) = Cardinality(X)
  BY DEF Pre!Cardinality, Cardinality
<1>2. k \in Nat
  <2>0. 2 \in Int /\ 5 \in Int
    OBVIOUS
  <2>1. IsFiniteSet(2 .. 5)
    BY <2>0, FS_Interval
  <2>2. IsFiniteSet({s \in 2 .. 5 : Pre!Parsed(Signature[s]) > 0})
    BY <2>1, FS_Subset
  <2> QED BY <2>2, FS_CardinalityType
<1>3. J \in Nat
  BY ObfuscationAssumption DEF PerPreflight
<1>4. Pre!Sequence = (first \o junk) \o rest
  BY <1>1 DEF Pre!Sequence, PerPreflight
<1> HIDE DEF k, J
<1>5. first \in Seq(S) /\ Len(first) = o /\ o \in Nat /\ \A i \in 1 .. o : first[i] = "sig"
  <2> DEFINE c == Pre!Parsed(Signature[1]) > 0
  <2> HIDE DEF c
  <2>1. CASE c
    <3>1. first = <<"sig">> /\ o = 1
      BY <2>1 DEF c
    <3> HIDE DEF first, o
    <3> QED BY <3>1
  <2>2. CASE ~c
    <3>1. first = <<>> /\ o = 0
      BY <2>2 DEF c
    <3> HIDE DEF first, o
    <3> QED BY <3>1
  <2> QED BY <2>1, <2>2
<1>6. junk \in Seq(S) /\ Len(junk) = J /\ \A i \in 1 .. J : junk[i] = "junk"
  BY <1>3, Repeated
<1>7. rest \in Seq(S) /\ Len(rest) = k /\ \A i \in 1 .. k : rest[i] = "sig"
  BY <1>2, Repeated
<1> HIDE DEF first, o, junk, rest
<1> DEFINE fj == first \o junk
<1>8. /\ fj \in Seq(S) /\ Len(fj) = o + J
      /\ \A i \in 1 .. (o + J) : fj[i] = IF i <= o THEN first[i] ELSE junk[i - o]
  BY <1>3, <1>5, <1>6, Joined
<1> HIDE DEF fj
<1>9. o + J \in Nat /\ o + J + k \in Nat
  BY <1>2, <1>3, <1>5
<1>10. /\ fj \o rest \in Seq(S) /\ Len(fj \o rest) = o + J + k
       /\ \A i \in 1 .. (o + J + k) : (fj \o rest)[i] = IF i <= o + J THEN fj[i] ELSE rest[i - (o + J)]
  <2> DEFINE m == o + J
  <2>1. m \in Nat /\ fj \in Seq(S) /\ Len(fj) = m
    BY <1>8, <1>9
  <2>a. k \in Nat /\ rest \in Seq(S) /\ Len(rest) = k
    BY <1>2, <1>7
  <2> HIDE DEF m, S
  <2>2. fj \o rest \in Seq(S)
    BY <2>a, <2>1
  <2>3. Len(fj \o rest) = m + k
    BY <2>a, <2>1
  <2>4. \A i \in 1 .. (m + k) : (fj \o rest)[i] = IF i <= m THEN fj[i] ELSE rest[i - m]
    BY <2>a, <2>1
  <2> QED BY <2>2, <2>3, <2>4 DEF m, S
<1>11. PreLen = o + J + k /\ Pre!Sequence \in Seq(S)
  BY <1>4, <1>10 DEF PreLen, fj
<1>12. \A i \in 1 .. PreLen : Pre!Sequence[i] = IF i <= o THEN "sig" ELSE IF i <= o + J THEN "junk" ELSE "sig"
  <2> SUFFICES ASSUME NEW i \in 1 .. PreLen
               PROVE  Pre!Sequence[i] = IF i <= o THEN "sig" ELSE IF i <= o + J THEN "junk" ELSE "sig"
    OBVIOUS
  <2>1. Pre!Sequence[i] = IF i <= o + J THEN fj[i] ELSE rest[i - (o + J)]
    BY <1>4, <1>10, <1>11 DEF fj
  <2>2. i <= o => i \in 1 .. o /\ i \in 1 .. (o + J)
    BY <1>2, <1>3, <1>5, <1>11
  <2>3. i > o /\ i <= o + J => i - o \in 1 .. J /\ i \in 1 .. (o + J)
    BY <1>2, <1>3, <1>5, <1>11
  <2>4. i > o + J => i - (o + J) \in 1 .. k
    BY <1>2, <1>3, <1>5, <1>11
  <2>5. i \in Nat
    BY <1>2, <1>3, <1>5, <1>11
  <2> QED BY <1>3, <1>5, <1>6, <1>7, <1>8, <2>1, <2>2, <2>3, <2>4, <2>5
<1>13. JunkPlaces = (o + 1) .. (o + J)
  <2>2. \A i : i \in JunkPlaces <=> i \in (o + 1) .. (o + J)
    BY <1>2, <1>3, <1>5, <1>11, <1>12 DEF JunkPlaces
  <2> QED BY <2>2
<1>14. IsFiniteSet(JunkPlaces) /\ Cardinality(JunkPlaces) = J
  <2>1. o + 1 \in Int /\ o + J \in Int
    BY <1>3, <1>5
  <2>2. /\ IsFiniteSet((o + 1) .. (o + J))
        /\ Cardinality((o + 1) .. (o + J)) = IF o + 1 > o + J THEN 0 ELSE (o + J) - (o + 1) + 1
    BY <2>1, FS_Interval
  <2>3. (IF o + 1 > o + J THEN 0 ELSE (o + J) - (o + 1) + 1) = J
    BY <1>3, <1>5
  <2> QED BY <1>13, <2>2, <2>3
<1> QED BY <1>3, <1>9, <1>11, <1>14 DEF JunkPlaces, J

\* The places of junk that senders may have left are finitely many.
LEMMA FewerPending ==
    ASSUME NEW P, NEW Q, P \subseteq Senders \X JunkPlaces, Q \subseteq P
    PROVE  /\ IsFiniteSet(P) /\ IsFiniteSet(Q)
           /\ Cardinality(P) \in Nat /\ Cardinality(Q) \in Nat /\ Cardinality(Q) <= Cardinality(P)
<1>1. IsFiniteSet(Senders \X JunkPlaces)
  BY SequenceShape, PacketsAssumption, FS_Product
<1>2. IsFiniteSet(P)
  BY <1>1, FS_Subset
<1> QED BY <1>2, FS_Subset, FS_CardinalityType

\* A packet of junk that was sent is not left.
LEMMA OnePendingLess ==
    ASSUME NEW P, NEW Q, NEW x, P \subseteq Senders \X JunkPlaces, x \in P, Q \subseteq P \ {x}
    PROVE  Cardinality(Q) + 1 <= Cardinality(P)
<1>1. IsFiniteSet(P) /\ Cardinality(P) \in Nat
  BY FewerPending
<1>2. IsFiniteSet(P \ {x}) /\ Cardinality(P \ {x}) = Cardinality(P) - 1
  BY <1>1, FS_RemoveElement
<1>3. Cardinality(Q) <= Cardinality(P \ {x}) /\ IsFiniteSet(Q)
  BY <1>2, FS_Subset
<1>4. Cardinality(Q) \in Nat
  BY <1>3, FS_CardinalityType
<1> QED BY <1>1, <1>2, <1>3, <1>4

\* A sender that begins a preflight has the junk of one left.
LEMMA MorePending ==
    ASSUME NEW P, NEW Q, NEW s \in Senders, P \subseteq Senders \X JunkPlaces, Q \subseteq P \cup ({s} \X JunkPlaces)
    PROVE  Cardinality(Q) \in Nat /\ Cardinality(P) \in Nat /\ Cardinality(Q) <= Cardinality(P) + PerPreflight
<1> DEFINE R == {s} \X JunkPlaces
<1>1. IsFiniteSet(P) /\ Cardinality(P) \in Nat
  BY FewerPending
<1>2. IsFiniteSet({s}) /\ Cardinality({s}) = 1
  BY FS_Singleton
<1>3. IsFiniteSet(R) /\ Cardinality(R) = 1 * PerPreflight
  BY <1>2, SequenceShape, FS_Product, ZenonT(30)
<1>4. Cardinality(R) = PerPreflight /\ PerPreflight \in Nat
  BY <1>3, SequenceShape
<1> HIDE DEF R
<1>5. IsFiniteSet(P \cup R) /\ Cardinality(P \cup R) = Cardinality(P) + Cardinality(R) - Cardinality(P \cap R)
  BY <1>1, <1>3, FS_Union
<1>6. IsFiniteSet(P \cap R)
  BY <1>1, FS_Intersection
<1>7. Cardinality(P \cap R) \in Nat
  BY <1>6, FS_CardinalityType
<1>8. IsFiniteSet(Q) /\ Cardinality(Q) <= Cardinality(P \cup R)
  BY <1>5, FS_Subset DEF R
<1>9. Cardinality(Q) \in Nat
  BY <1>8, FS_CardinalityType
<1> QED BY <1>1, <1>4, <1>5, <1>7, <1>8, <1>9

\* One preflight more allows for its junk.
LEMMA OneMorePreflight ==
    \A n \in Nat : n * PerPreflight \in Nat /\ (n + 1) * PerPreflight = n * PerPreflight + PerPreflight
<1> SUFFICES ASSUME NEW n \in Nat PROVE n * PerPreflight \in Nat /\ (n + 1) * PerPreflight = n * PerPreflight + PerPreflight
  OBVIOUS
<1>1. PerPreflight \in Nat
  BY SequenceShape
<1> QED BY <1>1

\* One preflight more takes one interval more.
LEMMA OneMoreInterval ==
    /\ 0 * Interval = 0
    /\ \A n \in Nat : n * Interval \in Nat /\ (n + 1) * Interval = n * Interval + Interval
<1>1. Interval \in Nat
  BY ObfuscationAssumption
<1>2. 0 * Interval = 0
  BY <1>1
<1>3. ASSUME NEW n \in Nat PROVE n * Interval \in Nat /\ (n + 1) * Interval = n * Interval + Interval
  BY <1>1
<1> QED BY <1>2, <1>3

\* What comes after the handshake is no more than all of the junk.
LEMMA TrailingFits == Pre!Trailing \in 0 .. Jc
  BY ObfuscationAssumption DEF Pre!Trailing

\* The bind starts with nothing sent.
LEMMA PreInit == Pre!Init => PreInv
<1> SUFFICES ASSUME Pre!Init PROVE PreInv
  OBVIOUS
<1>0. Interval \in Nat \ {0} /\ Jc \in Nat
  BY ObfuscationAssumption
<1>1. \A s \in Senders : sender[s] = Pre!Idle
  BY DEF Pre!Init
<1>2. Pre!Idle \in SenderTypes /\ Pre!Idle.at = "idle" /\ Pre!Idle.now = 0
  <2>1. Pre!Idle.to \in Dests \cup {Pre!Idle.to}
    OBVIOUS
  <2>2. <<>> \in Seq({"sig", "junk"})
    OBVIOUS
  <2> DEFINE t == Pre!Idle.to
             C == CHOOSE d \in Dests : TRUE
  <2>3. Pre!Idle = [at |-> "idle", to |-> C, init |-> FALSE, left |-> <<>>, now |-> 0, sends |-> 0]
    BY DEF Pre!Idle
  <2> HIDE DEF C
  <2>4. t = C /\ Pre!Idle.at = "idle" /\ Pre!Idle.now = 0
    BY <2>3
  <2>5. Pre!Idle \in [at : {"idle", "gate", "lock", "preflight", "post", "inner"}, to : Dests \cup {C}, init : BOOLEAN,
                      left : Seq({"sig", "junk"}), now : Nat, sends : Nat]
    BY <2>2, <2>3
  <2> QED BY <2>4, <2>5 DEF SenderTypes
<1>3. PreTypes
  <2>1. sender \in [Senders -> SenderTypes]
    BY <1>2 DEF Pre!Init
  <2>2. \A d \in Dests : IsFiniteSet(begun[d])
    BY FS_EmptySet DEF Pre!Init
  <2> QED BY <1>0, <2>1, <2>2 DEF Pre!Init, PreTypes
<1>4. \A s \in Senders : SenderKnows(s)
  <2>1. 0 <= clock
    BY <1>0 DEF Pre!Init
  <2> QED BY <1>1, <1>2, <2>1 DEF SenderKnows
<1>5. \A d \in Dests : Announced(d) /\ BegunApart(d)
  <2>1. \A d \in Dests : lastSent[d] = 0 /\ begun[d] = {} /\ Cardinality(begun[d]) = 0
    BY FS_EmptySet DEF Pre!Init
  <2>2. 0 * Interval = 0
    BY OneMoreInterval
  <2>3. \A d \in Dests : Cardinality(begun[d]) * Interval <= lastSent[d]
    BY <2>1, <2>2
  <2> QED BY <2>1, <2>3 DEF Announced, BegunApart
<1>6. ASSUME NEW d \in Dests PROVE JunkCounted(d)
  <2>1. Pending(d) = {}
    BY <1>1, <1>2 DEF Pending
  <2>2. Cardinality(Pending(d)) = 0 /\ Cardinality(begun[d]) = 0
    BY <2>1, FS_EmptySet DEF Pre!Init
  <2>3. 0 * PerPreflight \in Nat
    BY OneMorePreflight
  <2>4. sent[d].junk = 0 /\ trailing[d] = 0 /\ d \notin postSent
    BY DEF Pre!Init
  <2> QED BY <2>2, <2>3, <2>4 DEF JunkCounted
<1> QED BY <1>3, <1>4, <1>5, <1>6 DEF PreInv, Pre!Init

\* What is pending for an address is junk of senders.
LEMMA PendingShape == \A d : Pending(d) \subseteq Senders \X JunkPlaces
  BY DEF Pending

\* The numbers of an address.
LEMMA CountTypes ==
    ASSUME PreInv, NEW d \in Dests
    PROVE  /\ sent[d].junk \in Nat /\ trailing[d] \in Nat /\ Cardinality(Pending(d)) \in Nat
           /\ IsFiniteSet(begun[d]) /\ Cardinality(begun[d]) \in Nat /\ Cardinality(begun[d]) * PerPreflight \in Nat
           /\ Pre!Trailing \in Nat
<1>1. sent[d].junk \in Nat /\ trailing[d] \in Nat /\ IsFiniteSet(begun[d])
  BY ObfuscationAssumption DEF PreInv, PreTypes
<1>2. Cardinality(begun[d]) \in Nat
  BY <1>1, FS_CardinalityType
<1>3. Cardinality(Pending(d)) \in Nat
  BY FewerPending, PendingShape
<1>4. Pre!Trailing \in Nat
  BY TrailingFits, ObfuscationAssumption
<1> QED BY <1>1, <1>2, <1>3, <1>4, OneMorePreflight

\* A step that sends no junk to an address and begins nothing for it.
LEMMA CountKept ==
    ASSUME PreInv, NEW d \in Dests, Pending(d)' \subseteq Pending(d), begun'[d] = begun[d],
           sent'[d].junk = sent[d].junk, trailing'[d] = trailing[d], d \in postSent' <=> d \in postSent
    PROVE  JunkCounted(d)'
<1>1. /\ d \notin postSent => trailing[d] = 0
      /\ sent[d].junk + Cardinality(Pending(d)) + trailing[d]
            <= Cardinality(begun[d]) * PerPreflight + (IF d \in postSent THEN Pre!Trailing ELSE 0)
  BY DEF PreInv, JunkCounted
<1>2. Cardinality(Pending(d)') \in Nat /\ Cardinality(Pending(d)') <= Cardinality(Pending(d))
  BY FewerPending, PendingShape
<1>3. Cardinality(begun'[d]) * PerPreflight = Cardinality(begun[d]) * PerPreflight
  OBVIOUS
<1> DEFINE pn == Cardinality(Pending(d))
           pm == Cardinality(Pending(d)')
           bound == Cardinality(begun[d]) * PerPreflight
           extra == IF d \in postSent THEN Pre!Trailing ELSE 0
           junk == sent[d].junk
           tr == trailing[d]
<1>4. pn \in Nat /\ pm \in Nat /\ pm <= pn /\ bound \in Nat /\ extra \in Nat /\ junk \in Nat /\ tr \in Nat
      /\ junk + pn + tr <= bound + extra
  BY <1>1, <1>2, CountTypes
<1>5. junk + pm + tr <= bound + extra
  <2> HIDE DEF pn, pm, bound, extra, junk, tr
  <2> QED BY <1>4
<1> QED BY <1>1, <1>3, <1>5 DEF JunkCounted

\* A sender that is not in a preflight after the step has nothing pending.
LEMMA PendingKept ==
    ASSUME NEW d, NEW s \in Senders, \A t \in Senders : t # s => sender'[t] = sender[t], sender'[s].at # "preflight"
    PROVE  Pending(d)' \subseteq Pending(d)
  BY DEF Pending

\* A call of Send.
LEMMA PreSend ==
    ASSUME PreInv, NEW s \in Senders, NEW e \in Dests, NEW i \in BOOLEAN, Pre!Send(s, e, i)
    PROVE  PreInv'
<1>1. sender \in [Senders -> SenderTypes]
  BY DEF PreInv, PreTypes
<1> DEFINE new == [Pre!Idle EXCEPT !.at = IF i THEN "gate" ELSE "inner", !.to = e, !.init = i, !.sends = sender[s].sends + 1]
<1>2. /\ sender[s].at = "idle" /\ sender' = [sender EXCEPT ![s] = new]
      /\ UNCHANGED <<clock, lastSent, postSent, trailing, begun, sent, prepared, naked>>
  BY DEF Pre!Send
<1>3. /\ new.at \in {"gate", "inner"} /\ new.to = e /\ (new.at = "inner" => ~new.init)
      /\ new.init \in BOOLEAN /\ new \in SenderTypes /\ new.now = 0
  <2>1. sender[s].sends + 1 \in Nat
    BY <1>1 DEF SenderTypes
  <2> DEFINE n == sender[s].sends + 1
             C == CHOOSE d \in Dests : TRUE
             at == IF i THEN "gate" ELSE "inner"
  <2>0. Pre!Idle = [at |-> "idle", to |-> C, init |-> FALSE, left |-> <<>>, now |-> 0, sends |-> 0]
    BY DEF Pre!Idle
  <2>2. new = [at |-> at, to |-> e, init |-> i, left |-> <<>>, now |-> 0, sends |-> n]
    <3> HIDE DEF C, at, n
    <3>1. new = [Pre!Idle EXCEPT !.at = at, !.to = e, !.init = i, !.sends = n]
      BY DEF at, n
    <3> HIDE DEF new
    <3> QED BY <3>1, <2>0
  <2>3. at \in {"gate", "inner"} /\ (at = "inner" => ~i) /\ i \in BOOLEAN
    OBVIOUS
  <2>4. <<>> \in Seq({"sig", "junk"})
    OBVIOUS
  <2> HIDE DEF n, at, new
  <2> QED BY <2>1, <2>2, <2>3, <2>4 DEF SenderTypes, n
<1> HIDE DEF new
<1>4. sender'[s] = new /\ \A t \in Senders : t # s => sender'[t] = sender[t]
  BY <1>1, <1>2
<1>5. PreTypes'
  <2>1. sender' \in [Senders -> SenderTypes]
    BY <1>1, <1>2, <1>3
  <2>2. PreTypes
    BY DEF PreInv
  <2> QED BY <1>2, <2>1, <2>2 DEF PreTypes
<1>6. ASSUME NEW t \in Senders PROVE SenderKnows(t)'
  <2>1. SenderKnows(t)
    BY DEF PreInv
  <2>2. CASE t = s
    <3>1. 0 <= clock
      BY DEF PreInv, PreTypes
    <3> QED BY <2>2, <3>1, <1>2, <1>3, <1>4 DEF SenderKnows
  <2>3. CASE t # s
    BY <2>1, <2>3, <1>2, <1>4 DEF SenderKnows
  <2> QED BY <2>2, <2>3
<1>7. ASSUME NEW d \in Dests PROVE Announced(d)' /\ BegunApart(d)' /\ JunkCounted(d)'
  <2>1. Announced(d) /\ BegunApart(d)
    BY DEF PreInv
  <2>2. Announced(d)'
    BY <2>1, <1>2, <1>4 DEF Announced
  <2>3. BegunApart(d)'
    BY <2>1, <1>2 DEF BegunApart
  <2>4. sender'[s].at # "preflight"
    BY <1>3, <1>4
  <2>5. Pending(d)' \subseteq Pending(d)
    BY <2>4, <1>4, PendingKept
  <2>6. JunkCounted(d)'
    BY <2>5, <1>2, CountKept
  <2> QED BY <2>2, <2>3, <2>6
<1> QED BY <1>2, <1>5, <1>6, <1>7 DEF PreInv

\* maybePreflight (preflight_bind.go): a preflight is begun when the last one was an
\* interval ago.
LEMMA PreGate ==
    ASSUME PreInv, NEW s \in Senders, Pre!Gate(s)
    PROVE  PreInv'
<1>1. /\ sender \in [Senders -> SenderTypes] /\ clock \in Nat /\ clock >= Interval
      /\ lastSent \in [Dests -> Nat] /\ begun \in [Dests -> SUBSET (Nat \X Nat)]
      /\ \A d \in Dests : lastSent[d] <= clock /\ IsFiniteSet(begun[d])
  BY DEF PreInv, PreTypes
<1> DEFINE e == sender[s].to
           reading == sender[s].now
<1>2. /\ sender[s].at = "lock" /\ e \in Dests /\ lastSent[e] \in Nat
      /\ reading \in Nat /\ reading <= clock /\ reading >= Interval
  BY <1>1 DEF Pre!Gate, PreInv, SenderKnows, SenderTypes
<1>3. Interval \in Nat \ {0}
  BY ObfuscationAssumption
<1>4. UNCHANGED <<clock, postSent, trailing, sent, prepared, naked>>
  BY DEF Pre!Gate
<1>5. \A t \in Senders : SenderKnows(t)
  BY DEF PreInv
<1>6. \A d \in Dests : Announced(d) /\ BegunApart(d) /\ JunkCounted(d)
  BY DEF PreInv
<1>7. CASE Pre!Due(s)
  <2> DEFINE new == [sender[s] EXCEPT !.at = "preflight", !.left = Pre!Sequence]
  <2>1. /\ lastSent' = [lastSent EXCEPT ![e] = reading] /\ begun' = [begun EXCEPT ![e] = @ \cup {<<reading, clock>>}]
        /\ sender' = [sender EXCEPT ![s] = new]
    BY <1>1, <1>7 DEF Pre!Gate
  <2>2. lastSent[e] + Interval <= reading
    BY <1>1, <1>2, <1>3, <1>7 DEF Pre!Due
  <2>3. /\ new \in SenderTypes /\ new.at = "preflight" /\ new.to = e /\ new.left = Pre!Sequence /\ new.now = reading
    <3>1. sender[s] \in SenderTypes
      BY <1>1
    <3>2. Pre!Sequence \in Seq({"sig", "junk"})
      BY SequenceShape
    <3> QED BY <3>1, <3>2 DEF SenderTypes
  <2> HIDE DEF new
  <2>4. sender'[s] = new /\ \A t \in Senders : t # s => sender'[t] = sender[t]
    BY <1>1, <2>1
  <2>5. /\ lastSent'[e] = reading /\ reading # 0
        /\ \A d \in Dests : d # e => lastSent'[d] = lastSent[d] /\ begun'[d] = begun[d]
        /\ begun'[e] = begun[e] \cup {<<reading, clock>>}
    BY <1>1, <1>2, <1>3, <2>1
  <2>6. PreTypes'
    <3>1. sender' \in [Senders -> SenderTypes]
      BY <1>1, <2>1, <2>3
    <3>2. lastSent' \in [Dests -> Nat]
      <4> HIDE DEF reading
      <4> QED BY <1>1, <1>2, <2>1
    <3>3. begun' \in [Dests -> SUBSET (Nat \X Nat)]
      <4>1. <<reading, clock>> \in Nat \X Nat
        BY <1>1, <1>2
      <4>2. begun[e] \cup {<<reading, clock>>} \in SUBSET (Nat \X Nat)
        BY <1>1, <1>2, <4>1
      <4> QED BY <1>1, <1>2, <2>1, <4>2
    <3>4. \A d \in Dests : IsFiniteSet(begun'[d])
      <4>1. IsFiniteSet(begun[e] \cup {<<reading, clock>>})
        BY <1>1, <1>2, FS_AddElement
      <4> QED BY <1>1, <2>5, <4>1
    <3>5. \A d \in Dests : lastSent'[d] <= clock
      BY <1>1, <1>2, <2>5
    <3>6. PreTypes
      BY DEF PreInv
    <3> QED BY <1>4, <3>1, <3>2, <3>3, <3>4, <3>5, <3>6 DEF PreTypes
  <2>7. ASSUME NEW t \in Senders PROVE SenderKnows(t)'
    <3>1. SenderKnows(t)
      BY <1>5
    <3>2. CASE t = s
      <4>1. PreLen \in Nat /\ Len(Pre!Sequence) = PreLen
        BY SequenceShape DEF PreLen
      <4>2. \A n \in 1 .. PreLen : PreLen - PreLen + n = n
        BY <4>1
      <4>3. /\ sender'[t].at = "preflight" /\ sender'[t].to = e /\ Len(sender'[t].left) = PreLen
            /\ sender'[t].left = Pre!Sequence /\ sender'[t].now = reading
        BY <2>3, <2>4, <3>2, <4>1
      <4>4. \A n \in 1 .. Len(sender'[t].left) :
               sender'[t].left[n] = Pre!Sequence[PreLen - Len(sender'[t].left) + n]
        BY <4>2, <4>3
      <4>5. Len(sender'[t].left) <= PreLen
        BY <4>1, <4>3
      <4>6. lastSent'[sender'[t].to] # 0
        BY <2>5, <4>3
      <4> QED BY <1>2, <1>4, <4>3, <4>4, <4>5, <4>6 DEF SenderKnows
    <3>3. CASE t # s
      BY <3>1, <3>3, <1>4, <2>4, <2>5 DEF SenderKnows
    <3> QED BY <3>2, <3>3
  <2>8. ASSUME NEW d \in Dests PROVE Announced(d)'
    BY <1>2, <1>4, <1>6, <2>3, <2>4, <2>5 DEF Announced
  <2>a. Cardinality(begun[e] \cup {<<reading, clock>>}) = Cardinality(begun[e]) + 1
    <3>1. \A a \in begun[e] : a[1] \in Nat /\ a[1] <= lastSent[e]
      BY <1>1, <1>2, <1>6 DEF BegunApart
    <3>2. <<reading, clock>>[1] = reading
      OBVIOUS
    <3>3. ~(reading <= lastSent[e])
      BY <1>2, <1>3, <2>2
    <3>4. <<reading, clock>> \notin begun[e]
      BY <3>1, <3>2, <3>3
    <3>5. IsFiniteSet(begun[e])
      BY <1>1, <1>2
    <3> QED BY <3>4, <3>5, FS_AddElement
  <2>9. ASSUME NEW d \in Dests PROVE BegunApart(d)'
    <3>1. CASE d = e
      <4>1. \A a \in begun[e] : a[1] \in Nat /\ a[1] <= lastSent[e]
        BY <1>1, <1>2, <1>6 DEF BegunApart
      <4>2. \A a \in begun[e] : a[1] + Interval <= reading
        BY <4>1, <1>1, <1>2, <1>3, <2>2
      <4> DEFINE c == <<reading, clock>>
      <4>3. c[1] = reading /\ c[2] = clock
        OBVIOUS
      <4> HIDE DEF c
      <4>4. begun'[e] = begun[e] \cup {c}
        BY <2>5 DEF c
      <4>5. \A a, b \in begun'[e] : a # b => a[1] >= b[1] + Interval \/ b[1] >= a[1] + Interval
        <5> SUFFICES ASSUME NEW a \in begun'[e], NEW b \in begun'[e], a # b
                     PROVE  a[1] >= b[1] + Interval \/ b[1] >= a[1] + Interval
          OBVIOUS
        <5>1. CASE a \in begun[e] /\ b \in begun[e]
          BY <5>1, <1>2, <1>6 DEF BegunApart
        <5>2. CASE a = c /\ b \in begun[e]
          BY <5>2, <4>2, <4>3, <1>2, <1>3, <4>1
        <5>3. CASE b = c /\ a \in begun[e]
          BY <5>3, <4>2, <4>3, <1>2, <1>3, <4>1
        <5> QED BY <4>4, <5>1, <5>2, <5>3
      <4>6. \A a \in begun'[e] : a[1] <= reading
        <5> HIDE DEF reading
        <5> QED BY <4>1, <4>2, <4>3, <4>4, <1>2, <1>3
      <4>8. \A a \in begun'[e] : a[1] <= a[2]
        <5>1. \A a \in begun[e] : a[1] <= a[2]
          BY <1>2, <1>6 DEF BegunApart
        <5>2. c[1] <= c[2]
          BY <4>3, <1>2
        <5> QED BY <4>4, <5>1, <5>2
      <4>7. Cardinality(begun'[e]) * Interval <= reading
        <5> DEFINE k == Cardinality(begun[e])
                   spent == k * Interval
        <5>1. k \in Nat /\ spent \in Nat /\ spent <= lastSent[e] /\ (k + 1) * Interval = spent + Interval
          BY <1>1, <1>2, <1>6, FS_CardinalityType, OneMoreInterval DEF BegunApart
        <5>2. Cardinality(begun'[e]) = k + 1
          BY <2>a, <2>5
        <5>3. spent + Interval <= reading
          <6> HIDE DEF k, spent, reading
          <6> QED BY <5>1, <1>2, <1>3, <2>2
        <5> QED BY <5>1, <5>2, <5>3
      <4> QED BY <3>1, <4>5, <4>6, <4>7, <4>8, <2>5 DEF BegunApart
    <3>2. CASE d # e
      BY <3>2, <1>6, <2>5 DEF BegunApart
    <3> QED BY <3>1, <3>2
  <2>10. ASSUME NEW d \in Dests PROVE JunkCounted(d)'
    <3>1. CASE d # e
      <4>1. Pending(d)' \subseteq Pending(d)
        BY <3>1, <2>3, <2>4 DEF Pending
      <4> QED BY <3>1, <4>1, <2>5, <1>4, CountKept
    <3>2. CASE d = e
      <4>1. Pending(d)' \subseteq Pending(d) \cup ({s} \X JunkPlaces)
        BY <2>4 DEF Pending
      <4>2. Cardinality(Pending(d)') \in Nat /\ Cardinality(Pending(d)') <= Cardinality(Pending(d)) + PerPreflight
        BY <4>1, MorePending, PendingShape
      <4>4. Cardinality(begun'[d]) = Cardinality(begun[d]) + 1
        BY <3>2, <2>a, <2>5
      <4> DEFINE pn == Cardinality(Pending(d))
                 pm == Cardinality(Pending(d)')
                 k == Cardinality(begun[d])
                 bound == k * PerPreflight
                 extra == IF d \in postSent THEN Pre!Trailing ELSE 0
                 junk == sent[d].junk
                 tr == trailing[d]
      <4>5. /\ pn \in Nat /\ pm \in Nat /\ pm <= pn + PerPreflight /\ PerPreflight \in Nat
            /\ bound \in Nat /\ extra \in Nat /\ junk \in Nat /\ tr \in Nat
            /\ junk + pn + tr <= bound + extra /\ (k + 1) * PerPreflight = bound + PerPreflight
        BY <1>6, <4>2, CountTypes, OneMorePreflight, SequenceShape DEF JunkCounted
      <4>6. junk + pm + tr <= (bound + PerPreflight) + extra
        <5> HIDE DEF pn, pm, k, bound, extra, junk, tr
        <5> QED BY <4>5
      <4>7. Cardinality(begun'[d]) * PerPreflight = bound + PerPreflight
        BY <4>4, <4>5
      <4>8. d \notin postSent => trailing[d] = 0
        BY <1>6 DEF JunkCounted
      <4> QED BY <1>4, <4>6, <4>7, <4>8 DEF JunkCounted
    <3> QED BY <3>1, <3>2
  <2> QED BY <1>4, <2>6, <2>7, <2>8, <2>9, <2>10 DEF PreInv
<1>8. CASE ~Pre!Due(s)
  <2> DEFINE new == [sender[s] EXCEPT !.at = "post"]
  <2>1. sender' = [sender EXCEPT ![s] = new] /\ UNCHANGED <<lastSent, begun>>
    BY <1>1, <1>8 DEF Pre!Gate
  <2>2. lastSent[e] # 0
    BY <1>1, <1>2, <1>3, <1>8 DEF Pre!Due
  <2>3. new \in SenderTypes /\ new.at = "post" /\ new.to = e /\ new.now = reading
    <3>1. sender[s] \in SenderTypes
      BY <1>1
    <3> QED BY <3>1 DEF SenderTypes
  <2> HIDE DEF new
  <2>4. sender'[s] = new /\ \A t \in Senders : t # s => sender'[t] = sender[t]
    BY <1>1, <2>1
  <2>5. PreTypes'
    <3>1. sender' \in [Senders -> SenderTypes]
      BY <1>1, <2>1, <2>3
    <3>2. PreTypes
      BY DEF PreInv
    <3> QED BY <1>4, <2>1, <3>1, <3>2 DEF PreTypes
  <2>6. ASSUME NEW t \in Senders PROVE SenderKnows(t)'
    <3>1. CASE t = s
      BY <3>1, <1>2, <1>4, <2>1, <2>2, <2>3, <2>4 DEF SenderKnows
    <3>2. CASE t # s
      BY <3>2, <1>4, <1>5, <2>1, <2>4 DEF SenderKnows
    <3> QED BY <3>1, <3>2
  <2>7. ASSUME NEW d \in Dests PROVE Announced(d)' /\ BegunApart(d)' /\ JunkCounted(d)'
    <3>1. Announced(d)'
      BY <1>2, <1>4, <1>6, <2>1, <2>3, <2>4 DEF Announced
    <3>2. BegunApart(d)'
      BY <1>6, <2>1 DEF BegunApart
    <3>3. sender'[s].at # "preflight"
      BY <2>3, <2>4
    <3>4. Pending(d)' \subseteq Pending(d)
      BY <3>3, <2>4, PendingKept
    <3>5. JunkCounted(d)'
      BY <3>4, <1>4, <2>1, CountKept
    <3> QED BY <3>1, <3>2, <3>5
  <2> QED BY <1>4, <2>5, <2>6, <2>7 DEF PreInv
<1> QED BY <1>7, <1>8

\* executeAtomicNoizePreflight (preflight_bind.go): one packet of the sequence, or its end.
LEMMA PrePreflight ==
    ASSUME PreInv, NEW s \in Senders, Pre!Preflight(s)
    PROVE  PreInv'
<1>1. sender \in [Senders -> SenderTypes] /\ sent \in [Dests -> [sig : Nat, junk : Nat, init : Nat]]
  BY DEF PreInv, PreTypes
<1> DEFINE e == sender[s].to
           l == sender[s].left
<1>2. /\ sender[s].at = "preflight" /\ e \in Dests /\ lastSent[e] # 0 /\ sender[s] \in SenderTypes
      /\ sender[s].now <= clock
      /\ l \in Seq({"sig", "junk"}) /\ Len(l) <= PreLen
      /\ \A i \in 1 .. Len(l) : l[i] = Pre!Sequence[PreLen - Len(l) + i]
  BY <1>1 DEF Pre!Preflight, PreInv, SenderKnows, SenderTypes
<1>3. UNCHANGED <<clock, lastSent, postSent, trailing, begun, naked>>
  BY DEF Pre!Preflight
<1>4. \A t \in Senders : SenderKnows(t)
  BY DEF PreInv
<1>5. \A d \in Dests : Announced(d) /\ BegunApart(d) /\ JunkCounted(d)
  BY DEF PreInv
<1>6. \A d \in Dests : BegunApart(d)'
  BY <1>3, <1>5 DEF BegunApart
<1>7. CASE l = <<>>
  <2> DEFINE new == [sender[s] EXCEPT !.at = "post"]
  <2>1. sender' = [sender EXCEPT ![s] = new] /\ prepared' = prepared \cup {e} /\ UNCHANGED sent
    BY <1>1, <1>7 DEF Pre!Preflight
  <2>2. new \in SenderTypes /\ new.at = "post" /\ new.to = e /\ new.now = sender[s].now
    BY <1>2 DEF SenderTypes
  <2> HIDE DEF new
  <2>3. sender'[s] = new /\ \A t \in Senders : t # s => sender'[t] = sender[t]
    BY <1>1, <2>1
  <2>4. PreTypes'
    <3>1. sender' \in [Senders -> SenderTypes]
      BY <1>1, <2>1, <2>2
    <3>2. PreTypes
      BY DEF PreInv
    <3> QED BY <1>3, <2>1, <3>1, <3>2 DEF PreTypes
  <2>5. ASSUME NEW t \in Senders PROVE SenderKnows(t)'
    <3>1. CASE t = s
      BY <3>1, <1>2, <1>3, <2>2, <2>3 DEF SenderKnows
    <3>2. CASE t # s
      BY <3>2, <1>3, <1>4, <2>3 DEF SenderKnows
    <3> QED BY <3>1, <3>2
  <2>6. ASSUME NEW d \in Dests PROVE Announced(d)' /\ JunkCounted(d)'
    <3>1. Announced(d)'
      <4>1. CASE d = e
        BY <4>1, <2>1 DEF Announced
      <4>2. CASE d # e
        BY <4>2, <1>3, <1>5, <2>1, <2>3 DEF Announced
      <4> QED BY <4>1, <4>2
    <3>2. sender'[s].at # "preflight"
      BY <2>2, <2>3
    <3>3. Pending(d)' \subseteq Pending(d)
      BY <3>2, <2>3, PendingKept
    <3>4. JunkCounted(d)'
      BY <3>3, <1>3, <2>1, CountKept
    <3> QED BY <3>1, <3>4
  <2> QED BY <1>3, <1>6, <2>4, <2>5, <2>6 DEF PreInv
<1>8. CASE l # <<>>
  <2> DEFINE h == Head(l)
             tl == Tail(l)
             n == Len(l)
             p == PreLen - n + 1
             new == [sender[s] EXCEPT !.left = tl]
             row == [sent[e] EXCEPT ![h] = @ + 1]
  <2>1. sender' = [sender EXCEPT ![s] = new] /\ sent' = [sent EXCEPT ![e] = row] /\ UNCHANGED prepared
    BY <1>1, <1>8 DEF Pre!Preflight
  <2>2. /\ n \in Nat /\ n >= 1 /\ h = l[1] /\ h \in {"sig", "junk"} /\ tl \in Seq({"sig", "junk"})
        /\ Len(tl) = n - 1 /\ \A i \in 1 .. (n - 1) : tl[i] = l[i + 1]
    BY <1>2, <1>8
  <2>3. /\ new \in SenderTypes /\ new.at = "preflight" /\ new.to = e /\ new.left = tl /\ new.init = sender[s].init
        /\ new.now = sender[s].now
    BY <1>2, <2>2 DEF SenderTypes
  <2>4. row \in [sig : Nat, junk : Nat, init : Nat] /\ row.junk = sent[e].junk + (IF h = "junk" THEN 1 ELSE 0)
    <3>1. sent[e] \in [sig : Nat, junk : Nat, init : Nat]
      BY <1>1, <1>2
    <3>2. CASE h = "sig"
      <4> HIDE DEF h
      <4> QED BY <3>1, <3>2
    <3>3. CASE h = "junk"
      <4> HIDE DEF h
      <4> QED BY <3>1, <3>3
    <3> QED BY <2>2, <3>2, <3>3
  <2>5. PreLen \in Nat
    BY SequenceShape
  <2>6. p \in 1 .. PreLen /\ Pre!Sequence[p] = h
    <3>1. n <= PreLen /\ 1 \in 1 .. n
      BY <1>2, <2>2
    <3>2. l[1] = Pre!Sequence[p]
      BY <1>2, <3>1
    <3>3. p \in 1 .. PreLen
      <4> HIDE DEF n
      <4> QED BY <2>2, <2>5, <3>1
    <3> QED BY <2>2, <3>2, <3>3
  <2>7. \A i \in 1 .. (n - 1) : tl[i] = Pre!Sequence[PreLen - (n - 1) + i]
    <3> SUFFICES ASSUME NEW i \in 1 .. (n - 1) PROVE tl[i] = Pre!Sequence[PreLen - (n - 1) + i]
      OBVIOUS
    <3> HIDE DEF n
    <3>1. i + 1 \in 1 .. n /\ PreLen - n + (i + 1) = PreLen - (n - 1) + i
      BY <2>2, <2>5
    <3>2. l[i + 1] = Pre!Sequence[PreLen - n + (i + 1)]
      BY <1>2, <3>1 DEF n
    <3> QED BY <2>2, <3>1, <3>2
  <2> HIDE DEF h, tl, new, row
  <2>8. /\ sender'[s] = new /\ \A t \in Senders : t # s => sender'[t] = sender[t]
        /\ sent'[e] = row /\ \A d \in Dests : d # e => sent'[d] = sent[d]
    BY <1>1, <1>2, <2>1
  <2>9. PreTypes'
    <3>1. sender' \in [Senders -> SenderTypes]
      BY <1>1, <2>1, <2>3
    <3>2. sent' \in [Dests -> [sig : Nat, junk : Nat, init : Nat]]
      BY <1>1, <1>2, <2>1, <2>4
    <3>3. PreTypes
      BY DEF PreInv
    <3> QED BY <1>3, <3>1, <3>2, <3>3 DEF PreTypes
  <2>10. ASSUME NEW t \in Senders PROVE SenderKnows(t)'
    <3>1. CASE t = s
      <4>1. /\ sender'[t].at = "preflight" /\ sender'[t].to = e /\ sender'[t].left = tl /\ Len(tl) = n - 1
            /\ sender'[t].now = sender[s].now
        BY <3>1, <2>2, <2>3, <2>8
      <4>2. n - 1 <= PreLen
        <5>1. n <= PreLen
          BY <1>2
        <5> HIDE DEF n
        <5> QED BY <2>2, <2>5, <5>1
      <4> HIDE DEF n
      <4>3. \A i \in 1 .. Len(sender'[t].left) :
               sender'[t].left[i] = Pre!Sequence[PreLen - Len(sender'[t].left) + i]
        BY <2>7, <4>1
      <4> QED BY <1>2, <1>3, <4>1, <4>2, <4>3 DEF SenderKnows
    <3>2. CASE t # s
      BY <3>2, <1>3, <1>4, <2>8 DEF SenderKnows
    <3> QED BY <3>1, <3>2
  <2>11. ASSUME NEW d \in Dests PROVE Announced(d)'
    <3>1. \A t \in Senders : sender'[t].at = sender[t].at /\ sender'[t].to = sender[t].to
      BY <1>2, <2>3, <2>8
    <3> QED BY <1>3, <1>5, <2>1, <3>1 DEF Announced
  <2>12. ASSUME NEW d \in Dests PROVE Pending(d)' \subseteq Pending(d) \ {<<s, p>>}
    <3>1. SUFFICES ASSUME NEW x \in Pending(d)' PROVE x \in Pending(d) /\ x # <<s, p>>
      OBVIOUS
    <3>2. /\ x \in Senders \X JunkPlaces /\ sender'[x[1]].at = "preflight" /\ sender'[x[1]].to = d
          /\ x[2] > PreLen - Len(sender'[x[1]].left) /\ x[1] \in Senders /\ x[2] \in Nat
      <4>1. /\ x \in Senders \X JunkPlaces /\ sender'[x[1]].at = "preflight" /\ sender'[x[1]].to = d
            /\ x[2] > PreLen - Len(sender'[x[1]].left)
        BY <3>1 DEF Pending
      <4>2. x[1] \in Senders /\ x[2] \in JunkPlaces
        BY <4>1
      <4>3. x[2] \in Nat
        BY <4>2, <2>5 DEF JunkPlaces
      <4> QED BY <4>1, <4>2, <4>3
    <3>3. CASE x[1] # s
      <4>1. x # <<s, p>>
        BY <3>3
      <4> QED BY <3>2, <3>3, <4>1, <2>8 DEF Pending
    <3>4. CASE x[1] = s
      <4>1. sender'[x[1]].to = e /\ Len(sender'[x[1]].left) = n - 1
        BY <3>4, <2>2, <2>3, <2>8
      <4>2. x[2] > PreLen - (n - 1)
        BY <3>2, <4>1
      <4>3. x[2] > PreLen - n /\ x[2] # p
        <5> HIDE DEF n
        <5> QED BY <4>2, <3>2, <2>2, <2>5
      <4>4. x # <<s, p>>
        BY <4>3
      <4>5. sender[x[1]].at = "preflight" /\ sender[x[1]].to = d /\ Len(sender[x[1]].left) = n
        BY <1>2, <3>2, <3>4, <4>1
      <4> QED BY <3>2, <4>3, <4>4, <4>5 DEF Pending
    <3> QED BY <3>3, <3>4
  <2>13. ASSUME NEW d \in Dests PROVE JunkCounted(d)'
    <3>1. CASE d # e \/ h # "junk"
      <4>1. sent'[d].junk = sent[d].junk
        <5>1. CASE d # e
          BY <5>1, <2>8
        <5>2. CASE d = e /\ h # "junk"
          <6>1. sent[e].junk \in Nat
            BY <1>1, <1>2
          <6> QED BY <5>2, <6>1, <2>4, <2>8
        <5> QED BY <3>1, <5>1, <5>2
      <4>2. Pending(d)' \subseteq Pending(d)
        BY <2>12
      <4> QED BY <4>1, <4>2, <1>3, CountKept
    <3>2. CASE d = e /\ h = "junk"
      <4>1. <<s, p>> \in Pending(d)
        <5>1. p \in JunkPlaces
          BY <3>2, <2>6 DEF JunkPlaces
        <5>2. p > PreLen - n
          <6> HIDE DEF n
          <6> QED BY <2>2, <2>5
        <5>3. <<s, p>> \in Senders \X JunkPlaces /\ <<s, p>>[1] = s /\ <<s, p>>[2] = p
          BY <5>1
        <5> HIDE DEF p
        <5> QED BY <3>2, <5>2, <5>3, <1>2 DEF Pending
      <4>2. Cardinality(Pending(d)') + 1 <= Cardinality(Pending(d))
        BY <4>1, <2>12, OnePendingLess, PendingShape
      <4>3. Cardinality(Pending(d)') \in Nat
        BY <2>12, FewerPending, PendingShape
      <4>4. sent'[d].junk = sent[d].junk + 1
        BY <3>2, <2>4, <2>8
      <4> DEFINE pn == Cardinality(Pending(d))
                 pm == Cardinality(Pending(d)')
                 bound == Cardinality(begun[d]) * PerPreflight
                 extra == IF d \in postSent THEN Pre!Trailing ELSE 0
                 junk == sent[d].junk
                 tr == trailing[d]
      <4>5. /\ pn \in Nat /\ pm \in Nat /\ pm + 1 <= pn /\ bound \in Nat /\ extra \in Nat /\ junk \in Nat /\ tr \in Nat
            /\ junk + pn + tr <= bound + extra
        BY <1>5, <4>2, <4>3, CountTypes DEF JunkCounted
      <4>6. (junk + 1) + pm + tr <= bound + extra
        <5> HIDE DEF pn, pm, bound, extra, junk, tr
        <5> QED BY <4>5
      <4>7. d \notin postSent => trailing[d] = 0
        BY <1>5 DEF JunkCounted
      <4> QED BY <1>3, <4>4, <4>6, <4>7 DEF JunkCounted
    <3> QED BY <3>1, <3>2
  <2> QED BY <1>3, <1>6, <2>9, <2>10, <2>11, <2>13 DEF PreInv
<1> QED BY <1>7, <1>8

\* A call that goes on changes nothing but what it says of itself.
LEMMA SenderMoves ==
    ASSUME PreInv, NEW s \in Senders, NEW new \in SenderTypes, sender' = [sender EXCEPT ![s] = new],
           new.at # "preflight", sender[s].at # "preflight", new.at # "idle" => new.to \in Dests,
           new.at = "post" => lastSent[new.to] # 0, new.at = "inner" /\ new.init => lastSent[new.to] # 0,
           new.now <= clock, new.at = "lock" => new.now >= Interval,
           UNCHANGED <<clock, lastSent, begun>>, prepared \subseteq prepared'
    PROVE  /\ sender' \in [Senders -> SenderTypes]
           /\ \A t \in Senders : SenderKnows(t)'
           /\ \A d \in Dests : Announced(d)' /\ BegunApart(d)' /\ Pending(d)' \subseteq Pending(d)
<1>1. sender \in [Senders -> SenderTypes]
  BY DEF PreInv, PreTypes
<1>2. sender' \in [Senders -> SenderTypes]
  BY <1>1
<1>3. sender'[s] = new /\ \A t \in Senders : t # s => sender'[t] = sender[t]
  BY <1>1
<1>4. ASSUME NEW t \in Senders PROVE SenderKnows(t)'
  <2>1. SenderKnows(t)
    BY DEF PreInv
  <2>2. CASE t = s
    BY <2>2, <1>3 DEF SenderKnows
  <2>3. CASE t # s
    BY <2>1, <2>3, <1>3 DEF SenderKnows
  <2> QED BY <2>2, <2>3
<1>5. ASSUME NEW d \in Dests PROVE Announced(d)' /\ BegunApart(d)' /\ Pending(d)' \subseteq Pending(d)
  <2>1. Announced(d) /\ BegunApart(d)
    BY DEF PreInv
  <2>2. Announced(d)'
    BY <2>1, <1>3 DEF Announced
  <2>3. BegunApart(d)'
    BY <2>1 DEF BegunApart
  <2>4. sender'[s].at # "preflight"
    BY <1>3
  <2>5. Pending(d)' \subseteq Pending(d)
    BY <2>4, <1>3, PendingKept
  <2> QED BY <2>2, <2>3, <2>5
<1> QED BY <1>2, <1>4, <1>5

\* maybePreflight (preflight_bind.go) reads the clock before it has the mutex.
LEMMA PreReadClock ==
    ASSUME PreInv, NEW s \in Senders, Pre!ReadClock(s)
    PROVE  PreInv'
<1>1. sender \in [Senders -> SenderTypes] /\ clock \in Nat /\ clock >= Interval
  BY DEF PreInv, PreTypes
<1> DEFINE new == [sender[s] EXCEPT !.at = "lock", !.now = clock]
<1>2. /\ sender[s].at = "gate" /\ sender[s].to \in Dests /\ sender' = [sender EXCEPT ![s] = new]
      /\ UNCHANGED <<clock, lastSent, postSent, trailing, begun, sent, prepared, naked>>
  BY <1>1 DEF Pre!ReadClock, PreInv, SenderKnows
<1>3. new \in SenderTypes /\ new.at = "lock" /\ new.to = sender[s].to /\ new.now = clock
  <2>1. sender[s] \in SenderTypes
    BY <1>1
  <2> QED BY <1>1, <2>1 DEF SenderTypes
<1> HIDE DEF new
<1>4. new.now <= clock /\ new.now >= Interval
  BY <1>1, <1>3
<1>5. /\ sender' \in [Senders -> SenderTypes]
      /\ \A t \in Senders : SenderKnows(t)'
      /\ \A d \in Dests : Announced(d)' /\ BegunApart(d)' /\ Pending(d)' \subseteq Pending(d)
  BY <1>2, <1>3, <1>4, SenderMoves
<1>6. PreTypes'
  <2>1. PreTypes
    BY DEF PreInv
  <2> QED BY <1>2, <1>5, <2>1 DEF PreTypes
<1>7. \A d \in Dests : JunkCounted(d)'
  BY <1>2, <1>5, CountKept
<1> QED BY <1>2, <1>5, <1>6, <1>7 DEF PreInv

\* maybeSendPostHandshakeJunk (preflight_bind.go): the trailing junk is started once
\* for an address.
LEMMA PrePost ==
    ASSUME PreInv, NEW s \in Senders, Pre!Post(s)
    PROVE  PreInv'
<1>1. /\ sender \in [Senders -> SenderTypes] /\ trailing \in [Dests -> 0 .. Jc] /\ postSent \subseteq Dests
  BY DEF PreInv, PreTypes
<1> DEFINE e == sender[s].to
           new == [sender[s] EXCEPT !.at = "inner"]
<1>2. sender[s].at = "post" /\ e \in Dests /\ lastSent[e] # 0 /\ sender[s].now <= clock
  BY DEF Pre!Post, PreInv, SenderKnows
<1>3. UNCHANGED <<clock, lastSent, begun, sent, prepared, naked>> /\ sender' = [sender EXCEPT ![s] = new]
  BY <1>1 DEF Pre!Post
<1>4. new \in SenderTypes /\ new.at = "inner" /\ new.to = e /\ new.now = sender[s].now
  <2>1. sender[s] \in SenderTypes
    BY <1>1
  <2> QED BY <2>1 DEF SenderTypes
<1>5. /\ sender' \in [Senders -> SenderTypes]
      /\ \A t \in Senders : SenderKnows(t)'
      /\ \A d \in Dests : Announced(d)' /\ BegunApart(d)' /\ Pending(d)' \subseteq Pending(d)
  <2> HIDE DEF new
  <2> QED BY <1>2, <1>3, <1>4, SenderMoves
<1>6. PreTypes
  BY DEF PreInv
<1>7. CASE Pre!Trailing > 0 /\ e \notin postSent
  <2>1. postSent' = postSent \cup {e} /\ trailing' = [trailing EXCEPT ![e] = @ + Pre!Trailing]
    BY <1>7 DEF Pre!Post, Pre!Remember
  <2>2. trailing[e] = 0 /\ JunkCounted(e)
    BY <1>2, <1>7 DEF PreInv, JunkCounted
  <2>3. Pre!Trailing \in 0 .. Jc /\ 0 + Pre!Trailing = Pre!Trailing
    BY TrailingFits, ObfuscationAssumption
  <2>4. trailing'[e] = Pre!Trailing /\ \A d \in Dests : d # e => trailing'[d] = trailing[d]
    BY <1>1, <1>2, <2>1, <2>2, <2>3
  <2>5. trailing' \in [Dests -> 0 .. Jc]
    BY <1>1, <1>2, <2>1, <2>2, <2>3
  <2>6. PreTypes'
    BY <1>2, <1>3, <1>5, <1>6, <2>1, <2>5 DEF PreTypes
  <2>7. ASSUME NEW d \in Dests PROVE JunkCounted(d)'
    <3>1. CASE d # e
      BY <3>1, <1>3, <1>5, <2>1, <2>4, CountKept
    <3>2. CASE d = e
      <4> DEFINE pn == Cardinality(Pending(d))
                 pm == Cardinality(Pending(d)')
                 bound == Cardinality(begun[d]) * PerPreflight
                 junk == sent[d].junk
                 tr == Pre!Trailing
      <4>1. pm \in Nat /\ pm <= pn
        BY <1>5, FewerPending, PendingShape
      <4>2. pn \in Nat /\ bound \in Nat /\ junk \in Nat /\ tr \in Nat
        BY CountTypes
      <4>3. junk + pn + 0 <= bound + 0
        BY <2>2, <3>2, <1>7 DEF JunkCounted
      <4>4. junk + pm + tr <= bound + tr
        <5> HIDE DEF pn, pm, bound, junk, tr
        <5> QED BY <4>1, <4>2, <4>3
      <4>5. d \in postSent' /\ trailing'[d] = tr
        BY <3>2, <2>1, <2>4
      <4> QED BY <1>3, <4>4, <4>5 DEF JunkCounted
    <3> QED BY <3>1, <3>2
  <2> QED BY <1>3, <1>5, <2>6, <2>7 DEF PreInv
<1>8. CASE ~(Pre!Trailing > 0 /\ e \notin postSent)
  <2>1. UNCHANGED <<postSent, trailing>>
    BY <1>8 DEF Pre!Post
  <2>2. PreTypes'
    BY <1>3, <1>5, <1>6, <2>1 DEF PreTypes
  <2>3. \A d \in Dests : JunkCounted(d)'
    BY <1>3, <1>5, <2>1, CountKept
  <2> QED BY <1>3, <1>5, <2>2, <2>3 DEF PreInv
<1> QED BY <1>7, <1>8

\* A packet of the trailing junk.
LEMMA PreTrailingJunk ==
    ASSUME PreInv, NEW e \in Dests, Pre!TrailingJunk(e)
    PROVE  PreInv'
<1>1. /\ trailing \in [Dests -> 0 .. Jc] /\ sent \in [Dests -> [sig : Nat, junk : Nat, init : Nat]]
      /\ trailing[e] \in Nat /\ trailing[e] > 0 /\ trailing[e] - 1 \in 0 .. Jc /\ sent[e] \in [sig : Nat, junk : Nat, init : Nat]
  BY ObfuscationAssumption DEF PreInv, PreTypes, Pre!TrailingJunk
<1> DEFINE row == [sent[e] EXCEPT !.junk = @ + 1]
<1>2. /\ trailing' = [trailing EXCEPT ![e] = @ - 1] /\ sent' = [sent EXCEPT ![e] = row]
      /\ UNCHANGED <<clock, lastSent, postSent, sender, begun, prepared, naked>>
  BY <1>1 DEF Pre!TrailingJunk
<1>3. row \in [sig : Nat, junk : Nat, init : Nat] /\ row.junk = sent[e].junk + 1
  BY <1>1
<1> HIDE DEF row
<1>4. /\ trailing'[e] = trailing[e] - 1 /\ sent'[e] = row
      /\ \A d \in Dests : d # e => trailing'[d] = trailing[d] /\ sent'[d] = sent[d]
  BY <1>1, <1>2
<1>5. PreTypes'
  <2>1. trailing' \in [Dests -> 0 .. Jc] /\ sent' \in [Dests -> [sig : Nat, junk : Nat, init : Nat]]
    BY <1>1, <1>2, <1>3
  <2>2. PreTypes
    BY DEF PreInv
  <2> QED BY <1>2, <2>1, <2>2 DEF PreTypes
<1>6. ASSUME NEW t \in Senders PROVE SenderKnows(t)'
  BY <1>2 DEF PreInv, SenderKnows
<1>7. ASSUME NEW d \in Dests PROVE Announced(d)' /\ BegunApart(d)' /\ JunkCounted(d)'
  <2>1. Announced(d) /\ BegunApart(d) /\ JunkCounted(d)
    BY DEF PreInv
  <2>2. Announced(d)'
    BY <2>1, <1>2 DEF Announced
  <2>3. BegunApart(d)'
    BY <2>1, <1>2 DEF BegunApart
  <2>4. Pending(d)' = Pending(d)
    BY <1>2 DEF Pending
  <2>5. CASE d # e
    <3>1. Pending(d)' \subseteq Pending(d)
      BY <2>4
    <3>2. JunkCounted(d)'
      BY <2>5, <3>1, <1>2, <1>4, CountKept
    <3> QED BY <2>2, <2>3, <3>2
  <2>6. CASE d = e
    <3> DEFINE pn == Cardinality(Pending(d))
               bound == Cardinality(begun[d]) * PerPreflight
               extra == IF d \in postSent THEN Pre!Trailing ELSE 0
               junk == sent[d].junk
               tr == trailing[d]
    <3>1. pn \in Nat /\ bound \in Nat /\ extra \in Nat /\ junk \in Nat /\ tr \in Nat /\ junk + pn + tr <= bound + extra
      BY <2>1, CountTypes DEF JunkCounted
    <3>2. (junk + 1) + pn + (tr - 1) <= bound + extra
      <4> HIDE DEF pn, bound, extra, junk, tr
      <4> QED BY <3>1
    <3>3. d \in postSent
      BY <2>1, <2>6, <1>1 DEF JunkCounted
    <3>4. sent'[d].junk = junk + 1 /\ trailing'[d] = tr - 1
      BY <2>6, <1>3, <1>4
    <3>5. JunkCounted(d)'
      BY <1>2, <2>4, <3>2, <3>3, <3>4 DEF JunkCounted
    <3> QED BY <2>2, <2>3, <3>5
  <2> QED BY <2>5, <2>6
<1> QED BY <1>2, <1>5, <1>6, <1>7 DEF PreInv

\* The batch itself goes out; an initiation has a preflight before it or beside it.
LEMMA PreInner ==
    ASSUME PreInv, NEW s \in Senders, Pre!Inner(s)
    PROVE  PreInv'
<1>1. /\ sender \in [Senders -> SenderTypes] /\ sent \in [Dests -> [sig : Nat, junk : Nat, init : Nat]]
      /\ sender[s] \in SenderTypes /\ sender[s].sends \in Nat
  BY DEF PreInv, PreTypes, SenderTypes
<1> DEFINE e == sender[s].to
           new == [Pre!Idle EXCEPT !.sends = sender[s].sends]
<1>2. sender[s].at = "inner" /\ e \in Dests /\ SenderKnows(s) /\ Announced(e)
  BY DEF Pre!Inner, PreInv, SenderKnows
<1>3. UNCHANGED <<clock, lastSent, postSent, trailing, begun, prepared>> /\ sender' = [sender EXCEPT ![s] = new]
  BY <1>1 DEF Pre!Inner
<1>4. new \in SenderTypes /\ new.at = "idle" /\ new.now <= clock
  <2>3. 0 <= clock
    BY DEF PreInv, PreTypes
  <2> DEFINE n == sender[s].sends
             C == CHOOSE d \in Dests : TRUE
  <2>0. Pre!Idle = [at |-> "idle", to |-> C, init |-> FALSE, left |-> <<>>, now |-> 0, sends |-> 0]
    BY DEF Pre!Idle
  <2>1. new = [at |-> "idle", to |-> C, init |-> FALSE, left |-> <<>>, now |-> 0, sends |-> n] /\ Pre!Idle.to = C
    <3> HIDE DEF C, n
    <3>1. new = [Pre!Idle EXCEPT !.sends = n]
      BY DEF n
    <3> HIDE DEF new
    <3> QED BY <3>1, <2>0
  <2>2. <<>> \in Seq({"sig", "junk"})
    OBVIOUS
  <2> HIDE DEF C, new, n
  <2> QED BY <1>1, <2>1, <2>2, <2>3 DEF SenderTypes, n
<1>5. /\ sender' \in [Senders -> SenderTypes]
      /\ \A t \in Senders : SenderKnows(t)'
      /\ \A d \in Dests : Announced(d)' /\ BegunApart(d)' /\ Pending(d)' \subseteq Pending(d)
  <2> HIDE DEF new
  <2> QED BY <1>2, <1>3, <1>4, SenderMoves
<1>6. /\ sent' \in [Dests -> [sig : Nat, junk : Nat, init : Nat]] /\ naked' = naked
      /\ \A d \in Dests : sent'[d].junk = sent[d].junk
  <2>1. CASE ~sender[s].init
    BY <2>1, <1>1 DEF Pre!Inner
  <2>2. CASE sender[s].init
    <3> DEFINE row == [sent[e] EXCEPT !.init = @ + 1]
    <3>1. sent' = [sent EXCEPT ![e] = row]
      BY <1>1, <2>2 DEF Pre!Inner
    <3>2. row \in [sig : Nat, junk : Nat, init : Nat] /\ row.junk = sent[e].junk
      <4>1. sent[e] \in [sig : Nat, junk : Nat, init : Nat]
        BY <1>1, <1>2
      <4> QED BY <4>1
    <3> HIDE DEF row
    <3>3. sent' \in [Dests -> [sig : Nat, junk : Nat, init : Nat]] /\ \A d \in Dests : sent'[d].junk = sent[d].junk
      BY <1>1, <1>2, <3>1, <3>2
    <3>4. lastSent[e] # 0
      BY <1>2, <2>2 DEF SenderKnows
    <3>5. e \in prepared \/ \E t \in Senders : sender[t].at = "preflight" /\ sender[t].to = e
      BY <1>2, <3>4 DEF Announced
    <3>6. naked' = naked
      BY <2>2, <3>5 DEF Pre!Inner
    <3> QED BY <3>3, <3>6
  <2> QED BY <2>1, <2>2
<1>7. PreTypes'
  <2>1. PreTypes
    BY DEF PreInv
  <2> QED BY <1>3, <1>5, <1>6, <2>1 DEF PreTypes
<1>8. \A d \in Dests : JunkCounted(d)'
  BY <1>3, <1>5, <1>6, CountKept
<1> QED BY <1>5, <1>6, <1>7, <1>8 DEF PreInv

\* Every step of the bind keeps to what was begun.
LEMMA PreStep == PreInv /\ Pre!Next => PreInv'
<1> SUFFICES ASSUME PreInv, Pre!Next PROVE PreInv'
  OBVIOUS
<1>1. ASSUME Pre!Tick PROVE PreInv'
  <2>1. clock' = clock + 1 /\ UNCHANGED <<lastSent, postSent, sender, trailing, begun, sent, prepared, naked>>
    BY <1>1 DEF Pre!Tick
  <2>2. PreTypes'
    <3>1. PreTypes /\ Interval \in Nat
      BY ObfuscationAssumption DEF PreInv
    <3>2. clock' \in Nat /\ clock' >= Interval /\ \A d \in Dests : lastSent'[d] <= clock'
      BY <2>1, <3>1 DEF PreTypes
    <3> QED BY <2>1, <3>1, <3>2 DEF PreTypes
  <2>3. ASSUME NEW t \in Senders PROVE SenderKnows(t)'
    <3>1. SenderKnows(t) /\ clock \in Nat /\ sender[t].now \in Nat
      BY DEF PreInv, PreTypes, SenderTypes
    <3>2. sender[t].now <= clock
      BY <3>1 DEF SenderKnows
    <3>3. sender'[t].now <= clock'
      BY <2>1, <3>1, <3>2
    <3> QED BY <2>1, <3>1, <3>3 DEF SenderKnows
  <2>4. ASSUME NEW d \in Dests PROVE Announced(d)' /\ BegunApart(d)' /\ JunkCounted(d)'
    <3>1. Announced(d)'
      BY <2>1 DEF PreInv, Announced
    <3>2. BegunApart(d)'
      BY <2>1 DEF PreInv, BegunApart
    <3>3. Pending(d)' \subseteq Pending(d)
      BY <2>1 DEF Pending
    <3>4. JunkCounted(d)'
      BY <2>1, <3>3, CountKept
    <3> QED BY <3>1, <3>2, <3>4
  <2> QED BY <2>1, <2>2, <2>3, <2>4 DEF PreInv
<1> QED BY <1>1, PreSend, PreReadClock, PreGate, PrePreflight, PrePost, PreTrailingJunk, PreInner DEF Pre!Next

\* The bind stands still when the others move.
LEMMA PreStays == PreInv /\ UNCHANGED Pre!preflightVars => PreInv'
<1> SUFFICES ASSUME PreInv, UNCHANGED <<clock, lastSent, postSent, sender, trailing, begun, sent, prepared, naked>>
             PROVE  PreInv'
  BY DEF Pre!preflightVars
<1>1. PreTypes'
  BY DEF PreInv, PreTypes
<1>2. \A s \in Senders : SenderKnows(s)'
  BY DEF PreInv, SenderKnows
<1>3. \A d \in Dests : Announced(d)' /\ BegunApart(d)'
  BY DEF PreInv, Announced, BegunApart
<1>4. \A d \in Dests : Pending(d)' \subseteq Pending(d)
  BY DEF Pending
<1>5. \A d \in Dests : JunkCounted(d)'
  BY <1>4, CountKept
<1> QED BY <1>1, <1>2, <1>3, <1>5 DEF PreInv

\* What the invariant says of the bind.
LEMMA PreMeans ==
    PreInv => /\ Pre!TypeOK /\ Pre!PreflightsAreApart /\ Pre!CrowdedOnlyByALateOne
              /\ Pre!RateIsKept /\ Pre!JunkIsBounded /\ Pre!NoNakedInit
<1> SUFFICES ASSUME PreInv
             PROVE  /\ Pre!TypeOK /\ Pre!PreflightsAreApart /\ Pre!CrowdedOnlyByALateOne
                    /\ Pre!RateIsKept /\ Pre!JunkIsBounded /\ Pre!NoNakedInit
  OBVIOUS
<1>1. Pre!TypeOK
  <2>1. PreTypes
    BY DEF PreInv
  <2>2. \A s \in Senders : sender[s].at \in {"idle", "gate", "lock", "preflight", "post", "inner"}
    BY <2>1 DEF PreTypes, SenderTypes
  <2>3. \A s \in Senders : sender[s].now <= clock
    BY DEF PreInv, SenderKnows
  <2> QED BY <2>1, <2>2, <2>3 DEF PreTypes, Pre!TypeOK
<1>2. Pre!PreflightsAreApart
  BY DEF PreInv, BegunApart, Pre!PreflightsAreApart
<1>3. Pre!JunkIsBounded
  <2>1. \A X : Pre!Cardinality(X) = Cardinality(X)
    BY DEF Pre!Cardinality, Cardinality
  <2>2. ASSUME NEW d \in Dests
        PROVE  sent[d].junk <= Cardinality(begun[d]) * (JcAfterI1 + JcBeforeHS) + Pre!Trailing
    <3> DEFINE pn == Cardinality(Pending(d))
               bound == Cardinality(begun[d]) * PerPreflight
               most == Pre!Trailing
               extra == IF d \in postSent THEN most ELSE 0
               junk == sent[d].junk
               tr == trailing[d]
    <3>1. /\ pn \in Nat /\ bound \in Nat /\ extra \in Nat /\ most \in Nat /\ junk \in Nat /\ tr \in Nat
          /\ junk + pn + tr <= bound + extra
      BY CountTypes DEF PreInv, JunkCounted
    <3>2. extra <= most
      <4> HIDE DEF most
      <4> QED BY <3>1
    <3>3. junk <= bound + most
      <4> HIDE DEF pn, bound, extra, most, junk, tr
      <4> QED BY <3>1, <3>2
    <3> QED BY <3>3 DEF PerPreflight
  <2> QED BY <2>1, <2>2 DEF Pre!JunkIsBounded
<1>4. Pre!NoNakedInit
  BY DEF PreInv, Pre!NoNakedInit
<1>5. Pre!RateIsKept
  <2>1. \A X : Pre!Cardinality(X) = Cardinality(X)
    BY DEF Pre!Cardinality, Cardinality
  <2>2. ASSUME NEW d \in Dests PROVE Cardinality(begun[d]) * Interval <= clock
    <3> DEFINE spent == Cardinality(begun[d]) * Interval
    <3>1. spent <= lastSent[d] /\ lastSent[d] <= clock /\ lastSent[d] \in Nat /\ clock \in Nat
      BY DEF PreInv, PreTypes, BegunApart
    <3>2. spent \in Nat
      BY CountTypes, OneMoreInterval
    <3> HIDE DEF spent
    <3>3. spent <= clock
      BY <3>1, <3>2
    <3> QED BY <3>3 DEF spent
  <2> QED BY <2>1, <2>2 DEF Pre!RateIsKept
<1>6. Pre!CrowdedOnlyByALateOne
  <2>1. Interval \in Nat
    BY ObfuscationAssumption
  <2>2. ASSUME NEW d \in Dests, NEW a \in begun[d], NEW b \in begun[d], a # b
        PROVE  \/ a[2] >= b[2] + Interval \/ b[2] >= a[2] + Interval
               \/ a[1] < a[2] \/ b[1] < b[2]
    <3>1. a \in Nat \X Nat /\ b \in Nat \X Nat
      BY DEF PreInv, PreTypes
    <3>2. a[1] \in Nat /\ a[2] \in Nat /\ b[1] \in Nat /\ b[2] \in Nat
      BY <3>1
    <3>3. /\ a[1] <= a[2] /\ b[1] <= b[2]
          /\ a[1] >= b[1] + Interval \/ b[1] >= a[1] + Interval
      BY <2>2 DEF PreInv, BegunApart
    <3> QED BY <2>1, <3>2, <3>3
  <2> QED BY <2>2 DEF Pre!CrowdedOnlyByALateOne
<1> QED BY <1>1, <1>2, <1>3, <1>4, <1>5, <1>6

-----------------------------------------------------------------------------
(* The obfuscation of QUIC's packets.                                      *)

WriterTypes ==
    [at : {"idle", "obfuscate", "post", "pad", "send"}, kind : {"initial", "handshake", "rtt"}, len : Nat, out : Nat]

NoizeTypes ==
    /\ enabled \in BOOLEAN /\ hsState \in [seen : BOOLEAN, postSent : BOOLEAN]
    /\ quicWriter \in [Writers -> WriterTypes]
    /\ writes \in 0 .. MaxWrites /\ buffer \in [Writers -> 0 .. writes]
    /\ prelude \in Nat /\ epilogue \in Nat /\ junkSent \in Nat
    /\ cutting \subseteq [writer : Writers, packet : 1 .. writes, len : Nat, offset : Nat]
    /\ pieces \subseteq [packet : 1 .. writes, len : Nat, from : Nat, to : Nat, torn : BOOLEAN]
    /\ datagrams \subseteq [len : Nat, out : Nat]

\* A sequence of junk that has not been started has sent nothing.
JunkBudget ==
    /\ ~hsState.postSent => epilogue = 0
    /\ junkSent + prelude + epilogue
          <= (IF hsState.seen THEN Noize!Prelude ELSE 0) + (IF hsState.postSent THEN AfterHS ELSE 0)

\* What is about to be sent is a first fragment, or no longer than padding makes it.
OutFits ==
    \A w \in Writers : quicWriter[w].at = "send" =>
        \/ quicWriter[w].out = FragmentSize /\ quicWriter[w].out < quicWriter[w].len
        \/ /\ quicWriter[w].out >= quicWriter[w].len
           /\ quicWriter[w].out > Mtu + Header => quicWriter[w].len > Mtu

\* A packet in hand is in its writer's buffer and in no other.
BuffersApart ==
    /\ \A w \in Writers : quicWriter[w].at # "idle" => buffer[w] # 0
    /\ \A v, w \in Writers : buffer[v] = buffer[w] /\ buffer[w] # 0 => v = w

\* The bytes of packet n from the first fragment's end up to m are among the pieces P.
Covered(P, n, m) ==
    \A b \in Nat : FragmentSize <= b /\ b < m => \E p \in P : p.packet = n /\ p.from <= b /\ b < p.to

\* A fragment is the first of its packet or comes after the first, and those of one
\* packet are apart.
PiecesFit ==
    /\ \A p \in pieces :
          /\ FragmentSize > 0
          /\ \/ p.from = 0 /\ p.to = FragmentSize /\ p.torn = FALSE
             \/ p.from >= FragmentSize
          /\ p.torn => Noize!Reused(p.packet)
    /\ \A p, q \in pieces : p.packet = q.packet =>
          p.len = q.len /\ (p = q \/ p.to <= q.from \/ q.to <= p.from)

\* A goroutine that cuts a packet is the only one, and has sent what is before its
\* offset.
CuttersFit ==
    \A c \in cutting :
        /\ 0 < FragmentSize /\ FragmentSize <= c.offset /\ c.offset < c.len
        /\ \A w \in Writers : buffer[w] = c.packet => w = c.writer
        /\ \A e \in cutting : e.packet = c.packet => e = c
        /\ \A p \in pieces : p.packet = c.packet => p.len = c.len /\ p.to <= c.offset
        /\ Covered(pieces, c.packet, c.offset)

NotCut(C, n) == \A c \in C : c.packet # n

\* When the goroutine is done all but the first fragment has gone out.
DoneIsCovered == \A p \in pieces : NotCut(cutting, p.packet) => Covered(pieces, p.packet, p.len)

\* A writer with the first fragment in hand has its packet cut or done, and one that
\* has not looked at its packet does not.
WritersFit ==
    \A w \in Writers :
        /\ quicWriter[w].at = "send" /\ quicWriter[w].out < quicWriter[w].len =>
              /\ 0 < FragmentSize
              /\ \A p \in pieces : p.packet = buffer[w] => p.len = quicWriter[w].len
              /\ \A c \in cutting : c.packet = buffer[w] => c.len = quicWriter[w].len
              /\ NotCut(cutting, buffer[w]) => Covered(pieces, buffer[w], quicWriter[w].len)
        /\ quicWriter[w].at = "obfuscate" => NotCut(cutting, buffer[w]) /\ \A p \in pieces : p.packet # buffer[w]

FragmentInv == BuffersApart /\ PiecesFit /\ CuttersFit /\ DoneIsCovered /\ WritersFit

NoizeInv == NoizeTypes /\ JunkBudget /\ OutFits /\ Noize!PaddingKeepsToLimit /\ FragmentInv

\* Nothing was written at the start.
LEMMA NoizeInit == Noize!Init => NoizeInv
<1> SUFFICES ASSUME Noize!Init PROVE NoizeInv
  OBVIOUS
<1>1. /\ enabled = TRUE /\ hsState = [seen |-> FALSE, postSent |-> FALSE]
      /\ quicWriter = [w \in Writers |-> Noize!Idle] /\ buffer = [w \in Writers |-> 0] /\ writes = 0
      /\ prelude = 0 /\ epilogue = 0 /\ cutting = {} /\ junkSent = 0 /\ pieces = {} /\ datagrams = {}
  BY DEF Noize!Init
<1>2. Noize!Idle \in WriterTypes /\ Noize!Idle.at = "idle"
  BY DEF Noize!Idle, WriterTypes
<1>3. \A w \in Writers : quicWriter[w].at = "idle"
  BY <1>1, <1>2
<1>4. NoizeTypes
  <2>1. 0 \in 0 .. MaxWrites /\ 0 \in 0 .. 0
    BY ObfuscationAssumption
  <2> QED BY <1>1, <1>2, <2>1 DEF NoizeTypes
<1>5. JunkBudget
  BY <1>1 DEF JunkBudget
<1>6. OutFits /\ Noize!PaddingKeepsToLimit
  BY <1>1, <1>3 DEF OutFits, Noize!PaddingKeepsToLimit
<1>7. FragmentInv
  BY <1>1, <1>3 DEF FragmentInv, BuffersApart, PiecesFit, CuttersFit, DoneIsCovered, WritersFit
<1> QED BY <1>4, <1>5, <1>6, <1>7 DEF NoizeInv

\* Steps that leave the fragments alone.
LEMMA FragmentsStay ==
    ASSUME FragmentInv, UNCHANGED <<quicWriter, buffer, writes, cutting, pieces>>
    PROVE  FragmentInv'
<1>1. BuffersApart' /\ DoneIsCovered'
  BY DEF FragmentInv, BuffersApart, DoneIsCovered
<1>2. PiecesFit'
  BY DEF FragmentInv, PiecesFit, Noize!Reused
<1>3. CuttersFit'
  BY DEF FragmentInv, CuttersFit
<1>4. WritersFit'
  BY DEF FragmentInv, WritersFit
<1> QED BY <1>1, <1>2, <1>3, <1>4 DEF FragmentInv

\* A writer that goes on with a packet that is not cut.
LEMMA WriterGoesOn ==
    ASSUME FragmentInv, NoizeTypes, NEW w \in Writers, NEW new \in WriterTypes, quicWriter' = [quicWriter EXCEPT ![w] = new],
           quicWriter[w].at # "idle", new.at # "obfuscate", new.at = "send" => ~(new.out < new.len),
           UNCHANGED <<buffer, writes, cutting, pieces>>
    PROVE  FragmentInv' /\ quicWriter' \in [Writers -> WriterTypes]
<1>1. quicWriter \in [Writers -> WriterTypes]
  BY DEF NoizeTypes
<1>2. quicWriter'[w] = new /\ \A v \in Writers : v # w => quicWriter'[v] = quicWriter[v]
  BY <1>1
<1>3. BuffersApart' /\ DoneIsCovered'
  BY <1>2 DEF FragmentInv, BuffersApart, DoneIsCovered
<1>4. PiecesFit'
  BY DEF FragmentInv, PiecesFit, Noize!Reused
<1>5. CuttersFit'
  BY DEF FragmentInv, CuttersFit
<1>6. WritersFit'
  BY <1>2 DEF FragmentInv, WritersFit
<1>7. quicWriter' \in [Writers -> WriterTypes]
  BY <1>1
<1> QED BY <1>3, <1>4, <1>5, <1>6, <1>7 DEF FragmentInv

\* More pieces cover no less.
LEMMA CoveredStays ==
    ASSUME NEW P, NEW Q, NEW n, NEW m, P \subseteq Q, Covered(P, n, m)
    PROVE  Covered(Q, n, m)
  BY DEF Covered

\* A packet QUIC may write.
LEMMA WrittenFits == \A n : \A p \in Noize!Written(n) : p.kind \in {"initial", "handshake", "rtt"} /\ p.len \in Nat
<1> SUFFICES ASSUME NEW n, NEW p \in Noize!Written(n) PROVE p.kind \in {"initial", "handshake", "rtt"} /\ p.len \in Nat
  OBVIOUS
<1>1. CASE n = 1
  <2>1. p = [kind |-> "rtt", len |-> Trigger]
    BY <1>1 DEF Noize!Written
  <2> QED BY <2>1, ObfuscationAssumption
<1>2. CASE n # 1
  <2>1. p \in [kind : {"initial", "handshake", "rtt"}, len : PacketLengths]
    BY <1>2 DEF Noize!Written
  <2> QED BY <2>1, ObfuscationAssumption
<1> QED BY <1>1, <1>2

\* WriteToUDP (masque/noize): a new packet in the writer's buffer.
LEMMA NoizeWrite ==
    ASSUME NoizeInv, NEW w \in Writers, NEW p \in Noize!Written(writes + 1), Noize!WriteToUDP(w, p.kind, p.len)
    PROVE  NoizeInv'
<1> DEFINE new == [at |-> IF enabled /\ ~Noize!NothingToDo THEN "obfuscate" ELSE "send",
                   kind |-> p.kind, len |-> p.len, out |-> p.len]
<1>1. /\ quicWriter[w].at = "idle" /\ writes < MaxWrites /\ quicWriter' = [quicWriter EXCEPT ![w] = new]
      /\ writes' = writes + 1 /\ buffer' = [buffer EXCEPT ![w] = writes + 1]
      /\ UNCHANGED <<enabled, hsState, prelude, epilogue, cutting, junkSent, pieces, datagrams>>
  BY DEF Noize!WriteToUDP
<1>2. /\ new \in WriterTypes /\ new.at \in {"obfuscate", "send"} /\ new.len \in Nat /\ new.out = new.len
  BY WrittenFits DEF WriterTypes
<1> HIDE DEF new
<1>3. NoizeTypes
  BY DEF NoizeInv
<1>4. writes \in Nat /\ MaxWrites \in Nat /\ writes + 1 \in 0 .. MaxWrites
  BY <1>1, <1>3, ObfuscationAssumption DEF NoizeTypes
<1>5. /\ quicWriter'[w] = new /\ buffer'[w] = writes + 1
      /\ \A v \in Writers : v # w => quicWriter'[v] = quicWriter[v] /\ buffer'[v] = buffer[v]
  BY <1>1, <1>3 DEF NoizeTypes
<1>6. /\ \A v \in Writers : buffer[v] \in Nat /\ buffer[v] <= writes
      /\ \A c \in cutting : c.packet \in Nat /\ c.packet <= writes
      /\ \A q \in pieces : q.packet \in Nat /\ q.packet <= writes
  BY <1>3, <1>4 DEF NoizeTypes
<1>7. NoizeTypes'
  <2>1. 0 .. writes \subseteq 0 .. (writes + 1) /\ 1 .. writes \subseteq 1 .. (writes + 1) /\ writes + 1 \in 0 .. (writes + 1)
    BY <1>4
  <2>2. quicWriter' \in [Writers -> WriterTypes]
    BY <1>1, <1>2, <1>3 DEF NoizeTypes
  <2>3. buffer' \in [Writers -> 0 .. writes']
    BY <1>1, <1>3, <2>1 DEF NoizeTypes
  <2>4. cutting' \subseteq [writer : Writers, packet : 1 .. writes', len : Nat, offset : Nat]
    BY <1>1, <1>3, <2>1 DEF NoizeTypes
  <2>5. pieces' \subseteq [packet : 1 .. writes', len : Nat, from : Nat, to : Nat, torn : BOOLEAN]
    BY <1>1, <1>3, <2>1 DEF NoizeTypes
  <2> QED BY <1>1, <1>3, <1>4, <2>2, <2>3, <2>4, <2>5 DEF NoizeTypes
<1>8. JunkBudget'
  BY <1>1 DEF NoizeInv, JunkBudget
<1>9. OutFits'
  <2>1. new.out >= new.len /\ (new.out > Mtu + Header => new.len > Mtu)
    BY <1>2, ObfuscationAssumption
  <2> QED BY <1>5, <2>1 DEF NoizeInv, OutFits
<1>10. Noize!PaddingKeepsToLimit'
  BY <1>1 DEF NoizeInv, Noize!PaddingKeepsToLimit
<1>11. FragmentInv
  BY DEF NoizeInv
<1>12. BuffersApart'
  <2>1. \A v \in Writers : quicWriter'[v].at # "idle" => buffer'[v] # 0
    BY <1>4, <1>5, <1>11 DEF FragmentInv, BuffersApart
  <2>2. \A u, v \in Writers : buffer'[u] = buffer'[v] /\ buffer'[v] # 0 => u = v
    BY <1>4, <1>5, <1>6, <1>11 DEF FragmentInv, BuffersApart
  <2> QED BY <2>1, <2>2 DEF BuffersApart
<1>13. PiecesFit'
  <2>1. \A q \in pieces : Noize!Reused(q.packet) => Noize!Reused(q.packet)'
    BY <1>4, <1>5, <1>6 DEF Noize!Reused
  <2> QED BY <1>1, <1>11, <2>1 DEF FragmentInv, PiecesFit
<1>14. CuttersFit'
  <2>1. \A c \in cutting : \A v \in Writers : buffer'[v] = c.packet => v = c.writer
    BY <1>4, <1>5, <1>6, <1>11 DEF FragmentInv, CuttersFit
  <2> QED BY <1>1, <1>11, <2>1 DEF FragmentInv, CuttersFit
<1>15. DoneIsCovered'
  BY <1>1, <1>11 DEF FragmentInv, DoneIsCovered
<1>16. WritersFit'
  <2>1. ~(new.out < new.len)
    BY <1>2
  <2>2. NotCut(cutting, writes + 1) /\ \A q \in pieces : q.packet # writes + 1
    BY <1>4, <1>6 DEF NotCut
  <2> QED BY <1>1, <1>2, <1>5, <1>11, <2>1, <2>2 DEF FragmentInv, WritersFit
<1> QED BY <1>7, <1>8, <1>9, <1>10, <1>12, <1>13, <1>14, <1>15, <1>16 DEF NoizeInv, FragmentInv

\* The pre-handshake sequence has so many packets.
LEMMA PreludeFits == Noize!Prelude \in Nat
  BY ObfuscationAssumption DEF Noize!Prelude

\* ObfuscateWrite up to the fragments.
LEMMA NoizeFirst ==
    ASSUME NoizeInv, NEW w \in Writers, Noize!FirstPacket(w)
    PROVE  NoizeInv'
<1> DEFINE F == FragmentSize
           q == quicWriter[w]
           cut == q.kind = "initial" /\ F > 0 /\ q.len > F
<1>1. /\ q.at = "obfuscate" /\ prelude' = (IF hsState.seen THEN prelude ELSE prelude + Noize!Prelude)
      /\ hsState' = [hsState EXCEPT !.seen = TRUE]
      /\ UNCHANGED <<enabled, buffer, writes, epilogue, junkSent, pieces, datagrams>>
  BY DEF Noize!FirstPacket
<1>2. NoizeTypes /\ FragmentInv /\ F \in Nat
  BY ObfuscationAssumption DEF NoizeInv
<1>3. q \in WriterTypes /\ q.len \in Nat /\ q.out \in Nat
  BY <1>2 DEF NoizeTypes, WriterTypes
<1>4. hsState' \in [seen : BOOLEAN, postSent : BOOLEAN] /\ hsState'.seen = TRUE /\ hsState'.postSent = hsState.postSent
  BY <1>1, <1>2 DEF NoizeTypes
<1>5. prelude' \in Nat /\ JunkBudget'
  <2> DEFINE J == junkSent + epilogue
             b == IF hsState.postSent THEN AfterHS ELSE 0
             N == Noize!Prelude
  <2>1. N \in Nat /\ prelude \in Nat /\ junkSent \in Nat /\ epilogue \in Nat /\ b \in Nat
    BY <1>2, PreludeFits, ObfuscationAssumption DEF NoizeTypes
  <2>2. junkSent + prelude + epilogue <= (IF hsState.seen THEN N ELSE 0) + b /\ (~hsState.postSent => epilogue = 0)
    BY DEF NoizeInv, JunkBudget
  <2>3. prelude' = IF hsState.seen THEN prelude ELSE prelude + N
    BY <1>1
  <2>4. prelude' \in Nat /\ junkSent + prelude' + epilogue <= N + b
    <3> HIDE DEF N, b
    <3>1. CASE hsState.seen
      BY <3>1, <2>1, <2>2, <2>3
    <3>2. CASE ~hsState.seen
      BY <3>2, <2>1, <2>2, <2>3
    <3> QED BY <3>1, <3>2
  <2> QED BY <1>1, <1>4, <2>2, <2>4 DEF JunkBudget
<1>6. Noize!PaddingKeepsToLimit'
  BY <1>1 DEF NoizeInv, Noize!PaddingKeepsToLimit
<1>7. CASE ~cut
  <2> DEFINE new == [q EXCEPT !.at = IF q.kind = "rtt" THEN "post" ELSE "pad"]
  <2>1. quicWriter' = [quicWriter EXCEPT ![w] = new] /\ cutting' = cutting
    BY <1>2, <1>7 DEF Noize!FirstPacket, Noize!AfterFirst, NoizeTypes
  <2>2. new \in WriterTypes /\ new.at \in {"post", "pad"}
    BY <1>3 DEF WriterTypes
  <2> HIDE DEF new
  <2>3. FragmentInv' /\ quicWriter' \in [Writers -> WriterTypes]
    BY <1>1, <1>2, <2>1, <2>2, WriterGoesOn
  <2>4. NoizeTypes'
    BY <1>1, <1>2, <1>4, <1>5, <2>1, <2>3 DEF NoizeTypes
  <2>5. OutFits'
    <3>1. quicWriter'[w] = new /\ \A v \in Writers : v # w => quicWriter'[v] = quicWriter[v]
      BY <1>2, <2>1 DEF NoizeTypes
    <3> QED BY <2>2, <3>1 DEF NoizeInv, OutFits
  <2> QED BY <1>5, <1>6, <2>3, <2>4, <2>5 DEF NoizeInv
<1>8. CASE cut
  <2> DEFINE new == [q EXCEPT !.at = "send", !.out = F]
             n == buffer[w]
             c == [writer |-> w, packet |-> n, len |-> q.len, offset |-> F]
  <2>1. quicWriter' = [quicWriter EXCEPT ![w] = new] /\ cutting' = cutting \cup {c}
    BY <1>2, <1>8 DEF Noize!FirstPacket, Noize!fragmentInitialPacket, NoizeTypes
  <2>2. new \in WriterTypes /\ new.at = "send" /\ new.out = F /\ new.len = q.len
    BY <1>2, <1>3 DEF WriterTypes
  <2>3. n \in 1 .. writes /\ n # 0
    <3>1. n \in 0 .. writes /\ writes \in Nat
      BY <1>2, ObfuscationAssumption DEF NoizeTypes
    <3>2. n # 0
      BY <1>1, <1>2 DEF FragmentInv, BuffersApart
    <3> HIDE DEF n
    <3> QED BY <3>1, <3>2
  <2>4. /\ c.writer = w /\ c.packet = n /\ c.len = q.len /\ c.offset = F
        /\ c \in [writer : Writers, packet : 1 .. writes, len : Nat, offset : Nat]
    BY <1>2, <1>3, <2>3
  <2>5. NotCut(cutting, n) /\ \A p \in pieces : p.packet # n
    BY <1>1, <1>2 DEF FragmentInv, WritersFit
  <2>6. 0 < F /\ F < q.len
    BY <1>2, <1>3, <1>8
  <2> HIDE DEF new, c
  <2>7. quicWriter'[w] = new /\ \A v \in Writers : v # w => quicWriter'[v] = quicWriter[v]
    BY <1>2, <2>1 DEF NoizeTypes
  <2>8. NoizeTypes'
    <3>1. quicWriter' \in [Writers -> WriterTypes]
      BY <1>2, <2>1, <2>2 DEF NoizeTypes
    <3>2. cutting' \subseteq [writer : Writers, packet : 1 .. writes', len : Nat, offset : Nat]
      BY <1>1, <1>2, <2>1, <2>4 DEF NoizeTypes
    <3> QED BY <1>1, <1>2, <1>4, <1>5, <3>1, <3>2 DEF NoizeTypes
  <2>9. OutFits'
    BY <2>2, <2>6, <2>7 DEF NoizeInv, OutFits
  <2>10. BuffersApart'
    BY <1>1, <1>2, <2>2, <2>3, <2>7 DEF FragmentInv, BuffersApart
  <2>11. PiecesFit'
    BY <1>1, <1>2 DEF FragmentInv, PiecesFit, Noize!Reused
  <2>12. CuttersFit'
    <3>1. \A v \in Writers : buffer[v] = n => v = w
      BY <1>2, <2>3 DEF FragmentInv, BuffersApart
    <3>2. Covered(pieces, n, F)
      BY <1>2 DEF Covered
    <3>3. \A d \in cutting : d.packet # n
      BY <2>5 DEF NotCut
    <3> SUFFICES ASSUME NEW d \in cutting'
                 PROVE  /\ 0 < F /\ F <= d.offset /\ d.offset < d.len
                        /\ \A v \in Writers : buffer[v] = d.packet => v = d.writer
                        /\ \A e \in cutting' : e.packet = d.packet => e = d
                        /\ \A p \in pieces : p.packet = d.packet => p.len = d.len /\ p.to <= d.offset
                        /\ Covered(pieces, d.packet, d.offset)
      BY <1>1 DEF CuttersFit
    <3>4. CASE d \in cutting
      BY <3>3, <3>4, <1>2, <2>1, <2>4 DEF FragmentInv, CuttersFit
    <3>5. CASE d = c
      BY <3>1, <3>2, <3>3, <3>5, <1>2, <2>1, <2>4, <2>5, <2>6
    <3> QED BY <3>4, <3>5, <2>1
  <2>13. DoneIsCovered'
    <3>1. \A p \in pieces : NotCut(cutting', p.packet) => NotCut(cutting, p.packet)
      BY <2>1 DEF NotCut
    <3> QED BY <3>1, <1>1, <1>2 DEF FragmentInv, DoneIsCovered
  <2>14. WritersFit'
    <3> SUFFICES ASSUME NEW v \in Writers
                 PROVE  /\ quicWriter'[v].at = "send" /\ quicWriter'[v].out < quicWriter'[v].len =>
                              /\ 0 < F
                              /\ \A p \in pieces : p.packet = buffer[v] => p.len = quicWriter'[v].len
                              /\ \A d \in cutting' : d.packet = buffer[v] => d.len = quicWriter'[v].len
                              /\ NotCut(cutting', buffer[v]) => Covered(pieces, buffer[v], quicWriter'[v].len)
                        /\ quicWriter'[v].at = "obfuscate" =>
                              NotCut(cutting', buffer[v]) /\ \A p \in pieces : p.packet # buffer[v]
      BY <1>1 DEF WritersFit
    <3>1. CASE v = w
      <4>1. ~NotCut(cutting', n)
        BY <2>1, <2>4 DEF NotCut
      <4>2. \A d \in cutting' : d.packet = n => d.len = q.len
        BY <2>1, <2>4, <2>5 DEF NotCut
      <4> QED BY <3>1, <4>1, <4>2, <2>2, <2>5, <2>6, <2>7
    <3>2. CASE v # w
      <4>1. buffer[v] # n
        BY <3>2, <1>2, <2>3 DEF FragmentInv, BuffersApart
      <4>2. NotCut(cutting', buffer[v]) <=> NotCut(cutting, buffer[v])
        BY <4>1, <2>1, <2>4 DEF NotCut
      <4>3. \A d \in cutting' : d.packet = buffer[v] => d \in cutting
        BY <4>1, <2>1, <2>4
      <4> QED BY <3>2, <4>2, <4>3, <1>2, <2>7 DEF FragmentInv, WritersFit
    <3> QED BY <3>1, <3>2
  <2> QED BY <1>5, <1>6, <2>8, <2>9, <2>10, <2>11, <2>12, <2>13, <2>14 DEF NoizeInv, FragmentInv
<1> QED BY <1>7, <1>8

\* The junk after the handshake is started once.
LEMMA NoizePost ==
    ASSUME NoizeInv, NEW w \in Writers, Noize!PostHandshake(w)
    PROVE  NoizeInv'
<1> DEFINE q == quicWriter[w]
           new == [q EXCEPT !.at = "pad"]
<1>1. NoizeTypes /\ FragmentInv
  BY DEF NoizeInv
<1>2. /\ q.at = "post" /\ epilogue' = (IF hsState.postSent THEN epilogue ELSE AfterHS)
      /\ hsState' = [hsState EXCEPT !.postSent = TRUE] /\ quicWriter' = [quicWriter EXCEPT ![w] = new]
      /\ UNCHANGED <<enabled, buffer, writes, prelude, cutting, junkSent, pieces, datagrams>>
  BY <1>1 DEF Noize!PostHandshake, NoizeTypes
<1>3. new \in WriterTypes /\ new.at = "pad"
  <2>1. q \in WriterTypes
    BY <1>1 DEF NoizeTypes
  <2> QED BY <2>1 DEF WriterTypes
<1> HIDE DEF new
<1>4. FragmentInv' /\ quicWriter' \in [Writers -> WriterTypes]
  BY <1>1, <1>2, <1>3, WriterGoesOn
<1>5. hsState' \in [seen : BOOLEAN, postSent : BOOLEAN] /\ hsState'.postSent = TRUE /\ hsState'.seen = hsState.seen
  BY <1>1, <1>2 DEF NoizeTypes
<1>6. epilogue' \in Nat /\ JunkBudget'
  <2> DEFINE a == IF hsState.seen THEN Noize!Prelude ELSE 0
  <2>1. a \in Nat /\ prelude \in Nat /\ junkSent \in Nat /\ epilogue \in Nat /\ AfterHS \in Nat
    BY <1>1, PreludeFits, ObfuscationAssumption DEF NoizeTypes
  <2>2. junkSent + prelude + epilogue <= a + (IF hsState.postSent THEN AfterHS ELSE 0) /\ (~hsState.postSent => epilogue = 0)
    BY DEF NoizeInv, JunkBudget
  <2>3. epilogue' \in Nat /\ junkSent + prelude + epilogue' <= a + AfterHS
    <3> HIDE DEF a
    <3> QED BY <1>2, <2>1, <2>2
  <2> QED BY <1>2, <1>5, <2>3 DEF JunkBudget
<1>7. NoizeTypes'
  BY <1>1, <1>2, <1>4, <1>5, <1>6 DEF NoizeTypes
<1>8. OutFits' /\ Noize!PaddingKeepsToLimit'
  <2>1. quicWriter'[w] = new /\ \A v \in Writers : v # w => quicWriter'[v] = quicWriter[v]
    BY <1>1, <1>2 DEF NoizeTypes
  <2>2. OutFits'
    BY <1>3, <2>1 DEF NoizeInv, OutFits
  <2>3. Noize!PaddingKeepsToLimit'
    BY <1>2 DEF NoizeInv, Noize!PaddingKeepsToLimit
  <2> QED BY <2>2, <2>3
<1> QED BY <1>4, <1>6, <1>7, <1>8 DEF NoizeInv

\* addPadding: the limit is kept to, and nothing gets shorter.
LEMMA PaddingFits ==
    ASSUME NEW len \in Nat, NEW n \in Noize!addPadding(len)
    PROVE  n \in Nat /\ n >= len /\ (n > Mtu => len > Mtu)
<1>1. CASE PaddingMax = 0 \/ len < SmallPacket
  BY <1>1 DEF Noize!addPadding
<1>2. CASE ~(PaddingMax = 0 \/ len < SmallPacket)
  <2>1. PICK p \in PaddingMin .. PaddingMax : n = IF len + p <= Mtu THEN len + p ELSE IF len < Mtu THEN Mtu ELSE len
    BY <1>2 DEF Noize!addPadding
  <2>2. p \in Nat /\ Mtu \in Nat
    BY ObfuscationAssumption
  <2> QED BY <2>1, <2>2
<1> QED BY <1>1, <1>2

\* The padding and the header.
LEMMA NoizePad ==
    ASSUME NoizeInv, NEW w \in Writers, Noize!Pad(w)
    PROVE  NoizeInv'
<1> DEFINE q == quicWriter[w]
<1>1. NoizeTypes /\ FragmentInv
  BY DEF NoizeInv
<1>2. q \in WriterTypes /\ q.len \in Nat
  BY <1>1 DEF NoizeTypes, WriterTypes
<1>3. PICK n \in Noize!addPadding(q.len) : quicWriter' = [quicWriter EXCEPT ![w] = [q EXCEPT !.at = "send", !.out = n + Header]]
  BY <1>1 DEF Noize!Pad, NoizeTypes
<1> DEFINE new == [q EXCEPT !.at = "send", !.out = n + Header]
<1>4. q.at = "pad" /\ UNCHANGED <<enabled, hsState, buffer, writes, prelude, epilogue, cutting, junkSent, pieces, datagrams>>
  BY DEF Noize!Pad
<1>5. n \in Nat /\ n >= q.len /\ (n > Mtu => q.len > Mtu) /\ Header \in Nat /\ Mtu \in Nat
  BY <1>2, PaddingFits, ObfuscationAssumption
<1>6. new \in WriterTypes /\ new.at = "send" /\ new.out = n + Header /\ new.len = q.len
  <2> DEFINE m == n + Header
  <2>1. m \in Nat
    BY <1>5
  <2> HIDE DEF m
  <2>2. new = [q EXCEPT !.at = "send", !.out = m]
    BY DEF m
  <2> HIDE DEF new
  <2>3. new \in WriterTypes /\ new.at = "send" /\ new.out = m /\ new.len = q.len
    BY <1>2, <2>1, <2>2 DEF WriterTypes
  <2> QED BY <2>3 DEF m
<1>7. ~(new.out < new.len) /\ new.out >= new.len /\ (new.out > Mtu + Header => new.len > Mtu)
  <2> HIDE DEF new
  <2> QED BY <1>2, <1>5, <1>6
<1> HIDE DEF new
<1>8. quicWriter' = [quicWriter EXCEPT ![w] = new]
  BY <1>3 DEF new
<1>9. FragmentInv' /\ quicWriter' \in [Writers -> WriterTypes]
  BY <1>1, <1>4, <1>6, <1>7, <1>8, WriterGoesOn
<1>10. NoizeTypes'
  BY <1>1, <1>4, <1>9 DEF NoizeTypes
<1>11. JunkBudget'
  BY <1>4 DEF NoizeInv, JunkBudget
<1>12. OutFits'
  <2>1. quicWriter'[w] = new /\ \A v \in Writers : v # w => quicWriter'[v] = quicWriter[v]
    BY <1>1, <1>8 DEF NoizeTypes
  <2> QED BY <1>7, <2>1 DEF NoizeInv, OutFits
<1>13. Noize!PaddingKeepsToLimit'
  BY <1>4 DEF NoizeInv, Noize!PaddingKeepsToLimit
<1> QED BY <1>9, <1>10, <1>11, <1>12, <1>13 DEF NoizeInv

\* The write to the real socket: a first fragment, or the whole packet.
LEMMA NoizeSend ==
    ASSUME NoizeInv, NEW w \in Writers, Noize!Send(w)
    PROVE  NoizeInv'
<1> DEFINE F == FragmentSize
           q == quicWriter[w]
           n == buffer[w]
           x == [packet |-> n, len |-> q.len, from |-> 0, to |-> q.out, torn |-> FALSE]
           d == [len |-> q.len, out |-> q.out]
<1>1. NoizeTypes /\ FragmentInv /\ F \in Nat
  BY ObfuscationAssumption DEF NoizeInv
<1>2. q \in WriterTypes /\ q.len \in Nat /\ q.out \in Nat
  BY <1>1 DEF NoizeTypes, WriterTypes
<1>3. /\ q.at = "send" /\ quicWriter' = [quicWriter EXCEPT ![w] = Noize!Idle]
      /\ IF q.out < q.len THEN pieces' = pieces \cup {x} /\ datagrams' = datagrams
                          ELSE datagrams' = datagrams \cup {d} /\ pieces' = pieces
      /\ UNCHANGED <<enabled, hsState, buffer, writes, prelude, epilogue, cutting, junkSent>>
  BY DEF Noize!Send
<1>4. Noize!Idle \in WriterTypes /\ Noize!Idle.at = "idle"
  BY DEF Noize!Idle, WriterTypes
<1>5. quicWriter'[w].at = "idle" /\ \A v \in Writers : v # w => quicWriter'[v] = quicWriter[v]
  BY <1>1, <1>3, <1>4 DEF NoizeTypes
<1>6. quicWriter' \in [Writers -> WriterTypes]
  BY <1>1, <1>3, <1>4 DEF NoizeTypes
<1>7. JunkBudget'
  BY <1>3 DEF NoizeInv, JunkBudget
<1>8. OutFits'
  BY <1>5 DEF NoizeInv, OutFits
<1>9. BuffersApart'
  BY <1>1, <1>3, <1>5 DEF FragmentInv, BuffersApart
<1>10. n # 0 /\ n \in 1 .. writes
  <2>1. n \in 0 .. writes /\ writes \in Nat
    BY <1>1, ObfuscationAssumption DEF NoizeTypes
  <2>2. n # 0
    BY <1>1, <1>3 DEF FragmentInv, BuffersApart
  <2> HIDE DEF n
  <2> QED BY <2>1, <2>2
<1>11. CASE ~(q.out < q.len)
  <2>1. datagrams' = datagrams \cup {d} /\ pieces' = pieces
    BY <1>3, <1>11
  <2>2. d.len = q.len /\ d.out = q.out /\ d \in [len : Nat, out : Nat]
    BY <1>2
  <2> HIDE DEF d
  <2>3. Noize!PaddingKeepsToLimit'
    <3>1. q.out > Mtu + Header => q.len > Mtu
      BY <1>2, <1>3, <1>11 DEF NoizeInv, OutFits
    <3> QED BY <2>1, <2>2, <3>1 DEF NoizeInv, Noize!PaddingKeepsToLimit
  <2>4. NoizeTypes'
    BY <1>1, <1>3, <1>6, <2>1, <2>2 DEF NoizeTypes
  <2>5. PiecesFit'
    BY <1>1, <1>3, <2>1 DEF FragmentInv, PiecesFit, Noize!Reused
  <2>6. CuttersFit' /\ DoneIsCovered'
    BY <1>1, <1>3, <2>1 DEF FragmentInv, CuttersFit, DoneIsCovered
  <2>7. WritersFit'
    BY <1>1, <1>3, <1>5, <2>1 DEF FragmentInv, WritersFit
  <2> QED BY <1>7, <1>8, <1>9, <2>3, <2>4, <2>5, <2>6, <2>7 DEF NoizeInv, FragmentInv
<1>12. CASE q.out < q.len
  <2>1. pieces' = pieces \cup {x} /\ datagrams' = datagrams
    BY <1>3, <1>12
  <2>2. q.out = F
    BY <1>2, <1>3, <1>12 DEF NoizeInv, OutFits
  <2>3. /\ x.packet = n /\ x.len = q.len /\ x.from = 0 /\ x.to = F /\ x.torn = FALSE
        /\ x \in [packet : 1 .. writes, len : Nat, from : Nat, to : Nat, torn : BOOLEAN]
    BY <1>2, <1>10, <2>2
  <2>4. \A p \in pieces : p.packet = n /\ p.from = 0 => p.len = q.len
    BY <1>1, <1>3, <1>12 DEF FragmentInv, WritersFit
  <2>5. \A p \in pieces : p.packet = n /\ p.from = 0 /\ p.to = F /\ p.torn = FALSE => p = x
    <3> SUFFICES ASSUME NEW p \in pieces, p.packet = n, p.from = 0, p.to = F, p.torn = FALSE PROVE p = x
      OBVIOUS
    <3>1. p \in [packet : 1 .. writes, len : Nat, from : Nat, to : Nat, torn : BOOLEAN]
      BY <1>1 DEF NoizeTypes
    <3>2. p = [packet |-> p.packet, len |-> p.len, from |-> p.from, to |-> p.to, torn |-> p.torn]
      BY <3>1
    <3> QED BY <2>2, <2>4, <3>2
  <2> HIDE DEF x
  <2>6. /\ 0 < F
        /\ \A p \in pieces : p.packet = n => p.len = q.len
        /\ \A c \in cutting : c.packet = n => c.len = q.len
        /\ NotCut(cutting, n) => Covered(pieces, n, q.len)
    BY <1>1, <1>3, <1>12 DEF FragmentInv, WritersFit
  <2>7. Noize!PaddingKeepsToLimit'
    BY <2>1 DEF NoizeInv, Noize!PaddingKeepsToLimit
  <2>8. NoizeTypes'
    <3>1. pieces' \subseteq [packet : 1 .. writes', len : Nat, from : Nat, to : Nat, torn : BOOLEAN]
      BY <1>1, <1>3, <2>1, <2>3 DEF NoizeTypes
    <3> QED BY <1>1, <1>3, <1>6, <2>1, <3>1 DEF NoizeTypes
  <2>9. PiecesFit'
    <3>1. \A p \in pieces' :
             /\ F > 0
             /\ \/ p.from = 0 /\ p.to = F /\ p.torn = FALSE
                \/ p.from >= F
             /\ p.torn => Noize!Reused(p.packet)'
      <4>1. \A m : Noize!Reused(m)' <=> Noize!Reused(m)
        BY <1>3 DEF Noize!Reused
      <4>2. x.torn => Noize!Reused(x.packet)'
        BY <2>3
      <4> QED BY <1>1, <2>1, <2>3, <2>6, <4>1, <4>2 DEF FragmentInv, PiecesFit
    <3>2. ASSUME NEW p \in pieces, p.packet = n
          PROVE  p.len = x.len /\ (p = x \/ x.to <= p.from)
      BY <3>2, <1>1, <2>3, <2>5, <2>6 DEF FragmentInv, PiecesFit
    <3>3. \A p, r \in pieces' : p.packet = r.packet => p.len = r.len /\ (p = r \/ p.to <= r.from \/ r.to <= p.from)
      BY <1>1, <2>1, <2>3, <3>2 DEF FragmentInv, PiecesFit
    <3> QED BY <3>1, <3>3 DEF PiecesFit
  <2>10. CuttersFit'
    <3> SUFFICES ASSUME NEW c \in cutting
                 PROVE  /\ 0 < F /\ F <= c.offset /\ c.offset < c.len
                        /\ \A v \in Writers : buffer[v] = c.packet => v = c.writer
                        /\ \A e \in cutting : e.packet = c.packet => e = c
                        /\ \A p \in pieces' : p.packet = c.packet => p.len = c.len /\ p.to <= c.offset
                        /\ Covered(pieces', c.packet, c.offset)
      BY <1>3 DEF CuttersFit
    <3>1. Covered(pieces', c.packet, c.offset)
      <4>1. Covered(pieces, c.packet, c.offset) /\ pieces \subseteq pieces'
        BY <1>1, <2>1 DEF FragmentInv, CuttersFit
      <4> QED BY <4>1, CoveredStays
    <3>2. F <= c.offset
      BY <1>1 DEF FragmentInv, CuttersFit
    <3>3. \A p \in pieces' : p.packet = c.packet => p.len = c.len /\ p.to <= c.offset
      BY <1>1, <2>1, <2>3, <2>6, <3>2 DEF FragmentInv, CuttersFit
    <3> QED BY <1>1, <3>1, <3>3 DEF FragmentInv, CuttersFit
  <2>11. DoneIsCovered'
    <3> SUFFICES ASSUME NEW p \in pieces', NotCut(cutting, p.packet) PROVE Covered(pieces', p.packet, p.len)
      BY <1>3 DEF DoneIsCovered
    <3>1. Covered(pieces, p.packet, p.len)
      BY <1>1, <2>1, <2>3, <2>6 DEF FragmentInv, DoneIsCovered
    <3> QED BY <3>1, <2>1, CoveredStays
  <2>12. WritersFit'
    <3> SUFFICES ASSUME NEW v \in Writers
                 PROVE  /\ quicWriter'[v].at = "send" /\ quicWriter'[v].out < quicWriter'[v].len =>
                              /\ 0 < F
                              /\ \A p \in pieces' : p.packet = buffer[v] => p.len = quicWriter'[v].len
                              /\ \A c \in cutting : c.packet = buffer[v] => c.len = quicWriter'[v].len
                              /\ NotCut(cutting, buffer[v]) => Covered(pieces', buffer[v], quicWriter'[v].len)
                        /\ quicWriter'[v].at = "obfuscate" =>
                              NotCut(cutting, buffer[v]) /\ \A p \in pieces' : p.packet # buffer[v]
      BY <1>3 DEF WritersFit
    <3>1. CASE v = w
      BY <3>1, <1>5
    <3>2. CASE v # w
      <4>1. buffer[v] # n
        BY <3>2, <1>1, <1>10 DEF FragmentInv, BuffersApart
      <4>2. \A p \in pieces' : p.packet = buffer[v] => p \in pieces
        BY <4>1, <2>1, <2>3
      <4>3. Covered(pieces, buffer[v], quicWriter[v].len) => Covered(pieces', buffer[v], quicWriter[v].len)
        BY <2>1, CoveredStays
      <4> QED BY <3>2, <4>2, <4>3, <1>1, <1>5 DEF FragmentInv, WritersFit
    <3> QED BY <3>1, <3>2
  <2> QED BY <1>7, <1>8, <1>9, <2>7, <2>8, <2>9, <2>10, <2>11, <2>12 DEF NoizeInv, FragmentInv
<1> QED BY <1>11, <1>12

\* The goroutine of an Initial sends a fragment, the next one or the last.
LEMMA NoizeFragment ==
    ASSUME NoizeInv, NEW c \in cutting, Noize!SendFragment(c)
    PROVE  NoizeInv'
<1> DEFINE F == FragmentSize
           n == c.packet
           u == Noize!Until(c)
           torn == buffer[c.writer] # n
           x == [packet |-> n, len |-> c.len, from |-> c.offset, to |-> u, torn |-> torn]
           next == [c EXCEPT !.offset = c.offset + F]
<1>1. NoizeTypes /\ FragmentInv /\ F \in Nat
  BY ObfuscationAssumption DEF NoizeInv
<1>2. /\ c \in [writer : Writers, packet : 1 .. writes, len : Nat, offset : Nat]
      /\ c.writer \in Writers /\ n \in 1 .. writes /\ c.len \in Nat /\ c.offset \in Nat
  BY <1>1 DEF NoizeTypes
<1>3. /\ 0 < F /\ F <= c.offset /\ c.offset < c.len
      /\ \A w \in Writers : buffer[w] = n => w = c.writer
      /\ \A e \in cutting : e.packet = n => e = c
      /\ \A p \in pieces : p.packet = n => p.len = c.len /\ p.to <= c.offset
      /\ Covered(pieces, n, c.offset)
  BY <1>1 DEF FragmentInv, CuttersFit
<1>4. /\ cutting' = (cutting \ {c}) \cup (IF next.offset < c.len THEN {next} ELSE {})
      /\ pieces' = pieces \cup {x}
      /\ UNCHANGED <<enabled, hsState, quicWriter, buffer, writes, prelude, epilogue, junkSent, datagrams>>
  BY DEF Noize!SendFragment
<1>5. /\ next.writer = c.writer /\ next.packet = n /\ next.len = c.len /\ next.offset = c.offset + F
      /\ next \in [writer : Writers, packet : 1 .. writes, len : Nat, offset : Nat]
  <2> DEFINE m == c.offset + F
  <2>1. m \in Nat
    BY <1>1, <1>2
  <2>2. next = [c EXCEPT !.offset = m]
    OBVIOUS
  <2> HIDE DEF m, next
  <2>3. /\ next.writer = c.writer /\ next.packet = n /\ next.len = c.len /\ next.offset = m
        /\ next \in [writer : Writers, packet : 1 .. writes, len : Nat, offset : Nat]
    BY <1>2, <2>1, <2>2
  <2> QED BY <2>3 DEF m
<1>6. u \in Nat /\ u = (IF c.offset + F > c.len THEN c.len ELSE c.offset + F)
  BY <1>1, <1>2 DEF Noize!Until
<1>7. /\ x.packet = n /\ x.len = c.len /\ x.from = c.offset /\ x.to = u /\ x.torn = torn
      /\ x \in [packet : 1 .. writes, len : Nat, from : Nat, to : Nat, torn : BOOLEAN]
  <2> DEFINE t == torn
  <2>1. t \in BOOLEAN
    BY Zenon
  <2> HIDE DEF u, torn
  <2> QED BY <1>2, <1>6, <2>1
<1> HIDE DEF x, next, u
<1>8. \A e \in cutting' : (e \in cutting /\ e.packet # n) \/ (e = next /\ next.offset < c.len)
  BY <1>3, <1>4
<1>9. \A e \in cutting : e # c => e \in cutting'
  BY <1>4
<1>10. \A m : m # n => (NotCut(cutting', m) <=> NotCut(cutting, m))
  BY <1>5, <1>8, <1>9 DEF NotCut
<1>11. NotCut(cutting', n) => u = c.len
  <2>1. NotCut(cutting', n) => ~(next.offset < c.len)
    BY <1>4, <1>5 DEF NotCut
  <2> QED BY <1>1, <1>2, <1>5, <1>6, <2>1
<1>12. Covered(pieces', n, u)
  <2> SUFFICES ASSUME NEW b \in Nat, F <= b, b < u PROVE \E p \in pieces' : p.packet = n /\ p.from <= b /\ b < p.to
    BY DEF Covered
  <2>1. CASE b < c.offset
    BY <2>1, <1>3, <1>4 DEF Covered
  <2>2. CASE c.offset <= b
    BY <2>2, <1>4, <1>7
  <2> QED BY <2>1, <2>2, <1>2
<1>13. ASSUME NEW m, NEW k, Covered(pieces, m, k) PROVE Covered(pieces', m, k)
  BY <1>13, <1>4, CoveredStays
<1>14. NoizeTypes'
  <2>1. cutting' \subseteq [writer : Writers, packet : 1 .. writes', len : Nat, offset : Nat]
    BY <1>1, <1>4, <1>5, <1>8 DEF NoizeTypes
  <2>2. pieces' \subseteq [packet : 1 .. writes', len : Nat, from : Nat, to : Nat, torn : BOOLEAN]
    BY <1>1, <1>4, <1>7 DEF NoizeTypes
  <2> QED BY <1>1, <1>4, <2>1, <2>2 DEF NoizeTypes
<1>15. JunkBudget' /\ OutFits' /\ Noize!PaddingKeepsToLimit'
  BY <1>4 DEF NoizeInv, JunkBudget, OutFits, Noize!PaddingKeepsToLimit
<1>16. BuffersApart'
  BY <1>1, <1>4 DEF FragmentInv, BuffersApart
<1>17. PiecesFit'
  <2>1. \A m : Noize!Reused(m)' <=> Noize!Reused(m)
    BY <1>4 DEF Noize!Reused
  <2>2. x.torn => Noize!Reused(n)
    BY <1>3, <1>7 DEF Noize!Reused
  <2>3. \A p \in pieces' :
           /\ F > 0
           /\ \/ p.from = 0 /\ p.to = F /\ p.torn = FALSE
              \/ p.from >= F
           /\ p.torn => Noize!Reused(p.packet)'
    <3> SUFFICES ASSUME NEW p \in pieces'
                 PROVE  /\ F > 0
                        /\ \/ p.from = 0 /\ p.to = F /\ p.torn = FALSE
                           \/ p.from >= F
                        /\ p.torn => Noize!Reused(p.packet)'
      OBVIOUS
    <3>1. CASE p \in pieces
      BY <3>1, <1>1, <2>1 DEF FragmentInv, PiecesFit
    <3>2. CASE p = x
      BY <3>2, <1>1, <1>2, <1>3, <1>7, <2>1, <2>2
    <3> QED BY <3>1, <3>2, <1>4
  <2>4. \A p \in pieces : p.packet = n => p.len = x.len /\ p.to <= x.from
    BY <1>3, <1>7
  <2>5. \A p, r \in pieces' : p.packet = r.packet => p.len = r.len /\ (p = r \/ p.to <= r.from \/ r.to <= p.from)
    BY <1>1, <1>4, <1>7, <2>4 DEF FragmentInv, PiecesFit
  <2> QED BY <2>3, <2>5 DEF PiecesFit
<1>18. CuttersFit'
  <2> SUFFICES ASSUME NEW e \in cutting'
               PROVE  /\ 0 < F /\ F <= e.offset /\ e.offset < e.len
                      /\ \A v \in Writers : buffer[v] = e.packet => v = e.writer
                      /\ \A d \in cutting' : d.packet = e.packet => d = e
                      /\ \A p \in pieces' : p.packet = e.packet => p.len = e.len /\ p.to <= e.offset
                      /\ Covered(pieces', e.packet, e.offset)
    BY <1>4 DEF CuttersFit
  <2>1. CASE e \in cutting /\ e.packet # n
    <3>1. Covered(pieces', e.packet, e.offset)
      <4>1. Covered(pieces, e.packet, e.offset)
        BY <2>1, <1>1 DEF FragmentInv, CuttersFit
      <4> QED BY <4>1, <1>13
    <3>2. \A p \in pieces' : p.packet = e.packet => p \in pieces
      BY <2>1, <1>4, <1>7
    <3>3. \A d \in cutting' : d.packet = e.packet => d \in cutting
      BY <2>1, <1>5, <1>8
    <3> QED BY <2>1, <3>1, <3>2, <3>3, <1>1 DEF FragmentInv, CuttersFit
  <2>2. CASE e = next /\ next.offset < c.len
    <3>1. e.offset = u /\ u = c.offset + F
      BY <2>2, <1>1, <1>2, <1>5, <1>6
    <3>2. F <= e.offset
      BY <1>1, <1>2, <3>1
    <3>3. \A d \in cutting' : d.packet = n => d = e
      BY <2>2, <1>8
    <3>4. \A p \in pieces : p.packet = n => p.to <= u
      <4>1. \A p \in pieces : p.to \in Nat
        BY <1>1 DEF NoizeTypes
      <4> QED BY <4>1, <1>1, <1>2, <1>3, <1>6, <3>1
    <3>5. \A p \in pieces' : p.packet = n => p.len = c.len /\ p.to <= u
      BY <1>3, <1>4, <1>6, <1>7, <3>4
    <3>6. Covered(pieces', e.packet, e.offset)
      BY <2>2, <1>5, <1>12, <3>1
    <3> QED BY <2>2, <1>3, <1>5, <3>1, <3>2, <3>3, <3>5, <3>6
  <2> QED BY <2>1, <2>2, <1>8
<1>19. DoneIsCovered'
  <2> SUFFICES ASSUME NEW p \in pieces', NotCut(cutting', p.packet) PROVE Covered(pieces', p.packet, p.len)
    BY DEF DoneIsCovered
  <2>1. CASE p.packet = n
    <3>1. p.len = c.len
      BY <2>1, <1>3, <1>4, <1>7
    <3> QED BY <2>1, <3>1, <1>11, <1>12
  <2>2. CASE p.packet # n
    <3>1. p \in pieces /\ NotCut(cutting, p.packet)
      BY <2>2, <1>4, <1>7, <1>10
    <3>2. Covered(pieces, p.packet, p.len)
      BY <3>1, <1>1 DEF FragmentInv, DoneIsCovered
    <3> QED BY <3>2, <1>13
  <2> QED BY <2>1, <2>2
<1>20. WritersFit'
  <2> SUFFICES ASSUME NEW v \in Writers
               PROVE  /\ quicWriter[v].at = "send" /\ quicWriter[v].out < quicWriter[v].len =>
                            /\ 0 < F
                            /\ \A p \in pieces' : p.packet = buffer[v] => p.len = quicWriter[v].len
                            /\ \A d \in cutting' : d.packet = buffer[v] => d.len = quicWriter[v].len
                            /\ NotCut(cutting', buffer[v]) => Covered(pieces', buffer[v], quicWriter[v].len)
                      /\ quicWriter[v].at = "obfuscate" =>
                            NotCut(cutting', buffer[v]) /\ \A p \in pieces' : p.packet # buffer[v]
    BY <1>4 DEF WritersFit
  <2>0. /\ quicWriter[v].at = "send" /\ quicWriter[v].out < quicWriter[v].len =>
              /\ \A p \in pieces : p.packet = buffer[v] => p.len = quicWriter[v].len
              /\ \A d \in cutting : d.packet = buffer[v] => d.len = quicWriter[v].len
              /\ NotCut(cutting, buffer[v]) => Covered(pieces, buffer[v], quicWriter[v].len)
        /\ quicWriter[v].at = "obfuscate" =>
              NotCut(cutting, buffer[v]) /\ \A p \in pieces : p.packet # buffer[v]
    BY <1>1 DEF FragmentInv, WritersFit
  <2>1. CASE buffer[v] = n
    <3>1. quicWriter[v].at # "obfuscate"
      BY <2>0, <2>1 DEF NotCut
    <3>2. ASSUME quicWriter[v].at = "send", quicWriter[v].out < quicWriter[v].len
          PROVE  /\ \A p \in pieces' : p.packet = n => p.len = quicWriter[v].len
                 /\ \A d \in cutting' : d.packet = n => d.len = quicWriter[v].len
                 /\ NotCut(cutting', n) => Covered(pieces', n, quicWriter[v].len)
      <4>1. c.len = quicWriter[v].len
        BY <2>0, <2>1, <3>2
      <4>2. \A p \in pieces' : p.packet = n => p.len = c.len
        BY <1>3, <1>4, <1>7
      <4>3. \A d \in cutting' : d.packet = n => d.len = c.len
        BY <1>5, <1>8
      <4> QED BY <4>1, <4>2, <4>3, <1>11, <1>12
    <3> QED BY <2>1, <3>1, <3>2, <1>3
  <2>2. CASE buffer[v] # n
    <3>1. \A p \in pieces' : p.packet = buffer[v] => p \in pieces
      BY <2>2, <1>4, <1>7
    <3>2. \A d \in cutting' : d.packet = buffer[v] => d \in cutting
      BY <2>2, <1>5, <1>8
    <3>3. NotCut(cutting', buffer[v]) <=> NotCut(cutting, buffer[v])
      BY <2>2, <1>10
    <3>4. Covered(pieces, buffer[v], quicWriter[v].len) => Covered(pieces', buffer[v], quicWriter[v].len)
      BY <1>13
    <3> QED BY <2>0, <3>1, <3>2, <3>3, <3>4, <1>3
  <2> QED BY <2>1, <2>2
<1> QED BY <1>14, <1>15, <1>16, <1>17, <1>18, <1>19, <1>20 DEF NoizeInv, FragmentInv

\* A step that sends junk or turns the switch.
LEMMA JunkStep ==
    ASSUME NoizeInv, UNCHANGED <<hsState, quicWriter, buffer, writes, cutting, pieces, datagrams>>, enabled' \in BOOLEAN,
           prelude' \in Nat, epilogue' \in Nat, junkSent' \in Nat, ~hsState.postSent => epilogue' = 0,
           junkSent' + prelude' + epilogue' = junkSent + prelude + epilogue
    PROVE  NoizeInv'
<1>1. NoizeTypes'
  BY DEF NoizeInv, NoizeTypes
<1>2. JunkBudget'
  BY DEF NoizeInv, JunkBudget
<1>3. OutFits' /\ Noize!PaddingKeepsToLimit'
  BY DEF NoizeInv, OutFits, Noize!PaddingKeepsToLimit
<1>4. FragmentInv'
  BY FragmentsStay DEF NoizeInv
<1> QED BY <1>1, <1>2, <1>3, <1>4 DEF NoizeInv

\* Every step of the obfuscation keeps the invariant.
LEMMA NoizeStep == NoizeInv /\ Noize!Next => NoizeInv'
<1> SUFFICES ASSUME NoizeInv, Noize!Next PROVE NoizeInv'
  OBVIOUS
<1>0. prelude \in Nat /\ epilogue \in Nat /\ junkSent \in Nat /\ enabled \in BOOLEAN /\ (~hsState.postSent => epilogue = 0)
  BY DEF NoizeInv, NoizeTypes, JunkBudget
<1>1. ASSUME Noize!PreJunk PROVE NoizeInv'
  <2>1. /\ UNCHANGED <<hsState, quicWriter, buffer, writes, cutting, pieces, datagrams>> /\ enabled' = enabled
        /\ epilogue' = epilogue /\ prelude > 0 /\ prelude' = prelude - 1 /\ junkSent' = junkSent + 1
    BY <1>1 DEF Noize!PreJunk
  <2>2. prelude' \in Nat /\ junkSent' \in Nat /\ junkSent' + prelude' + epilogue' = junkSent + prelude + epilogue
    BY <1>0, <2>1
  <2>3. enabled' \in BOOLEAN
    BY <1>0, <2>1, Zenon
  <2> QED BY <1>0, <2>1, <2>2, <2>3, JunkStep
<1>2. ASSUME Noize!PostJunk PROVE NoizeInv'
  <2>1. /\ UNCHANGED <<hsState, quicWriter, buffer, writes, cutting, pieces, datagrams>> /\ enabled' = enabled
        /\ prelude' = prelude /\ epilogue > 0 /\ epilogue' = epilogue - 1 /\ junkSent' = junkSent + 1
    BY <1>2 DEF Noize!PostJunk
  <2>2. epilogue' \in Nat /\ junkSent' \in Nat /\ junkSent' + prelude' + epilogue' = junkSent + prelude + epilogue
    BY <1>0, <2>1
  <2>3. enabled' \in BOOLEAN
    BY <1>0, <2>1, Zenon
  <2>4. hsState.postSent
    BY <1>0, <2>1
  <2> QED BY <1>0, <2>1, <2>2, <2>3, <2>4, JunkStep
<1>3. ASSUME Noize!DisableObfuscation PROVE NoizeInv'
  <2>1. /\ UNCHANGED <<hsState, quicWriter, buffer, writes, cutting, pieces, datagrams>> /\ enabled' = FALSE
        /\ UNCHANGED <<prelude, epilogue, junkSent>>
    BY <1>3 DEF Noize!DisableObfuscation
  <2> QED BY <1>0, <2>1, JunkStep
<1>4. ASSUME Noize!NoizeSystem PROVE NoizeInv'
  BY <1>1, <1>2, <1>4, NoizeFirst, NoizePost, NoizePad, NoizeSend, NoizeFragment DEF Noize!NoizeSystem
<1> QED BY <1>3, <1>4, NoizeWrite DEF Noize!Next

\* The obfuscation stands still when the others move.
LEMMA NoizeStays == NoizeInv /\ UNCHANGED Noize!noizeVars => NoizeInv'
<1> SUFFICES ASSUME NoizeInv,
                    UNCHANGED <<enabled, hsState, quicWriter, buffer, writes, prelude, epilogue, cutting, junkSent,
                                pieces, datagrams>>
             PROVE  NoizeInv'
  BY DEF Noize!noizeVars
<1>1. NoizeTypes'
  BY DEF NoizeInv, NoizeTypes
<1>2. JunkBudget' /\ OutFits' /\ Noize!PaddingKeepsToLimit'
  BY DEF NoizeInv, JunkBudget, OutFits, Noize!PaddingKeepsToLimit
<1>3. FragmentInv'
  BY FragmentsStay DEF NoizeInv
<1> QED BY <1>1, <1>2, <1>3 DEF NoizeInv

\* What the invariant says of the obfuscation.
LEMMA NoizeMeans ==
    NoizeInv => Noize!TypeOK /\ Noize!JunkComesOnce /\ Noize!FragmentsMakeThePacket /\ Noize!PaddingKeepsToLimit
<1> SUFFICES ASSUME NoizeInv
             PROVE  Noize!TypeOK /\ Noize!JunkComesOnce /\ Noize!FragmentsMakeThePacket /\ Noize!PaddingKeepsToLimit
  OBVIOUS
<1>1. NoizeTypes /\ JunkBudget /\ FragmentInv /\ Noize!PaddingKeepsToLimit
  BY DEF NoizeInv
<1>2. Noize!TypeOK
  <2>1. \A w \in Writers : quicWriter[w].at \in {"idle", "obfuscate", "post", "pad", "send"}
    BY <1>1 DEF NoizeTypes, WriterTypes
  <2>2. \A w \in Writers : buffer[w] \in 0 .. writes
    BY <1>1 DEF NoizeTypes
  <2>3. \A c \in cutting : c.offset < c.len
    BY <1>1 DEF FragmentInv, CuttersFit
  <2> QED BY <1>1, <2>1, <2>2, <2>3 DEF Noize!TypeOK, NoizeTypes
<1>3. Noize!JunkComesOnce
  <2> DEFINE N == Noize!Prelude
             a == IF hsState.seen THEN N ELSE 0
             b == IF hsState.postSent THEN AfterHS ELSE 0
             J == junkSent + prelude + epilogue
  <2>1. N \in Nat /\ AfterHS \in Nat /\ J \in Nat /\ J <= a + b
    BY <1>1, PreludeFits, ObfuscationAssumption DEF JunkBudget, NoizeTypes
  <2>2. a \in Nat /\ a <= N /\ b \in Nat /\ b <= AfterHS
    <3> HIDE DEF N
    <3> QED BY <2>1
  <2>3. J <= N + AfterHS
    <3> HIDE DEF N, a, b, J
    <3> QED BY <2>1, <2>2
  <2> QED BY <2>3 DEF Noize!JunkComesOnce
<1>4. Noize!FragmentsMakeThePacket
  <2>0. \A X : Noize!Cardinality(X) = Cardinality(X)
    BY DEF Noize!Cardinality, Cardinality
  <2>1. ASSUME NEW x \in pieces
        PROVE  x.torn => Noize!Reused(x.packet)
    BY <1>1 DEF FragmentInv, PiecesFit
  <2>2. ASSUME NEW x \in pieces, \A c \in cutting : c.packet # x.packet,
               NEW f \in pieces, f.packet = x.packet, f.from = 0, NEW b \in 0 .. (x.len - 1)
        PROVE  Cardinality({p \in {r \in pieces : r.packet = x.packet} : p.from <= b /\ b < p.to}) = 1
    <3> DEFINE S == {p \in {r \in pieces : r.packet = x.packet} : p.from <= b /\ b < p.to}
    <3>1. /\ FragmentSize \in Nat /\ x.len \in Nat /\ b \in Nat /\ b < x.len
          /\ \A p \in pieces : p.from \in Nat /\ p.to \in Nat
      <4>1. x.len \in Nat /\ \A p \in pieces : p.from \in Nat /\ p.to \in Nat
        BY <1>1 DEF NoizeTypes
      <4> QED BY <4>1, ObfuscationAssumption
    <3>2. f.to = FragmentSize
      <4>1. FragmentSize > 0 /\ (f.to = FragmentSize \/ f.from >= FragmentSize)
        BY <1>1 DEF FragmentInv, PiecesFit
      <4> QED BY <2>2, <3>1, <4>1
    <3>3. Covered(pieces, x.packet, x.len)
      BY <2>2, <1>1 DEF FragmentInv, DoneIsCovered, NotCut
    <3>4. \E p \in pieces : p.packet = x.packet /\ p.from <= b /\ b < p.to
      <4>1. CASE b < FragmentSize
        BY <4>1, <2>2, <3>1, <3>2
      <4>2. CASE FragmentSize <= b
        BY <4>2, <3>1, <3>3 DEF Covered
      <4> QED BY <4>1, <4>2, <3>1
    <3>5. PICK p \in pieces : p.packet = x.packet /\ p.from <= b /\ b < p.to
      BY <3>4
    <3>6. \A r \in S : r = p
      <4> SUFFICES ASSUME NEW r \in S PROVE r = p
        OBVIOUS
      <4>1. r \in pieces /\ r.packet = p.packet /\ r.from <= b /\ b < r.to
        BY <3>5
      <4>2. r = p \/ r.to <= p.from \/ p.to <= r.from
        BY <4>1, <1>1 DEF FragmentInv, PiecesFit
      <4>3. r.from \in Nat /\ r.to \in Nat /\ p.from \in Nat /\ p.to \in Nat
        BY <3>1, <4>1
      <4> HIDE DEF S
      <4> QED BY <3>1, <3>5, <4>1, <4>2, <4>3
    <3>7. S = {p}
      BY <3>5, <3>6
    <3> QED BY <3>7, FS_Singleton
  <2> QED BY <2>0, <2>1, <2>2 DEF Noize!FragmentsMakeThePacket
<1> QED BY <1>1, <1>2, <1>3, <1>4

-----------------------------------------------------------------------------
(* Flattening sequences of sequences.                                      *)

\* h goes through the flattening of ss piece by piece.
IsFlat(h, ss) == h[0] = <<>> /\ \A k \in 1 .. Len(ss) : h[k] = h[k - 1] \o ss[k]

\* Such a function exists.
LEMMA FlatExists ==
    ASSUME NEW S, NEW ss \in Seq(Seq(S))
    PROVE  \E h \in [0 .. Len(ss) -> Seq(S)] : IsFlat(h, ss)
<1> DEFINE A == Seq(S)
           n == Len(ss)
           G == [p \in A \X (1 .. n) |-> p[1] \o ss[p[2]]]
<1>1. n \in Nat /\ <<>> \in A
  OBVIOUS
<1>2. \A a \in A, k \in 1 .. n : a \o ss[k] \in A
  <2> SUFFICES ASSUME NEW a \in A, NEW k \in 1 .. n PROVE a \o ss[k] \in A
    OBVIOUS
  <2>1. ss[k] \in Seq(S)
    OBVIOUS
  <2> QED BY <2>1, ConcatProperties
<1>3. G \in [A \X (1 .. n) -> A] /\ \A a \in A, k \in 1 .. n : G[<<a, k>>] = a \o ss[k]
  BY <1>2
<1> DEFINE b == <<>>
<1> HIDE DEF G, A, n, b
<1>4. \E h : IsRecursion(h, A, b, G, n)
  <2>1. b \in A /\ n \in Nat
    BY <1>1 DEF b
  <2>2. G \in [A \X (1 .. n) -> A]
    BY <1>3
  <2> QED BY <2>1, <2>2, RecursionExists
<1>5. PICK h \in [0 .. n -> A] : h[0] = b /\ \A k \in 1 .. n : h[k] = G[<<h[k - 1], k>>]
  BY <1>4 DEF IsRecursion
<1>6. \A k \in 1 .. n : h[k] = h[k - 1] \o ss[k]
  <2> SUFFICES ASSUME NEW k \in 1 .. n PROVE h[k] = h[k - 1] \o ss[k]
    OBVIOUS
  <2>1. k - 1 \in 0 .. n
    BY <1>1
  <2>2. h[k - 1] \in A
    BY <2>1
  <2> QED BY <2>2, <1>3, <1>5
<1> QED BY <1>5, <1>6 DEF IsFlat, A, n, b

\* It ends in the flattened sequence.
LEMMA FlatIs ==
    ASSUME NEW S, NEW ss \in Seq(Seq(S)), NEW h \in [0 .. Len(ss) -> Seq(S)], IsFlat(h, ss)
    PROVE  Std!FlattenSeq(ss) = h[Len(ss)] /\ Std!FlattenSeq(ss) \in Seq(S)
<1> DEFINE n == Len(ss)
           F(f) == [i \in 1 .. n |-> IF i = 1 THEN ss[i] ELSE f[i - 1] \o ss[i]]
           flatten == CHOOSE f : f = F(f)
<1>1. n \in Nat /\ h[n] \in Seq(S)
  OBVIOUS
<1>2. CASE n = 0
  <2>1. ss = <<>>
    BY <1>2
  <2>2. Std!FlattenSeq(ss) = ss
    BY <1>2 DEF Std!FlattenSeq
  <2>3. h[n] = <<>>
    BY <1>2 DEF IsFlat
  <2> QED BY <2>1, <2>2, <2>3, <1>1
<1>3. CASE n # 0
  <2>1. Std!FlattenSeq(ss) = flatten[n]
    BY <1>3 DEF Std!FlattenSeq
  <2>2. h[1] = ss[1]
    <3>0. h[0] = <<>> /\ \A k \in 1 .. n : k - 1 = 0 => h[k] = h[0] \o ss[k]
      <4>1. \A k \in 1 .. n : h[k] = h[k - 1] \o ss[k]
        BY DEF IsFlat
      <4>2. h[0] = <<>>
        BY DEF IsFlat
      <4> QED BY <4>1, <4>2
    <3>1. 1 \in 1 .. n /\ h[0] = <<>> /\ h[1] = h[0] \o ss[1]
      BY <1>1, <1>3, <3>0
    <3>2. ss[1] \in Seq(S)
      BY <3>1
    <3> QED BY <3>1, <3>2, ConcatEmptySeq
  <2> DEFINE f == [i \in 1 .. n |-> h[i]]
  <2>3. \A i \in 1 .. n : f[i] = (IF i = 1 THEN ss[i] ELSE f[i - 1] \o ss[i])
    <3> SUFFICES ASSUME NEW i \in 1 .. n PROVE f[i] = (IF i = 1 THEN ss[i] ELSE f[i - 1] \o ss[i])
      OBVIOUS
    <3>1. CASE i = 1
      BY <3>1, <2>2
    <3>2. CASE i # 1
      <4>1. i - 1 \in 1 .. n
        BY <3>2, <1>1
      <4>2. h[i] = h[i - 1] \o ss[i]
        BY DEF IsFlat
      <4> QED BY <4>1, <4>2, <3>2
    <3> QED BY <3>1, <3>2
  <2>4. f = F(f)
    BY <2>3
  <2>5. flatten = F(flatten)
    BY <2>4
  <2> HIDE DEF flatten
  <2> DEFINE T == {k \in Nat : k + 1 <= n => flatten[k + 1] = h[k + 1]}
  <2>6. 0 \in T
    <3>1. 1 \in 1 .. n
      BY <1>1, <1>3
    <3>2. flatten[1] = ss[1]
      BY <2>5, <3>1
    <3> QED BY <3>2, <2>2
  <2>7. ASSUME NEW k \in T PROVE k + 1 \in T
    <3> SUFFICES ASSUME (k + 1) + 1 <= n PROVE flatten[(k + 1) + 1] = h[(k + 1) + 1]
      BY <2>7
    <3>1. (k + 1) + 1 \in 1 .. n /\ (k + 1) + 1 # 1 /\ ((k + 1) + 1) - 1 = k + 1 /\ k + 1 <= n
      BY <2>7
    <3>2. flatten[(k + 1) + 1] = flatten[k + 1] \o ss[(k + 1) + 1]
      <4> DEFINE i == (k + 1) + 1
      <4>1. flatten[i] = flatten[i - 1] \o ss[i]
        <5> HIDE DEF i
        <5>1. i \in 1 .. n /\ i # 1
          BY <3>1 DEF i
        <5> QED BY <5>1, <2>5
      <4> QED BY <4>1, <3>1
    <3>3. h[(k + 1) + 1] = h[k + 1] \o ss[(k + 1) + 1]
      <4>1. h[(k + 1) + 1] = h[((k + 1) + 1) - 1] \o ss[(k + 1) + 1]
        BY <3>1 DEF IsFlat
      <4> QED BY <4>1, <3>1
    <3>4. flatten[k + 1] = h[k + 1]
      BY <2>7, <3>1
    <3> QED BY <3>2, <3>3, <3>4
  <2> HIDE DEF T
  <2>8. T = Nat
    <3>1. T \in SUBSET Nat
      BY DEF T
    <3> QED BY <2>6, <2>7, <3>1, NatInd
  <2>9. PICK m \in Nat : m + 1 = n
    <3>1. n - 1 \in Nat /\ (n - 1) + 1 = n
      BY <1>1, <1>3
    <3> QED BY <3>1
  <2>10. flatten[n] = h[n]
    <3> HIDE DEF n
    <3>1. m \in T
      BY <2>8
    <3>2. m + 1 <= n => flatten[m + 1] = h[m + 1]
      BY <3>1 DEF T
    <3> QED BY <3>2, <2>9, <1>1
  <2> QED BY <2>1, <2>10, <1>1
<1> QED BY <1>2, <1>3

\* A flattening of nothing, and of one piece more.
LEMMA FlatAppend ==
    ASSUME NEW S, NEW ss \in Seq(Seq(S)), NEW x \in Seq(S)
    PROVE  /\ Std!FlattenSeq(ss) \in Seq(S)
           /\ Std!FlattenSeq(Append(ss, x)) = Std!FlattenSeq(ss) \o x
<1> DEFINE t == Append(ss, x)
           n == Len(ss)
<1>1. t \in Seq(Seq(S)) /\ Len(t) = n + 1 /\ n \in Nat /\ t[n + 1] = x /\ \A k \in 1 .. n : t[k] = ss[k]
  BY AppendProperties
<1>2. PICK h \in [0 .. Len(t) -> Seq(S)] : IsFlat(h, t)
  BY <1>1, FlatExists
<1> DEFINE g == [k \in 0 .. n |-> h[k]]
<1>3. g \in [0 .. n -> Seq(S)]
  BY <1>1
<1>4. IsFlat(g, ss)
  <2>1. g[0] = <<>>
    BY <1>1, <1>2 DEF IsFlat
  <2>2. ASSUME NEW k \in 1 .. n PROVE g[k] = g[k - 1] \o ss[k]
    <3>1. k \in 1 .. Len(t) /\ k - 1 \in 0 .. n /\ k \in 0 .. n
      BY <1>1
    <3>2. h[k] = h[k - 1] \o t[k]
      BY <3>1, <1>2 DEF IsFlat
    <3> QED BY <3>1, <3>2, <1>1
  <2> QED BY <2>1, <2>2 DEF IsFlat
<1>5. Std!FlattenSeq(ss) = g[n] /\ g[n] \in Seq(S)
  <2> HIDE DEF g
  <2> QED BY <1>3, <1>4, FlatIs
<1>6. Std!FlattenSeq(t) = h[n + 1]
  <2> HIDE DEF t
  <2> QED BY <1>1, <1>2, FlatIs
<1>7. h[n + 1] = h[n] \o x
  <2>1. n + 1 \in 1 .. Len(t) /\ (n + 1) - 1 = n
    BY <1>1
  <2>2. h[n + 1] = h[(n + 1) - 1] \o t[n + 1]
    BY <2>1, <1>2 DEF IsFlat
  <2> QED BY <2>1, <2>2, <1>1
<1>8. g[n] = h[n]
  BY <1>1
<1> QED BY <1>5, <1>6, <1>7, <1>8

LEMMA FlatEmpty == Std!FlattenSeq(<<>>) = <<>>
  BY DEF Std!FlattenSeq

\* The flattening of a concatenation.
LEMMA FlatConcat ==
    ASSUME NEW S, NEW ss \in Seq(Seq(S)), NEW tt \in Seq(Seq(S))
    PROVE  Std!FlattenSeq(ss \o tt) = Std!FlattenSeq(ss) \o Std!FlattenSeq(tt)
<1> DEFINE P(u) == Std!FlattenSeq(ss \o u) = Std!FlattenSeq(ss) \o Std!FlattenSeq(u)
           T == {k \in Nat : \A u \in Seq(Seq(S)) : Len(u) = k => P(u)}
<1>1. 0 \in T
  <2> SUFFICES ASSUME NEW u \in Seq(Seq(S)), Len(u) = 0 PROVE P(u)
    OBVIOUS
  <2>1. u = <<>> /\ ss \o u = ss
    <3>1. u = <<>>
      BY EmptySeq
    <3> QED BY <3>1, ConcatEmptySeq
  <2>2. Std!FlattenSeq(ss) \in Seq(S)
    BY FlatAppend
  <2>3. Std!FlattenSeq(ss) \o <<>> = Std!FlattenSeq(ss)
    BY <2>2, ConcatEmptySeq
  <2> QED BY <2>1, <2>3, FlatEmpty
<1>2. ASSUME NEW k \in T PROVE k + 1 \in T
  <2> SUFFICES ASSUME NEW u \in Seq(Seq(S)), Len(u) = k + 1 PROVE P(u)
    BY <1>2
  <2>1. u # <<>> /\ k \in Nat
    <3>1. k \in Nat
      BY <1>2
    <3>2. k + 1 # 0
      BY <3>1
    <3> QED BY <3>1, <3>2, EmptySeq
  <2>2. PICK v \in Seq(Seq(S)), x \in Seq(S) : u = Append(v, x)
    BY <2>1, SequenceEmptyOrAppend
  <2>3. Len(v) = k
    <3>1. Len(u) = Len(v) + 1 /\ Len(v) \in Nat
      BY <2>2, AppendProperties
    <3> QED BY <3>1, <2>1
  <2>4. Std!FlattenSeq(ss \o v) = Std!FlattenSeq(ss) \o Std!FlattenSeq(v)
    BY <1>2, <2>3
  <2>5. ss \o u = Append(ss \o v, x) /\ ss \o v \in Seq(Seq(S))
    <3> DEFINE W == Seq(S)
    <3>0. ss \in Seq(W) /\ v \in Seq(W) /\ x \in W
      OBVIOUS
    <3> HIDE DEF W
    <3>1. ss \o v \in Seq(W) /\ <<x>> \in Seq(W)
      BY <3>0, ConcatProperties
    <3>2. u = v \o <<x>>
      BY <2>2, <3>0, AppendIsConcat
    <3>3. Append(ss \o v, x) = (ss \o v) \o <<x>>
      BY <3>0, <3>1, AppendIsConcat
    <3>4. (ss \o v) \o <<x>> = ss \o (v \o <<x>>)
      <4>1. Associates(ss, v, <<x>>)
        BY <3>0, <3>1, ConcatAssociates
      <4> QED BY <4>1 DEF Associates
    <3> QED BY <3>1, <3>2, <3>3, <3>4 DEF W
  <2>6. Std!FlattenSeq(ss \o u) = (Std!FlattenSeq(ss) \o Std!FlattenSeq(v)) \o x
    <3> DEFINE w == ss \o v
    <3>1. w \in Seq(Seq(S)) /\ ss \o u = Append(w, x) /\ Std!FlattenSeq(w) = Std!FlattenSeq(ss) \o Std!FlattenSeq(v)
      BY <2>4, <2>5
    <3> HIDE DEF w
    <3>2. Std!FlattenSeq(Append(w, x)) = Std!FlattenSeq(w) \o x
      BY <3>1, FlatAppend
    <3> QED BY <3>1, <3>2
  <2>7. Std!FlattenSeq(u) = Std!FlattenSeq(v) \o x
    BY <2>2, FlatAppend
  <2>8. Std!FlattenSeq(ss) \in Seq(S) /\ Std!FlattenSeq(v) \in Seq(S)
    BY FlatAppend
  <2> DEFINE a == Std!FlattenSeq(ss)  b == Std!FlattenSeq(v)
  <2>9. a \in Seq(S) /\ b \in Seq(S)
    BY <2>8
  <2>10. Std!FlattenSeq(ss \o u) = (a \o b) \o x /\ Std!FlattenSeq(u) = b \o x
    BY <2>6, <2>7
  <2> HIDE DEF a, b
  <2>11. (a \o b) \o x = a \o (b \o x)
    <3>1. Associates(a, b, x)
      BY <2>9, ConcatAssociates
    <3> QED BY <3>1 DEF Associates
  <2> QED BY <2>10, <2>11 DEF a
<1> HIDE DEF T
<1>3. T = Nat
  <2>1. T \in SUBSET Nat
    BY DEF T
  <2> QED BY <1>1, <1>2, <2>1, NatInd
<1>4. Len(tt) \in Nat
  OBVIOUS
<1> QED BY <1>3, <1>4 DEF T

-----------------------------------------------------------------------------
(* The sockets of the device (wireguard/conn/bind_std.go).                 *)

Byte == Nat \X Nat
DatagramSet == {d \in Seq(Byte) : Len(d) > 0}
MessageSet == [bytes : Seq(Byte), gso : Nat, count : Nat, ended : BOOLEAN]

\* n datagrams are in a message one after the other, all but the last as long as g.
Holds(bytes, g, n, bs) ==
    /\ bytes \in Seq(Byte) /\ g \in Nat \ {0} /\ n \in Nat \ {0}
    /\ bs \in Seq(Seq(Byte)) /\ Len(bs) = n /\ Len(bs[n]) \in 1 .. g
    /\ Len(bytes) = (n - 1) * g + Len(bs[n])
    /\ \A k \in 1 .. n : k < n => Len(bs[k]) = g
    /\ \A k \in 1 .. n : \A i \in 1 .. Len(bs[k]) : bytes[(k - 1) * g + i] = bs[k][i]

\* The kernel's cuts are where the datagrams meet.
LEMMA CutsBetween ==
    ASSUME NEW bytes, NEW g, NEW n, NEW bs, Holds(bytes, g, n, bs), NEW k \in 1 .. n
    PROVE  SubSeq(bytes, (k - 1) * g + 1, IF k * g < Len(bytes) THEN k * g ELSE Len(bytes)) = bs[k]
<1>1. /\ bytes \in Seq(Byte) /\ g \in Nat \ {0} /\ n \in Nat \ {0} /\ bs \in Seq(Seq(Byte)) /\ Len(bs) = n
      /\ Len(bs[n]) \in 1 .. g /\ Len(bytes) = (n - 1) * g + Len(bs[n])
      /\ (k < n => Len(bs[k]) = g) /\ \A i \in 1 .. Len(bs[k]) : bytes[(k - 1) * g + i] = bs[k][i]
  BY DEF Holds
<1> DEFINE a == (k - 1) * g
           z == (n - 1) * g
           l == Len(bs[k])
           upto == IF k * g < Len(bytes) THEN k * g ELSE Len(bytes)
<1>2. bs[k] \in Seq(Byte) /\ l \in Nat /\ Len(bytes) \in Nat
  BY <1>1
<1>3. a \in Nat /\ z \in Nat /\ k * g = a + g
  <2>1. k - 1 \in Nat /\ n - 1 \in Nat /\ k \in Int /\ g \in Nat
    BY <1>1
  <2>2. a \in Nat /\ z \in Nat
    BY <2>1, ProductNat
  <2>3. a = k * g - g /\ k * g \in Int
    BY <2>1, Product
  <2> QED BY <2>1, <2>2, <2>3
<1>4. upto = a + l /\ a + l <= Len(bytes)
  <2>1. CASE k = n
    BY <2>1, <1>1, <1>2, <1>3
  <2>2. CASE k # n
    <3>1. k <= n - 1 /\ k \in Int /\ n - 1 \in Int /\ g \in Nat
      BY <2>2, <1>1
    <3>2. k * g <= (n - 1) * g
      BY <3>1, ProductGrows
    <3>3. a + g <= z /\ Len(bytes) = z + Len(bs[n]) /\ Len(bs[n]) \in 1 .. g /\ l = g
      BY <3>1, <3>2, <1>1, <1>3
    <3> DEFINE p == k * g  b == Len(bytes)  c == Len(bs[n])
    <3>4. p = a + g /\ b \in Nat /\ c \in 1 .. g /\ b = z + c /\ a + g <= z /\ a \in Nat /\ z \in Nat /\ g \in Nat /\ l = g
      BY <3>1, <3>3, <1>1, <1>2, <1>3
    <3> HIDE DEF a, z, l, p, b, c
    <3>5. p < b /\ a + l <= b /\ p = a + l
      BY <3>4
    <3> QED BY <3>5 DEF p, b
  <2> QED BY <2>1, <2>2
<1> HIDE DEF upto, a, l
<1> DEFINE s == SubSeq(bytes, a + 1, upto)
<1>5. \A i \in a + 1 .. upto : bytes[i] \in Byte
  <2>1. a + 1 .. upto \subseteq 1 .. Len(bytes)
    BY <1>2, <1>3, <1>4
  <2>2. \A i \in 1 .. Len(bytes) : bytes[i] \in Byte
    BY <1>1, ElementOfSeq
  <2> QED BY <2>1, <2>2
<1>6. s \in Seq(Byte) /\ Len(s) = (IF a + 1 <= upto THEN upto - (a + 1) + 1 ELSE 0) /\ \A i \in 1 .. upto - (a + 1) + 1 : s[i] = bytes[(a + 1) + i - 1]
  <2>1. a + 1 \in Int /\ upto \in Int
    BY <1>2, <1>3, <1>4
  <2> QED BY <1>5, <2>1, SubSeqProperties
<1>7. Len(s) = l
  BY <1>2, <1>3, <1>4, <1>6
<1>8. \A i \in 1 .. l : s[i] = bytes[a + i]
  <2> SUFFICES ASSUME NEW i \in 1 .. l PROVE s[i] = bytes[a + i]
    OBVIOUS
  <2>1. i \in 1 .. upto - (a + 1) + 1 /\ (a + 1) + i - 1 = a + i
    BY <1>2, <1>3, <1>4
  <2> QED BY <2>1, <1>6
<1>9. \A i \in 1 .. l : s[i] = bs[k][i]
  BY <1>1, <1>8 DEF a, l
<1> HIDE DEF s
<1>10. s = bs[k]
  BY <1>2, <1>6, <1>7, <1>9, SeqEqual DEF l
<1> QED BY <1>10 DEF s, upto, a

\* A message comes apart into what it holds.
LEMMA HeldComesApart ==
    ASSUME NEW m, NEW bs, Holds(m.bytes, m.gso, m.count, bs)
    PROVE  Std!Segments(m) = bs
<1> DEFINE bytes == m.bytes  g == m.gso  n == m.count
<1>1. /\ bytes \in Seq(Byte) /\ g \in Nat \ {0} /\ n \in Nat \ {0} /\ bs \in Seq(Seq(Byte)) /\ Len(bs) = n
      /\ Len(bs[n]) \in 1 .. g /\ Len(bytes) = (n - 1) * g + Len(bs[n])
      /\ \A k \in 1 .. n : \A i \in 1 .. Len(bs[k]) : bytes[(k - 1) * g + i] = bs[k][i]
  BY DEF Holds
<1>2. CASE n = 1
  <2>1. Std!Segments(m) = <<bytes>>
    BY <1>2 DEF Std!Segments
  <2>2. Len(bytes) = Len(bs[1]) /\ bs[1] \in Seq(Byte)
    <3>1. (1 - 1) * g = 0
      BY <1>1
    <3>2. Len(bytes) = (1 - 1) * g + Len(bs[1])
      BY <1>1, <1>2, Zenon
    <3>3. bs[1] \in Seq(Byte)
      <4>1. bs \in Seq(Seq(Byte)) /\ Len(bs) = 1
        BY <1>1, <1>2
      <4>2. 1 \in 1 .. Len(bs)
        BY <4>1
      <4> QED BY <4>1, <4>2, ElementOfSeq
    <3>4. Len(bs[1]) \in Nat
      BY <3>3
    <3> QED BY <3>1, <3>2, <3>3, <3>4
  <2>3. \A i \in 1 .. Len(bytes) : bytes[i] = bs[1][i]
    <3> SUFFICES ASSUME NEW i \in 1 .. Len(bytes) PROVE bytes[i] = bs[1][i]
      OBVIOUS
    <3>1. bytes[(1 - 1) * g + i] = bs[1][i]
      BY <1>1, <1>2, <2>2
    <3>2. (1 - 1) * g + i = i
      BY <1>1
    <3> QED BY <3>1, <3>2
  <2>4. bytes = bs[1]
    BY <1>1, <2>2, <2>3, SeqEqual
  <2>5. bs = <<bs[1]>>
    BY <1>1, <1>2
  <2> QED BY <2>1, <2>4, <2>5
<1>3. CASE n # 1
  <2> DEFINE c == (Len(bytes) + g - 1) \div g
             F(k) == SubSeq(bytes, (k - 1) * g + 1, IF k * g < Len(bytes) THEN k * g ELSE Len(bytes))
  <2>1. Std!Segments(m) = [k \in 1 .. c |-> F(k)]
    BY <1>3 DEF Std!Segments
  <2>2. c = n
    <3> DEFINE r == Len(bs[n]) - 1
    <3>1. r \in 0 .. (g - 1) /\ Len(bytes) \in Nat
      BY <1>1, SMTT(30)
    <3>2. (n - 1) * g = g * n - g /\ g * n \in Int
      <4>1. n \in Int /\ g \in Nat
        BY <1>1
      <4> QED BY <4>1, Product
    <3> DEFINE p == g * n  b == Len(bytes)  d == Len(bs[n])
    <3>3. b = (p - g) + d /\ p \in Int /\ g \in Nat /\ d \in 1 .. g /\ r = d - 1 /\ b \in Nat
      BY <1>1, <3>1, <3>2
    <3>4. b + g - 1 = p + r
      <4> HIDE DEF p, b, d, r
      <4> QED BY <3>3
    <3> HIDE DEF r
    <3> QED BY <1>1, <3>1, <3>4, PartsOfSum, ZenonT(30)
  <2>3. \A k \in 1 .. n : F(k) = bs[k]
    BY CutsBetween
  <2> HIDE DEF F, c
  <2>4. [k \in 1 .. c |-> F(k)] = bs
    BY <1>1, <2>2, <2>3
  <2> QED BY <2>1, <2>4
<1> QED BY <1>2, <1>3

\* One datagram more, after datagrams of full length only.
LEMMA HoldsOneMore ==
    ASSUME NEW bytes, NEW g, NEW n, NEW bs, Holds(bytes, g, n, bs), Len(bs[n]) = g,
           NEW buf \in Seq(Byte), Len(buf) \in 1 .. g
    PROVE  Holds(bytes \o buf, g, n + 1, Append(bs, buf))
<1>1. /\ bytes \in Seq(Byte) /\ g \in Nat \ {0} /\ n \in Nat \ {0} /\ bs \in Seq(Seq(Byte)) /\ Len(bs) = n
      /\ Len(bytes) = (n - 1) * g + g
      /\ \A k \in 1 .. n : k < n => Len(bs[k]) = g
      /\ \A k \in 1 .. n : \A i \in 1 .. Len(bs[k]) : bytes[(k - 1) * g + i] = bs[k][i]
  BY DEF Holds
<1> DEFINE t == Append(bs, buf)
           c == bytes \o buf
<1>2. t \in Seq(Seq(Byte)) /\ Len(t) = n + 1 /\ t[n + 1] = buf /\ \A k \in 1 .. n : t[k] = bs[k]
  BY <1>1, AppendProperties
<1>3. Len(bytes) = n * g /\ n * g \in Nat /\ Len(buf) \in Nat
  <2>1. n \in Nat /\ g \in Nat /\ n \in Int
    BY <1>1
  <2>2. (n - 1) * g = n * g - g
    BY <2>1, Product
  <2>3. n * g \in Nat
    BY <2>1, ProductNat
  <2> QED BY <2>1, <2>2, <2>3, <1>1
<1>4. /\ c \in Seq(Byte) /\ Len(c) = Len(bytes) + Len(buf)
      /\ \A i \in 1 .. Len(bytes) + Len(buf) : c[i] = (IF i <= Len(bytes) THEN bytes[i] ELSE buf[i - Len(bytes)])
  <2> HIDE DEF t
  <2>1. bytes \in Seq(Byte) /\ buf \in Seq(Byte)
    BY <1>1
  <2>2. Len(bytes) \in Nat /\ Len(buf) \in Nat
    BY <2>1
  <2>3. c \in Seq(Byte) /\ Len(c) = Len(bytes) + Len(buf)
    BY <2>1, ConcatProperties
  <2>4. \A i \in 1 .. Len(bytes) + Len(buf) : c[i] = (IF i <= Len(bytes) THEN bytes[i] ELSE buf[i - Len(bytes)])
    BY <2>1, ConcatProperties
  <2> QED BY <2>3, <2>4
<1>5. \A k \in 1 .. n : Len(bs[k]) = g
  BY <1>1
<1>6. \A k \in 1 .. n + 1 : k < n + 1 => Len(t[k]) = g
  BY <1>1, <1>2, <1>5
<1>7. Len(c) = ((n + 1) - 1) * g + Len(t[n + 1])
  <2>1. (n + 1) - 1 = n
    BY <1>1
  <2> QED BY <2>1, <1>2, <1>3, <1>4
<1>8. ASSUME NEW k \in 1 .. n + 1, NEW i \in 1 .. Len(t[k]) PROVE c[(k - 1) * g + i] = t[k][i]
  <2>1. CASE k = n + 1
    <3>1. (k - 1) * g = n * g /\ t[k] = buf
      <4>1. k - 1 = n
        BY <2>1, <1>1
      <4> QED BY <4>1, <2>1, <1>2
    <3> DEFINE a == n * g
    <3>2. a \in Nat /\ Len(bytes) = a /\ i \in 1 .. Len(buf)
      BY <3>1, <1>3
    <3> HIDE DEF a
    <3>3. a + i \in 1 .. Len(bytes) + Len(buf) /\ ~(a + i <= Len(bytes)) /\ (a + i) - Len(bytes) = i
      BY <3>2, <1>3
    <3>4. c[a + i] = buf[i]
      BY <3>3, <1>4
    <3> QED BY <3>1, <3>4 DEF a
  <2>2. CASE k # n + 1
    <3>1. k \in 1 .. n /\ t[k] = bs[k] /\ Len(bs[k]) = g
      BY <2>2, <1>1, <1>2, <1>5
    <3>2. k * g <= n * g /\ (k - 1) * g + g = k * g /\ (k - 1) * g \in Nat
      <4>1. k <= n /\ k \in Int /\ n \in Int /\ k - 1 \in Nat /\ g \in Nat
        BY <3>1, <1>1
      <4>2. k * g <= n * g
        BY <4>1, ProductGrows
      <4>3. (k - 1) * g = k * g - g /\ k * g \in Int
        BY <4>1, Product
      <4>4. (k - 1) * g \in Nat
        BY <4>1, ProductNat
      <4> QED BY <4>1, <4>2, <4>3, <4>4
    <3> DEFINE a == (k - 1) * g
               z == n * g
    <3>3. a \in Nat /\ z \in Nat /\ a + g <= z /\ Len(bytes) = z /\ i \in 1 .. g
      BY <3>1, <3>2, <1>3
    <3>4. bytes[a + i] = bs[k][i]
      BY <3>1, <1>1
    <3> HIDE DEF a, z
    <3>5. a + i \in 1 .. Len(bytes) + Len(buf) /\ a + i <= Len(bytes)
      BY <3>3, <1>1, <1>3
    <3>6. c[a + i] = bytes[a + i]
      BY <3>5, <1>4
    <3> QED BY <3>1, <3>4, <3>6 DEF a
  <2> QED BY <2>1, <2>2
<1> HIDE DEF t, c
<1>9. n + 1 \in Nat \ {0} /\ Len(t[n + 1]) \in 1 .. g
  BY <1>1, <1>2
<1>10. Holds(c, g, n + 1, t)
  BY <1>1, <1>2, <1>4, <1>6, <1>7, <1>8, <1>9 DEF Holds
<1> QED BY <1>10 DEF c, t

\* A message the kernel can cut into datagrams, and one that coalesceMessages builds:
\* datagrams of one length and perhaps a shorter one, which ends it.
Cuttable == {m \in MessageSet : Std!Segments(m) \in Seq(Seq(Byte))}
Built == {m \in Cuttable : /\ m.count \in 1 .. MaxSegments
                           /\ Holds(m.bytes, m.gso, m.count, Std!Segments(m))
                           /\ (~m.ended => Len(Std!Segments(m)[m.count]) = m.gso)}

\* What becomes of the messages, in the fold of coalesceMessages.
NewMessage(buf) == [bytes |-> buf, gso |-> Len(buf), count |-> 1, ended |-> FALSE]
Longer(base, buf) == [bytes |-> base.bytes \o buf, gso |-> base.gso, count |-> base.count + 1,
                      ended |-> base.ended \/ Len(buf) < base.gso]
PutInto(msgs, buf) == IF msgs # <<>> /\ Std!Fits(Std!Last(msgs), buf)
                    THEN Append(Std!Front(msgs), Longer(Std!Last(msgs), buf))
                    ELSE Append(msgs, NewMessage(buf))

\* The datagrams of each message.
Cut(msgs) == [i \in 1 .. Len(msgs) |-> Std!Segments(msgs[i])]

LEMMA NewMessageBuilt ==
    ASSUME NEW buf \in DatagramSet
    PROVE  NewMessage(buf) \in Built /\ Std!Segments(NewMessage(buf)) = <<buf>>
<1> DEFINE m == NewMessage(buf)  g == Len(buf)
<1>1. buf \in Seq(Byte) /\ g \in Nat \ {0} /\ 1 \in Nat \ {0}
  BY DEF DatagramSet
<1>2. m \in MessageSet /\ m.bytes = buf /\ m.gso = g /\ m.count = 1 /\ m.ended = FALSE
  BY <1>1 DEF MessageSet, NewMessage
<1> HIDE DEF m
<1>3. Std!Segments(m) = <<buf>>
  BY <1>2 DEF Std!Segments
<1> DEFINE bs == <<buf>>
<1>4. bs \in Seq(Seq(Byte)) /\ Len(bs) = 1 /\ bs[1] = buf
  BY <1>1
<1>5. (1 - 1) * g = 0
  BY <1>1
<1>6. Len(buf) = (1 - 1) * g + Len(bs[1]) /\ Len(bs[1]) \in 1 .. g
  BY <1>1, <1>4, <1>5
<1>7. \A k \in 1 .. 1 : \A i \in 1 .. Len(bs[k]) : buf[(k - 1) * g + i] = bs[k][i]
  <2> SUFFICES ASSUME NEW k \in 1 .. 1, NEW i \in 1 .. Len(bs[k]) PROVE buf[(k - 1) * g + i] = bs[k][i]
    OBVIOUS
  <2>1. k = 1
    OBVIOUS
  <2>2. (k - 1) * g = 0 /\ i \in Int
    BY <2>1, <1>4, <1>5
  <2>3. (k - 1) * g + i = i
    BY <2>2
  <2> QED BY <2>1, <2>3, <1>4
<1> HIDE DEF bs
<1>8. \A k \in 1 .. 1 : k < 1 => Len(bs[k]) = g
  OBVIOUS
<1>9. Holds(buf, g, 1, bs)
  BY <1>1, <1>4, <1>6, <1>7, <1>8 DEF Holds
<1>10. m.count \in 1 .. MaxSegments
  BY <1>2, BindAssumption
<1> QED BY <1>2, <1>3, <1>4, <1>9, <1>10 DEF Built, Cuttable, m, bs

LEMMA LongerBuilt ==
    ASSUME NEW base \in Built, NEW buf \in DatagramSet, Std!Fits(base, buf)
    PROVE  /\ Longer(base, buf) \in Built
           /\ Std!Segments(Longer(base, buf)) = Append(Std!Segments(base), buf)
<1> DEFINE m == Longer(base, buf)  g == base.gso  n == base.count  bs == Std!Segments(base)
<1>1. /\ buf \in Seq(Byte) /\ Len(buf) \in Nat \ {0}
      /\ base \in MessageSet /\ bs \in Seq(Seq(Byte)) /\ n \in 1 .. MaxSegments
      /\ Holds(base.bytes, g, n, bs) /\ (~base.ended => Len(bs[n]) = g)
  BY DEF Built, Cuttable, DatagramSet
<1>2. /\ base.bytes \in Seq(Byte) /\ g \in Nat \ {0} /\ n \in Nat \ {0} /\ base.ended \in BOOLEAN
  BY <1>1 DEF MessageSet, Holds
<1>3. Len(buf) <= g /\ n < MaxSegments /\ ~base.ended
  BY DEF Std!Fits
<1>4. Len(buf) \in 1 .. g /\ n + 1 \in 1 .. MaxSegments /\ MaxSegments \in Nat
  <2> DEFINE l == Len(buf)
  <2>1. l \in Nat \ {0} /\ g \in Nat /\ l <= g /\ n \in Nat /\ n < MaxSegments /\ MaxSegments \in Nat
    BY <1>1, <1>2, <1>3, BindAssumption
  <2> HIDE DEF l, g, n
  <2>2. l \in 1 .. g /\ n + 1 \in 1 .. MaxSegments
    BY <2>1
  <2> QED BY <2>1, <2>2 DEF l
<1>5. Len(bs[n]) = g
  BY <1>1, <1>3
<1> HIDE DEF bs, g, n
<1>6. Holds(base.bytes \o buf, g, n + 1, Append(bs, buf))
  BY <1>1, <1>4, <1>5, HoldsOneMore
<1>7. base.bytes \o buf \in Seq(Byte)
  BY <1>1, <1>2, ConcatProperties
<1>8. (base.ended \/ Len(buf) < g) \in BOOLEAN
  OBVIOUS
<1>9. m \in MessageSet /\ m.bytes = base.bytes \o buf /\ m.gso = g /\ m.count = n + 1 /\ m.ended = (base.ended \/ Len(buf) < g)
  BY <1>2, <1>7, <1>8 DEF MessageSet, Longer, g, n
<1> HIDE DEF m
<1>10. Std!Segments(m) = Append(bs, buf)
  <2>1. Holds(m.bytes, m.gso, m.count, Append(bs, buf))
    BY <1>6, <1>9
  <2> QED BY <2>1, HeldComesApart
<1>11. Append(bs, buf) \in Seq(Seq(Byte)) /\ Append(bs, buf)[n + 1] = buf
  <2>1. Len(bs) = n
    BY <1>1 DEF Holds
  <2> QED BY <2>1, <1>1, AppendProperties
<1>12. ~m.ended => Len(buf) = g
  <2>1. ~m.ended => ~(Len(buf) < g)
    BY <1>9
  <2>2. Len(buf) \in Nat /\ g \in Nat /\ Len(buf) <= g
    BY <1>1, <1>2, <1>3
  <2> QED BY <2>1, <2>2
<1> QED BY <1>4, <1>6, <1>9, <1>10, <1>11, <1>12 DEF Built, Cuttable, m, bs

\* Cutting a sequence of messages.
LEMMA CutTyped ==
    ASSUME NEW msgs \in Seq(Cuttable)
    PROVE  Cut(msgs) \in Seq(Seq(Seq(Byte))) /\ Len(Cut(msgs)) = Len(msgs)
<1>1. \A i \in 1 .. Len(msgs) : msgs[i] \in Cuttable
  BY ElementOfSeq
<1>2. \A i \in 1 .. Len(msgs) : Std!Segments(msgs[i]) \in Seq(Seq(Byte))
  BY <1>1 DEF Cuttable
<1>3. Len(msgs) \in Nat
  OBVIOUS
<1> DEFINE W == Seq(Seq(Byte))  n == Len(msgs)
<1>4. Cut(msgs) \in [1 .. n -> W]
  BY <1>2 DEF Cut
<1> HIDE DEF W, n
<1>5. Cut(msgs) \in Seq(W) /\ Len(Cut(msgs)) = n
  BY <1>3, <1>4 DEF n
<1> QED BY <1>5 DEF W, n

LEMMA CutAppend ==
    ASSUME NEW msgs \in Seq(Cuttable), NEW m \in Cuttable
    PROVE  Cut(Append(msgs, m)) = Append(Cut(msgs), Std!Segments(m))
<1> DEFINE t == Append(msgs, m)  n == Len(msgs)  c == Cut(msgs)  x == Std!Segments(m)
           W == Seq(Seq(Byte))
<1>1. t \in Seq(Cuttable) /\ Len(t) = n + 1 /\ n \in Nat /\ t[n + 1] = m /\ \A i \in 1 .. n : t[i] = msgs[i]
  BY AppendProperties
<1>2. c \in Seq(W) /\ Len(c) = n /\ x \in W
  BY CutTyped DEF Cuttable
<1>3. \A i \in 1 .. n : c[i] = Std!Segments(msgs[i])
  BY DEF Cut
<1> HIDE DEF t, c, W, n, x
<1> DEFINE u == Append(c, x)  v == Cut(t)
<1>4. u \in Seq(W) /\ Len(u) = n + 1 /\ u[n + 1] = x /\ \A i \in 1 .. n : u[i] = c[i]
  BY <1>1, <1>2, AppendProperties
<1>5. v \in Seq(W) /\ Len(v) = n + 1
  BY <1>1, CutTyped DEF W
<1>6. \A i \in 1 .. n + 1 : v[i] = Std!Segments(t[i])
  BY <1>1 DEF Cut
<1> HIDE DEF u, v
<1>7. \A i \in 1 .. n + 1 : v[i] = u[i]
  <2> SUFFICES ASSUME NEW i \in 1 .. n + 1 PROVE v[i] = u[i]
    OBVIOUS
  <2>1. CASE i = n + 1
    BY <2>1, <1>1, <1>4, <1>6 DEF x
  <2>2. CASE i # n + 1
    <3>1. i \in 1 .. n
      BY <2>2, <1>1
    <3> QED BY <3>1, <1>1, <1>3, <1>4, <1>6
  <2> QED BY <2>1, <2>2
<1>8. v = u
  BY <1>4, <1>5, <1>7, SeqEqual
<1> QED BY <1>8 DEF u, v, t, c, x

\* One datagram more in the fold.
LEMMA PutBuilt ==
    ASSUME NEW msgs \in Seq(Built), NEW buf \in DatagramSet
    PROVE  /\ PutInto(msgs, buf) \in Seq(Built)
           /\ Std!FlattenSeq(Cut(msgs)) \in Seq(Seq(Byte))
           /\ Std!FlattenSeq(Cut(PutInto(msgs, buf))) = Append(Std!FlattenSeq(Cut(msgs)), buf)
<1>0. msgs \in Seq(Cuttable) /\ \A s \in Seq(Built) : s \in Seq(Cuttable)
  BY DEF Built
<1>1. Cut(msgs) \in Seq(Seq(Seq(Byte)))
  BY <1>0, CutTyped
<1>2. Std!FlattenSeq(Cut(msgs)) \in Seq(Seq(Byte))
  <2> DEFINE S == Seq(Byte)  c == Cut(msgs)
  <2>1. c \in Seq(Seq(S)) /\ <<>> \in Seq(S)
    BY <1>1
  <2> HIDE DEF S, c
  <2>2. Std!FlattenSeq(c) \in Seq(S)
    BY <2>1, FlatAppend
  <2> QED BY <2>2 DEF S, c
<1>3. buf \in Seq(Byte)
  BY DEF DatagramSet
<1>4. CASE msgs # <<>> /\ Std!Fits(Std!Last(msgs), buf)
  <2>1. PICK f \in Seq(Built), base \in Built : msgs = Append(f, base)
    BY <1>4, SequenceEmptyOrAppend
  <2>2. Std!Last(msgs) = base /\ Std!Front(msgs) = f
    <3>1. Len(msgs) = Len(f) + 1 /\ Len(f) \in Nat /\ msgs[Len(f) + 1] = base /\ \A i \in 1 .. Len(f) : msgs[i] = f[i]
      BY <2>1, AppendProperties
    <3>2. Std!Last(msgs) = base
      BY <3>1 DEF Std!Last
    <3>3. Std!Front(msgs) = SubSeq(msgs, 1, Len(f))
      <4>1. Len(msgs) - 1 = Len(f)
        BY <3>1
      <4> QED BY <4>1 DEF Std!Front
    <3> DEFINE s == SubSeq(msgs, 1, Len(f))
    <3>4. s \in Seq(Built) /\ Len(s) = Len(f) /\ \A i \in 1 .. Len(f) : s[i] = msgs[i]
      BY <3>1, SubSeqProperties
    <3>5. s = f
      <4> HIDE DEF s
      <4>1. \A i \in 1 .. Len(f) : s[i] = f[i]
        BY <3>1, <3>4
      <4> QED BY <3>4, <4>1, SeqEqual
    <3> QED BY <3>2, <3>3, <3>5
  <2> DEFINE m == Longer(base, buf)
  <2>3. m \in Built /\ Std!Segments(m) = Append(Std!Segments(base), buf)
    BY <1>4, <2>2, LongerBuilt
  <2>4. PutInto(msgs, buf) = Append(f, m)
    BY <1>4, <2>2 DEF PutInto
  <2> HIDE DEF m
  <2>5. PutInto(msgs, buf) \in Seq(Built)
    BY <2>3, <2>4, AppendProperties
  <2>6. f \in Seq(Cuttable) /\ base \in Cuttable /\ m \in Cuttable
    BY <1>0, <2>3 DEF Built
  <2>7. Cut(Append(f, m)) = Append(Cut(f), Std!Segments(m)) /\ Cut(msgs) = Append(Cut(f), Std!Segments(base))
    BY <2>1, <2>6, CutAppend
  <2> DEFINE S == Seq(Byte)  c == Cut(f)  b == Std!Segments(base)  a == Std!FlattenSeq(c)  x == Append(b, buf)
  <2>8. c \in Seq(Seq(S)) /\ b \in Seq(S) /\ x = Std!Segments(m) /\ x \in Seq(S) /\ buf \in S
    BY <2>3, <2>6, <1>3, CutTyped DEF Cuttable
  <2>9. Std!FlattenSeq(Cut(msgs)) = Std!FlattenSeq(Append(c, b)) /\ Std!FlattenSeq(Cut(PutInto(msgs, buf))) = Std!FlattenSeq(Append(c, x))
    BY <2>4, <2>7, <2>8
  <2> HIDE DEF S, c, b, x
  <2>10. a \in Seq(S) /\ Std!FlattenSeq(Append(c, b)) = a \o b /\ Std!FlattenSeq(Append(c, x)) = a \o x
    BY <2>8, FlatAppend
  <2> HIDE DEF a
  <2>11. a \o x = Append(a \o b, buf)
    <3>1. x = b \o <<buf>> /\ <<buf>> \in Seq(S)
      <4>1. Append(b, buf) = b \o <<buf>>
        BY <2>8, AppendIsConcat
      <4>2. <<buf>> \in Seq(S)
        BY <2>8
      <4> QED BY <4>1, <4>2 DEF x
    <3>2. a \o b \in Seq(S)
      BY <2>8, <2>10, ConcatProperties
    <3>3. Append(a \o b, buf) = (a \o b) \o <<buf>>
      BY <3>2, <2>8, AppendIsConcat
    <3>4. Associates(a, b, <<buf>>)
      BY <2>8, <2>10, <3>1, ConcatAssociates
    <3> QED BY <3>1, <3>3, <3>4 DEF Associates
  <2> QED BY <1>2, <2>5, <2>9, <2>10, <2>11
<1>5. CASE ~(msgs # <<>> /\ Std!Fits(Std!Last(msgs), buf))
  <2> DEFINE m == NewMessage(buf)
  <2>1. m \in Built /\ Std!Segments(m) = <<buf>>
    BY NewMessageBuilt
  <2>2. PutInto(msgs, buf) = Append(msgs, m)
    BY <1>5 DEF PutInto
  <2> HIDE DEF m
  <2>3. PutInto(msgs, buf) \in Seq(Built) /\ m \in Cuttable
    BY <2>1, <2>2, AppendProperties DEF Built
  <2>4. Cut(PutInto(msgs, buf)) = Append(Cut(msgs), <<buf>>)
    BY <1>0, <2>1, <2>2, <2>3, CutAppend
  <2> DEFINE S == Seq(Byte)  c == Cut(msgs)  x == <<buf>>  a == Std!FlattenSeq(c)
  <2>5. c \in Seq(Seq(S)) /\ x \in Seq(S) /\ buf \in S /\ a \in Seq(S)
    BY <1>1, <1>2, <1>3
  <2> HIDE DEF S, c
  <2>6. Std!FlattenSeq(Append(c, x)) = a \o x
    <3> HIDE DEF x, a
    <3>1. Std!FlattenSeq(Append(c, x)) = Std!FlattenSeq(c) \o x
      BY <2>5, FlatAppend
    <3> QED BY <3>1 DEF a
  <2> HIDE DEF a
  <2>7. Append(a, buf) = a \o x
    BY <2>5, AppendIsConcat
  <2> QED BY <1>2, <2>3, <2>4, <2>6, <2>7 DEF a, c
<1> QED BY <1>4, <1>5

\* Coalescing loses nothing: cut again, the messages are the datagrams in their order.
LEMMA CoalescedBuilt ==
    ASSUME NEW bs \in Seq(DatagramSet)
    PROVE  Std!Coalesced(bs) \in Seq(Built) /\ Std!FlattenSeq(Cut(Std!Coalesced(bs))) = bs
<1> DEFINE A == Seq(Built)
           n == Len(bs)
           G == [p \in A \X (1 .. n) |-> PutInto(p[1], bs[p[2]])]
           F(f) == [s \in SUBSET (1 .. n) |-> IF s = {} THEN <<>> ELSE PutInto(f[s \ {Largest(s)}], bs[Largest(s)])]
           iter == CHOOSE f : f = F(f)
<1>1. n \in Nat /\ DOMAIN bs = 1 .. n /\ \A k \in 1 .. n : bs[k] \in DatagramSet
  BY ElementOfSeq
<1>2. Std!Coalesced(bs) = iter[1 .. n]
  BY <1>1 DEF Std!Coalesced, Std!FoldLeft, Std!MapThenFoldSet, Std!Max, Largest, PutInto, Longer, NewMessage
<1>3. \A p \in A \X (1 .. n) : PutInto(p[1], bs[p[2]]) \in A
  BY <1>1, PutBuilt
<1>4. G \in [A \X (1 .. n) -> A]
  BY <1>3
<1>5. \A a \in A, k \in 1 .. n : G[<<a, k>>] = PutInto(a, bs[k])
  OBVIOUS
<1> DEFINE e == <<>>
<1>6. e \in A
  OBVIOUS
<1> HIDE DEF G, A, e
<1>7. PICK f : IsFold(f, A, e, G, n)
  BY <1>1, <1>4, <1>6, FoldExists
<1>8. ASSUME NEW s \in SUBSET (1 .. n), s # {}
      PROVE  Largest(s) \in 1 .. n /\ s \ {Largest(s)} \in SUBSET (1 .. n)
  BY <1>1, <1>8, LargestIn
<1>9. f = F(f)
  <2>1. \A s \in SUBSET (1 .. n) : s # {} => f[s \ {Largest(s)}] \in A
    BY <1>7, <1>8 DEF IsFold
  <2>2. \A s \in SUBSET (1 .. n) : s # {} => f[s] = PutInto(f[s \ {Largest(s)}], bs[Largest(s)])
    BY <2>1, <1>5, <1>7, <1>8 DEF IsFold
  <2>3. f[{}] = <<>>
    <3>1. {} \in SUBSET (1 .. n)
      OBVIOUS
    <3> QED BY <3>1, <1>7 DEF IsFold, e
  <2>4. \A s \in SUBSET (1 .. n) : f[s] = F(f)[s]
    BY <2>2, <2>3
  <2>5. f = [s \in SUBSET (1 .. n) |-> f[s]]
    BY <1>7 DEF IsFold
  <2> QED BY <2>4, <2>5
<1>10. iter = F(iter)
  BY <1>9
<1> HIDE DEF iter
<1> DEFINE Right(k) == iter[1 .. k] \in Seq(Built) /\ Std!FlattenSeq(Cut(iter[1 .. k])) = SubSeq(bs, 1, k)
           S == {k \in Nat : k <= n => Right(k)}
<1>11. 0 \in S
  <2>1. 1 .. 0 = {} /\ {} \in SUBSET (1 .. n)
    OBVIOUS
  <2>2. iter[{}] = <<>>
    BY <2>1, <1>10
  <2>3. iter[1 .. 0] = <<>>
    BY <2>1, <2>2
  <2>4. Cut(<<>>) = <<>>
    BY DEF Cut
  <2>5. SubSeq(bs, 1, 0) = <<>>
    OBVIOUS
  <2>6. <<>> \in Seq(Built)
    OBVIOUS
  <2>7. Right(0)
    BY <2>3, <2>4, <2>5, <2>6, FlatEmpty
  <2> QED BY <2>7
<1>12. ASSUME NEW k \in S PROVE k + 1 \in S
  <2> SUFFICES ASSUME k + 1 <= n PROVE Right(k + 1)
    BY <1>12
  <2>1. k \in Nat /\ k <= n
    BY <1>1, <1>12
  <2>2. iter[1 .. k] \in Seq(Built) /\ Std!FlattenSeq(Cut(iter[1 .. k])) = SubSeq(bs, 1, k)
    BY <1>12, <2>1
  <2>3. 1 .. k + 1 \in SUBSET (1 .. n) /\ Largest(1 .. k + 1) = k + 1 /\ (1 .. k + 1) \ {k + 1} = 1 .. k /\ 1 .. k + 1 # {}
    BY <1>1, <2>1, LargestOf
  <2>4. iter[1 .. k + 1] = PutInto(iter[1 .. k], bs[k + 1])
    BY <1>10, <2>3
  <2>5. bs[k + 1] \in DatagramSet
    BY <1>1, <2>1
  <2> DEFINE a == iter[1 .. k]  b == bs[k + 1]
  <2>6. PutInto(a, b) \in Seq(Built) /\ Std!FlattenSeq(Cut(PutInto(a, b))) = Append(Std!FlattenSeq(Cut(a)), b)
    <3> HIDE DEF a, b
    <3>1. a \in Seq(Built) /\ b \in DatagramSet
      BY <2>2, <2>5 DEF a, b
    <3> QED BY <3>1, PutBuilt
  <2>7. SubSeq(bs, 1, k + 1) = Append(SubSeq(bs, 1, k), bs[k + 1])
    BY <1>1, <2>1
  <2> QED BY <2>2, <2>4, <2>6, <2>7
<1> HIDE DEF S
<1>13. S = Nat
  <2>1. S \in SUBSET Nat
    BY DEF S
  <2> QED BY <1>11, <1>12, <2>1, NatInd
<1>14. Right(n)
  <2>1. n \in S
    BY <1>1, <1>13
  <2>2. n <= n
    BY <1>1
  <2> QED BY <2>1, <2>2 DEF S
<1>15. SubSeq(bs, 1, n) = bs
  OBVIOUS
<1> QED BY <1>2, <1>14, <1>15

\* Without offload every datagram is a message.
LEMMA PlainCut ==
    ASSUME NEW bs \in Seq(DatagramSet)
    PROVE  Std!Plain(bs) \in Seq(Cuttable) /\ Std!FlattenSeq(Cut(Std!Plain(bs))) = bs
<1> DEFINE P(u) == Std!Plain(u) \in Seq(Cuttable) /\ Std!FlattenSeq(Cut(Std!Plain(u))) = u
           T == {k \in Nat : \A u \in Seq(DatagramSet) : Len(u) = k => P(u)}
<1>1. 0 \in T
  <2> SUFFICES ASSUME NEW u \in Seq(DatagramSet), Len(u) = 0 PROVE P(u)
    OBVIOUS
  <2>1. u = <<>>
    BY EmptySeq
  <2>2. Std!Plain(<<>>) = <<>>
    BY DEF Std!Plain
  <2>3. Cut(<<>>) = <<>>
    BY DEF Cut
  <2>4. <<>> \in Seq(Cuttable)
    OBVIOUS
  <2> QED BY <2>1, <2>2, <2>3, <2>4, FlatEmpty
<1>2. ASSUME NEW k \in T PROVE k + 1 \in T
  <2> SUFFICES ASSUME NEW u \in Seq(DatagramSet), Len(u) = k + 1 PROVE P(u)
    BY <1>2
  <2>1. u # <<>> /\ k \in Nat
    <3>1. k \in Nat
      BY <1>2
    <3>2. k + 1 # 0
      BY <3>1
    <3> QED BY <3>1, <3>2, EmptySeq
  <2>2. PICK v \in Seq(DatagramSet), x \in DatagramSet : u = Append(v, x)
    BY <2>1, SequenceEmptyOrAppend
  <2>3. Len(v) = k
    <3>1. Len(u) = Len(v) + 1 /\ Len(v) \in Nat
      BY <2>2, AppendProperties
    <3> QED BY <3>1, <2>1
  <2>4. P(v)
    BY <1>2, <2>3
  <2> DEFINE m == [bytes |-> x, gso |-> 0, count |-> 1, ended |-> FALSE]
  <2>5. x \in Seq(Byte)
    BY DEF DatagramSet
  <2>6. m \in Cuttable /\ Std!Segments(m) = <<x>>
    <3>1. m \in MessageSet /\ m.count = 1 /\ m.bytes = x
      BY <2>5 DEF MessageSet
    <3> HIDE DEF m
    <3>2. Std!Segments(m) = <<x>>
      BY <3>1 DEF Std!Segments
    <3>3. <<x>> \in Seq(Seq(Byte))
      BY <2>5
    <3> QED BY <3>1, <3>2, <3>3 DEF Cuttable
  <2>7. Std!Plain(u) = Append(Std!Plain(v), m)
    <3> DEFINE p == Std!Plain(u)  r == Std!Plain(v)
    <3>1. Len(u) = k + 1 /\ u[k + 1] = x /\ \A i \in 1 .. k : u[i] = v[i]
      BY <2>2, <2>3, AppendProperties
    <3>2. DOMAIN u = 1 .. k + 1
      BY <3>1
    <3>3. p = [i \in 1 .. k + 1 |-> [bytes |-> u[i], gso |-> 0, count |-> 1, ended |-> FALSE]]
      BY <3>2 DEF Std!Plain
    <3>4. r \in Seq(Cuttable) /\ r = [i \in 1 .. k |-> [bytes |-> v[i], gso |-> 0, count |-> 1, ended |-> FALSE]]
      <4>1. DOMAIN v = 1 .. k
        BY <2>3
      <4> QED BY <4>1, <2>4 DEF Std!Plain
    <3>5. Len(r) = k /\ \A i \in 1 .. k : r[i] = p[i]
      <4>1. DOMAIN r = 1 .. k
        BY <3>4
      <4>2. \A i \in 1 .. k : r[i] = [bytes |-> v[i], gso |-> 0, count |-> 1, ended |-> FALSE]
        BY <3>4
      <4>3. \A i \in 1 .. k : p[i] = [bytes |-> u[i], gso |-> 0, count |-> 1, ended |-> FALSE]
        <5>1. \A i \in 1 .. k : i \in 1 .. k + 1
          BY <2>1
        <5> QED BY <5>1, <3>3
      <4> HIDE DEF r, p
      <4>4. Len(r) = k
        BY <4>1, <3>4, <2>1
      <4> QED BY <4>2, <4>3, <4>4, <3>1
    <3>6. p[k + 1] = m
      <4>1. k + 1 \in 1 .. k + 1
        BY <2>1
      <4>2. p[k + 1] = [bytes |-> u[k + 1], gso |-> 0, count |-> 1, ended |-> FALSE]
        BY <4>1, <3>3
      <4> HIDE DEF p
      <4> QED BY <4>2, <3>1
    <3>7. DOMAIN p = 1 .. k + 1 /\ p = [i \in 1 .. k + 1 |-> p[i]]
      BY <3>3
    <3> HIDE DEF p, r, m
    <3>8. Append(r, m) = [i \in 1 .. k + 1 |-> IF i = k + 1 THEN m ELSE r[i]]
      BY <3>4, <3>5, <2>1
    <3>9. \A i \in 1 .. k + 1 : p[i] = (IF i = k + 1 THEN m ELSE r[i])
      BY <3>5, <3>6, <2>1
    <3>10. p = Append(r, m)
      BY <3>7, <3>8, <3>9
    <3> QED BY <3>10 DEF p, r
  <2> HIDE DEF m
  <2> DEFINE q == Std!Plain(v)
  <2>8. q \in Seq(Cuttable) /\ Std!FlattenSeq(Cut(q)) = v
    BY <2>4
  <2> HIDE DEF q
  <2>9. Append(q, m) \in Seq(Cuttable)
    BY <2>6, <2>8, AppendProperties
  <2>10. Cut(Append(q, m)) = Append(Cut(q), <<x>>) /\ Cut(q) \in Seq(Seq(Seq(Byte)))
    BY <2>6, <2>8, CutAppend, CutTyped
  <2> DEFINE S == Seq(Byte)  c == Cut(q)  y == <<x>>
  <2>11. c \in Seq(Seq(S)) /\ y \in Seq(S) /\ x \in S
    BY <2>5, <2>10
  <2>12. Std!FlattenSeq(Append(c, y)) = v \o y
    <3> HIDE DEF S, c, y
    <3>1. Std!FlattenSeq(Append(c, y)) = Std!FlattenSeq(c) \o y
      BY <2>11, FlatAppend
    <3> QED BY <3>1, <2>8 DEF c
  <2>13. v \o y = u
    BY <2>2, AppendIsConcat
  <2> QED BY <2>7, <2>9, <2>10, <2>12, <2>13 DEF q
<1> HIDE DEF T
<1>3. T = Nat
  <2>1. T \in SUBSET Nat
    BY DEF T
  <2> QED BY <1>1, <1>2, <2>1, NatInd
<1>4. Len(bs) \in Nat
  OBVIOUS
<1> QED BY <1>3, <1>4 DEF T

\* A place for a segment, and where the segments of message k come from.
Placed == [seg : Seq(Byte), at : Nat]
From(msgs, k) == [j \in DOMAIN Std!Segments(msgs[k]) |-> [seg |-> Std!Segments(msgs[k])[j], at |-> Std!ReadAt + k]]

\* What the front of the batch holds after some messages: their segments in order,
\* none beyond the message it was read from, and no more than they can hold.
InFront(p, s, k) ==
    /\ p \in Seq(Placed) /\ Len(p) = Len(s) /\ Len(p) <= k * MaxSegments
    /\ \A j \in 1 .. Len(p) : p[j].seg = s[j] /\ j <= p[j].at

\* The next message's segments: it is the k-th, and k messages of full size end no
\* later than where the k-th was read to.
LEMMA NextInFront ==
    ASSUME NEW p, NEW s \in Seq(Seq(Byte)), NEW k \in Nat \ {0}, NEW m \in Built, InFront(p, s, k - 1),
           k * MaxSegments <= Std!ReadAt + k, Std!ReadAt \in Nat, NEW c,
           c = [j \in DOMAIN Std!Segments(m) |-> [seg |-> Std!Segments(m)[j], at |-> Std!ReadAt + k]]
    PROVE  c \in Seq(Placed) /\ InFront(p \o c, s \o Std!Segments(m), k)
<1> DEFINE b == Std!Segments(m)  n == m.count  a == Len(p)
<1>1. b \in Seq(Seq(Byte)) /\ Len(b) = n /\ n \in 1 .. MaxSegments /\ MaxSegments \in Nat
  BY BindAssumption DEF Built, Cuttable, Holds
<1>2. /\ p \in Seq(Placed) /\ a \in Nat /\ a = Len(s) /\ a <= (k - 1) * MaxSegments
      /\ \A j \in 1 .. a : p[j].seg = s[j] /\ j <= p[j].at
  BY DEF InFront
<1>3. n \in Nat /\ DOMAIN b = 1 .. n /\ \A j \in 1 .. n : b[j] \in Seq(Byte)
  <2> DEFINE W == Seq(Byte)
  <2>1. b \in Seq(W)
    BY <1>1
  <2> HIDE DEF W, b
  <2>2. \A j \in 1 .. Len(b) : b[j] \in W
    BY <2>1, ElementOfSeq
  <2>3. DOMAIN b = 1 .. Len(b) /\ Len(b) \in Nat
    BY <2>1
  <2> QED BY <2>2, <2>3, <1>1 DEF W
<1>4. c = [j \in 1 .. n |-> [seg |-> b[j], at |-> Std!ReadAt + k]]
  BY <1>3
<1> DEFINE at == Std!ReadAt + k
<1>5. at \in Nat
  OBVIOUS
<1>6. k * MaxSegments <= at
  OBVIOUS
<1> HIDE DEF b, at, n
<1>7. \A j \in 1 .. n : [seg |-> b[j], at |-> at] \in Placed
  BY <1>3, <1>5 DEF Placed
<1>8. c \in [1 .. n -> Placed]
  BY <1>4, <1>7 DEF at
<1>9. c \in Seq(Placed) /\ Len(c) = n
  BY <1>3, <1>8
<1>10. \A j \in 1 .. n : c[j].seg = b[j] /\ c[j].at = at
  BY <1>4 DEF at
<1> HIDE DEF a
<1> DEFINE q == p \o c  t == s \o b
<1>11. q \in Seq(Placed) /\ Len(q) = a + n /\ \A j \in 1 .. a + n : q[j] = (IF j <= a THEN p[j] ELSE c[j - a])
  <2>1. Len(p) = a
    BY DEF a
  <2>2. q \in Seq(Placed) /\ Len(q) = Len(p) + Len(c)
    BY <1>2, <1>9, ConcatProperties
  <2>3. \A j \in 1 .. Len(p) + Len(c) : q[j] = (IF j <= Len(p) THEN p[j] ELSE c[j - Len(p)])
    BY <1>2, <1>9, ConcatProperties
  <2> QED BY <2>1, <2>2, <2>3, <1>9
<1>12. t \in Seq(Seq(Byte)) /\ Len(t) = a + n /\ \A j \in 1 .. a + n : t[j] = (IF j <= a THEN s[j] ELSE b[j - a])
  <2> DEFINE W == Seq(Byte)
  <2>0. s \in Seq(W) /\ b \in Seq(W)
    BY <1>1
  <2> HIDE DEF W
  <2>2. t \in Seq(W) /\ Len(t) = Len(s) + Len(b)
    BY <2>0, ConcatProperties
  <2>3. \A j \in 1 .. Len(s) + Len(b) : t[j] = (IF j <= Len(s) THEN s[j] ELSE b[j - Len(s)])
    BY <2>0, ConcatProperties
  <2> QED BY <2>2, <2>3, <1>1, <1>2 DEF W
<1>13. a + n <= k * MaxSegments /\ k * MaxSegments \in Int
  <2> DEFINE x == k * MaxSegments  y == (k - 1) * MaxSegments
  <2>1. y = x - MaxSegments /\ x \in Int /\ y \in Int
    BY <1>1, Product
  <2>2. a <= y
    BY <1>2
  <2> HIDE DEF x, y
  <2>3. a + n <= x
    BY <2>1, <2>2, <1>1, <1>2, <1>3
  <2> QED BY <2>1, <2>3 DEF x
<1> HIDE DEF q, t
<1>14. \A j \in 1 .. a + n : q[j].seg = t[j] /\ j <= q[j].at
  <2> SUFFICES ASSUME NEW j \in 1 .. a + n PROVE q[j].seg = t[j] /\ j <= q[j].at
    OBVIOUS
  <2>1. CASE j <= a
    <3>1. j \in 1 .. a
      BY <2>1, <1>2
    <3> QED BY <2>1, <3>1, <1>2, <1>11, <1>12
  <2>2. CASE ~(j <= a)
    <3>1. j - a \in 1 .. n
      BY <2>2, <1>2, <1>3
    <3>2. q[j] = c[j - a] /\ t[j] = b[j - a]
      BY <2>2, <1>11, <1>12
    <3>3. j <= at
      <4> DEFINE x == k * MaxSegments
      <4>1. x \in Int /\ a + n <= x /\ x <= at
        BY <1>6, <1>13
      <4> HIDE DEF x
      <4> QED BY <4>1, <1>2, <1>3, <1>5
    <3> QED BY <3>1, <3>2, <3>3, <1>10
  <2> QED BY <2>1, <2>2
<1>15. InFront(q, t, k)
  BY <1>11, <1>12, <1>13, <1>14 DEF InFront
<1> QED BY <1>9, <1>15 DEF q, t, b

\* There is room for k full messages before the end of the k-th.
LEMMA RoomBefore ==
    ASSUME NEW k \in Nat, k <= RxBatch - Std!ReadAt
    PROVE  Std!ReadAt \in Nat /\ k * MaxSegments <= Std!ReadAt + k
<1> DEFINE q == RxBatch \div MaxSegments
<1>1. RxBatch \in Nat /\ MaxSegments \in Nat \ {0}
  BY BindAssumption
<1>2. q \in Nat /\ MaxSegments * q \in Nat /\ MaxSegments * q <= RxBatch
  <2>1. /\ q \in Nat /\ RxBatch % MaxSegments \in 0 .. (MaxSegments - 1) /\ MaxSegments * q \in Nat
        /\ RxBatch = MaxSegments * q + (RxBatch % MaxSegments)
    BY <1>1, Division
  <2> DEFINE x == MaxSegments * q  r == RxBatch % MaxSegments
  <2>2. x \in Nat /\ r \in Nat /\ RxBatch = x + r
    BY <2>1, <1>1
  <2> HIDE DEF x, r
  <2>3. x <= RxBatch
    BY <2>2
  <2> QED BY <2>1, <2>3 DEF x
<1>3. Std!ReadAt = RxBatch - q
  BY DEF Std!ReadAt
<1> HIDE DEF q
<1>4. k <= q
  BY <1>1, <1>2, <1>3
<1>5. q <= MaxSegments * q
  <2>1. q * 1 <= q * MaxSegments /\ q * 1 = q
    BY <1>1, <1>2
  <2> QED BY <2>1, <1>1, <1>2
<1>6. (q - k) * 1 <= (q - k) * MaxSegments
  <2> DEFINE d == q - k
  <2>1. d \in Nat
    BY <1>2, <1>4
  <2> HIDE DEF d
  <2>2. d * 1 <= d * MaxSegments
    BY <2>1, <1>1
  <2> QED BY <2>2 DEF d
<1>7. (q - k) * MaxSegments = MaxSegments * q - k * MaxSegments
  BY <1>1, <1>2
<1> DEFINE x == MaxSegments * q  y == k * MaxSegments  z == (q - k) * MaxSegments
<1>8. x \in Nat /\ y \in Nat /\ z \in Int /\ z = x - y /\ q - k <= z /\ x <= RxBatch /\ q <= x
  <2>1. y \in Nat
    BY <1>1, ProductNat
  <2>2. (q - k) * 1 = q - k
    BY <1>2
  <2> QED BY <2>1, <2>2, <1>1, <1>2, <1>5, <1>6, <1>7
<1> HIDE DEF x, y, z
<1>9. RxBatch - q \in Nat /\ y <= (RxBatch - q) + k
  BY <1>8, <1>1, <1>2
<1> QED BY <1>9, <1>3 DEF y

\* A batch that was coalesced comes apart at the receiver.
LEMMA BatchIsSplit ==
    ASSUME NEW bs \in Seq(DatagramSet), Len(Std!Coalesced(bs)) <= RxBatch - Std!ReadAt
    PROVE  Std!Split(Std!Coalesced(bs)) = [err |-> FALSE, out |-> bs]
<1> DEFINE msgs == Std!Coalesced(bs)  n == Len(msgs)
           fs == [k \in 1 .. n |-> From(msgs, k)]
           cs == Cut(msgs)
<1>1. msgs \in Seq(Built) /\ Std!FlattenSeq(cs) = bs
  BY CoalescedBuilt
<1>2. n \in Nat /\ DOMAIN msgs = 1 .. n /\ n <= RxBatch - Std!ReadAt /\ \A k \in 1 .. n : msgs[k] \in Built
  BY <1>1, ElementOfSeq
<1>3. msgs \in Seq(Cuttable)
  BY <1>1 DEF Built
<1>4. cs \in Seq(Seq(Seq(Byte))) /\ Len(cs) = n /\ \A k \in 1 .. n : cs[k] = Std!Segments(msgs[k])
  BY <1>3, CutTyped DEF Cut
<1>5. Std!ReadAt \in Nat
  BY <1>2, RoomBefore
<1>6. \A k \in 1 .. n : k * MaxSegments <= Std!ReadAt + k
  <2> SUFFICES ASSUME NEW k \in 1 .. n PROVE k * MaxSegments <= Std!ReadAt + k
    OBVIOUS
  <2>1. k \in Nat /\ k <= RxBatch - Std!ReadAt
    BY <1>2, <1>5, BindAssumption
  <2> QED BY <2>1, RoomBefore
<1> HIDE DEF msgs, cs
<1>7. ASSUME NEW k \in 1 .. n, NEW p, NEW s \in Seq(Seq(Byte)), InFront(p, s, k - 1)
      PROVE  fs[k] \in Seq(Placed) /\ InFront(p \o fs[k], s \o cs[k], k)
  <2> DEFINE c == fs[k]  m == msgs[k]
  <2>1. c = [j \in DOMAIN Std!Segments(m) |-> [seg |-> Std!Segments(m)[j], at |-> Std!ReadAt + k]]
    BY <1>2 DEF From
  <2>2. k \in Nat \ {0} /\ m \in Built /\ cs[k] = Std!Segments(m) /\ k * MaxSegments <= Std!ReadAt + k
    BY <1>2, <1>4, <1>6
  <2> HIDE DEF c, m
  <2>3. c \in Seq(Placed) /\ InFront(p \o c, s \o Std!Segments(m), k)
    BY <1>5, <1>7, <2>1, <2>2, NextInFront
  <2> QED BY <2>2, <2>3 DEF c
<1>8. InFront(<<>>, <<>>, 0) /\ <<>> \in Seq(Seq(Byte))
  <2>1. 0 * MaxSegments = 0
    BY BindAssumption
  <2>2. <<>> \in Seq(Placed) /\ Len(<<>>) = 0 /\ <<>> \in Seq(Seq(Byte))
    OBVIOUS
  <2> DEFINE p == <<>>
  <2>3. p \in Seq(Placed) /\ Len(p) = 0
    BY <2>2
  <2>4. Len(p) <= 0 * MaxSegments
    BY <2>1, <2>3
  <2>5. \A j \in 1 .. Len(p) : p[j].seg = p[j] /\ j <= p[j].at
    <3> HIDE DEF p
    <3>1. 1 .. Len(p) = {}
      BY <2>3
    <3> QED BY <3>1
  <2> HIDE DEF p
  <2>6. InFront(p, p, 0)
    BY <2>3, <2>4, <2>5 DEF InFront
  <2> QED BY <2>2, <2>6 DEF p
<1>9. fs \in Seq(Seq(Placed)) /\ Len(fs) = n
  <2>1. \A k \in 1 .. n : fs[k] \in Seq(Placed)
    <3> SUFFICES ASSUME NEW k \in 1 .. n PROVE fs[k] \in Seq(Placed)
      OBVIOUS
    <3> DEFINE m == msgs[k]  b == Std!Segments(m)  at == Std!ReadAt + k  W == Seq(Byte)
    <3>1. m \in Cuttable /\ at \in Nat
      BY <1>2, <1>5 DEF Built
    <3>2. b \in Seq(W)
      BY <3>1 DEF Cuttable
    <3>3. fs[k] = [j \in DOMAIN b |-> [seg |-> b[j], at |-> at]]
      BY DEF From
    <3> HIDE DEF m, b, at, W, fs
    <3>4. DOMAIN b = 1 .. Len(b) /\ Len(b) \in Nat
      BY <3>2
    <3>5. \A j \in 1 .. Len(b) : b[j] \in W
      BY <3>2, ElementOfSeq
    <3>6. \A j \in 1 .. Len(b) : [seg |-> b[j], at |-> at] \in Placed
      BY <3>1, <3>5 DEF Placed, W
    <3>7. fs[k] \in [1 .. Len(b) -> Placed]
      BY <3>3, <3>4, <3>6
    <3> QED BY <3>4, <3>7
  <2> DEFINE V == Seq(Placed)
  <2>2. fs \in [1 .. n -> V]
    BY <2>1
  <2> HIDE DEF V, fs
  <2>3. fs \in Seq(V) /\ Len(fs) = n
    BY <1>2, <2>2
  <2> QED BY <2>3 DEF V
<1> HIDE DEF fs, n
<1> DEFINE S == Seq(Byte)
<1>10. PICK h \in [0 .. n -> Seq(Placed)] : IsFlat(h, fs)
  BY <1>9, FlatExists
<1>11. PICK g \in [0 .. n -> Seq(S)] : IsFlat(g, cs)
  <2>1. cs \in Seq(Seq(S)) /\ Len(cs) = n
    BY <1>4
  <2> HIDE DEF S
  <2> QED BY <2>1, FlatExists
<1>12. Std!FlattenSeq(fs) = h[n]
  BY <1>9, <1>10, FlatIs
<1>13. Std!FlattenSeq(cs) = g[n]
  <2>1. cs \in Seq(Seq(S)) /\ Len(cs) = n
    BY <1>4
  <2> HIDE DEF S
  <2> QED BY <2>1, <1>11, FlatIs
<1> DEFINE T == {k \in Nat : k <= n => InFront(h[k], g[k], k)}
<1>14. 0 \in T
  <2>1. h[0] = <<>> /\ g[0] = <<>>
    BY <1>10, <1>11 DEF IsFlat
  <2> QED BY <2>1, <1>8
<1>15. ASSUME NEW k \in T PROVE k + 1 \in T
  <2> SUFFICES ASSUME k + 1 <= n PROVE InFront(h[k + 1], g[k + 1], k + 1)
    BY <1>15
  <2>1. k \in Nat /\ k + 1 \in 1 .. n /\ (k + 1) - 1 = k /\ k \in 0 .. n /\ k <= n
    BY <1>2, <1>15
  <2>2. InFront(h[k], g[k], k)
    BY <1>15, <2>1
  <2>3. h[k + 1] = h[k] \o fs[k + 1] /\ g[k + 1] = g[k] \o cs[k + 1]
    <3>1. h[k + 1] = h[(k + 1) - 1] \o fs[k + 1]
      BY <1>9, <1>10, <2>1 DEF IsFlat
    <3>2. g[k + 1] = g[(k + 1) - 1] \o cs[k + 1]
      BY <1>4, <1>11, <2>1 DEF IsFlat
    <3> QED BY <3>1, <3>2, <2>1
  <2>4. g[k] \in Seq(Seq(Byte))
    BY <1>11, <2>1
  <2> DEFINE i == k + 1  p == h[k]  s == g[k]
  <2>5. i \in 1 .. n /\ InFront(p, s, i - 1) /\ s \in Seq(Seq(Byte))
    BY <2>1, <2>2, <2>4
  <2> HIDE DEF i, p, s
  <2>6. InFront(p \o fs[i], s \o cs[i], i)
    BY <2>5, <1>7
  <2> QED BY <2>3, <2>6 DEF i, p, s
<1> HIDE DEF T
<1>16. T = Nat
  <2>1. T \in SUBSET Nat
    BY DEF T
  <2> QED BY <1>14, <1>15, <2>1, NatInd
<1>17. InFront(h[n], g[n], n)
  <2>1. n \in T /\ n <= n
    BY <1>2, <1>16
  <2> QED BY <2>1 DEF T
<1> DEFINE all == h[n]
<1>18. /\ all \in Seq(Placed) /\ Len(all) = Len(bs) /\ Len(all) \in Nat
       /\ \A j \in 1 .. Len(all) : all[j].seg = bs[j] /\ j <= all[j].at
  BY <1>1, <1>13, <1>17 DEF InFront
<1>19. Std!Split(msgs) = [err |-> \E j \in DOMAIN all : j > all[j].at, out |-> [j \in DOMAIN all |-> all[j].seg]]
  <2>1. [k \in DOMAIN msgs |-> [j \in DOMAIN Std!Segments(msgs[k]) |-> [seg |-> Std!Segments(msgs[k])[j], at |-> Std!ReadAt + k]]] = fs
    BY <1>2 DEF fs, From
  <2>2. Std!FlattenSeq(fs) = all
    BY <1>12
  <2> HIDE DEF all
  <2> QED BY <2>1, <2>2 DEF Std!Split
<1> HIDE DEF all
<1>20. DOMAIN all = 1 .. Len(all) /\ DOMAIN bs = 1 .. Len(bs)
  BY <1>18
<1>21. ~ \E j \in DOMAIN all : j > all[j].at
  <2> SUFFICES ASSUME NEW j \in 1 .. Len(all), j > all[j].at PROVE FALSE
    BY <1>20
  <2>1. all[j] \in Placed
    BY <1>18, ElementOfSeq
  <2>2. all[j].at \in Nat /\ j \in Nat /\ j <= all[j].at
    BY <2>1, <1>18 DEF Placed
  <2> QED BY <2>2
<1>22. [j \in DOMAIN all |-> all[j].seg] = bs
  <2>1. [j \in DOMAIN all |-> all[j].seg] = [j \in 1 .. Len(bs) |-> bs[j]]
    BY <1>18, <1>20
  <2>2. bs = [j \in 1 .. Len(bs) |-> bs[j]]
    BY <1>20
  <2> QED BY <2>1, <2>2
<1> QED BY <1>19, <1>21, <1>22 DEF msgs

-----------------------------------------------------------------------------
(* The inductive invariant of the device's sockets.                        *)

SendRecord == [at : {"no", "write", "done"}, bufs : Seq(DatagramSet), conn : Nat, gso : BOOLEAN,
               msgs : Seq(Cuttable), retried : BOOLEAN, before : Nat, ok : BOOLEAN]

\* A Send in progress: what is on the wire and what is still to be written make the
\* batch, after the front of it that went out before segmentation was given up.
SendInv ==
    /\ send \in SendRecord /\ wire \in Seq(Seq(Byte))
    /\ send.before \in 0 .. Len(send.bufs)
    /\ send.before > 0 => send.retried
    /\ send.gso => send.before = 0
    /\ send.at # "done" => ~send.ok
    /\ send.at = "write" =>
          wire \o Std!FlattenSeq(Cut(send.msgs)) = SubSeq(send.bufs, 1, send.before) \o send.bufs
    /\ send.ok => wire = SubSeq(send.bufs, 1, send.before) \o send.bufs

\* The one socket there may be while Open is between the two families.
Socket4 == [id |-> 2 * opens, family |-> 4, port |-> opening.port]

\* Where Open is, and the sockets there are then.
OpenInv ==
    /\ opens \in Nat /\ v4 \in 0 .. 2 * opens + 1 /\ v6 \in 0 .. 2 * opens + 1 /\ offload \in BOOLEAN
    /\ opening \in [at : {"no", "v4", "v6"}, v4 : Nat, port : Ports \cup {0}, tries : 0 .. MaxTries]
    /\ opening.at = "no" => Std!SocketsAreOwned
    /\ opening.at # "no" => v4 = 0 /\ v6 = 0 /\ opens > 0
    /\ opening.at = "v4" => sockets = {}
    /\ opening.at = "v6" => \/ opening.v4 = 0 /\ opening.port = 0 /\ sockets = {}
                            \/ opening.v4 = 2 * opens /\ opening.port # 0 /\ sockets = {Socket4}

\* A batch is a sequence of datagrams.
LEMMA BatchTyped ==
    ASSUME NEW lens \in Std!Lengths
    PROVE  [d \in DOMAIN lens |-> Std!Datagram(d, lens[d])] \in Seq(DatagramSet)
<1>1. PICK n \in 1 .. MaxBatch : lens \in [1 .. n -> Sizes]
  BY DEF Std!Lengths
<1>2. n \in Nat /\ DOMAIN lens = 1 .. n /\ \A d \in 1 .. n : lens[d] \in Nat \ {0}
  <2>1. MaxBatch \in Nat /\ \A x \in Sizes : x \in Nat \ {0}
    BY BindAssumption
  <2>2. n \in Nat /\ DOMAIN lens = 1 .. n /\ \A d \in 1 .. n : lens[d] \in Sizes
    BY <1>1, <2>1
  <2> QED BY <2>1, <2>2
<1>3. \A d \in 1 .. n : Std!Datagram(d, lens[d]) \in DatagramSet
  <2> SUFFICES ASSUME NEW d \in 1 .. n PROVE Std!Datagram(d, lens[d]) \in DatagramSet
    OBVIOUS
  <2> DEFINE l == lens[d]  x == Std!Datagram(d, l)
  <2>1. l \in Nat \ {0} /\ d \in Nat
    BY <1>2
  <2>2. x = [i \in 1 .. l |-> <<d, i>>]
    BY DEF Std!Datagram
  <2> HIDE DEF l, x
  <2>3. x \in [1 .. l -> Byte]
    BY <2>1, <2>2 DEF Byte
  <2> HIDE DEF Byte
  <2>4. x \in Seq(Byte) /\ Len(x) = l
    BY <2>1, <2>3
  <2> QED BY <2>1, <2>4 DEF DatagramSet, x, l
<1> DEFINE b == [d \in 1 .. n |-> Std!Datagram(d, lens[d])]
<1>4. b \in [1 .. n -> DatagramSet]
  BY <1>3
<1> HIDE DEF DatagramSet
<1>5. b \in Seq(DatagramSet)
  BY <1>2, <1>4
<1> QED BY <1>2, <1>5

LEMMA MessagesCut ==
    ASSUME NEW bs \in Seq(DatagramSet), NEW gso \in BOOLEAN
    PROVE  Std!Messages(bs, gso) \in Seq(Cuttable) /\ Std!FlattenSeq(Cut(Std!Messages(bs, gso))) = bs
<1>1. CASE gso
  <2>1. Std!Messages(bs, gso) = Std!Coalesced(bs)
    BY <1>1 DEF Std!Messages
  <2>2. Std!Coalesced(bs) \in Seq(Built) /\ Std!FlattenSeq(Cut(Std!Coalesced(bs))) = bs
    BY CoalescedBuilt
  <2>3. \A s \in Seq(Built) : s \in Seq(Cuttable)
    BY DEF Built
  <2> QED BY <2>1, <2>2, <2>3
<1>2. CASE ~gso
  <2>1. Std!Messages(bs, gso) = Std!Plain(bs)
    BY <1>2 DEF Std!Messages
  <2> QED BY <2>1, PlainCut
<1> QED BY <1>1, <1>2

\* After a write of n messages the rest is still to be cut.
LEMMA WrittenAndRest ==
    ASSUME NEW msgs \in Seq(Cuttable), NEW n \in 1 .. Len(msgs), NEW c, c = [i \in 1 .. n |-> Std!Segments(msgs[i])]
    PROVE  /\ Std!Rest(msgs, n) \in Seq(Cuttable) /\ Std!FlattenSeq(c) \in Seq(Seq(Byte))
           /\ Std!FlattenSeq(Cut(Std!Rest(msgs, n))) \in Seq(Seq(Byte))
           /\ Std!FlattenSeq(Cut(msgs)) = Std!FlattenSeq(c) \o Std!FlattenSeq(Cut(Std!Rest(msgs, n)))
           /\ n = Len(msgs) => Std!FlattenSeq(Cut(msgs)) = Std!FlattenSeq(c)
<1> DEFINE r == Std!Rest(msgs, n)  m == Len(msgs)  W == Seq(Seq(Byte))  d == Cut(r)  all == Cut(msgs)
<1>1. m \in Nat /\ n \in Nat /\ n <= m /\ \A i \in 1 .. m : msgs[i] \in Cuttable
  BY ElementOfSeq
<1>2. r \in Seq(Cuttable) /\ Len(r) = m - n /\ \A i \in 1 .. m - n : r[i] = msgs[n + i]
  <2>1. r = SubSeq(msgs, n + 1, m)
    BY DEF Std!Rest
  <2>2. \A i \in n + 1 .. m : msgs[i] \in Cuttable
    BY <1>1
  <2> HIDE DEF r, m
  <2>3. n + 1 \in Int /\ m \in Int
    BY <1>1
  <2>4. /\ r \in Seq(Cuttable) /\ Len(r) = (IF n + 1 <= m THEN m - (n + 1) + 1 ELSE 0)
        /\ \A i \in 1 .. m - (n + 1) + 1 : r[i] = msgs[(n + 1) + i - 1]
    BY <2>1, <2>2, <2>3, SubSeqProperties
  <2>5. m - (n + 1) + 1 = m - n /\ Len(r) = m - n
    BY <1>1, <2>4
  <2>6. \A i \in 1 .. m - n : (n + 1) + i - 1 = n + i
    BY <1>1
  <2> QED BY <2>4, <2>5, <2>6
<1>3. all \in Seq(W) /\ Len(all) = m /\ \A i \in 1 .. m : all[i] = Std!Segments(msgs[i])
  BY CutTyped DEF Cut
<1>4. d \in Seq(W) /\ Len(d) = m - n
  BY <1>2, CutTyped
<1>5. \A i \in 1 .. m - n : d[i] = Std!Segments(r[i])
  BY <1>2 DEF Cut
<1>6. c \in Seq(W) /\ Len(c) = n
  <2>1. \A i \in 1 .. n : Std!Segments(msgs[i]) \in W
    BY <1>1 DEF Cuttable
  <2>2. c \in [1 .. n -> W]
    BY <2>1
  <2> HIDE DEF W
  <2> QED BY <1>1, <2>2
<1>7. \A i \in 1 .. n : c[i] = Std!Segments(msgs[i])
  OBVIOUS
<1> HIDE DEF all, d, W, r, m
<1> DEFINE u == c \o d
<1>8. u \in Seq(W) /\ Len(u) = m /\ \A i \in 1 .. m : u[i] = (IF i <= n THEN c[i] ELSE d[i - n])
  <2>1. u \in Seq(W) /\ Len(u) = Len(c) + Len(d)
    BY <1>4, <1>6, ConcatProperties
  <2>2. \A i \in 1 .. Len(c) + Len(d) : u[i] = (IF i <= Len(c) THEN c[i] ELSE d[i - Len(c)])
    BY <1>4, <1>6, ConcatProperties
  <2>3. Len(c) + Len(d) = m
    BY <1>1, <1>4, <1>6
  <2> QED BY <2>1, <2>2, <2>3, <1>6
<1> HIDE DEF u
<1>9. \A i \in 1 .. m : u[i] = all[i]
  <2> SUFFICES ASSUME NEW i \in 1 .. m PROVE u[i] = all[i]
    OBVIOUS
  <2>1. CASE i <= n
    <3>1. i \in 1 .. n
      BY <2>1, <1>1
    <3> QED BY <2>1, <3>1, <1>3, <1>7, <1>8
  <2>2. CASE ~(i <= n)
    <3>1. i - n \in 1 .. m - n /\ n + (i - n) = i
      BY <2>2, <1>1
    <3>2. d[i - n] = Std!Segments(r[i - n]) /\ r[i - n] = msgs[n + (i - n)]
      BY <3>1, <1>2, <1>5
    <3> QED BY <2>2, <3>1, <3>2, <1>3, <1>8
  <2> QED BY <2>1, <2>2
<1>10. u = all
  BY <1>3, <1>8, <1>9, SeqEqual
<1> DEFINE S == Seq(Byte)
<1>11. W = Seq(S)
  BY DEF W
<1> HIDE DEF S
<1>12. Std!FlattenSeq(c) \in Seq(S) /\ Std!FlattenSeq(d) \in Seq(S) /\ Std!FlattenSeq(u) = Std!FlattenSeq(c) \o Std!FlattenSeq(d)
  <2>1. c \in Seq(Seq(S)) /\ d \in Seq(Seq(S)) /\ <<>> \in Seq(S)
    BY <1>4, <1>6, <1>11
  <2>2. Std!FlattenSeq(c) \in Seq(S) /\ Std!FlattenSeq(d) \in Seq(S)
    BY <2>1, FlatAppend
  <2>3. Std!FlattenSeq(c \o d) = Std!FlattenSeq(c) \o Std!FlattenSeq(d)
    BY <2>1, FlatConcat
  <2> QED BY <2>2, <2>3 DEF u
<1>13. n = m => c = all
  <2> SUFFICES ASSUME n = m PROVE c = all
    OBVIOUS
  <2>1. \A i \in 1 .. n : c[i] = all[i]
    BY <1>3, <1>7
  <2> QED BY <2>1, <1>3, <1>6, SeqEqual
<1> QED BY <1>2, <1>10, <1>12, <1>13 DEF all, d, r, m, S

\* What begins a sequence is its front.
LEMMA BeginningIsFront ==
    ASSUME NEW S, NEW w \in Seq(S), NEW x \in Seq(S), NEW bs, w \o x = bs
    PROVE  Len(w) \in 0 .. Len(bs) /\ w = SubSeq(bs, 1, Len(w))
<1> DEFINE n == Len(w)
<1>1. bs \in Seq(S) /\ Len(bs) = n + Len(x) /\ n \in Nat /\ Len(x) \in Nat /\ \A i \in 1 .. n + Len(x) : bs[i] = (IF i <= n THEN w[i] ELSE x[i - n])
  <2>1. bs \in Seq(S) /\ Len(bs) = Len(w) + Len(x)
    BY ConcatProperties
  <2>2. \A i \in 1 .. Len(w) + Len(x) : bs[i] = (IF i <= Len(w) THEN w[i] ELSE x[i - Len(w)])
    BY ConcatProperties
  <2> QED BY <2>1, <2>2
<1> HIDE DEF n
<1>2. n \in 0 .. Len(bs)
  BY <1>1
<1> DEFINE s == SubSeq(bs, 1, n)
<1>3. s \in Seq(S) /\ Len(s) = n /\ \A i \in 1 .. n : s[i] = bs[i]
  BY <1>1, <1>2, SubSeqProperties
<1>4. \A i \in 1 .. n : bs[i] = w[i]
  BY <1>1
<1> HIDE DEF s
<1>5. s = w
  BY <1>3, <1>4, SeqEqual DEF n
<1> QED BY <1>2, <1>5 DEF s, n

\* Writing, whatever the kernel does with the messages.
LEMMA WriteKeeps ==
    ASSUME SendInv, offload \in BOOLEAN, Std!Write
    PROVE  SendInv' /\ offload' \in BOOLEAN
<1> DEFINE bs == send.bufs  b == send.before  msgs == send.msgs  front == SubSeq(bs, 1, b)
<1>1. /\ send \in SendRecord /\ wire \in Seq(Seq(Byte)) /\ b \in 0 .. Len(bs) /\ (b > 0 => send.retried)
      /\ (send.gso => b = 0) /\ ~send.ok /\ send.at = "write"
      /\ wire \o Std!FlattenSeq(Cut(msgs)) = front \o bs
  BY DEF SendInv, Std!Write
<1>2. /\ bs \in Seq(DatagramSet) /\ send.conn \in Nat /\ send.gso \in BOOLEAN /\ msgs \in Seq(Cuttable)
      /\ send.retried \in BOOLEAN /\ b \in Nat /\ send.ok \in BOOLEAN
      /\ send = [at |-> send.at, bufs |-> bs, conn |-> send.conn, gso |-> send.gso, msgs |-> msgs,
                 retried |-> send.retried, before |-> b, ok |-> send.ok]
  BY <1>1 DEF SendRecord
<1>3. ASSUME NEW n \in 1 .. Len(msgs),
             wire' = wire \o Std!FlattenSeq([i \in 1 .. n |-> Std!Segments(msgs[i])]),
             send' = IF n = Len(msgs) THEN [send EXCEPT !.at = "done", !.msgs = <<>>, !.ok = TRUE]
                                      ELSE [send EXCEPT !.msgs = Std!Rest(@, n)],
             UNCHANGED offload
      PROVE  SendInv' /\ offload' \in BOOLEAN
  <2> DEFINE c == [i \in 1 .. n |-> Std!Segments(msgs[i])]
             r == Std!Rest(msgs, n)
             x == Std!FlattenSeq(c)
             y == Std!FlattenSeq(Cut(r))
             z == Std!FlattenSeq(Cut(msgs))
  <2>1. r \in Seq(Cuttable) /\ x \in Seq(Seq(Byte)) /\ y \in Seq(Seq(Byte)) /\ z = x \o y /\ (n = Len(msgs) => z = x)
    <3> HIDE DEF msgs, c
    <3>1. c = [i \in 1 .. n |-> Std!Segments(msgs[i])]
      BY DEF c
    <3> QED BY <1>2, <3>1, WrittenAndRest
  <2> HIDE DEF x, y, z, r, c
  <2>2. wire' = wire \o x /\ wire \o z = front \o bs
    BY <1>1, <1>3 DEF x, c, z
  <2>3. wire \o x \in Seq(Seq(Byte)) /\ (wire \o x) \o y = wire \o z
    <3> DEFINE S == Seq(Byte)
    <3>1. wire \in Seq(S) /\ x \in Seq(S) /\ y \in Seq(S)
      BY <1>1, <2>1
    <3> HIDE DEF S
    <3>2. wire \o x \in Seq(S)
      BY <3>1, ConcatProperties
    <3>3. Associates(wire, x, y)
      BY <3>1, ConcatAssociates
    <3> QED BY <3>2, <3>3, <2>1 DEF Associates, S
  <2>4. offload' \in BOOLEAN
    BY <1>3
  <2>5. CASE n = Len(msgs)
    <3>1. send' = [at |-> "done", bufs |-> bs, conn |-> send.conn, gso |-> send.gso, msgs |-> <<>>,
                   retried |-> send.retried, before |-> b, ok |-> TRUE]
      BY <1>2, <1>3, <2>5
    <3>2. /\ send'.at = "done" /\ send'.bufs = bs /\ send'.before = b /\ send'.ok = TRUE
          /\ send'.retried = send.retried /\ send'.gso = send.gso
      BY <3>1
    <3>3. <<>> \in Seq(Cuttable)
      OBVIOUS
    <3>4. send' \in SendRecord
      BY <1>2, <3>1, <3>3 DEF SendRecord
    <3>5. wire' = front \o bs
      BY <2>1, <2>2, <2>5
    <3>6. SendInv'
      BY <3>2, <3>4, <3>5, <2>2, <2>3, <1>1 DEF SendInv
    <3> QED BY <2>4, <3>6
  <2>6. CASE n # Len(msgs)
    <3>1. send' = [at |-> send.at, bufs |-> bs, conn |-> send.conn, gso |-> send.gso, msgs |-> r,
                   retried |-> send.retried, before |-> b, ok |-> send.ok]
      BY <1>2, <1>3, <2>6 DEF r
    <3>2. /\ send'.at = send.at /\ send'.bufs = bs /\ send'.before = b /\ send'.ok = send.ok /\ send'.msgs = r
          /\ send'.retried = send.retried /\ send'.gso = send.gso
      BY <3>1
    <3>4. send' \in SendRecord
      BY <1>1, <1>2, <2>1, <3>1 DEF SendRecord
    <3>5. wire' \o Std!FlattenSeq(Cut(send'.msgs)) = front \o bs
      BY <2>2, <2>3, <3>2 DEF y
    <3>6. SendInv'
      BY <3>2, <3>4, <3>5, <2>2, <2>3, <1>1 DEF SendInv
    <3> QED BY <2>4, <3>6
  <2> QED BY <2>5, <2>6
<1>4. ASSUME send' = [send EXCEPT !.at = "done"], UNCHANGED <<wire, offload>>
      PROVE  SendInv' /\ offload' \in BOOLEAN
  <2>1. send' = [at |-> "done", bufs |-> bs, conn |-> send.conn, gso |-> send.gso, msgs |-> msgs,
                 retried |-> send.retried, before |-> b, ok |-> send.ok]
    BY <1>2, <1>4
  <2>2. /\ send'.at = "done" /\ send'.bufs = bs /\ send'.before = b /\ send'.ok = send.ok
        /\ send'.retried = send.retried /\ send'.gso = send.gso
    BY <2>1
  <2>3. send' \in SendRecord
    BY <1>2, <2>1 DEF SendRecord
  <2>4. SendInv'
    BY <2>2, <2>3, <1>1, <1>4 DEF SendInv
  <2> QED BY <2>4, <1>4
<1>5. ASSUME send.gso,
             send' = [send EXCEPT !.gso = FALSE, !.retried = TRUE, !.before = Len(wire),
                                  !.msgs = Std!Messages(send.bufs, FALSE)],
             offload' = FALSE, UNCHANGED wire
      PROVE  SendInv' /\ offload' \in BOOLEAN
  <2> DEFINE ms == Std!Messages(bs, FALSE)  z == Std!FlattenSeq(Cut(msgs))
  <2>1. ms \in Seq(Cuttable) /\ Std!FlattenSeq(Cut(ms)) = bs
    <3> HIDE DEF bs
    <3>1. bs \in Seq(DatagramSet) /\ FALSE \in BOOLEAN
      BY <1>2
    <3> QED BY <3>1, MessagesCut
  <2>2. z \in Seq(Seq(Byte))
    <3> DEFINE S == Seq(Byte)  c == Cut(msgs)
    <3>1. c \in Seq(Seq(S)) /\ <<>> \in Seq(S)
      BY <1>2, CutTyped
    <3> HIDE DEF S, c
    <3>2. Std!FlattenSeq(c) \in Seq(S)
      BY <3>1, FlatAppend
    <3> QED BY <3>2 DEF S, c
  <2>3. wire \o z = bs
    <3>1. b = 0
      BY <1>1, <1>5
    <3>2. front = <<>>
      BY <3>1, <1>2
    <3>3. <<>> \o bs = bs
      BY <1>2, ConcatEmptySeq
    <3> QED BY <1>1, <3>2, <3>3
  <2> HIDE DEF z, ms
  <2>4. Len(wire) \in 0 .. Len(bs) /\ wire = SubSeq(bs, 1, Len(wire)) /\ Len(wire) \in Nat
    <3> DEFINE S == Seq(Byte)
    <3>1. wire \in Seq(S) /\ z \in Seq(S)
      BY <1>1, <2>2
    <3> HIDE DEF S, bs
    <3>2. Len(wire) \in 0 .. Len(bs) /\ wire = SubSeq(bs, 1, Len(wire))
      BY <3>1, <2>3, BeginningIsFront
    <3>3. Len(wire) \in Nat
      BY <3>1
    <3> QED BY <3>2, <3>3
  <2>5. send' = [at |-> send.at, bufs |-> bs, conn |-> send.conn, gso |-> FALSE, msgs |-> ms,
                 retried |-> TRUE, before |-> Len(wire), ok |-> send.ok]
    BY <1>2, <1>5 DEF ms
  <2>6. /\ send'.at = send.at /\ send'.bufs = bs /\ send'.before = Len(wire) /\ send'.ok = send.ok /\ send'.msgs = ms
        /\ send'.retried = TRUE /\ send'.gso = FALSE
    BY <2>5
  <2>7. send' \in SendRecord
    BY <1>1, <1>2, <2>1, <2>4, <2>5 DEF SendRecord
  <2>8. wire' \o Std!FlattenSeq(Cut(send'.msgs)) = SubSeq(send'.bufs, 1, send'.before) \o send'.bufs
    BY <1>5, <2>1, <2>4, <2>6
  <2>9. wire' \in Seq(Seq(Byte)) /\ send'.before \in 0 .. Len(send'.bufs)
    BY <1>1, <1>5, <2>4, <2>6
  <2>10. ~send'.ok /\ send'.at # "done"
    BY <1>1, <2>6
  <2>11. SendInv'
    BY <2>6, <2>7, <2>8, <2>9, <2>10 DEF SendInv
  <2> QED BY <2>11, <1>5
<1>6. \/ \E n \in 1 .. Len(msgs) :
            /\ wire' = wire \o Std!FlattenSeq([i \in 1 .. n |-> Std!Segments(msgs[i])])
            /\ send' = IF n = Len(msgs) THEN [send EXCEPT !.at = "done", !.msgs = <<>>, !.ok = TRUE]
                                        ELSE [send EXCEPT !.msgs = Std!Rest(@, n)]
            /\ UNCHANGED offload
      \/ send' = [send EXCEPT !.at = "done"] /\ UNCHANGED <<wire, offload>>
      \/ /\ send.gso
         /\ send' = [send EXCEPT !.gso = FALSE, !.retried = TRUE, !.before = Len(wire),
                                 !.msgs = Std!Messages(send.bufs, FALSE)]
         /\ offload' = FALSE /\ UNCHANGED wire
  BY Zenon DEF Std!Write
<1> QED BY <1>3, <1>4, <1>5, <1>6

\* Send begins and ends.
LEMMA SendStartKeeps ==
    ASSUME SendInv, offload \in BOOLEAN, v4 \in Nat, NEW lens \in Std!Lengths, Std!SendStart(lens)
    PROVE  SendInv'
<1> DEFINE bs == [d \in DOMAIN lens |-> Std!Datagram(d, lens[d])]
           at == IF v4 = 0 THEN "no" ELSE "write"
           ms == Std!Messages(bs, offload)
<1>1. bs \in Seq(DatagramSet)
  BY BatchTyped
<1>2. ms \in Seq(Cuttable) /\ Std!FlattenSeq(Cut(ms)) = bs
  <2> HIDE DEF bs
  <2> QED BY <1>1, MessagesCut
<1>3. send' = [Std!NotSending EXCEPT !.at = at, !.bufs = bs, !.conn = v4, !.gso = offload, !.msgs = ms]
  BY DEF Std!SendStart
<1>4. wire' = <<>>
  BY DEF Std!SendStart
<1>5. at \in {"no", "write"}
  OBVIOUS
<1> HIDE DEF bs, at, ms
<1>6. send' = [at |-> at, bufs |-> bs, conn |-> v4, gso |-> offload, msgs |-> ms, retried |-> FALSE, before |-> 0, ok |-> FALSE]
  BY <1>3 DEF Std!NotSending
<1>7. send'.at = at /\ send'.bufs = bs /\ send'.msgs = ms /\ send'.before = 0 /\ send'.ok = FALSE
  BY <1>6
<1>8. send' \in SendRecord
  BY <1>1, <1>2, <1>5, <1>6 DEF SendRecord
<1>9. wire' \o Std!FlattenSeq(Cut(send'.msgs)) = SubSeq(send'.bufs, 1, send'.before) \o send'.bufs
  <2>1. SubSeq(bs, 1, 0) = <<>>
    BY <1>1
  <2> QED BY <2>1, <1>2, <1>4, <1>7
<1>10. wire' \in Seq(Seq(Byte))
  BY <1>4
<1>11. 0 \in 0 .. Len(bs)
  <2>1. Len(bs) \in Nat
    BY <1>1
  <2> QED BY <2>1
<1> QED BY <1>5, <1>7, <1>8, <1>9, <1>10, <1>11 DEF SendInv

LEMMA NotSendingKeeps ==
    ASSUME send' = Std!NotSending, wire' = <<>>
    PROVE  SendInv'
<1>1. send' = [at |-> "no", bufs |-> <<>>, conn |-> 0, gso |-> FALSE, msgs |-> <<>>, retried |-> FALSE, before |-> 0, ok |-> FALSE]
  BY DEF Std!NotSending
<1>2. <<>> \in Seq(DatagramSet) /\ <<>> \in Seq(Cuttable) /\ <<>> \in Seq(Seq(Byte)) /\ Len(<<>>) = 0
  OBVIOUS
<1>3. send' \in SendRecord
  BY <1>1, <1>2 DEF SendRecord
<1>4. send'.at = "no" /\ send'.before = 0 /\ send'.ok = FALSE /\ send'.bufs = <<>>
  BY <1>1
<1>5. 0 \in 0 .. Len(<<>>)
  BY <1>2
<1> QED BY <1>2, <1>3, <1>4, <1>5 DEF SendInv

OpeningRecord == [at : {"no", "v4", "v6"}, v4 : Nat, port : Ports \cup {0}, tries : 0 .. MaxTries]

\* The sockets of a bind that is open: one of each family at most, on one port.
AreOwn(S, a, b) ==
    \/ S = {} /\ a = 0 /\ b = 0
    \/ \E p : a # 0 /\ b = 0 /\ S = {[id |-> a, family |-> 4, port |-> p]}
    \/ \E p : a = 0 /\ b # 0 /\ S = {[id |-> b, family |-> 6, port |-> p]}
    \/ \E p : /\ a # 0 /\ b # 0
              /\ S = {[id |-> a, family |-> 4, port |-> p], [id |-> b, family |-> 6, port |-> p]}

LEMMA OwnedSockets ==
    ASSUME NEW a \in Nat, NEW b \in Nat, NEW S, AreOwn(S, a, b)
    PROVE  {s.id : s \in S} = {a, b} \ {0} /\ \A s \in S, t \in S : s.port = t.port
<1>1. CASE S = {} /\ a = 0 /\ b = 0
  BY <1>1
<1>2. ASSUME NEW p, a # 0 /\ b = 0 /\ S = {[id |-> a, family |-> 4, port |-> p]}
      PROVE  {s.id : s \in S} = {a, b} \ {0} /\ \A s \in S, t \in S : s.port = t.port
  BY <1>2
<1>3. ASSUME NEW p, a = 0 /\ b # 0 /\ S = {[id |-> b, family |-> 6, port |-> p]}
      PROVE  {s.id : s \in S} = {a, b} \ {0} /\ \A s \in S, t \in S : s.port = t.port
  BY <1>3
<1>4. ASSUME NEW p, a # 0 /\ b # 0
             /\ S = {[id |-> a, family |-> 4, port |-> p], [id |-> b, family |-> 6, port |-> p]}
      PROVE  {s.id : s \in S} = {a, b} \ {0} /\ \A s \in S, t \in S : s.port = t.port
  BY <1>4
<1> QED BY <1>1, <1>2, <1>3, <1>4 DEF AreOwn

\* Without the IPv4 socket nothing is left of an Open that is between the families.
LEMMA GivenUp ==
    ASSUME OpenInv, opening.at = "v6"
    PROVE  Std!Without(opening.v4) = {}
<1>1. sockets = {} \/ (opening.v4 = 2 * opens /\ sockets = {Socket4})
  BY DEF OpenInv
<1>2. Socket4.id = 2 * opens
  BY DEF Socket4
<1> QED BY <1>1, <1>2 DEF Std!Without

LEMMA OpenStartKeeps ==
    ASSUME OpenInv, Std!OpenStart
    PROVE  OpenInv'
<1>1. /\ opening.at = "no" /\ v4 = 0 /\ v6 = 0 /\ opens' = opens + 1 /\ opening' = [Std!NotOpening EXCEPT !.at = "v4"]
      /\ UNCHANGED <<sockets, v4, v6, offload>>
  BY DEF Std!OpenStart
<1>2. opens \in Nat /\ offload \in BOOLEAN /\ {s.id : s \in sockets} = {v4, v6} \ {0}
  BY <1>1 DEF OpenInv, Std!SocketsAreOwned
<1>3. sockets = {}
  BY <1>1, <1>2
<1>4. opening' = [at |-> "v4", v4 |-> 0, port |-> 0, tries |-> 0]
  BY <1>1 DEF Std!NotOpening
<1>5. 0 \in 0 .. MaxTries
  BY BindAssumption
<1>6. opening' \in OpeningRecord /\ opening'.at = "v4"
  BY <1>4, <1>5 DEF OpeningRecord
<1>7. opens' \in Nat /\ opens' > 0 /\ 0 \in 0 .. 2 * opens' + 1
  BY <1>1, <1>2
<1> QED BY <1>1, <1>2, <1>3, <1>6, <1>7 DEF OpenInv, OpeningRecord

LEMMA Open4Keeps ==
    ASSUME OpenInv, Std!Open4
    PROVE  OpenInv'
<1>1. /\ opening.at = "v4" /\ UNCHANGED <<v4, v6, offload, opens>>
      /\ \E port \in Ports : Std!Listen4(port)
  BY DEF Std!Open4
<1>2. /\ opens \in Nat /\ opens > 0 /\ offload \in BOOLEAN /\ sockets = {} /\ v4 = 0 /\ v6 = 0
      /\ opening \in OpeningRecord /\ v4 \in 0 .. 2 * opens + 1 /\ v6 \in 0 .. 2 * opens + 1
  BY <1>1 DEF OpenInv, OpeningRecord
<1>3. PICK port \in Ports : Std!Listen4(port)
  BY <1>1
<1>4. opening = [at |-> opening.at, v4 |-> opening.v4, port |-> opening.port, tries |-> opening.tries] /\ opening.tries \in 0 .. MaxTries
  BY <1>2 DEF OpeningRecord
<1>5. CASE /\ opening' = [opening EXCEPT !.at = "v6", !.v4 = 2 * opens, !.port = port]
           /\ sockets' = sockets \cup {[id |-> 2 * opens, family |-> 4, port |-> port]}
  <2>1. opening' = [at |-> "v6", v4 |-> 2 * opens, port |-> port, tries |-> opening.tries]
    BY <1>4, <1>5
  <2>2. opening'.at = "v6" /\ opening'.v4 = 2 * opens /\ opening'.port = port
    BY <2>1
  <2>3. 2 * opens \in Nat /\ port # 0
    BY <1>2, BindAssumption
  <2>4. opening' \in OpeningRecord
    BY <2>1, <2>3, <1>4 DEF OpeningRecord
  <2>5. sockets' = {Socket4'}
    BY <1>1, <1>2, <1>5, <2>2 DEF Socket4
  <2> QED BY <1>1, <1>2, <2>2, <2>3, <2>4, <2>5 DEF OpenInv, OpeningRecord
<1>6. CASE opening' = [opening EXCEPT !.at = "v6", !.v4 = 0, !.port = 0] /\ UNCHANGED sockets
  <2>1. opening' = [at |-> "v6", v4 |-> 0, port |-> 0, tries |-> opening.tries]
    BY <1>4, <1>6
  <2>2. opening'.at = "v6" /\ opening'.v4 = 0 /\ opening'.port = 0
    BY <2>1
  <2>3. opening' \in OpeningRecord
    BY <2>1, <1>4 DEF OpeningRecord
  <2> QED BY <1>1, <1>2, <1>6, <2>2, <2>3 DEF OpenInv, OpeningRecord
<1>7. CASE opening' = Std!NotOpening /\ UNCHANGED sockets
  <2>1. opening' = [at |-> "no", v4 |-> 0, port |-> 0, tries |-> 0]
    BY <1>7 DEF Std!NotOpening
  <2>2. 0 \in 0 .. MaxTries
    BY BindAssumption
  <2>3. opening' \in OpeningRecord /\ opening'.at = "no"
    BY <2>1, <2>2 DEF OpeningRecord
  <2>4. sockets' = {} /\ v4' = 0 /\ v6' = 0
    BY <1>1, <1>2, <1>7
  <2>5. Std!SocketsAreOwned'
    BY <2>4 DEF Std!SocketsAreOwned
  <2> QED BY <1>1, <1>2, <2>3, <2>5 DEF OpenInv, OpeningRecord
<1> QED BY <1>3, <1>5, <1>6, <1>7 DEF Std!Listen4

LEMMA Open6Keeps ==
    ASSUME OpenInv, Std!Open6
    PROVE  OpenInv'
<1>1. opening.at = "v6" /\ opens' = opens
  BY DEF Std!Open6
<1>2. /\ opens \in Nat /\ opens > 0 /\ offload \in BOOLEAN /\ v4 = 0 /\ v6 = 0
      /\ opening \in OpeningRecord /\ v4 \in 0 .. 2 * opens + 1 /\ v6 \in 0 .. 2 * opens + 1
      /\ \/ opening.v4 = 0 /\ opening.port = 0 /\ sockets = {}
         \/ opening.v4 = 2 * opens /\ opening.port # 0 /\ sockets = {Socket4}
  BY <1>1 DEF OpenInv, OpeningRecord
<1>3. /\ opening = [at |-> opening.at, v4 |-> opening.v4, port |-> opening.port, tries |-> opening.tries]
      /\ opening.tries \in 0 .. MaxTries /\ opening.port \in Ports \cup {0} /\ opening.v4 \in Nat
  BY <1>2 DEF OpeningRecord
<1>4. opening.v4 \in 0 .. 2 * opens + 1 /\ 2 * opens \in Nat /\ 2 * opens + 1 \in Nat /\ 2 * opens # 0 /\ 2 * opens + 1 # 0
  BY <1>2
<1>5. ASSUME opening' = Std!NotOpening, offload' \in BOOLEAN, v4' \in 0 .. 2 * opens + 1, v6' \in 0 .. 2 * opens + 1,
             AreOwn(sockets', v4', v6')
      PROVE  OpenInv'
  <2>1. opening' = [at |-> "no", v4 |-> 0, port |-> 0, tries |-> 0]
    BY <1>5 DEF Std!NotOpening
  <2>2. 0 \in 0 .. MaxTries
    BY BindAssumption
  <2>3. opening' \in OpeningRecord /\ opening'.at = "no"
    BY <2>1, <2>2 DEF OpeningRecord
  <2>4. v4' \in Nat /\ v6' \in Nat
    BY <1>4, <1>5
  <2>5. {s.id : s \in sockets'} = {v4', v6'} \ {0} /\ \A s \in sockets', t \in sockets' : s.port = t.port
    BY <1>5, <2>4, OwnedSockets
  <2>6. Std!SocketsAreOwned'
    BY <2>5 DEF Std!SocketsAreOwned
  <2> QED BY <1>1, <1>2, <1>5, <2>3, <2>6 DEF OpenInv, OpeningRecord
<1>6. CASE opening.tries < MaxTries /\ Std!Retry6
  <2>1. /\ opening' = [opening EXCEPT !.at = "v4", !.tries = @ + 1, !.v4 = 0]
        /\ sockets' = {} /\ UNCHANGED <<v4, v6, offload>>
    BY <1>1, <1>6, GivenUp DEF Std!Retry6
  <2>2. opening' = [at |-> "v4", v4 |-> 0, port |-> opening.port, tries |-> opening.tries + 1]
    BY <1>3, <2>1
  <2>3. opening.tries + 1 \in 0 .. MaxTries
    <3>1. MaxTries \in Nat /\ opening.tries \in Nat
      BY <1>3, BindAssumption
    <3> QED BY <3>1, <1>6
  <2>4. opening' \in OpeningRecord /\ opening'.at = "v4"
    BY <1>3, <2>2, <2>3 DEF OpeningRecord
  <2> QED BY <1>1, <1>2, <2>1, <2>4 DEF OpenInv, OpeningRecord
<1>7. CASE opening' = Std!NotOpening /\ sockets' = Std!Without(opening.v4) /\ UNCHANGED <<v4, v6, offload>>
  <2>1. sockets' = {}
    BY <1>1, <1>7, GivenUp
  <2>2. AreOwn(sockets', v4', v6')
    BY <1>2, <1>7, <2>1 DEF AreOwn
  <2> QED BY <1>2, <1>5, <1>7, <2>2
<1>8. ASSUME NEW port \in IF opening.port = 0 THEN Ports ELSE {opening.port},
             sockets' = sockets \cup {[id |-> 2 * opens + 1, family |-> 6, port |-> port]},
             v4' = opening.v4, v6' = 2 * opens + 1, offload' \in BOOLEAN, opening' = Std!NotOpening
      PROVE  OpenInv'
  <2>1. v4' \in 0 .. 2 * opens + 1 /\ v6' \in 0 .. 2 * opens + 1
    BY <1>4, <1>8
  <2>2. CASE opening.v4 = 0 /\ opening.port = 0 /\ sockets = {}
    <3>1. v4' = 0 /\ v6' # 0 /\ sockets' = {[id |-> v6', family |-> 6, port |-> port]}
      BY <1>4, <1>8, <2>2
    <3>9. AreOwn(sockets', v4', v6')
      BY <3>1 DEF AreOwn
    <3> QED BY <1>5, <1>8, <2>1, <3>9
  <2>3. CASE opening.v4 = 2 * opens /\ opening.port # 0 /\ sockets = {Socket4}
    <3>1. port = opening.port
      BY <1>8, <2>3
    <3>2. v4' = 2 * opens /\ v6' = 2 * opens + 1
      BY <1>8, <2>3
    <3>3. sockets' = {[id |-> v4', family |-> 4, port |-> port], [id |-> v6', family |-> 6, port |-> port]}
      BY <1>8, <2>3, <3>1, <3>2 DEF Socket4
    <3>4. v4' # 0 /\ v6' # 0
      BY <1>4, <3>2
    <3>9. AreOwn(sockets', v4', v6')
      BY <3>3, <3>4 DEF AreOwn
    <3> QED BY <1>5, <1>8, <2>1, <3>9
  <2> QED BY <1>2, <2>2, <2>3
<1>9. ASSUME v4' = opening.v4, v6' = 0, opening' = Std!NotOpening, offload' \in BOOLEAN, UNCHANGED sockets
      PROVE  OpenInv'
  <2>1. v4' \in 0 .. 2 * opens + 1 /\ v6' \in 0 .. 2 * opens + 1
    BY <1>4, <1>9
  <2>2. CASE opening.v4 = 0 /\ opening.port = 0 /\ sockets = {}
    <3>1. v4' = 0 /\ v6' = 0 /\ sockets' = {}
      BY <1>9, <2>2
    <3>9. AreOwn(sockets', v4', v6')
      BY <3>1 DEF AreOwn
    <3> QED BY <1>5, <1>9, <2>1, <3>9
  <2>3. CASE opening.v4 = 2 * opens /\ opening.port # 0 /\ sockets = {Socket4}
    <3>1. v4' = 2 * opens /\ v6' = 0
      BY <1>9, <2>3
    <3>2. sockets' = {[id |-> v4', family |-> 4, port |-> opening.port]}
      BY <1>9, <2>3, <3>1 DEF Socket4
    <3>3. v4' # 0
      BY <1>4, <3>1
    <3>9. AreOwn(sockets', v4', v6')
      BY <3>1, <3>2, <3>3 DEF AreOwn
    <3> QED BY <1>5, <1>9, <2>1, <3>9
  <2> QED BY <1>2, <2>2, <2>3
<1>10. \/ opening.tries < MaxTries /\ Std!Retry6
       \/ opening' = Std!NotOpening /\ sockets' = Std!Without(opening.v4) /\ UNCHANGED <<v4, v6, offload>>
       \/ \E port \in IF opening.port = 0 THEN Ports ELSE {opening.port} :
            /\ sockets' = sockets \cup {[id |-> 2 * opens + 1, family |-> 6, port |-> port]}
            /\ v4' = opening.v4 /\ v6' = 2 * opens + 1 /\ offload' \in BOOLEAN /\ opening' = Std!NotOpening
       \/ v4' = opening.v4 /\ v6' = 0 /\ opening' = Std!NotOpening /\ offload' \in BOOLEAN /\ UNCHANGED sockets
  BY Zenon DEF Std!Open6
<1> QED BY <1>6, <1>7, <1>8, <1>9, <1>10

LEMMA CloseKeeps ==
    ASSUME OpenInv, Std!Close
    PROVE  OpenInv'
<1>1. /\ opening.at = "no" /\ sockets' = {s \in sockets : s.id \notin {v4, v6}}
      /\ v4' = 0 /\ v6' = 0 /\ offload' = FALSE /\ UNCHANGED <<opening, opens>>
  BY DEF Std!Close
<1>2. {s.id : s \in sockets} = {v4, v6} \ {0} /\ opens \in Nat /\ opening \in OpeningRecord
  BY <1>1 DEF OpenInv, Std!SocketsAreOwned, OpeningRecord
<1>3. \A s \in sockets : s.id \in {v4, v6}
  BY <1>2
<1>4. sockets' = {}
  BY <1>1, <1>3
<1>5. Std!SocketsAreOwned'
  BY <1>1, <1>4 DEF Std!SocketsAreOwned
<1>6. 0 \in 0 .. 2 * opens' + 1
  BY <1>1, <1>2
<1> QED BY <1>1, <1>2, <1>5, <1>6 DEF OpenInv, OpeningRecord

\* The sockets' invariant does not depend on the Send, but for the offload it found.
LEMMA OpenInvStays ==
    ASSUME OpenInv, UNCHANGED <<sockets, v4, v6, opening, opens>>, offload' \in BOOLEAN
    PROVE  OpenInv'
  BY DEF OpenInv, Std!SocketsAreOwned, Socket4

LEMMA SendInvStays ==
    ASSUME SendInv, UNCHANGED <<send, wire>>
    PROVE  SendInv'
  BY DEF SendInv

StdInv == SendInv /\ OpenInv

LEMMA StdInit == Std!Init => StdInv
<1> SUFFICES ASSUME Std!Init PROVE StdInv
  OBVIOUS
<1>1. /\ sockets = {} /\ v4 = 0 /\ v6 = 0 /\ offload = FALSE /\ opening = Std!NotOpening
      /\ opens = 0 /\ send = Std!NotSending /\ wire = <<>>
  BY DEF Std!Init
<1>2. OpenInv
  <2>1. opening = [at |-> "no", v4 |-> 0, port |-> 0, tries |-> 0] /\ 0 \in 0 .. MaxTries
    BY <1>1, BindAssumption DEF Std!NotOpening
  <2>2. opening \in [at : {"no", "v4", "v6"}, v4 : Nat, port : Ports \cup {0}, tries : 0 .. MaxTries] /\ opening.at = "no"
    BY <2>1
  <2>3. Std!SocketsAreOwned
    BY <1>1 DEF Std!SocketsAreOwned
  <2>4. 0 \in 0 .. 2 * 0 + 1
    OBVIOUS
  <2> QED BY <1>1, <2>2, <2>3, <2>4 DEF OpenInv
<1>3. SendInv
  <2>1. send = [at |-> "no", bufs |-> <<>>, conn |-> 0, gso |-> FALSE, msgs |-> <<>>, retried |-> FALSE, before |-> 0, ok |-> FALSE]
    BY <1>1 DEF Std!NotSending
  <2>2. <<>> \in Seq(DatagramSet) /\ <<>> \in Seq(Cuttable) /\ <<>> \in Seq(Seq(Byte)) /\ Len(<<>>) = 0
    OBVIOUS
  <2>3. send \in SendRecord
    BY <2>1, <2>2 DEF SendRecord
  <2>4. send.at = "no" /\ send.before = 0 /\ send.ok = FALSE /\ send.bufs = <<>>
    BY <2>1
  <2>5. 0 \in 0 .. Len(<<>>)
    BY <2>2
  <2> QED BY <1>1, <2>2, <2>3, <2>4, <2>5 DEF SendInv
<1> QED BY <1>2, <1>3 DEF StdInv

LEMMA StdStep == StdInv /\ Std!Next => StdInv'
<1> SUFFICES ASSUME StdInv, Std!Next PROVE StdInv'
  OBVIOUS
<1>1. SendInv /\ OpenInv /\ offload \in BOOLEAN /\ v4 \in Nat
  BY DEF StdInv, OpenInv
<1>2. CASE Std!OpenStart
  BY <1>1, <1>2, OpenStartKeeps, SendInvStays DEF Std!OpenStart, StdInv
<1>3. CASE Std!Open4
  BY <1>1, <1>3, Open4Keeps, SendInvStays DEF Std!Open4, StdInv
<1>4. CASE Std!Open6
  BY <1>1, <1>4, Open6Keeps, SendInvStays DEF Std!Open6, StdInv
<1>5. CASE Std!Close
  BY <1>1, <1>5, CloseKeeps, SendInvStays DEF Std!Close, StdInv
<1>6. CASE Std!Write
  <2>1. SendInv' /\ offload' \in BOOLEAN
    BY <1>1, <1>6, WriteKeeps
  <2>2. UNCHANGED <<sockets, v4, v6, opening, opens>>
    BY <1>6 DEF Std!Write
  <2> QED BY <1>1, <2>1, <2>2, OpenInvStays DEF StdInv
<1>7. CASE Std!SendEnd
  <2>1. SendInv'
    BY <1>7, NotSendingKeeps DEF Std!SendEnd
  <2>2. UNCHANGED <<sockets, v4, v6, opening, opens>> /\ offload' \in BOOLEAN
    BY <1>1, <1>7 DEF Std!SendEnd
  <2> QED BY <1>1, <2>1, <2>2, OpenInvStays DEF StdInv
<1>8. ASSUME NEW lens \in Std!Lengths, Std!SendStart(lens) PROVE StdInv'
  <2>1. SendInv'
    BY <1>1, <1>8, SendStartKeeps
  <2>2. UNCHANGED <<sockets, v4, v6, opening, opens>> /\ offload' \in BOOLEAN
    BY <1>1, <1>8 DEF Std!SendStart
  <2> QED BY <1>1, <2>1, <2>2, OpenInvStays DEF StdInv
<1> QED BY <1>2, <1>3, <1>4, <1>5, <1>6, <1>7, <1>8 DEF Std!Next

LEMMA StdStays == StdInv /\ UNCHANGED stdVars => StdInv'
<1> SUFFICES ASSUME StdInv, UNCHANGED <<sockets, v4, v6, offload, opening, opens, send, wire>> PROVE StdInv'
  BY DEF stdVars
<1>1. SendInv'
  BY SendInvStays DEF StdInv
<1>2. offload' \in BOOLEAN
  BY DEF StdInv, OpenInv
<1>3. OpenInv'
  BY <1>2, OpenInvStays DEF StdInv
<1> QED BY <1>1, <1>3 DEF StdInv

\* What the invariant says of the device's sockets.
LEMMA StdMeans == StdInv => Std!TypeOK /\ Std!SocketsAreOwned /\ Std!BatchIsSent
<1> SUFFICES ASSUME StdInv PROVE Std!TypeOK /\ Std!SocketsAreOwned /\ Std!BatchIsSent
  OBVIOUS
<1>1. SendInv /\ OpenInv
  BY DEF StdInv
<1>2. Std!TypeOK
  <2>1. opening.tries \in 0 .. MaxTries /\ {v4, v6} \subseteq 0 .. (2 * opens + 1) /\ offload \in BOOLEAN
    BY <1>1 DEF OpenInv
  <2>2. send.at \in {"no", "write", "done"}
    BY <1>1 DEF SendInv, SendRecord
  <2> QED BY <2>1, <2>2 DEF Std!TypeOK
<1>3. Std!SocketsAreOwned
  BY <1>1 DEF OpenInv, Std!SocketsAreOwned
<1>4. Std!BatchIsSent
  <2> SUFFICES ASSUME send.ok
               PROVE  /\ send.before <= Len(send.bufs) /\ wire = SubSeq(send.bufs, 1, send.before) \o send.bufs
                      /\ (send.before > 0 => send.retried)
    BY DEF Std!BatchIsSent
  <2>1. send.before \in 0 .. Len(send.bufs) /\ (send.before > 0 => send.retried) /\ wire = SubSeq(send.bufs, 1, send.before) \o send.bufs
    BY <1>1 DEF SendInv
  <2>2. Len(send.bufs) \in Nat
    BY <1>1 DEF SendInv, SendRecord
  <2> QED BY <2>1, <2>2
<1> QED BY <1>2, <1>3, <1>4

\* A coalesced batch comes apart, for every batch.
LEMMA ReceivedMeans == Std!ReceivedIsSplit
<1> SUFFICES ASSUME NEW lens \in Std!Lengths
             PROVE  LET bs == [d \in DOMAIN lens |-> Std!Datagram(d, lens[d])]
                    IN Len(Std!Coalesced(bs)) <= RxBatch - Std!ReadAt => Std!Split(Std!Coalesced(bs)) = [err |-> FALSE, out |-> bs]
  BY DEF Std!ReceivedIsSplit
<1> DEFINE bs == [d \in DOMAIN lens |-> Std!Datagram(d, lens[d])]
<1>1. bs \in Seq(DatagramSet)
  BY BatchTyped
<1> HIDE DEF bs
<1>2. Len(Std!Coalesced(bs)) <= RxBatch - Std!ReadAt => Std!Split(Std!Coalesced(bs)) = [err |-> FALSE, out |-> bs]
  BY <1>1, BatchIsSplit
<1> QED BY <1>2 DEF bs

-----------------------------------------------------------------------------
(* The sockets through a proxy (wireguard/conn/bind_proxy.go).             *)

\* A socket that is open belongs to the present association, one that is closed to
\* an association that failed late; a mapped address was heard from.
SocksInv ==
    /\ Socks!TypeOK /\ server \in {"v4", "v6", "mapped"}
    /\ udp = "closed" => failedLate
    /\ udp = "open" => relay # 0 /\ association \in {0, relay}
    /\ server = "mapped" => heard

LEMMA SocksInit == Socks!Init => SocksInv
  BY BindAssumption DEF Socks!Init, SocksInv, Socks!TypeOK

LEMMA SocksStep == SocksInv /\ Socks!Next => SocksInv'
<1> SUFFICES ASSUME SocksInv, Socks!Next PROVE SocksInv'
  OBVIOUS
<1>0. MaxOpens \in Nat
  BY BindAssumption
<1>1. CASE Socks!Open
  <2>1. calls < MaxOpens /\ calls' = calls + 1 /\ UNCHANGED <<server, heard>>
    BY <1>1 DEF Socks!Open
  <2>2. calls \in Nat /\ calls + 1 \in 0 .. MaxOpens /\ calls + 1 # 0
    BY <1>0, <2>1 DEF SocksInv, Socks!TypeOK
  <2>3. CASE udp = "nil" /\ Socks!FailEarly
    BY <2>1, <2>2, <2>3 DEF SocksInv, Socks!TypeOK, Socks!FailEarly
  <2>4. CASE udp = "nil" /\ Socks!FailLate
    BY <2>1, <2>2, <2>4 DEF SocksInv, Socks!TypeOK, Socks!FailLate
  <2>5. CASE udp = "nil" /\ Socks!Associate
    BY <2>1, <2>2, <2>5 DEF SocksInv, Socks!TypeOK, Socks!Associate
  <2>6. CASE udp # "nil" /\ UNCHANGED <<control, udp, relay, association, failedLate>>
    BY <2>1, <2>2, <2>6 DEF SocksInv, Socks!TypeOK
  <2> QED BY <1>1, <2>3, <2>4, <2>5, <2>6 DEF Socks!Open
<1>2. CASE Socks!Close
  BY <1>0, <1>2 DEF Socks!Close, SocksInv, Socks!TypeOK
<1>3. CASE Socks!ProxyDrops
  BY <1>0, <1>3 DEF Socks!ProxyDrops, SocksInv, Socks!TypeOK
<1>4. CASE Socks!Receive
  BY <1>4 DEF Socks!Receive, SocksInv, Socks!TypeOK
<1>5. CASE Socks!SetEndpoint
  BY <1>5 DEF Socks!SetEndpoint, SocksInv, Socks!TypeOK
<1> QED BY <1>1, <1>2, <1>3, <1>4, <1>5 DEF Socks!Next

LEMMA SocksStays == SocksInv /\ UNCHANGED proxyBindVars => SocksInv'
  BY DEF SocksInv, Socks!TypeOK, proxyBindVars

LEMMA SocksMeans ==
    SocksInv => Socks!TypeOK /\ Socks!OpenIsAliveUnlessLeft /\ Socks!RelayIsCurrent /\ Socks!MappedOnlyOnceHeard
  BY DEF SocksInv, Socks!OpenIsAliveUnlessLeft, Socks!RelayIsCurrent, Socks!MappedOnlyOnceHeard, Socks!Kind

-----------------------------------------------------------------------------
(* The parts together.                                                     *)

WireInv == ReplayInv /\ PreInv /\ NoizeInv /\ StdInv /\ SocksInv

\* A step of one part leaves the others as they are.
LEMMA WireStays ==
    ASSUME [MCNext]_<<part, vars, wireVars, deviceVars, bindVars>>
    PROVE  /\ Replay!Next \/ UNCHANGED replayVars
           /\ Pre!Next \/ UNCHANGED preflightVars
           /\ Noize!Next \/ UNCHANGED noizeVars
           /\ Std!Next \/ UNCHANGED stdVars
           /\ Socks!Next \/ UNCHANGED proxyBindVars
<1>1. CASE UNCHANGED <<part, vars, wireVars, deviceVars, bindVars>>
  BY <1>1 DEF wireVars, bindVars
<1>2. CASE MCNext
  BY <1>2 DEF MCNext, wireVars, bindVars
<1> QED BY <1>1, <1>2

\* The invariants of the parts hold together.
THEOREM WireInvariant == MCSpec => []WireInv
<1>1. MCInit => WireInv
  BY ReplayInit, PreInit, NoizeInit, StdInit, SocksInit DEF MCInit, WireInv
<1>2. ASSUME WireInv, [MCNext]_<<part, vars, wireVars, deviceVars, bindVars>> PROVE WireInv'
  <2>1. ReplayInv'
    BY <1>2, WireStays, ReplayStep, ReplayStays DEF WireInv
  <2>2. PreInv'
    BY <1>2, WireStays, PreStep, PreStays DEF WireInv, preflightVars, Pre!preflightVars
  <2>3. NoizeInv'
    BY <1>2, WireStays, NoizeStep, NoizeStays DEF WireInv, noizeVars, Noize!noizeVars
  <2>4. StdInv'
    BY <1>2, WireStays, StdStep, StdStays DEF WireInv
  <2>5. SocksInv'
    BY <1>2, WireStays, SocksStep, SocksStays DEF WireInv
  <2> QED BY <2>1, <2>2, <2>3, <2>4, <2>5 DEF WireInv
<1> QED BY <1>1, <1>2, PTL DEF MCSpec

\* Preflights to an address are given times an interval apart and begin so but for one
\* that waited for the mutex, its junk is that of the preflights and of one trail, and no
\* initiation goes without a preflight (preflight_bind.go);
\* QUIC's junk comes once, the fragments of an Initial are the packet, each byte once,
\* and padding keeps to its limit (noize.go): for any settings, senders and writers.
THEOREM ObfuscationStaysBounded == MCSpec => []ObfuscationIsBounded
<1>1. WireInv => ObfuscationIsBounded
  BY PreMeans, NoizeMeans DEF WireInv, ObfuscationIsBounded
<1> QED BY <1>1, WireInvariant, PTL

\* Open leaves no socket behind, a Send that succeeds has put the whole batch on the
\* wire in order, whatever the kernel took of it and if it refused segmentation in the
\* middle, every coalesced batch comes apart at the receiver (bind_std.go), and a
\* proxy's socket goes with its relay (bind_proxy.go): for any sizes, batches and limits.
THEOREM BindsStaySound == MCSpec => []BindsAreSound
<1>1. WireInv => BindsAreSound
  BY StdMeans, ReceivedMeans, SocksMeans DEF WireInv, BindsAreSound
<1> QED BY <1>1, WireInvariant, PTL

\* The ring of bitmaps accepts exactly the counters that the sliding window accepts
\* (replay.go), for any size of block and ring, any limit and any order of counters,
\* resets included.
THEOREM RingIsTheWindow == MCSpec => ImplementsWindow
<1>1. MCInit => Replay!Window!Init
  BY DEF MCInit, Replay!Init, Replay!Window!Init, Replay!Window!NoVerdict
<1>2. ASSUME WireInv, [MCNext]_<<part, vars, wireVars, deviceVars, bindVars>>
      PROVE  [Replay!Window!Next]_(Replay!Window!vars)
  <2>1. CASE Replay!Next
    BY <1>2, <2>1, ReplayStep DEF WireInv
  <2>2. CASE UNCHANGED replayVars
    BY <2>2 DEF replayVars, Replay!Window!vars
  <2> QED BY <1>2, <2>1, <2>2, WireStays
<1> QED
  BY <1>1, <1>2, WireInvariant, PTL
     DEF MCSpec, ImplementsWindow, Replay!ImplementsWindow, Replay!Window!Spec

=============================================================================
