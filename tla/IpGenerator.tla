----------------------------- MODULE IpGenerator -----------------------------
(***************************************************************************)
(* ipscanner/iterator/iterator.go: the addresses a scan tries.  A range is *)
(* a prefix with the address it was written with; an IPv4 range is walked  *)
(* one /24 at a time, an IPv6 range larger than a /120 is sampled.  Here   *)
(* an address has Width bits, its last Host bits are the last octet, and   *)
(* the /24 (/120) is a block of 2^Host addresses.  Addresses above the     *)
(* IPv4 space are what addIP makes of an IPv4 address that overflows.      *)
(***************************************************************************)
EXTENDS Integers, Sequences, FiniteSets

CONSTANTS
    Width,    \* bits of an address
    Host,     \* bits of the last octet
    Buckets,  \* values of BucketSize
    Samples6, \* sampleSubnetsCount (100)
    Starts,   \* addresses that ranges are written with
    Moduli    \* sizes for which the generator of addresses is stepped

VARIABLES
    range,   \* the range being walked: family, start, bits
    bucket,  \* opts.BucketSize
    current, \* the subnet being sampled: start and size
    seg,     \* segment of the current subnet, from 0
    drawn,   \* subnets sampled of an IPv6 range
    ips,     \* results: address, and the subnet it was drawn for
    misses,  \* segments that gave up after maxRetries
    genAt,   \* "subnet", "segment", "done" or "panicked"
    lcg      \* the range's LCG: modulus, multiplier, increment, current, seen, steps

genVars == <<range, bucket, current, seg, drawn, ips, misses, genAt, lcg>>

\* Powers of two.
Power[n \in 0 .. Width] == IF n = 0 THEN 1 ELSE 2 * Power[n - 1]

Block == Power[Host]
Space == Power[Width]

ipRangeSize(bits) == Power[Width - bits]
SubnetBits == Width - Host

Masked(r) == r.start % ipRangeSize(r.bits) = 0
Prefix(r) == LET base == (r.start \div ipRangeSize(r.bits)) * ipRangeSize(r.bits)
             IN  base .. base + ipRangeSize(r.bits) - 1

RelativelyPrime(c, m) == \A d \in 2 .. m : c % d # 0 \/ m % d # 0

\* Mutant: the condition on multiples of four is not checked.
checkHullDobell_NoFour(modulus, multiplier, increment) == RelativelyPrime(increment, modulus)

\* The prime factors of the modulus are not looked at: a range's size is a power of two.
checkHullDobell(modulus, multiplier, increment) ==
    /\ RelativelyPrime(increment, modulus)
    /\ modulus % 4 = 0 => (multiplier - 1) % 4 = 0

NewLCG(size) ==
    {[modulus |-> size, multiplier |-> p[1], increment |-> p[2], current |-> 0, seen |-> {0}, steps |-> 0] :
        p \in {q \in (0 .. size - 1) \X (0 .. size - 1) : checkHullDobell(size, q[1], q[2])}}

newIPRange(family, start, bits) == [family |-> family, start |-> start, bits |-> bits]

Init ==
    /\ range \in {newIPRange(f, s, b) : f \in {"v4", "v6"}, s \in Starts, b \in 0 .. Width}
    /\ bucket \in Buckets
    /\ lcg \in NewLCG(IF ipRangeSize(range.bits) \in Moduli THEN ipRangeSize(range.bits) ELSE 1)
    /\ current = [start |-> range.start, size |-> 0]
    /\ seg = 0 /\ drawn = 0 /\ ips = <<>> /\ misses = 0
    /\ genAt = "subnet"

Whole == range.bits >= SubnetBits

\* The next step of the generator kept with every range.
LcgNext ==
    /\ lcg.steps < lcg.modulus
    /\ LET next == (lcg.multiplier * lcg.current + lcg.increment) % lcg.modulus
       IN  lcg' = [lcg EXCEPT !.current = next, !.seen = @ \cup {next}, !.steps = @ + 1]
    /\ UNCHANGED <<range, bucket, current, seg, drawn, ips, misses, genAt>>

Sampling(start, size) ==
    /\ current' = [start |-> start, size |-> size]
    /\ seg' = 0
    /\ genAt' = "segment"

\* A /24 or smaller is sampled as it is.
SmallRange ==
    /\ genAt = "subnet" /\ Whole
    /\ IF drawn = 0
       THEN Sampling(range.start, ipRangeSize(range.bits)) /\ drawn' = 1
       ELSE genAt' = "done" /\ UNCHANGED <<current, seg, drawn>>
    /\ UNCHANGED <<range, bucket, ips, misses, lcg>>

\* A larger IPv4 range is walked subnet by subnet, from the address it was written with.
Subnet4 ==
    /\ range.family = "v4" /\ genAt = "subnet" /\ ~Whole
    /\ LET start == IF drawn = 0 THEN range.start ELSE current.start + Block
       IN  IF start \in Prefix(range) THEN Sampling(start, Block) ELSE genAt' = "done" /\ UNCHANGED <<current, seg>>
    /\ drawn' = drawn + 1
    /\ UNCHANGED <<range, bucket, ips, misses, lcg>>

\* Of a larger IPv6 range a fixed number of subnets is drawn, with repetition.
Subnet6 ==
    /\ range.family = "v6" /\ genAt = "subnet" /\ ~Whole
    /\ IF drawn = Samples6
       THEN genAt' = "done" /\ UNCHANGED <<current, seg, drawn>>
       ELSE /\ \E k \in 0 .. Power[SubnetBits - range.bits] - 1 : Sampling(range.start + k * Block, Block)
            /\ drawn' = drawn + 1
    /\ UNCHANGED <<range, bucket, ips, misses, lcg>>

Count == IF current.size < bucket THEN current.size ELSE bucket

\* Mutant: the segments have the size of the whole subnet.
Segment_Whole(i) == i * (current.size \div Count) .. current.size - 1

\* Offsets of the i-th of Count segments: the last one takes the remainder.
Segment(i) ==
    LET size == current.size \div Count
    IN  i * size .. (IF i = Count - 1 THEN current.size ELSE (i + 1) * size) - 1

\* An IPv4 address that ends in 0 or 255 is no endpoint; one past the IPv4 space is an IPv6 address.
Usable(ip) == range.family = "v6" \/ ip >= Space \/ ip % Block \notin {0, Block - 1}

\* One segment: a random usable address of it, or none after maxRetries draws.
\* FillBytes panics for an IPv6 address past the last one.
DrawFromSegment ==
    /\ genAt = "segment" /\ seg < Count
    /\ \E offset \in Segment(seg) :
         LET ip == current.start + offset
             past == range.family = "v6" /\ ip >= Space
         IN \/ past /\ genAt' = "panicked" /\ UNCHANGED <<ips, misses>>
            \/ /\ ~past /\ Usable(ip)
               /\ ips' = Append(ips, [ip |-> ip, subnet |-> current.start]) /\ UNCHANGED <<misses, genAt>>
            \/ ~past /\ ~Usable(ip) /\ misses' = misses + 1 /\ UNCHANGED <<ips, genAt>>
    /\ seg' = seg + 1
    /\ UNCHANGED <<range, bucket, current, drawn, lcg>>

SubnetDone ==
    /\ genAt = "segment" /\ seg = Count
    /\ genAt' = "subnet"
    /\ UNCHANGED <<range, bucket, current, seg, drawn, ips, misses, lcg>>

Next == LcgNext \/ SmallRange \/ Subnet4 \/ Subnet6 \/ DrawFromSegment \/ SubnetDone

\* Values of the walk and of the generator.
TypeOK ==
    /\ genAt \in {"subnet", "segment", "done", "panicked"}
    /\ seg \in 0 .. Block /\ misses \in Nat /\ drawn \in Nat
    /\ current.start \in Nat /\ current.size \in 0 .. Block
    /\ lcg.current \in lcg.seen /\ lcg.steps \in 0 .. lcg.modulus

(***************************************************************************)
(* The samples of a range that is written with its first address lie in    *)
(* the range (addIP never leaves the address space), none comes twice      *)
(* unless an IPv6 subnet was drawn twice, and when the walk is over every  *)
(* subnet of an IPv4 range was given its whole bucket: a sample or a       *)
(* segment given up for each of its segments.                              *)
(***************************************************************************)
RangeIsCovered ==
    Masked(range) =>
        /\ genAt # "panicked"
        /\ \A k \in DOMAIN ips : ips[k].ip \in Prefix(range)
        /\ range.family = "v4" =>
             \A j, k \in DOMAIN ips : j # k => ips[j].ip # ips[k].ip
        /\ genAt = "done" /\ range.family = "v4" =>
             LET size == ipRangeSize(range.bits)
                 per  == IF size < Block THEN size ELSE Block
             IN  Len(ips) + misses = (size \div per) * (IF per < bucket THEN per ELSE bucket)

(***************************************************************************)
(* "LCG represents a linear congruential generator with full period": it   *)
(* comes back to an address only after it has been at all of them.  The    *)
(* check that chooses multiplier and increment gives this for every size a *)
(* range of more than two addresses has; for two addresses it lets the     *)
(* multiplier 0 through.                                                   *)
(***************************************************************************)
LcgHasFullPeriod ==
    lcg.modulus # 2 =>
        Cardinality(lcg.seen) = (IF lcg.steps = lcg.modulus THEN lcg.modulus ELSE lcg.steps + 1)
=============================================================================
