------------------------------ MODULE Offload ------------------------------
(***************************************************************************)
(* wireguard/tun/offload_linux.go: packets of a batch are merged before    *)
(* they are written to the device (GRO), and a merged packet that is read  *)
(* is split into segments (GSO).                                           *)
(*                                                                         *)
(* One flow of each protocol.  A byte of payload is the pair of the packet *)
(* it came in and its position, so that nothing is confused; headers are   *)
(* equal except for what the code compares.  A packet the code does not    *)
(* consider (a fragment, a flag other than ACK and PSH, no payload) is one *)
(* that is not a candidate.                                                *)
(***************************************************************************)
EXTENDS Integers, Sequences, FiniteSets, SequencesExt

CONSTANTS
    Arrivals,  \* packets that may come: [proto, seq, len, psh, sum, options]
    BatchSize, \* bound: packets of a batch
    Capacity   \* payload a buffer has room for

VARIABLES
    batch,   \* the packets that came
    bufs,    \* index -> the packet in that buffer: seq, psh, sum, data
    items,   \* protocol -> the items of its flow, oldest first
    toWrite, \* indices to write
    headless, \* indices to write whose buffer keeps the bytes it had where the header goes
    prepended \* some packet was put in front of an item

groVars == <<batch, bufs, items, toWrite, headless, prepended>>

Init ==
    /\ batch = <<>> /\ bufs = <<>> /\ toWrite = <<>>
    /\ items = [p \in {"tcp", "udp"} |-> <<>>]
    /\ headless = {} /\ prepended = FALSE

packetIsGROCandidate(p) == p.len > 0

Payload(p, i) == [k \in 1..p.len |-> <<i, k>>]

-----------------------------------------------------------------------------
\* Mutant: a short packet at the end is not looked for.
Whole_Always(item) == TRUE

\* Nothing may follow a packet shorter than the others.
Whole(item) == Len(bufs[item.index].data) % item.gsoSize = 0

\* Where p fits to a TCP item by its sequence number.
tcpPacketsCanCoalesce(p, item) ==
    IF p.options # item.options THEN "unavailable"
    ELSE IF p.seq = item.sentSeq + item.gsoSize * (item.numMerged + 1)
         THEN IF ~item.psh /\ Whole(item) /\ p.len <= item.gsoSize THEN "append" ELSE "unavailable"
    ELSE IF p.seq + p.len = item.sentSeq
         THEN IF ~p.psh /\ p.len >= item.gsoSize /\ (p.len > item.gsoSize => item.numMerged = 0)
              THEN "prepend" ELSE "unavailable"
    ELSE "unavailable"

udpPacketsCanCoalesce(p, item) ==
    IF p.options = item.options /\ Whole(item) /\ p.len <= item.gsoSize THEN "append" ELSE "unavailable"

CanCoalesce(p, item) ==
    IF p.proto = "tcp" THEN tcpPacketsCanCoalesce(p, item) ELSE udpPacketsCanCoalesce(p, item)

\* What comes of p and an item: too long, a checksum that is wrong, or merged.
Outcome(p, item) ==
    IF CanCoalesce(p, item) = "unavailable" \/ Len(bufs[item.index].data) + p.len > Capacity THEN "no"
    ELSE IF item.numMerged = 0 /\ ~bufs[item.index].sum THEN "item invalid"
    ELSE IF ~p.sum THEN "packet invalid" ELSE "merge"

NewItem(p, i) ==
    [index |-> i, sentSeq |-> p.seq, numMerged |-> 0, gsoSize |-> p.len, psh |-> p.psh, options |-> p.options]

Buffer(p, i) == [seq |-> p.seq, psh |-> p.psh, sum |-> p.sum, data |-> Payload(p, i)]

\* Mutant: a PSH that is appended is not passed on.
Push_Dropped(old, p) == old.psh

\* The merged packet's flag when p is appended.
Push(old, p) == old.psh \/ p.psh

\* The packet joins the item; one that goes in front brings its own header, and the
\* two buffers change places.
Merged(p, i, item) ==
    LET old == bufs[item.index]
        front == CanCoalesce(p, item) = "prepend"
    IN /\ bufs' = IF front
                  THEN [Append(bufs, old) EXCEPT ![item.index] =
                           [Buffer(p, i) EXCEPT !.data = @ \o old.data]]
                  ELSE [Append(bufs, Buffer(p, i)) EXCEPT ![item.index] =
                           [old EXCEPT !.psh = Push(old, p), !.data = @ \o Payload(p, i)]]
       /\ prepended' = (prepended \/ front)

MergedItem(p, item) ==
    [item EXCEPT !.numMerged = @ + 1,
                 !.gsoSize = IF p.len > @ THEN p.len ELSE @,
                 !.sentSeq = IF CanCoalesce(p, item) = "prepend" THEN p.seq ELSE @,
                 !.psh = @ \/ p.psh]

\* groResultNoop and groResultTableInsert: the packet is written by itself.
Alone(p, i, its) ==
    /\ bufs' = Append(bufs, Buffer(p, i))
    /\ toWrite' = Append(toWrite, i)
    /\ items' = [items EXCEPT ![p.proto] = its]
    /\ UNCHANGED prepended

\* Mutant: UDP looks at every item, as TCP does.
Candidates_All(p) == DOMAIN items[p.proto]

\* The items that are tried: all of a TCP flow, the last one of a UDP flow.
Candidates(p) ==
    IF p.proto = "tcp" THEN DOMAIN items["tcp"]
    ELSE {i \in DOMAIN items["udp"] : i = Len(items["udp"])}

\* tcpGRO and udpGRO: from the newest item down to the first that takes the packet
\* or finds it wrong; items found wrong on the way leave the TCP table, so that no
\* header is written for them although they are written.
Evaluate(p, i) ==
    LET its == items[p.proto]
        decisive == {k \in Candidates(p) : Outcome(p, its[k]) \in {"merge", "packet invalid"}}
        at == IF decisive = {} THEN 0 ELSE CHOOSE k \in decisive : \A x \in decisive : x <= k
        wrong == {k \in Candidates(p) : k > at /\ Outcome(p, its[k]) = "item invalid"}
        left == IF p.proto = "udp" THEN its
                ELSE SelectSeq(its, LAMBDA x : \A k \in wrong : its[k] # x)
    IN /\ headless' = headless \cup {its[k].index : k \in IF p.proto = "tcp" THEN wrong ELSE {}}
       /\ IF at # 0 /\ Outcome(p, its[at]) = "merge"
          THEN /\ Merged(p, i, its[at])
               /\ items' = [items EXCEPT ![p.proto] =
                      SelectSeq([its EXCEPT ![at] = MergedItem(p, its[at])], LAMBDA x : \A k \in wrong : its[k] # x)]
               /\ UNCHANGED toWrite
          ELSE IF at # 0 /\ p.proto = "tcp" THEN Alone(p, i, left)
          ELSE Alone(p, i, Append(left, NewItem(p, i)))

handleGRO(p) ==
    /\ Len(batch) < BatchSize
    /\ batch' = Append(batch, p)
    /\ IF packetIsGROCandidate(p) THEN Evaluate(p, Len(batch) + 1)
       ELSE Alone(p, Len(batch) + 1, items[p.proto]) /\ UNCHANGED headless

\* The tables are reset after a batch.
reset ==
    /\ batch # <<>>
    /\ batch' = <<>> /\ bufs' = <<>> /\ toWrite' = <<>>
    /\ headless' = {} /\ prepended' = FALSE
    /\ items' = [p \in {"tcp", "udp"} |-> <<>>]

Next == reset \/ \E p \in Arrivals : handleGRO(p)

-----------------------------------------------------------------------------
\* applyTCPCoalesceAccounting, applyUDPCoalesceAccounting, and handleGRO for what is
\* in no table: the header of a buffer that gets one.
Accounting(i) ==
    LET its == SelectSeq(items["tcp"] \o items["udp"], LAMBDA x : x.index = i)
    IN IF its = <<>> \/ its[1].numMerged = 0 THEN [merged |-> FALSE, gsoSize |-> 0]
       ELSE [merged |-> TRUE, gsoSize |-> its[1].gsoSize]

\* gsoSplit: segments of gsoSize, the last one shorter; PSH stays on the last.
gsoSplit(b, size) ==
    LET n == (Len(b.data) + size - 1) \div size
        end(k) == IF k * size > Len(b.data) THEN Len(b.data) ELSE k * size
    IN [k \in 1..n |-> [seq |-> b.seq + size * (k - 1),
                        psh |-> b.psh /\ k = n,
                        data |-> SubSeq(b.data, (k - 1) * size + 1, end(k))]]

\* What the other side of the device receives for the buffers written with a header;
\* nothing is known of what the kernel makes of the others.
Received ==
    LET one(i) == IF Accounting(i).merged THEN gsoSplit(bufs[i], Accounting(i).gsoSize)
                  ELSE <<[seq |-> bufs[i].seq, psh |-> bufs[i].psh, data |-> bufs[i].data]>>
    IN FlattenSeq([k \in DOMAIN toWrite |-> IF toWrite[k] \in headless THEN <<>> ELSE one(toWrite[k])])

Sent(i) == [seq |-> batch[i].seq, psh |-> batch[i].psh, data |-> Payload(batch[i], i)]

\* Shapes of the state.
TypeOK ==
    /\ Len(bufs) = Len(batch) /\ Len(batch) <= BatchSize
    /\ \A p \in {"tcp", "udp"}, i \in 1..BatchSize :
          i \in DOMAIN items[p] => items[p][i].index \in DOMAIN bufs /\ items[p][i].gsoSize > 0
    /\ \A i \in DOMAIN bufs : Len(bufs[i].data) <= Capacity
    /\ IsInjective(toWrite) /\ headless \subseteq ToSet(toWrite) /\ ToSet(toWrite) \subseteq DOMAIN batch

\* Splitting undoes merging: whatever order and sizes TCP segments come in, the
\* packets the other side gets are the packets that came, each once, with their own
\* sequence numbers and payloads, and none gains a PSH.  Only a TCP packet whose
\* checksum is wrong can be written without a header of its own.
SplitUndoesMerge ==
    LET got == Received
    IN /\ \A i \in headless : batch[i].proto = "tcp" /\ ~batch[i].sum
       /\ Len(got) = Len(batch) - Cardinality(headless)
       /\ \A i \in DOMAIN batch \ headless : \E k \in DOMAIN got :
             /\ got[k].data = Sent(i).data
             /\ batch[i].proto = "tcp" => got[k].seq = batch[i].seq
             /\ got[k].psh => batch[i].psh

\* A PSH is lost only when something was put in front of the packet that had it: the
\* header of the packet in front becomes the merged packet's.
PushLostOnlyInFront ==
    prepended \/
        LET got == Received
        IN \A i \in DOMAIN batch \ headless : \E k \in DOMAIN got :
              got[k].data = Sent(i).data /\ (batch[i].psh => got[k].psh)

\* Datagrams with a payload stay in order; an empty one, which the table does not
\* know of, may be overtaken.
DatagramsStayInOrder ==
    LET sent == SelectSeq([i \in DOMAIN batch |-> IF batch[i].proto = "udp" THEN Payload(batch[i], i) ELSE <<>>],
                          LAMBDA d : d # <<>>)
        got == SelectSeq([k \in DOMAIN Received |-> Received[k].data], LAMBDA d : d # <<>> /\ batch[d[1][1]].proto = "udp")
    IN got = sent

=============================================================================
