------------------------------ MODULE StdBind ------------------------------
(* The UDP sockets of a WireGuard device (wireguard/conn/bind_std.go): opening
   the two families on one port, sending a batch with or without segmentation
   offload, taking a received batch apart, closing.

   A datagram is a sequence of bytes of which only the owner matters: byte i of
   datagram d is the pair <<d, i>>.  A message handed to the kernel is such a
   sequence with a segment size (0: none), and the kernel cuts it as UDP GSO does.
   One sender and the owner of the bind run concurrently; the mutex makes their
   accesses to the fields atomic steps.                                       *)
EXTENDS Naturals, Sequences, SequencesExt, FiniteSets

CONSTANTS Sizes,          \* lengths of the datagrams of a batch
          MaxBatch,       \* datagrams the sender may put into one batch
          MaxPayload,     \* maxIPv4PayloadLen: bytes of one message
          MaxSegments,    \* udpSegmentMaxDatagrams
          RxBatch,        \* IdealBatchSize, of which RxBatch \div MaxSegments are read
          Ports,          \* ports the kernel may choose
          MaxTries,       \* tries of Open for one port of both families
          MaxOpens        \* bound on the calls of Open

VARIABLES sockets,        \* sockets that exist in the kernel: [id, family, port]
          v4, v6,         \* the fields: a socket's id, or 0
          offload,        \* ipv4TxOffload
          opening,        \* where Open is: [at, v4, port, tries]
          opens,          \* calls of Open so far, which also names new sockets
          send,           \* the Send in progress
          wire            \* the datagrams of that Send the network got

stdVars == <<sockets, v4, v6, offload, opening, opens, send, wire>>

NotOpening == [at |-> "no", v4 |-> 0, port |-> 0, tries |-> 0]
NotSending == [at |-> "no", bufs |-> <<>>, conn |-> 0, gso |-> FALSE, msgs |-> <<>>,
               retried |-> FALSE, before |-> 0, ok |-> FALSE]

Init == /\ sockets = {} /\ v4 = 0 /\ v6 = 0 /\ offload = FALSE /\ opening = NotOpening
        /\ opens = 0 /\ send = NotSending /\ wire = <<>>

IsOpen(id) == \E s \in sockets : s.id = id
Without(id) == {s \in sockets : s.id # id}

-----------------------------------------------------------------------------
\* Open: the IPv4 socket first; a family the system lacks is passed over.
Listen4(port) ==
  \/ /\ opening' = [opening EXCEPT !.at = "v6", !.v4 = 2 * opens, !.port = port]
     /\ sockets' = sockets \cup {[id |-> 2 * opens, family |-> 4, port |-> port]}
  \/ /\ opening' = [opening EXCEPT !.at = "v6", !.v4 = 0, !.port = 0]
     /\ UNCHANGED sockets
  \/ opening' = NotOpening /\ UNCHANGED sockets

OpenStart == /\ opening.at = "no" /\ v4 = 0 /\ v6 = 0 /\ opens < MaxOpens
             /\ opens' = opens + 1
             /\ opening' = [NotOpening EXCEPT !.at = "v4"]
             /\ UNCHANGED <<sockets, v4, v6, offload, send, wire>>

Open4 == /\ opening.at = "v4"
         /\ \E port \in Ports : Listen4(port)
         /\ UNCHANGED <<v4, v6, offload, opens, send, wire>>

\* A bug: another port is tried and the socket on the first one stays.
Retry6_KeepsSocket == /\ opening' = [opening EXCEPT !.at = "v4", !.tries = @ + 1, !.v4 = 0]
                      /\ UNCHANGED <<sockets, v4, v6, offload>>

\* The port is taken for IPv6: give up the IPv4 socket and begin again.
Retry6 == /\ opening' = [opening EXCEPT !.at = "v4", !.tries = @ + 1, !.v4 = 0]
          /\ sockets' = Without(opening.v4)
          /\ UNCHANGED <<v4, v6, offload>>

\* The IPv6 socket on the same port; the fields are set once both are decided.
Open6 ==
  /\ opening.at = "v6"
  /\ \/ opening.tries < MaxTries /\ Retry6
     \/ /\ opening' = NotOpening /\ sockets' = Without(opening.v4)
        /\ UNCHANGED <<v4, v6, offload>>
     \/ \E port \in IF opening.port = 0 THEN Ports ELSE {opening.port} :
          /\ sockets' = sockets \cup {[id |-> 2 * opens + 1, family |-> 6, port |-> port]}
          /\ v4' = opening.v4 /\ v6' = 2 * opens + 1
          /\ offload' \in BOOLEAN /\ (opening.v4 = 0 => ~offload')
          /\ opening' = NotOpening
     \/ /\ v4' = opening.v4 /\ v6' = 0 /\ opening' = NotOpening
        /\ offload' \in BOOLEAN /\ (opening.v4 = 0 => ~offload')
        /\ UNCHANGED sockets
  /\ UNCHANGED <<opens, send, wire>>

\* Close closes the sockets it finds in the fields.
Close == /\ opening.at = "no" /\ (v4 # 0 \/ v6 # 0)
         /\ sockets' = {s \in sockets : s.id \notin {v4, v6}}
         /\ v4' = 0 /\ v6' = 0 /\ offload' = FALSE
         /\ UNCHANGED <<opening, opens, send, wire>>

-----------------------------------------------------------------------------
Datagram(d, len) == [i \in 1..len |-> <<d, i>>]

\* A bug: a shorter datagram does not end the message it is appended to.
Fits_NoTail(base, buf) == /\ Len(base.bytes) + Len(buf) <= MaxPayload
                          /\ Len(buf) <= base.gso /\ base.count < MaxSegments

\* coalesceMessages: what may be appended to the message being built.
Fits(base, buf) == /\ Len(base.bytes) + Len(buf) <= MaxPayload
                   /\ Len(buf) <= base.gso /\ base.count < MaxSegments
                   /\ ~base.ended

Coalesced(bufs) ==
  FoldLeft(LAMBDA msgs, buf :
             LET base == Last(msgs)
             IN IF msgs # <<>> /\ Fits(base, buf)
                  THEN Append(Front(msgs), [bytes |-> base.bytes \o buf, gso |-> base.gso,
                                            count |-> base.count + 1,
                                            ended |-> base.ended \/ Len(buf) < base.gso])
                  ELSE Append(msgs, [bytes |-> buf, gso |-> Len(buf), count |-> 1,
                                     ended |-> FALSE]),
           <<>>, bufs)

\* Without offload every datagram is a message of its own.
Plain(bufs) == [i \in DOMAIN bufs |-> [bytes |-> bufs[i], gso |-> 0, count |-> 1,
                                       ended |-> FALSE]]

\* How the kernel cuts a message into datagrams: the segment size counts where
\* more than one datagram was put in.
Segments(m) ==
  IF m.count = 1 THEN <<m.bytes>>
  ELSE [k \in 1..((Len(m.bytes) + m.gso - 1) \div m.gso) |->
          SubSeq(m.bytes, (k - 1) * m.gso + 1,
                 IF k * m.gso < Len(m.bytes) THEN k * m.gso ELSE Len(m.bytes))]

Messages(bufs, gso) == IF gso THEN Coalesced(bufs) ELSE Plain(bufs)

\* Send reads the fields under the mutex and uses what it read to the end.
SendStart(lens) ==
  /\ send.at = "no"
  /\ LET bufs == [d \in DOMAIN lens |-> Datagram(d, lens[d])]
     IN send' = [NotSending EXCEPT !.at = IF v4 = 0 THEN "no" ELSE "write", !.bufs = bufs,
                                   !.conn = v4, !.gso = offload,
                                   !.msgs = Messages(bufs, offload)]
  /\ wire' = <<>>
  /\ UNCHANGED <<sockets, v4, v6, offload, opening, opens>>

\* A bug: after a short write the rest is sent from the wrong place.
Rest_SkipsOne(msgs, n) == SubSeq(msgs, n + 2, Len(msgs))

Rest(msgs, n) == SubSeq(msgs, n + 1, Len(msgs))

\* The loop of send: the kernel takes some of the messages, or refuses the next.
\* A refusal of segmentation switches it off, for whatever socket the bind has
\* by then, and starts the batch again.
Write ==
  /\ send.at = "write"
  /\ \/ \E n \in 1..Len(send.msgs) :
          /\ IsOpen(send.conn)
          /\ wire' = wire \o FlattenSeq([i \in 1..n |-> Segments(send.msgs[i])])
          /\ send' = IF n = Len(send.msgs)
                       THEN [send EXCEPT !.at = "done", !.msgs = <<>>, !.ok = TRUE]
                       ELSE [send EXCEPT !.msgs = Rest(@, n)]
          /\ UNCHANGED offload
     \/ send' = [send EXCEPT !.at = "done"] /\ UNCHANGED <<wire, offload>>
     \/ /\ send.gso
        /\ send' = [send EXCEPT !.gso = FALSE, !.retried = TRUE, !.before = Len(wire),
                                !.msgs = Messages(send.bufs, FALSE)]
        /\ offload' = FALSE
        /\ UNCHANGED wire
  /\ UNCHANGED <<sockets, v4, v6, opening, opens>>

\* The batch is given back.
SendEnd == /\ send.at = "done" /\ send' = NotSending /\ wire' = <<>>
           /\ UNCHANGED <<sockets, v4, v6, offload, opening, opens>>

Lengths == UNION {[1..n -> Sizes] : n \in 1..MaxBatch}

Next == \/ OpenStart \/ Open4 \/ Open6 \/ Close \/ Write \/ SendEnd
        \/ \E lens \in Lengths : SendStart(lens)

-----------------------------------------------------------------------------
\* The first of the buffers at the end that the kernel fills.
ReadAt == RxBatch - (RxBatch \div MaxSegments)

\* splitCoalescedMessages: the segments go to the front one by one, segment j to
\* buffer j; one that would go beyond the message it comes from is an error,
\* since what lies there has not been read.
Split(filled) ==
  LET from(k) == LET segs == Segments(filled[k])
                 IN [j \in DOMAIN segs |-> [seg |-> segs[j], at |-> ReadAt + k]]
      all     == FlattenSeq([k \in DOMAIN filled |-> from(k)])
  IN [err |-> \E j \in DOMAIN all : j > all[j].at, out |-> [j \in DOMAIN all |-> all[j].seg]]

-----------------------------------------------------------------------------
\* Shapes of the state.
TypeOK == /\ {v4, v6} \subseteq 0..(2 * opens + 1) /\ opening.tries \in 0..MaxTries
          /\ offload \in BOOLEAN /\ send.at \in {"no", "write", "done"}

\* Between calls the kernel's sockets are those of the fields: a failed or
\* repeated Open leaves none behind, and both families share one port.
SocketsAreOwned ==
  opening.at = "no" =>
    /\ {s.id : s \in sockets} = {v4, v6} \ {0}
    /\ \A a \in sockets, b \in sockets : a.port = b.port

\* A Send that succeeds has put every datagram of the batch on the wire, whole
\* and in order; datagrams are repeated only when segmentation had to be given
\* up in the middle, and then it is the front of the batch that comes twice.
BatchIsSent ==
  send.ok => /\ send.before <= Len(send.bufs)
             /\ wire = SubSeq(send.bufs, 1, send.before) \o send.bufs
             /\ send.before > 0 => send.retried

\* What a peer's batch is coalesced into comes apart again: the segments are
\* copied to the front of the batch without running into messages not yet read.
ReceivedIsSplit ==
  \A lens \in Lengths :
    LET bufs == [d \in DOMAIN lens |-> Datagram(d, lens[d])]
        msgs == Coalesced(bufs)
    IN Len(msgs) <= RxBatch - ReadAt => Split(msgs) = [err |-> FALSE, out |-> bufs]
=============================================================================
