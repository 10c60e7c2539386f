---------------------------- MODULE MasqueNoize ----------------------------
(* The obfuscation of a MASQUE tunnel's QUIC packets (masque/noize): the socket
   that QUIC writes to wraps the real one, starts goroutines that send junk, cuts
   long Initial packets, pads the others, and is switched off once the tunnel is up.

   One socket talks to one endpoint.  A packet is a number; its bytes are known by
   that number and their offset, so that the goroutine that sends the fragments of
   an Initial shows what it finds in the caller's buffer when it gets there.
   Delays are left out: every goroutine moves at any time.  Enable, SetConfig and
   StoreAddr have no callers.                                                   *)
EXTENDS Naturals, FiniteSets

CONSTANTS Writers,      \* goroutines of QUIC that write, each with its buffer
          Lengths,      \* lengths of QUIC's packets
          Trigger,      \* length of the packet written before QUIC's (4)
          FragmentSize,
          PaddingMin, PaddingMax,
          SmallPacket,  \* the length from which a packet is padded (16)
          Mtu,          \* the length that padding keeps to (1200)
          Header,       \* bytes that wrapProtocol puts in front
          BeforeHS, AfterI1, DuringHS, AfterHS, \* junk packets of each phase
          Signatures,   \* signature packets that parse and are not empty
          MaxWrites     \* bound: packets QUIC writes

VARIABLES enabled,
          hsState,      \* state of the endpoint: seen and postSent
          quicWriter,   \* writer -> where it is in WriteToUDP, with what
          buffer,       \* writer -> number of the packet in its buffer
          writes,       \* packets written so far
          prelude,      \* packets executePreHandshake has left to send
          epilogue,     \* packets executePostHandshake has left to send
          cutting,      \* goroutines that send the rest of an Initial
          junkSent,     \* junk and signature packets sent
          pieces,       \* what went out of an Initial: whose, from where to where, and torn
          datagrams     \* lengths of the other packets that went out, with their own

noizeVars == <<enabled, hsState, quicWriter, buffer, writes, prelude, epilogue, cutting,
               junkSent, pieces, datagrams>>

Idle == [at |-> "idle", kind |-> "rtt", len |-> 0, out |-> 0]

Init == /\ enabled = TRUE /\ hsState = [seen |-> FALSE, postSent |-> FALSE]
        /\ quicWriter = [w \in Writers |-> Idle] /\ buffer = [w \in Writers |-> 0] /\ writes = 0
        /\ prelude = 0 /\ epilogue = 0 /\ cutting = {} /\ junkSent = 0
        /\ pieces = {} /\ datagrams = {}

-----------------------------------------------------------------------------
\* executePreHandshake's packets, in any order of junk and signatures.
Prelude == BeforeHS + AfterI1 + DuringHS + Signatures

\* addPadding: the lengths a packet may get.  Padding is cut at the limit, and left
\* out when nothing of it remains.
addPadding(len) ==
  IF PaddingMax = 0 \/ len < SmallPacket THEN {len}
  ELSE {IF len + p <= Mtu THEN len + p ELSE IF len < Mtu THEN Mtu ELSE len :
          p \in PaddingMin..PaddingMax}

\* The kinds of packet detectQUICPacketType tells apart that matter here.  The four
\* letters that ConnectTunnelWithNoize writes first have a short header's first bit.
Written(n) == IF n = 1 THEN {[kind |-> "rtt", len |-> Trigger]}
              ELSE [kind : {"initial", "handshake", "rtt"}, len : Lengths]

\* A bug: the switch is not looked at.
WriteToUDP_Always(w, kind, len) ==
  /\ quicWriter[w].at = "idle" /\ writes < MaxWrites
  /\ quicWriter' = [quicWriter EXCEPT ![w] = [at |-> "obfuscate", kind |-> kind, len |-> len, out |-> len]]
  /\ writes' = writes + 1 /\ buffer' = [buffer EXCEPT ![w] = writes + 1]
  /\ UNCHANGED <<enabled, hsState, prelude, epilogue, cutting, junkSent, pieces, datagrams>>

\* Settings with nothing to do.
NothingToDo == Prelude + AfterHS + PaddingMax + FragmentSize = 0

\* QUIC fills the writer's buffer and writes it; the switch is read once, without
\* its lock.
WriteToUDP(w, kind, len) ==
  /\ quicWriter[w].at = "idle" /\ writes < MaxWrites
  /\ quicWriter' = [quicWriter EXCEPT ![w] =
                      [at |-> IF enabled /\ ~NothingToDo THEN "obfuscate" ELSE "send",
                       kind |-> kind, len |-> len, out |-> len]]
  /\ writes' = writes + 1 /\ buffer' = [buffer EXCEPT ![w] = writes + 1]
  /\ UNCHANGED <<enabled, hsState, prelude, epilogue, cutting, junkSent, pieces, datagrams>>

\* Where ObfuscateWrite goes on with a packet that is not cut.
AfterFirst(w) ==
  /\ quicWriter' = [quicWriter EXCEPT ![w].at = IF quicWriter[w].kind = "rtt" THEN "post" ELSE "pad"]
  /\ UNCHANGED cutting

\* fragmentInitialPacket: the first fragment is returned, a goroutine gets the rest.
fragmentInitialPacket(w) ==
  /\ quicWriter' = [quicWriter EXCEPT ![w].at = "send", ![w].out = FragmentSize]
  /\ cutting' = cutting \cup
       {[writer |-> w, packet |-> buffer[w], len |-> quicWriter[w].len, offset |-> FragmentSize]}

\* A bug: every writer that has not seen the state yet starts the sequence.
FirstPacket_Twice(w) ==
  /\ quicWriter[w].at = "obfuscate"
  /\ prelude' = prelude + Prelude /\ hsState' = [hsState EXCEPT !.seen = TRUE]
  /\ IF quicWriter[w].kind = "initial" /\ FragmentSize > 0 /\ quicWriter[w].len > FragmentSize
        THEN fragmentInitialPacket(w) ELSE AfterFirst(w)
  /\ UNCHANGED <<enabled, buffer, writes, epilogue, junkSent, pieces, datagrams>>

\* ObfuscateWrite up to the fragments: the first packet to the endpoint starts the
\* goroutine of the pre-handshake sequence and does not wait for it.
FirstPacket(w) ==
  /\ quicWriter[w].at = "obfuscate"
  /\ prelude' = IF hsState.seen THEN prelude ELSE prelude + Prelude
  /\ hsState' = [hsState EXCEPT !.seen = TRUE]
  /\ IF quicWriter[w].kind = "initial" /\ FragmentSize > 0 /\ quicWriter[w].len > FragmentSize
        THEN fragmentInitialPacket(w) ELSE AfterFirst(w)
  /\ UNCHANGED <<enabled, buffer, writes, epilogue, junkSent, pieces, datagrams>>

\* The first packet with a short header starts the goroutine of the junk that is to
\* come after the handshake.
PostHandshake(w) ==
  /\ quicWriter[w].at = "post"
  /\ epilogue' = IF hsState.postSent THEN epilogue ELSE AfterHS
  /\ hsState' = [hsState EXCEPT !.postSent = TRUE]
  /\ quicWriter' = [quicWriter EXCEPT ![w].at = "pad"]
  /\ UNCHANGED <<enabled, buffer, writes, prelude, cutting, junkSent, pieces, datagrams>>

\* The padding and the header of the protocol that is mimicked.
Pad(w) ==
  /\ quicWriter[w].at = "pad"
  /\ \E n \in addPadding(quicWriter[w].len) :
       quicWriter' = [quicWriter EXCEPT ![w].at = "send", ![w].out = n + Header]
  /\ UNCHANGED <<enabled, hsState, buffer, writes, prelude, epilogue, cutting, junkSent, pieces, datagrams>>

\* The write to the real socket; QUIC has its buffer back.
Send(w) ==
  /\ quicWriter[w].at = "send"
  /\ IF quicWriter[w].out < quicWriter[w].len
        THEN /\ pieces' = pieces \cup {[packet |-> buffer[w], len |-> quicWriter[w].len, from |-> 0,
                                        to |-> quicWriter[w].out, torn |-> FALSE]}
             /\ UNCHANGED datagrams
        ELSE /\ datagrams' = datagrams \cup {[len |-> quicWriter[w].len, out |-> quicWriter[w].out]}
             /\ UNCHANGED pieces
  /\ quicWriter' = [quicWriter EXCEPT ![w] = Idle]
  /\ UNCHANGED <<enabled, hsState, buffer, writes, prelude, epilogue, cutting, junkSent>>

\* A bug: a last fragment that is not full is left out.
Until_Full(c) == IF c.offset + FragmentSize > c.len THEN c.offset ELSE c.offset + FragmentSize

\* Where the next fragment ends.
Until(c) == IF c.offset + FragmentSize > c.len THEN c.len ELSE c.offset + FragmentSize

\* The goroutine of an Initial sends the next fragment of the buffer it was given.
SendFragment(c) ==
  /\ c \in cutting
  /\ LET next == [c EXCEPT !.offset = c.offset + FragmentSize]
     IN /\ cutting' = (cutting \ {c}) \cup (IF next.offset < c.len THEN {next} ELSE {})
        /\ pieces' = pieces \cup {[packet |-> c.packet, len |-> c.len, from |-> c.offset, to |-> Until(c),
                                   torn |-> buffer[c.writer] # c.packet]}
  /\ UNCHANGED <<enabled, hsState, quicWriter, buffer, writes, prelude, epilogue, junkSent, datagrams>>

\* A packet of executePreHandshake, and one of executePostHandshake: neither looks
\* at the switch again.
PreJunk == /\ prelude > 0 /\ prelude' = prelude - 1 /\ junkSent' = junkSent + 1
           /\ UNCHANGED <<enabled, hsState, quicWriter, buffer, writes, epilogue, cutting, pieces, datagrams>>

PostJunk == /\ epilogue > 0 /\ epilogue' = epilogue - 1 /\ junkSent' = junkSent + 1
            /\ UNCHANGED <<enabled, hsState, quicWriter, buffer, writes, prelude, cutting, pieces, datagrams>>

\* The tunnel is up.
DisableObfuscation ==
  /\ enabled /\ writes > 1
  /\ enabled' = FALSE
  /\ UNCHANGED <<hsState, quicWriter, buffer, writes, prelude, epilogue, cutting, junkSent, pieces, datagrams>>

NoizeSystem == \/ \E w \in Writers : FirstPacket(w) \/ PostHandshake(w) \/ Pad(w) \/ Send(w)
               \/ \E c \in cutting : SendFragment(c)
               \/ PreJunk \/ PostJunk

\* The dialling goroutine's packet is written before QUIC starts.
Next == \/ NoizeSystem \/ DisableObfuscation
        \/ /\ writes = 1 => \A w \in Writers : quicWriter[w].at = "idle"
           /\ \E w \in Writers, p \in Written(writes + 1) : WriteToUDP(w, p.kind, p.len)

-----------------------------------------------------------------------------
\* Shapes of the state.
TypeOK == /\ writes \in 0..MaxWrites /\ \A w \in Writers : buffer[w] \in 0..writes
          /\ \A w \in Writers : quicWriter[w].at \in {"idle", "obfuscate", "post", "pad", "send"}
          /\ \A c \in cutting : c.offset < c.len

\* However many goroutines write at once, the endpoint gets the junk and the
\* signatures of one pre-handshake sequence and one post-handshake sequence.
JunkComesOnce == junkSent + prelude + epilogue <= Prelude + AfterHS

\* The fragments of an Initial whose goroutine is done are the whole packet, each
\* byte once, and their bytes are its own unless QUIC used the buffer again.
Reused(n) == \A w \in Writers : buffer[w] # n

FragmentsMakeThePacket ==
  \A x \in pieces :
    LET all == {p \in pieces : p.packet = x.packet}
    IN /\ x.torn => Reused(x.packet)
       /\ (\A c \in cutting : c.packet # x.packet) /\ (\E p \in all : p.from = 0) =>
            \A b \in 0..(x.len - 1) : Cardinality({p \in all : p.from <= b /\ b < p.to}) = 1

\* Padding makes no packet longer than the limit that was shorter; only the header
\* of the mimicked protocol does.
PaddingKeepsToLimit == \A d \in datagrams : d.out > Mtu + Header => d.len > Mtu

\* Once the switch is off and what was under way has gone out, nothing but QUIC's
\* own packets goes out, unchanged.
Quiet == /\ ~enabled /\ prelude = 0 /\ epilogue = 0 /\ cutting = {}
         /\ \A w \in Writers : quicWriter[w].at \in {"idle", "send"} /\ quicWriter[w].out = quicWriter[w].len

QuietStays == [][Quiet => Quiet']_noizeVars

\* Switching off ends the junk.
DisablingEndsJunk == ~enabled ~> Quiet
=============================================================================
