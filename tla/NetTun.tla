------------------------------- MODULE NetTun -------------------------------
(***************************************************************************)
(* wireguard/tun/netstack/tun.go: the device between the network stack and *)
(* WireGuard.  Every goroutine of the stack that sends a packet puts it in *)
(* the endpoint's queue and calls WriteNotify, which takes a packet out    *)
(* and waits for the device's reader.  The stack's endpoint is external:   *)
(* its queue drops a packet that finds it full or closed and does not      *)
(* notify.                                                                 *)
(***************************************************************************)
EXTENDS Integers, Sequences, FiniteSets

CONSTANTS
    Senders,   \* goroutines of the stack that send
    QueueSize, \* of channel.New (1024)
    Sends      \* bound: packets sent

VARIABLES
    queue,    \* the endpoint's packets
    sent,     \* packets sent so far; a packet is its number
    notifier, \* sender -> "idle", "notify", "waiting", "panic", and its packet
    read,     \* packets the reader got
    dropped,  \* packets thrown away
    tunReader,\* "reading" or "closed"
    closing   \* how far Close is: "open", "nic", "events", "ep" or "closed"

tunVars == <<queue, sent, notifier, read, dropped, tunReader, closing>>

NoPacket == 0

Init ==
    /\ queue = <<>> /\ sent = 0 /\ read = {} /\ dropped = {}
    /\ notifier = [s \in Senders |-> [at |-> "idle", packet |-> NoPacket]]
    /\ tunReader = "reading"
    /\ closing = "open"

Notifier(s, at, p) == notifier' = [notifier EXCEPT ![s] = [at |-> at, packet |-> p]]

\* The stack's NIC writes a packet; without a NIC it has no route.
Sends1(s) ==
    /\ notifier[s].at = "idle" /\ closing = "open" /\ sent < Sends
    /\ sent' = sent + 1
    /\ IF Len(queue) < QueueSize
       THEN queue' = Append(queue, sent') /\ Notifier(s, "notify", NoPacket) /\ UNCHANGED dropped
       ELSE dropped' = dropped \cup {sent'} /\ UNCHANGED <<queue, notifier>>
    /\ UNCHANGED <<read, tunReader, closing>>

\* Mutant: the packet is looked at and stays in the queue.
WriteNotify_Peeks(s) ==
    /\ notifier[s].at = "notify"
    /\ IF queue = <<>> THEN Notifier(s, "idle", NoPacket) ELSE Notifier(s, "waiting", Head(queue))
    /\ UNCHANGED <<queue, sent, read, dropped, tunReader, closing>>

\* Mutant: the notifier offers its packet and leaves.
WriteNotify_Offers(s) ==
    /\ notifier[s].at = "notify"
    /\ Notifier(s, "idle", NoPacket)
    /\ UNCHANGED <<queue, sent, read, dropped, tunReader, closing>>

\* WriteNotify takes the packet at the head, its own or another sender's.
WriteNotify(s) ==
    /\ notifier[s].at = "notify"
    /\ IF queue = <<>> THEN Notifier(s, "idle", NoPacket) /\ UNCHANGED queue
       ELSE Notifier(s, "waiting", Head(queue)) /\ queue' = Tail(queue)
    /\ UNCHANGED <<sent, read, dropped, tunReader, closing>>

\* Read receives what a notifier sends on incomingPacket.
Read(s) ==
    /\ tunReader = "reading" /\ notifier[s].at = "waiting" /\ closing # "closed"
    /\ read' = read \cup {notifier[s].packet}
    /\ Notifier(s, "idle", NoPacket)
    /\ UNCHANGED <<queue, sent, dropped, tunReader, closing>>

\* The channel is closed under the reader ...
ReadClosed ==
    /\ tunReader = "reading" /\ closing = "closed"
    /\ tunReader' = "closed"
    /\ UNCHANGED <<queue, sent, notifier, read, dropped, closing>>

\* ... and under a sender that waits on it, which panics.
SendOnClosed(s) ==
    /\ notifier[s].at = "waiting" /\ closing = "closed"
    /\ Notifier(s, "panic", notifier[s].packet)
    /\ UNCHANGED <<queue, sent, read, dropped, tunReader, closing>>

\* Mutant: the packets' channel goes before the endpoint.
Close_ChannelFirst ==
    /\ closing # "closed"
    /\ closing' = "closed"
    /\ UNCHANGED <<queue, sent, notifier, read, dropped, tunReader>>

\* Close: RemoveNIC, the events, the endpoint, which drains its queue, and the
\* packets' channel.
Close ==
    /\ closing # "closed"
    /\ closing' = [open |-> "nic", nic |-> "events", events |-> "ep", ep |-> "closed"][closing]
    /\ IF closing = "events"
       THEN queue' = <<>> /\ dropped' = dropped \cup {queue[i] : i \in DOMAIN queue}
       ELSE UNCHANGED <<queue, dropped>>
    /\ UNCHANGED <<sent, notifier, read, tunReader>>

System == \/ ReadClosed
          \/ \E s \in Senders : WriteNotify(s) \/ Read(s) \/ SendOnClosed(s)

Next == System \/ Close \/ \E s \in Senders : Sends1(s)

-----------------------------------------------------------------------------
\* Shapes of the state.
TypeOK ==
    /\ queue \in Seq(1..Sends) /\ Len(queue) <= QueueSize /\ sent \in 0..Sends
    /\ \A s \in Senders : notifier[s].at \in {"idle", "notify", "waiting", "panic"}
    /\ read \cup dropped \subseteq 1..Sends
    /\ tunReader \in {"reading", "closed"}
    /\ closing \in {"open", "nic", "events", "ep", "closed"}

\* Every packet the stack sent is in one place: the queue, a notifier's hand, the
\* reader, or among the dropped.
NoPacketTwice ==
    LET held == {notifier[s].packet : s \in Senders} \ {NoPacket}
        queued == {queue[i] : i \in DOMAIN queue}
    IN /\ held \cup queued \cup read \cup dropped = 1..sent
       /\ Cardinality(held) + Len(queue) + Cardinality(read \cup dropped) = sent

\* A packet in the queue has a notifier on its way to it: none stays there until
\* the next one is sent, although senders take each other's.
QueueIsNoticed ==
    Cardinality({s \in Senders : notifier[s].at = "notify"}) >= Len(queue)

\* Close makes a sender panic only when that sender had its packet in hand before
\* the endpoint was closed; one that comes later finds nothing to send.
OnlyAWaitingSenderPanics ==
    [][\A s \in Senders :
          notifier'[s].at = "waiting" /\ notifier[s].at # "waiting" => closing \in {"open", "nic", "events"}]_tunVars

=============================================================================
