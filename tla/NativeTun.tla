----------------------------- MODULE NativeTun -----------------------------
(***************************************************************************)
(* wireguard/tun/tun_linux.go: how a kernel interface's changes reach the  *)
(* device.  One goroutine reads netlink messages, another finds the state  *)
(* out by writing nothing to the interface every second; both send events  *)
(* on one channel, which the netlink goroutine closes.                     *)
(*                                                                         *)
(* The kernel is external: a change queues a message, and messages that    *)
(* were not read yet may be read as one datagram.                          *)
(***************************************************************************)
EXTENDS Integers, Sequences

CONSTANTS
    EventRoom,  \* capacity of events (5)
    MaxChanges  \* bound: changes of the interface

VARIABLES
    status,      \* the interface: "up" or "down"
    changes,
    netlink,     \* messages not read yet
    created,     \* "starting", "ok" or "failed"
    hack,        \* routineHackListener: "poll", "send", "sleep" or "gone"
    hackLast,    \* what it reported last
    nl,          \* routineNetlinkListener: "recv", "handle", "send", "mtu", "closing" or "gone"
    nlMsgs,      \* messages of the datagram in hand
    wasEverUp,
    nlSends,     \* the event it is about to send
    events,      \* the channel
    eventsOpen,
    shutdown,    \* Close was called
    told         \* what the device's event reader heard last

nativeVars == <<status, changes, netlink, created, hack, hackLast, nl, nlMsgs, wasEverUp, nlSends, events, eventsOpen, shutdown, told>>

\* CreateTUNFromFile up to the start of the goroutines.
Init ==
    /\ status \in {"up", "down"} /\ changes = 0 /\ netlink = <<>>
    /\ created = "starting"
    /\ hack = "poll" /\ hackLast = "none"
    /\ nl = "recv" /\ nlMsgs = <<>> /\ wasEverUp = FALSE /\ nlSends = "none"
    /\ events = <<>> /\ eventsOpen = TRUE /\ shutdown = FALSE
    /\ told = "none"

hackVars == <<hack, hackLast>>
nlVars == <<nl, nlMsgs, wasEverUp, nlSends>>
linkVars == <<status, changes>>

Changes ==
    /\ changes < MaxChanges
    /\ changes' = changes + 1
    /\ status' = IF status = "up" THEN "down" ELSE "up"
    /\ netlink' = Append(netlink, status')
    /\ UNCHANGED <<created, hackVars, nlVars, events, eventsOpen, shutdown, told>>

\* setMTU, after the goroutines were started: its failure closes the netlink socket
\* and nothing else.
SetMTU ==
    /\ created = "starting"
    /\ created' \in {"ok", "failed"}
    /\ UNCHANGED <<linkVars, netlink, hackVars, nlVars, events, eventsOpen, shutdown, told>>

Room == Len(events) < EventRoom

-----------------------------------------------------------------------------
\* The empty write: what it says, or an error when the file is closed.
HackPolls ==
    /\ hack = "poll"
    /\ hack' = IF shutdown THEN "gone" ELSE IF status # hackLast THEN "send" ELSE "sleep"
    /\ hackLast' = IF hack' = "send" THEN status ELSE hackLast
    /\ UNCHANGED <<linkVars, netlink, created, nlVars, events, eventsOpen, shutdown, told>>

\* Mutant: only the interface's going down is reported.
HackSends_DownOnly ==
    /\ hack = "send" /\ Room
    /\ hack' = "sleep"
    /\ events' = IF hackLast = "down" THEN Append(events, hackLast) ELSE events
    /\ UNCHANGED <<linkVars, netlink, created, hackLast, nlVars, eventsOpen, shutdown, told>>

HackSends ==
    /\ hack = "send" /\ Room
    /\ hack' = "sleep"
    /\ events' = Append(events, hackLast)
    /\ UNCHANGED <<linkVars, netlink, created, hackLast, nlVars, eventsOpen, shutdown, told>>

HackWakes ==
    /\ hack = "sleep"
    /\ hack' = IF shutdown THEN "gone" ELSE "poll"
    /\ UNCHANGED <<linkVars, netlink, created, hackLast, nlVars, events, eventsOpen, shutdown, told>>

\* Mutant: Close does not cancel the read; a message has to come.
NetlinkReceives_NotCancelled ==
    /\ nl = "recv" /\ netlink # <<>>
    /\ nl' = IF shutdown \/ created = "failed" THEN "closing" ELSE "handle"
    /\ nlMsgs' = netlink /\ netlink' = <<>> /\ wasEverUp' = FALSE
    /\ UNCHANGED <<linkVars, created, hackVars, nlSends, events, eventsOpen, shutdown, told>>

\* A datagram of one or all of the messages, or the end: cancelled, closed by a
\* failed setMTU, or shut down.  wasEverUp begins anew with each.
NetlinkReceives ==
    /\ nl = "recv"
    /\ \/ /\ shutdown \/ created = "failed"
          /\ nl' = "closing"
          /\ UNCHANGED <<netlink, nlMsgs, wasEverUp>>
       \/ /\ ~shutdown /\ created # "failed" /\ netlink # <<>>
          /\ \E n \in {1, Len(netlink)} :
                /\ nlMsgs' = SubSeq(netlink, 1, n)
                /\ netlink' = SubSeq(netlink, n + 1, Len(netlink))
          /\ wasEverUp' = FALSE
          /\ nl' = "handle"
    /\ UNCHANGED <<linkVars, created, hackVars, nlSends, events, eventsOpen, shutdown, told>>

\* The next message of the datagram: up is reported, down only after an up.
NetlinkHandles ==
    /\ nl = "handle"
    /\ IF nlMsgs = <<>>
       THEN nl' = "recv" /\ UNCHANGED <<nlMsgs, wasEverUp, nlSends>>
       ELSE /\ nlMsgs' = Tail(nlMsgs)
            /\ wasEverUp' = (wasEverUp \/ Head(nlMsgs) = "up")
            /\ nlSends' = Head(nlMsgs)
            /\ nl' = IF wasEverUp' THEN "send" ELSE "mtu"
    /\ UNCHANGED <<linkVars, netlink, created, hackVars, events, eventsOpen, shutdown, told>>

NetlinkSends ==
    /\ nl \in {"send", "mtu"} /\ Room
    /\ events' = Append(events, IF nl = "send" THEN nlSends ELSE "mtu")
    /\ nl' = IF nl = "send" THEN "mtu" ELSE "handle"
    /\ UNCHANGED <<linkVars, netlink, created, hackVars, nlMsgs, wasEverUp, nlSends, eventsOpen, shutdown, told>>

\* Mutant: the channel is closed without waiting for the other goroutine.
NetlinkCloses_AtOnce ==
    /\ nl = "closing"
    /\ nl' = "gone" /\ eventsOpen' = FALSE
    /\ UNCHANGED <<linkVars, netlink, created, hackVars, nlMsgs, wasEverUp, nlSends, events, shutdown, told>>

\* The deferred end: hackListenerClosed, then the channel.
NetlinkCloses ==
    /\ nl = "closing" /\ hack = "gone"
    /\ nl' = "gone" /\ eventsOpen' = FALSE
    /\ UNCHANGED <<linkVars, netlink, created, hackVars, nlMsgs, wasEverUp, nlSends, events, shutdown, told>>

\* Close, once.
Close ==
    /\ created = "ok" /\ ~shutdown
    /\ shutdown' = TRUE
    /\ UNCHANGED <<linkVars, netlink, created, hackVars, nlVars, events, eventsOpen, told>>

\* RoutineTUNEventReader, which runs once the device has the interface.
ReaderHears ==
    /\ created = "ok" /\ events # <<>>
    /\ told' = IF Head(events) = "mtu" THEN told ELSE Head(events)
    /\ events' = Tail(events)
    /\ UNCHANGED <<linkVars, netlink, created, hackVars, nlVars, eventsOpen, shutdown>>

HackSystem == HackPolls \/ HackSends \/ HackWakes
NetlinkSystem == NetlinkReceives \/ NetlinkHandles \/ NetlinkSends \/ NetlinkCloses

Next == Changes \/ SetMTU \/ Close \/ HackSystem \/ NetlinkSystem \/ ReaderHears

-----------------------------------------------------------------------------
\* Shapes of the state.
TypeOK ==
    /\ status \in {"up", "down"} /\ changes \in 0..MaxChanges
    /\ hack \in {"poll", "send", "sleep", "gone"} /\ hackLast \in {"none", "up", "down"}
    /\ nl \in {"recv", "handle", "send", "mtu", "closing", "gone"}
    /\ events \in Seq({"up", "down", "mtu"}) /\ Len(events) <= EventRoom
    /\ told \in {"none", "up", "down"}

\* The events' channel is closed when neither goroutine can send on it any more,
\* although each of them may be waiting for room when Close comes.
EventsClosedLast == ~eventsOpen => hack = "gone" /\ nl = "gone"

\* Close makes both goroutines end and the channel close, which is what ends the
\* device's event reader.
CloseEndsListeners == shutdown ~> ~eventsOpen

\* The device learns that an interface that settles is up, whichever goroutine saw
\* which of the changes before, and in whatever order their events came.
UpIsLearned == <>[](created = "ok" /\ ~shutdown /\ status = "up" => told = "up")

=============================================================================
