----------------------------- MODULE MCPackets -----------------------------
(***************************************************************************)
(* The parts a packet passes through, for TLC: the pool its buffer comes   *)
(* from, the replay filter, the rate limiter, the cookies, the routing     *)
(* trie, the two kinds of tun device with the offload of one, tun2socks,   *)
(* the three binds, and the obfuscation of MASQUE. They share no variable, *)
(* so a behaviour is one of any of them while the others stay as they      *)
(* start.                                                                  *)
(***************************************************************************)
EXTENDS WaitPool, Integers, FiniteSets

CONSTANTS
    BlockBits, RingBlocks, Limit, Counters,
    Workers, Sources, MaxTokens, CollectAge, Horizon, MaxBuckets,
    Addrs, RefreshAge, MaxFaults,
    Width, Owners, NoOwner, MaxRoutes,
    Senders, QueueSize, Sends,
    Arrivals, BatchSize, Capacity,
    EventRoom, MaxChanges,
    Sizes, MaxBatch, MaxPayload, MaxSegments, RxBatch, Ports, MaxTries, StdOpens,
    MaxOpens,
    Dests, Interval, Signature, Jc, JcAfterI1, JcBeforeHS, MaxTime, MaxSends,
    Writers, PacketLengths, Trigger, FragmentSize, PaddingMin, PaddingMax, SmallPacket, Mtu, Header, BeforeHS, AfterI1,
    DuringHS, AfterHS, Signatures, MaxWrites,
    MaxErrors, MaxInstances

VARIABLES
    part, \* the part that moves
    last, ring, accepted, verdict,
    now, buckets, table, mutex, worker, collector, ticking, resetOpen, passed, raced,
    secret, secretAge, replier, cookie, cookieAge, lastMAC1, addr, faults, mac1Sent, message, cookieReply, through,
    trie, root, entries, routes,
    queue, packetsSent, notifier, read, dropped, tunReader, closing,
    batch, bufs, items, toWrite, headless, prepended,
    status, changes, netlink, created, hack, hackLast, nl, nlMsgs, wasEverUp, nlSends, events, eventsOpen, shutdown, told,
    lwipAt, starts, tunDev, devsOpen, lwipStack, stacksOpen, pipeTask, pipes, pipeResult,
    sockets, v4, v6, offload, opening, opens, send, wire,
    control, udp, relay, association, calls, up, failedLate, server, heard,
    clock, lastSent, postSent, sender, trailing, begun, sent, prepared, naked,
    enabled, hsState, quicWriter, buffer, writes, prelude, epilogue, cutting, junkSent, pieces, datagrams

\* The bounds and sizes are numbers. A burst is more than one packet, and what the
\* rate limiter throws away is older than it takes to fill (garbageCollectTime is
\* twenty packets' time, a burst is five); maxErrorTimes is not zero.
ASSUME PacketsAssumption ==
    /\ IsFiniteSet(Senders)
    /\ {QueueSize, Sends, EventRoom, MaxChanges, MaxInstances, Horizon, MaxBuckets, RefreshAge, MaxFaults} \subseteq Nat
    /\ MaxErrors \in Nat \ {0}
    /\ MaxTokens \in Nat \ {0, 1} /\ CollectAge \in Nat /\ CollectAge >= MaxTokens
    /\ "free" \notin Workers

\* The ring has blocks and they have bits.
ASSUME ReplayAssumption == {BlockBits, RingBlocks, Limit} \subseteq Nat \ {0} /\ Counters \subseteq Nat

\* Counts and lengths are not negative; app/wg.go gives an interval of 100 ms.
ASSUME ObfuscationAssumption ==
    /\ Interval \in Nat \ {0} /\ Jc \in Nat /\ JcAfterI1 \in Nat /\ JcBeforeHS \in Nat
    /\ FragmentSize \in Nat /\ PaddingMin \in Nat /\ PaddingMax \in Nat
    /\ SmallPacket \in Nat /\ Mtu \in Nat /\ Header \in Nat
    /\ Trigger \in Nat /\ PacketLengths \subseteq Nat /\ MaxWrites \in Nat
    /\ BeforeHS \in Nat /\ AfterI1 \in Nat /\ DuringHS \in Nat /\ AfterHS \in Nat /\ Signatures \in Nat

\* A WireGuard datagram is not empty (a keepalive has 32 bytes), a message takes at
\* least one, and the kernel gives out no port 0.
ASSUME BindAssumption ==
    /\ Sizes \subseteq Nat \ {0} /\ MaxSegments \in Nat \ {0} /\ 0 \notin Ports
    /\ {MaxPayload, RxBatch, MaxBatch, MaxTries, StdOpens, MaxOpens} \subseteq Nat

\* A prefix has a length, and nobody is not a peer.
ASSUME TrieAssumption == Width \in Nat /\ NoOwner \notin Owners

Replay == INSTANCE ReplayFilter
Rate == INSTANCE RateLimiter
Cook == INSTANCE Cookies WITH sent <- mac1Sent, accepted <- through
Ips == INSTANCE AllowedIPs
Tun == INSTANCE NetTun WITH sent <- packetsSent
Gro == INSTANCE Offload
Native == INSTANCE NativeTun
Lwip == INSTANCE Tun2Socks
Std == INSTANCE StdBind WITH MaxOpens <- StdOpens
Socks == INSTANCE ProxyBind
Pre == INSTANCE PreflightBind
Noize == INSTANCE MasqueNoize WITH Lengths <- PacketLengths

replayVars == <<last, ring, accepted, verdict>>
rateVars == <<now, buckets, table, mutex, worker, collector, ticking, resetOpen, passed, raced>>
cookieVars ==
    <<secret, secretAge, replier, cookie, cookieAge, lastMAC1, addr, faults, mac1Sent, message, cookieReply, through>>
ipVars == <<trie, root, entries, routes>>
tunVars == <<queue, packetsSent, notifier, read, dropped, tunReader, closing>>
groVars == <<batch, bufs, items, toWrite, headless, prepended>>
nativeVars ==
    <<status, changes, netlink, created, hack, hackLast, nl, nlMsgs, wasEverUp, nlSends, events, eventsOpen, shutdown,
      told>>
lwipVars == <<lwipAt, starts, tunDev, devsOpen, lwipStack, stacksOpen, pipeTask, pipes, pipeResult>>
stdVars == <<sockets, v4, v6, offload, opening, opens, send, wire>>
proxyBindVars == <<control, udp, relay, association, calls, up, failedLate, server, heard>>
preflightVars == <<clock, lastSent, postSent, sender, trailing, begun, sent, prepared, naked>>
noizeVars ==
    <<enabled, hsState, quicWriter, buffer, writes, prelude, epilogue, cutting, junkSent, pieces, datagrams>>

wireVars == <<replayVars, rateVars, cookieVars, ipVars>>
deviceVars == <<tunVars, groVars, nativeVars, lwipVars>>
bindVars == <<stdVars, proxyBindVars, preflightVars, noizeVars>>

Parts ==
    {"pool", "replay", "rate", "cookies", "ips", "netTun", "offload", "nativeTun", "lwip", "stdBind",
     "proxyBind", "preflight", "noize"}

\* Packets that may come to the offload: segments of one flow, some with PSH, one
\* with a bad checksum, and datagrams, an empty one among them.
SomeArrivals ==
    [proto : {"tcp"}, seq : 0..3, len : 1..2, psh : {FALSE}, sum : {TRUE}, options : {0}] \cup
    [proto : {"tcp"}, seq : 2..3, len : {1}, psh : {TRUE}, sum : {TRUE}, options : {0}] \cup
    [proto : {"tcp"}, seq : {1}, len : {1}, psh : {FALSE}, sum : {FALSE}, options : {0}] \cup
    [proto : {"udp"}, seq : {0}, len : 0..2, psh : {FALSE}, sum : {TRUE}, options : {0}] \cup
    [proto : {"udp"}, seq : {0}, len : {1}, psh : {FALSE}, sum : {FALSE}, options : {0}]

\* Five signature packets: one of two tags, of which one is longer than a tag may
\* be, one that cannot be parsed, one of an empty tag, one left out, and a short one.
FiveSignatures ==
    << <<[bad |-> FALSE, len |-> 4], [bad |-> FALSE, len |-> 1200]>>,
       <<[bad |-> TRUE, len |-> 4]>>,
       <<[bad |-> FALSE, len |-> 0]>>,
       <<>>,
       <<[bad |-> FALSE, len |-> 2]>> >>

\* Counters up to two at and over the limit.
SmallCounters == 0..13

MCInit ==
    /\ part \in Parts
    /\ Init /\ Replay!Init /\ Rate!Init
    /\ Cook!Init /\ (part = "cookies" \/ addr = CHOOSE a \in Addrs : TRUE)
    /\ Ips!Init /\ Tun!Init /\ Gro!Init /\ Lwip!Init /\ Std!Init
    /\ Native!Init /\ (part = "nativeTun" \/ status = "up")
    /\ Socks!Init /\ (part = "proxyBind" \/ server = "v6")
    /\ Pre!Init /\ Noize!Init

MCNext ==
    \/ /\ UNCHANGED <<part, wireVars, deviceVars, bindVars>>
       /\ part = "pool" /\ Next
    \/ /\ UNCHANGED <<part, vars, deviceVars, bindVars>>
       /\ \/ part = "replay" /\ Replay!Next /\ UNCHANGED <<rateVars, cookieVars, ipVars>>
          \/ part = "rate" /\ Rate!Next /\ UNCHANGED <<replayVars, cookieVars, ipVars>>
          \/ part = "cookies" /\ Cook!Next /\ UNCHANGED <<replayVars, rateVars, ipVars>>
          \/ part = "ips" /\ Ips!Next /\ UNCHANGED <<replayVars, rateVars, cookieVars>>
    \/ /\ UNCHANGED <<part, vars, wireVars, bindVars>>
       /\ \/ part = "netTun" /\ Tun!Next /\ UNCHANGED <<groVars, nativeVars, lwipVars>>
          \/ part = "offload" /\ Gro!Next /\ UNCHANGED <<tunVars, nativeVars, lwipVars>>
          \/ part = "nativeTun" /\ Native!Next /\ UNCHANGED <<tunVars, groVars, lwipVars>>
          \/ part = "lwip" /\ Lwip!Next /\ UNCHANGED <<tunVars, groVars, nativeVars>>
    \/ /\ UNCHANGED <<part, vars, wireVars, deviceVars>>
       /\ \/ part = "stdBind" /\ Std!Next /\ UNCHANGED <<proxyBindVars, preflightVars, noizeVars>>
          \/ part = "proxyBind" /\ Socks!Next /\ UNCHANGED <<stdVars, preflightVars, noizeVars>>
          \/ part = "preflight" /\ Pre!Next /\ UNCHANGED <<stdVars, proxyBindVars, noizeVars>>
          \/ part = "noize" /\ Noize!Next /\ UNCHANGED <<stdVars, proxyBindVars, preflightVars>>

MCSpec ==
    /\ MCInit
    /\ [][MCNext]_<<part, vars, wireVars, deviceVars, bindVars>>
    /\ WF_cookieVars(part = "cookies" /\ Cook!System)
    /\ WF_cookieVars(part = "cookies" /\ Cook!Work("other"))
    /\ WF_nativeVars(part = "nativeTun" /\ Native!HackSystem)
    /\ WF_nativeVars(part = "nativeTun" /\ Native!NetlinkSystem)
    /\ WF_nativeVars(part = "nativeTun" /\ Native!ReaderHears)
    /\ WF_lwipVars(part = "lwip" /\ Lwip!LwipSystem)
    /\ WF_noizeVars(part = "noize" /\ Noize!NoizeSystem)

-----------------------------------------------------------------------------
\* The ring of bitmaps in replay.go implements the window it stands for.
ImplementsWindow == Replay!ImplementsWindow

(***************************************************************************)
(* Under load each source is held to its rate although its entry is thrown *)
(* away and made anew, every entry has a ticker to collect it, collector   *)
(* and worker wait for each other only after two first packets of one      *)
(* source, and what a responder lets through came from where a cookie had  *)
(* reached its sender (ratelimiter.go, cookie.go).                         *)
(***************************************************************************)
LoadIsShed ==
    /\ part = "rate" =>
          Rate!TypeOK /\ Rate!RateKept /\ Rate!EntriesAreCollected /\ Rate!OnlyTwoFirstPacketsBlock
    /\ part = "cookies" => Cook!TypeOK /\ Cook!ThroughMeansReachable

(***************************************************************************)
(* After any insertions and removals a packet goes to the peer of the      *)
(* longest prefix that covers its address, and the trie is still a tree    *)
(* that removal can take apart (allowedips.go).                            *)
(***************************************************************************)
RoutesAreRight == part = "ips" => Ips!TypeOK /\ Ips!LongestPrefixWins /\ Ips!TrieIsWhole

(***************************************************************************)
(* A packet of the netstack is in one place, and one in the queue has a    *)
(* notifier on its way to it (netstack/tun.go); the native device's events *)
(* are closed when neither of its goroutines can send any more             *)
(* (tun_linux.go); tun2socks has one pipe, between its present device and  *)
(* stack, and none when it says that it stopped (lwip.go).                 *)
(***************************************************************************)
TunsKeepPackets ==
    /\ part = "netTun" => Tun!TypeOK /\ Tun!NoPacketTwice /\ Tun!QueueIsNoticed
    /\ part = "nativeTun" => Native!TypeOK /\ Native!EventsClosedLast
    /\ part = "lwip" => Lwip!TypeOK /\ Lwip!PipeIsCurrent /\ Lwip!StopIsComplete

(***************************************************************************)
(* Splitting what handleGRO merged gives back the packets that came, each  *)
(* once; a PSH is lost only by a packet put in front, and datagrams with a *)
(* payload stay in order (offload_linux.go).                               *)
(***************************************************************************)
OffloadIsUndone ==
    part = "offload" => Gro!TypeOK /\ Gro!SplitUndoesMerge /\ Gro!PushLostOnlyInFront /\ Gro!DatagramsStayInOrder

(***************************************************************************)
(* A failed or repeated Open leaves no socket behind, a Send that succeeds *)
(* has put the whole batch on the wire, and a coalesced batch comes apart  *)
(* again (bind_std.go).  Through a proxy, an open bind has a dead socket   *)
(* only after an association that failed late, its datagrams go to the     *)
(* present relay, and an IPv4 server gets IPv6 headers only once it was    *)
(* heard from (bind_proxy.go).                                             *)
(***************************************************************************)
BindsAreSound ==
    /\ part = "stdBind" =>
          Std!TypeOK /\ Std!SocketsAreOwned /\ Std!BatchIsSent /\ (opens = 0 => Std!ReceivedIsSplit)
    /\ part = "proxyBind" =>
          Socks!TypeOK /\ Socks!OpenIsAliveUnlessLeft /\ Socks!RelayIsCurrent /\ Socks!MappedOnlyOnceHeard

(***************************************************************************)
(* However many goroutines send at once, the times given to preflights of  *)
(* one address are an interval apart, and they begin so but for one that   *)
(* waited for the mutex; on the whole there is no more than one an         *)
(* interval, junk comes in its number, and no initiation goes out before a *)
(* preflight nobody else is sending (preflight_bind.go).  In MASQUE the    *)
(* junk of each sequence comes once, the fragments of an Initial are the   *)
(* packet unless QUIC used its buffer again, and padding keeps to its      *)
(* limit (masque/noize).                                                   *)
(***************************************************************************)
ObfuscationIsBounded ==
    /\ part = "preflight" =>
          /\ Pre!TypeOK /\ Pre!PreflightsAreApart /\ Pre!CrowdedOnlyByALateOne
          /\ Pre!RateIsKept /\ Pre!JunkIsBounded /\ Pre!NoNakedInit
    /\ part = "noize" =>
          Noize!TypeOK /\ Noize!JunkComesOnce /\ Noize!FragmentsMakeThePacket /\ Noize!PaddingKeepsToLimit

(***************************************************************************)
(* A retrying initiator gets through a responder that stays under load;    *)
(* Close ends the tun device's goroutines, and an interface that settles   *)
(* up is reported up; switching the obfuscation off ends it for good; a    *)
(* stop of tun2socks returns, and a start unless the device it replaces is *)
(* still open and read; and Close of the netstack's device makes only a    *)
(* sender panic that had its packet in hand before.                        *)
(***************************************************************************)
PacketsFlow ==
    /\ part = "cookies" => Cook!GetsThrough
    /\ part = "nativeTun" => Native!CloseEndsListeners
    /\ part = "nativeTun" => Native!UpIsLearned
    /\ part = "noize" => Noize!DisablingEndsJunk
    /\ part = "lwip" => Lwip!StopReturns
    /\ part = "lwip" => Lwip!StartReturns
    /\ Noize!QuietStays
    /\ Tun!OnlyAWaitingSenderPanics

=============================================================================
