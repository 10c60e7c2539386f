---------------------------- MODULE ProxyServer ----------------------------
(***************************************************************************)
(* The local proxy: the accept loop of proxy/pkg/mixed, the negotiation of *)
(* SOCKS5, SOCKS4 and HTTP up to the connection to the destination, and    *)
(* the relay between the two connections.                                  *)
(*                                                                         *)
(* mode says who serves:                                                   *)
(*   "handler"  the mixed proxy with wiresocks' generalHandler, as         *)
(*              StartProxy sets it up: success is announced, then dialled; *)
(*   "dial"     the mixed proxy without a handler: the embedded handlers   *)
(*              dial first and relay with statute.Tunnel;                  *)
(*   "bare"     ListenAndServe of one protocol's own server, which has no  *)
(*              handler and does not close what ServeConn leaves open.     *)
(*                                                                         *)
(* Clients and destinations are external. An end of a connection is        *)
(* "open", "gone" (the peer closed or reset it) or "closed" (by the        *)
(* proxy). A read of a gone end fails, a write to it may succeed or fail.  *)
(***************************************************************************)
EXTENDS Naturals

CONSTANT Conns \* the connections clients make

VARIABLES
    mode,     \* who serves
    ctxDone,  \* the proxy's context is cancelled
    listener, \* "open" or "closed"
    server,   \* the accept loop: "select", "accept" or "returned"
    phase,    \* connection -> how far it has been served
    proto,    \* connection -> the protocol its first byte chose
    client,   \* connection -> the client's end
    remote,   \* connection -> the destination's end
    told,     \* connection -> the last answer written to the client
    early,    \* connection -> what became of data sent with the request
    copy      \* connection -> direction -> its copying goroutine

vars == <<mode, ctxDone, listener, server, phase, proto, client, remote, told, early, copy>>

Directions == {"up", "down"} \* client to destination, destination to client
Serving == {"methods", "header", "address", "request"}
Refusals == {"noAcceptable", "addrTypeNotSupported", "commandNotSupported", "rejected",
             "connectionRefused", "networkUnreachable", "hostUnreachable", "unavailable"}

Init ==
    /\ mode \in {"handler", "dial", "bare"}
    /\ ctxDone = FALSE
    /\ listener = "open"
    /\ server = "select"
    /\ phase = [c \in Conns |-> "waiting"]
    /\ proto = [c \in Conns |-> "none"]
    /\ client = [c \in Conns |-> "open"]
    /\ remote = [c \in Conns |-> "none"]
    /\ told = [c \in Conns |-> "nothing"]
    /\ early = [c \in Conns |-> "none"]
    /\ copy = [c \in Conns |-> [d \in Directions |-> "none"]]

Goto(c, p) == phase' = [phase EXCEPT ![c] = p]
Tell(c, r) == told' = [told EXCEPT ![c] = r]
ServerOnly == UNCHANGED <<mode, phase, proto, client, remote, told, early, copy>>
ConnOnly == UNCHANGED <<mode, ctxDone, listener, server>>

-----------------------------------------------------------------------------
(* The accept loop.                                                        *)

Cancel ==
    /\ ~ctxDone
    /\ ctxDone' = TRUE
    /\ UNCHANGED <<listener, server>>
    /\ ServerOnly

\* Mutant: nobody closes the listener when the context ends.
WatchContext_KeepsListener == FALSE

\* The goroutine of StartProxy that waits for the context; Dev is nil, so Stop
\* does nothing. The other servers have no such goroutine.
WatchContext ==
    /\ mode = "handler"
    /\ ctxDone
    /\ listener = "open"
    /\ listener' = "closed"
    /\ UNCHANGED <<ctxDone, server>>
    /\ ServerOnly

\* The test of the context, with the deferred close of the listener.
Select ==
    /\ server = "select"
    /\ IF ctxDone
       THEN server' = "returned" /\ listener' = "closed"
       ELSE server' = "accept" /\ UNCHANGED listener
    /\ UNCHANGED ctxDone
    /\ ServerOnly

\* An error is logged and the loop goes on.
AcceptFails ==
    /\ server = "accept"
    /\ listener = "closed"
    /\ server' = "select"
    /\ UNCHANGED <<ctxDone, listener>>
    /\ ServerOnly

Accept(c) ==
    /\ server = "accept"
    /\ listener = "open"
    /\ phase[c] = "waiting"
    /\ Goto(c, "peek")
    /\ server' = "select"
    /\ UNCHANGED <<mode, ctxDone, listener, proto, client, remote, told, early, copy>>

-----------------------------------------------------------------------------
(* Negotiation. A step reads what the client sends next; where the code    *)
(* answers, the answer is written to a client that may be gone.            *)

\* A step of the negotiation that reads from the client and changes nothing else.
Reads(c, p) ==
    /\ client[c] = "open"
    /\ Goto(c, p)
    /\ UNCHANGED <<proto, client, remote, told, early, copy>>
    /\ ConnOnly

\* The answer r is written and the connection goes on to p; when the write fails,
\* which it can do only if the client has gone, serving ends.
Answers(c, r, p) ==
    /\ Tell(c, r)
    /\ \/ Goto(c, p)
       \/ client[c] = "gone" /\ Goto(c, "ending")

\* The first byte is peeked; a SOCKS version byte that is read again is this one. A
\* protocol's own server ends on the version of another.
handleConnection(c) ==
    /\ phase[c] = "peek"
    /\ client[c] = "open"
    /\ \/ \E p \in {"socks5", "socks4", "http"} :
            /\ proto' = [proto EXCEPT ![c] = p]
            /\ Goto(c, IF p = "socks5" THEN "methods" ELSE "request")
       \/ mode = "bare" /\ Goto(c, "ending") /\ UNCHANGED proto
    /\ UNCHANGED <<client, remote, told, early, copy>>
    /\ ConnOnly

\* A read that fails ends serving without an answer, but for the address of a
\* SOCKS4 request, which is rejected.
ReadFails(c) ==
    /\ phase[c] \in Serving \cup {"peek"}
    /\ client[c] = "gone"
    /\ Goto(c, "ending")
    /\ told' \in {told, IF proto[c] = "socks4" THEN [told EXCEPT ![c] = "rejected"] ELSE told}
    /\ UNCHANGED <<proto, client, remote, early, copy>>
    /\ ConnOnly

\* SOCKS5: the authentication methods.
ServeConn5(c) ==
    /\ phase[c] = "methods"
    /\ client[c] = "open"
    /\ \/ Answers(c, "noAuth", "header")
       \/ Answers(c, "noAcceptable", "ending")
    /\ UNCHANGED <<proto, client, remote, early, copy>>
    /\ ConnOnly

\* SOCKS5: the header; one of another version ends serving without an answer.
Header5(c) ==
    /\ phase[c] = "header"
    /\ Reads(c, "address") \/ Reads(c, "ending")

\* Mutant: ServeConn reads through a buffer of its own.
Pipelined_OwnBuffer(c) == early' \in {early, [early EXCEPT ![c] = "lost"]}

\* What the client has sent behind its request when the proxy has read that: a
\* client that does not wait for the answer. SwitchConn's one buffer keeps it for
\* the relay; http.ReadRequest takes it into a buffer that is dropped.
Pipelined(c) ==
    early' \in {early, [early EXCEPT ![c] = IF proto[c] = "http" THEN "lost" ELSE "kept"]}

\* Mutant: every handler announces first.
AfterRequest_AlwaysAnnounce == "announce"

\* The handler's success is announced before anything is dialled, the embedded
\* one's after.
AfterRequest == IF mode = "handler" THEN "announce" ELSE "dial"

\* SOCKS5: the address and the command. A UDP association is in UdpAssociate.
handle5(c) ==
    /\ phase[c] = "address"
    /\ client[c] = "open"
    /\ \/ Answers(c, "addrTypeNotSupported", "ending") /\ UNCHANGED early
       \/ Answers(c, "commandNotSupported", "ending") /\ UNCHANGED early
       \/ Goto(c, AfterRequest) /\ Pipelined(c) /\ UNCHANGED told
    /\ UNCHANGED <<proto, client, remote, copy>>
    /\ ConnOnly

\* SOCKS4: command, address and user; an unknown command is rejected.
ServeConn4(c) ==
    /\ phase[c] = "request"
    /\ proto[c] = "socks4"
    /\ client[c] = "open"
    /\ \/ Answers(c, "rejected", "ending") /\ UNCHANGED early
       \/ Goto(c, AfterRequest) /\ Pipelined(c) /\ UNCHANGED told
    /\ UNCHANGED <<proto, client, remote, copy>>
    /\ ConnOnly

\* HTTP: one request, which may be malformed. A CONNECT is announced or dialled
\* like a SOCKS request. Another method goes to the destination itself: the
\* handler sees it as the connection's first data and nothing is announced.
ServeConnHTTP(c) ==
    /\ phase[c] = "request"
    /\ proto[c] = "http"
    /\ client[c] = "open"
    /\ \/ Goto(c, "ending") /\ UNCHANGED <<proto, early>>
       \/ Goto(c, AfterRequest) /\ Pipelined(c) /\ UNCHANGED proto
       \/ Goto(c, "dial") /\ proto' = [proto EXCEPT ![c] = "plain"] /\ UNCHANGED early
    /\ UNCHANGED <<client, remote, told, copy>>
    /\ ConnOnly

\* handleConnect and handleHTTP with a handler: success, then the handler; a port
\* that is no number ends an HTTP request in between.
Announce(c) ==
    /\ phase[c] = "announce"
    /\ \/ Answers(c, "success", "dial")
       \/ proto[c] = "http" /\ Answers(c, "success", "ending")
    /\ UNCHANGED <<proto, client, remote, early, copy>>
    /\ ConnOnly

-----------------------------------------------------------------------------
(* The destination.                                                        *)

\* Mutant: an error that is none of the known ones is answered with its text.
errToReply_Unknown ==
    [refused |-> "connectionRefused", unreachable |-> "networkUnreachable", other |-> "other"]

\* What the client is told of an error of the dialer.
errToReply ==
    [refused |-> "connectionRefused", unreachable |-> "networkUnreachable", other |-> "hostUnreachable"]

Refusal(c, err) ==
    CASE proto[c] = "socks5" -> errToReply[err]
      [] proto[c] = "socks4" -> "rejected"
      [] OTHER -> "unavailable"

\* generalHandler returns the error, the embedded handlers answer and close.
DialFails(c) ==
    /\ phase[c] = "dial"
    /\ \/ mode = "handler" /\ Goto(c, "ending") /\ UNCHANGED <<told, client>>
       \/ /\ mode # "handler"
          /\ \E err \in DOMAIN errToReply : Answers(c, Refusal(c, err), "ending")
          /\ client' = [client EXCEPT ![c] = "closed"]
    /\ UNCHANGED <<proto, remote, early, copy>>
    /\ ConnOnly

\* A relay starts: both directions read. Data kept in the connection's buffer is
\* there for the first read.
Relay(c) == copy' = [copy EXCEPT ![c] = [d \in Directions |-> "read"]]

\* generalHandler goes on to copy.
HandlerDials(c) ==
    /\ phase[c] = "dial"
    /\ mode = "handler"
    /\ remote' = [remote EXCEPT ![c] = "open"]
    /\ Goto(c, "relay")
    /\ Relay(c)
    /\ UNCHANGED <<proto, client, told, early>>
    /\ ConnOnly

\* An embedded handler that cannot announce the connection it has made, or cannot
\* write a plain request to it, returns: its deferred calls close both ends.
EmbedFails(c) ==
    /\ remote' = [remote EXCEPT ![c] = "closed"]
    /\ client' = [client EXCEPT ![c] = "closed"]
    /\ Goto(c, "ending")
    /\ UNCHANGED copy

\* The embedded handlers announce the connection they have made and relay.
EmbedDials(c) ==
    /\ phase[c] = "dial"
    /\ mode # "handler"
    /\ \/ /\ remote' = [remote EXCEPT ![c] = "open"]
          /\ Goto(c, "relay")
          /\ Relay(c)
          /\ UNCHANGED client
          /\ IF proto[c] = "plain" THEN UNCHANGED told ELSE Tell(c, "success")
       \/ /\ client[c] = "gone" \/ proto[c] = "plain"
          /\ EmbedFails(c)
          /\ UNCHANGED told
    /\ UNCHANGED <<proto, early>>
    /\ ConnOnly

-----------------------------------------------------------------------------
(* The relay.                                                              *)

End(c, side) == IF side = "client" THEN client[c] ELSE remote[c]
Source(c, d) == End(c, IF d = "up" THEN "client" ELSE "remote")
Target(c, d) == End(c, IF d = "up" THEN "remote" ELSE "client")

Copying(c, d, from, to) ==
    /\ copy[c][d] = from
    /\ copy' = [copy EXCEPT ![c][d] = to]
    /\ UNCHANGED <<phase, proto, client, remote, told, early>>
    /\ ConnOnly

\* One turn of copyConnTimeout, or of io.CopyBuffer. There is no deadline on TCP.
CopyReads(c, d) == Source(c, d) = "open" /\ Copying(c, d, "read", "write")
CopyEnds(c, d) == Source(c, d) # "open" /\ Copying(c, d, "read", "ended")
CopyWrites(c, d) == Target(c, d) # "closed" /\ Copying(c, d, "write", "read")
CopyWriteFails(c, d) == Target(c, d) # "open" /\ Copying(c, d, "write", "ended")

Ended(c, d) == copy[c][d] = "ended"

\* Mutant: generalHandler returns after the first direction.
HandlerReturns_First(c) ==
    /\ mode = "handler"
    /\ \E d \in Directions : Ended(c, d)

\* generalHandler receives from done twice before it returns.
HandlerReturns(c) ==
    /\ mode = "handler"
    /\ \A d \in Directions : Ended(c, d)

\* Mutant: Tunnel waits for both directions.
TunnelReturns_Both(c) ==
    /\ mode # "handler"
    /\ \A d \in Directions : Ended(c, d)

\* Tunnel goes on when a direction ends or the context does.
TunnelReturns(c) ==
    /\ mode # "handler"
    /\ ctxDone \/ \E d \in Directions : Ended(c, d)

\* Either way both ends are closed on the way out.
RelayEnds(c) ==
    /\ phase[c] = "relay"
    /\ HandlerReturns(c) \/ TunnelReturns(c)
    /\ client' = [client EXCEPT ![c] = "closed"]
    /\ remote' = [remote EXCEPT ![c] = "closed"]
    /\ Goto(c, "ending")
    /\ UNCHANGED <<proto, told, early, copy>>
    /\ ConnOnly

\* The goroutine of the connection ends; the mixed proxy closes the client's end.
ServingEnds(c) ==
    /\ phase[c] = "ending"
    /\ Goto(c, "done")
    /\ client' = IF mode = "bare" THEN client ELSE [client EXCEPT ![c] = "closed"]
    /\ UNCHANGED <<proto, remote, told, early, copy>>
    /\ ConnOnly

-----------------------------------------------------------------------------
(* The environment: peers that close or lose their end.                    *)

ClientLeaves(c) ==
    /\ phase[c] \notin {"waiting", "done"}
    /\ client[c] = "open"
    /\ client' = [client EXCEPT ![c] = "gone"]
    /\ UNCHANGED <<phase, proto, remote, told, early, copy>>
    /\ ConnOnly

RemoteLeaves(c) ==
    /\ remote[c] = "open"
    /\ remote' = [remote EXCEPT ![c] = "gone"]
    /\ UNCHANGED <<phase, proto, client, told, early, copy>>
    /\ ConnOnly

Copies(c) ==
    \E d \in Directions : CopyReads(c, d) \/ CopyEnds(c, d) \/ CopyWrites(c, d) \/ CopyWriteFails(c, d)

Serve(c) ==
    \/ handleConnection(c) \/ ReadFails(c) \/ ServeConn5(c) \/ Header5(c) \/ handle5(c)
    \/ ServeConn4(c) \/ ServeConnHTTP(c) \/ Announce(c) \/ DialFails(c) \/ HandlerDials(c)
    \/ EmbedDials(c) \/ RelayEnds(c) \/ ServingEnds(c)

Loop == WatchContext \/ Select \/ AcceptFails

Next ==
    \/ Cancel
    \/ Loop
    \/ \E c \in Conns : Accept(c) \/ Serve(c) \/ Copies(c) \/ ClientLeaves(c) \/ RemoteLeaves(c)

Spec == Init /\ [][Next]_vars

\* What runs by itself: the loop and its watcher, the end of a copy whose source has
\* gone, a failed negotiation, a dial (it answers), the return of a relay. Nothing
\* makes a peer connect, send, read or leave.
System ==
    \/ Loop
    \/ \E c \in Conns :
         \/ ReadFails(c) \/ Announce(c) \/ DialFails(c) \/ HandlerDials(c) \/ EmbedDials(c)
         \/ RelayEnds(c) \/ ServingEnds(c)
         \/ \E d \in Directions : CopyEnds(c, d) \/ CopyWriteFails(c, d)

Fairness == WF_vars(System)

-----------------------------------------------------------------------------
\* Shapes of the state.
TypeOK ==
    /\ mode \in {"handler", "dial", "bare"}
    /\ ctxDone \in BOOLEAN
    /\ listener \in {"open", "closed"}
    /\ server \in {"select", "accept", "returned"}
    /\ phase \in [Conns -> Serving \cup {"waiting", "peek", "announce", "dial", "relay", "ending", "done"}]
    /\ proto \in [Conns -> {"none", "socks5", "socks4", "http", "plain"}]
    /\ client \in [Conns -> {"open", "gone", "closed"}]
    /\ remote \in [Conns -> {"none", "open", "gone", "closed"}]
    /\ told \in [Conns -> Refusals \cup {"nothing", "noAuth", "success"}]
    /\ early \in [Conns -> {"none", "kept", "lost"}]
    /\ copy \in [Conns -> [Directions -> {"none", "read", "write", "ended"}]]

\* Whoever leaves a served connection leaves nothing open: the destination is
\* closed in every mode, the client too unless a protocol's own server served it;
\* and with the handler no goroutine still copies with a buffer of the pool.
NothingLeftBehind ==
    \A c \in Conns : phase[c] = "done" =>
        /\ remote[c] \in {"none", "closed"}
        /\ mode # "bare" \/ remote[c] = "closed" => client[c] = "closed"
        /\ mode = "handler" => \A d \in Directions : copy[c][d] \in {"none", "ended"}

\* A client that was refused has no connection made for it afterwards, and one that
\* was told of success by an embedded handler has one.
AnswersAreTrue ==
    \A c \in Conns :
        /\ told[c] \in Refusals => remote[c] = "none"
        /\ told[c] = "success" /\ mode # "handler" => remote[c] # "none"

\* Data a SOCKS client sends behind its request, without waiting for the answer,
\* is not lost; behind an HTTP CONNECT it is.
SocksKeepsEarlyData ==
    \A c \in Conns : early[c] = "lost" => proto[c] = "http"

\* A cancelled context ends the accept loop of StartProxy's server, although Accept
\* does not look at the context.
CancelStopsServer == ctxDone /\ mode = "handler" ~> server = "returned"

\* A relay whose two peers have gone is released, and Tunnel's as soon as one of its
\* directions has ended.
DeadRelayIsReleased ==
    \A c \in Conns :
        (/\ phase[c] = "relay"
         /\ \/ client[c] = "gone" /\ remote[c] = "gone"
            \/ mode # "handler" /\ \E d \in Directions : Ended(c, d)) ~> phase[c] = "done"

\* What generalHandler's comments say: "Wait for one of the copy operations to
\* finish", then "Close connections and wait for the other copy operation": once one
\* direction has ended, the connections are closed.
FirstEndCloses ==
    \A c \in Conns :
        phase[c] = "relay" /\ (\E d \in Directions : Ended(c, d)) ~> client[c] = "closed"

=============================================================================
