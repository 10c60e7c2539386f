---------------------------- MODULE UdpAssociate ----------------------------
(***************************************************************************)
(* One UDP association of the SOCKS5 server: handleAssociate with its two  *)
(* continuations, embedHandleAssociate (serves "dial") and udpCustomConn   *)
(* under wiresocks' generalHandler (serves "handler").                     *)
(*                                                                         *)
(* The socket's packets come from anybody. A packet is "good", "short"     *)
(* (less than the three bytes of a header), "bad" (no address can be read) *)
(* or "other" (for another target than the first; a target given by name   *)
(* differs even from itself, as only its address is remembered). Packets   *)
(* of the client and answers are bounded by Packets. The deadline that     *)
(* copyConnTimeout sets is the socket's: it ends the ReadFrom of the       *)
(* reading goroutine, not the receive from packetQueue.                    *)
(***************************************************************************)
EXTENDS Naturals

CONSTANT Packets \* bound: packets that arrive on either side

VARIABLES
    serves,   \* who continues: "handler" or "dial"
    handler,  \* where handleAssociate is
    outcome,  \* how it ended
    control,  \* the TCP connection: "open", "gone" or "closed"
    socket,   \* the UDP socket: "none", "open" or "closed"
    reader,   \* asyncReadPackets: "none", "read", "first", "offer" or "stopped"
    item,     \* what it offers: "data", "error" or "empty"
    target,   \* the first packet's target is known
    deadline, \* a read deadline is set on the socket
    flow,     \* direction -> its copying goroutine
    watcher,  \* the goroutine that reads the TCP connection
    arrivals  \* packets yet to come, by side

assocVars ==
    <<serves, handler, outcome, control, socket, reader, item, target, deadline, flow, watcher, arrivals>>

Kinds == {"good", "short", "bad", "other"}

Init ==
    /\ serves \in {"handler", "dial"}
    /\ handler = "listen"
    /\ outcome = "none"
    /\ control = "open"
    /\ socket = "none"
    /\ reader = "none"
    /\ item = "none"
    /\ target = FALSE
    /\ deadline = FALSE
    /\ flow = [up |-> "none", down |-> "none"]
    /\ watcher = "none"
    /\ arrivals = [up |-> Packets, down |-> Packets]

\* The connection's goroutine ends: the mixed proxy closes the TCP connection.
Ends(how) ==
    /\ handler' = "ended"
    /\ outcome' = how
    /\ control' = "closed"

-----------------------------------------------------------------------------
(* handleAssociate up to the reply.                                        *)

ListenFails ==
    /\ handler = "listen"
    /\ Ends("listenFailed")
    /\ UNCHANGED <<serves, socket, reader, item, target, deadline, flow, watcher, arrivals>>

Listens ==
    /\ handler = "listen"
    /\ handler' = "reply"
    /\ socket' = "open"
    /\ UNCHANGED <<serves, outcome, control, reader, item, target, deadline, flow, watcher, arrivals>>

\* The socket stays open when the client cannot be told of it.
ReplyFails ==
    /\ handler = "reply"
    /\ control = "gone"
    /\ Ends("replyFailed")
    /\ UNCHANGED <<serves, socket, reader, item, target, deadline, flow, watcher, arrivals>>

Replies ==
    /\ handler = "reply"
    /\ IF serves = "handler"
       THEN handler' = "first" /\ reader' = "read" /\ UNCHANGED watcher
       ELSE handler' = "serve" /\ watcher' = "read" /\ UNCHANGED reader
    /\ UNCHANGED <<serves, outcome, control, socket, item, target, deadline, flow, arrivals>>

-----------------------------------------------------------------------------
(* asyncReadPackets.                                                       *)

ReaderOnly == UNCHANGED <<serves, handler, outcome, control, socket, deadline, flow, watcher>>

\* ReadFrom returns a packet. A short one is offered without an error, whose value
\* is the nil of the read; whatever is not good ends the loop after the offer.
ReaderReads(kind) ==
    /\ reader = "read"
    /\ socket = "open"
    /\ arrivals.up > 0
    /\ arrivals' = [arrivals EXCEPT !.up = @ - 1]
    /\ target' = (target \/ kind \in {"good", "other"})
    /\ item' = [good |-> "data", short |-> "empty", bad |-> "error", other |-> "error"][kind]
    /\ reader' = IF kind = "good" /\ ~target THEN "first" ELSE "offer"
    /\ ReaderOnly

\* Mutant: UDP is copied without a deadline, as TCP is.
ReaderFails_NoDeadline ==
    /\ reader = "read"
    /\ socket = "closed"
    /\ item' = "error"
    /\ reader' = "offer"
    /\ UNCHANGED <<target, arrivals>>
    /\ ReaderOnly

\* ReadFrom fails on a closed socket and when the deadline has passed.
ReaderFails ==
    /\ reader = "read"
    /\ socket = "closed" \/ deadline
    /\ item' = "error"
    /\ reader' = "offer"
    /\ UNCHANGED <<target, arrivals>>
    /\ ReaderOnly

\* The first good packet meets the handler at frc, which goes on to generalHandler.
FirstRead ==
    /\ reader = "first"
    /\ handler = "first"
    /\ reader' = "offer"
    /\ handler' = "dial"
    /\ UNCHANGED <<serves, outcome, control, socket, item, target, deadline, flow, watcher, arrivals>>

-----------------------------------------------------------------------------
(* generalHandler on a udpCustomConn.                                      *)

\* It returns before its deferred calls are set up: the socket stays open.
DialFails ==
    /\ handler = "dial"
    /\ Ends("dialFailed")
    /\ UNCHANGED <<serves, socket, reader, item, target, deadline, flow, watcher, arrivals>>

Dials ==
    /\ handler = "dial"
    /\ handler' = "relay"
    /\ flow' = [up |-> "set", down |-> "read"]
    /\ UNCHANGED <<serves, outcome, control, socket, reader, item, target, deadline, watcher, arrivals>>

FlowOnly == UNCHANGED <<serves, handler, outcome, control, socket, target, watcher>>

\* copyConnTimeout sets the deadline before every read.
SetReadDeadline ==
    /\ flow.up = "set"
    /\ flow' = [flow EXCEPT !.up = "read"]
    /\ deadline' = TRUE
    /\ UNCHANGED <<reader, item, arrivals>>
    /\ FlowOnly

\* Read takes what is offered: data is written to the destination, an error ends the
\* direction, and nothing without an error has the loop read again.
TakesItem ==
    /\ flow.up = "read"
    /\ reader = "offer"
    /\ flow' = [flow EXCEPT !.up = [data |-> "write", error |-> "ended", empty |-> "set"][item]]
    /\ reader' = IF item = "data" THEN "read" ELSE "stopped"
    /\ UNCHANGED <<item, deadline, arrivals>>
    /\ FlowOnly

UpWrites ==
    /\ flow.up = "write"
    /\ flow' \in {[flow EXCEPT !.up = "set"], [flow EXCEPT !.up = "failed"]}
    /\ UNCHANGED <<reader, item, deadline, arrivals>>
    /\ FlowOnly

\* The other direction: an answer is written to the source, or the deadline on the
\* destination's connection passes.
DownReads ==
    /\ flow.down = "read"
    /\ arrivals.down > 0
    /\ arrivals' = [arrivals EXCEPT !.down = @ - 1]
    /\ flow' \in {flow, [flow EXCEPT !.down = "ended"]}
    /\ UNCHANGED <<reader, item, deadline>>
    /\ FlowOnly

DownTimesOut ==
    /\ flow.down = "read"
    /\ flow' = [flow EXCEPT !.down = "ended"]
    /\ UNCHANGED <<reader, item, deadline, arrivals>>
    /\ FlowOnly

\* Mutant: Close closes the TCP connection only.
HandlerReturns_KeepsSocket ==
    /\ handler = "relay"
    /\ flow.up \in {"ended", "failed"} /\ flow.down = "ended"
    /\ Ends("relayed")
    /\ UNCHANGED <<serves, socket, reader, item, target, deadline, flow, watcher, arrivals>>

\* Both directions have ended; udpCustomConn.Close closes both connections.
HandlerReturns ==
    /\ handler = "relay"
    /\ flow.up \in {"ended", "failed"} /\ flow.down = "ended"
    /\ Ends("relayed")
    /\ socket' = "closed"
    /\ UNCHANGED <<serves, reader, item, target, deadline, flow, watcher, arrivals>>

-----------------------------------------------------------------------------
(* embedHandleAssociate.                                                   *)

\* A packet of the source or of its target is passed on, any other is ignored; a
\* failed write ends the loop, and so does a failed read.
EmbedServes ==
    /\ handler = "serve"
    /\ socket = "open"
    /\ \E d \in {"up", "down"} :
         /\ arrivals[d] > 0
         /\ arrivals' = [arrivals EXCEPT ![d] = @ - 1]
    /\ \/ target' \in {target, TRUE} /\ UNCHANGED <<handler, outcome, control, socket>>
       \/ target' = TRUE /\ Ends("served") /\ socket' = "closed"
    /\ UNCHANGED <<serves, reader, item, deadline, flow, watcher>>

EmbedReturns ==
    /\ handler = "serve"
    /\ socket = "closed"
    /\ Ends("served")
    /\ UNCHANGED <<serves, socket, reader, item, target, deadline, flow, watcher, arrivals>>

\* Mutant: nobody watches the TCP connection.
WatchControl_Ignores == FALSE

\* The goroutine that reads the TCP connection closes the socket when that fails.
WatchControl ==
    /\ watcher = "read"
    /\ control # "open"
    /\ watcher' = "ended"
    /\ socket' = "closed"
    /\ UNCHANGED <<serves, handler, outcome, control, reader, item, target, deadline, flow, arrivals>>

ControlLeaves ==
    /\ handler # "ended"
    /\ control = "open"
    /\ control' = "gone"
    /\ UNCHANGED <<serves, handler, outcome, socket, reader, item, target, deadline, flow, watcher, arrivals>>

-----------------------------------------------------------------------------
Handling == ListenFails \/ Listens \/ ReplyFails \/ Replies \/ FirstRead \/ DialFails \/ Dials
            \/ HandlerReturns \/ EmbedReturns

Copying == SetReadDeadline \/ TakesItem \/ UpWrites \/ DownReads

Next ==
    \/ Handling \/ Copying \/ DownTimesOut \/ ReaderFails \/ WatchControl \/ ControlLeaves \/ EmbedServes
    \/ \E kind \in Kinds : ReaderReads(kind)

\* Every goroutine runs, calls return, and a deadline that is set passes.
System ==
    \/ Handling \/ SetReadDeadline \/ TakesItem \/ UpWrites
    \/ DownTimesOut \/ ReaderFails \/ WatchControl

Fairness == WF_assocVars(System)

Spec == Init /\ [][Next]_assocVars

-----------------------------------------------------------------------------
\* Shapes of the state.
TypeOK ==
    /\ serves \in {"handler", "dial"}
    /\ handler \in {"listen", "reply", "first", "dial", "relay", "serve", "ended"}
    /\ outcome \in {"none", "listenFailed", "replyFailed", "dialFailed", "relayed", "served"}
    /\ control \in {"open", "gone", "closed"}
    /\ socket \in {"none", "open", "closed"}
    /\ reader \in {"none", "read", "first", "offer", "stopped"}
    /\ item \in {"none", "data", "error", "empty"}
    /\ target \in BOOLEAN /\ deadline \in BOOLEAN
    /\ flow \in [{"up", "down"} -> {"none", "set", "read", "write", "ended", "failed"}]
    /\ watcher \in {"none", "read", "ended"}
    /\ arrivals \in [{"up", "down"} -> 0..Packets]

\* An association that got as far as passing packets closes its socket; it leaves
\* the reading goroutine behind only if a write to the destination had failed, for
\* then nobody receives what it offers.
AssociationReleased ==
    /\ outcome \in {"relayed", "served"} => socket = "closed"
    /\ outcome = "relayed" /\ reader # "stopped" => flow.up = "failed"

\* A relayed association that has become quiet ends by its deadlines, unless a short
\* packet stopped the reading goroutine without an error: then the direction up
\* waits for ever.
QuietAssociationEnds ==
    handler = "relay" ~> handler = "ended" \/ (reader = "stopped" /\ item = "empty")

\* Without a handler the association ends with the TCP connection it belongs to.
ControlEndsAssociation == handler = "serve" /\ control = "gone" ~> handler = "ended"

=============================================================================
