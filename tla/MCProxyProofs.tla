--------------------------- MODULE MCProxyProofs ---------------------------
(***************************************************************************)
(* Proofs about the proxy's parts. They share nothing, so each part has an *)
(* inductive invariant of its own, kept by its own steps and untouched by  *)
(* the others'.                                                            *)
(***************************************************************************)
EXTENDS MCProxy, Integers, Sequences, TLAPS

-----------------------------------------------------------------------------
(* The UDP forwarder.                                                      *)

\* No goroutine reads before the set-up has ended well.
LoopsComeLast == started # "running" => \A s \in Fw!Sides : loop[s] = "none"

FwInv == Fw!TypeOK /\ Fw!LoopsOwnTheSockets /\ LoopsComeLast

\* The forwarder starts without sockets and loops.
LEMMA FwInit == Fw!Init => FwInv
  BY DEF Fw!Init, FwInv, Fw!TypeOK, Fw!LoopsOwnTheSockets, LoopsComeLast, Fw!Sides

\* Setting up, forwarding, cancelling and closing keep it in order.
LEMMA FwStep == FwInv /\ Fw!Next => FwInv'
<1> SUFFICES ASSUME FwInv, Fw!Next PROVE FwInv'
  OBVIOUS
<1> USE DEF FwInv, Fw!TypeOK, Fw!LoopsOwnTheSockets, LoopsComeLast, Fw!Sides
<1>1. CASE Fw!Starts
  BY <1>1 DEF Fw!Starts
<1>2. CASE Fw!Cancel
  BY <1>2 DEF Fw!Cancel
<1>3. CASE Fw!Closes
  BY <1>3 DEF Fw!Closes
<1>4. CASE Fw!ForwardsIn
  BY <1>4 DEF Fw!ForwardsIn
<1>5. CASE \E s \in Fw!Sides : Fw!Test(s)
  BY <1>5 DEF Fw!Test
<1>6. CASE \E c \in Senders : Fw!ForwardsOut(c)
  BY <1>6 DEF Fw!ForwardsOut
<1> QED BY <1>1, <1>2, <1>3, <1>4, <1>5, <1>6 DEF Fw!Next

\* Steps of the other parts leave the forwarder alone.
LEMMA FwStutter == FwInv /\ UNCHANGED fwVars => FwInv'
  BY DEF fwVars, FwInv, Fw!TypeOK, Fw!LoopsOwnTheSockets, LoopsComeLast, Fw!Sides

-----------------------------------------------------------------------------
(* A UDP association.                                                      *)

\* What the handler's place says of the goroutines: nothing is read before the
\* reply, nothing is copied before the destination is dialled, and what was passed
\* on to the end has closed its socket.
HandlerFits ==
    /\ outcome = "none" <=> handler # "ended"
    /\ handler \in {"listen", "reply"} => reader = "none"
    /\ handler \in {"listen", "reply", "first", "dial", "serve"} => flow.up = "none" /\ flow.down = "none"
    /\ outcome \in {"relayed", "served"} => socket = "closed"
    /\ outcome = "relayed" => flow.up \in {"ended", "failed"}

\* The reading goroutine offers what it read, and stops before its receiver ends.
ReaderFits ==
    /\ reader \in {"first", "offer"} => item # "none"
    /\ flow.up = "ended" => reader = "stopped"

AssocInv == Assoc!TypeOK /\ HandlerFits /\ ReaderFits

\* An association starts without a socket.
LEMMA AssocInit == Assoc!Init => AssocInv
<1> SUFFICES ASSUME Assoc!Init PROVE AssocInv
  OBVIOUS
<1>a. flow \in [{"up", "down"} -> {"none", "set", "read", "write", "ended", "failed"}]
  BY DEF Assoc!Init
<1>b. arrivals \in [{"up", "down"} -> 0 .. Packets]
  <2>1. Packets \in 0 .. Packets
    BY ProxyAssumption
  <2> QED BY <2>1 DEF Assoc!Init
<1>1. Assoc!TypeOK
  BY <1>a, <1>b DEF Assoc!Init, Assoc!TypeOK
<1>2. HandlerFits /\ ReaderFits
  BY DEF Assoc!Init, HandlerFits, ReaderFits
<1> QED BY <1>1, <1>2 DEF AssocInv

\* Replying, reading, copying in both directions and every failure keep it in order.
LEMMA AssocStep == AssocInv /\ Assoc!Next => AssocInv'
<1> SUFFICES ASSUME AssocInv, Assoc!Next PROVE AssocInv'
  OBVIOUS
<1> USE ProxyAssumption DEF AssocInv, Assoc!TypeOK, HandlerFits, ReaderFits, Assoc!Ends
<1>1. CASE Assoc!ListenFails
  BY <1>1 DEF Assoc!ListenFails
<1>2. CASE Assoc!Listens
  BY <1>2 DEF Assoc!Listens
<1>3. CASE Assoc!ReplyFails
  BY <1>3 DEF Assoc!ReplyFails
<1>4. CASE Assoc!Replies
  BY <1>4 DEF Assoc!Replies
<1>5. CASE Assoc!FirstRead
  BY <1>5 DEF Assoc!FirstRead
<1>6. CASE Assoc!DialFails
  BY <1>6 DEF Assoc!DialFails
<1>7. CASE Assoc!Dials
  BY <1>7 DEF Assoc!Dials
<1>8. CASE Assoc!HandlerReturns
  BY <1>8 DEF Assoc!HandlerReturns
<1>9. CASE Assoc!EmbedReturns
  BY <1>9 DEF Assoc!EmbedReturns
<1>10. CASE Assoc!SetReadDeadline
  BY <1>10 DEF Assoc!SetReadDeadline, Assoc!FlowOnly
<1>11. CASE Assoc!TakesItem
  BY <1>11 DEF Assoc!TakesItem, Assoc!FlowOnly
<1>12. CASE Assoc!UpWrites
  BY <1>12 DEF Assoc!UpWrites, Assoc!FlowOnly
<1>13. CASE Assoc!DownReads
  BY <1>13 DEF Assoc!DownReads, Assoc!FlowOnly
<1>14. CASE Assoc!DownTimesOut
  BY <1>14 DEF Assoc!DownTimesOut, Assoc!FlowOnly
<1>15. CASE Assoc!ReaderFails
  BY <1>15 DEF Assoc!ReaderFails, Assoc!ReaderOnly
<1>16. CASE Assoc!WatchControl
  BY <1>16 DEF Assoc!WatchControl
<1>17. CASE Assoc!ControlLeaves
  BY <1>17 DEF Assoc!ControlLeaves
<1>18. CASE Assoc!EmbedServes
  <2>1. arrivals' \in [{"up", "down"} -> 0 .. Packets]
    BY <1>18 DEF Assoc!EmbedServes
  <2>2. target' \in BOOLEAN
    BY <1>18, Zenon DEF Assoc!EmbedServes
  <2>3. CASE UNCHANGED <<handler, outcome, control, socket>>
    BY <1>18, <2>1, <2>2, <2>3 DEF Assoc!EmbedServes
  <2>4. CASE Assoc!Ends("served") /\ socket' = "closed"
    BY <1>18, <2>1, <2>2, <2>4 DEF Assoc!EmbedServes
  <2> QED BY <1>18, <2>3, <2>4 DEF Assoc!EmbedServes
<1>19. CASE \E kind \in Assoc!Kinds : Assoc!ReaderReads(kind)
  BY <1>19 DEF Assoc!ReaderReads, Assoc!ReaderOnly, Assoc!Kinds
<1> QED
  BY <1>1, <1>2, <1>3, <1>4, <1>5, <1>6, <1>7, <1>8, <1>9, <1>10, <1>11, <1>12, <1>13, <1>14, <1>15, <1>16,
     <1>17, <1>18, <1>19 DEF Assoc!Next, Assoc!Handling, Assoc!Copying

\* Steps of the other parts leave the association alone.
LEMMA AssocStutter == AssocInv /\ UNCHANGED assocVars => AssocInv'
  BY DEF assocVars, AssocInv, Assoc!TypeOK, HandlerFits, ReaderFits

-----------------------------------------------------------------------------
(* The proxy server's connections.                                         *)

Before == Serving \cup {"waiting", "peek", "announce", "dial"}

\* What the phase of a connection says of its two ends and its copies.
EndsFit(c) ==
    /\ phase[c] \in Before => remote[c] = "none" /\ \A d \in Directions : copy[c][d] = "none"
    /\ phase[c] = "relay" => remote[c] # "none"
    /\ phase[c] = "announce" => mode = "handler"
    /\ phase[c] \in {"ending", "done"} =>
          /\ remote[c] \in {"none", "closed"}
          /\ remote[c] = "closed" => client[c] = "closed"
          /\ mode = "handler" => \A d \in Directions : copy[c][d] \in {"none", "ended"}
    /\ phase[c] = "done" /\ mode # "bare" => client[c] = "closed"

\* What the client was told, and when: a refusal is the last word.
ToldFits(c) ==
    /\ told[c] \in Refusals => phase[c] \in {"ending", "done"} /\ remote[c] = "none"
    /\ told[c] = "success" /\ mode # "handler" => remote[c] # "none"

\* Data behind the request comes after the request.
EarlyFits(c) ==
    /\ phase[c] \in Serving \cup {"waiting", "peek"} => early[c] = "none"
    /\ early[c] = "lost" => proto[c] = "http"

ConnFits(c) == EndsFit(c) /\ ToldFits(c) /\ EarlyFits(c)

ServerInv == TypeOK /\ \A c \in Conns : ConnFits(c)

\* No connection has been made when the server starts.
LEMMA ServerInit == Init => ServerInv
<1> SUFFICES ASSUME Init PROVE ServerInv
  OBVIOUS
<1>1. copy \in [Conns -> [Directions -> {"none", "read", "write", "ended"}]]
  BY DEF Init
<1>2. TypeOK
  BY <1>1 DEF Init, TypeOK
<1>3. ASSUME NEW c \in Conns PROVE ConnFits(c)
  <2>1. \A d \in Directions : copy[c][d] = "none"
    BY <1>3 DEF Init
  <2>2. phase[c] = "waiting" /\ remote[c] = "none" /\ told[c] = "nothing" /\ early[c] = "none"
    BY <1>3 DEF Init
  <2> QED BY <2>1, <2>2 DEF ConnFits, EndsFit, ToldFits, EarlyFits, Refusals
<1> QED BY <1>2, <1>3 DEF ServerInv

\* Whatever an embedded handler answers to a failed dial is a refusal.
LEMMA RefusalRefuses == \A c, err : err \in DOMAIN errToReply => Refusal(c, err) \in Refusals
<1>1. DOMAIN errToReply = {"refused", "unreachable", "other"}
  BY DEF errToReply
<1>2. \A err \in DOMAIN errToReply : errToReply[err] \in Refusals
  BY <1>1 DEF errToReply, Refusals
<1>3. "rejected" \in Refusals /\ "unavailable" \in Refusals
  BY DEF Refusals
<1> QED BY <1>2, <1>3 DEF Refusal

\* The other connections are left alone.
OthersStay(c) ==
    /\ UNCHANGED mode
    /\ \A e \in Conns \ {c} :
          /\ phase'[e] = phase[e] /\ proto'[e] = proto[e] /\ client'[e] = client[e] /\ remote'[e] = remote[e]
          /\ told'[e] = told[e] /\ early'[e] = early[e] /\ copy'[e] = copy[e]

\* A step of one connection keeps the server in order if it does so for that one.
LEMMA OneConnMoves ==
    ASSUME ServerInv, NEW c \in Conns, TypeOK', ConnFits(c)', OthersStay(c)
    PROVE  ServerInv'
<1> SUFFICES ASSUME NEW e \in Conns \ {c} PROVE ConnFits(e)'
  BY DEF ServerInv
<1>1. ConnFits(e)
  BY DEF ServerInv
<1> QED BY <1>1 DEF OthersStay, ConnFits, EndsFit, ToldFits, EarlyFits

\* Steps of the accept loop change no connection.
LEMMA LoopKeeps ==
    ASSUME ServerInv, ServerOnly, ctxDone' \in BOOLEAN, listener' \in {"open", "closed"},
           server' \in {"select", "accept", "returned"}
    PROVE  ServerInv'
  BY DEF ServerOnly, ServerInv, TypeOK, ConnFits, EndsFit, ToldFits, EarlyFits

\* Every step of the server, of a connection and of its peers keeps it in order.
LEMMA ServerStep == ServerInv /\ Next => ServerInv'
<1> SUFFICES ASSUME ServerInv, Next PROVE ServerInv'
  OBVIOUS
<1> USE DEF Goto, Tell, ConnOnly
<1>l. ASSUME Cancel \/ Loop PROVE ServerInv'
  <2>1. ctxDone \in BOOLEAN /\ listener \in {"open", "closed"} /\ server \in {"select", "accept", "returned"}
    BY DEF ServerInv, TypeOK
  <2> QED BY <1>l, <2>1, LoopKeeps DEF Cancel, Loop, WatchContext, Select, AcceptFails
<1>1. ASSUME NEW c \in Conns, handleConnection(c) PROVE ServerInv'
  <2>1. TypeOK'
    <3>1. proto' \in [Conns -> {"none", "socks5", "socks4", "http", "plain"}]
      BY <1>1 DEF handleConnection, ServerInv, TypeOK
    <3>2. phase' \in [Conns -> Serving \cup {"waiting", "peek", "announce", "dial", "relay", "ending", "done"}]
      BY <1>1 DEF handleConnection, ServerInv, TypeOK, Serving
    <3> QED BY <1>1, <3>1, <3>2 DEF handleConnection, ServerInv, TypeOK
  <2>2. ConnFits(c) /\ TypeOK
    BY DEF ServerInv
  <2>3. ConnFits(c)'
    BY <1>1, <2>2 DEF handleConnection, TypeOK, ConnFits, EndsFit, ToldFits, EarlyFits, Before, Serving, Refusals, Directions
  <2>4. OthersStay(c)
    BY <1>1, <2>2 DEF handleConnection, TypeOK, OthersStay
  <2> QED BY <2>1, <2>3, <2>4, OneConnMoves
<1>2. ASSUME NEW c \in Conns, ReadFails(c) PROVE ServerInv'
  <2>1. TypeOK'
    BY <1>2 DEF ReadFails, ServerInv, TypeOK, Serving, Refusals
  <2>2. ConnFits(c) /\ TypeOK
    BY DEF ServerInv
  <2>3. ConnFits(c)'
    BY <1>2, <2>2 DEF ReadFails, TypeOK, ConnFits, EndsFit, ToldFits, EarlyFits, Before, Serving, Refusals, Directions
  <2>4. OthersStay(c)
    BY <1>2, <2>2 DEF ReadFails, TypeOK, OthersStay
  <2> QED BY <2>1, <2>3, <2>4, OneConnMoves
<1>3. ASSUME NEW c \in Conns, ServeConn5(c) PROVE ServerInv'
  <2>1. TypeOK'
    BY <1>3 DEF ServeConn5, Answers, ServerInv, TypeOK, Serving, Refusals
  <2>2. ConnFits(c) /\ TypeOK
    BY DEF ServerInv
  <2>3. ConnFits(c)'
    BY <1>3, <2>2 DEF ServeConn5, Answers, TypeOK, ConnFits, EndsFit, ToldFits, EarlyFits, Before, Serving, Refusals, Directions
  <2>4. OthersStay(c)
    BY <1>3, <2>2 DEF ServeConn5, Answers, TypeOK, OthersStay
  <2> QED BY <2>1, <2>3, <2>4, OneConnMoves
<1>4. ASSUME NEW c \in Conns, Header5(c) PROVE ServerInv'
  <2>1. TypeOK'
    BY <1>4 DEF Header5, Reads, ServerInv, TypeOK, Serving, Refusals
  <2>2. ConnFits(c) /\ TypeOK
    BY DEF ServerInv
  <2>3. ConnFits(c)'
    BY <1>4, <2>2 DEF Header5, Reads, TypeOK, ConnFits, EndsFit, ToldFits, EarlyFits, Before, Serving, Refusals, Directions
  <2>4. OthersStay(c)
    BY <1>4, <2>2 DEF Header5, Reads, TypeOK, OthersStay
  <2> QED BY <2>1, <2>3, <2>4, OneConnMoves
<1>5. ASSUME NEW c \in Conns, handle5(c) PROVE ServerInv'
  <2>1. TypeOK'
    BY <1>5 DEF handle5, Answers, Pipelined, AfterRequest, ServerInv, TypeOK, Serving, Refusals
  <2>2. ConnFits(c) /\ TypeOK
    BY DEF ServerInv
  <2>3. ConnFits(c)'
    BY <1>5, <2>2 DEF handle5, Answers, Pipelined, AfterRequest, TypeOK, ConnFits, EndsFit, ToldFits, EarlyFits, Before, Serving, Refusals, Directions
  <2>4. OthersStay(c)
    BY <1>5, <2>2 DEF handle5, Answers, Pipelined, AfterRequest, TypeOK, OthersStay
  <2> QED BY <2>1, <2>3, <2>4, OneConnMoves
<1>6. ASSUME NEW c \in Conns, ServeConn4(c) PROVE ServerInv'
  <2>1. TypeOK'
    BY <1>6 DEF ServeConn4, Answers, Pipelined, AfterRequest, ServerInv, TypeOK, Serving, Refusals
  <2>2. ConnFits(c) /\ TypeOK
    BY DEF ServerInv
  <2>3. ConnFits(c)'
    BY <1>6, <2>2 DEF ServeConn4, Answers, Pipelined, AfterRequest, TypeOK, ConnFits, EndsFit, ToldFits, EarlyFits, Before, Serving, Refusals, Directions
  <2>4. OthersStay(c)
    BY <1>6, <2>2 DEF ServeConn4, Answers, Pipelined, AfterRequest, TypeOK, OthersStay
  <2> QED BY <2>1, <2>3, <2>4, OneConnMoves
<1>7. ASSUME NEW c \in Conns, ServeConnHTTP(c) PROVE ServerInv'
  <2>1. TypeOK'
    BY <1>7 DEF ServeConnHTTP, Pipelined, AfterRequest, ServerInv, TypeOK, Serving, Refusals
  <2>2. ConnFits(c) /\ TypeOK
    BY DEF ServerInv
  <2>3. ConnFits(c)'
    BY <1>7, <2>2 DEF ServeConnHTTP, Pipelined, AfterRequest, TypeOK, ConnFits, EndsFit, ToldFits, EarlyFits, Before, Serving, Refusals, Directions
  <2>4. OthersStay(c)
    BY <1>7, <2>2 DEF ServeConnHTTP, Pipelined, AfterRequest, TypeOK, OthersStay
  <2> QED BY <2>1, <2>3, <2>4, OneConnMoves
<1>8. ASSUME NEW c \in Conns, Announce(c) PROVE ServerInv'
  <2>1. TypeOK'
    BY <1>8 DEF Announce, Answers, ServerInv, TypeOK, Serving, Refusals
  <2>2. ConnFits(c) /\ TypeOK
    BY DEF ServerInv
  <2>3. ConnFits(c)'
    BY <1>8, <2>2 DEF Announce, Answers, TypeOK, ConnFits, EndsFit, ToldFits, EarlyFits, Before, Serving, Refusals, Directions
  <2>4. OthersStay(c)
    BY <1>8, <2>2 DEF Announce, Answers, TypeOK, OthersStay
  <2> QED BY <2>1, <2>3, <2>4, OneConnMoves
<1>9. ASSUME NEW c \in Conns, DialFails(c) PROVE ServerInv'
  <2>0. /\ phase[c] = "dial" /\ phase' = [phase EXCEPT ![c] = "ending"]
        /\ UNCHANGED <<mode, ctxDone, listener, server, proto, remote, early, copy>>
        /\ \/ UNCHANGED <<told, client>>
           \/ client' = [client EXCEPT ![c] = "closed"] /\ \E r \in Refusals : told' = [told EXCEPT ![c] = r]
    BY <1>9, RefusalRefuses DEF DialFails, Answers
  <2>1. TypeOK'
    <3>1. TypeOK
      BY DEF ServerInv
    <3>2. phase' \in [Conns -> Serving \cup {"waiting", "peek", "announce", "dial", "relay", "ending", "done"}]
      BY <2>0, <3>1 DEF TypeOK
    <3>3. client' \in [Conns -> {"open", "gone", "closed"}]
      BY <2>0, <3>1 DEF TypeOK
    <3>4. told' \in [Conns -> Refusals \cup {"nothing", "noAuth", "success"}]
      BY <2>0, <3>1 DEF TypeOK
    <3> QED BY <2>0, <3>1, <3>2, <3>3, <3>4 DEF TypeOK
  <2>2. ConnFits(c) /\ TypeOK
    BY DEF ServerInv
  <2>3. ConnFits(c)'
    BY <2>0, <2>2 DEF TypeOK, ConnFits, EndsFit, ToldFits, EarlyFits, Before, Serving, Refusals, Directions
  <2>4. OthersStay(c)
    BY <2>0, <2>2 DEF TypeOK, OthersStay
  <2> QED BY <2>1, <2>3, <2>4, OneConnMoves
<1>10. ASSUME NEW c \in Conns, HandlerDials(c) PROVE ServerInv'
  <2>1. TypeOK'
    BY <1>10 DEF HandlerDials, Relay, ServerInv, TypeOK, Serving, Refusals
  <2>2. ConnFits(c) /\ TypeOK
    BY DEF ServerInv
  <2>3. ConnFits(c)'
    BY <1>10, <2>2 DEF HandlerDials, Relay, TypeOK, ConnFits, EndsFit, ToldFits, EarlyFits, Before, Serving, Refusals, Directions
  <2>4. OthersStay(c)
    BY <1>10, <2>2 DEF HandlerDials, Relay, TypeOK, OthersStay
  <2> QED BY <2>1, <2>3, <2>4, OneConnMoves
<1>11. ASSUME NEW c \in Conns, EmbedDials(c) PROVE ServerInv'
  <2>1. TypeOK'
    <3>1. CASE EmbedFails(c) /\ UNCHANGED told
      BY <1>11, <3>1 DEF EmbedDials, EmbedFails, ServerInv, TypeOK, Serving
    <3>2. CASE Relay(c) /\ remote' = [remote EXCEPT ![c] = "open"] /\ Goto(c, "relay") /\ UNCHANGED client
               /\ IF proto[c] = "plain" THEN UNCHANGED told ELSE Tell(c, "success")
      <4>1. copy' \in [Conns -> [Directions -> {"none", "read", "write", "ended"}]]
        BY <3>2 DEF Relay, ServerInv, TypeOK
      <4>2. told' \in [Conns -> Refusals \cup {"nothing", "noAuth", "success"}]
        BY <3>2 DEF ServerInv, TypeOK
      <4> QED BY <1>11, <3>2, <4>1, <4>2 DEF EmbedDials, ServerInv, TypeOK, Serving
    <3> QED BY <1>11, <3>1, <3>2 DEF EmbedDials
  <2>2. ConnFits(c) /\ TypeOK
    BY DEF ServerInv
  <2>3. ConnFits(c)'
    BY <1>11, <2>2 DEF EmbedDials, EmbedFails, Relay, TypeOK, ConnFits, EndsFit, ToldFits, EarlyFits, Before, Serving, Refusals, Directions
  <2>4. OthersStay(c)
    BY <1>11, <2>2 DEF EmbedDials, EmbedFails, Relay, TypeOK, OthersStay
  <2> QED BY <2>1, <2>3, <2>4, OneConnMoves
<1>12. ASSUME NEW c \in Conns, RelayEnds(c) PROVE ServerInv'
  <2>1. TypeOK'
    BY <1>12 DEF RelayEnds, HandlerReturns, TunnelReturns, Ended, ServerInv, TypeOK, Serving, Refusals
  <2>2. ConnFits(c) /\ TypeOK
    BY DEF ServerInv
  <2>3. ConnFits(c)'
    BY <1>12, <2>2 DEF RelayEnds, HandlerReturns, TunnelReturns, Ended, TypeOK, ConnFits, EndsFit, ToldFits, EarlyFits, Before, Serving, Refusals, Directions
  <2>4. OthersStay(c)
    BY <1>12, <2>2 DEF RelayEnds, HandlerReturns, TunnelReturns, Ended, TypeOK, OthersStay
  <2> QED BY <2>1, <2>3, <2>4, OneConnMoves
<1>13. ASSUME NEW c \in Conns, ServingEnds(c) PROVE ServerInv'
  <2>1. TypeOK'
    BY <1>13 DEF ServingEnds, ServerInv, TypeOK, Serving, Refusals
  <2>2. ConnFits(c) /\ TypeOK
    BY DEF ServerInv
  <2>3. ConnFits(c)'
    BY <1>13, <2>2 DEF ServingEnds, TypeOK, ConnFits, EndsFit, ToldFits, EarlyFits, Before, Serving, Refusals, Directions
  <2>4. OthersStay(c)
    BY <1>13, <2>2 DEF ServingEnds, TypeOK, OthersStay
  <2> QED BY <2>1, <2>3, <2>4, OneConnMoves
<1>14. ASSUME NEW c \in Conns, Accept(c) PROVE ServerInv'
  <2>1. TypeOK'
    BY <1>14 DEF Accept, ServerInv, TypeOK, Serving, Refusals
  <2>2. ConnFits(c) /\ TypeOK
    BY DEF ServerInv
  <2>3. ConnFits(c)'
    BY <1>14, <2>2 DEF Accept, TypeOK, ConnFits, EndsFit, ToldFits, EarlyFits, Before, Serving, Refusals, Directions
  <2>4. OthersStay(c)
    BY <1>14, <2>2 DEF Accept, TypeOK, OthersStay
  <2> QED BY <2>1, <2>3, <2>4, OneConnMoves
<1>15. ASSUME NEW c \in Conns, ClientLeaves(c) PROVE ServerInv'
  <2>1. TypeOK'
    BY <1>15 DEF ClientLeaves, ServerInv, TypeOK, Serving, Refusals
  <2>2. ConnFits(c) /\ TypeOK
    BY DEF ServerInv
  <2>3. ConnFits(c)'
    BY <1>15, <2>2 DEF ClientLeaves, TypeOK, ConnFits, EndsFit, ToldFits, EarlyFits, Before, Serving, Refusals, Directions
  <2>4. OthersStay(c)
    BY <1>15, <2>2 DEF ClientLeaves, TypeOK, OthersStay
  <2> QED BY <2>1, <2>3, <2>4, OneConnMoves
<1>16. ASSUME NEW c \in Conns, RemoteLeaves(c) PROVE ServerInv'
  <2>1. TypeOK'
    BY <1>16 DEF RemoteLeaves, ServerInv, TypeOK, Serving, Refusals
  <2>2. ConnFits(c) /\ TypeOK
    BY DEF ServerInv
  <2>3. ConnFits(c)'
    BY <1>16, <2>2 DEF RemoteLeaves, TypeOK, ConnFits, EndsFit, ToldFits, EarlyFits, Before, Serving, Refusals, Directions
  <2>4. OthersStay(c)
    BY <1>16, <2>2 DEF RemoteLeaves, TypeOK, OthersStay
  <2> QED BY <2>1, <2>3, <2>4, OneConnMoves
<1>17. ASSUME NEW c \in Conns, Copies(c) PROVE ServerInv'
  <2>1. PICK d \in Directions, from \in {"read", "write"}, to \in {"read", "write", "ended"} : Copying(c, d, from, to)
    BY <1>17 DEF Copies, CopyReads, CopyEnds, CopyWrites, CopyWriteFails
  <2>2. ConnFits(c) /\ TypeOK /\ UNCHANGED <<mode, ctxDone, listener, server, phase, proto, client, remote, told, early>>
    BY <2>1 DEF ServerInv, Copying
  <2>3. copy' = [copy EXCEPT ![c] = [copy[c] EXCEPT ![d] = to]] /\ copy[c][d] \in {"read", "write"}
    BY <2>1 DEF Copying
  <2>4. TypeOK'
    BY <2>2, <2>3 DEF TypeOK
  <2>5. ConnFits(c)'
    BY <2>2, <2>3 DEF TypeOK, ConnFits, EndsFit, ToldFits, EarlyFits
  <2>6. OthersStay(c)
    BY <2>2, <2>3 DEF TypeOK, OthersStay
  <2> QED BY <2>4, <2>5, <2>6, OneConnMoves
<1> QED
  BY <1>l, <1>1, <1>2, <1>3, <1>4, <1>5, <1>6, <1>7, <1>8, <1>9, <1>10, <1>11, <1>12, <1>13, <1>14, <1>15, <1>16, <1>17 DEF Next, Serve

\* Steps of the other parts leave the server alone.
LEMMA ServerStutter == ServerInv /\ UNCHANGED vars => ServerInv'
  BY DEF vars, ServerInv, TypeOK, ConnFits, EndsFit, ToldFits, EarlyFits

\* The invariant yields the properties of the connections.
LEMMA ServerMeans == ServerInv => ConnectionsAreClean
  BY DEF ServerInv, ConnectionsAreClean, NothingLeftBehind, AnswersAreTrue, SocksKeepsEarlyData,
         ConnFits, EndsFit, ToldFits, EarlyFits, TypeOK

-----------------------------------------------------------------------------
(* The netstack's dialling.                                                *)

DialTypes == Dial!TypeOK /\ network \in Dial!AllNetworks /\ laneErr \in BOOLEAN

\* A family has addresses exactly when its look-up brought some, and dialling starts
\* when every look-up has ended.
LookupFits ==
    /\ \A f \in Dial!Families :
          /\ lane[f].at = "took" <=> found[f] > 0
          /\ f \notin families => lane[f].at = "off"
    /\ dialling = "lookup" => Len(addrs) = 0 /\ total = 0 /\ tried = 0
    /\ dialling # "lookup" => \A f \in families : lane[f].at \in {"took", "gone"}

\* Sockets of a lane, and of the look-up.
OpenOf(l) == IF l.at = "open" THEN 1 ELSE 0

SocketsFit == dialling = "lookup" => sockets = OpenOf(lane["v4"]) + OpenOf(lane["v6"]) + unclosed

\* Exchanges that lie behind a lane, and the most time that they and the present one
\* have taken.
StepsOf(l) ==
    (IF l.round = 1 THEN 0 ELSE 2 * DnsServers) + 2 * (l.server - 1) + (IF l.udp THEN 0 ELSE 1)

SpentOf(l) ==
    IF l.at \in {"dial", "open"} THEN ExchangeTime * StepsOf(l) + l.waited ELSE Dial!LookupTime

SpentFits ==
    allowed # Dial!NoDeadline =>
        IF dialling = "lookup"
        THEN \A f \in Dial!Families : allowed <= remaining + SpentOf(lane[f])
        ELSE allowed <= left + Dial!LookupTime

\* Every accepted address is tried or left, and a socket belongs to one tried, if not
\* to an exchange that forgot it.
DialFits ==
    dialling # "lookup" =>
        /\ total = Dial!Fit("v6") + Dial!Fit("v4")
        /\ tried + Len(addrs) = total
        /\ unclosed <= sockets /\ sockets <= tried + unclosed
        /\ dialling = "dial" => Len(addrs) > 0
        /\ dialling \in {"dial", "failed"} => sockets = unclosed \/ network.proto = "ping"

\* If the time the look-up left was enough for all the addresses, what remains is
\* enough for those that are left.
TimeFits ==
    dialling # "lookup" /\ left >= SaneMinimum * total =>
        /\ dialling = "dial" => remaining >= SaneMinimum * Len(addrs)
        /\ dialling = "failed" /\ ~dialCancelled => tried = total

DialInv == DialTypes /\ LookupFits /\ SocketsFit /\ SpentFits /\ DialFits /\ TimeFits

\* Less than all of them have been asked.
LEMMA StepsAreFew ==
    ASSUME NEW l \in Dial!Lane
    PROVE  StepsOf(l) \in Nat /\ StepsOf(l) + 1 <= 4 * DnsServers
<1>1. l.round \in 1 .. 2 /\ l.server \in 1 .. DnsServers
  BY DEF Dial!Lane, Dial!Rounds
<1> QED BY <1>1, ProxyAssumption DEF StepsOf

\* One exchange more is at most ExchangeTime more.
LEMMA Product ==
    ASSUME NEW a \in Nat, NEW b \in Nat, NEW e \in Nat, a + 1 <= b
    PROVE  e * a \in Nat /\ e * b \in Nat /\ e * a + e <= e * b
<1>1. e * b = e * (a + 1) + e * (b - (a + 1)) /\ e * (b - (a + 1)) >= 0
  <2>1. b - (a + 1) \in Nat
    OBVIOUS
  <2> DEFINE c == b - (a + 1)
  <2>2. c \in Nat /\ b = a + 1 + c
    BY <2>1
  <2> HIDE DEF c
  <2>3. e * c \in Nat /\ e * b = e * (a + 1) + e * c
    BY <2>2
  <2> QED BY <2>3 DEF c
<1>2. e * (a + 1) = e * a + e
  OBVIOUS
<1>3. e * a \in Nat /\ e * b \in Nat /\ e * (b - (a + 1)) \in Int
  OBVIOUS
<1> QED BY <1>1, <1>2, <1>3

\* A lane has never spent more than a whole look-up may take.
LEMMA SpentIsBounded ==
    ASSUME NEW l \in Dial!Lane
    PROVE  /\ SpentOf(l) \in Nat /\ SpentOf(l) <= Dial!LookupTime /\ Dial!LookupTime \in Nat
           /\ l.waited < ExchangeTime => SpentOf(l) + 1 <= Dial!LookupTime \/ l.at \notin {"dial", "open"}
<1> DEFINE n == StepsOf(l)
           m == 4 * DnsServers
<1>1. n \in Nat /\ m \in Nat /\ n + 1 <= m
  BY StepsAreFew, ProxyAssumption
<1>2. l.waited \in 0 .. ExchangeTime /\ ExchangeTime \in Nat
  BY ProxyAssumption DEF Dial!Lane
<1>3. Dial!LookupTime = ExchangeTime * m
  BY ProxyAssumption DEF Dial!LookupTime, Dial!Rounds
<1>4. SpentOf(l) = IF l.at \in {"dial", "open"} THEN ExchangeTime * n + l.waited ELSE ExchangeTime * m
  BY <1>3 DEF SpentOf
<1> HIDE DEF n, m
<1> DEFINE p == ExchangeTime * n
           q == ExchangeTime * m
<1>5. p \in Nat /\ q \in Nat /\ p + ExchangeTime <= q
  BY <1>1, <1>2, Product
<1> HIDE DEF p, q
<1>6. SpentOf(l) = (IF l.at \in {"dial", "open"} THEN p + l.waited ELSE q) /\ Dial!LookupTime = q
  BY <1>3, <1>4 DEF p, q
<1> QED BY <1>2, <1>5, <1>6

\* A lane that goes on to a later exchange, or to its end, has spent no less.
LEMMA LaterSpendsMore ==
    ASSUME NEW l \in Dial!Lane, NEW k \in Dial!Lane, l.at \in {"dial", "open"},
           k.at \in {"dial", "open"} => StepsOf(l) + 1 <= StepsOf(k)
    PROVE  SpentOf(l) <= SpentOf(k)
<1>1. CASE k.at \notin {"dial", "open"}
  BY <1>1, SpentIsBounded DEF SpentOf
<1>2. CASE k.at \in {"dial", "open"}
  <2> DEFINE n == StepsOf(l)
             m == StepsOf(k)
  <2>1. n \in Nat /\ m \in Nat /\ n + 1 <= m
    BY <1>2, StepsAreFew
  <2>2. l.waited \in 0 .. ExchangeTime /\ k.waited \in 0 .. ExchangeTime /\ ExchangeTime \in Nat
    BY ProxyAssumption DEF Dial!Lane
  <2>3. SpentOf(l) = ExchangeTime * n + l.waited /\ SpentOf(k) = ExchangeTime * m + k.waited
    BY <1>2 DEF SpentOf
  <2> HIDE DEF n, m
  <2> DEFINE p == ExchangeTime * n
             q == ExchangeTime * m
  <2>4. p \in Nat /\ q \in Nat /\ p + ExchangeTime <= q
    BY <2>1, <2>2, Product
  <2> HIDE DEF p, q
  <2>5. SpentOf(l) = p + l.waited /\ SpentOf(k) = q + k.waited
    BY <2>3 DEF p, q
  <2> QED BY <2>2, <2>4, <2>5
<1> QED BY <1>1, <1>2

\* A lane at the beginning of an exchange, or past all of them, is a lane.
LEMMA FreshIsALane ==
    ASSUME NEW at \in {"off", "dial", "failed", "found", "corrupt", "notfound"},
           NEW n \in 1 .. DnsServers, NEW round \in 1 .. 2, NEW udp \in BOOLEAN
    PROVE  Dial!Fresh(at, n, round, udp) \in Dial!Lane
<1>1. 0 \in 0 .. ExchangeTime
  BY ProxyAssumption
<1> QED BY <1>1 DEF Dial!Fresh, Dial!Lane, Dial!Rounds

\* A dial starts with its look-up, with nothing found.
LEMMA DialInit == Dial!Init => DialInv
<1> SUFFICES ASSUME Dial!Init PROVE DialInv
  OBVIOUS
<1> USE ProxyAssumption
<1>1. lane \in [Dial!Families -> Dial!Lane]
  <2>1. 1 \in 1 .. DnsServers /\ 1 \in 1 .. Dial!Rounds /\ 0 \in 0 .. ExchangeTime
    BY DEF Dial!Rounds
  <2>2. \A at \in {"dial", "off"} : Dial!Fresh(at, 1, 1, TRUE) \in Dial!Lane
    BY <2>1 DEF Dial!Lane, Dial!Fresh
  <2> QED BY <2>2 DEF Dial!Init
<1>2. /\ \A f \in Dial!Families :
            /\ lane[f].at = (IF f \in families THEN "dial" ELSE "off") /\ found[f] = 0
            /\ lane[f].round = 1 /\ lane[f].server = 1 /\ lane[f].udp /\ lane[f].waited = 0
      /\ families \subseteq Dial!Families
      /\ dialling = "lookup" /\ laneErr = FALSE /\ network \in Networks
      /\ allowed \in Allowances \cup {Dial!NoDeadline} /\ remaining = allowed /\ left = allowed
      /\ addrs = <<>> /\ total = 0 /\ tried = 0 /\ sockets = 0 /\ unclosed = 0
  BY DEF Dial!Init, Dial!Fresh
<1>3. DialTypes
  <2>1. allowed \in 0 .. Dial!NoDeadline
    BY <1>2, NetworkAssumption DEF Dial!NoDeadline
  <2>2. found \in [Dial!Families -> 0 .. 2] /\ addrs \in Seq(Dial!Families)
    BY DEF Dial!Init
  <2>3. unclosed \in 0 .. MaxUnclosed /\ sockets \in 0 .. (MaxUnclosed + 4) /\ total \in 0 .. 4 /\ tried \in 0 .. 4
    BY <1>2
  <2>4. Dial!TypeOK
    BY <1>1, <1>2, <2>1, <2>2, <2>3 DEF Dial!TypeOK
  <2> QED BY <1>2, <2>4, NetworkAssumption DEF DialTypes
<1>4. LookupFits /\ DialFits /\ TimeFits
  BY <1>2 DEF LookupFits, DialFits, TimeFits
<1>5. SocketsFit
  BY <1>2 DEF SocketsFit, OpenOf, Dial!Families
<1>6. SpentFits
  <2>1. \A f \in Dial!Families : SpentOf(lane[f]) \in Nat
    BY <1>1, SpentIsBounded
  <2>2. allowed \in Int
    BY <1>3 DEF DialTypes, Dial!TypeOK, Dial!NoDeadline
  <2> QED BY <1>2, <2>1, <2>2 DEF SpentFits
<1> QED BY <1>3, <1>4, <1>5, <1>6 DEF DialInv

\* A look-up's lane moves on without a result.
LEMMA LaneMoves ==
    ASSUME DialInv, NEW f \in Dial!Families, Dial!Lookup, remaining' = remaining,
           NEW k \in Dial!Lane, lane' = [lane EXCEPT ![f] = k],
           lane[f].at \in {"dial", "open"}, k.at \notin {"took", "off"},
           unclosed' \in 0 .. MaxUnclosed,
           sockets' + OpenOf(lane[f]) + unclosed = sockets + OpenOf(k) + unclosed', sockets' \in Int,
           SpentOf(lane[f]) <= SpentOf(k)
    PROVE  DialInv'
<1>t. DialTypes /\ LookupFits /\ SocketsFit /\ SpentFits /\ DialFits /\ TimeFits
  BY DEF DialInv
<1>1. dialling = "lookup" /\ dialling' = "lookup"
  BY <1>t DEF LookupFits, Dial!Lookup
<1>2. /\ UNCHANGED <<families, network, laneErr, found, addrs, total, tried, allowed, left, dialCancelled>>
  BY DEF Dial!Lookup
<1>3. lane \in [Dial!Families -> Dial!Lane] /\ lane' \in [Dial!Families -> Dial!Lane]
  BY <1>t DEF DialTypes, Dial!TypeOK
<1>4. SocketsFit'
  <2>1. sockets = OpenOf(lane["v4"]) + OpenOf(lane["v6"]) + unclosed
    BY <1>1, <1>t DEF SocketsFit
  <2>2. \A l : OpenOf(l) \in Int
    BY DEF OpenOf
  <2>3. sockets \in Int /\ sockets' \in Int /\ unclosed \in Int /\ unclosed' \in Int
    BY <1>t, ProxyAssumption DEF DialTypes, Dial!TypeOK
  <2>4. \A x, y, z \in Int :
            /\ sockets = x + y + unclosed /\ sockets' + x + unclosed = sockets + z + unclosed'
                  => sockets' = z + y + unclosed'
            /\ sockets = x + y + unclosed /\ sockets' + y + unclosed = sockets + z + unclosed'
                  => sockets' = x + z + unclosed'
    <3> DEFINE s == sockets
               t == sockets'
               u == unclosed
               v == unclosed'
    <3>1. s \in Int /\ t \in Int /\ u \in Int /\ v \in Int
      BY <2>3
    <3> HIDE DEF s, t, u, v
    <3>2. \A x, y, z \in Int :
              /\ s = x + y + u /\ t + x + u = s + z + v => t = z + y + v
              /\ s = x + y + u /\ t + y + u = s + z + v => t = x + z + v
      BY ONLY <3>1
    <3> QED BY ONLY <3>2 DEF s, t, u, v
  <2>5. CASE f = "v4"
    <3>1. lane'["v4"] = k /\ lane'["v6"] = lane["v6"]
      BY <2>5, <1>3 DEF Dial!Families
    <3>2. sockets' + OpenOf(lane["v4"]) + unclosed = sockets + OpenOf(k) + unclosed'
      BY <2>5
    <3>3. sockets' = OpenOf(k) + OpenOf(lane["v6"]) + unclosed'
      BY ONLY <2>1, <2>2, <2>4, <3>2
    <3> QED BY <3>1, <3>3 DEF SocketsFit
  <2>6. CASE f = "v6"
    <3>1. lane'["v6"] = k /\ lane'["v4"] = lane["v4"]
      BY <2>6, <1>3 DEF Dial!Families
    <3>2. sockets' + OpenOf(lane["v6"]) + unclosed = sockets + OpenOf(k) + unclosed'
      BY <2>6
    <3>3. sockets' = OpenOf(lane["v4"]) + OpenOf(k) + unclosed'
      BY ONLY <2>1, <2>2, <2>4, <3>2
    <3> QED BY <3>1, <3>3 DEF SocketsFit
  <2> QED BY <2>5, <2>6 DEF Dial!Families
<1>5. DialTypes'
  <2>1. sockets' \in 0 .. (MaxUnclosed + 4)
    <3>1. sockets' = OpenOf(lane'["v4"]) + OpenOf(lane'["v6"]) + unclosed'
      BY <1>1, <1>4 DEF SocketsFit
    <3>2. OpenOf(lane'["v4"]) \in 0 .. 1 /\ OpenOf(lane'["v6"]) \in 0 .. 1
      BY DEF OpenOf
    <3> QED BY <3>1, <3>2, ProxyAssumption
  <2> QED BY <1>t, <1>1, <1>2, <1>3, <2>1 DEF DialTypes, Dial!TypeOK
<1>6. LookupFits'
  BY <1>t, <1>1, <1>2, <1>3 DEF LookupFits
<1>7. SpentFits'
  <2> SUFFICES ASSUME allowed # Dial!NoDeadline, NEW g \in Dial!Families
               PROVE  allowed <= remaining + SpentOf(lane'[g])
    BY <1>1, <1>2 DEF SpentFits
  <2>1. allowed <= remaining + SpentOf(lane[g])
    BY <1>t, <1>1 DEF SpentFits
  <2>2. SpentOf(lane[g]) \in Nat /\ SpentOf(lane'[g]) \in Nat /\ allowed \in Int /\ remaining \in Int
    BY <1>3, <1>t, SpentIsBounded DEF DialTypes, Dial!TypeOK, Dial!NoDeadline
  <2>3. SpentOf(lane[g]) <= SpentOf(lane'[g])
    <3>1. CASE g = f
      BY <3>1, <1>3
    <3>2. CASE g # f
      BY <3>2, <1>3, <2>2
    <3> QED BY <3>1, <3>2
  <2> QED BY <2>1, <2>2, <2>3
<1>8. DialFits' /\ TimeFits'
  BY <1>1 DEF DialFits, TimeFits
<1> QED BY <1>4, <1>5, <1>6, <1>7, <1>8 DEF DialInv

\* The next server, the second round and the end are all states of a lane, and behind
\* the exchange that the lane leaves.
LEMMA NextServerMoves ==
    ASSUME DialInv, NEW f \in Dial!Families, Dial!NextServer(f), lane[f].at \in {"dial", "open"}
    PROVE  \E k \in Dial!Lane :
              /\ lane' = [lane EXCEPT ![f] = k]
              /\ k.at \in {"dial", "failed"} /\ OpenOf(k) = 0
              /\ SpentOf(lane[f]) <= SpentOf(k)
<1>1. PICK k : /\ lane' = [lane EXCEPT ![f] = k]
               /\ \/ lane[f].server < DnsServers
                     /\ k = Dial!Fresh("dial", lane[f].server + 1, lane[f].round, TRUE)
                  \/ lane[f].round < Dial!Rounds
                     /\ k = Dial!Fresh("dial", 1, lane[f].round + 1, TRUE)
                  \/ k = Dial!Fresh("failed", 1, 1, TRUE)
  BY DEF Dial!NextServer, DialInv, DialTypes, Dial!TypeOK
<1>2. lane[f] \in Dial!Lane
  BY DEF DialInv, DialTypes, Dial!TypeOK
<1>3. lane[f].server \in 1 .. DnsServers /\ lane[f].round \in 1 .. 2 /\ lane[f].udp \in BOOLEAN
  BY <1>2 DEF Dial!Lane, Dial!Rounds
<1>4. k.at \in {"dial", "failed"} /\ k.server \in 1 .. DnsServers /\ k.round \in 1 .. 2 /\ k.udp = TRUE
  BY <1>1, <1>3, ProxyAssumption DEF Dial!Rounds, Dial!Fresh
<1>5. k = [at |-> k.at, server |-> k.server, round |-> k.round, udp |-> TRUE, waited |-> 0]
  BY <1>1 DEF Dial!Fresh
<1>6. k \in Dial!Lane
  BY <1>4, <1>5, FreshIsALane DEF Dial!Fresh
<1>7. k.at = "dial" => StepsOf(lane[f]) + 1 <= StepsOf(k)
  BY <1>1, <1>3, ProxyAssumption DEF Dial!Rounds, Dial!Fresh, StepsOf
<1>8. SpentOf(lane[f]) <= SpentOf(k)
  BY <1>2, <1>4, <1>6, <1>7, LaterSpendsMore
<1> QED BY <1>1, <1>4, <1>6, <1>8 DEF OpenOf

\* An exchange that is over has closed its connection, if it got one.
LEMMA ExchangeEnds ==
    ASSUME DialInv, NEW f \in Dial!Families, Dial!ExchangeOver(f), NEW k \in Dial!Lane,
           lane' = [lane EXCEPT ![f] = k], lane[f].at \in {"dial", "open"},
           k.at \notin {"took", "off", "open"}, SpentOf(lane[f]) <= SpentOf(k)
    PROVE  DialInv'
<1>1. sockets \in Int /\ unclosed \in 0 .. MaxUnclosed
  BY ProxyAssumption DEF DialInv, DialTypes, Dial!TypeOK
<1>2. sockets' = sockets - OpenOf(lane[f]) /\ OpenOf(k) = 0 /\ OpenOf(lane[f]) \in Int
  BY <1>1 DEF Dial!ExchangeOver, Dial!Closed, OpenOf
<1>3. sockets' + OpenOf(lane[f]) + unclosed = sockets + OpenOf(k) + unclosed' /\ sockets' \in Int
  BY <1>1, <1>2 DEF Dial!ExchangeOver
<1> QED BY <1>1, <1>3, LaneMoves DEF Dial!ExchangeOver

\* A share of the time leaves enough for the other addresses if there was enough for
\* all, and is never more than there is.
LEMMA ShareLeavesEnough ==
    ASSUME remaining \in 1 .. MaxTime, NEW n \in 1 .. 4
    PROVE  /\ Dial!partialDeadline(n) \in 0 .. remaining
           /\ remaining >= SaneMinimum * n =>
                 remaining - Dial!partialDeadline(n) >= SaneMinimum * (n - 1)
<1> USE ProxyAssumption DEF Dial!partialDeadline, Dial!NoDeadline
<1>1. CASE n = 1
  BY <1>1
<1>2. CASE n = 2
  BY <1>2
<1>3. CASE n = 3
  BY <1>3
<1>4. CASE n = 4
  BY <1>4
<1> QED BY <1>1, <1>2, <1>3, <1>4

\* Every step of the look-up and of the dialling, and a cancellation, keep it in order.
LEMMA DialStep == DialInv /\ Dial!Next => DialInv'
<1> SUFFICES ASSUME DialInv, Dial!Next PROVE DialInv'
  OBVIOUS
<1> USE ProxyAssumption
<1>t. DialTypes /\ LookupFits /\ SocketsFit /\ SpentFits /\ DialFits /\ TimeFits
  BY DEF DialInv
<1>l. \A f \in Dial!Families : lane[f] \in Dial!Lane
  BY <1>t DEF DialTypes, Dial!TypeOK
<1>1. ASSUME NEW f \in Dial!Families, Dial!ExchangeOpens(f) PROVE DialInv'
  <2> DEFINE k == [lane[f] EXCEPT !.at = "open"]
  <2>1. /\ lane' = [lane EXCEPT ![f] = k] /\ lane[f].at = "dial" /\ Dial!Lookup
        /\ sockets' = sockets + 1 /\ UNCHANGED <<remaining, unclosed>>
    BY <1>1 DEF Dial!ExchangeOpens, Dial!LaneGoes
  <2>2. k \in Dial!Lane /\ k.at = "open"
    BY <1>l DEF Dial!Lane
  <2>3. SpentOf(k) = SpentOf(lane[f])
    BY <1>l, <2>1 DEF SpentOf, StepsOf, Dial!Lane
  <2>4. OpenOf(k) = 1 /\ OpenOf(lane[f]) = 0
    BY <2>1, <2>2 DEF OpenOf
  <2>5. sockets \in Int /\ unclosed \in 0 .. MaxUnclosed
    BY <1>t DEF DialTypes, Dial!TypeOK
  <2>6. SpentOf(lane[f]) <= SpentOf(k)
    BY <1>l, <2>3, SpentIsBounded
  <2> HIDE DEF k
  <2>7. /\ sockets' + OpenOf(lane[f]) + unclosed = sockets + OpenOf(k) + unclosed'
        /\ sockets' \in Int /\ unclosed' \in 0 .. MaxUnclosed
    BY ONLY <2>1, <2>4, <2>5, ProxyAssumption
  <2> QED BY <2>1, <2>2, <2>6, <2>7, LaneMoves
<1>2. ASSUME NEW f \in Dial!Families, Dial!ExchangeFails(f) PROVE DialInv'
  <2>1. lane[f].at \in {"dial", "open"} /\ Dial!NextServer(f) /\ Dial!ExchangeOver(f)
    BY <1>2 DEF Dial!ExchangeFails
  <2> QED BY <2>1, NextServerMoves, ExchangeEnds
<1>2a. ASSUME NEW f \in Dial!Families, Dial!SetDeadlineFails(f) PROVE DialInv'
  <2>1. /\ lane[f].at = "open" /\ unclosed < MaxUnclosed /\ Dial!NextServer(f) /\ Dial!Lookup
        /\ unclosed' = unclosed + 1 /\ UNCHANGED <<remaining, sockets>>
    BY <1>2a DEF Dial!SetDeadlineFails
  <2>2. PICK k \in Dial!Lane :
            /\ lane' = [lane EXCEPT ![f] = k] /\ k.at \in {"dial", "failed"} /\ OpenOf(k) = 0
            /\ SpentOf(lane[f]) <= SpentOf(k)
    BY <2>1, NextServerMoves
  <2>3. sockets \in Int /\ unclosed \in 0 .. MaxUnclosed
    BY <1>t DEF DialTypes, Dial!TypeOK
  <2>4. OpenOf(lane[f]) = 1
    BY <2>1 DEF OpenOf
  <2>5. sockets' + OpenOf(lane[f]) + unclosed = sockets + OpenOf(k) + unclosed' /\ unclosed' \in 0 .. MaxUnclosed
    BY <2>1, <2>2, <2>3, <2>4
  <2> QED BY <2>1, <2>2, <2>3, <2>5, LaneMoves
<1>3. ASSUME NEW f \in Dial!Families, Dial!Truncated(f) PROVE DialInv'
  <2>0. lane[f].at = "open" /\ Dial!ExchangeOver(f)
    BY <1>3 DEF Dial!Truncated
  <2>1. CASE lane[f].udp
    <3> DEFINE k == Dial!Fresh("dial", lane[f].server, lane[f].round, FALSE)
    <3>1. lane' = [lane EXCEPT ![f] = k]
      BY <1>3, <1>t, <2>1 DEF Dial!Truncated, DialTypes, Dial!TypeOK
    <3>2. k \in Dial!Lane /\ k.at = "dial"
      BY <1>l DEF Dial!Lane, Dial!Fresh
    <3>3. StepsOf(lane[f]) + 1 <= StepsOf(k)
      BY <1>l, <2>1 DEF StepsOf, Dial!Fresh, Dial!Lane, Dial!Rounds
    <3> HIDE DEF k
    <3>4. SpentOf(lane[f]) <= SpentOf(k)
      BY <1>l, <2>0, <3>2, <3>3, LaterSpendsMore
    <3> QED BY <2>0, <3>1, <3>2, <3>4, ExchangeEnds
  <2>2. CASE ~lane[f].udp
    <3>1. Dial!NextServer(f)
      BY <1>3, <2>2 DEF Dial!Truncated
    <3> QED BY <2>0, <3>1, NextServerMoves, ExchangeEnds
  <2> QED BY <2>1, <2>2
<1>4. ASSUME NEW f \in Dial!Families, Dial!Answered(f) PROVE DialInv'
  <2>0. lane[f].at = "open" /\ Dial!ExchangeOver(f)
    BY <1>4 DEF Dial!Answered
  <2>1. CASE Dial!NextServer(f)
    BY <2>0, <2>1, NextServerMoves, ExchangeEnds
  <2>2. ASSUME NEW at \in {"found", "corrupt", "notfound"}, Dial!LaneEnds(f, at) PROVE DialInv'
    <3> DEFINE k == Dial!Fresh(at, 1, 1, TRUE)
    <3>1. lane' = [lane EXCEPT ![f] = k]
      BY <2>2 DEF Dial!LaneEnds
    <3>2. k \in Dial!Lane /\ k.at = at
      BY <2>2 DEF Dial!Lane, Dial!Rounds, Dial!Fresh
    <3> HIDE DEF k
    <3>3. SpentOf(lane[f]) <= SpentOf(k)
      BY <1>l, <2>0, <3>2, LaterSpendsMore
    <3> QED BY <2>0, <3>1, <3>2, <3>3, ExchangeEnds
  <2> QED BY <1>4, <2>1, <2>2 DEF Dial!Answered
<1>4a. ASSUME Dial!TimePasses PROVE DialInv'
  <2>1. /\ dialling = "lookup" /\ remaining # 0 /\ remaining # Dial!NoDeadline /\ remaining' = remaining - 1
        /\ Dial!Asking # {} /\ \A f \in Dial!Asking : lane[f].waited < ExchangeTime
        /\ UNCHANGED <<sockets, unclosed, families, network, laneErr, found, addrs, total, tried, allowed, left,
                       dialling, dialCancelled>>
    BY <1>4a DEF Dial!TimePasses, Dial!Lookup, Dial!InTime
  <2>2. \A f \in Dial!Families :
            /\ lane[f].at \in {"dial", "open"} =>
                  lane[f].waited < ExchangeTime /\ lane'[f] = [lane[f] EXCEPT !.waited = @ + 1]
            /\ lane[f].at \notin {"dial", "open"} => lane'[f] = lane[f]
    BY <1>4a, <2>1 DEF Dial!TimePasses, Dial!Asking
  <2>3. \A f \in Dial!Families :
            /\ lane'[f] \in Dial!Lane /\ lane'[f].at = lane[f].at
            /\ lane[f].at \in {"dial", "open"} =>
                  SpentOf(lane'[f]) = SpentOf(lane[f]) + 1 /\ SpentOf(lane[f]) + 1 <= Dial!LookupTime
            /\ lane[f].at \notin {"dial", "open"} => SpentOf(lane'[f]) = Dial!LookupTime
    <3> SUFFICES ASSUME NEW f \in Dial!Families
                 PROVE  /\ lane'[f] \in Dial!Lane /\ lane'[f].at = lane[f].at
                        /\ lane[f].at \in {"dial", "open"} =>
                              SpentOf(lane'[f]) = SpentOf(lane[f]) + 1 /\ SpentOf(lane[f]) + 1 <= Dial!LookupTime
                        /\ lane[f].at \notin {"dial", "open"} => SpentOf(lane'[f]) = Dial!LookupTime
      OBVIOUS
    <3>1. CASE lane[f].at \in {"dial", "open"}
      <4>1. lane[f].waited \in 0 .. ExchangeTime /\ lane[f].waited < ExchangeTime
        BY <1>l, <2>2, <3>1 DEF Dial!Lane
      <4>2. lane'[f] \in Dial!Lane /\ lane'[f].at = lane[f].at /\ lane'[f].waited = lane[f].waited + 1
        <5>1. lane[f].waited + 1 \in 0 .. ExchangeTime
          BY <4>1
        <5>2. lane'[f] = [lane[f] EXCEPT !.waited = lane[f].waited + 1] /\ lane[f] \in Dial!Lane
          BY <1>l, <2>2, <3>1
        <5> QED BY ONLY <5>1, <5>2 DEF Dial!Lane
      <4>3. StepsOf(lane'[f]) = StepsOf(lane[f])
        BY <1>l, <2>2, <3>1 DEF StepsOf, Dial!Lane
      <4>4. ExchangeTime * StepsOf(lane[f]) \in Nat
        <5>1. StepsOf(lane[f]) \in Nat
          BY <1>l, StepsAreFew
        <5> QED BY <5>1
      <4> DEFINE p == ExchangeTime * StepsOf(lane[f])
      <4>5. SpentOf(lane[f]) = p + lane[f].waited /\ SpentOf(lane'[f]) = p + lane'[f].waited
        BY <3>1, <4>2, <4>3 DEF SpentOf
      <4> HIDE DEF p
      <4>6. SpentOf(lane'[f]) = SpentOf(lane[f]) + 1
        BY <4>1, <4>2, <4>4, <4>5 DEF p
      <4>7. SpentOf(lane[f]) + 1 <= Dial!LookupTime
        BY <1>l, <3>1, <4>1, SpentIsBounded
      <4> QED BY <3>1, <4>2, <4>6, <4>7
    <3>2. CASE lane[f].at \notin {"dial", "open"}
      BY <1>l, <2>2, <3>2 DEF SpentOf
    <3> QED BY <3>1, <3>2
  <2>4. DialTypes'
    <3>1. lane' \in [Dial!Families -> Dial!Lane]
      BY <1>4a, <2>3 DEF Dial!TimePasses
    <3>2. remaining' \in 0 .. Dial!NoDeadline
      BY <1>t, <2>1 DEF DialTypes, Dial!TypeOK, Dial!NoDeadline
    <3> QED BY <1>t, <2>1, <3>1, <3>2 DEF DialTypes, Dial!TypeOK
  <2>5. LookupFits'
    BY <1>t, <2>1, <2>3 DEF LookupFits
  <2>6. SocketsFit'
    BY <1>t, <2>1, <2>3 DEF SocketsFit, OpenOf, Dial!Families
  <2>7. SpentFits'
    <3> SUFFICES ASSUME allowed # Dial!NoDeadline, NEW g \in Dial!Families
                 PROVE  allowed <= remaining' + SpentOf(lane'[g])
      BY <2>1 DEF SpentFits
    <3>1. PICK h \in Dial!Families : lane[h].at \in {"dial", "open"}
      BY <2>1 DEF Dial!Asking
    <3>2. allowed <= remaining + SpentOf(lane[g]) /\ allowed <= remaining + SpentOf(lane[h])
      BY <1>t, <2>1 DEF SpentFits
    <3>3. /\ allowed \in Int /\ remaining \in Int /\ Dial!LookupTime \in Int
          /\ SpentOf(lane[g]) \in Int /\ SpentOf(lane[h]) \in Int
      BY <1>t, <1>l, SpentIsBounded DEF DialTypes, Dial!TypeOK, Dial!NoDeadline
    <3>4. CASE lane[g].at \in {"dial", "open"}
      <4>1. SpentOf(lane'[g]) = SpentOf(lane[g]) + 1
        BY <2>3, <3>4
      <4> QED BY <2>1, <3>2, <3>3, <4>1
    <3>5. CASE lane[g].at \notin {"dial", "open"}
      <4>1. SpentOf(lane'[g]) = Dial!LookupTime /\ SpentOf(lane[h]) + 1 <= Dial!LookupTime
        BY <2>3, <3>1, <3>5
      <4> QED BY <2>1, <3>2, <3>3, <4>1
    <3> QED BY <3>4, <3>5
  <2>8. DialFits' /\ TimeFits'
    BY <2>1 DEF DialFits, TimeFits
  <2> QED BY <2>4, <2>5, <2>6, <2>7, <2>8 DEF DialInv
<1>5. ASSUME NEW f \in Dial!Families, Dial!Collect(f) PROVE DialInv'
  <2>1. PICK n \in 0 .. 2 : found' = [found EXCEPT ![f] = n] /\ Dial!LaneGoes(f, IF n > 0 THEN "took" ELSE "gone")
    BY <1>5 DEF Dial!Collect
  <2> DEFINE k == [lane[f] EXCEPT !.at = IF n > 0 THEN "took" ELSE "gone"]
  <2>2. /\ lane' = [lane EXCEPT ![f] = k] /\ dialling = "lookup" /\ lane[f].at \notin {"dial", "open", "off"}
        /\ UNCHANGED <<families, network, addrs, total, tried, allowed, remaining, left, dialling, dialCancelled,
                       sockets, unclosed>>
    BY <1>5, <2>1 DEF Dial!Collect, Dial!LaneGoes
  <2>3. k \in Dial!Lane /\ k.at = (IF n > 0 THEN "took" ELSE "gone")
    BY <1>l DEF Dial!Lane
  <2>4. laneErr' \in BOOLEAN
    BY <1>5, Zenon DEF Dial!Collect
  <2> HIDE DEF k
  <2>5. DialTypes'
    BY <1>t, <2>1, <2>2, <2>3, <2>4 DEF DialTypes, Dial!TypeOK
  <2>6. LookupFits'
    BY <1>t, <2>1, <2>2, <2>3 DEF DialTypes, Dial!TypeOK, LookupFits
  <2>7. \A g \in Dial!Families : OpenOf(lane'[g]) = OpenOf(lane[g]) /\ SpentOf(lane'[g]) = SpentOf(lane[g])
    <3> SUFFICES ASSUME NEW g \in Dial!Families
                 PROVE  OpenOf(lane'[g]) = OpenOf(lane[g]) /\ SpentOf(lane'[g]) = SpentOf(lane[g])
      OBVIOUS
    <3>1. CASE g = f
      <4>1. lane'[g] = k /\ k.at \in {"took", "gone"}
        BY <1>t, <2>2, <2>3, <3>1 DEF DialTypes, Dial!TypeOK
      <4> QED BY <2>2, <3>1, <4>1 DEF OpenOf, SpentOf
    <3>2. CASE g # f
      BY <1>t, <2>2, <3>2 DEF DialTypes, Dial!TypeOK
    <3> QED BY <3>1, <3>2
  <2>8. SocketsFit' /\ SpentFits'
    BY <1>t, <2>2, <2>7 DEF SocketsFit, SpentFits, Dial!Families
  <2>9. DialFits' /\ TimeFits'
    BY <2>2 DEF DialFits, TimeFits
  <2> QED BY <2>5, <2>6, <2>8, <2>9 DEF DialInv
<1>6. ASSUME Dial!LookupEnds PROVE DialInv'
  <2> DEFINE a == Dial!Fit("v6")
             b == Dial!Fit("v4")
             fit == [i \in 1 .. (a + b) |-> IF i <= a THEN "v6" ELSE "v4"]
  <2>1. a \in 0 .. 2 /\ b \in 0 .. 2
    BY <1>t DEF DialTypes, Dial!TypeOK, Dial!Fit, Dial!Families
  <2>2. /\ dialling = "lookup" /\ \A f \in families : lane[f].at \in {"took", "gone"}
        /\ addrs' = fit /\ total' = Len(fit) /\ dialling' = IF fit = <<>> THEN "failed" ELSE "dial"
        /\ left' = remaining
        /\ UNCHANGED <<families, network, lane, laneErr, found, tried, allowed, remaining, dialCancelled, sockets,
                       unclosed>>
    BY <1>6 DEF Dial!LookupEnds
  <2>3. a' = a /\ b' = b
    BY <2>2 DEF Dial!Fit
  <2> HIDE DEF a, b
  <2>4. fit \in Seq(Dial!Families) /\ Len(fit) = a + b
    BY <2>1 DEF Dial!Families
  <2>5. fit = <<>> <=> a + b = 0
    BY <2>1, <2>4
  <2> HIDE DEF fit
  <2>6. DialTypes'
    BY <1>t, <2>1, <2>2, <2>4 DEF DialTypes, Dial!TypeOK
  <2>7. LookupFits'
    BY <1>t, <2>2 DEF LookupFits
  <2>s. sockets = unclosed /\ unclosed \in Nat
    <3>1. \A f \in Dial!Families : lane[f].at # "open"
      BY <1>t, <2>2 DEF LookupFits
    <3>2. OpenOf(lane["v4"]) = 0 /\ OpenOf(lane["v6"]) = 0
      BY <3>1 DEF OpenOf, Dial!Families
    <3> QED BY <1>t, <2>2, <3>2 DEF SocketsFit, DialTypes, Dial!TypeOK
  <2>8. DialFits'
    BY <1>t, <2>1, <2>2, <2>3, <2>4, <2>5, <2>s DEF DialFits, LookupFits, a, b
  <2>9. TimeFits'
    BY <1>t, <2>1, <2>2, <2>4, <2>5 DEF TimeFits, LookupFits
  <2>10. SocketsFit'
    BY <2>2 DEF SocketsFit
  <2>11. SpentFits'
    <3> SUFFICES ASSUME allowed # Dial!NoDeadline PROVE allowed <= remaining + Dial!LookupTime
      BY <2>2 DEF SpentFits
    <3>1. allowed <= remaining + SpentOf(lane["v4"])
      BY <1>t, <2>2 DEF SpentFits, Dial!Families
    <3>2. SpentOf(lane["v4"]) \in Nat /\ SpentOf(lane["v4"]) <= Dial!LookupTime /\ Dial!LookupTime \in Nat
      BY <1>l, SpentIsBounded DEF Dial!Families
    <3> QED BY <1>t, <3>1, <3>2 DEF DialTypes, Dial!TypeOK, Dial!NoDeadline
  <2> QED BY <2>6, <2>7, <2>8, <2>9, <2>10, <2>11 DEF DialInv
<1>7. ASSUME Dial!DialGivesUp PROVE DialInv'
  <2>1. /\ dialling = "dial" /\ dialling' = "failed" /\ (dialCancelled \/ remaining = 0)
        /\ UNCHANGED <<families, network, lane, laneErr, found, addrs, total, tried, allowed, remaining, left,
                       dialCancelled, sockets, unclosed>>
    BY <1>7 DEF Dial!DialGivesUp
  <2>a. addrs \in Seq(Dial!Families) /\ total \in 0 .. 4 /\ tried \in 0 .. 4
    BY <1>t DEF DialTypes, Dial!TypeOK
  <2>b. tried + Len(addrs) = total /\ Len(addrs) > 0
    BY <1>t, <2>1 DEF DialFits
  <2>c. Len(addrs) \in Nat
    BY <2>a
  <2>2. Len(addrs) \in 1 .. 4
    <3> DEFINE n == Len(addrs)
    <3>1. n \in Nat /\ tried + n = total /\ n > 0
      BY <2>b, <2>c
    <3> HIDE DEF n
    <3>2. n \in 1 .. 4
      BY <2>a, <3>1
    <3> QED BY <3>2 DEF n
  <2>3. SaneMinimum * Len(addrs) > 0
    BY <2>2, Len(addrs) \in {1, 2, 3, 4}
  <2>4. DialTypes' /\ LookupFits' /\ SocketsFit' /\ SpentFits'
    BY <1>t, <2>1 DEF DialTypes, Dial!TypeOK, LookupFits, SocketsFit, SpentFits
  <2>5. DialFits'
    BY <1>t, <2>1 DEF DialFits, Dial!Fit
  <2>6. TimeFits'
    BY <1>t, <2>1, <2>3 DEF TimeFits
  <2> QED BY <2>4, <2>5, <2>6 DEF DialInv
<1>8. ASSUME NEW ok \in BOOLEAN, Dial!DialOne(ok) PROVE DialInv'
  <2> DEFINE n == Len(addrs)
             share == IF network.proto = "tcp" /\ remaining # Dial!NoDeadline
                      THEN Dial!partialDeadline(n) ELSE 0
  <2>1. /\ dialling = "dial" /\ remaining > 0 /\ addrs # <<>> /\ tried' = tried + 1 /\ addrs' = Tail(addrs)
        /\ sockets' = (IF Dial!Opened(ok) THEN sockets + 1 ELSE sockets)
        /\ dialling' = (IF ok THEN "ok" ELSE IF addrs' = <<>> THEN "failed" ELSE "dial")
        /\ UNCHANGED <<families, network, lane, laneErr, found, total, allowed, left, dialCancelled, unclosed>>
    BY <1>8 DEF Dial!DialOne
  <2>2. PICK used \in 0 .. share : remaining' = remaining - used
    BY <1>8 DEF Dial!DialOne
  <2>3. /\ n \in 1 .. 4 /\ tried + n = total /\ total \in 0 .. 4 /\ tried \in 0 .. 4 /\ sockets \in Nat /\ unclosed \in 0 .. MaxUnclosed
        /\ unclosed <= sockets /\ sockets <= tried + unclosed
    <3>1. /\ addrs \in Seq(Dial!Families) /\ total \in 0 .. 4 /\ tried \in 0 .. 4 /\ sockets \in Nat
          /\ unclosed \in 0 .. MaxUnclosed
      BY <1>t DEF DialTypes, Dial!TypeOK
    <3>2. tried + n = total /\ n > 0 /\ unclosed <= sockets /\ sockets <= tried + unclosed
      BY <1>t, <2>1 DEF DialFits
    <3>3. n \in Nat
      BY <3>1
    <3> HIDE DEF n
    <3> QED BY <3>1, <3>2, <3>3
  <2>4. addrs' \in Seq(Dial!Families) /\ Len(addrs') = n - 1 /\ (addrs' = <<>> <=> n = 1)
    <3>1. addrs \in Seq(Dial!Families)
      BY <1>t DEF DialTypes, Dial!TypeOK
    <3>2. Tail(addrs) \in Seq(Dial!Families) /\ Len(Tail(addrs)) = n - 1
      BY <3>1, <2>1
    <3>3. Tail(addrs) = <<>> <=> Len(Tail(addrs)) = 0
      BY <3>2
    <3> QED BY <2>1, <2>3, <3>2, <3>3
  <2>5. remaining \in 0 .. Dial!NoDeadline /\ remaining > 0
    BY <1>t, <2>1 DEF DialTypes, Dial!TypeOK
  <2>6. /\ share \in 0 .. remaining
        /\ remaining >= SaneMinimum * n => remaining - share >= SaneMinimum * (n - 1)
    <3>1. CASE network.proto = "tcp" /\ remaining # Dial!NoDeadline
      <4>1. remaining \in 1 .. MaxTime
        BY <2>5, <3>1 DEF Dial!NoDeadline
      <4> QED BY <3>1, <4>1, <2>3, ShareLeavesEnough
    <3>2. CASE ~(network.proto = "tcp" /\ remaining # Dial!NoDeadline)
      <4>1. SaneMinimum * n >= SaneMinimum * (n - 1)
        BY <2>3, n \in {1, 2, 3, 4}
      <4> QED BY <3>2, <4>1, <2>3, <2>5 DEF Dial!NoDeadline
    <3> QED BY <3>1, <3>2
  <2> HIDE DEF n, share
  <2>7. remaining' \in 0 .. Dial!NoDeadline /\ remaining' >= remaining - share
    BY <2>2, <2>5, <2>6 DEF Dial!NoDeadline
  <2>8. sockets' \in {sockets, sockets + 1} /\ (~ok /\ network.proto # "ping" => sockets' = sockets)
    BY <2>1 DEF Dial!Opened
  <2>9. DialTypes'
    BY <1>t, <2>1, <2>3, <2>4, <2>7, <2>8 DEF DialTypes, Dial!TypeOK
  <2>10. LookupFits' /\ SocketsFit' /\ SpentFits'
    BY <1>t, <2>1 DEF LookupFits, SocketsFit, SpentFits
  <2>11. DialFits'
    <3>1. total' = Dial!Fit("v6")' + Dial!Fit("v4")'
      BY <1>t, <2>1 DEF DialFits, Dial!Fit
    <3>2. tried' + Len(addrs') = total' /\ (dialling' = "dial" => Len(addrs') > 0)
      BY <2>1, <2>3, <2>4
    <3>3. unclosed' <= sockets' /\ sockets' <= tried' + unclosed'
      BY <2>1, <2>3, <2>8
    <3>4. dialling' \in {"dial", "failed"} => sockets' = unclosed' \/ network'.proto = "ping"
      BY <1>t, <2>1, <2>8 DEF DialFits
    <3> QED BY <3>1, <3>2, <3>3, <3>4 DEF DialFits
  <2>12. TimeFits'
    <3> SUFFICES ASSUME left >= SaneMinimum * total
                 PROVE  /\ dialling' = "dial" => remaining' >= SaneMinimum * Len(addrs')
                        /\ dialling' = "failed" => tried' = total
      BY <2>1 DEF TimeFits
    <3>1. remaining >= SaneMinimum * n
      BY <1>t, <2>1 DEF TimeFits, n
    <3>2. remaining' >= SaneMinimum * (n - 1)
      <4>1. SaneMinimum * (n - 1) \in Int
        BY <2>3
      <4> QED BY <2>5, <2>6, <2>7, <3>1, <4>1 DEF Dial!NoDeadline
    <3> QED BY <2>1, <2>3, <2>4, <3>2
  <2> QED BY <2>9, <2>10, <2>11, <2>12 DEF DialInv
<1>9. ASSUME Dial!Cancel PROVE DialInv'
  <2>1. /\ dialling \in {"lookup", "dial"} /\ dialCancelled' = TRUE
        /\ UNCHANGED <<families, network, lane, laneErr, found, addrs, total, tried, allowed, remaining, left, dialling,
                       sockets, unclosed>>
    BY <1>9 DEF Dial!Cancel
  <2>2. DialTypes' /\ LookupFits' /\ SocketsFit' /\ SpentFits'
    BY <1>t, <2>1 DEF DialTypes, Dial!TypeOK, LookupFits, SocketsFit, SpentFits
  <2>3. DialFits' /\ TimeFits'
    BY <1>t, <2>1 DEF DialFits, TimeFits, Dial!Fit
  <2> QED BY <2>2, <2>3 DEF DialInv
<1> QED BY <1>1, <1>2, <1>2a, <1>3, <1>4, <1>4a, <1>5, <1>6, <1>7, <1>8, <1>9 DEF Dial!Next, Dial!System

\* Steps of the other parts leave the dialling alone.
LEMMA DialStutter == DialInv /\ UNCHANGED dialVars => DialInv'
<1> SUFFICES ASSUME DialInv, UNCHANGED dialVars PROVE DialInv'
  OBVIOUS
<1>1. UNCHANGED <<families, network, lane, laneErr, found, addrs, total, tried, allowed, remaining, left,
                  dialling, dialCancelled, sockets, unclosed>>
  BY DEF dialVars
<1>2. DialTypes' /\ LookupFits' /\ SocketsFit' /\ SpentFits'
  BY <1>1 DEF DialInv, DialTypes, Dial!TypeOK, LookupFits, SocketsFit, SpentFits
<1>3. DialFits' /\ TimeFits'
  BY <1>1 DEF DialInv, DialFits, TimeFits, Dial!Fit
<1> QED BY <1>2, <1>3 DEF DialInv

\* The invariant yields the properties of the dialling.
LEMMA DialMeans ==
    DialInv => /\ Dial!TypeOK /\ Dial!OneFamilyIsEnough /\ Dial!LookupIsBounded
               /\ Dial!EveryAddressIsTried /\ Dial!FailedDialLeavesNothing
<1> SUFFICES ASSUME DialInv
             PROVE  /\ Dial!TypeOK /\ Dial!OneFamilyIsEnough /\ Dial!LookupIsBounded
                    /\ Dial!EveryAddressIsTried /\ Dial!FailedDialLeavesNothing
  OBVIOUS
<1>t. DialTypes /\ LookupFits /\ SpentFits /\ DialFits /\ TimeFits
  BY DEF DialInv
<1>1. Dial!OneFamilyIsEnough
  <2> SUFFICES ASSUME dialling = "failed", total = 0, NEW f \in families \cap network.accept
               PROVE  lane[f].at = "gone"
    BY DEF Dial!OneFamilyIsEnough
  <2>1. f \in {"v4", "v6"} /\ found \in [Dial!Families -> 0 .. 2]
    BY <1>t DEF DialTypes, Dial!TypeOK, Dial!Families
  <2>2. Dial!Fit("v6") \in 0 .. 2 /\ Dial!Fit("v4") \in 0 .. 2 /\ Dial!Fit("v6") + Dial!Fit("v4") = 0
    BY <1>t, <2>1 DEF DialFits, Dial!Fit, Dial!Families
  <2>3. Dial!Fit(f) = 0
    BY <2>1, <2>2
  <2>4. found[f] = 0
    BY <2>3 DEF Dial!Fit
  <2> QED BY <1>t, <2>1, <2>4 DEF LookupFits, Dial!Families
<1>4. Dial!LookupIsBounded
  BY <1>t DEF SpentFits, Dial!LookupIsBounded
<1>2. Dial!EveryAddressIsTried
  BY <1>t DEF TimeFits, Dial!EveryAddressIsTried
<1>3. Dial!FailedDialLeavesNothing
  BY <1>t DEF DialFits, Dial!FailedDialLeavesNothing
<1> QED BY <1>t, <1>1, <1>2, <1>3, <1>4 DEF DialTypes

-----------------------------------------------------------------------------
(* All parts.                                                              *)

ProxyInv == ServerInv /\ AssocInv /\ FwInv /\ DialInv

\* The inductive invariants of all four parts hold whichever of them moves.
THEOREM ProxyInvariant == MCSpec => []ProxyInv
<1>1. MCInit => ProxyInv
  BY ServerInit, AssocInit, FwInit, DialInit DEF MCInit, ProxyInv
<1>2. ProxyInv /\ [MCNext]_<<part, vars, assocVars, fwVars, dialVars>> => ProxyInv'
  <2> SUFFICES ASSUME ProxyInv, [MCNext]_<<part, vars, assocVars, fwVars, dialVars>> PROVE ProxyInv'
    OBVIOUS
  <2>1. ServerInv'
    BY ServerStep, ServerStutter DEF ProxyInv, MCNext
  <2>2. AssocInv'
    BY AssocStep, AssocStutter DEF ProxyInv, MCNext
  <2>3. FwInv'
    BY FwStep, FwStutter DEF ProxyInv, MCNext
  <2>4. DialInv'
    BY DialStep, DialStutter DEF ProxyInv, MCNext
  <2> QED BY <2>1, <2>2, <2>3, <2>4 DEF ProxyInv
<1> QED BY <1>1, <1>2, PTL DEF MCSpec

(***************************************************************************)
(* For every number of connections: one that is over has left nothing      *)
(* behind, its client was told the truth, and SOCKS kept the data behind   *)
(* the request (mixed, socks5, socks4, http, wiresocks/proxy.go).          *)
(***************************************************************************)
THEOREM ConnectionsEndClean == MCSpec => []ConnectionsAreClean
<1>1. ProxyInv => ConnectionsAreClean
  BY ServerMeans DEF ProxyInv
<1> QED BY <1>1, ProxyInvariant, PTL

(***************************************************************************)
(* However many packets come, an association that passed some gives its    *)
(* socket back, and its reading goroutine unless a write had failed; the   *)
(* forwarder's loops, whoever sends, use no closed socket (socks5, udpfw). *)
(***************************************************************************)
THEOREM UdpGivesBack == MCSpec => []UdpIsReleased
<1>1. ProxyInv => UdpIsReleased
  BY DEF ProxyInv, UdpIsReleased, AssocInv, HandlerFits, ReaderFits, FwInv, Assoc!AssociationReleased
<1> QED BY <1>1, ProxyInvariant, PTL

(***************************************************************************)
(* With any number of DNS servers, any time, any time for an exchange and  *)
(* any least share: a family that answers is enough, the look-up takes at  *)
(* most four exchanges a server of the caller's time, a dial that fails in *)
(* what is left, if that is enough, has tried every address, and leaves no *)
(* socket but a ping's and those whose deadline could not be set           *)
(* (netstack/tun.go).                                                      *)
(***************************************************************************)
THEOREM DialTriesAll == MCSpec => []DialIsThorough
<1>1. ProxyInv => DialIsThorough
  BY DialMeans DEF ProxyInv, DialIsThorough
<1> QED BY <1>1, ProxyInvariant, PTL

=============================================================================
