----------------------------- MODULE ProxyBind -----------------------------
(* WireGuard over a SOCKS5 proxy (wireguard/conn/bind_proxy.go): the UDP
   association, the bind's socket and relay address, and the address type of the
   headers that carry the datagrams.

   An endpoint is of family 4, of family 6, or an IPv4 address mapped into IPv6:
   net.IPv4 gives the mapped form, and Is4 is false of it.                    *)
EXTENDS Naturals, FiniteSets

CONSTANTS MaxOpens        \* bound on the calls of Open

VARIABLES control,        \* the TCP connection: "none", "open" or "closed"
          udp,            \* the field udpConn: "nil", "open" or "closed"
          relay,          \* udpRelayAddr: 0, or the association it came from
          association,    \* the association the proxy still serves, 0 if none
          calls,          \* calls of Open so far
          up,             \* the device holds an Open that succeeded
          failedLate,     \* an association failed after its socket was made
          server,         \* the peer's endpoint as the device knows it
          heard           \* the device has received a datagram of the peer

proxyBindVars == <<control, udp, relay, association, calls, up, failedLate, server, heard>>

Init == /\ control = "none" /\ udp = "nil" /\ relay = 0 /\ association = 0 /\ calls = 0
        /\ up = FALSE /\ failedLate = FALSE /\ server \in {"v4", "v6"} /\ heard = FALSE

-----------------------------------------------------------------------------
\* establishUDPAssociation, where it fails: before the socket is made, or after
\* it, when the closed socket stays in the field.
FailEarly == /\ control' \in {"none", "closed"}
             /\ UNCHANGED <<udp, relay, association, failedLate>>

FailLate == /\ control' = "closed" /\ udp' = "closed" /\ failedLate' = TRUE
            /\ UNCHANGED <<relay, association>>

\* A bug: the relay address is taken from the first association only.
Associate_OldRelay == /\ control' = "open" /\ udp' = "open"
                      /\ relay' = (IF relay = 0 THEN calls + 1 ELSE relay)
                      /\ association' = calls + 1
                      /\ UNCHANGED failedLate

Associate == /\ control' = "open" /\ udp' = "open"
             /\ relay' = calls + 1 /\ association' = calls + 1
             /\ UNCHANGED failedLate

\* Open makes an association unless the field holds a socket, open or not.
Open == /\ ~up /\ calls < MaxOpens
        /\ calls' = calls + 1
        /\ \/ udp = "nil" /\ (FailEarly \/ FailLate) /\ UNCHANGED up
           \/ udp = "nil" /\ Associate /\ up' = TRUE
           \/ /\ udp # "nil" /\ up' = TRUE
              /\ UNCHANGED <<control, udp, relay, association, failedLate>>
        /\ UNCHANGED <<server, heard>>

\* A bug: the socket's field keeps its value.
Close_KeepsField == /\ control' = "none" /\ udp' = IF udp = "nil" THEN "nil" ELSE "closed"
                    /\ association' = 0 /\ up' = FALSE
                    /\ UNCHANGED <<relay, calls, failedLate, server, heard>>

\* Close; the proxy ends the association with its TCP connection.
Close == /\ control' = "none" /\ udp' = "nil" /\ association' = 0 /\ up' = FALSE
         /\ UNCHANGED <<relay, calls, failedLate, server, heard>>

\* The proxy drops the association; the bind does not look at the connection again.
ProxyDrops == /\ association # 0
              /\ association' = 0
              /\ UNCHANGED <<control, udp, relay, calls, up, failedLate, server, heard>>

\* A bug: every address is written in its sixteen-byte form.
Kind_Mapped(ep) == "v6header"

\* The header Send puts before a datagram: type 1 only for what Is4 accepts.
Kind(ep) == IF ep = "v4" THEN "v4header" ELSE "v6header"

\* receiveIPv4 hands the sender's address on, and the device makes it the peer's
\* endpoint: from a header of type 1 that is the mapped form.
Receive == /\ up /\ udp = "open" /\ association = relay /\ association # 0
           /\ server' = IF server = "v6" THEN "v6" ELSE "mapped"
           /\ heard' = TRUE
           /\ UNCHANGED <<control, udp, relay, association, calls, up, failedLate>>

\* The device is configured again and the endpoint parsed from its text.
SetEndpoint == /\ \E s \in {"v4", "v6"} : server' = s
               /\ heard' = FALSE
               /\ UNCHANGED <<control, udp, relay, association, calls, up, failedLate>>

Next == Open \/ (up /\ Close) \/ ProxyDrops \/ Receive \/ SetEndpoint
        \/ (~up /\ udp # "nil" /\ Close)

-----------------------------------------------------------------------------
\* Shapes of the state.
TypeOK == /\ control \in {"none", "open", "closed"} /\ udp \in {"nil", "open", "closed"}
          /\ relay \in 0..MaxOpens /\ association \in 0..MaxOpens /\ calls \in 0..MaxOpens

\* A bind the device believes open has a closed socket only after an association
\* that failed late, whose leavings Open takes for an association.
OpenIsAliveUnlessLeft == up /\ udp = "closed" => failedLate

\* Datagrams go to the relay of the association the socket belongs to, never to
\* one of an earlier Open.
RelayIsCurrent == up /\ udp = "open" => relay # 0 /\ association \in {0, relay}

\* A datagram for an IPv4 server travels under an IPv6 header only once the
\* server has been heard from through the proxy.
MappedOnlyOnceHeard == server # "v6" /\ Kind(server) = "v6header" => heard
=============================================================================
