------------------------------ MODULE MCProxy ------------------------------
(***************************************************************************)
(* The proxy's parts for TLC: a TCP connection, a UDP association, the UDP *)
(* forwarder and the netstack's dialling share nothing, so a behaviour is  *)
(* one of any of them while the others stay as they start.                 *)
(***************************************************************************)
EXTENDS ProxyServer

CONSTANTS
    Packets, Senders,
    Networks, DnsServers, ExchangeTime, MaxTime, Allowances, SaneMinimum, MaxUnclosed

VARIABLES
    part, \* the part that moves
    serves, handler, outcome, control, socket, reader, item, target, deadline, flow, watcher, arrivals,
    cancelled, started, open, loop, clientAddr, answered,
    families, network, lane, laneErr, found, addrs, total, tried, allowed, remaining, left, dialling,
    dialCancelled, sockets, unclosed

\* What the bounds are, and that there is a DNS server and a least share of time.
ASSUME ProxyAssumption ==
    /\ Packets \in Nat /\ MaxTime \in Nat /\ ExchangeTime \in Nat /\ MaxUnclosed \in Nat
    /\ DnsServers \in Nat \ {0} /\ SaneMinimum \in Nat \ {0}

Assoc == INSTANCE UdpAssociate
Fw == INSTANCE UdpForwarder
Dial == INSTANCE NetDial WITH cancelled <- dialCancelled

ASSUME NetworkAssumption == Networks \subseteq Dial!AllNetworks /\ Allowances \subseteq 1..MaxTime

\* Networks for TLC: each protocol, and each set of families that may be accepted.
DialNetworks ==
    {[proto |-> "tcp", accept |-> {"v4", "v6"}], [proto |-> "tcp", accept |-> {"v4"}],
     [proto |-> "udp", accept |-> {"v6"}], [proto |-> "ping", accept |-> {"v4", "v6"}]}

assocVars ==
    <<serves, handler, outcome, control, socket, reader, item, target, deadline, flow, watcher, arrivals>>
fwVars == <<cancelled, started, open, loop, clientAddr, answered>>
dialVars ==
    <<families, network, lane, laneErr, found, addrs, total, tried, allowed, remaining, left, dialling,
    dialCancelled, sockets, unclosed>>

Parts == {"server", "association", "forwarder", "dial"}

MCInit ==
    /\ part \in Parts
    /\ Init /\ Assoc!Init /\ Fw!Init /\ Dial!Init
    /\ \/ part = "dial"
       \/ families = {"v4"} /\ network = (CHOOSE n \in Networks : TRUE) /\ allowed = Dial!NoDeadline

MCNext ==
    \/ part = "server" /\ Next /\ UNCHANGED <<part, assocVars, fwVars, dialVars>>
    \/ part = "association" /\ Assoc!Next /\ UNCHANGED <<part, vars, fwVars, dialVars>>
    \/ part = "forwarder" /\ Fw!Next /\ UNCHANGED <<part, vars, assocVars, dialVars>>
    \/ part = "dial" /\ Dial!Next /\ UNCHANGED <<part, vars, assocVars, fwVars>>

MCSpec ==
    /\ MCInit
    /\ [][MCNext]_<<part, vars, assocVars, fwVars, dialVars>>
    /\ WF_vars(part = "server" /\ System)
    /\ WF_assocVars(part = "association" /\ Assoc!System)
    /\ WF_fwVars(part = "forwarder" /\ Fw!System)
    /\ WF_fwVars(part = "forwarder" /\ Fw!ForwardsIn)
    /\ WF_fwVars(part = "forwarder" /\ \E c \in Senders : Fw!ForwardsOut(c))
    /\ WF_dialVars(part = "dial" /\ Dial!System)

-----------------------------------------------------------------------------
(***************************************************************************)
(* A TCP connection that is over has left nothing behind, what its client  *)
(* was told is what happened, and SOCKS keeps the data that comes with the *)
(* request (mixed, socks5, socks4, http, wiresocks/proxy.go).              *)
(***************************************************************************)
ConnectionsAreClean == TypeOK /\ NothingLeftBehind /\ AnswersAreTrue /\ SocksKeepsEarlyData

(***************************************************************************)
(* A UDP association that passed packets gives back its socket, and its    *)
(* reading goroutine unless a write had failed (socks5); the forwarder's   *)
(* loops never use a socket that was closed (udpfw.go).                    *)
(***************************************************************************)
UdpIsReleased ==
    /\ Assoc!TypeOK /\ Assoc!AssociationReleased
    /\ Fw!TypeOK /\ Fw!LoopsOwnTheSockets

(***************************************************************************)
(* One address family that answers is enough for a look-up, the look-up    *)
(* takes a bounded part of the caller's time, a dial that fails in what is *)
(* left, if that is enough, has tried every address, and one that failed   *)
(* leaves no socket but a ping's and those whose deadline could not be set *)
(* (netstack/tun.go).                                                      *)
(***************************************************************************)
DialIsThorough ==
    part = "dial" =>
        /\ Dial!TypeOK /\ Dial!OneFamilyIsEnough /\ Dial!LookupIsBounded
        /\ Dial!EveryAddressIsTried /\ Dial!FailedDialLeavesNothing

(***************************************************************************)
(* A cancelled server stops, a dead relay is released, a quiet association *)
(* ends unless a short packet stopped its reader, without a handler it     *)
(* ends with its TCP connection, a cancelled forwarder closes its sockets  *)
(* as long as packets come, and a dial ends.                               *)
(***************************************************************************)
ProxyEnds ==
    /\ CancelStopsServer
    /\ DeadRelayIsReleased
    /\ Assoc!QuietAssociationEnds
    /\ Assoc!ControlEndsAssociation
    /\ Fw!CancelClosesSockets
    /\ part = "dial" => Dial!DialEnds

=============================================================================
