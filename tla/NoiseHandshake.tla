--------------------------- MODULE NoiseHandshake ---------------------------
(***************************************************************************)
(* The WireGuard handshake between two devices, each with the other as its *)
(* only peer: wireguard/device noise-protocol.go, indextable.go,           *)
(* keypair.go, and the callers of these in send.go, receive.go, timers.go. *)
(*                                                                         *)
(* Each device runs several handshake workers, a receive pipeline and the  *)
(* timers.  A handler that takes handshake.mutex twice is two steps here,  *)
(* and whatever another goroutine does in between happens in between.      *)
(* The network loses, duplicates and reorders: every message ever sent can *)
(* be received at any time, or never.                                      *)
(*                                                                         *)
(* Cryptography is symbolic.  A chain names the handshake it came from:    *)
(* the initiator, its ephemeral and the responder's, 0 until there is a    *)
(* response.  A complete chain is a session key.  The timestamp of an      *)
(* initiation grows with the ephemeral and is represented by it.           *)
(***************************************************************************)
EXTENDS Integers, Sequences, FiniteSets

CONSTANTS
    Devices,              \* the two devices
    Expiring,             \* devices that stop the peer or let its keys expire
    Workers,              \* handshake workers of a device, one per CPU
    Indices,              \* what randUint32 draws from
    ZeroIndex,            \* the number 0: "no index" in handshake.localIndex
    MaxEphemerals,        \* bound: ephemeral keys a device creates
    RejectAfterMessages,  \* messages a key may protect
    QueueInboundSize      \* capacity of a peer's inbound queue

ASSUME DeviceAssumption ==
    /\ \E d, e \in Devices : d # e /\ Devices = {d, e}
    /\ Expiring \subseteq Devices
    /\ ZeroIndex \notin Indices   \* drawing 0 itself is left out, see the README

ASSUME LimitAssumption ==
    /\ MaxEphemerals \in Nat
    /\ RejectAfterMessages \in Nat
    /\ QueueInboundSize \in Nat \ {0}

VARIABLES
    handshake,   \* device -> state, indices, chain and newest timestamp
    table,       \* device -> index -> entry of the index table
    heap,        \* device -> every keypair it derived, oldest first
    keypairs,    \* device -> positions in heap of current, previous and next
    job,         \* device -> worker -> the message in hand and what is next
    inbound,     \* device -> packets matched to a keypair, not yet opened
    zeroing,     \* device -> ZeroAndFlushAll has cleared the keypairs only
    ephemerals,  \* device -> ephemeral keys created so far
    net,         \* every message sent
    delivered    \* device -> transport messages it accepted, in order

vars == <<handshake, table, heap, keypairs, job, inbound, zeroing, ephemerals, net, delivered>>

Peer(d) == CHOOSE e \in Devices : e # d

None == 0   \* a nil keypair pointer

-----------------------------------------------------------------------------
Chain(d, first, second) == [initiator |-> d, first |-> first, second |-> second]

NoChain == Chain("none", 0, 0)

NoKeypairs == [current |-> None, previous |-> None, next |-> None]

Free == [kind |-> "free", keypair |-> None]

HandshakeEntry == [kind |-> "handshake", keypair |-> None]

KeypairEntry(k) == [kind |-> "keypair", keypair |-> k]

Idle == [stage |-> "idle", msg |-> [type |-> "none"]]

\* Handshake.Clear, and the end of BeginSymmetricSession; remoteIndex and the
\* timestamp stay.
Clear(h) == [h EXCEPT !.state = "Zeroed", !.chain = NoChain, !.localIndex = ZeroIndex]

\* IndexTable.Delete
Delete(tab, i) == [j \in Indices |-> IF j = i THEN Free ELSE tab[j]]

\* DeleteKeypair for each of a set of positions; nil is skipped.
DeleteKeypairs(d, tab, ks) ==
    [j \in Indices |->
        IF \E k \in ks \ {None} : heap[d][k].localIndex = j THEN Free ELSE tab[j]]

\* SwapIndexForKeypair: an index that is no longer in the table is left out.
SwapIndexForKeypair(tab, i, k) ==
    [j \in Indices |-> IF j = i /\ tab[j].kind # "free" THEN KeypairEntry(k) ELSE tab[j]]

Init ==
    /\ handshake = [d \in Devices |->
                      [state |-> "Zeroed", localIndex |-> ZeroIndex, remoteIndex |-> ZeroIndex,
                       chain |-> NoChain, lastTimestamp |-> 0]]
    /\ table = [d \in Devices |-> [i \in Indices |-> Free]]
    /\ heap = [d \in Devices |-> <<>>]
    /\ keypairs = [d \in Devices |-> NoKeypairs]
    /\ job = [d \in Devices |-> [w \in Workers |-> Idle]]
    /\ inbound = [d \in Devices |-> <<>>]
    /\ zeroing = [d \in Devices |-> FALSE]
    /\ ephemerals = [d \in Devices |-> 0]
    /\ net = {}
    /\ delivered = [d \in Devices |-> <<>>]

-----------------------------------------------------------------------------
\* Mutant: the index of the handshake in progress stays in the table.
CreateMessageInitiation_KeepsIndex(d, i) ==
    LET n == ephemerals[d] + 1
    IN /\ n <= MaxEphemerals
       /\ table[d][i].kind = "free"
       /\ table' = [table EXCEPT ![d][i] = HandshakeEntry]
       /\ handshake' = [handshake EXCEPT ![d] =
                          [@ EXCEPT !.state = "InitiationCreated", !.localIndex = i,
                                    !.chain = Chain(d, n, 0)]]
       /\ ephemerals' = [ephemerals EXCEPT ![d] = n]
       /\ net' = net \cup {[type |-> "initiation", from |-> d, sender |-> i, ephemeral |-> n]}
       /\ UNCHANGED <<heap, keypairs, job, inbound, zeroing, delivered>>

(***************************************************************************)
(* The initiator: a timer, or a packet without a usable key, starts a      *)
(* handshake and forgets the one in progress.  The timestamp grows with    *)
(* every initiation.                                                       *)
(***************************************************************************)
CreateMessageInitiation(d, i) ==
    LET cleared == Delete(table[d], handshake[d].localIndex)
        n == ephemerals[d] + 1
    IN /\ n <= MaxEphemerals
       /\ cleared[i].kind = "free"
       /\ table' = [table EXCEPT ![d] = [cleared EXCEPT ![i] = HandshakeEntry]]
       /\ handshake' = [handshake EXCEPT ![d] =
                          [@ EXCEPT !.state = "InitiationCreated", !.localIndex = i,
                                    !.chain = Chain(d, n, 0)]]
       /\ ephemerals' = [ephemerals EXCEPT ![d] = n]
       /\ net' = net \cup {[type |-> "initiation", from |-> d, sender |-> i, ephemeral |-> n]}
       /\ UNCHANGED <<heap, keypairs, job, inbound, zeroing, delivered>>

\* ConsumeMessageInitiation up to RUnlock: the replay test.
CheckInitiation(d, w, m) ==
    /\ job[d][w] = Idle
    /\ m.type = "initiation"
    /\ m.from = Peer(d)
    /\ m.ephemeral > handshake[d].lastTimestamp
    /\ job' = [job EXCEPT ![d][w] = [stage |-> "consume", msg |-> m]]
    /\ UNCHANGED <<handshake, table, heap, keypairs, inbound, zeroing, ephemerals, net, delivered>>

Later(t, u) == IF t > u THEN t ELSE u

\* The rest of it, under the write lock; only the timestamp is compared again.
ConsumeInitiation(d, w) ==
    LET m == job[d][w].msg
    IN /\ job[d][w].stage = "consume"
       /\ handshake' = [handshake EXCEPT ![d] =
                          [@ EXCEPT !.state = "InitiationConsumed",
                                    !.chain = Chain(m.from, m.ephemeral, 0),
                                    !.remoteIndex = m.sender,
                                    !.lastTimestamp = Later(m.ephemeral, handshake[d].lastTimestamp)]]
       /\ job' = [job EXCEPT ![d][w].stage = "respond"]
       /\ UNCHANGED <<table, heap, keypairs, inbound, zeroing, ephemerals, net, delivered>>

CreateMessageResponse(d, w, i) ==
    LET h == handshake[d]
        cleared == Delete(table[d], h.localIndex)
        n == ephemerals[d] + 1
        chain == [h.chain EXCEPT !.second = n]
    IN /\ job[d][w].stage = "respond"
       /\ h.state = "InitiationConsumed"
       /\ n <= MaxEphemerals
       /\ cleared[i].kind = "free"
       /\ table' = [table EXCEPT ![d] = [cleared EXCEPT ![i] = HandshakeEntry]]
       /\ handshake' = [handshake EXCEPT ![d] =
                          [@ EXCEPT !.state = "ResponseCreated", !.localIndex = i,
                                    !.chain = chain]]
       /\ ephemerals' = [ephemerals EXCEPT ![d] = n]
       /\ job' = [job EXCEPT ![d][w] =
                    [stage |-> "begin",
                     msg |-> [type |-> "response", from |-> d, sender |-> i,
                              receiver |-> h.remoteIndex, key |-> chain]]]
       /\ UNCHANGED <<heap, keypairs, inbound, zeroing, net, delivered>>

\* Another goroutine has moved the handshake on: "initiation must be consumed first".
ResponseRefused(d, w) ==
    /\ job[d][w].stage = "respond"
    /\ handshake[d].state # "InitiationConsumed"
    /\ job' = [job EXCEPT ![d][w] = Idle]
    /\ UNCHANGED <<handshake, table, heap, keypairs, inbound, zeroing, ephemerals, net, delivered>>

\* Mutant: the result of aead.Open on the transcript is ignored.
CheckResponse_NotAuthenticated(d, w, m) ==
    /\ job[d][w] = Idle
    /\ m.type = "response"
    /\ m.from = Peer(d)
    /\ m.receiver \in Indices
    /\ table[d][m.receiver].kind = "handshake"
    /\ handshake[d].state = "InitiationCreated"
    /\ job' = [job EXCEPT ![d][w] = [stage |-> "finish", msg |-> m]]
    /\ UNCHANGED <<handshake, table, heap, keypairs, inbound, zeroing, ephemerals, net, delivered>>

\* ConsumeMessageResponse up to RUnlock: the response belongs to the
\* initiation in progress.
CheckResponse(d, w, m) ==
    /\ job[d][w] = Idle
    /\ m.type = "response"
    /\ m.from = Peer(d)
    /\ m.receiver \in Indices
    /\ table[d][m.receiver].kind = "handshake"
    /\ handshake[d].state = "InitiationCreated"
    /\ handshake[d].chain = [m.key EXCEPT !.second = 0]
    /\ job' = [job EXCEPT ![d][w] = [stage |-> "finish", msg |-> m]]
    /\ UNCHANGED <<handshake, table, heap, keypairs, inbound, zeroing, ephemerals, net, delivered>>

\* The rest of it, under the write lock; the state is not tested again.
ConsumeResponse(d, w) ==
    LET m == job[d][w].msg
    IN /\ job[d][w].stage = "finish"
       /\ handshake' = [handshake EXCEPT ![d] =
                          [@ EXCEPT !.state = "ResponseConsumed", !.chain = m.key,
                                    !.remoteIndex = m.sender]]
       /\ job' = [job EXCEPT ![d][w].stage = "begin"]
       /\ UNCHANGED <<table, heap, keypairs, inbound, zeroing, ephemerals, net, delivered>>

-----------------------------------------------------------------------------
(***************************************************************************)
(* BeginSymmetricSession derives a keypair and rotates the slots: an       *)
(* initiator uses it at once, a responder keeps it as next until the first *)
(* packet under it arrives.                                                *)
(***************************************************************************)
\* Mutant: the last else returns no error.
Derivable_Always(d) == TRUE

Derivable(d) == handshake[d].state \in {"ResponseConsumed", "ResponseCreated"}

\* Mutant: a responder uses the new keypair at once.
Rotated_Unconfirmed(slots, k, isInitiator) ==
    [current |-> k, previous |-> slots.current, next |-> None]

Rotated(slots, k, isInitiator) ==
    IF isInitiator
    THEN [current  |-> k,
          previous |-> IF slots.next # None THEN slots.next ELSE slots.current,
          next     |-> None]
    ELSE [current |-> slots.current, previous |-> None, next |-> k]

Dropped(slots, isInitiator) ==
    IF isInitiator
    THEN {slots.previous} \cup (IF slots.next # None THEN {slots.current} ELSE {})
    ELSE {slots.next, slots.previous}

BeginSymmetricSession(d) ==
    LET h == handshake[d]
        isInitiator == h.state = "ResponseConsumed"
        k == Len(heap[d]) + 1
        swapped == SwapIndexForKeypair(table[d], h.localIndex, k)
    IN /\ heap' = [heap EXCEPT ![d] = Append(@,
                      [key |-> h.chain, isInitiator |-> isInitiator,
                       localIndex |-> h.localIndex, remoteIndex |-> h.remoteIndex,
                       sendNonce |-> 0, seen |-> {}])]
       /\ keypairs' = [keypairs EXCEPT ![d] = Rotated(@, k, isInitiator)]
       /\ table' = [table EXCEPT ![d] =
                       DeleteKeypairs(d, swapped, Dropped(keypairs[d], isInitiator))]
       /\ handshake' = [handshake EXCEPT ![d] = Clear(@)]

\* The end of both message handlers; a responder then sends its response.
BeginSession(d, w) ==
    LET m == job[d][w].msg
    IN /\ job[d][w].stage = "begin"
       /\ Derivable(d)
       /\ BeginSymmetricSession(d)
       /\ net' = IF m.from = d THEN net \cup {m} ELSE net
       /\ job' = [job EXCEPT ![d][w] = Idle]
       /\ UNCHANGED <<inbound, zeroing, ephemerals, delivered>>

\* "invalid state for keypair derivation"
SessionRefused(d, w) ==
    /\ job[d][w].stage = "begin"
    /\ ~Derivable(d)
    /\ job' = [job EXCEPT ![d][w] = Idle]
    /\ UNCHANGED <<handshake, table, heap, keypairs, inbound, zeroing, ephemerals, net, delivered>>

-----------------------------------------------------------------------------
\* Mutant: off by one at RejectAfterMessages.
SendTransport_OneMore(d) ==
    LET k == keypairs[d].current
        kp == heap[d][k]
    IN /\ k # None
       /\ kp.sendNonce <= RejectAfterMessages
       /\ net' = net \cup {[type |-> "transport", from |-> d, receiver |-> kp.remoteIndex,
                            key |-> kp.key, nonce |-> kp.sendNonce]}
       /\ heap' = [heap EXCEPT ![d][k].sendNonce = @ + 1]
       /\ UNCHANGED <<handshake, table, keypairs, job, inbound, zeroing, ephemerals, delivered>>

\* SendStagedPackets takes the next nonce of the current keypair.  One that read
\* the slot before a rotation counts as sending just before it: nothing but the
\* sender reads a nonce counter.
SendTransport(d) ==
    LET k == keypairs[d].current
        kp == heap[d][k]
    IN /\ k # None
       /\ kp.sendNonce < RejectAfterMessages
       /\ net' = net \cup {[type |-> "transport", from |-> d, receiver |-> kp.remoteIndex,
                            key |-> kp.key, nonce |-> kp.sendNonce]}
       /\ heap' = [heap EXCEPT ![d][k].sendNonce = @ + 1]
       /\ UNCHANGED <<handshake, table, keypairs, job, inbound, zeroing, ephemerals, delivered>>

\* RoutineReceiveIncoming looks the keypair up and queues the packet.
ReceiveTransport(d, m) ==
    /\ m.type = "transport"
    /\ m.from = Peer(d)
    /\ m.receiver \in Indices
    /\ table[d][m.receiver].kind = "keypair"
    /\ Len(inbound[d]) < QueueInboundSize
    /\ inbound' = [inbound EXCEPT ![d] =
                      Append(@, [keypair |-> table[d][m.receiver].keypair, msg |-> m])]
    /\ UNCHANGED <<handshake, table, heap, keypairs, job, zeroing, ephemerals, net, delivered>>

\* Mutant: the replay filter is not asked.
Acceptable_NoFilter(kp, m) == kp.key = m.key

\* It opens under the key, and ValidateCounter has not seen the counter.
Acceptable(kp, m) == kp.key = m.key /\ m.nonce \notin kp.seen

\* RoutineSequentialReceiver opens it, tests the replay filter, and takes a
\* packet under next as the key confirmation (ReceivedWithKeypair).
SequentialReceive(d) ==
    LET k == Head(inbound[d]).keypair
        m == Head(inbound[d]).msg
        slots == keypairs[d]
        valid == Acceptable(heap[d][k], m)
    IN /\ inbound[d] # <<>>
       /\ inbound' = [inbound EXCEPT ![d] = Tail(@)]
       /\ heap' = IF valid THEN [heap EXCEPT ![d][k].seen = @ \cup {m.nonce}] ELSE heap
       /\ delivered' = IF valid THEN [delivered EXCEPT ![d] = Append(@, m)] ELSE delivered
       /\ IF valid /\ slots.next = k
          THEN /\ keypairs' = [keypairs EXCEPT ![d] =
                                 [current |-> k, previous |-> slots.current, next |-> None]]
               /\ table' = [table EXCEPT ![d] = DeleteKeypairs(d, @, {slots.previous})]
          ELSE UNCHANGED <<keypairs, table>>
       /\ UNCHANGED <<handshake, job, zeroing, ephemerals, net>>

\* ZeroAndFlushAll, when the key timer expires or the peer stops: first the
\* keypairs under their lock, then the handshake under its own.
ZeroKeypairs(d) ==
    /\ ~zeroing[d]
    /\ d \in Expiring
    /\ table' = [table EXCEPT ![d] =
                    DeleteKeypairs(d, @, {keypairs[d].current, keypairs[d].previous,
                                          keypairs[d].next})]
    /\ keypairs' = [keypairs EXCEPT ![d] = NoKeypairs]
    /\ zeroing' = [zeroing EXCEPT ![d] = TRUE]
    /\ UNCHANGED <<handshake, heap, job, inbound, ephemerals, net, delivered>>

ZeroHandshake(d) ==
    /\ zeroing[d]
    /\ table' = [table EXCEPT ![d] = Delete(@, handshake[d].localIndex)]
    /\ handshake' = [handshake EXCEPT ![d] = Clear(@)]
    /\ zeroing' = [zeroing EXCEPT ![d] = FALSE]
    /\ UNCHANGED <<heap, keypairs, job, inbound, ephemerals, net, delivered>>

-----------------------------------------------------------------------------
Worker(d, w) ==
    \/ \E m \in net : CheckInitiation(d, w, m)
    \/ ConsumeInitiation(d, w)
    \/ \E i \in Indices : CreateMessageResponse(d, w, i)
    \/ ResponseRefused(d, w)
    \/ \E m \in net : CheckResponse(d, w, m)
    \/ ConsumeResponse(d, w)
    \/ BeginSession(d, w)
    \/ SessionRefused(d, w)

Next ==
    \E d \in Devices :
        \/ \E i \in Indices : CreateMessageInitiation(d, i)
        \/ \E w \in Workers : Worker(d, w)
        \/ SendTransport(d)
        \/ \E m \in net : ReceiveTransport(d, m)
        \/ SequentialReceive(d)
        \/ ZeroKeypairs(d)
        \/ ZeroHandshake(d)

Spec == Init /\ [][Next]_vars

-----------------------------------------------------------------------------
Slots(d) == {keypairs[d].current, keypairs[d].previous, keypairs[d].next} \ {None}

Ephemerals == 1..MaxEphemerals

Nonces == {n \in Nat : n < RejectAfterMessages}

MaybeIndex == Indices \cup {ZeroIndex}

Keys == [initiator : Devices, first : Ephemerals, second : Ephemerals]

Initiations ==
    [type : {"initiation"}, from : Devices, sender : Indices, ephemeral : Ephemerals]

Responses ==
    [type : {"response"}, from : Devices, sender : Indices, receiver : MaybeIndex, key : Keys]

Transports ==
    [type : {"transport"}, from : Devices, receiver : MaybeIndex, key : Keys, nonce : Nonces]

Messages == Initiations \cup Responses \cup Transports

Chains == [initiator : Devices \cup {"none"}, first : Nat, second : Nat]

HandshakeStates ==
    {"Zeroed", "InitiationCreated", "InitiationConsumed", "ResponseCreated", "ResponseConsumed"}

Handshakes ==
    [state : HandshakeStates, localIndex : MaybeIndex, remoteIndex : MaybeIndex,
     chain : Chains, lastTimestamp : Nat]

Entries == [kind : {"free", "handshake", "keypair"}, keypair : Nat]

Keypairs ==
    [key : Keys, isInitiator : BOOLEAN, localIndex : MaybeIndex, remoteIndex : MaybeIndex,
     sendNonce : 0..RejectAfterMessages, seen : SUBSET Nonces]

Jobs ==
    {Idle} \cup [stage : {"consume", "respond"}, msg : Initiations]
           \cup [stage : {"finish", "begin"}, msg : Responses]

\* How far the chain has got is what the state says.
ChainOK(h) ==
    /\ h.state \in {"InitiationCreated", "InitiationConsumed"} =>
          h.chain \in [initiator : Devices, first : Ephemerals, second : {0}]
    /\ h.state \in {"ResponseCreated", "ResponseConsumed"} => h.chain \in Keys

HandshakeTypes ==
    /\ handshake \in [Devices -> Handshakes]
    /\ \A d \in Devices : ChainOK(handshake[d])

WorkTypes ==
    /\ job \in [Devices -> [Workers -> Jobs]]
    /\ zeroing \in [Devices -> BOOLEAN]
    /\ ephemerals \in [Devices -> 0..MaxEphemerals]

KeypairTypes ==
    /\ table \in [Devices -> [Indices -> Entries]]
    /\ heap \in [Devices -> Seq(Keypairs)]
    /\ keypairs \in [Devices -> [current : Nat, previous : Nat, next : Nat]]
    /\ inbound \in [Devices -> Seq([keypair : Nat, msg : Transports])]
    /\ \A d \in Devices :
          /\ Slots(d) \subseteq 1..Len(heap[d])
          /\ \A i \in Indices :
                table[d][i].kind = "keypair" => table[d][i].keypair \in 1..Len(heap[d])
          /\ \A n \in 1..Len(inbound[d]) : inbound[d][n].keypair \in 1..Len(heap[d])

NetTypes ==
    /\ net \subseteq Messages
    /\ delivered \in [Devices -> Seq(Transports)]

\* Shapes of the state; every index table entry, slot and queued packet refers to a
\* keypair that was derived, and no nonce reaches past RejectAfterMessages.
TypeOK == HandshakeTypes /\ WorkTypes /\ KeypairTypes /\ NetTypes

\* The index table and what owns its entries agree, however the workers, the
\* timers and the receive path interleave: a keypair in use that has an index is
\* found under it, and an entry belongs to a keypair in use or to the handshake
\* in progress.  Nothing is shadowed and nothing leaks.
IndexTableConsistent ==
    \A d \in Devices :
        /\ \A k \in Slots(d) :
              heap[d][k].localIndex # ZeroIndex =>
                  table[d][heap[d][k].localIndex] = KeypairEntry(k)
        /\ \A i \in Indices :
              /\ table[d][i].kind = "keypair" => table[d][i].keypair \in Slots(d)
              /\ table[d][i].kind = "handshake" => handshake[d].localIndex = i

\* The two ends of a session take opposite directions of its key: a device is the
\* initiator of a keypair exactly when the handshake was its own, although
\* BeginSymmetricSession looks only at a state that others may have changed.
DirectionsDiffer ==
    \A d \in Devices : \A k \in 1..Len(heap[d]) :
        heap[d][k].isInitiator <=> heap[d][k].key.initiator = d

\* A device sends only under a key the other end has derived too, whatever the
\* network repeats or reorders: an initiator after the response, a responder
\* after the first packet under the new key.
KeyConfirmed ==
    \A d \in Devices :
        keypairs[d].current # None =>
            \E k \in 1..Len(heap[Peer(d)]) :
                heap[Peer(d)][k].key = heap[d][keypairs[d].current].key

\* A session key protects one keypair: it is never derived a second time, with
\* the nonce counter and the replay filter starting over.
KeyDerivedOnce ==
    \A d \in Devices : \A j, k \in 1..Len(heap[d]) :
        heap[d][j].key = heap[d][k].key => j = k

\* A transport message is accepted at most once, however often the network
\* delivers it and whichever keypairs come and go in between.
DeliveredOnce ==
    \A d \in Devices : \A j, k \in 1..Len(delivered[d]) :
        delivered[d][j] = delivered[d][k] => j = k

=============================================================================
