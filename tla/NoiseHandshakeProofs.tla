------------------------ MODULE NoiseHandshakeProofs ------------------------
(***************************************************************************)
(* Proofs about the handshake, for any set of indices and any number of    *)
(* ephemerals and messages.                                                *)
(*                                                                         *)
(* For any number of handshake workers: TypeOK is inductive as it stands,  *)
(* since how far a chain has got goes with the state.  DirectionsDiffer    *)
(* needs to know whose handshake a chain belongs to in every state, and in *)
(* the hands of a worker that has checked a response (OwnChain).           *)
(* IndexTableConsistent needs that the handshake in progress owns its      *)
(* entry and that the three slots hold different keypairs (TableOwned).    *)
(*                                                                         *)
(* For one handshake worker: KeyDerivedOnce needs that the ephemeral of    *)
(* whatever is in hand has made no key yet (FreshKeys), DeliveredOnce that *)
(* a delivered packet is marked in the filter of its only key              *)
(* (DeliveredMarked), and KeyConfirmed that every message and everything   *)
(* made from one is under a key its sender has derived (Confirmed).        *)
(***************************************************************************)
EXTENDS NoiseHandshake, SequenceTheorems, TLAPS

\* Whose handshake the chain of a device and the job of a worker belong to.
OwnChain(d) ==
    /\ handshake[d].state \in {"InitiationCreated", "ResponseConsumed"}
          => handshake[d].chain.initiator = d
    /\ handshake[d].state \in {"InitiationConsumed", "ResponseCreated"}
          => handshake[d].chain.initiator = Peer(d)
    /\ \A w \in Workers :
          /\ job[d][w].stage = "consume" => job[d][w].msg.from = Peer(d)
          /\ job[d][w].stage = "finish" => job[d][w].msg.key.initiator = d

DirectionInv == DirectionsDiffer /\ \A d \in Devices : OwnChain(d)

\* The handshake in progress owns its entry, no keypair is in two slots, and
\* the keypair of an entry has the entry's index.
TableOwned(d) ==
    /\ handshake[d].localIndex # ZeroIndex
          => table[d][handshake[d].localIndex].kind = "handshake"
    /\ keypairs[d].current # None
          => keypairs[d].current \notin {keypairs[d].previous, keypairs[d].next}
    /\ keypairs[d].previous # None => keypairs[d].previous # keypairs[d].next
    /\ \A i \in Indices :
          table[d][i].kind = "keypair" => heap[d][table[d][i].keypair].localIndex = i

TableInv == IndexTableConsistent /\ \A d \in Devices : TableOwned(d)

\* Each of the two devices has the other as its peer.
LEMMA PeerIsTheOther ==
    \A d \in Devices : Peer(d) \in Devices /\ Peer(d) # d
<1> SUFFICES ASSUME NEW d \in Devices PROVE Peer(d) \in Devices /\ Peer(d) # d
  OBVIOUS
<1>1. \E e \in Devices : e # d
  BY DeviceAssumption
<1> QED
  BY <1>1 DEF Peer

-----------------------------------------------------------------------------
\* A step that leaves a group of variables alone keeps the group's types.
LEMMA UnchangedTypes ==
    ASSUME TypeOK
    PROVE  /\ UNCHANGED handshake => HandshakeTypes'
           /\ UNCHANGED <<job, zeroing, ephemerals>> => WorkTypes'
           /\ UNCHANGED <<table, heap, keypairs, inbound>> => KeypairTypes'
           /\ UNCHANGED <<net, delivered>> => NetTypes'
  BY DEF TypeOK, HandshakeTypes, ChainOK, WorkTypes, KeypairTypes, Slots, NetTypes

\* Clearing entries and writing a handshake's entry keep the table well formed
\* and refer to no keypair that was not referred to before.
LEMMA DeleteType ==
    ASSUME NEW tab \in [Indices -> Entries], NEW i
    PROVE  /\ Delete(tab, i) \in [Indices -> Entries]
           /\ \A j \in Indices : Delete(tab, i)[j].kind # "free" => Delete(tab, i)[j] = tab[j]
  BY DEF Delete, Entries, Free, None

\* Deleting dropped keypairs only frees entries.
LEMMA DeleteKeypairsType ==
    ASSUME NEW d, NEW tab \in [Indices -> Entries], NEW ks
    PROVE  /\ DeleteKeypairs(d, tab, ks) \in [Indices -> Entries]
           /\ \A j \in Indices : DeleteKeypairs(d, tab, ks)[j].kind # "free"
                 => DeleteKeypairs(d, tab, ks)[j] = tab[j]
  BY DEF DeleteKeypairs, Entries, Free, None

\* Swapping an index to a keypair of the heap refers to that keypair.
LEMMA SwapType ==
    ASSUME NEW tab \in [Indices -> Entries], NEW i, NEW k \in Nat
    PROVE  /\ SwapIndexForKeypair(tab, i, k) \in [Indices -> Entries]
           /\ \A j \in Indices :
                 \/ SwapIndexForKeypair(tab, i, k)[j] = tab[j]
                 \/ SwapIndexForKeypair(tab, i, k)[j] = KeypairEntry(k)
  BY DEF SwapIndexForKeypair, Entries, KeypairEntry

\* Devices start with nothing: no handshake, no keypair, no message.
LEMMA InitTypeOK == Init => TypeOK
<1> SUFFICES ASSUME Init PROVE TypeOK
  OBVIOUS
<1>1. HandshakeTypes
  BY DEF Init, HandshakeTypes, Handshakes, HandshakeStates, ChainOK, MaybeIndex, NoChain, Chain,
      Chains
<1>2. WorkTypes
  BY LimitAssumption DEF Init, WorkTypes, Jobs
<1>3. KeypairTypes
  BY DEF Init, KeypairTypes, Slots, Entries, Free, NoKeypairs, None
<1>4. NetTypes
  BY DEF Init, NetTypes
<1> QED
  BY <1>1, <1>2, <1>3, <1>4 DEF TypeOK

\* A chain without a response, and a key, are chains.
LEMMA ChainType ==
    /\ \A d \in Devices, n \in Ephemerals : Chain(d, n, 0) \in Chains
    /\ Keys \subseteq Chains
    /\ NoChain \in Chains
  BY DEF Chain, NoChain, Chains, Keys, Ephemerals

\* Replacing the handshake of one device.
LEMMA HandshakeStored ==
    ASSUME HandshakeTypes, NEW d \in Devices, NEW h \in Handshakes, ChainOK(h),
           handshake' = [handshake EXCEPT ![d] = h]
    PROVE  HandshakeTypes'
  BY DEF HandshakeTypes, ChainOK

-----------------------------------------------------------------------------
\* Starting or restarting a handshake keeps the types.
LEMMA InitiationTypes ==
    ASSUME TypeOK, NEW d \in Devices, NEW i \in Indices, CreateMessageInitiation(d, i)
    PROVE  TypeOK'
<1> DEFINE cleared == Delete(table[d], handshake[d].localIndex)
           n == ephemerals[d] + 1
<1>1. n \in Ephemerals
  BY LimitAssumption DEF TypeOK, WorkTypes, CreateMessageInitiation, Ephemerals
<1>2. HandshakeTypes'
  <2> DEFINE h == [handshake[d] EXCEPT !.state = "InitiationCreated", !.localIndex = i,
                                       !.chain = Chain(d, n, 0)]
  <2>1. h \in Handshakes
    BY <1>1, ChainType DEF TypeOK, HandshakeTypes, Handshakes, HandshakeStates, MaybeIndex
  <2>2. ChainOK(h)
    BY <1>1, <2>1 DEF TypeOK, HandshakeTypes, Handshakes, ChainOK, Chain
  <2>3. handshake' = [handshake EXCEPT ![d] = h]
    BY DEF CreateMessageInitiation, TypeOK, HandshakeTypes
  <2> QED
    BY <2>1, <2>2, <2>3, HandshakeStored DEF TypeOK
<1>3. WorkTypes'
  BY <1>1 DEF TypeOK, WorkTypes, CreateMessageInitiation, Ephemerals
<1>4. KeypairTypes'
  <2>1. /\ cleared \in [Indices -> Entries]
        /\ \A j \in Indices : cleared[j].kind # "free" => cleared[j] = table[d][j]
    BY DeleteType DEF TypeOK, KeypairTypes
  <2> QED
    BY <2>1 DEF TypeOK, KeypairTypes, CreateMessageInitiation, Slots, HandshakeEntry, Entries, None
<1>5. NetTypes'
  BY <1>1 DEF TypeOK, NetTypes, CreateMessageInitiation, Messages, Initiations
<1> QED
  BY <1>2, <1>3, <1>4, <1>5 DEF TypeOK

\* So does a response.
LEMMA ResponseTypes ==
    ASSUME TypeOK, NEW d \in Devices, NEW w \in Workers, NEW i \in Indices,
           CreateMessageResponse(d, w, i)
    PROVE  TypeOK'
<1> DEFINE cleared == Delete(table[d], handshake[d].localIndex)
           n == ephemerals[d] + 1
           chain == [handshake[d].chain EXCEPT !.second = n]
<1>1. n \in Ephemerals
  BY LimitAssumption DEF TypeOK, WorkTypes, CreateMessageResponse, Ephemerals
<1>2. chain \in Keys
  BY <1>1 DEF TypeOK, HandshakeTypes, ChainOK, CreateMessageResponse, Keys
<1>3. HandshakeTypes'
  <2> DEFINE h == [handshake[d] EXCEPT !.state = "ResponseCreated", !.localIndex = i,
                                       !.chain = chain]
  <2> HIDE DEF chain
  <2>1. h \in Handshakes
    BY <1>2, ChainType DEF TypeOK, HandshakeTypes, Handshakes, HandshakeStates, MaybeIndex
  <2>2. ChainOK(h)
    BY <1>2, <2>1 DEF TypeOK, HandshakeTypes, Handshakes, ChainOK
  <2>3. handshake' = [handshake EXCEPT ![d] = h]
    BY DEF CreateMessageResponse, TypeOK, HandshakeTypes, chain
  <2> QED
    BY <2>1, <2>2, <2>3, HandshakeStored DEF TypeOK
<1>4. WorkTypes'
  <2>1. [type |-> "response", from |-> d, sender |-> i,
         receiver |-> handshake[d].remoteIndex, key |-> chain] \in Responses
    BY <1>2 DEF TypeOK, HandshakeTypes, Handshakes, Responses
  <2> QED
    BY <1>1, <2>1 DEF TypeOK, WorkTypes, CreateMessageResponse, Ephemerals, Jobs
<1>5. KeypairTypes'
  <2>1. /\ cleared \in [Indices -> Entries]
        /\ \A j \in Indices : cleared[j].kind # "free" => cleared[j] = table[d][j]
    BY DeleteType DEF TypeOK, KeypairTypes
  <2> QED
    BY <2>1 DEF TypeOK, KeypairTypes, CreateMessageResponse, Slots, HandshakeEntry, Entries, None
<1>6. NetTypes'
  BY DEF TypeOK, NetTypes, CreateMessageResponse
<1> QED
  BY <1>3, <1>4, <1>5, <1>6 DEF TypeOK

\* The steps of a worker that only move its job or the handshake on.
LEMMA WorkerTypes ==
    ASSUME TypeOK, NEW d \in Devices, NEW w \in Workers,
           \/ \E m \in net : CheckInitiation(d, w, m)
           \/ ConsumeInitiation(d, w)
           \/ ResponseRefused(d, w)
           \/ \E m \in net : CheckResponse(d, w, m)
           \/ ConsumeResponse(d, w)
           \/ SessionRefused(d, w)
    PROVE  TypeOK'
<1>1. ASSUME NEW m \in net, CheckInitiation(d, w, m) PROVE TypeOK'
  <2>1. m \in Initiations
    BY <1>1 DEF TypeOK, NetTypes, Messages, CheckInitiation, Responses, Transports
  <2>2. WorkTypes'
    BY <1>1, <2>1 DEF TypeOK, WorkTypes, CheckInitiation, Jobs
  <2> QED
    BY <1>1, <2>2, UnchangedTypes DEF CheckInitiation, TypeOK
<1>2. CASE ConsumeInitiation(d, w)
  <2>1. job[d][w] \in [stage : {"consume", "respond"}, msg : Initiations]
    BY <1>2 DEF TypeOK, WorkTypes, ConsumeInitiation, Jobs, Idle
  <2>2. HandshakeTypes'
    <3> DEFINE m == job[d][w].msg
               t == Later(m.ephemeral, handshake[d].lastTimestamp)
               h == [handshake[d] EXCEPT
                       !.state = "InitiationConsumed", !.chain = Chain(m.from, m.ephemeral, 0),
                       !.remoteIndex = m.sender, !.lastTimestamp = t]
    <3>1. m.from \in Devices /\ m.ephemeral \in Ephemerals /\ m.sender \in Indices
      BY <2>1 DEF Initiations
    <3>2. t \in Nat
      BY <3>1 DEF TypeOK, HandshakeTypes, Handshakes, Later, Ephemerals
    <3>3. h \in Handshakes
      <4> HIDE DEF t
      <4> QED
        BY <3>1, <3>2, ChainType DEF TypeOK, HandshakeTypes, Handshakes, HandshakeStates, MaybeIndex
    <3>4. ChainOK(h)
      BY <3>1, <3>3 DEF TypeOK, HandshakeTypes, Handshakes, ChainOK, Chain
    <3>5. handshake' = [handshake EXCEPT ![d] = h]
      BY <1>2 DEF ConsumeInitiation, TypeOK, HandshakeTypes
    <3> QED
      BY <3>3, <3>4, <3>5, HandshakeStored DEF TypeOK
  <2>3. WorkTypes'
    BY <1>2, <2>1 DEF TypeOK, WorkTypes, ConsumeInitiation, Jobs
  <2> QED
    BY <1>2, <2>2, <2>3, UnchangedTypes DEF ConsumeInitiation, TypeOK
<1>3. CASE ResponseRefused(d, w)
  <2>1. WorkTypes'
    BY <1>3 DEF TypeOK, WorkTypes, ResponseRefused, Jobs
  <2> QED
    BY <1>3, <2>1, UnchangedTypes DEF ResponseRefused, TypeOK
<1>4. ASSUME NEW m \in net, CheckResponse(d, w, m) PROVE TypeOK'
  <2>1. m \in Responses
    BY <1>4 DEF TypeOK, NetTypes, Messages, CheckResponse, Initiations, Transports
  <2>2. WorkTypes'
    BY <1>4, <2>1 DEF TypeOK, WorkTypes, CheckResponse, Jobs
  <2> QED
    BY <1>4, <2>2, UnchangedTypes DEF CheckResponse, TypeOK
<1>5. CASE ConsumeResponse(d, w)
  <2>1. job[d][w] \in [stage : {"finish", "begin"}, msg : Responses]
    BY <1>5 DEF TypeOK, WorkTypes, ConsumeResponse, Jobs, Idle
  <2>2. HandshakeTypes'
    <3> DEFINE m == job[d][w].msg
               h == [handshake[d] EXCEPT !.state = "ResponseConsumed", !.chain = m.key,
                                         !.remoteIndex = m.sender]
    <3>1. m.key \in Keys /\ m.sender \in Indices
      BY <2>1 DEF Responses
    <3>2. h \in Handshakes
      BY <3>1, ChainType DEF TypeOK, HandshakeTypes, Handshakes, HandshakeStates, MaybeIndex
    <3>3. ChainOK(h)
      BY <3>1, <3>2 DEF TypeOK, HandshakeTypes, Handshakes, ChainOK
    <3>4. handshake' = [handshake EXCEPT ![d] = h]
      BY <1>5 DEF ConsumeResponse, TypeOK, HandshakeTypes
    <3> QED
      BY <3>2, <3>3, <3>4, HandshakeStored DEF TypeOK
  <2>3. WorkTypes'
    BY <1>5, <2>1 DEF TypeOK, WorkTypes, ConsumeResponse, Jobs
  <2> QED
    BY <1>5, <2>2, <2>3, UnchangedTypes DEF ConsumeResponse, TypeOK
<1>6. CASE SessionRefused(d, w)
  <2>1. WorkTypes'
    BY <1>6 DEF TypeOK, WorkTypes, SessionRefused, Jobs
  <2> QED
    BY <1>6, <2>1, UnchangedTypes DEF SessionRefused, TypeOK
<1> QED
  BY <1>1, <1>2, <1>3, <1>4, <1>5, <1>6

\* Appending a keypair, and changing one without touching its length.
LEMMA HeapAppended ==
    ASSUME NEW q \in Seq(Keypairs), NEW kp \in Keypairs
    PROVE  /\ Append(q, kp) \in Seq(Keypairs)
           /\ Len(Append(q, kp)) = Len(q) + 1
           /\ \A j \in 1..Len(q) : Append(q, kp)[j] = q[j]
           /\ Append(q, kp)[Len(q) + 1] = kp
  BY AppendProperties

\* Clearing the handshake of a device.
LEMMA ClearTypes ==
    ASSUME HandshakeTypes, NEW d \in Devices,
           handshake' = [handshake EXCEPT ![d] = Clear(handshake[d])]
    PROVE  HandshakeTypes'
<1> DEFINE h == Clear(handshake[d])
<1>1. h \in Handshakes
  BY ChainType DEF HandshakeTypes, Handshakes, HandshakeStates, Clear, MaybeIndex
<1>2. ChainOK(h)
  BY <1>1 DEF HandshakeTypes, Handshakes, Clear, ChainOK
<1> QED
  BY <1>1, <1>2, HandshakeStored

\* Deriving a keypair appends it and refers to nothing else that is new.
LEMMA SessionTypes ==
    ASSUME TypeOK, NEW d \in Devices, NEW w \in Workers, BeginSession(d, w)
    PROVE  TypeOK'
<1> DEFINE h == handshake[d]
           isInitiator == h.state = "ResponseConsumed"
           k == Len(heap[d]) + 1
           kp == [key |-> h.chain, isInitiator |-> isInitiator, localIndex |-> h.localIndex,
                  remoteIndex |-> h.remoteIndex, sendNonce |-> 0, seen |-> {}]
           swapped == SwapIndexForKeypair(table[d], h.localIndex, k)
           dropped == Dropped(keypairs[d], isInitiator)
           slots == Rotated(keypairs[d], k, isInitiator)
<1>1. kp \in Keypairs
  BY LimitAssumption DEF TypeOK, HandshakeTypes, Handshakes, ChainOK, BeginSession, Derivable, Keypairs
<1>2. /\ heap' = [heap EXCEPT ![d] = Append(heap[d], kp)]
      /\ keypairs' = [keypairs EXCEPT ![d] = slots]
      /\ table' = [table EXCEPT ![d] = DeleteKeypairs(d, swapped, dropped)]
      /\ handshake' = [handshake EXCEPT ![d] = Clear(handshake[d])]
      /\ inbound' = inbound
  BY DEF BeginSession, BeginSymmetricSession
<1>3. heap[d] \in Seq(Keypairs) /\ Len(heap[d]) \in Nat
  BY LenProperties DEF TypeOK, KeypairTypes
<1> HIDE DEF kp
<1>4. /\ heap' \in [Devices -> Seq(Keypairs)]
      /\ Len(heap'[d]) = Len(heap[d]) + 1
      /\ \A e \in Devices : e # d => heap'[e] = heap[e]
  BY <1>1, <1>2, <1>3, HeapAppended DEF TypeOK, KeypairTypes
<1>5. KeypairTypes'
  <2>1. /\ DeleteKeypairs(d, swapped, dropped) \in [Indices -> Entries]
        /\ \A j \in Indices : DeleteKeypairs(d, swapped, dropped)[j].kind = "keypair"
              => \/ DeleteKeypairs(d, swapped, dropped)[j] = table[d][j]
                 \/ DeleteKeypairs(d, swapped, dropped)[j] = KeypairEntry(k)
    <3>1. /\ swapped \in [Indices -> Entries]
          /\ \A j \in Indices : swapped[j] = table[d][j] \/ swapped[j] = KeypairEntry(k)
      <4>1. table[d] \in [Indices -> Entries] /\ k \in Nat
        BY <1>3 DEF TypeOK, KeypairTypes
      <4> HIDE DEF k, h
      <4> QED
        BY <4>1, SwapType
    <3> HIDE DEF swapped, dropped
    <3> QED
      BY <3>1, DeleteKeypairsType
  <2> HIDE DEF swapped, dropped
  <2>2. table' \in [Devices -> [Indices -> Entries]]
    BY <1>2, <2>1 DEF TypeOK, KeypairTypes
  <2>3. /\ slots \in [current : Nat, previous : Nat, next : Nat]
        /\ {slots.current, slots.previous, slots.next} \ {None} \subseteq 1..k
    BY <1>3 DEF TypeOK, KeypairTypes, Rotated, Slots, None
  <2> HIDE DEF slots
  <2>4. keypairs' \in [Devices -> [current : Nat, previous : Nat, next : Nat]]
    BY <1>2, <2>3 DEF TypeOK, KeypairTypes
  <2>5. ASSUME NEW e \in Devices
        PROVE  /\ Slots(e)' \subseteq 1..Len(heap'[e])
               /\ \A i \in Indices :
                     table'[e][i].kind = "keypair" => table'[e][i].keypair \in 1..Len(heap'[e])
               /\ \A n \in 1..Len(inbound'[e]) : inbound'[e][n].keypair \in 1..Len(heap'[e])
    <3>1. CASE e = d
      <4>1. Slots(e)' \subseteq 1..Len(heap'[e])
        BY <3>1, <1>2, <1>4, <2>3 DEF Slots, TypeOK, KeypairTypes
      <4>2. \A i \in Indices :
               table'[e][i].kind = "keypair" => table'[e][i].keypair \in 1..Len(heap'[e])
        BY <3>1, <1>2, <1>3, <1>4, <2>1 DEF TypeOK, KeypairTypes, KeypairEntry
      <4>3. \A n \in 1..Len(inbound'[e]) : inbound'[e][n].keypair \in 1..Len(heap'[e])
        BY <3>1, <1>2, <1>3, <1>4 DEF TypeOK, KeypairTypes
      <4> QED
        BY <4>1, <4>2, <4>3
    <3>2. CASE e # d
      BY <3>2, <1>2, <1>4 DEF TypeOK, KeypairTypes, Slots
    <3> QED
      BY <3>1, <3>2
  <2> QED
    BY <1>2, <1>4, <2>2, <2>4, <2>5 DEF KeypairTypes, TypeOK
<1>6. HandshakeTypes'
  BY <1>2, ClearTypes DEF TypeOK
<1>7. WorkTypes'
  BY DEF TypeOK, WorkTypes, BeginSession, Jobs
<1>8. NetTypes'
  <2>1. job[d][w] \in [stage : {"finish", "begin"}, msg : Responses]
    BY DEF TypeOK, WorkTypes, BeginSession, Jobs, Idle
  <2> QED
    BY <2>1 DEF TypeOK, NetTypes, BeginSession, Messages
<1> QED
  BY <1>5, <1>6, <1>7, <1>8 DEF TypeOK

\* Changing one keypair of the heap keeps every reference to it.
LEMMA HeapUpdated ==
    ASSUME TypeOK, NEW d \in Devices, NEW k \in 1..Len(heap[d]), NEW kp \in Keypairs,
           heap' = [heap EXCEPT ![d] = [heap[d] EXCEPT ![k] = kp]]
    PROVE  /\ heap' \in [Devices -> Seq(Keypairs)]
           /\ \A e \in Devices : Len(heap'[e]) = Len(heap[e])
           /\ \A e \in Devices : \A j \in 1..Len(heap[e]) :
                 heap'[e][j] = IF e = d /\ j = k THEN kp ELSE heap[e][j]
<1>1. heap[d] \in Seq(Keypairs)
  BY DEF TypeOK, KeypairTypes
<1>2. /\ [heap[d] EXCEPT ![k] = kp] \in Seq(Keypairs)
      /\ Len([heap[d] EXCEPT ![k] = kp]) = Len(heap[d])
      /\ \A j \in 1..Len(heap[d]) :
            [heap[d] EXCEPT ![k] = kp][j] = IF j = k THEN kp ELSE heap[d][j]
  BY <1>1, ExceptSeq
<1> QED
  BY <1>2 DEF TypeOK, KeypairTypes

\* Sending takes the next nonce, which is one the receiver may accept.
LEMMA SendTypes ==
    ASSUME TypeOK, NEW d \in Devices, SendTransport(d)
    PROVE  TypeOK'
<1> DEFINE k == keypairs[d].current
           kp == [heap[d][k] EXCEPT !.sendNonce = heap[d][k].sendNonce + 1]
<1>1. k \in 1..Len(heap[d])
  BY DEF TypeOK, KeypairTypes, Slots, SendTransport
<1>2. heap[d][k] \in Keypairs
  BY <1>1, ElementOfSeq DEF TypeOK, KeypairTypes
<1>3. kp \in Keypairs
  BY <1>2, LimitAssumption DEF Keypairs, SendTransport
<1>4. heap' = [heap EXCEPT ![d] = [heap[d] EXCEPT ![k] = kp]]
  BY DEF SendTransport
<1>5. KeypairTypes'
  <2> HIDE DEF kp, k
  <2>1. heap' \in [Devices -> Seq(Keypairs)] /\ \A e \in Devices : Len(heap'[e]) = Len(heap[e])
    BY <1>1, <1>3, <1>4, HeapUpdated
  <2> QED
    BY <2>1 DEF TypeOK, KeypairTypes, SendTransport, Slots
<1>6. NetTypes'
  <2>1. [type |-> "transport", from |-> d, receiver |-> heap[d][k].remoteIndex,
         key |-> heap[d][k].key, nonce |-> heap[d][k].sendNonce] \in Transports
    BY <1>2, LimitAssumption DEF SendTransport, Transports, Keypairs, Nonces
  <2> QED
    BY <2>1 DEF TypeOK, NetTypes, SendTransport, Messages
<1> QED
  BY <1>5, <1>6, UnchangedTypes DEF TypeOK, SendTransport

\* A packet is queued with a keypair that exists.
LEMMA ReceiveTypes ==
    ASSUME TypeOK, NEW d \in Devices, NEW m \in net, ReceiveTransport(d, m)
    PROVE  TypeOK'
<1> DEFINE k == table[d][m.receiver].keypair
           elem == [keypair |-> k, msg |-> m]
<1>1. m \in Transports
  BY DEF TypeOK, NetTypes, Messages, ReceiveTransport, Initiations, Responses
<1>2. k \in 1..Len(heap[d]) /\ k \in Nat
  BY DEF TypeOK, KeypairTypes, ReceiveTransport, Entries
<1>3. elem \in [keypair : Nat, msg : Transports] /\ elem.keypair = k
  BY <1>1, <1>2
<1>4. inbound' = [inbound EXCEPT ![d] = Append(inbound[d], elem)]
  BY DEF ReceiveTransport
<1>5. KeypairTypes'
  <2>1. inbound[d] \in Seq([keypair : Nat, msg : Transports])
    BY DEF TypeOK, KeypairTypes
  <2> HIDE DEF elem, k
  <2>2. /\ Append(inbound[d], elem) \in Seq([keypair : Nat, msg : Transports])
        /\ Len(Append(inbound[d], elem)) = Len(inbound[d]) + 1
        /\ \A n \in 1..Len(inbound[d]) : Append(inbound[d], elem)[n] = inbound[d][n]
        /\ Append(inbound[d], elem)[Len(inbound[d]) + 1] = elem
        /\ Len(inbound[d]) \in Nat
    BY <1>3, <2>1, AppendProperties, LenProperties
  <2>3. \A n \in 1..Len(inbound'[d]) : inbound'[d][n].keypair \in 1..Len(heap[d])
    BY <1>2, <1>3, <1>4, <2>2 DEF TypeOK, KeypairTypes
  <2>4. inbound' \in [Devices -> Seq([keypair : Nat, msg : Transports])]
    BY <1>4, <2>2 DEF TypeOK, KeypairTypes
  <2>5. \A e \in Devices : e # d => inbound'[e] = inbound[e]
    BY <1>4 DEF TypeOK, KeypairTypes
  <2> QED
    BY <2>3, <2>4, <2>5 DEF TypeOK, KeypairTypes, ReceiveTransport, Slots
<1> QED
  BY <1>5, UnchangedTypes DEF TypeOK, ReceiveTransport

\* The first packet of the queue, and the queue without it.
LEMMA InboundHead ==
    ASSUME TypeOK, NEW d \in Devices, inbound[d] # <<>>
    PROVE  /\ Head(inbound[d]).msg \in Transports
           /\ Head(inbound[d]).keypair \in 1..Len(heap[d])
           /\ Tail(inbound[d]) \in Seq([keypair : Nat, msg : Transports])
           /\ Len(inbound[d]) \in Nat \ {0}
           /\ Len(Tail(inbound[d])) = Len(inbound[d]) - 1
           /\ \A n \in 1..Len(Tail(inbound[d])) : Tail(inbound[d])[n] = inbound[d][n + 1]
<1> DEFINE Elems == [keypair : Nat, msg : Transports]
<1>1. inbound[d] \in Seq(Elems)
  BY DEF TypeOK, KeypairTypes
<1> HIDE DEF Elems
<1>2. Len(inbound[d]) \in Nat \ {0}
  BY <1>1, EmptySeq
<1>3. Head(inbound[d]) = inbound[d][1]
  BY <1>1, <1>2
<1>4. /\ Head(inbound[d]) \in Elems
      /\ Tail(inbound[d]) \in Seq(Elems)
      /\ Len(Tail(inbound[d])) = Len(inbound[d]) - 1
      /\ \A n \in 1..Len(Tail(inbound[d])) : Tail(inbound[d])[n] = inbound[d][n + 1]
  BY <1>1, HeadTailProperties
<1>5. Head(inbound[d]).keypair \in 1..Len(heap[d])
  BY <1>2, <1>3 DEF TypeOK, KeypairTypes
<1> QED
  BY <1>2, <1>4, <1>5 DEF Elems

\* Opening a packet records its counter, delivers it and may promote next.
LEMMA SequentialTypes ==
    ASSUME TypeOK, NEW d \in Devices, SequentialReceive(d)
    PROVE  TypeOK'
<1> DEFINE k == Head(inbound[d]).keypair
           m == Head(inbound[d]).msg
           kp == [heap[d][k] EXCEPT !.seen = heap[d][k].seen \cup {m.nonce}]
           Elems == [keypair : Nat, msg : Transports]
<1>1. inbound[d] # <<>>
  BY DEF SequentialReceive
<1>2. /\ Tail(inbound[d]) \in Seq(Elems)
      /\ Len(inbound[d]) \in Nat \ {0}
      /\ Len(Tail(inbound[d])) = Len(inbound[d]) - 1
      /\ \A n \in 1..Len(Tail(inbound[d])) : Tail(inbound[d])[n] = inbound[d][n + 1]
  BY <1>1, InboundHead
<1>3. m \in Transports /\ k \in 1..Len(heap[d])
  BY <1>1, InboundHead
<1>4. heap[d][k] \in Keypairs
  BY <1>3, ElementOfSeq DEF TypeOK, KeypairTypes
<1>5. kp \in Keypairs
  BY <1>3, <1>4 DEF Keypairs, Transports
<1>6. /\ heap' \in [Devices -> Seq(Keypairs)]
      /\ \A e \in Devices : Len(heap'[e]) = Len(heap[e])
  <2>1. CASE heap' = heap
    BY <2>1 DEF TypeOK, KeypairTypes
  <2>2. CASE heap' = [heap EXCEPT ![d] = [heap[d] EXCEPT ![k] = kp]]
    <3> HIDE DEF k, kp
    <3> QED
      BY <2>2, <1>3, <1>5, HeapUpdated
  <2> QED
    BY <2>1, <2>2 DEF SequentialReceive
<1>7. inbound' = [inbound EXCEPT ![d] = Tail(inbound[d])]
  BY DEF SequentialReceive
<1>8. /\ inbound' \in [Devices -> Seq(Elems)]
      /\ \A e \in Devices : \A n \in 1..Len(inbound'[e]) : inbound'[e][n].keypair \in 1..Len(heap[e])
  <2> HIDE DEF Elems
  <2>1. inbound' \in [Devices -> Seq(Elems)]
    BY <1>2, <1>7 DEF TypeOK, KeypairTypes, Elems
  <2>2. \A n \in 1..Len(inbound'[d]) : inbound'[d][n].keypair \in 1..Len(heap[d])
    BY <1>2, <1>7 DEF TypeOK, KeypairTypes
  <2>3. \A e \in Devices : e # d => inbound'[e] = inbound[e]
    BY <1>7 DEF TypeOK, KeypairTypes
  <2> QED
    BY <2>1, <2>2, <2>3 DEF TypeOK, KeypairTypes
<1>9. /\ keypairs' \in [Devices -> [current : Nat, previous : Nat, next : Nat]]
      /\ \A e \in Devices : Slots(e)' \subseteq 1..Len(heap[e])
  <2>1. CASE keypairs' = keypairs
    BY <2>1 DEF TypeOK, KeypairTypes, Slots
  <2>2. CASE /\ keypairs' = [keypairs EXCEPT ![d] =
                               [current |-> k, previous |-> keypairs[d].current, next |-> None]]
    <3> HIDE DEF k
    <3>1. k \in Nat
      BY <1>3
    <3>2. keypairs' \in [Devices -> [current : Nat, previous : Nat, next : Nat]]
      BY <2>2, <3>1 DEF TypeOK, KeypairTypes, None
    <3>3. Slots(d)' \subseteq 1..Len(heap[d])
      BY <2>2, <1>3 DEF TypeOK, KeypairTypes, Slots
    <3>4. \A e \in Devices : e # d => Slots(e)' = Slots(e)
      BY <2>2 DEF TypeOK, KeypairTypes, Slots
    <3> QED
      BY <3>2, <3>3, <3>4 DEF TypeOK, KeypairTypes
  <2> QED
    BY <2>1, <2>2 DEF SequentialReceive
<1>10. /\ table' \in [Devices -> [Indices -> Entries]]
       /\ \A e \in Devices : \A i \in Indices :
             table'[e][i].kind = "keypair" => table'[e][i] = table[e][i]
  <2> DEFINE deleted == DeleteKeypairs(d, table[d], {keypairs[d].previous})
  <2>1. table[d] \in [Indices -> Entries]
    BY DEF TypeOK, KeypairTypes
  <2>2. /\ deleted \in [Indices -> Entries]
        /\ \A j \in Indices : deleted[j].kind # "free" => deleted[j] = table[d][j]
    BY <2>1, DeleteKeypairsType
  <2>3. table' = table \/ table' = [table EXCEPT ![d] = deleted]
    BY DEF SequentialReceive
  <2> HIDE DEF deleted
  <2> QED
    BY <2>2, <2>3 DEF TypeOK, KeypairTypes
<1>11. KeypairTypes'
  BY <1>6, <1>8, <1>9, <1>10 DEF TypeOK, KeypairTypes
<1>12. NetTypes'
  <2> HIDE DEF m
  <2>1. delivered[d] \in Seq(Transports)
    BY DEF TypeOK, NetTypes
  <2>2. Append(delivered[d], m) \in Seq(Transports)
    BY <1>3, <2>1, AppendProperties
  <2> QED
    BY <2>2 DEF TypeOK, NetTypes, SequentialReceive, m
<1> QED
  BY <1>11, <1>12, UnchangedTypes DEF TypeOK, SequentialReceive

\* The two halves of ZeroAndFlushAll only remove.
LEMMA ZeroTypes ==
    ASSUME TypeOK, NEW d \in Devices, ZeroKeypairs(d) \/ ZeroHandshake(d)
    PROVE  TypeOK'
<1> DEFINE ks == {keypairs[d].current, keypairs[d].previous, keypairs[d].next}
           deleted == DeleteKeypairs(d, table[d], ks)
           cleared == Delete(table[d], handshake[d].localIndex)
<1>1. table[d] \in [Indices -> Entries]
  BY DEF TypeOK, KeypairTypes
<1>2. CASE ZeroKeypairs(d)
  <2>1. /\ deleted \in [Indices -> Entries]
        /\ \A j \in Indices : deleted[j].kind # "free" => deleted[j] = table[d][j]
    BY <1>1, DeleteKeypairsType
  <2>2. table' = [table EXCEPT ![d] = deleted]
    BY <1>2 DEF ZeroKeypairs
  <2>3. NoKeypairs \in [current : Nat, previous : Nat, next : Nat]
    BY DEF NoKeypairs, None
  <2>4. Slots(d)' = {}
    BY <1>2 DEF ZeroKeypairs, Slots, NoKeypairs, TypeOK, KeypairTypes
  <2> HIDE DEF deleted
  <2>5. KeypairTypes'
    BY <1>2, <2>1, <2>2, <2>3, <2>4 DEF TypeOK, KeypairTypes, ZeroKeypairs, Slots
  <2>6. WorkTypes'
    BY <1>2 DEF TypeOK, WorkTypes, ZeroKeypairs
  <2> QED
    BY <1>2, <2>5, <2>6, UnchangedTypes DEF TypeOK, ZeroKeypairs
<1>3. CASE ZeroHandshake(d)
  <2>1. /\ cleared \in [Indices -> Entries]
        /\ \A j \in Indices : cleared[j].kind # "free" => cleared[j] = table[d][j]
    BY <1>1, DeleteType
  <2>2. table' = [table EXCEPT ![d] = cleared]
    BY <1>3 DEF ZeroHandshake
  <2> HIDE DEF cleared
  <2>3. KeypairTypes'
    BY <1>3, <2>1, <2>2 DEF TypeOK, KeypairTypes, ZeroHandshake, Slots
  <2>4. HandshakeTypes'
    BY <1>3, ClearTypes DEF TypeOK, ZeroHandshake
  <2>5. WorkTypes'
    BY <1>3 DEF TypeOK, WorkTypes, ZeroHandshake
  <2> QED
    BY <1>3, <2>3, <2>4, <2>5, UnchangedTypes DEF TypeOK, ZeroHandshake
<1> QED
  BY <1>2, <1>3

\* Every step of either device keeps the types.
LEMMA StepTypeOK ==
    ASSUME TypeOK, [Next]_vars
    PROVE  TypeOK'
<1>1. CASE UNCHANGED vars
  BY <1>1, UnchangedTypes DEF vars, TypeOK
<1>2. ASSUME NEW d \in Devices, NEW w \in Workers, Worker(d, w) PROVE TypeOK'
  BY <1>2, WorkerTypes, ResponseTypes, SessionTypes DEF Worker
<1> QED
  BY <1>1, <1>2, InitiationTypes, SendTypes, ReceiveTypes, SequentialTypes, ZeroTypes DEF Next

\* The handshake state, the keypairs, the index table and the messages keep
\* their types: in particular a key is derived only from a completed chain,
\* a nonce stays under RejectAfterMessages, and nothing refers to a keypair
\* that was never derived.
THEOREM TypeCorrect == Spec => []TypeOK
  BY InitTypeOK, StepTypeOK, PTL DEF Spec

-----------------------------------------------------------------------------
\* At the start there is no chain and no keypair.
LEMMA InitDirection == Init => DirectionInv
  BY DEF Init, DirectionInv, DirectionsDiffer, OwnChain, Idle

\* Steps that derive nothing keep the heap's keys and roles.
LEMMA SameKeypairs ==
    ASSUME DirectionsDiffer,
           \A e \in Devices : Len(heap'[e]) = Len(heap[e]),
           \A e \in Devices : \A j \in 1..Len(heap[e]) :
              /\ heap'[e][j].key = heap[e][j].key
              /\ heap'[e][j].isInitiator = heap[e][j].isInitiator
    PROVE  DirectionsDiffer'
  BY DEF DirectionsDiffer

\* Whose handshake a chain is follows it through every step of every worker.
LEMMA StepDirection ==
    ASSUME TypeOK, DirectionInv, [Next]_vars
    PROVE  DirectionInv'
<1> USE DEF DirectionInv
<1>1. ASSUME NEW d \in Devices, NEW i \in Indices, CreateMessageInitiation(d, i)
      PROVE  DirectionInv'
  <2>1. DirectionsDiffer'
    BY <1>1 DEF CreateMessageInitiation, DirectionsDiffer
  <2>2. \A e \in Devices : OwnChain(e)'
    BY <1>1 DEF CreateMessageInitiation, OwnChain, Chain, TypeOK, HandshakeTypes, Handshakes
  <2> QED
    BY <2>1, <2>2
<1>2. ASSUME NEW d \in Devices, NEW w \in Workers, NEW m \in net, CheckInitiation(d, w, m)
      PROVE  DirectionInv'
  <2>1. DirectionsDiffer'
    BY <1>2 DEF CheckInitiation, DirectionsDiffer
  <2>2. \A e \in Devices : OwnChain(e)'
    BY <1>2 DEF CheckInitiation, OwnChain, TypeOK, WorkTypes
  <2> QED
    BY <2>1, <2>2
<1>3. ASSUME NEW d \in Devices, NEW w \in Workers, ConsumeInitiation(d, w)
      PROVE  DirectionInv'
  <2>1. DirectionsDiffer'
    BY <1>3 DEF ConsumeInitiation, DirectionsDiffer
  <2>2. job[d][w] \in Jobs /\ job[d][w].msg.from = Peer(d)
    BY <1>3 DEF ConsumeInitiation, OwnChain, TypeOK, WorkTypes
  <2>3. OwnChain(d)'
    BY <1>3, <2>2 DEF ConsumeInitiation, OwnChain, Chain, TypeOK, HandshakeTypes, Handshakes,
        WorkTypes, Jobs, Idle
  <2>4. \A e \in Devices : e # d => OwnChain(e)'
    BY <1>3 DEF ConsumeInitiation, OwnChain, TypeOK, HandshakeTypes, WorkTypes
  <2> QED
    BY <2>1, <2>3, <2>4
<1>4. ASSUME NEW d \in Devices, NEW w \in Workers, NEW i \in Indices,
             CreateMessageResponse(d, w, i)
      PROVE  DirectionInv'
  <2>1. DirectionsDiffer'
    BY <1>4 DEF CreateMessageResponse, DirectionsDiffer
  <2>2. OwnChain(d)'
    BY <1>4 DEF CreateMessageResponse, OwnChain, TypeOK, HandshakeTypes, Handshakes, Chains,
        WorkTypes
  <2>3. \A e \in Devices : e # d => OwnChain(e)'
    BY <1>4 DEF CreateMessageResponse, OwnChain, TypeOK, HandshakeTypes, WorkTypes
  <2> QED
    BY <2>1, <2>2, <2>3
<1>5. ASSUME NEW d \in Devices, NEW w \in Workers, ResponseRefused(d, w) \/ SessionRefused(d, w)
      PROVE  DirectionInv'
  <2>1. DirectionsDiffer'
    BY <1>5 DEF ResponseRefused, SessionRefused, DirectionsDiffer
  <2>2. job' = [job EXCEPT ![d][w] = Idle] /\ handshake' = handshake
    BY <1>5 DEF ResponseRefused, SessionRefused
  <2>3. \A e \in Devices : OwnChain(e)'
    BY <2>2 DEF OwnChain, Idle, TypeOK, WorkTypes
  <2> QED
    BY <2>1, <2>3
<1>6. ASSUME NEW d \in Devices, NEW w \in Workers, NEW m \in net, CheckResponse(d, w, m)
      PROVE  DirectionInv'
  <2>1. DirectionsDiffer'
    BY <1>6 DEF CheckResponse, DirectionsDiffer
  <2>2. m \in Responses
    BY <1>6 DEF TypeOK, NetTypes, Messages, CheckResponse, Initiations, Transports
  <2>3. m.key.initiator = d
    BY <1>6, <2>2 DEF CheckResponse, OwnChain, Responses, Keys
  <2>4. \A e \in Devices : OwnChain(e)'
    BY <1>6, <2>3 DEF CheckResponse, OwnChain, TypeOK, WorkTypes
  <2> QED
    BY <2>1, <2>4
<1>7. ASSUME NEW d \in Devices, NEW w \in Workers, ConsumeResponse(d, w)
      PROVE  DirectionInv'
  <2>1. DirectionsDiffer'
    BY <1>7 DEF ConsumeResponse, DirectionsDiffer
  <2>2. job[d][w] \in Jobs /\ job[d][w].msg.key.initiator = d
    BY <1>7 DEF ConsumeResponse, OwnChain, TypeOK, WorkTypes
  <2>3. OwnChain(d)'
    BY <1>7, <2>2 DEF ConsumeResponse, OwnChain, TypeOK, HandshakeTypes, Handshakes,
        WorkTypes, Jobs, Idle
  <2>4. \A e \in Devices : e # d => OwnChain(e)'
    BY <1>7 DEF ConsumeResponse, OwnChain, TypeOK, HandshakeTypes, WorkTypes
  <2> QED
    BY <2>1, <2>3, <2>4
<1>8. ASSUME NEW d \in Devices, NEW w \in Workers, BeginSession(d, w)
      PROVE  DirectionInv'
  <2> DEFINE h == handshake[d]
             kp == [key |-> h.chain, isInitiator |-> h.state = "ResponseConsumed",
                    localIndex |-> h.localIndex, remoteIndex |-> h.remoteIndex,
                    sendNonce |-> 0, seen |-> {}]
  <2>1. kp \in Keypairs
    BY <1>8, LimitAssumption DEF TypeOK, HandshakeTypes, Handshakes, ChainOK, BeginSession, Derivable, Keypairs
  <2>2. kp.isInitiator <=> kp.key.initiator = d
    BY <1>8, PeerIsTheOther DEF BeginSession, Derivable, OwnChain
  <2>3. heap' = [heap EXCEPT ![d] = Append(heap[d], kp)]
    BY <1>8 DEF BeginSession, BeginSymmetricSession
  <2>4. heap[d] \in Seq(Keypairs) /\ Len(heap[d]) \in Nat
    BY LenProperties DEF TypeOK, KeypairTypes
  <2>5. DirectionsDiffer'
    <3> HIDE DEF kp
    <3>1. \A k \in 1..Len(heap'[d]) : heap'[d][k].isInitiator <=> heap'[d][k].key.initiator = d
      BY <2>1, <2>2, <2>3, <2>4, HeapAppended DEF DirectionsDiffer, TypeOK, KeypairTypes
    <3>2. \A e \in Devices : e # d => heap'[e] = heap[e]
      BY <2>3 DEF TypeOK, KeypairTypes
    <3> QED
      BY <3>1, <3>2 DEF DirectionsDiffer
  <2>6. \A e \in Devices : OwnChain(e)'
    BY <1>8 DEF BeginSession, BeginSymmetricSession, Clear, Idle, OwnChain, TypeOK,
        HandshakeTypes, Handshakes, WorkTypes
  <2> QED
    BY <2>5, <2>6
<1>9. ASSUME NEW d \in Devices, SendTransport(d) PROVE DirectionInv'
  <2> DEFINE k == keypairs[d].current
             kp == [heap[d][k] EXCEPT !.sendNonce = heap[d][k].sendNonce + 1]
  <2>1. k \in 1..Len(heap[d])
    BY <1>9 DEF TypeOK, KeypairTypes, Slots, SendTransport
  <2>2. heap[d][k] \in Keypairs
    BY <2>1, ElementOfSeq DEF TypeOK, KeypairTypes
  <2>3. /\ kp \in Keypairs
        /\ kp.key = heap[d][k].key
        /\ kp.isInitiator = heap[d][k].isInitiator
    BY <1>9, <2>2, LimitAssumption DEF Keypairs, SendTransport
  <2>4. heap' = [heap EXCEPT ![d] = [heap[d] EXCEPT ![k] = kp]]
    BY <1>9 DEF SendTransport
  <2>5. DirectionsDiffer'
    <3> HIDE DEF kp, k
    <3> QED
      BY <2>1, <2>3, <2>4, HeapUpdated, SameKeypairs
  <2>6. \A e \in Devices : OwnChain(e)'
    BY <1>9 DEF SendTransport, OwnChain
  <2> QED
    BY <2>5, <2>6
<1>10. ASSUME NEW d \in Devices, NEW m \in net, ReceiveTransport(d, m) PROVE DirectionInv'
  BY <1>10 DEF ReceiveTransport, DirectionsDiffer, OwnChain
<1>11. ASSUME NEW d \in Devices, SequentialReceive(d) PROVE DirectionInv'
  <2> DEFINE k == Head(inbound[d]).keypair
             m == Head(inbound[d]).msg
             kp == [heap[d][k] EXCEPT !.seen = heap[d][k].seen \cup {m.nonce}]
  <2>1. k \in 1..Len(heap[d]) /\ m \in Transports
    BY <1>11, InboundHead DEF SequentialReceive
  <2>2. heap[d][k] \in Keypairs
    BY <2>1, ElementOfSeq DEF TypeOK, KeypairTypes
  <2>3. /\ kp \in Keypairs
        /\ kp.key = heap[d][k].key
        /\ kp.isInitiator = heap[d][k].isInitiator
    BY <2>1, <2>2 DEF Keypairs, Transports
  <2>4. heap' = heap \/ heap' = [heap EXCEPT ![d] = [heap[d] EXCEPT ![k] = kp]]
    BY <1>11 DEF SequentialReceive
  <2>5. DirectionsDiffer'
    <3> HIDE DEF kp, k
    <3>1. CASE heap' = heap
      BY <3>1 DEF DirectionsDiffer
    <3> QED
      BY <3>1, <2>1, <2>3, <2>4, HeapUpdated, SameKeypairs
  <2>6. \A e \in Devices : OwnChain(e)'
    BY <1>11 DEF SequentialReceive, OwnChain
  <2> QED
    BY <2>5, <2>6
<1>12. ASSUME NEW d \in Devices, ZeroKeypairs(d) PROVE DirectionInv'
  BY <1>12 DEF ZeroKeypairs, DirectionsDiffer, OwnChain
<1>13. ASSUME NEW d \in Devices, ZeroHandshake(d) PROVE DirectionInv'
  <2>1. \A e \in Devices : OwnChain(e)'
    BY <1>13 DEF ZeroHandshake, Clear, OwnChain, TypeOK, HandshakeTypes, Handshakes
  <2> QED
    BY <1>13, <2>1 DEF ZeroHandshake, DirectionsDiffer
<1>14. CASE UNCHANGED vars
  BY <1>14 DEF vars, DirectionsDiffer, OwnChain
<1> QED
  BY <1>1, <1>2, <1>3, <1>4, <1>5, <1>6, <1>7, <1>8, <1>9, <1>10, <1>11, <1>12, <1>13, <1>14
      DEF Next, Worker

\* However many workers handle messages and however the timers cut in, the two
\* ends of a session take opposite directions of its key.
THEOREM OppositeDirections == Spec => []DirectionsDiffer
<1>1. Init => TypeOK /\ DirectionInv
  BY InitTypeOK, InitDirection
<1>2. TypeOK /\ DirectionInv /\ [Next]_vars => (TypeOK /\ DirectionInv)'
  BY StepTypeOK, StepDirection
<1>3. DirectionInv => DirectionsDiffer
  BY DEF DirectionInv
<1> QED
  BY <1>1, <1>2, <1>3, PTL DEF Spec

-----------------------------------------------------------------------------
\* The table invariant of one device.
TableInvOf(d) ==
    /\ TableOwned(d)
    /\ \A k \in Slots(d) :
          heap[d][k].localIndex # ZeroIndex => table[d][heap[d][k].localIndex] = KeypairEntry(k)
    /\ \A i \in Indices :
          /\ table[d][i].kind = "keypair" => table[d][i].keypair \in Slots(d)
          /\ table[d][i].kind = "handshake" => handshake[d].localIndex = i

\* The table invariant speaks of each device on its own.
LEMMA TableInvSplit == TableInv <=> \A d \in Devices : TableInvOf(d)
  BY DEF TableInv, TableInvOf, IndexTableConsistent

\* A keypair's entry tells which keypair it is.
LEMMA EntryIsOfOne ==
    /\ \A j, k : KeypairEntry(j) = KeypairEntry(k) => j = k
    /\ \A k : KeypairEntry(k).kind = "keypair"
  BY DEF KeypairEntry

\* A keypair in a slot that has an index is found under it, and under one that
\* is not the index of the handshake in progress.
LEMMA SlotEntry ==
    ASSUME TypeOK, NEW d \in Devices, TableInvOf(d), NEW k \in Slots(d),
           heap[d][k].localIndex # ZeroIndex
    PROVE  /\ heap[d][k].localIndex \in Indices
           /\ table[d][heap[d][k].localIndex] = KeypairEntry(k)
           /\ heap[d][k].localIndex # handshake[d].localIndex
<1>1. k \in 1..Len(heap[d]) /\ heap[d] \in Seq(Keypairs)
  BY DEF TypeOK, KeypairTypes
<1>2. heap[d][k] \in Keypairs
  BY <1>1, ElementOfSeq
<1>3. table[d][heap[d][k].localIndex] = KeypairEntry(k)
  BY DEF TableInvOf
<1>4. heap[d][k].localIndex # handshake[d].localIndex
  BY <1>3, EntryIsOfOne DEF TableInvOf, TableOwned
<1> QED
  BY <1>2, <1>3, <1>4 DEF Keypairs, MaybeIndex

\* Two slots never share an index.
LEMMA SlotsShareNoIndex ==
    ASSUME TypeOK, NEW d \in Devices, TableInvOf(d), NEW j \in Slots(d), NEW k \in Slots(d),
           j # k, heap[d][k].localIndex # ZeroIndex
    PROVE  heap[d][j].localIndex # heap[d][k].localIndex
  BY SlotEntry, EntryIsOfOne

\* At the start the table is empty.
LEMMA InitTable == Init => TableInv
  BY DEF Init, TableInv, IndexTableConsistent, TableOwned, Slots, Free, None, NoKeypairs

\* A step of one device leaves the table of the other alone.
LEMMA TableUntouched ==
    ASSUME NEW e \in Devices, TableInvOf(e), TypeOK,
           handshake'[e].localIndex = handshake[e].localIndex,
           table'[e] = table[e], keypairs'[e] = keypairs[e],
           \A k \in 1..Len(heap[e]) : heap'[e][k].localIndex = heap[e][k].localIndex
    PROVE  TableInvOf(e)'
<1>1. Slots(e)' = Slots(e) /\ Slots(e) \subseteq 1..Len(heap[e])
  BY DEF Slots, TypeOK, KeypairTypes
<1> QED
  BY <1>1 DEF TableInvOf, TableOwned, TypeOK, KeypairTypes

\* A handshake that takes a new index gives up its old one.
LEMMA NewIndexKeepsTable ==
    ASSUME TypeOK, NEW d \in Devices, TableInvOf(d), NEW i \in Indices,
           Delete(table[d], handshake[d].localIndex)[i].kind = "free",
           table'[d] = [Delete(table[d], handshake[d].localIndex) EXCEPT ![i] = HandshakeEntry],
           handshake'[d].localIndex = i,
           UNCHANGED <<heap, keypairs>>
    PROVE  TableInvOf(d)'
<1> DEFINE old == handshake[d].localIndex
           cleared == Delete(table[d], old)
<1>1. cleared = [j \in Indices |-> IF j = old THEN Free ELSE table[d][j]]
  BY DEF Delete
<1>2. \A j \in Indices : table'[d][j] = IF j = i THEN HandshakeEntry
                                        ELSE IF j = old THEN Free ELSE table[d][j]
  BY <1>1
<1>3. Slots(d)' = Slots(d) /\ Slots(d) \subseteq 1..Len(heap[d])
  BY DEF Slots, TypeOK, KeypairTypes
<1>4. ASSUME NEW k \in Slots(d), heap[d][k].localIndex # ZeroIndex
      PROVE  /\ heap[d][k].localIndex \in Indices \ {i, old}
             /\ table[d][heap[d][k].localIndex] = KeypairEntry(k)
  <2>1. /\ heap[d][k].localIndex \in Indices
        /\ table[d][heap[d][k].localIndex] = KeypairEntry(k)
        /\ heap[d][k].localIndex # old
    BY <1>4, SlotEntry
  <2>2. heap[d][k].localIndex # i
    BY <1>1, <2>1, EntryIsOfOne
  <2> QED
    BY <2>1, <2>2
<1>5. TableOwned(d)'
  BY <1>2 DEF TableInvOf, TableOwned, HandshakeEntry, Free
<1>6. \A k \in Slots(d)' :
         heap'[d][k].localIndex # ZeroIndex => table'[d][heap'[d][k].localIndex] = KeypairEntry(k)
  BY <1>2, <1>3, <1>4
<1>7. \A j \in Indices :
         /\ table'[d][j].kind = "keypair" => table'[d][j].keypair \in Slots(d)'
         /\ table'[d][j].kind = "handshake" => handshake'[d].localIndex = j
  BY <1>2, <1>3 DEF TableInvOf, HandshakeEntry, Free
<1> QED
  BY <1>5, <1>6, <1>7 DEF TableInvOf

\* Keypairs that leave their slots take their entries with them, and no others.
LEMMA DropKeepsTable ==
    ASSUME TypeOK, NEW d \in Devices, TableInvOf(d), NEW ks,
           table'[d] = DeleteKeypairs(d, table[d], ks),
           ks \ {None} \subseteq Slots(d),
           Slots(d)' = Slots(d) \ ks,
           handshake'[d].localIndex = handshake[d].localIndex,
           keypairs'[d].current # None
              => keypairs'[d].current \notin {keypairs'[d].previous, keypairs'[d].next},
           keypairs'[d].previous # None => keypairs'[d].previous # keypairs'[d].next,
           \A k \in 1..Len(heap[d]) : heap'[d][k].localIndex = heap[d][k].localIndex
    PROVE  TableInvOf(d)'
<1>1. \A j \in Indices :
         table'[d][j] = IF \E k \in ks \ {None} : heap[d][k].localIndex = j
                        THEN Free ELSE table[d][j]
  BY DEF DeleteKeypairs
<1>2. Slots(d) \subseteq 1..Len(heap[d])
  BY DEF TypeOK, KeypairTypes
<1>3. ASSUME NEW k \in Slots(d), heap[d][k].localIndex # ZeroIndex
      PROVE  heap[d][k].localIndex \in Indices
  BY <1>3, SlotEntry
<1>4. ASSUME NEW k \in Slots(d)', heap'[d][k].localIndex # ZeroIndex
      PROVE  table'[d][heap'[d][k].localIndex] = KeypairEntry(k)
  <2>1. /\ k \in Slots(d) /\ k \notin ks
        /\ heap'[d][k].localIndex = heap[d][k].localIndex
        /\ heap[d][k].localIndex \in Indices
        /\ table[d][heap[d][k].localIndex] = KeypairEntry(k)
    BY <1>2, <1>3, <1>4 DEF TableInvOf
  <2>2. ASSUME NEW j \in ks \ {None} PROVE heap[d][j].localIndex # heap[d][k].localIndex
    <3>1. j \in Slots(d) /\ j # k
      BY <2>1
    <3> QED
      BY <2>1, <3>1, DeviceAssumption, SlotsShareNoIndex
  <2> QED
    BY <1>1, <2>1, <2>2
<1>5. ASSUME NEW j \in Indices, table'[d][j].kind = "keypair"
      PROVE  /\ table'[d][j].keypair \in Slots(d)'
             /\ heap'[d][table'[d][j].keypair].localIndex = j
  <2>1. /\ table'[d][j] = table[d][j]
        /\ ~ \E k \in ks \ {None} : heap[d][k].localIndex = j
    BY <1>1, <1>5 DEF Free
  <2>2. table[d][j].keypair \in Slots(d) /\ heap[d][table[d][j].keypair].localIndex = j
    BY <1>5, <2>1 DEF TableInvOf, TableOwned
  <2> QED
    BY <1>2, <2>1, <2>2 DEF Slots
<1>6. \A j \in Indices : table'[d][j].kind = "handshake" => handshake'[d].localIndex = j
  BY <1>1 DEF TableInvOf, Free
<1>7. TableOwned(d)'
  <2>1. ASSUME handshake[d].localIndex # ZeroIndex
        PROVE  table'[d][handshake[d].localIndex].kind = "handshake"
    <3>1. /\ handshake[d].localIndex \in Indices
          /\ table[d][handshake[d].localIndex].kind = "handshake"
      BY <2>1 DEF TypeOK, HandshakeTypes, Handshakes, MaybeIndex, TableInvOf, TableOwned
    <3>2. ASSUME NEW k \in ks \ {None} PROVE heap[d][k].localIndex # handshake[d].localIndex
      BY <2>1, SlotEntry
    <3> QED
      BY <1>1, <3>1, <3>2
  <2> QED
    BY <1>5, <2>1 DEF TableOwned
<1> QED
  BY <1>4, <1>5, <1>6, <1>7 DEF TableInvOf

\* A new keypair takes over the entry of its handshake.
LEMMA SessionKeepsTable ==
    ASSUME TypeOK, NEW d \in Devices, TableInvOf(d), NEW w \in Workers, BeginSession(d, w)
    PROVE  TableInvOf(d)'
<1> DEFINE h == handshake[d]
           isInitiator == h.state = "ResponseConsumed"
           k == Len(heap[d]) + 1
           kp == [key |-> h.chain, isInitiator |-> isInitiator, localIndex |-> h.localIndex,
                  remoteIndex |-> h.remoteIndex, sendNonce |-> 0, seen |-> {}]
           dropped == Dropped(keypairs[d], isInitiator)
           slots == Rotated(keypairs[d], k, isInitiator)
           isDropped(j) == \E n \in dropped \ {None} : heap[d][n].localIndex = j
<1>1. /\ heap[d] \in Seq(Keypairs)
      /\ Len(heap[d]) \in Nat
      /\ Slots(d) \subseteq 1..Len(heap[d])
      /\ keypairs[d] \in [current : Nat, previous : Nat, next : Nat]
  BY LenProperties DEF TypeOK, KeypairTypes
<1>2. kp \in Keypairs
  BY LimitAssumption DEF TypeOK, HandshakeTypes, Handshakes, ChainOK, BeginSession, Derivable,
      Keypairs
<1>3. /\ heap'[d] = Append(heap[d], kp)
      /\ keypairs'[d] = slots
      /\ handshake'[d].localIndex = ZeroIndex
      /\ table'[d] = DeleteKeypairs(d, SwapIndexForKeypair(table[d], h.localIndex, k), dropped)
  BY DEF BeginSession, BeginSymmetricSession, Clear, TypeOK, HandshakeTypes, Handshakes, KeypairTypes
<1>4. /\ \A j \in 1..Len(heap[d]) : heap'[d][j] = heap[d][j]
      /\ heap'[d][k].localIndex = h.localIndex
  <2>1. kp.localIndex = h.localIndex
    OBVIOUS
  <2> HIDE DEF kp
  <2> QED
    BY <1>1, <1>2, <1>3, <2>1, HeapAppended
<1>5. h.localIndex \in MaybeIndex
  BY DEF TypeOK, HandshakeTypes, Handshakes
<1>6. h.localIndex # ZeroIndex => /\ h.localIndex \in Indices
                                  /\ table[d][h.localIndex].kind = "handshake"
  BY <1>5 DEF TableInvOf, TableOwned, MaybeIndex
<1>7. \A j \in Indices :
         table'[d][j] = IF isDropped(j) THEN Free
                        ELSE IF j = h.localIndex THEN KeypairEntry(k) ELSE table[d][j]
  <2>1. \A j \in Indices :
           SwapIndexForKeypair(table[d], h.localIndex, k)[j]
              = IF j = h.localIndex THEN KeypairEntry(k) ELSE table[d][j]
    BY <1>6, DeviceAssumption DEF SwapIndexForKeypair
  <2> QED
    BY <1>3, <2>1 DEF DeleteKeypairs
<1>8. /\ Slots(d)' = (Slots(d) \ dropped) \cup {k}
      /\ dropped \ {None} \subseteq Slots(d)
      /\ k \notin Slots(d)
      /\ slots.current # None => slots.current \notin {slots.previous, slots.next}
      /\ slots.previous # None => slots.previous # slots.next
  <2> HIDE DEF isInitiator
  <2> QED
    BY <1>1, <1>3 DEF Slots, Dropped, Rotated, None, TableInvOf, TableOwned
<1> HIDE DEF dropped, slots, k, kp
<1>9. ASSUME NEW n \in dropped \ {None} PROVE heap[d][n].localIndex \notin Indices \cap {h.localIndex}
  <2>1. n \in Slots(d)
    BY <1>8
  <2> QED
    BY <2>1, DeviceAssumption, SlotEntry
<1>10. ASSUME NEW j \in Slots(d)', heap'[d][j].localIndex # ZeroIndex
       PROVE  table'[d][heap'[d][j].localIndex] = KeypairEntry(j)
  <2>1. CASE j = k
    BY <2>1, <1>4, <1>6, <1>7, <1>9, <1>10
  <2>2. CASE j # k
    <3>1. j \in Slots(d) /\ j \notin dropped /\ heap'[d][j] = heap[d][j]
      BY <2>2, <1>1, <1>4, <1>8
    <3>2. /\ heap[d][j].localIndex \in Indices
          /\ table[d][heap[d][j].localIndex] = KeypairEntry(j)
          /\ heap[d][j].localIndex # h.localIndex
      BY <1>10, <3>1, SlotEntry
    <3>3. ~isDropped(heap[d][j].localIndex)
      BY <1>8, <1>10, <3>1, SlotsShareNoIndex
    <3> QED
      BY <1>7, <3>1, <3>2, <3>3
  <2> QED
    BY <2>1, <2>2
<1>11. ASSUME NEW j \in Indices, table'[d][j].kind = "keypair"
       PROVE  /\ table'[d][j].keypair \in Slots(d)'
              /\ heap'[d][table'[d][j].keypair].localIndex = j
  <2>1. CASE j = h.localIndex
    <3>1. table'[d][j] = KeypairEntry(k)
      BY <2>1, <1>7, <1>11 DEF Free
    <3> QED
      BY <2>1, <3>1, <1>4, <1>8 DEF KeypairEntry
  <2>2. CASE j # h.localIndex
    <3>1. table'[d][j] = table[d][j] /\ ~isDropped(j)
      BY <2>2, <1>7, <1>11 DEF Free
    <3>2. table[d][j].keypair \in Slots(d) /\ heap[d][table[d][j].keypair].localIndex = j
      BY <1>11, <3>1 DEF TableInvOf, TableOwned
    <3>3. table[d][j].keypair # None
      BY <3>2 DEF Slots
    <3> QED
      BY <1>1, <1>4, <1>8, <3>1, <3>2, <3>3
  <2> QED
    BY <2>1, <2>2
<1>12. \A j \in Indices : table'[d][j].kind # "handshake"
  BY <1>7 DEF TableInvOf, Free, KeypairEntry
<1> QED
  BY <1>3, <1>8, <1>10, <1>11, <1>12 DEF TableInvOf, TableOwned

\* Clearing the handshake removes the one entry it owns.
LEMMA ZeroHandshakeKeepsTable ==
    ASSUME TypeOK, NEW d \in Devices, TableInvOf(d), ZeroHandshake(d)
    PROVE  TableInvOf(d)'
<1> DEFINE old == handshake[d].localIndex
<1>1. /\ handshake'[d].localIndex = ZeroIndex
      /\ table'[d] = Delete(table[d], old)
      /\ heap' = heap /\ keypairs' = keypairs
  BY DEF ZeroHandshake, Clear, TypeOK, HandshakeTypes, Handshakes, KeypairTypes
<1>2. \A j \in Indices : table'[d][j] = IF j = old THEN Free ELSE table[d][j]
  BY <1>1 DEF Delete
<1>3. Slots(d)' = Slots(d)
  BY <1>1 DEF Slots
<1>4. \A k \in Slots(d)' :
         heap'[d][k].localIndex # ZeroIndex => table'[d][heap'[d][k].localIndex] = KeypairEntry(k)
  BY <1>1, <1>2, <1>3, SlotEntry
<1>5. \A j \in Indices :
         /\ table'[d][j].kind = "keypair" => /\ table'[d][j].keypair \in Slots(d)'
                                            /\ heap'[d][table'[d][j].keypair].localIndex = j
         /\ table'[d][j].kind # "handshake"
  BY <1>1, <1>2, <1>3 DEF TableInvOf, TableOwned, Free
<1> QED
  BY <1>1, <1>4, <1>5 DEF TableInvOf, TableOwned

\* The table and its owners agree after every step of every goroutine.
LEMMA StepTable ==
    ASSUME TypeOK, TableInv, [Next]_vars
    PROVE  TableInv'
<1> SUFFICES ASSUME NEW e \in Devices PROVE TableInvOf(e)'
  BY TableInvSplit DEF TableInv, TableInvOf, IndexTableConsistent
<1>0. TableInvOf(e)
  BY TableInvSplit
<1>1. ASSUME NEW d \in Devices, NEW i \in Indices, CreateMessageInitiation(d, i)
      PROVE  TableInvOf(e)'
  <2>1. CASE e = d
    <3>1. /\ Delete(table[d], handshake[d].localIndex)[i].kind = "free"
          /\ table'[d] = [Delete(table[d], handshake[d].localIndex) EXCEPT ![i] = HandshakeEntry]
          /\ handshake'[d].localIndex = i
          /\ UNCHANGED <<heap, keypairs>>
      BY <1>1 DEF CreateMessageInitiation, TypeOK, HandshakeTypes, Handshakes, KeypairTypes
    <3> QED
      BY <1>0, <2>1, <3>1, NewIndexKeepsTable
  <2>2. CASE e # d
    BY <1>0, <1>1, <2>2, TableUntouched
        DEF CreateMessageInitiation, TypeOK, HandshakeTypes, KeypairTypes
  <2> QED
    BY <2>1, <2>2
<1>2. ASSUME NEW d \in Devices, NEW w \in Workers, NEW i \in Indices,
             CreateMessageResponse(d, w, i)
      PROVE  TableInvOf(e)'
  <2>1. CASE e = d
    <3>1. /\ Delete(table[d], handshake[d].localIndex)[i].kind = "free"
          /\ table'[d] = [Delete(table[d], handshake[d].localIndex) EXCEPT ![i] = HandshakeEntry]
          /\ handshake'[d].localIndex = i
          /\ UNCHANGED <<heap, keypairs>>
      BY <1>2 DEF CreateMessageResponse, TypeOK, HandshakeTypes, Handshakes, KeypairTypes
    <3> QED
      BY <1>0, <2>1, <3>1, NewIndexKeepsTable
  <2>2. CASE e # d
    BY <1>0, <1>2, <2>2, TableUntouched
        DEF CreateMessageResponse, TypeOK, HandshakeTypes, KeypairTypes
  <2> QED
    BY <2>1, <2>2
<1>3. ASSUME NEW d \in Devices, NEW w \in Workers,
             \/ \E m \in net : CheckInitiation(d, w, m) \/ CheckResponse(d, w, m)
             \/ ResponseRefused(d, w) \/ SessionRefused(d, w)
      PROVE  TableInvOf(e)'
  <2>1. UNCHANGED <<handshake, table, heap, keypairs>>
    BY <1>3 DEF CheckInitiation, CheckResponse, ResponseRefused, SessionRefused
  <2> QED
    BY <1>0, <2>1, TableUntouched
<1>4. ASSUME NEW d \in Devices, NEW w \in Workers,
             ConsumeInitiation(d, w) \/ ConsumeResponse(d, w)
      PROVE  TableInvOf(e)'
  <2>1. handshake'[e].localIndex = handshake[e].localIndex
    <3>1. CASE ConsumeInitiation(d, w)
      BY <3>1 DEF ConsumeInitiation, TypeOK, HandshakeTypes, Handshakes
    <3>2. CASE ConsumeResponse(d, w)
      BY <3>2 DEF ConsumeResponse, TypeOK, HandshakeTypes, Handshakes
    <3> QED
      BY <1>4, <3>1, <3>2
  <2>2. UNCHANGED <<table, heap, keypairs>>
    BY <1>4 DEF ConsumeInitiation, ConsumeResponse
  <2> QED
    BY <1>0, <2>1, <2>2, TableUntouched
<1>5. ASSUME NEW d \in Devices, NEW w \in Workers, BeginSession(d, w) PROVE TableInvOf(e)'
  <2>1. CASE e = d
    BY <1>0, <1>5, <2>1, SessionKeepsTable
  <2>2. CASE e # d
    BY <1>0, <1>5, <2>2, TableUntouched
        DEF BeginSession, BeginSymmetricSession, TypeOK, HandshakeTypes, KeypairTypes
  <2> QED
    BY <2>1, <2>2
<1>6. ASSUME NEW d \in Devices, SendTransport(d) PROVE TableInvOf(e)'
  <2> DEFINE k == keypairs[d].current
             kp == [heap[d][k] EXCEPT !.sendNonce = heap[d][k].sendNonce + 1]
  <2>1. k \in 1..Len(heap[d])
    BY <1>6 DEF TypeOK, KeypairTypes, Slots, SendTransport
  <2>2. heap[d][k] \in Keypairs
    BY <2>1, ElementOfSeq DEF TypeOK, KeypairTypes
  <2>3. kp \in Keypairs /\ kp.localIndex = heap[d][k].localIndex
    BY <1>6, <2>2, LimitAssumption DEF Keypairs, SendTransport
  <2>4. heap' = [heap EXCEPT ![d] = [heap[d] EXCEPT ![k] = kp]]
    BY <1>6 DEF SendTransport
  <2>5. \A j \in 1..Len(heap[e]) : heap'[e][j].localIndex = heap[e][j].localIndex
    <3> HIDE DEF k, kp
    <3> QED
      BY <2>1, <2>3, <2>4, HeapUpdated
  <2> QED
    BY <1>0, <1>6, <2>5, TableUntouched DEF SendTransport
<1>7. ASSUME NEW d \in Devices, NEW m \in net, ReceiveTransport(d, m) PROVE TableInvOf(e)'
  BY <1>0, <1>7, TableUntouched DEF ReceiveTransport
<1>8. ASSUME NEW d \in Devices, SequentialReceive(d) PROVE TableInvOf(e)'
  <2> DEFINE k == Head(inbound[d]).keypair
             m == Head(inbound[d]).msg
             kp == [heap[d][k] EXCEPT !.seen = heap[d][k].seen \cup {m.nonce}]
             slots == keypairs[d]
             ks == {slots.previous}
  <2>1. k \in 1..Len(heap[d]) /\ m \in Transports
    BY <1>8, InboundHead DEF SequentialReceive
  <2>2. heap[d][k] \in Keypairs
    BY <2>1, ElementOfSeq DEF TypeOK, KeypairTypes
  <2>3. kp \in Keypairs /\ kp.localIndex = heap[d][k].localIndex
    BY <2>1, <2>2 DEF Keypairs, Transports
  <2>4. heap' = heap \/ heap' = [heap EXCEPT ![d] = [heap[d] EXCEPT ![k] = kp]]
    BY <1>8 DEF SequentialReceive
  <2>5. \A j \in 1..Len(heap[e]) : heap'[e][j].localIndex = heap[e][j].localIndex
    <3> HIDE DEF k, kp
    <3> QED
      BY <2>1, <2>3, <2>4, HeapUpdated
  <2>6. handshake' = handshake
    BY <1>8 DEF SequentialReceive
  <2>7. CASE UNCHANGED <<keypairs, table>> \/ e # d
    <3>1. keypairs'[e] = keypairs[e] /\ table'[e] = table[e]
      BY <1>8, <2>7 DEF SequentialReceive, TypeOK, KeypairTypes
    <3> QED
      BY <1>0, <2>5, <2>6, <3>1, TableUntouched
  <2>8. CASE /\ e = d
             /\ slots.next = k
             /\ keypairs' = [keypairs EXCEPT ![d] =
                               [current |-> k, previous |-> slots.current, next |-> None]]
             /\ table' = [table EXCEPT ![d] = DeleteKeypairs(d, table[d], ks)]
    <3>1. /\ keypairs'[d] = [current |-> k, previous |-> slots.current, next |-> None]
          /\ table'[d] = DeleteKeypairs(d, table[d], ks)
      BY <2>8 DEF TypeOK, KeypairTypes
    <3>2. /\ ks \ {None} \subseteq Slots(d)
          /\ Slots(d)' = Slots(d) \ ks
          /\ k # slots.current
      BY <1>0, <2>1, <2>8, <3>1 DEF Slots, None, TableInvOf, TableOwned
    <3> HIDE DEF ks, k
    <3>3. /\ keypairs'[d].current # None
                => keypairs'[d].current \notin {keypairs'[d].previous, keypairs'[d].next}
          /\ keypairs'[d].previous # None => keypairs'[d].previous # keypairs'[d].next
      BY <3>1, <3>2 DEF None
    <3> QED
      BY <1>0, <2>5, <2>6, <2>8, <3>1, <3>2, <3>3, DropKeepsTable
  <2> QED
    BY <1>8, <2>7, <2>8 DEF SequentialReceive
<1>9. ASSUME NEW d \in Devices, ZeroKeypairs(d) PROVE TableInvOf(e)'
  <2> DEFINE ks == {keypairs[d].current, keypairs[d].previous, keypairs[d].next}
  <2>1. UNCHANGED <<handshake, heap>>
    BY <1>9 DEF ZeroKeypairs
  <2>2. CASE e # d
    BY <1>0, <1>9, <2>1, <2>2, TableUntouched DEF ZeroKeypairs, TypeOK, KeypairTypes
  <2>3. CASE e = d
    <3>1. keypairs'[d] = NoKeypairs /\ table'[d] = DeleteKeypairs(d, table[d], ks)
      BY <1>9 DEF ZeroKeypairs, TypeOK, KeypairTypes
    <3>2. ks \ {None} \subseteq Slots(d) /\ Slots(d)' = Slots(d) \ ks
      BY <3>1 DEF Slots, NoKeypairs
    <3> HIDE DEF ks
    <3> QED
      BY <1>0, <2>1, <2>3, <3>1, <3>2, DropKeepsTable DEF NoKeypairs
  <2> QED
    BY <2>2, <2>3
<1>10. ASSUME NEW d \in Devices, ZeroHandshake(d) PROVE TableInvOf(e)'
  <2>1. CASE e = d
    BY <1>0, <1>10, <2>1, ZeroHandshakeKeepsTable
  <2>2. CASE e # d
    BY <1>0, <1>10, <2>2, TableUntouched DEF ZeroHandshake, TypeOK, HandshakeTypes, KeypairTypes
  <2> QED
    BY <2>1, <2>2
<1>11. CASE UNCHANGED vars
  BY <1>0, <1>11, TableUntouched DEF vars
<1> QED
  BY <1>1, <1>2, <1>3, <1>4, <1>5, <1>6, <1>7, <1>8, <1>9, <1>10, <1>11 DEF Next, Worker

\* For any number of workers and any indices, the index table holds exactly the
\* keypairs in use and the handshake in progress, whatever interleaves.
THEOREM TableAgreesWithOwners == Spec => []IndexTableConsistent
<1>1. Init => TypeOK /\ TableInv
  BY InitTypeOK, InitTable
<1>2. TypeOK /\ TableInv /\ [Next]_vars => (TypeOK /\ TableInv)'
  BY StepTypeOK, StepTable
<1>3. TableInv => IndexTableConsistent
  BY DEF TableInv
<1> QED
  BY <1>1, <1>2, <1>3, PTL DEF Spec


-----------------------------------------------------------------------------
(***************************************************************************)
(* The rest holds when a device has one handshake worker, as on one CPU:   *)
(* with two, KeyDerivedOnce is false (the run handshake_duplicate).        *)
(***************************************************************************)
OneWorker == \A v, w \in Workers : v = w

\* The session keys a device has derived.
Derived(d) == {heap[d][k].key : k \in 1..Len(heap[d])}

\* No key was derived from the initiation, or the response, that d made with
\* its n-th ephemeral.
UnusedFirst(d, n) ==
    n <= ephemerals[d] /\ \A key \in Derived(d) : key.initiator = d => key.first # n

UnusedSecond(d, n) ==
    n <= ephemerals[d] /\ \A key \in Derived(d) : key.initiator # d => key.second # n

\* A key is made with an ephemeral of the device's own, and the ephemeral of the
\* handshake in progress or of a checked response is not used up.
FreshKeys(d) ==
    /\ \A key \in Derived(d) :
          /\ key.initiator = d => key.first <= ephemerals[d]
          /\ key.initiator # d => key.second <= ephemerals[d]
    /\ handshake[d].state \in {"InitiationCreated", "ResponseConsumed"}
          => UnusedFirst(d, handshake[d].chain.first)
    /\ handshake[d].state = "ResponseCreated" => UnusedSecond(d, handshake[d].chain.second)
    /\ \A w \in Workers :
          job[d][w].stage = "finish" => UnusedFirst(d, job[d][w].msg.key.first)

KeyInv == KeyDerivedOnce /\ \A d \in Devices : FreshKeys(d)

\* What was delivered is marked in the replay filter of its key.
DeliveredMarked(d) ==
    \A n \in 1..Len(delivered[d]) : \E k \in 1..Len(heap[d]) :
        /\ heap[d][k].key = delivered[d][n].key
        /\ delivered[d][n].nonce \in heap[d][k].seen

DeliveredInv == DeliveredOnce /\ \A d \in Devices : DeliveredMarked(d)

\* The sender of a response or a packet has derived its key: when a responder
\* begins the session its chain is still the one of the response in hand.
SentIsDerived(d) ==
    \A m \in net : m.from = d /\ m.type # "initiation" => m.key \in Derived(d)

BeginsItsOwn(d) ==
    \A w \in Workers :
        job[d][w].stage = "begin" /\ Derivable(d) /\ job[d][w].msg.from = d
            => handshake[d].chain = job[d][w].msg.key

\* What a device takes from the other end, the other end has derived: a response
\* in hand, the chain made from it, a queued packet, and the key it sends under.
FinishIsDerived(d) ==
    \A w \in Workers :
        job[d][w].stage = "finish"
            => job[d][w].msg.from = Peer(d) /\ job[d][w].msg.key \in Derived(Peer(d))

ConsumedIsDerived(d) ==
    handshake[d].state = "ResponseConsumed" => handshake[d].chain \in Derived(Peer(d))

InboundIsDerived(d) ==
    \A n \in 1..Len(inbound[d]) : inbound[d][n].msg.key \in Derived(Peer(d))

CurrentIsDerived(d) ==
    keypairs[d].current # None => heap[d][keypairs[d].current].key \in Derived(Peer(d))

Confirmed(d) ==
    /\ SentIsDerived(d) /\ BeginsItsOwn(d) /\ FinishIsDerived(d)
    /\ ConsumedIsDerived(d) /\ InboundIsDerived(d) /\ CurrentIsDerived(d)

ConfirmInv == \A d \in Devices : Confirmed(d)

\* A step that derives nothing for e: the keys stay, the filters only grow.
HeapKept(e) ==
    /\ Len(heap'[e]) = Len(heap[e])
    /\ \A j \in 1..Len(heap[e]) :
          heap'[e][j].key = heap[e][j].key /\ heap[e][j].seen \subseteq heap'[e][j].seen

\* What BeginSession adds to the heap.
LEMMA SessionDerives ==
    ASSUME TypeOK, NEW d \in Devices, NEW w \in Workers, BeginSession(d, w)
    PROVE  /\ handshake[d].chain \in Keys
           /\ Len(heap[d]) \in Nat
           /\ Len(heap'[d]) = Len(heap[d]) + 1
           /\ \A j \in 1..Len(heap[d]) : heap'[d][j] = heap[d][j]
           /\ heap'[d][Len(heap[d]) + 1].key = handshake[d].chain
           /\ \A e \in Devices : e # d => heap'[e] = heap[e]
<1> DEFINE h == handshake[d]
           kp == [key |-> h.chain, isInitiator |-> h.state = "ResponseConsumed",
                  localIndex |-> h.localIndex, remoteIndex |-> h.remoteIndex,
                  sendNonce |-> 0, seen |-> {}]
<1>1. kp \in Keypairs
  BY LimitAssumption DEF TypeOK, HandshakeTypes, Handshakes, ChainOK, BeginSession, Derivable,
      Keypairs
<1>2. kp.key = h.chain /\ h.chain \in Keys
  BY DEF TypeOK, HandshakeTypes, ChainOK, BeginSession, Derivable
<1>3. heap' = [heap EXCEPT ![d] = Append(heap[d], kp)]
  BY DEF BeginSession, BeginSymmetricSession
<1>4. heap[d] \in Seq(Keypairs) /\ Len(heap[d]) \in Nat
  BY LenProperties DEF TypeOK, KeypairTypes
<1> HIDE DEF kp
<1>5. heap'[d] = Append(heap[d], kp) /\ \A e \in Devices : e # d => heap'[e] = heap[e]
  BY <1>3 DEF TypeOK, KeypairTypes
<1> QED
  BY <1>1, <1>2, <1>4, <1>5, HeapAppended

\* Only deriving a session adds a keypair.
LEMMA HeapOfStep ==
    ASSUME TypeOK, [Next]_vars, NEW e \in Devices
    PROVE  HeapKept(e) \/ \E w \in Workers : BeginSession(e, w)
<1>1. ASSUME heap'[e] = heap[e] PROVE HeapKept(e)
  BY <1>1 DEF HeapKept
<1>2. ASSUME NEW d \in Devices, SendTransport(d) PROVE HeapKept(e)
  <2> DEFINE k == keypairs[d].current
             kp == [heap[d][k] EXCEPT !.sendNonce = heap[d][k].sendNonce + 1]
  <2>1. k \in 1..Len(heap[d])
    BY <1>2 DEF TypeOK, KeypairTypes, Slots, SendTransport
  <2>2. heap[d][k] \in Keypairs
    BY <2>1, ElementOfSeq DEF TypeOK, KeypairTypes
  <2>3. kp \in Keypairs /\ kp.key = heap[d][k].key /\ kp.seen = heap[d][k].seen
    BY <1>2, <2>2, LimitAssumption DEF Keypairs, SendTransport
  <2>4. heap' = [heap EXCEPT ![d] = [heap[d] EXCEPT ![k] = kp]]
    BY <1>2 DEF SendTransport
  <2> HIDE DEF k, kp
  <2> QED
    BY <2>1, <2>3, <2>4, HeapUpdated DEF HeapKept
<1>3. ASSUME NEW d \in Devices, SequentialReceive(d) PROVE HeapKept(e)
  <2> DEFINE k == Head(inbound[d]).keypair
             m == Head(inbound[d]).msg
             kp == [heap[d][k] EXCEPT !.seen = heap[d][k].seen \cup {m.nonce}]
  <2>1. k \in 1..Len(heap[d]) /\ m \in Transports
    BY <1>3, InboundHead DEF SequentialReceive
  <2>2. heap[d][k] \in Keypairs
    BY <2>1, ElementOfSeq DEF TypeOK, KeypairTypes
  <2>3. kp \in Keypairs /\ kp.key = heap[d][k].key /\ heap[d][k].seen \subseteq kp.seen
    BY <2>1, <2>2 DEF Keypairs, Transports
  <2>4. heap' = heap \/ heap' = [heap EXCEPT ![d] = [heap[d] EXCEPT ![k] = kp]]
    BY <1>3 DEF SequentialReceive
  <2> HIDE DEF k, kp, m
  <2> QED
    BY <1>1, <2>1, <2>3, <2>4, HeapUpdated DEF HeapKept
<1>4. ASSUME NEW d \in Devices, NEW w \in Workers, BeginSession(d, w), d # e PROVE HeapKept(e)
  BY <1>1, <1>4, SessionDerives
<1>5. CASE UNCHANGED vars
  BY <1>1, <1>5 DEF vars
<1>6. ASSUME NEW d \in Devices, NEW i \in Indices, CreateMessageInitiation(d, i) PROVE heap' = heap
  BY <1>6 DEF CreateMessageInitiation
<1>7. ASSUME NEW d \in Devices, NEW w \in Workers, Worker(d, w), ~BeginSession(d, w)
      PROVE  heap' = heap
  BY <1>7 DEF Worker, CheckInitiation, ConsumeInitiation, CreateMessageResponse, ResponseRefused,
      CheckResponse, ConsumeResponse, SessionRefused
<1>8. ASSUME NEW d \in Devices, \/ \E m \in net : ReceiveTransport(d, m)
                                \/ ZeroKeypairs(d) \/ ZeroHandshake(d)
      PROVE  heap' = heap
  BY <1>8 DEF ReceiveTransport, ZeroKeypairs, ZeroHandshake
<1> QED
  BY <1>1, <1>2, <1>3, <1>4, <1>5, <1>6, <1>7, <1>8 DEF Next

\* The keys derived after a step.
LEMMA DerivedOfStep ==
    ASSUME TypeOK, NEW e \in Devices
    PROVE  /\ HeapKept(e) => Derived(e)' = Derived(e)
           /\ \A w \in Workers : BeginSession(e, w) =>
                 Derived(e)' = Derived(e) \cup {handshake[e].chain}
<1>1. ASSUME HeapKept(e) PROVE Derived(e)' = Derived(e)
  BY <1>1 DEF HeapKept, Derived
<1>2. ASSUME NEW w \in Workers, BeginSession(e, w)
      PROVE  Derived(e)' = Derived(e) \cup {handshake[e].chain}
  <2> DEFINE n == Len(heap[e])
  <2>1. /\ n \in Nat
        /\ Len(heap'[e]) = n + 1
        /\ \A j \in 1..n : heap'[e][j] = heap[e][j]
        /\ heap'[e][n + 1].key = handshake[e].chain
    BY <1>2, SessionDerives
  <2>2. Derived(e)' = {heap'[e][k].key : k \in 1..(n + 1)}
    BY <2>1 DEF Derived
  <2>3. Derived(e) = {heap[e][k].key : k \in 1..n}
    BY DEF Derived
  <2> HIDE DEF n
  <2>4. \A k \in 1..(n + 1) : k \in 1..n \/ k = n + 1
    BY <2>1
  <2>5. \A k \in 1..n : k \in 1..(n + 1)
    BY <2>1
  <2>6. n + 1 \in 1..(n + 1)
    BY <2>1
  <2> QED
    BY <2>1, <2>2, <2>3, <2>4, <2>5, <2>6
<1> QED
  BY <1>1, <1>2

\* No key is ever forgotten.
LEMMA DerivedGrows ==
    ASSUME TypeOK, [Next]_vars
    PROVE  \A e \in Devices : Derived(e) \subseteq Derived(e)'
  BY HeapOfStep, DerivedOfStep

-----------------------------------------------------------------------------
\* At the start no key exists.
LEMMA InitKey == Init => KeyInv
  BY DEF Init, KeyInv, KeyDerivedOnce, FreshKeys, Derived, Idle

\* A device is untouched: so is what is fresh for it.
LEMMA FreshUntouched ==
    ASSUME NEW e \in Devices, FreshKeys(e), Derived(e)' = Derived(e),
           handshake'[e] = handshake[e], job'[e] = job[e], ephemerals'[e] = ephemerals[e]
    PROVE  FreshKeys(e)'
  BY DEF FreshKeys, UnusedFirst, UnusedSecond

\* A new session key is none of the earlier ones, and nothing in hand is used up by it.
LEMMA SessionKey ==
    ASSUME OneWorker, TypeOK, DirectionInv, KeyInv, NEW d \in Devices, NEW w \in Workers,
           BeginSession(d, w)
    PROVE  KeyDerivedOnce' /\ FreshKeys(d)'
<1> DEFINE h == handshake[d]
           n == Len(heap[d])
<1>1. /\ h.chain \in Keys
      /\ n \in Nat
      /\ Len(heap'[d]) = n + 1
      /\ \A j \in 1..n : heap'[d][j] = heap[d][j]
      /\ heap'[d][n + 1].key = h.chain
      /\ \A e \in Devices : e # d => heap'[e] = heap[e]
  BY SessionDerives
<1>2. /\ h.state \in {"ResponseConsumed", "ResponseCreated"}
      /\ FreshKeys(d)
      /\ OwnChain(d)
  BY DEF BeginSession, Derivable, KeyInv, DirectionInv
<1>3. h.state = "ResponseConsumed"
         => h.chain.initiator = d /\ UnusedFirst(d, h.chain.first)
  BY <1>2 DEF OwnChain, FreshKeys
<1>4. h.state = "ResponseCreated"
         => h.chain.initiator # d /\ UnusedSecond(d, h.chain.second)
  BY <1>2, PeerIsTheOther DEF OwnChain, FreshKeys
<1>5. h.chain \notin Derived(d)
  BY <1>2, <1>3, <1>4 DEF UnusedFirst, UnusedSecond
<1>6. \A j \in 1..n : heap[d][j].key # h.chain
  BY <1>5 DEF Derived
<1>7. Derived(d)' = Derived(d) \cup {h.chain}
  BY DerivedOfStep
<1>8. KeyDerivedOnce'
  <2> SUFFICES ASSUME NEW e \in Devices, NEW j \in 1..Len(heap'[e]), NEW k \in 1..Len(heap'[e]),
                      heap'[e][j].key = heap'[e][k].key
               PROVE  j = k
    BY DEF KeyDerivedOnce
  <2>1. CASE e # d
    BY <1>1, <2>1 DEF KeyInv, KeyDerivedOnce
  <2>2. CASE e = d
    <3>1. (j \in 1..n \/ j = n + 1) /\ (k \in 1..n \/ k = n + 1)
      BY <1>1, <2>2
    <3> HIDE DEF n
    <3> QED
      BY <1>1, <1>6, <2>2, <3>1 DEF KeyInv, KeyDerivedOnce, n
  <2> QED
    BY <2>1, <2>2
<1>9. FreshKeys(d)'
  <2>1. /\ handshake'[d].state = "Zeroed"
        /\ ephemerals' = ephemerals
        /\ job'[d][w] = Idle
    BY DEF BeginSession, BeginSymmetricSession, Clear, TypeOK, HandshakeTypes, Handshakes, WorkTypes
  <2>2. \A v \in Workers : job'[d][v].stage # "finish"
    BY <2>1 DEF OneWorker, Idle
  <2>3. \A key \in Derived(d)' : /\ key.initiator = d => key.first <= ephemerals'[d]
                                 /\ key.initiator # d => key.second <= ephemerals'[d]
    BY <1>2, <1>3, <1>4, <1>7, <2>1 DEF FreshKeys, UnusedFirst, UnusedSecond
  <2> QED
    BY <2>1, <2>2, <2>3 DEF FreshKeys
<1> QED
  BY <1>8, <1>9

\* With one worker no key is derived twice: the responder's is made with a new
\* ephemeral, and the initiator's ends the only handshake with its ephemeral.
LEMMA StepKey ==
    ASSUME OneWorker, TypeOK, DirectionInv, KeyInv, [Next]_vars
    PROVE  KeyInv'
<1> SUFFICES ASSUME NEW e \in Devices PROVE KeyDerivedOnce' /\ FreshKeys(e)'
  BY DeviceAssumption DEF KeyInv
<1>0. FreshKeys(e) /\ OwnChain(e) /\ KeyDerivedOnce
  BY DEF KeyInv, DirectionInv
<1>1. ASSUME NEW d \in Devices, NEW w \in Workers, BeginSession(d, w)
      PROVE  KeyDerivedOnce' /\ FreshKeys(e)'
  <2>1. CASE e = d
    BY <1>1, <2>1, SessionKey
  <2>2. CASE e # d
    <3>1. Derived(e)' = Derived(e)
      BY <1>1, <2>2, SessionDerives DEF Derived
    <3>2. /\ handshake'[e] = handshake[e]
          /\ job'[e] = job[e]
          /\ ephemerals'[e] = ephemerals[e]
      BY <1>1, <2>2 DEF BeginSession, BeginSymmetricSession, TypeOK, HandshakeTypes, WorkTypes
    <3> QED
      BY <1>0, <1>1, <3>1, <3>2, FreshUntouched, SessionKey
  <2> QED
    BY <2>1, <2>2
<1>2. ASSUME \A d \in Devices, w \in Workers : ~BeginSession(d, w) PROVE KeyDerivedOnce' /\ FreshKeys(e)'
  <2>1. \A d \in Devices : HeapKept(d)
    BY <1>2, HeapOfStep
  <2>2. KeyDerivedOnce'
    BY <1>0, <2>1 DEF HeapKept, KeyDerivedOnce
  <2>3. Derived(e)' = Derived(e)
    BY <2>1, DerivedOfStep
  <2>4. \A key \in Derived(e) : key.first \in Nat /\ key.second \in Nat
    <3> SUFFICES ASSUME NEW k \in 1..Len(heap[e])
                 PROVE  heap[e][k].key.first \in Nat /\ heap[e][k].key.second \in Nat
      BY DEF Derived
    <3>1. heap[e][k] \in Keypairs
      BY ElementOfSeq DEF TypeOK, KeypairTypes
    <3> QED
      BY <3>1 DEF Keypairs, Keys, Ephemerals
  <2>5. ephemerals[e] \in Nat
    BY LimitAssumption DEF TypeOK, WorkTypes
  <2>6. ASSUME NEW d \in Devices, NEW i \in Indices, CreateMessageInitiation(d, i)
        PROVE  FreshKeys(e)'
    <3>1. CASE e # d
      BY <1>0, <2>3, <2>6, <3>1, FreshUntouched
          DEF CreateMessageInitiation, TypeOK, HandshakeTypes, WorkTypes
    <3>2. CASE e = d
      <4>1. /\ handshake'[e].state = "InitiationCreated"
            /\ handshake'[e].chain.first = ephemerals[e] + 1
            /\ ephemerals'[e] = ephemerals[e] + 1
            /\ job' = job
        BY <2>6, <3>2 DEF CreateMessageInitiation, Chain, TypeOK, HandshakeTypes, Handshakes, WorkTypes
      <4>2. \A v \in Workers : job[e][v].stage = "finish" => job[e][v].msg.key.first \in Nat
        BY DEF TypeOK, WorkTypes, Jobs, Idle, Responses, Keys, Ephemerals
      <4>3. \A v \in Workers :
               job[e][v].stage = "finish" => UnusedFirst(e, job[e][v].msg.key.first)
        BY <1>0 DEF FreshKeys
      <4>4. ASSUME NEW n \in Nat, UnusedFirst(e, n) PROVE UnusedFirst(e, n)'
        BY <2>3, <2>5, <4>1, <4>4 DEF UnusedFirst
      <4>5. (\A v \in Workers :
               job[e][v].stage = "finish" => UnusedFirst(e, job[e][v].msg.key.first))'
        BY <4>1, <4>2, <4>3, <4>4 DEF UnusedFirst
      <4>6. (\A key \in Derived(e) :
               /\ key.initiator = e => key.first <= ephemerals[e] /\ key.first # ephemerals[e]
               /\ key.initiator # e => key.second <= ephemerals[e])'
        BY <1>0, <2>3, <2>4, <2>5, <4>1 DEF FreshKeys
      <4>7. UnusedFirst(e, handshake[e].chain.first)'
        BY <2>5, <4>1, <4>6 DEF UnusedFirst
      <4> QED
        BY <4>1, <4>5, <4>6, <4>7 DEF FreshKeys
    <3> QED
      BY <3>1, <3>2
  <2>7. ASSUME NEW d \in Devices, NEW w \in Workers, NEW m \in net, CheckInitiation(d, w, m)
        PROVE  FreshKeys(e)'
    BY <1>0, <2>3, <2>7 DEF CheckInitiation, FreshKeys, UnusedFirst, UnusedSecond, TypeOK, WorkTypes
  <2>8. ASSUME NEW d \in Devices, NEW w \in Workers, ConsumeInitiation(d, w) PROVE FreshKeys(e)'
    <3>1. CASE e # d
      BY <1>0, <2>3, <2>8, <3>1, FreshUntouched
          DEF ConsumeInitiation, TypeOK, HandshakeTypes, WorkTypes
    <3>2. CASE e = d
      <4>1. /\ handshake'[e].state = "InitiationConsumed"
            /\ ephemerals' = ephemerals
        BY <2>8, <3>2 DEF ConsumeInitiation, TypeOK, HandshakeTypes, Handshakes
      <4>2. job'[e][w].stage = "respond" /\ \A v \in Workers : v = w
        BY <2>8, <3>2 DEF ConsumeInitiation, TypeOK, WorkTypes, Jobs, Idle, OneWorker
      <4> QED
        BY <1>0, <2>3, <4>1, <4>2 DEF FreshKeys
    <3> QED
      BY <3>1, <3>2
  <2>9. ASSUME NEW d \in Devices, NEW w \in Workers, NEW i \in Indices,
               CreateMessageResponse(d, w, i)
        PROVE  FreshKeys(e)'
    <3>1. CASE e # d
      BY <1>0, <2>3, <2>9, <3>1, FreshUntouched
          DEF CreateMessageResponse, TypeOK, HandshakeTypes, WorkTypes
    <3>2. CASE e = d
      <4>1. /\ handshake'[e].state = "ResponseCreated"
            /\ handshake'[e].chain.second = ephemerals[e] + 1
            /\ ephemerals'[e] = ephemerals[e] + 1
        BY <2>9, <3>2 DEF CreateMessageResponse, TypeOK, HandshakeTypes, Handshakes, Chains, WorkTypes
      <4>2. job'[e][w].stage = "begin" /\ \A v \in Workers : v = w
        BY <2>9, <3>2 DEF CreateMessageResponse, TypeOK, WorkTypes, OneWorker
      <4> QED
        BY <1>0, <2>3, <2>4, <2>5, <4>1, <4>2 DEF FreshKeys, UnusedSecond
    <3> QED
      BY <3>1, <3>2
  <2>10. ASSUME NEW d \in Devices, NEW w \in Workers, ResponseRefused(d, w) \/ SessionRefused(d, w)
         PROVE  FreshKeys(e)'
    <3>1. job' = [job EXCEPT ![d][w] = Idle] /\ UNCHANGED <<handshake, ephemerals>>
      BY <2>10 DEF ResponseRefused, SessionRefused
    <3> QED
      BY <1>0, <2>3, <3>1 DEF FreshKeys, UnusedFirst, UnusedSecond, Idle, TypeOK, WorkTypes
  <2>11. ASSUME NEW d \in Devices, NEW w \in Workers, NEW m \in net, CheckResponse(d, w, m)
         PROVE  FreshKeys(e)'
    <3>1. m \in Responses
      BY <2>11 DEF TypeOK, NetTypes, Messages, CheckResponse, Initiations, Transports
    <3>2. m.key.first = handshake[d].chain.first
      BY <2>11, <3>1 DEF CheckResponse, Responses, Keys
    <3>3. e = d => UnusedFirst(e, m.key.first)
      BY <1>0, <2>11, <3>2 DEF FreshKeys, CheckResponse
    <3> QED
      BY <1>0, <2>3, <2>11, <3>3 DEF CheckResponse, FreshKeys, UnusedFirst, UnusedSecond, TypeOK,
          WorkTypes
  <2>12. ASSUME NEW d \in Devices, NEW w \in Workers, ConsumeResponse(d, w) PROVE FreshKeys(e)'
    <3>1. CASE e # d
      BY <1>0, <2>3, <2>12, <3>1, FreshUntouched
          DEF ConsumeResponse, TypeOK, HandshakeTypes, WorkTypes
    <3>2. CASE e = d
      <4>1. /\ handshake'[e].state = "ResponseConsumed"
            /\ handshake'[e].chain = job[e][w].msg.key
            /\ ephemerals' = ephemerals
        BY <2>12, <3>2 DEF ConsumeResponse, TypeOK, HandshakeTypes, Handshakes
      <4>2. job'[e][w].stage = "begin" /\ \A v \in Workers : v = w
        BY <2>12, <3>2 DEF ConsumeResponse, TypeOK, WorkTypes, Jobs, Idle, OneWorker
      <4>3. UnusedFirst(e, job[e][w].msg.key.first)
        BY <1>0, <2>12, <3>2 DEF FreshKeys, ConsumeResponse
      <4> QED
        BY <1>0, <2>3, <4>1, <4>2, <4>3 DEF FreshKeys, UnusedFirst
    <3> QED
      BY <3>1, <3>2
  <2>13. ASSUME NEW d \in Devices, SendTransport(d) PROVE FreshKeys(e)'
    BY <1>0, <2>3, <2>13, FreshUntouched DEF SendTransport
  <2>14. ASSUME NEW d \in Devices, NEW m \in net, ReceiveTransport(d, m) PROVE FreshKeys(e)'
    BY <1>0, <2>3, <2>14, FreshUntouched DEF ReceiveTransport
  <2>15. ASSUME NEW d \in Devices, SequentialReceive(d) PROVE FreshKeys(e)'
    BY <1>0, <2>3, <2>15, FreshUntouched DEF SequentialReceive
  <2>16. ASSUME NEW d \in Devices, ZeroKeypairs(d) PROVE FreshKeys(e)'
    BY <1>0, <2>3, <2>16, FreshUntouched DEF ZeroKeypairs
  <2>17. ASSUME NEW d \in Devices, ZeroHandshake(d) PROVE FreshKeys(e)'
    <3>1. CASE e # d
      BY <1>0, <2>3, <2>17, <3>1, FreshUntouched DEF ZeroHandshake, TypeOK, HandshakeTypes
    <3>2. CASE e = d
      <4>1. handshake'[e].state = "Zeroed" /\ UNCHANGED <<job, ephemerals>>
        BY <2>17, <3>2 DEF ZeroHandshake, Clear, TypeOK, HandshakeTypes, Handshakes
      <4> QED
        BY <1>0, <2>3, <4>1 DEF FreshKeys, UnusedFirst
    <3> QED
      BY <3>1, <3>2
  <2>18. ASSUME UNCHANGED vars PROVE FreshKeys(e)'
    <3>1. /\ handshake'[e] = handshake[e]
          /\ job'[e] = job[e]
          /\ ephemerals'[e] = ephemerals[e]
      BY <2>18 DEF vars
    <3> QED
      BY <1>0, <2>3, <3>1, FreshUntouched
  <2>19. FreshKeys(e)'
    BY <1>2, <2>6, <2>7, <2>8, <2>9, <2>10, <2>11, <2>12, <2>13, <2>14, <2>15, <2>16, <2>17,
        <2>18 DEF Next, Worker
  <2> QED
    BY <2>2, <2>19
<1> QED
  BY <1>1, <1>2

\* With one handshake worker, however the network repeats and reorders and the
\* timers cut in, no session key is derived a second time by a device.
THEOREM KeysAreFresh ==
    ASSUME OneWorker
    PROVE  Spec => []KeyDerivedOnce
<1>1. Init => TypeOK /\ DirectionInv /\ KeyInv
  BY InitTypeOK, InitDirection, InitKey
<1>2. TypeOK /\ DirectionInv /\ KeyInv /\ [Next]_vars => (TypeOK /\ DirectionInv /\ KeyInv)'
  BY OneWorker, StepTypeOK, StepDirection, StepKey
<1>3. KeyInv => KeyDerivedOnce
  BY DEF KeyInv
<1> QED
  BY <1>1, <1>2, <1>3, PTL DEF Spec

-----------------------------------------------------------------------------
\* A mark in a replay filter stays.
LEMMA MarksStay ==
    ASSUME TypeOK, [Next]_vars, NEW e \in Devices, NEW m,
           NEW k \in 1..Len(heap[e]), heap[e][k].key = m.key, m.nonce \in heap[e][k].seen
    PROVE  \E j \in 1..Len(heap'[e]) : heap'[e][j].key = m.key /\ m.nonce \in heap'[e][j].seen
<1>1. CASE HeapKept(e)
  BY <1>1 DEF HeapKept
<1>2. ASSUME NEW w \in Workers, BeginSession(e, w)
      PROVE  k \in 1..Len(heap'[e]) /\ heap'[e][k] = heap[e][k]
  BY <1>2, SessionDerives
<1> QED
  BY <1>1, <1>2, HeapOfStep

\* At the start nothing is delivered.
LEMMA InitDelivered == Init => DeliveredInv
  BY DEF Init, DeliveredInv, DeliveredOnce, DeliveredMarked

\* A packet is delivered only if its key's filter has no mark for it, and is marked.
LEMMA StepDelivered ==
    ASSUME TypeOK, KeyInv, DeliveredInv, [Next]_vars
    PROVE  DeliveredInv'
<1>1. ASSUME delivered' = delivered PROVE DeliveredInv'
  <2>1. DeliveredOnce'
    BY <1>1 DEF DeliveredInv, DeliveredOnce
  <2>2. \A e \in Devices : DeliveredMarked(e)'
    <3> SUFFICES ASSUME NEW e \in Devices, NEW n \in 1..Len(delivered[e])
                 PROVE  \E j \in 1..Len(heap'[e]) :
                           /\ heap'[e][j].key = delivered[e][n].key
                           /\ delivered[e][n].nonce \in heap'[e][j].seen
      BY <1>1 DEF DeliveredMarked
    <3>1. PICK k \in 1..Len(heap[e]) : /\ heap[e][k].key = delivered[e][n].key
                                       /\ delivered[e][n].nonce \in heap[e][k].seen
      BY DEF DeliveredInv, DeliveredMarked
    <3> QED
      BY <3>1, MarksStay
  <2> QED
    BY <2>1, <2>2 DEF DeliveredInv
<1>2. ASSUME NEW d \in Devices, SequentialReceive(d), delivered' # delivered
      PROVE  DeliveredInv'
  <2> DEFINE k == Head(inbound[d]).keypair
             m == Head(inbound[d]).msg
             kp == [heap[d][k] EXCEPT !.seen = heap[d][k].seen \cup {m.nonce}]
             N == Len(delivered[d])
  <2>1. k \in 1..Len(heap[d]) /\ m \in Transports
    BY <1>2, InboundHead DEF SequentialReceive
  <2>2. heap[d][k] \in Keypairs
    BY <2>1, ElementOfSeq DEF TypeOK, KeypairTypes
  <2>3. kp \in Keypairs /\ kp.key = heap[d][k].key /\ m.nonce \in kp.seen
    BY <2>1, <2>2 DEF Keypairs, Transports
  <2>4. /\ heap[d][k].key = m.key
        /\ m.nonce \notin heap[d][k].seen
        /\ heap' = [heap EXCEPT ![d] = [heap[d] EXCEPT ![k] = kp]]
        /\ delivered' = [delivered EXCEPT ![d] = Append(delivered[d], m)]
    BY <1>2 DEF SequentialReceive, Acceptable
  <2> HIDE DEF k, m, kp
  <2>5. /\ Len(heap'[d]) = Len(heap[d])
        /\ heap'[d][k] = kp
    <3>1. [heap[d] EXCEPT ![k] = kp][k] = kp /\ Len([heap[d] EXCEPT ![k] = kp]) = Len(heap[d])
      BY <2>1, <2>3, ExceptSeq DEF TypeOK, KeypairTypes
    <3>2. heap'[d] = [heap[d] EXCEPT ![k] = kp]
      BY <2>4 DEF TypeOK, KeypairTypes
    <3> QED
      BY <3>1, <3>2
  <2>6. /\ delivered'[d] = Append(delivered[d], m)
        /\ \A e \in Devices : e # d => delivered'[e] = delivered[e]
        /\ delivered[d] \in Seq(Transports)
    BY <2>4 DEF TypeOK, NetTypes
  <2>7. /\ N \in Nat
        /\ Len(delivered'[d]) = N + 1
        /\ \A n \in 1..N : delivered'[d][n] = delivered[d][n]
        /\ delivered'[d][N + 1] = m
    BY <2>1, <2>6, AppendProperties, LenProperties
  <2>8. \A n \in 1..N : delivered[d][n] # m
    <3> SUFFICES ASSUME NEW n \in 1..N, delivered[d][n] = m PROVE FALSE
      OBVIOUS
    <3>1. PICK j \in 1..Len(heap[d]) : /\ heap[d][j].key = m.key
                                       /\ m.nonce \in heap[d][j].seen
      BY DEF DeliveredInv, DeliveredMarked
    <3>2. j = k
      BY <2>1, <2>4, <3>1 DEF KeyInv, KeyDerivedOnce
    <3> QED
      BY <2>4, <3>1, <3>2
  <2>9. DeliveredOnce'
    <3> SUFFICES ASSUME NEW e \in Devices,
                        NEW i \in 1..Len(delivered'[e]), NEW j \in 1..Len(delivered'[e]),
                        delivered'[e][i] = delivered'[e][j]
                 PROVE  i = j
      BY DEF DeliveredOnce
    <3>1. CASE e # d
      BY <2>6, <3>1 DEF DeliveredInv, DeliveredOnce
    <3>2. CASE e = d
      <4>1. (i \in 1..N \/ i = N + 1) /\ (j \in 1..N \/ j = N + 1)
        BY <2>7, <3>2
      <4> QED
        BY <2>7, <2>8, <3>2, <4>1 DEF DeliveredInv, DeliveredOnce
    <3> QED
      BY <3>1, <3>2
  <2>10. ASSUME NEW e \in Devices PROVE DeliveredMarked(e)'
    <3> SUFFICES ASSUME NEW n \in 1..Len(delivered'[e])
                 PROVE  \E j \in 1..Len(heap'[e]) :
                           /\ heap'[e][j].key = delivered'[e][n].key
                           /\ delivered'[e][n].nonce \in heap'[e][j].seen
      BY DEF DeliveredMarked
    <3>1. CASE e = d /\ n = N + 1
      <4>1. k \in 1..Len(heap'[d]) /\ heap'[d][k] = kp
        BY <2>1, <2>5
      <4> QED
        BY <2>3, <2>4, <2>7, <3>1, <4>1
    <3>2. CASE ~(e = d /\ n = N + 1)
      <4>1. n \in 1..Len(delivered[e]) /\ delivered'[e][n] = delivered[e][n]
        BY <2>6, <2>7, <3>2
      <4>2. PICK j \in 1..Len(heap[e]) : /\ heap[e][j].key = delivered[e][n].key
                                         /\ delivered[e][n].nonce \in heap[e][j].seen
        BY <4>1 DEF DeliveredInv, DeliveredMarked
      <4>3. \E i \in 1..Len(heap'[e]) : /\ heap'[e][i].key = delivered[e][n].key
                                        /\ delivered[e][n].nonce \in heap'[e][i].seen
        BY <4>2, MarksStay
      <4> QED
        BY <4>1, <4>3
    <3> QED
      BY <3>1, <3>2
  <2> QED
    BY <2>9, <2>10 DEF DeliveredInv
<1>3. ASSUME delivered' # delivered PROVE \E d \in Devices : SequentialReceive(d)
  <2>1. Next
    BY <1>3 DEF vars
  <2>2. ASSUME NEW d \in Devices, NEW w \in Workers, Worker(d, w) PROVE delivered' = delivered
    BY <2>2 DEF Worker, CheckInitiation, ConsumeInitiation, CreateMessageResponse,
        ResponseRefused, CheckResponse, ConsumeResponse, BeginSession, SessionRefused
  <2>3. ASSUME NEW d \in Devices,
               \/ \E i \in Indices : CreateMessageInitiation(d, i)
               \/ SendTransport(d) \/ \E m \in net : ReceiveTransport(d, m)
               \/ ZeroKeypairs(d) \/ ZeroHandshake(d)
        PROVE  delivered' = delivered
    BY <2>3 DEF CreateMessageInitiation, SendTransport, ReceiveTransport, ZeroKeypairs,
        ZeroHandshake
  <2> QED
    BY <1>3, <2>1, <2>2, <2>3 DEF Next
<1> QED
  BY <1>1, <1>2, <1>3

\* With one handshake worker a packet reaches the tun at most once, whatever the
\* network repeats and whichever keypairs come and go.
THEOREM PacketsAreDeliveredOnce ==
    ASSUME OneWorker
    PROVE  Spec => []DeliveredOnce
<1> DEFINE Inv == TypeOK /\ DirectionInv /\ KeyInv /\ DeliveredInv
<1>1. Init => Inv
  BY InitTypeOK, InitDirection, InitKey, InitDelivered
<1>2. Inv /\ [Next]_vars => Inv'
  BY OneWorker, StepTypeOK, StepDirection, StepKey, StepDelivered
<1>3. Inv => DeliveredOnce
  BY DEF DeliveredInv
<1> QED
  BY <1>1, <1>2, <1>3, PTL DEF Spec

-----------------------------------------------------------------------------
\* At the start nothing was sent and nothing is in use.
LEMMA InitConfirm == Init => ConfirmInv
<1> SUFFICES ASSUME Init, NEW d \in Devices PROVE Confirmed(d)
  BY DEF ConfirmInv
<1>1. SentIsDerived(d) /\ InboundIsDerived(d) /\ CurrentIsDerived(d)
  BY DEF Init, SentIsDerived, InboundIsDerived, CurrentIsDerived, NoKeypairs
<1>2. BeginsItsOwn(d) /\ FinishIsDerived(d) /\ ConsumedIsDerived(d)
  BY DEF Init, BeginsItsOwn, FinishIsDerived, ConsumedIsDerived, Idle
<1> QED
  BY <1>1, <1>2 DEF Confirmed

\* A step never changes the key of a keypair.
LEMMA KeysStay ==
    ASSUME TypeOK, [Next]_vars, NEW e \in Devices, NEW k \in 1..Len(heap[e])
    PROVE  heap'[e][k].key = heap[e][k].key
<1>1. ASSUME NEW w \in Workers, BeginSession(e, w) PROVE heap'[e][k] = heap[e][k]
  BY <1>1, SessionDerives
<1> QED
  BY <1>1, HeapOfStep DEF HeapKept

\* What a step leaves alone stays backed by the other end's keys, which only grow.
LEMMA ConfirmUntouched ==
    ASSUME TypeOK, [Next]_vars, NEW e \in Devices, Confirmed(e)
    PROVE  /\ net' = net => SentIsDerived(e)'
           /\ job'[e] = job[e] => FinishIsDerived(e)'
           /\ handshake'[e] = handshake[e] => ConsumedIsDerived(e)'
           /\ job'[e] = job[e] /\ handshake'[e] = handshake[e] => BeginsItsOwn(e)'
           /\ inbound'[e] = inbound[e] => InboundIsDerived(e)'
           /\ keypairs'[e] = keypairs[e] => CurrentIsDerived(e)'
<1>1. Derived(e) \subseteq Derived(e)' /\ Derived(Peer(e)) \subseteq Derived(Peer(e))'
  BY DerivedGrows, PeerIsTheOther
<1> USE DEF Confirmed
<1>2. net' = net => SentIsDerived(e)'
  BY <1>1 DEF SentIsDerived
<1>3. job'[e] = job[e] => FinishIsDerived(e)'
  BY <1>1 DEF FinishIsDerived
<1>4. handshake'[e] = handshake[e] => ConsumedIsDerived(e)'
  BY <1>1 DEF ConsumedIsDerived
<1>5. job'[e] = job[e] /\ handshake'[e] = handshake[e] => BeginsItsOwn(e)'
  BY DEF BeginsItsOwn, Derivable
<1>6. inbound'[e] = inbound[e] => InboundIsDerived(e)'
  BY <1>1 DEF InboundIsDerived
<1>7. ASSUME keypairs'[e] = keypairs[e] PROVE CurrentIsDerived(e)'
  <2>1. keypairs[e].current # None => keypairs[e].current \in 1..Len(heap[e])
    BY DEF TypeOK, KeypairTypes, Slots
  <2> QED
    BY <1>1, <1>7, <2>1, KeysStay DEF CurrentIsDerived
<1> QED
  BY <1>2, <1>3, <1>4, <1>5, <1>6, <1>7

\* Deriving a session: the response sent is under the key just derived, and a key
\* used at once is one the other end has.
LEMMA SessionConfirms ==
    ASSUME OneWorker, TypeOK, [Next]_vars, NEW d \in Devices, NEW w \in Workers,
           BeginSession(d, w), Confirmed(d)
    PROVE  SentIsDerived(d)' /\ CurrentIsDerived(d)'
<1> DEFINE h == handshake[d]
           n == Len(heap[d])
           m == job[d][w].msg
<1>1. /\ n \in Nat
      /\ Len(heap'[d]) = n + 1
      /\ heap'[d][n + 1].key = h.chain
  BY SessionDerives
<1>2. Derived(d)' = Derived(d) \cup {h.chain}
  BY DerivedOfStep
<1>3. Derived(Peer(d)) \subseteq Derived(Peer(d))'
  BY DerivedGrows, PeerIsTheOther
<1>4. SentIsDerived(d)'
  <2>1. net' = IF m.from = d THEN net \cup {m} ELSE net
    BY DEF BeginSession
  <2>2. m.from = d => m.key = h.chain
    BY DEF BeginSession, Confirmed, BeginsItsOwn
  <2> QED
    BY <1>2, <2>1, <2>2 DEF Confirmed, SentIsDerived
<1>5. CurrentIsDerived(d)'
  <2>1. keypairs'[d] = Rotated(keypairs[d], n + 1, h.state = "ResponseConsumed")
    BY DEF BeginSession, BeginSymmetricSession, TypeOK, KeypairTypes
  <2>2. CASE h.state = "ResponseConsumed"
    <3>1. keypairs'[d].current = n + 1
      BY <2>1, <2>2 DEF Rotated
    <3>2. h.chain \in Derived(Peer(d))
      BY <2>2 DEF Confirmed, ConsumedIsDerived
    <3> QED
      BY <1>1, <1>3, <3>1, <3>2 DEF CurrentIsDerived
  <2>3. CASE h.state # "ResponseConsumed"
    <3>1. keypairs'[d].current = keypairs[d].current
      BY <2>1, <2>3 DEF Rotated
    <3>2. keypairs[d].current # None => keypairs[d].current \in 1..Len(heap[d])
      BY DEF TypeOK, KeypairTypes, Slots
    <3> QED
      BY <1>3, <3>1, <3>2, KeysStay DEF Confirmed, CurrentIsDerived
  <2> QED
    BY <2>2, <2>3
<1> QED
  BY <1>4, <1>5

\* Opening a packet: a promoted keypair has the key the packet was sent under.
LEMMA ReceiveConfirms ==
    ASSUME TypeOK, [Next]_vars, NEW d \in Devices, SequentialReceive(d), Confirmed(d)
    PROVE  InboundIsDerived(d)' /\ CurrentIsDerived(d)'
<1> DEFINE k == Head(inbound[d]).keypair
           m == Head(inbound[d]).msg
<1>1. Derived(Peer(d)) \subseteq Derived(Peer(d))'
  BY DerivedGrows, PeerIsTheOther
<1>2. inbound[d] # <<>> /\ inbound'[d] = Tail(inbound[d])
  BY DEF SequentialReceive, TypeOK, KeypairTypes
<1>3. /\ k \in 1..Len(heap[d])
      /\ Len(inbound[d]) \in Nat \ {0}
      /\ Len(inbound'[d]) = Len(inbound[d]) - 1
      /\ \A n \in 1..Len(inbound'[d]) : inbound'[d][n] = inbound[d][n + 1]
  BY <1>2, InboundHead
<1>4. InboundIsDerived(d)'
  <2> SUFFICES ASSUME NEW n \in 1..Len(inbound'[d])
               PROVE  inbound'[d][n].msg.key \in Derived(Peer(d))'
    BY DEF InboundIsDerived
  <2>1. n + 1 \in 1..Len(inbound[d])
    BY <1>3
  <2> QED
    BY <1>1, <1>3, <2>1 DEF Confirmed, InboundIsDerived
<1>5. CurrentIsDerived(d)'
  <2>1. CASE keypairs' = keypairs
    BY <2>1, ConfirmUntouched
  <2>2. CASE /\ Acceptable(heap[d][k], m)
             /\ keypairs' = [keypairs EXCEPT ![d] =
                               [current |-> k, previous |-> keypairs[d].current, next |-> None]]
    <3>1. keypairs'[d].current = k
      BY <2>2 DEF TypeOK, KeypairTypes
    <3>2. heap'[d][k].key = m.key
      BY <1>3, <2>2, KeysStay DEF Acceptable
    <3>3. m.key \in Derived(Peer(d))
      <4>1. Head(inbound[d]) = inbound[d][1] /\ 1 \in 1..Len(inbound[d])
        BY <1>2, <1>3 DEF TypeOK, KeypairTypes
      <4> QED
        BY <4>1 DEF Confirmed, InboundIsDerived
    <3> QED
      BY <1>1, <3>1, <3>2, <3>3 DEF CurrentIsDerived
  <2> QED
    BY <2>1, <2>2 DEF SequentialReceive
<1> QED
  BY <1>4, <1>5

\* With one worker the keys a device sends and takes stay backed, action by action.
LEMMA StepConfirm ==
    ASSUME OneWorker, TypeOK, ConfirmInv, [Next]_vars
    PROVE  ConfirmInv'
<1> SUFFICES ASSUME NEW e \in Devices PROVE Confirmed(e)'
  BY DEF ConfirmInv
<1>0. Confirmed(e)
  BY DEF ConfirmInv
<1>a. Derived(e) \subseteq Derived(e)' /\ Derived(Peer(e)) \subseteq Derived(Peer(e))'
  BY DerivedGrows, PeerIsTheOther
<1>b. job[e] \in [Workers -> Jobs]
  BY DEF TypeOK, WorkTypes
<1>1. ASSUME NEW d \in Devices, NEW i \in Indices, CreateMessageInitiation(d, i)
      PROVE  Confirmed(e)'
  <2>1. UNCHANGED <<job, inbound, keypairs>>
    BY <1>1 DEF CreateMessageInitiation
  <2>2. SentIsDerived(e)'
    <3>1. PICK m : m.type = "initiation" /\ net' = net \cup {m}
      BY <1>1 DEF CreateMessageInitiation
    <3> QED
      BY <1>0, <1>a, <3>1 DEF Confirmed, SentIsDerived
  <2>3. ConsumedIsDerived(e)' /\ BeginsItsOwn(e)'
    <3>1. CASE e # d
      <4>1. handshake'[e] = handshake[e]
        BY <1>1, <3>1 DEF CreateMessageInitiation, TypeOK, HandshakeTypes
      <4> QED
        BY <1>0, <2>1, <4>1, ConfirmUntouched
    <3>2. CASE e = d
      <4>1. handshake'[e].state = "InitiationCreated"
        BY <1>1, <3>2 DEF CreateMessageInitiation, TypeOK, HandshakeTypes, Handshakes
      <4> QED
        BY <4>1 DEF ConsumedIsDerived, BeginsItsOwn, Derivable
    <3> QED
      BY <3>1, <3>2
  <2> QED
    BY <1>0, <2>1, <2>2, <2>3, ConfirmUntouched DEF Confirmed
<1>2. ASSUME NEW d \in Devices, NEW w \in Workers, Worker(d, w) PROVE Confirmed(e)'
  <2>1. CASE e # d
    <3>1. /\ job'[e] = job[e]
          /\ handshake'[e] = handshake[e]
          /\ inbound'[e] = inbound[e]
          /\ keypairs'[e] = keypairs[e]
      BY <1>2, <2>1 DEF Worker, CheckInitiation, ConsumeInitiation, CreateMessageResponse,
          ResponseRefused, CheckResponse, ConsumeResponse, BeginSession, BeginSymmetricSession,
          SessionRefused, TypeOK, HandshakeTypes, WorkTypes, KeypairTypes
    <3>2. SentIsDerived(e)'
      <4>1. CASE BeginSession(d, w)
        BY <1>0, <1>a, <2>1, <4>1 DEF BeginSession, Confirmed, SentIsDerived
      <4>2. CASE ~BeginSession(d, w)
        <5>1. net' = net
          BY <1>2, <4>2 DEF Worker, CheckInitiation, ConsumeInitiation, CreateMessageResponse,
              ResponseRefused, CheckResponse, ConsumeResponse, SessionRefused
        <5> QED
          BY <1>0, <5>1, ConfirmUntouched
      <4> QED
        BY <4>1, <4>2
    <3> QED
      BY <1>0, <3>1, <3>2, ConfirmUntouched DEF Confirmed
  <2>2. CASE e = d
    <3>0. \A v \in Workers : v = w
      BY DEF OneWorker
    <3>1. ASSUME NEW m \in net, CheckInitiation(d, w, m) PROVE Confirmed(e)'
      <4>1. UNCHANGED <<handshake, net, inbound, keypairs>> /\ job'[e][w].stage = "consume"
        BY <1>b, <2>2, <3>1 DEF CheckInitiation, TypeOK, WorkTypes
      <4>2. FinishIsDerived(e)' /\ BeginsItsOwn(e)'
        BY <3>0, <4>1 DEF FinishIsDerived, BeginsItsOwn
      <4> QED
        BY <1>0, <4>1, <4>2, ConfirmUntouched DEF Confirmed
    <3>2. CASE ConsumeInitiation(d, w)
      <4>1. /\ UNCHANGED <<net, inbound, keypairs>>
            /\ job'[e][w].stage = "respond"
            /\ handshake'[e].state = "InitiationConsumed"
        BY <1>b, <2>2, <3>2 DEF ConsumeInitiation, TypeOK, WorkTypes, Jobs, Idle, HandshakeTypes,
            Handshakes
      <4>2. FinishIsDerived(e)' /\ BeginsItsOwn(e)' /\ ConsumedIsDerived(e)'
        BY <3>0, <4>1 DEF FinishIsDerived, BeginsItsOwn, ConsumedIsDerived
      <4> QED
        BY <1>0, <4>1, <4>2, ConfirmUntouched DEF Confirmed
    <3>3. ASSUME NEW i \in Indices, CreateMessageResponse(d, w, i) PROVE Confirmed(e)'
      <4>1. /\ UNCHANGED <<net, inbound, keypairs>>
            /\ job'[e][w].stage = "begin"
            /\ handshake'[e].state = "ResponseCreated"
            /\ handshake'[e].chain = job'[e][w].msg.key
        BY <1>b, <2>2, <3>3 DEF CreateMessageResponse, TypeOK, WorkTypes, HandshakeTypes, Handshakes
      <4>2. FinishIsDerived(e)' /\ BeginsItsOwn(e)' /\ ConsumedIsDerived(e)'
        BY <3>0, <4>1 DEF FinishIsDerived, BeginsItsOwn, ConsumedIsDerived
      <4> QED
        BY <1>0, <4>1, <4>2, ConfirmUntouched DEF Confirmed
    <3>4. CASE ResponseRefused(d, w) \/ SessionRefused(d, w)
      <4>1. UNCHANGED <<handshake, net, inbound, keypairs>> /\ job'[e][w].stage = "idle"
        BY <1>b, <2>2, <3>4 DEF ResponseRefused, SessionRefused, Idle, TypeOK, WorkTypes
      <4>2. FinishIsDerived(e)' /\ BeginsItsOwn(e)'
        BY <3>0, <4>1 DEF FinishIsDerived, BeginsItsOwn
      <4> QED
        BY <1>0, <4>1, <4>2, ConfirmUntouched DEF Confirmed
    <3>5. ASSUME NEW m \in net, CheckResponse(d, w, m) PROVE Confirmed(e)'
      <4>1. /\ UNCHANGED <<handshake, net, inbound, keypairs>>
            /\ job'[e][w] = [stage |-> "finish", msg |-> m]
            /\ m.type = "response" /\ m.from = Peer(e)
        BY <1>b, <2>2, <3>5 DEF CheckResponse, TypeOK, WorkTypes
      <4>2. m.key \in Derived(Peer(e))
        BY <3>5, <4>1, PeerIsTheOther DEF ConfirmInv, Confirmed, SentIsDerived
      <4>3. FinishIsDerived(e)' /\ BeginsItsOwn(e)'
        BY <1>a, <3>0, <4>1, <4>2 DEF FinishIsDerived, BeginsItsOwn
      <4> QED
        BY <1>0, <4>1, <4>3, ConfirmUntouched DEF Confirmed
    <3>6. CASE ConsumeResponse(d, w)
      <4>1. /\ UNCHANGED <<net, inbound, keypairs>>
            /\ job'[e][w] = [job[e][w] EXCEPT !.stage = "begin"]
            /\ handshake'[e].chain = job[e][w].msg.key
            /\ job[e][w].stage = "finish"
        BY <1>b, <2>2, <3>6 DEF ConsumeResponse, TypeOK, WorkTypes, HandshakeTypes, Handshakes
      <4>2. job'[e][w].stage = "begin" /\ job'[e][w].msg = job[e][w].msg
        BY <1>b, <4>1 DEF Jobs, Idle
      <4>3. job[e][w].msg.from = Peer(e) /\ job[e][w].msg.key \in Derived(Peer(e))
        BY <1>0, <4>1 DEF Confirmed, FinishIsDerived
      <4>4. FinishIsDerived(e)'
        BY <3>0, <4>2 DEF FinishIsDerived
      <4>5. BeginsItsOwn(e)' /\ ConsumedIsDerived(e)'
        BY <1>a, <3>0, <4>1, <4>2, <4>3, PeerIsTheOther DEF BeginsItsOwn, ConsumedIsDerived
      <4> QED
        BY <1>0, <4>1, <4>4, <4>5, ConfirmUntouched DEF Confirmed
    <3>7. CASE BeginSession(d, w)
      <4>1. /\ inbound' = inbound
            /\ job'[e][w].stage = "idle"
            /\ handshake'[e].state = "Zeroed"
        BY <1>b, <2>2, <3>7 DEF BeginSession, BeginSymmetricSession, Clear, Idle, TypeOK, WorkTypes,
            HandshakeTypes, Handshakes
      <4>2. FinishIsDerived(e)' /\ BeginsItsOwn(e)' /\ ConsumedIsDerived(e)'
        BY <3>0, <4>1 DEF FinishIsDerived, BeginsItsOwn, ConsumedIsDerived
      <4>3. SentIsDerived(e)' /\ CurrentIsDerived(e)'
        BY <1>0, <2>2, <3>7, SessionConfirms
      <4> QED
        BY <1>0, <4>1, <4>2, <4>3, ConfirmUntouched DEF Confirmed
    <3> QED
      BY <1>2, <3>1, <3>2, <3>3, <3>4, <3>5, <3>6, <3>7 DEF Worker
  <2> QED
    BY <2>1, <2>2
<1>3. ASSUME NEW d \in Devices, SendTransport(d) PROVE Confirmed(e)'
  <2> DEFINE k == keypairs[d].current
  <2>1. UNCHANGED <<handshake, job, inbound, keypairs>>
    BY <1>3 DEF SendTransport
  <2>2. SentIsDerived(e)'
    <3>1. PICK m : m.from = d /\ m.key = heap[d][k].key /\ net' = net \cup {m}
      BY <1>3 DEF SendTransport
    <3>2. heap[d][k].key \in Derived(d)
      BY <1>3 DEF SendTransport, TypeOK, KeypairTypes, Slots, Derived
    <3> QED
      BY <1>0, <1>a, <3>1, <3>2 DEF Confirmed, SentIsDerived
  <2> QED
    BY <1>0, <2>1, <2>2, ConfirmUntouched DEF Confirmed
<1>4. ASSUME NEW d \in Devices, NEW m \in net, ReceiveTransport(d, m) PROVE Confirmed(e)'
  <2>1. UNCHANGED <<handshake, job, net, keypairs>>
    BY <1>4 DEF ReceiveTransport
  <2>2. CASE e # d
    <3>1. inbound'[e] = inbound[e]
      BY <1>4, <2>2 DEF ReceiveTransport, TypeOK, KeypairTypes
    <3> QED
      BY <1>0, <2>1, <3>1, ConfirmUntouched DEF Confirmed
  <2>3. CASE e = d
    <3> DEFINE x == [keypair |-> table[d][m.receiver].keypair, msg |-> m]
               Elems == [keypair : Nat, msg : Transports]
               n == Len(inbound[d])
    <3>1. inbound'[e] = Append(inbound[d], x) /\ m.type = "transport" /\ m.from = Peer(e)
      BY <1>4, <2>3 DEF ReceiveTransport, TypeOK, KeypairTypes
    <3>2. inbound[d] \in Seq(Elems)
      BY DEF TypeOK, KeypairTypes
    <3>3. m \in Transports
      BY <3>1 DEF TypeOK, NetTypes, Messages, Initiations, Responses
    <3>4. x \in Elems /\ x.msg = m
      BY <1>4, <3>3 DEF ReceiveTransport, TypeOK, KeypairTypes, Entries
    <3>5. m.key \in Derived(Peer(e))
      BY <3>1, PeerIsTheOther DEF ConfirmInv, Confirmed, SentIsDerived
    <3> HIDE DEF x, Elems
    <3>6. /\ n \in Nat
          /\ Len(inbound'[e]) = n + 1
          /\ \A j \in 1..n : inbound'[e][j] = inbound[e][j]
          /\ inbound'[e][n + 1] = x
      BY <2>3, <3>1, <3>2, <3>4, AppendProperties, LenProperties
    <3>7. \A j \in 1..(n + 1) : j \in 1..n \/ j = n + 1
      BY <3>6
    <3>8. InboundIsDerived(e)'
      BY <1>0, <1>a, <2>3, <3>4, <3>5, <3>6, <3>7 DEF Confirmed, InboundIsDerived
    <3> QED
      BY <1>0, <2>1, <3>8, ConfirmUntouched DEF Confirmed
  <2> QED
    BY <2>2, <2>3
<1>5. ASSUME NEW d \in Devices, SequentialReceive(d) PROVE Confirmed(e)'
  <2>1. UNCHANGED <<handshake, job, net>>
    BY <1>5 DEF SequentialReceive
  <2>2. InboundIsDerived(e)' /\ CurrentIsDerived(e)'
    <3>1. CASE e = d
      BY <1>0, <1>5, <3>1, ReceiveConfirms
    <3>2. CASE e # d
      <4>1. inbound'[e] = inbound[e] /\ keypairs'[e] = keypairs[e]
        BY <1>5, <3>2 DEF SequentialReceive, TypeOK, KeypairTypes
      <4> QED
        BY <1>0, <4>1, ConfirmUntouched
    <3> QED
      BY <3>1, <3>2
  <2> QED
    BY <1>0, <2>1, <2>2, ConfirmUntouched DEF Confirmed
<1>6. ASSUME NEW d \in Devices, ZeroKeypairs(d) PROVE Confirmed(e)'
  <2>1. UNCHANGED <<handshake, job, net, inbound>>
    BY <1>6 DEF ZeroKeypairs
  <2>2. keypairs'[e] = keypairs[e] \/ keypairs'[e].current = None
    BY <1>6 DEF ZeroKeypairs, NoKeypairs, TypeOK, KeypairTypes
  <2>3. CurrentIsDerived(e)'
    BY <1>0, <2>2, ConfirmUntouched DEF CurrentIsDerived
  <2> QED
    BY <1>0, <2>1, <2>3, ConfirmUntouched DEF Confirmed
<1>7. ASSUME NEW d \in Devices, ZeroHandshake(d) PROVE Confirmed(e)'
  <2>1. UNCHANGED <<job, net, inbound, keypairs>>
    BY <1>7 DEF ZeroHandshake
  <2>2. handshake'[e] = handshake[e] \/ handshake'[e].state = "Zeroed"
    BY <1>7 DEF ZeroHandshake, Clear, TypeOK, HandshakeTypes, Handshakes
  <2>3. ConsumedIsDerived(e)' /\ BeginsItsOwn(e)'
    BY <1>0, <2>1, <2>2, ConfirmUntouched DEF ConsumedIsDerived, BeginsItsOwn, Derivable
  <2> QED
    BY <1>0, <2>1, <2>3, ConfirmUntouched DEF Confirmed
<1>8. CASE UNCHANGED vars
  BY <1>0, <1>8, ConfirmUntouched DEF vars, Confirmed
<1> QED
  BY <1>1, <1>2, <1>3, <1>4, <1>5, <1>6, <1>7, <1>8 DEF Next

\* With one handshake worker a device sends only under a key that the other end
\* has derived too, whatever the network repeats, reorders or loses.
THEOREM KeysAreConfirmed ==
    ASSUME OneWorker
    PROVE  Spec => []KeyConfirmed
<1>1. Init => TypeOK /\ ConfirmInv
  BY InitTypeOK, InitConfirm
<1>2. TypeOK /\ ConfirmInv /\ [Next]_vars => (TypeOK /\ ConfirmInv)'
  BY OneWorker, StepTypeOK, StepConfirm
<1>3. ConfirmInv => KeyConfirmed
  BY DEF ConfirmInv, Confirmed, CurrentIsDerived, Derived, KeyConfirmed
<1> QED
  BY <1>1, <1>2, <1>3, PTL DEF Spec

=============================================================================
