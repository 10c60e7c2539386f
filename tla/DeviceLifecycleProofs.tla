------------------------ MODULE DeviceLifecycleProofs ------------------------
(***************************************************************************)
(* The life of a device for any number of callers, peers, sockets and      *)
(* workers and queues of any size.                                         *)
(*                                                                         *)
(* What makes the four properties true is spread over five locks, so the   *)
(* inductive invariant says first who holds which lock where (CallInv,     *)
(* LockInv), then what the holders may rely on: the state of the device    *)
(* (StateInv), the peers in a caller's hands (TodoInv), the two routines   *)
(* and the nils of a peer (PeerInv), what a routine has in hand            *)
(* (RoutineInv), who holds a reference to a queue (RefInv), who is going   *)
(* to close open sockets (BindInv) and to start a peer (StartInv).         *)
(***************************************************************************)
EXTENDS DeviceLifecycle, FiniteSetTheorems, SequenceTheorems, TLAPS

\* Where a caller stops a peer whose lock it holds.
StopPlaces == {"timers", "nilIn", "nilOut", "join"}

\* Where it is in the middle of SendStagedPackets or of handlePostConfig.
ConfigPlaces == {"peer", "start", "test", "staged", "push", "seal"}

\* It holds the peers lock, for reading or for writing.
InLoop(c) ==
    \/ call[c].pc \in {"loop"} \cup StopPlaces
    \/ call[c].op = "up" /\ call[c].pc = "hello"

\* Which places belong to which operation.
PlaceInv(c) ==
    /\ call[c].op = "none" => call[c].pc = "idle"
    /\ call[c].op = "up" =>
          call[c].pc \in {"net", "drain", "open", "mark", "ipc", "peers", "loop", "hello"}
    /\ call[c].op = "down" => call[c].pc \in {"net", "drain", "peers", "loop"} \cup StopPlaces
    /\ call[c].op = "set" =>
          call[c].pc \in {"line", "net", "drain", "open", "mark", "remove", "loop"}
                            \cup StopPlaces
    /\ call[c].op = "setPeer" =>
          call[c].pc \in {"line", "remove", "loop", "hello"} \cup ConfigPlaces \cup StopPlaces
    /\ call[c].op = "unbind" => call[c].pc = "drain"
    /\ call[c].op = "close" =>
          call[c].pc \in {"ipc", "net", "drain", "peers", "remove", "loop", "refs", "tun"}
                            \cup StopPlaces

CallInv ==
    \A c \in Callers :
        /\ PlaceInv(c)
        /\ call[c].pc \in ConfigPlaces \cup StopPlaces \cup {"hello"} => call[c].peer \in Peers
        /\ call[c].todo # {} => InLoop(c) \/ call[c].pc = "remove"
        /\ call[c].pc \in StopPlaces => call[c].peer \in call[c].todo

HoldsIpc(c) ==
    \/ call[c].op \in {"set", "setPeer"}
    \/ call[c].op = "up" /\ call[c].pc \in {"peers", "loop", "hello"}
    \/ call[c].op = "close" /\ call[c].pc # "ipc"

LockInv ==
    /\ \A c \in Callers :
        /\ stateLock = c <=> call[c].op \in {"up", "down", "close"}
        /\ ipcLock = c <=> HoldsIpc(c)
        /\ netLock = c <=> call[c].pc \in {"drain", "open", "mark"}
        /\ c \in peersReaders \/ peersLock = c <=> InLoop(c)
        /\ c \in peersReaders => call[c].op \in {"up", "down", "close"}
        /\ peersLock = c => call[c].op \in {"set", "setPeer", "close"}
        /\ \A p \in Peers :
              peerLock[p] = c <=> call[c].pc \in StopPlaces /\ call[c].peer = p
    /\ peersLock # Nobody => peersReaders = {}

\* The state is the one the holder of its lock has stored; a set operation that opens
\* sockets does not do so on a closed device, since Close waits for it.
StateInv ==
    /\ \A c \in Callers :
        /\ call[c].op = "up" => state = "up"
        /\ call[c].op = "down" => state = "down"
        /\ call[c].op = "close" /\ call[c].pc # "ipc" => state = "closed"
        /\ call[c].op = "close" /\ call[c].pc \notin {"ipc", "tun"} => initialRefs
        /\ call[c].op = "close" /\ call[c].pc = "tun" => ~initialRefs
        /\ call[c].pc \in {"open", "mark"} => state # "closed"
    /\ state # "closed" => initialRefs
    /\ closed => ~initialRefs /\ at[TunReader] = "off"

\* The peers a caller is going to start, stop or configure are there, and once Close
\* has removed the peers none is.
TodoInv ==
    /\ \A c \in Callers :
        /\ call[c].todo \subseteq Present
        /\ call[c].pc \in ConfigPlaces => call[c].peer \in Present
        /\ call[c].op = "setPeer" /\ call[c].pc = "hello" => call[c].peer \in Present
        /\ call[c].op = "close" /\ call[c].pc = "remove" => Present = call[c].todo
        /\ call[c].op = "close" /\ peersLock = c => Present = call[c].todo
        /\ call[c].op = "close" /\ call[c].pc \in {"refs", "tun"} => Present = {}
    /\ ~initialRefs => Present = {}
    /\ \A p \in Peers : isRunning[p] => p \in Present

NoNil(q) == \A n \in 1..Len(q) : q[n] # Nil

OneNil(q) == \E n \in 1..Len(q) : q[n] = Nil /\ \A m \in 1..Len(q) : m # n => q[m] # Nil

\* Before the nil that ends a routine is queued it runs; after that it runs exactly
\* until it has taken the nil.
PeerAt(p) ==
    /\ peerLock[p] = Nobody =>
          /\ isRunning[p] <=> at[Sender(p)] # "off"
          /\ isRunning[p] <=> at[Receiver(p)] # "off"
          /\ NoNil(inbound[p]) /\ NoNil(outbound[p])
    /\ \A c \in Callers : peerLock[p] = c =>
          /\ ~isRunning[p]
          /\ call[c].pc \in {"timers", "nilIn"} =>
                at[Receiver(p)] # "off" /\ NoNil(inbound[p])
          /\ call[c].pc \in {"timers", "nilIn", "nilOut"} =>
                at[Sender(p)] # "off" /\ NoNil(outbound[p])
          /\ call[c].pc \in {"nilOut", "join"} =>
                IF at[Receiver(p)] = "off" THEN NoNil(inbound[p]) ELSE OneNil(inbound[p])
          /\ call[c].pc = "join" =>
                IF at[Sender(p)] = "off" THEN NoNil(outbound[p]) ELSE OneNil(outbound[p])

PeerInv == \A p \in Peers : PeerAt(p)

\* A routine that has a packet has the peer of that packet; a timer that has taken a
\* container is waited for before the peer gives up its reference.
RoutineInv ==
    /\ \A r \in {TunReader} \cup Workers :
          /\ at[r] # "deliver"
          /\ at[r] \in {"staged", "push", "seal", "hello"} => target[r] \in Peers
    /\ \A s \in Sockets :
          /\ at[s] \in {"off", "rest", "deliver"}
          /\ at[s] = "deliver" => target[s] \in Peers
    /\ \A p \in Peers :
          /\ at[Timer(p)] # "off"
          /\ at[Timer(p)] \in {"push", "seal"} =>
                \/ isRunning[p]
                \/ \E c \in Callers : peerLock[p] = c /\ call[c].pc = "timers"

BusyWorkers == {w \in Workers : at[w] # "off"}
OpenSockets == {s \in Sockets : at[s] # "off"}
LivePeers   == {p \in Peers : isRunning[p] \/ peerLock[p] # Nobody}

One(b) == IF b THEN 1 ELSE 0

\* Every reference has its holder.
RefInv ==
    /\ encryptionRefs = One(initialRefs) + One(at[TunReader] # "off")
                           + Cardinality(BusyWorkers) + Cardinality(LivePeers)
    /\ inputRefs = One(initialRefs) + Cardinality(OpenSockets)
    /\ "encryption" \in closedQueues => encryptionRefs = 0
    /\ "input" \in closedQueues => inputRefs = 0

Silent == ~bindOpen /\ \A s \in Sockets : at[s] = "off"

\* Sockets of a device that is not up are about to be closed: by Down or Close, which
\* has stored the state and waits for the net lock, or by whoever holds that lock.
BindInv ==
    /\ \A c \in Callers :
        /\ call[c].pc \in {"drain", "open"} => ~bindOpen
        /\ call[c].pc \in {"open", "mark"} => \A s \in Sockets : at[s] = "off"
        /\ call[c].pc \in {"open", "mark"} /\ state # "up" =>
              \E d \in Callers : call[d].op \in {"down", "close"} /\ call[d].pc = "net"
        /\ call[c].op \in {"down", "close"} /\ call[c].pc \notin {"ipc", "net", "drain"}
              /\ state = "closed" => Silent
    /\ state # "up" =>
          \/ Silent
          \/ \E c \in Callers : call[c].op \in {"down", "close"} /\ call[c].pc = "net"
          \/ ~bindOpen /\ \E c \in Callers : call[c].pc = "drain"
    /\ ~initialRefs => Silent

\* A configured peer of a device that is up runs, or somebody is about to start it, or
\* is removing it.
StartInv ==
    \A p \in Peers : state = "up" /\ phase[p] = "configured" /\ ~isRunning[p] =>
        \E c \in Callers :
            \/ call[c].op = "up" /\ (InLoop(c) => p \in call[c].todo)
            \/ call[c].op = "setPeer" /\ call[c].pc = "start" /\ call[c].peer = p
            \/ peersLock = c /\ peerLock[p] = c

DeviceInv ==
    /\ TypeOK
    /\ CallInv
    /\ LockInv
    /\ StateInv
    /\ TodoInv
    /\ PeerInv
    /\ RoutineInv
    /\ RefInv
    /\ BindInv
    /\ StartInv

-----------------------------------------------------------------------------
\* The names of the routines are distinct.
LEMMA Names ==
    /\ TunReader \in Shared /\ Workers \subseteq Shared /\ Sockets \subseteq Shared
    /\ Shared \subseteq Routines
    /\ \A p \in Peers :
          /\ Sender(p) \in Routines /\ Receiver(p) \in Routines /\ Timer(p) \in Routines
          /\ Sender(p) \notin Shared /\ Receiver(p) \notin Shared /\ Timer(p) \notin Shared
    /\ \A p, q \in Peers :
          /\ Sender(p) # Receiver(q) /\ Sender(p) # Timer(q) /\ Receiver(p) # Timer(q)
          /\ Sender(p) = Sender(q) => p = q
          /\ Receiver(p) = Receiver(q) => p = q
          /\ Timer(p) = Timer(q) => p = q
  <1>1. \A p \in Peers : Sender(p) \in Senders /\ Receiver(p) \in Receivers /\ Timer(p) \in Timers
    BY DEF Senders, Receivers, Timers
  <1>2. \A p, q \in Peers :
          /\ Sender(p) # Receiver(q) /\ Sender(p) # Timer(q) /\ Receiver(p) # Timer(q)
          /\ Sender(p) = Sender(q) => p = q
          /\ Receiver(p) = Receiver(q) => p = q
          /\ Timer(p) = Timer(q) => p = q
    BY DEF Sender, Receiver, Timer
  <1>3. TunReader \in Shared /\ Workers \subseteq Shared /\ Sockets \subseteq Shared
    BY DEF Shared
  <1>4. Shared \subseteq Routines /\ Senders \subseteq Routines /\ Receivers \subseteq Routines
        /\ Timers \subseteq Routines
    BY DEF Routines
  <1>5. Shared \cap (Senders \cup Receivers \cup Timers) = {}
    BY LifecycleAssumption
  <1> QED BY <1>1, <1>2, <1>3, <1>4, <1>5

\* A call that one step changes, in the parts of its record.
Becomes(c, o, l, t, p) ==
    /\ call' \in [Callers -> CallTypes]
    /\ \A d \in Callers \ {c} : call'[d] = call[d]
    /\ call'[c].op = o /\ call'[c].pc = l /\ call'[c].todo = t /\ call'[c].peer = p

\* Storing a record as a call says what each of its fields becomes.
LEMMA RecordBecomes ==
    ASSUME call \in [Callers -> CallTypes], NEW c \in Callers, NEW k \in CallTypes,
           call' = [call EXCEPT ![c] = k]
    PROVE  Becomes(c, k.op, k.pc, k.todo, k.peer)
  BY DEF Becomes

\* The updates of a call that the actions are made of.
LEMMA GotoBecomes ==
    ASSUME TypeOK, NEW c \in Callers, NEW l \in CallPlaces, Goto(c, l)
    PROVE  Becomes(c, call[c].op, l, call[c].todo, call[c].peer)
  <1> DEFINE k == [call[c] EXCEPT !.pc = l]
  <1>1. call \in [Callers -> CallTypes] BY DEF TypeOK
  <1>2. call[c] \in CallTypes BY <1>1
  <1>3. k \in CallTypes BY <1>2 DEF CallTypes
  <1>4. call' = [call EXCEPT ![c] = k] BY DEF Goto
  <1>5. k.op = call[c].op /\ k.pc = l /\ k.todo = call[c].todo /\ k.peer = call[c].peer
    BY <1>2 DEF CallTypes
  <1> HIDE DEF k
  <1> QED BY <1>1, <1>3, <1>4, <1>5, RecordBecomes

\* A call takes up an operation, at its first place.
LEMMA BeginBecomes ==
    ASSUME TypeOK, NEW c \in Callers, NEW o \in CallOps, NEW l \in CallPlaces,
           call' = [call EXCEPT ![c].op = o, ![c].pc = l]
    PROVE  Becomes(c, o, l, call[c].todo, call[c].peer)
  <1> DEFINE k == [call[c] EXCEPT !.op = o, !.pc = l]
  <1>1. call \in [Callers -> CallTypes] BY DEF TypeOK
  <1>2. call[c] \in CallTypes BY <1>1
  <1>3. k \in CallTypes BY <1>2 DEF CallTypes
  <1>4. call' = [call EXCEPT ![c] = k] OBVIOUS
  <1>5. k.op = o /\ k.pc = l /\ k.todo = call[c].todo /\ k.peer = call[c].peer
    BY <1>2 DEF CallTypes
  <1> HIDE DEF k
  <1> QED BY <1>1, <1>3, <1>4, <1>5, RecordBecomes

\* A call returns and is idle.
LEMMA ReturnBecomes ==
    ASSUME TypeOK, NEW c \in Callers, call' = [call EXCEPT ![c] = Idle]
    PROVE  Becomes(c, "none", "idle", {}, Nobody)
  BY DEF Becomes, TypeOK, CallTypes, CallOps, CallPlaces, Idle

\* A call moves on to one peer.
LEMMA PeerBecomes ==
    ASSUME TypeOK, NEW c \in Callers, NEW l \in CallPlaces, NEW p \in Peers \cup {Nobody},
           call' = [call EXCEPT ![c].pc = l, ![c].peer = p]
    PROVE  Becomes(c, call[c].op, l, call[c].todo, p)
  <1> DEFINE k == [call[c] EXCEPT !.pc = l, !.peer = p]
  <1>1. call \in [Callers -> CallTypes] BY DEF TypeOK
  <1>2. call[c] \in CallTypes BY <1>1
  <1>3. k \in CallTypes BY <1>2 DEF CallTypes
  <1>4. call' = [call EXCEPT ![c] = k] OBVIOUS
  <1>5. k.op = call[c].op /\ k.pc = l /\ k.todo = call[c].todo /\ k.peer = p
    BY <1>2 DEF CallTypes
  <1> HIDE DEF k
  <1> QED BY <1>1, <1>3, <1>4, <1>5, RecordBecomes

\* A call takes up an operation on one peer.
LEMMA OpPeerBecomes ==
    ASSUME TypeOK, NEW c \in Callers, NEW o \in CallOps, NEW l \in CallPlaces,
           NEW p \in Peers \cup {Nobody},
           call' = [call EXCEPT ![c].op = o, ![c].pc = l, ![c].peer = p]
    PROVE  Becomes(c, o, l, call[c].todo, p)
  <1> DEFINE k == [call[c] EXCEPT !.op = o, !.pc = l, !.peer = p]
  <1>1. call \in [Callers -> CallTypes] BY DEF TypeOK
  <1>2. call[c] \in CallTypes BY <1>1
  <1>3. k \in CallTypes BY <1>2 DEF CallTypes
  <1>4. call' = [call EXCEPT ![c] = k] OBVIOUS
  <1>5. k.op = o /\ k.pc = l /\ k.todo = call[c].todo /\ k.peer = p
    BY <1>2 DEF CallTypes
  <1> HIDE DEF k
  <1> QED BY <1>1, <1>3, <1>4, <1>5, RecordBecomes

\* A call is done with one of its peers.
LEMMA TodoBecomes ==
    ASSUME TypeOK, NEW c \in Callers, NEW p \in Peers,
           call' = [call EXCEPT ![c].todo = @ \ {p}]
    PROVE  Becomes(c, call[c].op, call[c].pc, call[c].todo \ {p}, call[c].peer)
  <1> DEFINE k == [call[c] EXCEPT !.todo = @ \ {p}]
  <1>1. call \in [Callers -> CallTypes] BY DEF TypeOK
  <1>2. call[c] \in CallTypes BY <1>1
  <1>3. k \in CallTypes BY <1>2 DEF CallTypes
  <1>4. call' = [call EXCEPT ![c] = k] OBVIOUS
  <1>5. k.op = call[c].op /\ k.pc = call[c].pc /\ k.todo = call[c].todo \ {p} /\ k.peer = call[c].peer
    BY <1>2 DEF CallTypes
  <1> HIDE DEF k
  <1> QED BY <1>1, <1>3, <1>4, <1>5, RecordBecomes

\* A call moves on with a set of peers to go through.
LEMMA PlaceTodoBecomes ==
    ASSUME TypeOK, NEW c \in Callers, NEW l \in CallPlaces, NEW t \in SUBSET Peers,
           call' = [call EXCEPT ![c].pc = l, ![c].todo = t]
    PROVE  Becomes(c, call[c].op, l, t, call[c].peer)
  <1> DEFINE k == [call[c] EXCEPT !.pc = l, !.todo = t]
  <1>1. call \in [Callers -> CallTypes] BY DEF TypeOK
  <1>2. call[c] \in CallTypes BY <1>1
  <1>3. k \in CallTypes BY <1>2 DEF CallTypes
  <1>4. call' = [call EXCEPT ![c] = k] OBVIOUS
  <1>5. k.op = call[c].op /\ k.pc = l /\ k.todo = t /\ k.peer = call[c].peer
    BY <1>2 DEF CallTypes
  <1> HIDE DEF k
  <1> QED BY <1>1, <1>3, <1>4, <1>5, RecordBecomes

\* A call moves on with a set of peers and one in hand.
LEMMA PlaceTodoPeerBecomes ==
    ASSUME TypeOK, NEW c \in Callers, NEW l \in CallPlaces, NEW t \in SUBSET Peers,
           NEW p \in Peers \cup {Nobody},
           call' = [call EXCEPT ![c].pc = l, ![c].todo = t, ![c].peer = p]
    PROVE  Becomes(c, call[c].op, l, t, p)
  <1> DEFINE k == [call[c] EXCEPT !.pc = l, !.todo = t, !.peer = p]
  <1>1. call \in [Callers -> CallTypes] BY DEF TypeOK
  <1>2. call[c] \in CallTypes BY <1>1
  <1>3. k \in CallTypes BY <1>2 DEF CallTypes
  <1>4. call' = [call EXCEPT ![c] = k] OBVIOUS
  <1>5. k.op = call[c].op /\ k.pc = l /\ k.todo = t /\ k.peer = p
    BY <1>2 DEF CallTypes
  <1> HIDE DEF k
  <1> QED BY <1>1, <1>3, <1>4, <1>5, RecordBecomes

\* A caller that is not stopping a peer has no peer locked.
LEMMA QuietKeeps ==
    ASSUME DeviceInv, NEW c \in Callers, call[c].pc \notin StopPlaces,
           \A d \in Callers \ {c} : call'[d] = call[d],
           UNCHANGED <<at, target, queueVars, isRunning, peerLock, refVars>>
    PROVE  PeerInv' /\ RoutineInv' /\ RefInv'
  <1>1. \A p \in Peers : peerLock[p] # c
    BY DEF DeviceInv, LockInv
  <1>2. PeerInv' BY <1>1 DEF DeviceInv, PeerInv, PeerAt, queueVars, NoNil, OneNil
  <1>3. RoutineInv' BY <1>1 DEF DeviceInv, RoutineInv
  <1>4. RefInv' BY DEF DeviceInv, RefInv, refVars, BusyWorkers, LivePeers, OpenSockets
  <1> QED BY <1>2, <1>3, <1>4

\* Which operations a place belongs to.
OpsAt(c) ==
    /\ call[c].pc = "idle" => call[c].op = "none"
    /\ call[c].pc = "ipc" => call[c].op \in {"up", "close"}
    /\ call[c].pc \in {"open", "mark"} => call[c].op \in {"up", "set"}
    /\ call[c].pc = "drain" => call[c].op \in {"up", "down", "set", "unbind", "close"}
    /\ call[c].pc = "peers" => call[c].op \in {"up", "down", "close"}
    /\ call[c].pc = "remove" => call[c].op \in {"set", "setPeer", "close"}
    /\ call[c].pc = "loop" => call[c].op \in {"up", "down", "set", "setPeer", "close"}
    /\ call[c].pc \in StopPlaces => call[c].op \in {"down", "set", "setPeer", "close"}
    /\ call[c].pc = "line" => call[c].op \in {"set", "setPeer"}
    /\ call[c].pc = "hello" => call[c].op \in {"up", "setPeer"}
    /\ call[c].pc \in ConfigPlaces => call[c].op = "setPeer"
    /\ call[c].pc \in {"refs", "tun"} => call[c].op = "close"

\* The place of a call tells which operation it is in.
LEMMA PlacesHaveOps == DeviceInv => \A c \in Callers : OpsAt(c)
  <1> SUFFICES ASSUME DeviceInv, NEW c \in Callers PROVE OpsAt(c) OBVIOUS
  <1>1. call[c].op \in CallOps BY DEF DeviceInv, TypeOK, CallTypes
  <1>2. PlaceInv(c) BY DEF DeviceInv, CallInv
  <1> QED BY <1>1, <1>2 DEF OpsAt, PlaceInv, CallOps, StopPlaces, ConfigPlaces

\* The holders of references are finitely many, and one that comes or goes counts once.
LEMMA Counts ==
    ASSUME NEW U \in {Workers, Peers, Sockets}, NEW S \in SUBSET U, NEW x
    PROVE  /\ IsFiniteSet(S)
           /\ Cardinality(S) \in Nat
           /\ x \notin S => Cardinality(S \cup {x}) = Cardinality(S) + 1
           /\ x \in S => Cardinality(S \ {x}) = Cardinality(S) - 1 /\ Cardinality(S) >= 1
  <1>1. IsFiniteSet(U) BY LifecycleAssumption
  <1>2. IsFiniteSet(S) BY <1>1, FS_Subset
  <1>3. Cardinality(S) \in Nat BY <1>2, FS_CardinalityType
  <1>4. ASSUME x \in S PROVE Cardinality(S) # 0
    <2>1. S # {} BY <1>4
    <2> QED BY <1>2, <2>1, FS_EmptySet, Zenon
  <1>5. x \notin S => Cardinality(S \cup {x}) = Cardinality(S) + 1 BY <1>2, FS_AddElement
  <1>6. x \in S => Cardinality(S \ {x}) = Cardinality(S) - 1 BY <1>2, FS_RemoveElement
  <1>7. x \in S => Cardinality(S) >= 1 BY <1>3, <1>4
  <1> QED BY <1>2, <1>3, <1>5, <1>6, <1>7

\* The reference counts that the closing of a queue waits for are numbers.
LEMMA RefCounts ==
    /\ Cardinality(BusyWorkers) \in Nat
    /\ Cardinality(OpenSockets) \in Nat
    /\ Cardinality(LivePeers) \in Nat
  BY Counts DEF BusyWorkers, OpenSockets, LivePeers

\* What the queue operations do to the nils in a queue.
LEMMA Nils ==
    ASSUME NEW q \in Seq({Packet, Nil})
    PROVE  /\ NoNil(<<>>)
           /\ Append(q, Packet) \in Seq({Packet, Nil}) /\ Append(q, Nil) \in Seq({Packet, Nil})
           /\ NoNil(q) => NoNil(Append(q, Packet)) /\ OneNil(Append(q, Nil))
           /\ OneNil(q) => OneNil(Append(q, Packet))
           /\ q # <<>> => Tail(q) \in Seq({Packet, Nil})
           /\ q # <<>> /\ NoNil(q) => NoNil(Tail(q)) /\ Head(q) # Nil
           /\ q # <<>> /\ OneNil(q) /\ Head(q) = Nil => NoNil(Tail(q))
           /\ q # <<>> /\ OneNil(q) /\ Head(q) # Nil => OneNil(Tail(q))
  <1> USE DEF Packet, Nil
  <1>1. NoNil(<<>>) BY DEF NoNil
  <1>2. Append(q, Packet) \in Seq({Packet, Nil}) /\ Append(q, Nil) \in Seq({Packet, Nil})
    OBVIOUS
  <1>3. NoNil(q) => NoNil(Append(q, Packet)) BY DEF NoNil
  <1>4. ASSUME NoNil(q) PROVE OneNil(Append(q, Nil))
    <2>1. Append(q, Nil)[Len(q) + 1] = Nil /\ Len(Append(q, Nil)) = Len(q) + 1 OBVIOUS
    <2>2. \A m \in 1..(Len(q) + 1) : m # Len(q) + 1 => Append(q, Nil)[m] # Nil
      BY <1>4 DEF NoNil
    <2> QED BY <2>1, <2>2 DEF OneNil
  <1>5. ASSUME OneNil(q) PROVE OneNil(Append(q, Packet))
    <2>1. PICK n \in 1..Len(q) : q[n] = Nil /\ \A m \in 1..Len(q) : m # n => q[m] # Nil
      BY <1>5 DEF OneNil
    <2>2. n \in 1..Len(Append(q, Packet)) /\ Append(q, Packet)[n] = Nil BY <2>1
    <2>3. \A m \in 1..Len(Append(q, Packet)) : m # n => Append(q, Packet)[m] # Nil BY <2>1
    <2> QED BY <2>2, <2>3 DEF OneNil
  <1>6. ASSUME q # <<>>
        PROVE  /\ Tail(q) \in Seq({Packet, Nil}) /\ Len(Tail(q)) = Len(q) - 1 /\ Len(q) >= 1
               /\ \A m \in 1..(Len(q) - 1) : Tail(q)[m] = q[m + 1]
               /\ Head(q) = q[1]
    BY <1>6
  <1>7. q # <<>> /\ NoNil(q) => NoNil(Tail(q)) /\ Head(q) # Nil BY <1>6 DEF NoNil
  <1>8. q # <<>> /\ OneNil(q) /\ Head(q) = Nil => NoNil(Tail(q)) BY <1>6 DEF NoNil, OneNil
  <1>9. ASSUME q # <<>>, OneNil(q), Head(q) # Nil PROVE OneNil(Tail(q))
    <2>1. PICK n \in 1..Len(q) : q[n] = Nil /\ \A m \in 1..Len(q) : m # n => q[m] # Nil
      BY <1>9 DEF OneNil
    <2>2. n - 1 \in 1..Len(Tail(q)) /\ Tail(q)[n - 1] = Nil BY <1>6, <1>9, <2>1
    <2>3. \A m \in 1..Len(Tail(q)) : m # n - 1 => Tail(q)[m] # Nil BY <1>6, <1>9, <2>1
    <2> QED BY <2>2, <2>3 DEF OneNil
  <1> QED BY <1>1, <1>2, <1>3, <1>4, <1>5, <1>6, <1>7, <1>8, <1>9

\* A peer that a step does not touch stays as it is, if its lock is not held by the
\* caller that moves.
LEMMA OtherPeers ==
    ASSUME DeviceInv, NEW p \in Peers,
           isRunning'[p] = isRunning[p], peerLock'[p] = peerLock[p],
           inbound'[p] = inbound[p], outbound'[p] = outbound[p],
           at'[Sender(p)] = at[Sender(p)], at'[Receiver(p)] = at[Receiver(p)],
           \A d \in Callers : peerLock[p] = d => call'[d].pc = call[d].pc
    PROVE  PeerAt(p)'
  BY DEF DeviceInv, PeerInv, PeerAt

\* A packet at the end of a queue of a peer changes nothing about its nils.
LEMMA PacketKeepsPeer ==
    ASSUME DeviceInv, NEW p \in Peers,
           isRunning'[p] = isRunning[p], peerLock'[p] = peerLock[p],
           inbound'[p] \in {inbound[p], Append(inbound[p], Packet)},
           outbound'[p] \in {outbound[p], Append(outbound[p], Packet)},
           at'[Sender(p)] = "off" <=> at[Sender(p)] = "off",
           at'[Receiver(p)] = "off" <=> at[Receiver(p)] = "off",
           \A d \in Callers : peerLock[p] = d => call'[d].pc = call[d].pc
    PROVE  PeerAt(p)'
  <1>1. inbound[p] \in Seq({Packet, Nil}) /\ outbound[p] \in Seq({Packet, Nil})
    BY DEF DeviceInv, TypeOK
  <1>2. /\ NoNil(inbound[p]) => NoNil(inbound'[p])
        /\ OneNil(inbound[p]) => OneNil(inbound'[p])
    BY <1>1, Nils
  <1>3. /\ NoNil(outbound[p]) => NoNil(outbound'[p])
        /\ OneNil(outbound[p]) => OneNil(outbound'[p])
    BY <1>1, Nils
  <1>4. PeerAt(p) BY DEF DeviceInv, PeerInv
  <1> QED BY <1>2, <1>3, <1>4 DEF PeerAt

\* Start gives an idle peer its two routines, empty queues and a reference.
LEMMA StartKeepsPeers ==
    ASSUME DeviceInv, NEW c \in Callers, call[c].pc \notin StopPlaces,
           \A d \in Callers \ {c} : call'[d] = call[d],
           NEW p \in Peers, peerLock[p] = Nobody, Starts(p), Start(p),
           UNCHANGED <<peerLock, target, inputRefs, initialRefs, closedQueues>>
    PROVE  /\ isRunning' \in [Peers -> BOOLEAN] /\ isRunning'[p]
           /\ \A x \in Peers \ {p} : isRunning'[x] = isRunning[x]
           /\ inbound' \in [Peers -> Seq({Packet, Nil})]
           /\ outbound' \in [Peers -> Seq({Packet, Nil})]
           /\ at' \in [Routines -> {"off", "rest", "deliver", "staged", "push", "seal", "hello"}]
           /\ at'[TunReader] = at[TunReader] /\ \A s \in Sockets : at'[s] = at[s]
           /\ encryptionRefs' \in Nat
           /\ PeerInv' /\ RoutineInv' /\ RefInv'
  <1>t. TypeOK BY DEF DeviceInv
  <1>1. /\ isRunning' = [isRunning EXCEPT ![p] = TRUE]
        /\ encryptionRefs' = encryptionRefs + 1
        /\ inbound' = [inbound EXCEPT ![p] = <<>>]
        /\ outbound' = [outbound EXCEPT ![p] = <<>>]
        /\ at' = [at EXCEPT ![Sender(p)] = "rest", ![Receiver(p)] = "rest"]
        /\ ~isRunning[p] /\ state # "closed"
    BY DEF Starts, Start
  <1>2. /\ isRunning' \in [Peers -> BOOLEAN] /\ isRunning'[p]
        /\ \A x \in Peers \ {p} : isRunning'[x] = isRunning[x]
    BY <1>1, <1>t DEF TypeOK
  <1>3. /\ inbound' \in [Peers -> Seq({Packet, Nil})] /\ inbound'[p] = <<>>
        /\ outbound' \in [Peers -> Seq({Packet, Nil})] /\ outbound'[p] = <<>>
        /\ \A x \in Peers \ {p} : inbound'[x] = inbound[x] /\ outbound'[x] = outbound[x]
    BY <1>1, <1>t DEF TypeOK
  <1>4. /\ at' \in [Routines -> {"off", "rest", "deliver", "staged", "push", "seal", "hello"}]
        /\ at'[Sender(p)] = "rest" /\ at'[Receiver(p)] = "rest"
        /\ \A r \in Routines \ {Sender(p), Receiver(p)} : at'[r] = at[r]
    BY <1>1, <1>t, Names DEF TypeOK
  <1>5. /\ \A r \in Shared : at'[r] = at[r]
        /\ \A x \in Peers : at'[Timer(x)] = at[Timer(x)]
        /\ \A x \in Peers \ {p} : at'[Sender(x)] = at[Sender(x)] /\ at'[Receiver(x)] = at[Receiver(x)]
    BY <1>4, Names
  <1>6. encryptionRefs' \in Nat BY <1>1, <1>t DEF TypeOK
  <1>7. \A x \in Peers : peerLock[x] # c
    BY DEF DeviceInv, LockInv
  <1>8. NoNil(<<>>) BY DEF NoNil
  <1>9. PeerInv'
    <2>1. PeerAt(p)'
      BY <1>2, <1>3, <1>4, <1>8, LifecycleAssumption DEF PeerAt
    <2>2. \A x \in Peers \ {p} : PeerAt(x)'
      BY <1>2, <1>3, <1>5, <1>7, OtherPeers
    <2> QED BY <2>1, <2>2 DEF PeerInv
  <1>10. RoutineInv'
    <2>1. TunReader \in Shared /\ Workers \subseteq Shared /\ Sockets \subseteq Shared
      BY Names
    <2> QED BY <1>2, <1>5, <1>7, <2>1 DEF DeviceInv, RoutineInv
  <1>11. RefInv'
    <2>1. BusyWorkers' = BusyWorkers /\ OpenSockets' = OpenSockets /\ at'[TunReader] = at[TunReader]
      BY <1>5, Names DEF BusyWorkers, OpenSockets
    <2>2. p \notin LivePeers /\ LivePeers' = LivePeers \cup {p} /\ LivePeers \in SUBSET Peers
      BY <1>1, <1>2 DEF LivePeers
    <2>3. Cardinality(LivePeers') = Cardinality(LivePeers) + 1 BY <2>2, Counts
    <2>4. initialRefs /\ One(initialRefs) = 1 BY <1>1 DEF DeviceInv, StateInv, One
    <2>5. RefInv BY DEF DeviceInv
    <2>6. One(at[TunReader] # "off") \in Nat BY DEF One
    <2>7. "encryption" \notin closedQueues BY <2>4, <2>5, <2>6, RefCounts DEF RefInv
    <2>8. encryptionRefs' = One(initialRefs) + One(at[TunReader] # "off")
                               + Cardinality(BusyWorkers) + Cardinality(LivePeers')
      <3>1. encryptionRefs' = encryptionRefs + 1 BY <1>1
      <3>2. encryptionRefs = One(initialRefs) + One(at[TunReader] # "off")
                               + Cardinality(BusyWorkers) + Cardinality(LivePeers)
        BY <2>5 DEF RefInv
      <3>3. One(initialRefs) \in Nat /\ One(at[TunReader] # "off") \in Nat BY DEF One
      <3> QED BY <3>1, <3>2, <3>3, <2>3, RefCounts
    <2> QED BY <2>1, <2>5, <2>7, <2>8 DEF RefInv
  <1> QED BY <1>2, <1>3, <1>4, <1>5, <1>6, <1>9, <1>10, <1>11, Names

\* What the end of Stop does to the peers of the device: the caller that holds the lock
\* for writing removes the peer, a reader is Down or the first loop of Close.
LEMMA Removes ==
    ASSUME DeviceInv, NEW c \in Callers, NEW p \in Peers, phase' = Gone(c, p),
           call[c].pc \in {"loop", "join"}, call[c].op # "up", p \in call[c].todo
    PROVE  /\ \/ peersLock # c /\ phase' = phase /\ Present' = Present
                 /\ call[c].op \in {"down", "close"}
              \/ peersLock = c /\ phase'[p] = "removed" /\ Present' = Present \ {p}
           /\ phase' \in [Peers -> {"absent", "created", "configured", "removed"}]
           /\ \A x \in Peers \ {p} : phase'[x] = phase[x]
           /\ peersLock = c => HoldsIpc(c)
           /\ p \in Present
  <1>1. phase \in [Peers -> {"absent", "created", "configured", "removed"}]
    BY DEF DeviceInv, TypeOK
  <1>2. InLoop(c) /\ p \in Present BY DEF InLoop, StopPlaces, DeviceInv, TodoInv
  <1>3. CASE peersLock # c
    BY <1>1, <1>2, <1>3 DEF Gone, Present, DeviceInv, LockInv
  <1>4. CASE peersLock = c
    <2>1. phase' = [phase EXCEPT ![p] = "removed"] BY <1>4 DEF Gone
    <2>2. HoldsIpc(c) BY <1>4 DEF HoldsIpc, DeviceInv, LockInv
    <2>3. Present' = Present \ {p} BY <1>1, <2>1 DEF Present
    <2> QED BY <1>1, <1>2, <1>4, <2>1, <2>2, <2>3
  <1> QED BY <1>3, <1>4

-----------------------------------------------------------------------------
(***************************************************************************)
(* The steps of a caller, one lemma per action.                            *)
(***************************************************************************)
\* Up and Down store the state before they change the device.
LEMMA ChangeStateKeeps ==
    ASSUME DeviceInv, NEW c \in Callers, NEW want \in {"up", "down"}, ChangeState(c, want)
    PROVE  DeviceInv'
  <1> USE LifecycleAssumption
        DEF ChangeState, lockVars, peerVars, queueVars, refVars, closeVars
  <1>t. TypeOK BY DEF DeviceInv
  <1>o. OpsAt(c) BY PlacesHaveOps
  <1>b. call[c].op = "none" /\ call[c].pc = "idle" /\ call[c].todo = {} /\ call[c].peer = Nobody
    BY DEF Calls, Idle
  <1>1. Becomes(c, want, "net", {}, Nobody)
    BY <1>t, <1>b, BeginBecomes DEF Begin, CallOps, CallPlaces
  <1>2. TypeOK'
    BY <1>t, <1>1 DEF TypeOK, LockTypes, Becomes
  <1>3. CallInv'
    BY <1>o, <1>b, <1>1 DEF DeviceInv, Becomes, OpsAt, CallInv, PlaceInv, InLoop,
      StopPlaces, ConfigPlaces
  <1>4. LockInv'
    BY <1>o, <1>b, <1>1 DEF DeviceInv, Becomes, OpsAt, CallInv, PlaceInv, LockInv,
      HoldsIpc, InLoop, StopPlaces, ConfigPlaces
  <1>5. StateInv'
    BY <1>o, <1>b, <1>1 DEF DeviceInv, Becomes, OpsAt, StateInv, LockInv, HoldsIpc,
      CallInv, PlaceInv, StopPlaces, ConfigPlaces
  <1>6. TodoInv'
    BY <1>o, <1>b, <1>1 DEF DeviceInv, Becomes, OpsAt, TodoInv, Present, LockInv, HoldsIpc,
      InLoop, CallInv, PlaceInv, StopPlaces, ConfigPlaces
  <1>7. PeerInv' /\ RoutineInv' /\ RefInv'
    BY <1>b, <1>1, QuietKeeps DEF StopPlaces, Becomes
  <1>8. BindInv'
    BY <1>o, <1>b, <1>1 DEF DeviceInv, Becomes, OpsAt, BindInv, Silent, StateInv, LockInv,
      CallInv, PlaceInv, StopPlaces, ConfigPlaces
  <1>9. StartInv'
    BY <1>o, <1>b, <1>1 DEF DeviceInv, Becomes, OpsAt, StartInv, InLoop, StateInv, LockInv,
      HoldsIpc, CallInv, PlaceInv, StopPlaces, ConfigPlaces, TodoInv, Present
  <1> QED BY <1>2, <1>3, <1>4, <1>5, <1>6, <1>7, <1>8, <1>9 DEF DeviceInv

\* Close waits for nothing but the state lock here.
LEMMA LockStateKeeps ==
    ASSUME DeviceInv, NEW c \in Callers, LockState(c)
    PROVE  DeviceInv'
  <1> USE LifecycleAssumption
        DEF LockState, lockVars, peerVars, queueVars, refVars, closeVars
  <1>t. TypeOK BY DEF DeviceInv
  <1>o. OpsAt(c) BY PlacesHaveOps
  <1>b. call[c].op = "none" /\ call[c].pc = "idle" /\ call[c].todo = {} /\ call[c].peer = Nobody
    BY DEF Calls, Idle
  <1>1. Becomes(c, "close", "ipc", {}, Nobody)
    BY <1>t, <1>b, BeginBecomes DEF Begin, CallOps, CallPlaces
  <1>2. TypeOK'
    BY <1>t, <1>1 DEF TypeOK, LockTypes, Becomes
  <1>3. CallInv'
    BY <1>o, <1>b, <1>1 DEF DeviceInv, Becomes, OpsAt, CallInv, PlaceInv, InLoop,
      StopPlaces, ConfigPlaces
  <1>4. LockInv'
    BY <1>o, <1>b, <1>1 DEF DeviceInv, Becomes, OpsAt, CallInv, PlaceInv, LockInv,
      HoldsIpc, InLoop, StopPlaces, ConfigPlaces
  <1>5. StateInv'
    BY <1>o, <1>b, <1>1 DEF DeviceInv, Becomes, OpsAt, StateInv, LockInv, HoldsIpc,
      CallInv, PlaceInv, StopPlaces, ConfigPlaces
  <1>6. TodoInv'
    BY <1>o, <1>b, <1>1 DEF DeviceInv, Becomes, OpsAt, TodoInv, Present, LockInv, HoldsIpc,
      InLoop, CallInv, PlaceInv, StopPlaces, ConfigPlaces
  <1>7. PeerInv' /\ RoutineInv' /\ RefInv'
    BY <1>b, <1>1, QuietKeeps DEF StopPlaces, Becomes
  <1>8. BindInv'
    BY <1>o, <1>b, <1>1 DEF DeviceInv, Becomes, OpsAt, BindInv, Silent, StateInv, LockInv,
      CallInv, PlaceInv, StopPlaces, ConfigPlaces
  <1>9. StartInv'
    BY <1>o, <1>b, <1>1 DEF DeviceInv, Becomes, OpsAt, StartInv, InLoop, StateInv, LockInv,
      HoldsIpc, CallInv, PlaceInv, StopPlaces, ConfigPlaces, TodoInv, Present
  <1> QED BY <1>2, <1>3, <1>4, <1>5, <1>6, <1>7, <1>8, <1>9 DEF DeviceInv

\* A set operation holds the IPC mutex from here on.
LEMMA SetBeginsKeeps ==
    ASSUME DeviceInv, NEW c \in Callers, SetBegins(c)
    PROVE  DeviceInv'
  <1> USE LifecycleAssumption
        DEF SetBegins, lockVars, peerVars, queueVars, refVars, closeVars
  <1>t. TypeOK BY DEF DeviceInv
  <1>o. OpsAt(c) BY PlacesHaveOps
  <1>b. call[c].op = "none" /\ call[c].pc = "idle" /\ call[c].todo = {} /\ call[c].peer = Nobody
    BY DEF Calls, Idle
  <1>1. Becomes(c, "set", "line", {}, Nobody)
    BY <1>t, <1>b, BeginBecomes DEF Begin, CallOps, CallPlaces
  <1>2. TypeOK'
    BY <1>t, <1>1 DEF TypeOK, LockTypes, Becomes
  <1>3. CallInv'
    BY <1>o, <1>b, <1>1 DEF DeviceInv, Becomes, OpsAt, CallInv, PlaceInv, InLoop,
      StopPlaces, ConfigPlaces
  <1>4. LockInv'
    BY <1>o, <1>b, <1>1 DEF DeviceInv, Becomes, OpsAt, CallInv, PlaceInv, LockInv,
      HoldsIpc, InLoop, StopPlaces, ConfigPlaces
  <1>5. StateInv'
    BY <1>o, <1>b, <1>1 DEF DeviceInv, Becomes, OpsAt, StateInv, LockInv, HoldsIpc,
      CallInv, PlaceInv, StopPlaces, ConfigPlaces
  <1>6. TodoInv'
    BY <1>o, <1>b, <1>1 DEF DeviceInv, Becomes, OpsAt, TodoInv, Present, LockInv, HoldsIpc,
      InLoop, CallInv, PlaceInv, StopPlaces, ConfigPlaces
  <1>7. PeerInv' /\ RoutineInv' /\ RefInv'
    BY <1>b, <1>1, QuietKeeps DEF StopPlaces, Becomes
  <1>8. BindInv'
    BY <1>o, <1>b, <1>1 DEF DeviceInv, Becomes, OpsAt, BindInv, Silent, StateInv, LockInv,
      CallInv, PlaceInv, StopPlaces, ConfigPlaces
  <1>9. StartInv'
    BY <1>o, <1>b, <1>1 DEF DeviceInv, Becomes, OpsAt, StartInv, InLoop, StateInv, LockInv,
      HoldsIpc, CallInv, PlaceInv, StopPlaces, ConfigPlaces, TodoInv, Present
  <1> QED BY <1>2, <1>3, <1>4, <1>5, <1>6, <1>7, <1>8, <1>9 DEF DeviceInv

\* Up has opened the sockets and now keeps set operations out.
LEMMA UpLocksIpcKeeps ==
    ASSUME DeviceInv, NEW c \in Callers, UpLocksIpc(c)
    PROVE  DeviceInv'
  <1> USE LifecycleAssumption
        DEF UpLocksIpc, lockVars, peerVars, queueVars, refVars, closeVars
  <1>t. TypeOK BY DEF DeviceInv
  <1>o. OpsAt(c) BY PlacesHaveOps
  <1>b. call[c].pc = "ipc" /\ call[c].op = "up"
    OBVIOUS
  <1>1. Becomes(c, call[c].op, "peers", call[c].todo, call[c].peer)
    BY <1>t, <1>b, GotoBecomes DEF CallPlaces
  <1>2. TypeOK'
    BY <1>t, <1>1 DEF TypeOK, LockTypes, Becomes
  <1>3. CallInv'
    BY <1>o, <1>b, <1>1 DEF DeviceInv, Becomes, OpsAt, CallInv, PlaceInv, InLoop,
      StopPlaces, ConfigPlaces
  <1>4. LockInv'
    BY <1>o, <1>b, <1>1 DEF DeviceInv, Becomes, OpsAt, CallInv, PlaceInv, LockInv,
      HoldsIpc, InLoop, StopPlaces, ConfigPlaces
  <1>5. StateInv'
    BY <1>o, <1>b, <1>1 DEF DeviceInv, Becomes, OpsAt, StateInv, LockInv, HoldsIpc,
      CallInv, PlaceInv, StopPlaces, ConfigPlaces
  <1>6. TodoInv'
    BY <1>o, <1>b, <1>1 DEF DeviceInv, Becomes, OpsAt, TodoInv, Present, LockInv, HoldsIpc,
      InLoop, CallInv, PlaceInv, StopPlaces, ConfigPlaces
  <1>7. PeerInv' /\ RoutineInv' /\ RefInv'
    BY <1>b, <1>1, QuietKeeps DEF StopPlaces, Becomes
  <1>8. BindInv'
    BY <1>o, <1>b, <1>1 DEF DeviceInv, Becomes, OpsAt, BindInv, Silent, StateInv, LockInv,
      CallInv, PlaceInv, StopPlaces, ConfigPlaces
  <1>9. StartInv'
    BY <1>o, <1>b, <1>1 DEF DeviceInv, Becomes, OpsAt, StartInv, InLoop, StateInv, LockInv,
      HoldsIpc, CallInv, PlaceInv, StopPlaces, ConfigPlaces, TodoInv, Present
  <1> QED BY <1>2, <1>3, <1>4, <1>5, <1>6, <1>7, <1>8, <1>9 DEF DeviceInv

\* Close on a closed device returns; no set operation is opening sockets or holds a
\* peer when it does not.
LEMMA CloseBeginsKeeps ==
    ASSUME DeviceInv, NEW c \in Callers, CloseBegins(c)
    PROVE  DeviceInv'
  <1> USE LifecycleAssumption
        DEF CloseBegins, lockVars, peerVars, queueVars, refVars, closeVars
  <1>t. TypeOK BY DEF DeviceInv
  <1>o. OpsAt(c) BY PlacesHaveOps
  <1>1. CASE state = "closed"
    <2>b. call[c].pc = "ipc" /\ call[c].op = "close"
      BY <1>1
    <2>1. Becomes(c, "none", "idle", {}, Nobody)
      BY <1>1, <1>t, <2>b, ReturnBecomes DEF Return
    <2>2. TypeOK'
      BY <1>1, <1>t, <2>1 DEF TypeOK, LockTypes, Becomes, Return, Freed
    <2>3. CallInv'
      BY <1>1, <1>o, <2>b, <2>1 DEF DeviceInv, Becomes, OpsAt, CallInv, PlaceInv, InLoop,
        StopPlaces, ConfigPlaces
    <2>4. LockInv'
      BY <1>1, <1>o, <2>b, <2>1 DEF DeviceInv, Becomes, OpsAt, CallInv, PlaceInv, LockInv,
        HoldsIpc, InLoop, StopPlaces, ConfigPlaces, Return, Freed
    <2>5. StateInv'
      BY <1>1, <1>o, <2>b, <2>1 DEF DeviceInv, Becomes, OpsAt, StateInv, LockInv, HoldsIpc,
        CallInv, PlaceInv, StopPlaces, ConfigPlaces
    <2>6. TodoInv'
      BY <1>1, <1>o, <2>b, <2>1 DEF DeviceInv, Becomes, OpsAt, TodoInv, Present, LockInv,
        HoldsIpc, InLoop, CallInv, PlaceInv, StopPlaces, ConfigPlaces
    <2>7. PeerInv' /\ RoutineInv' /\ RefInv'
      BY <1>1, <2>b, <2>1, QuietKeeps DEF StopPlaces, Becomes
    <2>8. BindInv'
      BY <1>1, <1>o, <2>b, <2>1 DEF DeviceInv, Becomes, OpsAt, BindInv, Silent, StateInv,
        LockInv, CallInv, PlaceInv, StopPlaces, ConfigPlaces
    <2>9. StartInv'
      BY <1>1, <1>o, <2>b, <2>1 DEF DeviceInv, Becomes, OpsAt, StartInv, InLoop, StateInv,
        LockInv, HoldsIpc, CallInv, PlaceInv, StopPlaces, ConfigPlaces, TodoInv, Present
    <2> QED BY <2>2, <2>3, <2>4, <2>5, <2>6, <2>7, <2>8, <2>9 DEF DeviceInv
  <1>2. CASE state # "closed"
    <2>b. call[c].pc = "ipc" /\ call[c].op = "close"
      BY <1>2
    <2>1. Becomes(c, call[c].op, "net", call[c].todo, call[c].peer)
      BY <1>2, <1>t, <2>b, GotoBecomes DEF CallPlaces
    <2>2. TypeOK'
      BY <1>2, <1>t, <2>1 DEF TypeOK, LockTypes, Becomes
    <2>3. CallInv'
      BY <1>2, <1>o, <2>b, <2>1 DEF DeviceInv, Becomes, OpsAt, CallInv, PlaceInv, InLoop,
        StopPlaces, ConfigPlaces
    <2>4. LockInv'
      BY <1>2, <1>o, <2>b, <2>1 DEF DeviceInv, Becomes, OpsAt, CallInv, PlaceInv, LockInv,
        HoldsIpc, InLoop, StopPlaces, ConfigPlaces
    <2>5. StateInv'
      <3>1. \A d \in Callers \ {c} : call[d].op \notin {"up", "down", "close"}
        BY <2>b DEF DeviceInv, LockInv
      <3>2. \A d \in Callers \ {c} : ~HoldsIpc(d)
        BY DEF DeviceInv, LockInv
      <3>3. \A d \in Callers \ {c} : call[d].pc \notin {"open", "mark"}
        BY <3>1, <3>2, PlacesHaveOps DEF OpsAt, HoldsIpc
      <3> QED BY <1>2, <2>b, <2>1, <3>1, <3>3 DEF DeviceInv, StateInv, Becomes
    <2>6. TodoInv'
      BY <1>2, <1>o, <2>b, <2>1 DEF DeviceInv, Becomes, OpsAt, TodoInv, Present, LockInv,
        HoldsIpc, InLoop, CallInv, PlaceInv, StopPlaces, ConfigPlaces
    <2>7. PeerInv' /\ RoutineInv' /\ RefInv'
      BY <1>2, <2>b, <2>1, QuietKeeps DEF StopPlaces, Becomes
    <2>8. BindInv'
      BY <1>2, <1>o, <2>b, <2>1 DEF DeviceInv, Becomes, OpsAt, BindInv, Silent, StateInv,
        LockInv, CallInv, PlaceInv, StopPlaces, ConfigPlaces
    <2>9. StartInv'
      BY <1>2, <1>o, <2>b, <2>1 DEF DeviceInv, Becomes, OpsAt, StartInv, InLoop, StateInv,
        LockInv, HoldsIpc, CallInv, PlaceInv, StopPlaces, ConfigPlaces, TodoInv, Present
    <2> QED BY <2>2, <2>3, <2>4, <2>5, <2>6, <2>7, <2>8, <2>9 DEF DeviceInv
  <1> QED BY <1>1, <1>2

\* The net lock is free, so nobody is between BindUpdate's test and its sockets.
LEMMA LockNetKeeps ==
    ASSUME DeviceInv, NEW c \in Callers, LockNet(c)
    PROVE  DeviceInv'
  <1> USE LifecycleAssumption
        DEF LockNet, lockVars, peerVars, queueVars, refVars, closeVars
  <1>t. TypeOK BY DEF DeviceInv
  <1>o. OpsAt(c) BY PlacesHaveOps
  <1>1. CASE call[c].pc = "net" /\ Goto(c, "drain")
    <2>b. call[c].pc = "net"
      BY <1>1
    <2>1. Becomes(c, call[c].op, "drain", call[c].todo, call[c].peer)
      BY <1>1, <1>t, <2>b, GotoBecomes DEF CallPlaces
    <2>2. TypeOK'
      BY <1>1, <1>t, <2>1 DEF TypeOK, LockTypes, Becomes
    <2>3. CallInv'
      BY <1>1, <1>o, <2>b, <2>1 DEF DeviceInv, Becomes, OpsAt, CallInv, PlaceInv, InLoop,
        StopPlaces, ConfigPlaces
    <2>4. LockInv'
      BY <1>1, <1>o, <2>b, <2>1 DEF DeviceInv, Becomes, OpsAt, CallInv, PlaceInv, LockInv,
        HoldsIpc, InLoop, StopPlaces, ConfigPlaces
    <2>5. StateInv'
      BY <1>1, <1>o, <2>b, <2>1 DEF DeviceInv, Becomes, OpsAt, StateInv, LockInv, HoldsIpc,
        CallInv, PlaceInv, StopPlaces, ConfigPlaces
    <2>6. TodoInv'
      BY <1>1, <1>o, <2>b, <2>1 DEF DeviceInv, Becomes, OpsAt, TodoInv, Present, LockInv,
        HoldsIpc, InLoop, CallInv, PlaceInv, StopPlaces, ConfigPlaces
    <2>7. PeerInv' /\ RoutineInv' /\ RefInv'
      BY <1>1, <2>b, <2>1, QuietKeeps DEF StopPlaces, Becomes
    <2>8. BindInv'
      BY <1>1, <1>o, <2>b, <2>1 DEF DeviceInv, Becomes, OpsAt, BindInv, Silent, StateInv,
        LockInv, CallInv, PlaceInv, StopPlaces, ConfigPlaces
    <2>9. StartInv'
      BY <1>1, <1>o, <2>b, <2>1 DEF DeviceInv, Becomes, OpsAt, StartInv, InLoop, StateInv,
        LockInv, HoldsIpc, CallInv, PlaceInv, StopPlaces, ConfigPlaces, TodoInv, Present
    <2> QED BY <2>2, <2>3, <2>4, <2>5, <2>6, <2>7, <2>8, <2>9 DEF DeviceInv
  <1>2. CASE Calls(c, "unbind") /\ Begin(c, "unbind", "drain")
    <2>b. call[c].op = "none" /\ call[c].pc = "idle" /\ call[c].todo = {} /\ call[c].peer = Nobody
      BY <1>2 DEF Calls, Idle
    <2>1. Becomes(c, "unbind", "drain", {}, Nobody)
      BY <1>2, <1>t, <2>b, BeginBecomes DEF Begin, CallOps, CallPlaces
    <2>2. TypeOK'
      BY <1>2, <1>t, <2>1 DEF TypeOK, LockTypes, Becomes
    <2>3. CallInv'
      BY <1>2, <1>o, <2>b, <2>1 DEF DeviceInv, Becomes, OpsAt, CallInv, PlaceInv, InLoop,
        StopPlaces, ConfigPlaces
    <2>4. LockInv'
      BY <1>2, <1>o, <2>b, <2>1 DEF DeviceInv, Becomes, OpsAt, CallInv, PlaceInv, LockInv,
        HoldsIpc, InLoop, StopPlaces, ConfigPlaces
    <2>5. StateInv'
      BY <1>2, <1>o, <2>b, <2>1 DEF DeviceInv, Becomes, OpsAt, StateInv, LockInv, HoldsIpc,
        CallInv, PlaceInv, StopPlaces, ConfigPlaces
    <2>6. TodoInv'
      BY <1>2, <1>o, <2>b, <2>1 DEF DeviceInv, Becomes, OpsAt, TodoInv, Present, LockInv,
        HoldsIpc, InLoop, CallInv, PlaceInv, StopPlaces, ConfigPlaces
    <2>7. PeerInv' /\ RoutineInv' /\ RefInv'
      BY <1>2, <2>b, <2>1, QuietKeeps DEF StopPlaces, Becomes
    <2>8. BindInv'
      BY <1>2, <1>o, <2>b, <2>1 DEF DeviceInv, Becomes, OpsAt, BindInv, Silent, StateInv,
        LockInv, CallInv, PlaceInv, StopPlaces, ConfigPlaces
    <2>9. StartInv'
      BY <1>2, <1>o, <2>b, <2>1 DEF DeviceInv, Becomes, OpsAt, StartInv, InLoop, StateInv,
        LockInv, HoldsIpc, CallInv, PlaceInv, StopPlaces, ConfigPlaces, TodoInv, Present
    <2> QED BY <2>2, <2>3, <2>4, <2>5, <2>6, <2>7, <2>8, <2>9 DEF DeviceInv
  <1> QED BY <1>1, <1>2

\* The peers to start or stop are the ones that are there.
LEMMA ReadPeersKeeps ==
    ASSUME DeviceInv, NEW c \in Callers, ReadPeers(c)
    PROVE  DeviceInv'
  <1> USE LifecycleAssumption
        DEF ReadPeers, lockVars, peerVars, queueVars, refVars, closeVars
  <1>t. TypeOK BY DEF DeviceInv
  <1>o. OpsAt(c) BY PlacesHaveOps
  <1>b. call[c].pc = "peers"
    OBVIOUS
  <1>1. Becomes(c, call[c].op, "loop", Present, call[c].peer)
    BY <1>t, <1>b, PlaceTodoBecomes DEF CallPlaces, Present
  <1>2. TypeOK'
    BY <1>t, <1>1 DEF TypeOK, LockTypes, Becomes
  <1>3. CallInv'
    BY <1>o, <1>b, <1>1 DEF DeviceInv, Becomes, OpsAt, CallInv, PlaceInv, InLoop,
      StopPlaces, ConfigPlaces
  <1>4. LockInv'
    BY <1>o, <1>b, <1>1 DEF DeviceInv, Becomes, OpsAt, CallInv, PlaceInv, LockInv,
      HoldsIpc, InLoop, StopPlaces, ConfigPlaces
  <1>5. StateInv'
    BY <1>o, <1>b, <1>1 DEF DeviceInv, Becomes, OpsAt, StateInv, LockInv, HoldsIpc,
      CallInv, PlaceInv, StopPlaces, ConfigPlaces
  <1>6. TodoInv'
    BY <1>o, <1>b, <1>1 DEF DeviceInv, Becomes, OpsAt, TodoInv, Present, LockInv, HoldsIpc,
      InLoop, CallInv, PlaceInv, StopPlaces, ConfigPlaces
  <1>7. PeerInv' /\ RoutineInv' /\ RefInv'
    BY <1>b, <1>1, QuietKeeps DEF StopPlaces, Becomes
  <1>8. BindInv'
    BY <1>o, <1>b, <1>1 DEF DeviceInv, Becomes, OpsAt, BindInv, Silent, StateInv, LockInv,
      CallInv, PlaceInv, StopPlaces, ConfigPlaces
  <1>9. StartInv'
    BY <1>o, <1>b, <1>1 DEF DeviceInv, Becomes, OpsAt, StartInv, InLoop, StateInv, LockInv,
      HoldsIpc, CallInv, PlaceInv, StopPlaces, ConfigPlaces, TodoInv, Present
  <1> QED BY <1>2, <1>3, <1>4, <1>5, <1>6, <1>7, <1>8, <1>9 DEF DeviceInv

\* No reader has a peer in hand.
LEMMA WritePeersKeeps ==
    ASSUME DeviceInv, NEW c \in Callers, WritePeers(c)
    PROVE  DeviceInv'
  <1> USE LifecycleAssumption
        DEF WritePeers, lockVars, peerVars, queueVars, refVars, closeVars
  <1>t. TypeOK BY DEF DeviceInv
  <1>o. OpsAt(c) BY PlacesHaveOps
  <1>b. call[c].pc = "remove"
    OBVIOUS
  <1>1. Becomes(c, call[c].op, "loop", call[c].todo, call[c].peer)
    BY <1>t, <1>b, GotoBecomes DEF CallPlaces
  <1>2. TypeOK'
    BY <1>t, <1>1 DEF TypeOK, LockTypes, Becomes
  <1>3. CallInv'
    BY <1>o, <1>b, <1>1 DEF DeviceInv, Becomes, OpsAt, CallInv, PlaceInv, InLoop,
      StopPlaces, ConfigPlaces
  <1>4. LockInv'
    BY <1>o, <1>b, <1>1 DEF DeviceInv, Becomes, OpsAt, CallInv, PlaceInv, LockInv,
      HoldsIpc, InLoop, StopPlaces, ConfigPlaces
  <1>5. StateInv'
    BY <1>o, <1>b, <1>1 DEF DeviceInv, Becomes, OpsAt, StateInv, LockInv, HoldsIpc,
      CallInv, PlaceInv, StopPlaces, ConfigPlaces
  <1>6. TodoInv'
    BY <1>o, <1>b, <1>1 DEF DeviceInv, Becomes, OpsAt, TodoInv, Present, LockInv, HoldsIpc,
      InLoop, CallInv, PlaceInv, StopPlaces, ConfigPlaces
  <1>7. PeerInv' /\ RoutineInv' /\ RefInv'
    BY <1>b, <1>1, QuietKeeps DEF StopPlaces, Becomes
  <1>8. BindInv'
    BY <1>o, <1>b, <1>1 DEF DeviceInv, Becomes, OpsAt, BindInv, Silent, StateInv, LockInv,
      CallInv, PlaceInv, StopPlaces, ConfigPlaces
  <1>9. StartInv'
    BY <1>o, <1>b, <1>1 DEF DeviceInv, Becomes, OpsAt, StartInv, InLoop, StateInv, LockInv,
      HoldsIpc, CallInv, PlaceInv, StopPlaces, ConfigPlaces, TodoInv, Present
  <1> QED BY <1>2, <1>3, <1>4, <1>5, <1>6, <1>7, <1>8, <1>9 DEF DeviceInv

\* SendHandshakeInitiation leaves everything to the routines.
LEMMA CallerHelloKeeps ==
    ASSUME DeviceInv, NEW c \in Callers, CallerHello(c)
    PROVE  DeviceInv'
  <1> USE LifecycleAssumption
        DEF CallerHello, lockVars, peerVars, queueVars, refVars, closeVars
  <1>t. TypeOK BY DEF DeviceInv
  <1>o. OpsAt(c) BY PlacesHaveOps
  <1>b. call[c].pc = "hello"
    OBVIOUS
  <1>1. Becomes(c, call[c].op, IF call[c].op = "up" THEN "loop" ELSE "test", call[c].todo, call[c].peer)
    BY <1>t, <1>b, GotoBecomes DEF CallPlaces
  <1>2. TypeOK'
    BY <1>t, <1>1 DEF TypeOK, LockTypes, Becomes
  <1>3. CallInv'
    BY <1>o, <1>b, <1>1 DEF DeviceInv, Becomes, OpsAt, CallInv, PlaceInv, InLoop,
      StopPlaces, ConfigPlaces
  <1>4. LockInv'
    BY <1>o, <1>b, <1>1 DEF DeviceInv, Becomes, OpsAt, CallInv, PlaceInv, LockInv,
      HoldsIpc, InLoop, StopPlaces, ConfigPlaces
  <1>5. StateInv'
    BY <1>o, <1>b, <1>1 DEF DeviceInv, Becomes, OpsAt, StateInv, LockInv, HoldsIpc,
      CallInv, PlaceInv, StopPlaces, ConfigPlaces
  <1>6. TodoInv'
    BY <1>o, <1>b, <1>1 DEF DeviceInv, Becomes, OpsAt, TodoInv, Present, LockInv, HoldsIpc,
      InLoop, CallInv, PlaceInv, StopPlaces, ConfigPlaces
  <1>7. PeerInv' /\ RoutineInv' /\ RefInv'
    BY <1>b, <1>1, QuietKeeps DEF StopPlaces, Becomes
  <1>8. BindInv'
    BY <1>o, <1>b, <1>1 DEF DeviceInv, Becomes, OpsAt, BindInv, Silent, StateInv, LockInv,
      CallInv, PlaceInv, StopPlaces, ConfigPlaces
  <1>9. StartInv'
    BY <1>o, <1>b, <1>1 DEF DeviceInv, Becomes, OpsAt, StartInv, InLoop, StateInv, LockInv,
      HoldsIpc, CallInv, PlaceInv, StopPlaces, ConfigPlaces, TodoInv, Present
  <1> QED BY <1>2, <1>3, <1>4, <1>5, <1>6, <1>7, <1>8, <1>9 DEF DeviceInv

\* The loop has started, stopped or removed every peer it had to.
LEMMA LoopEndsKeeps ==
    ASSUME DeviceInv, NEW c \in Callers, LoopEnds(c)
    PROVE  DeviceInv'
  <1> USE LifecycleAssumption
        DEF LoopEnds, lockVars, peerVars, queueVars, refVars, closeVars
  <1>t. TypeOK BY DEF DeviceInv
  <1>o. OpsAt(c) BY PlacesHaveOps
  <1>1. CASE call[c].op \in {"up", "down"}
    <2>b. call[c].pc = "loop" /\ call[c].todo = {}
      BY <1>1
    <2>1. Becomes(c, "none", "idle", {}, Nobody)
      BY <1>1, <1>t, <2>b, ReturnBecomes DEF Return
    <2>2. TypeOK'
      BY <1>1, <1>t, <2>1 DEF TypeOK, LockTypes, Becomes, Return, Freed
    <2>3. CallInv'
      BY <1>1, <1>o, <2>b, <2>1 DEF DeviceInv, Becomes, OpsAt, CallInv, PlaceInv, InLoop,
        StopPlaces, ConfigPlaces
    <2>4. LockInv'
      BY <1>1, <1>o, <2>b, <2>1 DEF DeviceInv, Becomes, OpsAt, CallInv, PlaceInv, LockInv,
        HoldsIpc, InLoop, StopPlaces, ConfigPlaces, Return, Freed
    <2>5. StateInv'
      BY <1>1, <1>o, <2>b, <2>1 DEF DeviceInv, Becomes, OpsAt, StateInv, LockInv, HoldsIpc,
        CallInv, PlaceInv, StopPlaces, ConfigPlaces
    <2>6. TodoInv'
      BY <1>1, <1>o, <2>b, <2>1 DEF DeviceInv, Becomes, OpsAt, TodoInv, Present, LockInv,
        HoldsIpc, InLoop, CallInv, PlaceInv, StopPlaces, ConfigPlaces, Return, Freed
    <2>7. PeerInv' /\ RoutineInv' /\ RefInv'
      BY <1>1, <2>b, <2>1, QuietKeeps DEF StopPlaces, Becomes
    <2>8. BindInv'
      BY <1>1, <1>o, <2>b, <2>1 DEF DeviceInv, Becomes, OpsAt, BindInv, Silent, StateInv,
        LockInv, CallInv, PlaceInv, StopPlaces, ConfigPlaces
    <2>9. StartInv'
      BY <1>1, <1>o, <2>b, <2>1 DEF DeviceInv, Becomes, OpsAt, StartInv, InLoop, StateInv,
        LockInv, HoldsIpc, CallInv, PlaceInv, StopPlaces, ConfigPlaces, TodoInv, Present,
        Return, Freed
    <2> QED BY <2>2, <2>3, <2>4, <2>5, <2>6, <2>7, <2>8, <2>9 DEF DeviceInv
  <1>2. CASE call[c].op \in {"set", "setPeer"}
    <2>b. call[c].pc = "loop" /\ call[c].todo = {}
      BY <1>2
    <2>1. Becomes(c, call[c].op, "line", {}, call[c].peer)
      BY <1>2, <1>t, <2>b, PlaceTodoBecomes DEF CallPlaces, DeviceInv, LockInv
    <2>2. TypeOK'
      BY <1>2, <1>t, <2>1 DEF TypeOK, LockTypes, Becomes, Freed
    <2>3. CallInv'
      BY <1>2, <1>o, <2>b, <2>1 DEF DeviceInv, Becomes, OpsAt, CallInv, PlaceInv, InLoop,
        StopPlaces, ConfigPlaces
    <2>4. LockInv'
      BY <1>2, <1>o, <2>b, <2>1 DEF DeviceInv, Becomes, OpsAt, CallInv, PlaceInv, LockInv,
        HoldsIpc, InLoop, StopPlaces, ConfigPlaces, Freed
    <2>5. StateInv'
      BY <1>2, <1>o, <2>b, <2>1 DEF DeviceInv, Becomes, OpsAt, StateInv, LockInv, HoldsIpc,
        CallInv, PlaceInv, StopPlaces, ConfigPlaces
    <2>6. TodoInv'
      BY <1>2, <1>o, <2>b, <2>1 DEF DeviceInv, Becomes, OpsAt, TodoInv, Present, LockInv,
        HoldsIpc, InLoop, CallInv, PlaceInv, StopPlaces, ConfigPlaces, Freed
    <2>7. PeerInv' /\ RoutineInv' /\ RefInv'
      BY <1>2, <2>b, <2>1, QuietKeeps DEF StopPlaces, Becomes
    <2>8. BindInv'
      BY <1>2, <1>o, <2>b, <2>1 DEF DeviceInv, Becomes, OpsAt, BindInv, Silent, StateInv,
        LockInv, CallInv, PlaceInv, StopPlaces, ConfigPlaces
    <2>9. StartInv'
      BY <1>2, <1>o, <2>b, <2>1 DEF DeviceInv, Becomes, OpsAt, StartInv, InLoop, StateInv,
        LockInv, HoldsIpc, CallInv, PlaceInv, StopPlaces, ConfigPlaces, TodoInv, Present,
        Freed
    <2> QED BY <2>2, <2>3, <2>4, <2>5, <2>6, <2>7, <2>8, <2>9 DEF DeviceInv
  <1>3. CASE call[c].op \notin {"up", "down", "set", "setPeer"} /\ c \in peersReaders
    <2>b. call[c].pc = "loop" /\ call[c].todo = {}
      BY <1>3
    <2>1. Becomes(c, call[c].op, "remove", Present, call[c].peer)
      BY <1>3, <1>t, <2>b, PlaceTodoBecomes DEF CallPlaces, Present
    <2>2. TypeOK'
      BY <1>3, <1>t, <2>1 DEF TypeOK, LockTypes, Becomes, Freed
    <2>3. CallInv'
      BY <1>3, <1>o, <2>b, <2>1 DEF DeviceInv, Becomes, OpsAt, CallInv, PlaceInv, InLoop,
        StopPlaces, ConfigPlaces
    <2>4. LockInv'
      BY <1>3, <1>o, <2>b, <2>1 DEF DeviceInv, Becomes, OpsAt, CallInv, PlaceInv, LockInv,
        HoldsIpc, InLoop, StopPlaces, ConfigPlaces, Freed
    <2>5. StateInv'
      BY <1>3, <1>o, <2>b, <2>1 DEF DeviceInv, Becomes, OpsAt, StateInv, LockInv, HoldsIpc,
        CallInv, PlaceInv, StopPlaces, ConfigPlaces
    <2>6. TodoInv'
      BY <1>3, <1>o, <2>b, <2>1 DEF DeviceInv, Becomes, OpsAt, TodoInv, Present, LockInv,
        HoldsIpc, InLoop, CallInv, PlaceInv, StopPlaces, ConfigPlaces, Freed
    <2>7. PeerInv' /\ RoutineInv' /\ RefInv'
      BY <1>3, <2>b, <2>1, QuietKeeps DEF StopPlaces, Becomes
    <2>8. BindInv'
      BY <1>3, <1>o, <2>b, <2>1 DEF DeviceInv, Becomes, OpsAt, BindInv, Silent, StateInv,
        LockInv, CallInv, PlaceInv, StopPlaces, ConfigPlaces
    <2>9. StartInv'
      BY <1>3, <1>o, <2>b, <2>1 DEF DeviceInv, Becomes, OpsAt, StartInv, InLoop, StateInv,
        LockInv, HoldsIpc, CallInv, PlaceInv, StopPlaces, ConfigPlaces, TodoInv, Present,
        Freed
    <2> QED BY <2>2, <2>3, <2>4, <2>5, <2>6, <2>7, <2>8, <2>9 DEF DeviceInv
  <1>4. CASE call[c].op \notin {"up", "down", "set", "setPeer"} /\ c \notin peersReaders
    <2>b. call[c].pc = "loop" /\ call[c].todo = {}
      BY <1>4
    <2>1. Becomes(c, call[c].op, "refs", {}, call[c].peer)
      BY <1>4, <1>t, <2>b, PlaceTodoBecomes DEF CallPlaces
    <2>2. TypeOK'
      BY <1>4, <1>t, <2>1 DEF TypeOK, LockTypes, Becomes, Freed
    <2>3. CallInv'
      BY <1>4, <1>o, <2>b, <2>1 DEF DeviceInv, Becomes, OpsAt, CallInv, PlaceInv, InLoop,
        StopPlaces, ConfigPlaces
    <2>4. LockInv'
      BY <1>4, <1>o, <2>b, <2>1 DEF DeviceInv, Becomes, OpsAt, CallInv, PlaceInv, LockInv,
        HoldsIpc, InLoop, StopPlaces, ConfigPlaces, Freed
    <2>5. StateInv'
      BY <1>4, <1>o, <2>b, <2>1 DEF DeviceInv, Becomes, OpsAt, StateInv, LockInv, HoldsIpc,
        CallInv, PlaceInv, StopPlaces, ConfigPlaces
    <2>6. TodoInv'
      BY <1>4, <1>o, <2>b, <2>1 DEF DeviceInv, Becomes, OpsAt, TodoInv, Present, LockInv,
        HoldsIpc, InLoop, CallInv, PlaceInv, StopPlaces, ConfigPlaces, Freed
    <2>7. PeerInv' /\ RoutineInv' /\ RefInv'
      BY <1>4, <2>b, <2>1, QuietKeeps DEF StopPlaces, Becomes
    <2>8. BindInv'
      BY <1>4, <1>o, <2>b, <2>1 DEF DeviceInv, Becomes, OpsAt, BindInv, Silent, StateInv,
        LockInv, CallInv, PlaceInv, StopPlaces, ConfigPlaces
    <2>9. StartInv'
      BY <1>4, <1>o, <2>b, <2>1 DEF DeviceInv, Becomes, OpsAt, StartInv, InLoop, StateInv,
        LockInv, HoldsIpc, CallInv, PlaceInv, StopPlaces, ConfigPlaces, TodoInv, Present,
        Freed
    <2> QED BY <2>2, <2>3, <2>4, <2>5, <2>6, <2>7, <2>8, <2>9 DEF DeviceInv
  <1> QED BY <1>1, <1>2, <1>3, <1>4

\* A peer that is there stays there while the IPC mutex is held.
LEMMA SelectPeerKeeps ==
    ASSUME DeviceInv, NEW c \in Callers, NEW p \in Peers, SelectPeer(c, p)
    PROVE  DeviceInv'
  <1> USE LifecycleAssumption
        DEF SelectPeer, lockVars, peerVars, queueVars, refVars, closeVars
  <1>t. TypeOK BY DEF DeviceInv
  <1>o. OpsAt(c) BY PlacesHaveOps
  <1>b. call[c].pc = "line"
    OBVIOUS
  <1>1. Becomes(c, "setPeer", "peer", call[c].todo, p)
    BY <1>t, <1>b, OpPeerBecomes DEF CallOps, CallPlaces
  <1>2. TypeOK'
    BY <1>t, <1>1 DEF TypeOK, LockTypes, Becomes
  <1>3. CallInv'
    BY <1>o, <1>b, <1>1 DEF DeviceInv, Becomes, OpsAt, CallInv, PlaceInv, InLoop,
      StopPlaces, ConfigPlaces
  <1>4. LockInv'
    BY <1>o, <1>b, <1>1 DEF DeviceInv, Becomes, OpsAt, CallInv, PlaceInv, LockInv,
      HoldsIpc, InLoop, StopPlaces, ConfigPlaces
  <1>5. StateInv'
    BY <1>o, <1>b, <1>1 DEF DeviceInv, Becomes, OpsAt, StateInv, LockInv, HoldsIpc,
      CallInv, PlaceInv, StopPlaces, ConfigPlaces
  <1>6. TodoInv'
    BY <1>o, <1>b, <1>1 DEF DeviceInv, Becomes, OpsAt, TodoInv, Present, LockInv, HoldsIpc,
      InLoop, CallInv, PlaceInv, StopPlaces, ConfigPlaces
  <1>7. PeerInv' /\ RoutineInv' /\ RefInv'
    BY <1>b, <1>1, QuietKeeps DEF StopPlaces, Becomes
  <1>8. BindInv'
    BY <1>o, <1>b, <1>1 DEF DeviceInv, Becomes, OpsAt, BindInv, Silent, StateInv, LockInv,
      CallInv, PlaceInv, StopPlaces, ConfigPlaces
  <1>9. StartInv'
    BY <1>o, <1>b, <1>1 DEF DeviceInv, Becomes, OpsAt, StartInv, InLoop, StateInv, LockInv,
      HoldsIpc, CallInv, PlaceInv, StopPlaces, ConfigPlaces, TodoInv, Present
  <1> QED BY <1>2, <1>3, <1>4, <1>5, <1>6, <1>7, <1>8, <1>9 DEF DeviceInv

\* The peer of the line is handed over to the loop.
LEMMA RemoveLineKeeps ==
    ASSUME DeviceInv, NEW c \in Callers, RemoveLine(c)
    PROVE  DeviceInv'
  <1> USE LifecycleAssumption
        DEF RemoveLine, lockVars, peerVars, queueVars, refVars, closeVars
  <1>t. TypeOK BY DEF DeviceInv
  <1>o. OpsAt(c) BY PlacesHaveOps
  <1>b. call[c].pc = "peer"
    OBVIOUS
  <1>1. Becomes(c, call[c].op, "remove", {call[c].peer}, Nobody)
    BY <1>t, <1>b, PlaceTodoPeerBecomes DEF CallPlaces, DeviceInv, CallInv, ConfigPlaces
  <1>2. TypeOK'
    BY <1>t, <1>1 DEF TypeOK, LockTypes, Becomes
  <1>3. CallInv'
    BY <1>o, <1>b, <1>1 DEF DeviceInv, Becomes, OpsAt, CallInv, PlaceInv, InLoop,
      StopPlaces, ConfigPlaces
  <1>4. LockInv'
    BY <1>o, <1>b, <1>1 DEF DeviceInv, Becomes, OpsAt, CallInv, PlaceInv, LockInv,
      HoldsIpc, InLoop, StopPlaces, ConfigPlaces
  <1>5. StateInv'
    BY <1>o, <1>b, <1>1 DEF DeviceInv, Becomes, OpsAt, StateInv, LockInv, HoldsIpc,
      CallInv, PlaceInv, StopPlaces, ConfigPlaces
  <1>6. TodoInv'
    BY <1>o, <1>b, <1>1 DEF DeviceInv, Becomes, OpsAt, TodoInv, Present, LockInv, HoldsIpc,
      InLoop, CallInv, PlaceInv, StopPlaces, ConfigPlaces
  <1>7. PeerInv' /\ RoutineInv' /\ RefInv'
    BY <1>b, <1>1, QuietKeeps DEF StopPlaces, Becomes
  <1>8. BindInv'
    BY <1>o, <1>b, <1>1 DEF DeviceInv, Becomes, OpsAt, BindInv, Silent, StateInv, LockInv,
      CallInv, PlaceInv, StopPlaces, ConfigPlaces
  <1>9. StartInv'
    BY <1>o, <1>b, <1>1 DEF DeviceInv, Becomes, OpsAt, StartInv, InLoop, StateInv, LockInv,
      HoldsIpc, CallInv, PlaceInv, StopPlaces, ConfigPlaces, TodoInv, Present
  <1> QED BY <1>2, <1>3, <1>4, <1>5, <1>6, <1>7, <1>8, <1>9 DEF DeviceInv

\* All the peers there are handed over to the loop.
LEMMA ReplacePeersLineKeeps ==
    ASSUME DeviceInv, NEW c \in Callers, ReplacePeersLine(c)
    PROVE  DeviceInv'
  <1> USE LifecycleAssumption
        DEF ReplacePeersLine, lockVars, peerVars, queueVars, refVars, closeVars
  <1>t. TypeOK BY DEF DeviceInv
  <1>o. OpsAt(c) BY PlacesHaveOps
  <1>b. call[c].pc = "line" /\ call[c].op = "set"
    OBVIOUS
  <1>1. Becomes(c, call[c].op, "remove", Present, call[c].peer)
    BY <1>t, <1>b, PlaceTodoBecomes DEF CallPlaces, Present
  <1>2. TypeOK'
    BY <1>t, <1>1 DEF TypeOK, LockTypes, Becomes
  <1>3. CallInv'
    BY <1>o, <1>b, <1>1 DEF DeviceInv, Becomes, OpsAt, CallInv, PlaceInv, InLoop,
      StopPlaces, ConfigPlaces
  <1>4. LockInv'
    BY <1>o, <1>b, <1>1 DEF DeviceInv, Becomes, OpsAt, CallInv, PlaceInv, LockInv,
      HoldsIpc, InLoop, StopPlaces, ConfigPlaces
  <1>5. StateInv'
    BY <1>o, <1>b, <1>1 DEF DeviceInv, Becomes, OpsAt, StateInv, LockInv, HoldsIpc,
      CallInv, PlaceInv, StopPlaces, ConfigPlaces
  <1>6. TodoInv'
    BY <1>o, <1>b, <1>1 DEF DeviceInv, Becomes, OpsAt, TodoInv, Present, LockInv, HoldsIpc,
      InLoop, CallInv, PlaceInv, StopPlaces, ConfigPlaces
  <1>7. PeerInv' /\ RoutineInv' /\ RefInv'
    BY <1>b, <1>1, QuietKeeps DEF StopPlaces, Becomes
  <1>8. BindInv'
    BY <1>o, <1>b, <1>1 DEF DeviceInv, Becomes, OpsAt, BindInv, Silent, StateInv, LockInv,
      CallInv, PlaceInv, StopPlaces, ConfigPlaces
  <1>9. StartInv'
    BY <1>o, <1>b, <1>1 DEF DeviceInv, Becomes, OpsAt, StartInv, InLoop, StateInv, LockInv,
      HoldsIpc, CallInv, PlaceInv, StopPlaces, ConfigPlaces, TodoInv, Present
  <1> QED BY <1>2, <1>3, <1>4, <1>5, <1>6, <1>7, <1>8, <1>9 DEF DeviceInv

\* On to BindUpdate.
LEMMA ListenPortLineKeeps ==
    ASSUME DeviceInv, NEW c \in Callers, ListenPortLine(c)
    PROVE  DeviceInv'
  <1> USE LifecycleAssumption
        DEF ListenPortLine, lockVars, peerVars, queueVars, refVars, closeVars
  <1>t. TypeOK BY DEF DeviceInv
  <1>o. OpsAt(c) BY PlacesHaveOps
  <1>b. call[c].pc = "line" /\ call[c].op = "set"
    OBVIOUS
  <1>1. Becomes(c, call[c].op, "net", call[c].todo, call[c].peer)
    BY <1>t, <1>b, GotoBecomes DEF CallPlaces
  <1>2. TypeOK'
    BY <1>t, <1>1 DEF TypeOK, LockTypes, Becomes
  <1>3. CallInv'
    BY <1>o, <1>b, <1>1 DEF DeviceInv, Becomes, OpsAt, CallInv, PlaceInv, InLoop,
      StopPlaces, ConfigPlaces
  <1>4. LockInv'
    BY <1>o, <1>b, <1>1 DEF DeviceInv, Becomes, OpsAt, CallInv, PlaceInv, LockInv,
      HoldsIpc, InLoop, StopPlaces, ConfigPlaces
  <1>5. StateInv'
    BY <1>o, <1>b, <1>1 DEF DeviceInv, Becomes, OpsAt, StateInv, LockInv, HoldsIpc,
      CallInv, PlaceInv, StopPlaces, ConfigPlaces
  <1>6. TodoInv'
    BY <1>o, <1>b, <1>1 DEF DeviceInv, Becomes, OpsAt, TodoInv, Present, LockInv, HoldsIpc,
      InLoop, CallInv, PlaceInv, StopPlaces, ConfigPlaces
  <1>7. PeerInv' /\ RoutineInv' /\ RefInv'
    BY <1>b, <1>1, QuietKeeps DEF StopPlaces, Becomes
  <1>8. BindInv'
    BY <1>o, <1>b, <1>1 DEF DeviceInv, Becomes, OpsAt, BindInv, Silent, StateInv, LockInv,
      CallInv, PlaceInv, StopPlaces, ConfigPlaces
  <1>9. StartInv'
    BY <1>o, <1>b, <1>1 DEF DeviceInv, Becomes, OpsAt, StartInv, InLoop, StateInv, LockInv,
      HoldsIpc, CallInv, PlaceInv, StopPlaces, ConfigPlaces, TodoInv, Present
  <1> QED BY <1>2, <1>3, <1>4, <1>5, <1>6, <1>7, <1>8, <1>9 DEF DeviceInv

\* The state is read without its lock: whatever it says, the peer is there.
LEMMA SetTestsKeeps ==
    ASSUME DeviceInv, NEW c \in Callers, SetTests(c)
    PROVE  DeviceInv'
  <1> USE LifecycleAssumption
        DEF SetTests, lockVars, peerVars, queueVars, refVars, closeVars
  <1>t. TypeOK BY DEF DeviceInv
  <1>o. OpsAt(c) BY PlacesHaveOps
  <1>1. CASE state = "up"
    <2>b. call[c].pc = "test"
      BY <1>1
    <2>1. Becomes(c, call[c].op, "staged", call[c].todo, call[c].peer)
      BY <1>1, <1>t, <2>b, GotoBecomes DEF Goto, CallPlaces
    <2>2. TypeOK'
      BY <1>1, <1>t, <2>1 DEF TypeOK, LockTypes, Becomes
    <2>3. CallInv'
      BY <1>1, <1>o, <2>b, <2>1 DEF DeviceInv, Becomes, OpsAt, CallInv, PlaceInv, InLoop,
        StopPlaces, ConfigPlaces
    <2>4. LockInv'
      BY <1>1, <1>o, <2>b, <2>1 DEF DeviceInv, Becomes, OpsAt, CallInv, PlaceInv, LockInv,
        HoldsIpc, InLoop, StopPlaces, ConfigPlaces
    <2>5. StateInv'
      BY <1>1, <1>o, <2>b, <2>1 DEF DeviceInv, Becomes, OpsAt, StateInv, LockInv, HoldsIpc,
        CallInv, PlaceInv, StopPlaces, ConfigPlaces
    <2>6. TodoInv'
      BY <1>1, <1>o, <2>b, <2>1 DEF DeviceInv, Becomes, OpsAt, TodoInv, Present, LockInv,
        HoldsIpc, InLoop, CallInv, PlaceInv, StopPlaces, ConfigPlaces
    <2>7. PeerInv' /\ RoutineInv' /\ RefInv'
      BY <1>1, <2>b, <2>1, QuietKeeps DEF StopPlaces, Becomes
    <2>8. BindInv'
      BY <1>1, <1>o, <2>b, <2>1 DEF DeviceInv, Becomes, OpsAt, BindInv, Silent, StateInv,
        LockInv, CallInv, PlaceInv, StopPlaces, ConfigPlaces
    <2>9. StartInv'
      BY <1>1, <1>o, <2>b, <2>1 DEF DeviceInv, Becomes, OpsAt, StartInv, InLoop, StateInv,
        LockInv, HoldsIpc, CallInv, PlaceInv, StopPlaces, ConfigPlaces, TodoInv, Present
    <2> QED BY <2>2, <2>3, <2>4, <2>5, <2>6, <2>7, <2>8, <2>9 DEF DeviceInv
  <1>2. CASE state # "up"
    <2>b. call[c].pc = "test"
      BY <1>2
    <2>1. Becomes(c, call[c].op, "line", call[c].todo, Nobody)
      BY <1>2, <1>t, <2>b, PeerBecomes DEF CallPlaces
    <2>2. TypeOK'
      BY <1>2, <1>t, <2>1 DEF TypeOK, LockTypes, Becomes
    <2>3. CallInv'
      BY <1>2, <1>o, <2>b, <2>1 DEF DeviceInv, Becomes, OpsAt, CallInv, PlaceInv, InLoop,
        StopPlaces, ConfigPlaces
    <2>4. LockInv'
      BY <1>2, <1>o, <2>b, <2>1 DEF DeviceInv, Becomes, OpsAt, CallInv, PlaceInv, LockInv,
        HoldsIpc, InLoop, StopPlaces, ConfigPlaces
    <2>5. StateInv'
      BY <1>2, <1>o, <2>b, <2>1 DEF DeviceInv, Becomes, OpsAt, StateInv, LockInv, HoldsIpc,
        CallInv, PlaceInv, StopPlaces, ConfigPlaces
    <2>6. TodoInv'
      BY <1>2, <1>o, <2>b, <2>1 DEF DeviceInv, Becomes, OpsAt, TodoInv, Present, LockInv,
        HoldsIpc, InLoop, CallInv, PlaceInv, StopPlaces, ConfigPlaces
    <2>7. PeerInv' /\ RoutineInv' /\ RefInv'
      BY <1>2, <2>b, <2>1, QuietKeeps DEF StopPlaces, Becomes
    <2>8. BindInv'
      BY <1>2, <1>o, <2>b, <2>1 DEF DeviceInv, Becomes, OpsAt, BindInv, Silent, StateInv,
        LockInv, CallInv, PlaceInv, StopPlaces, ConfigPlaces
    <2>9. StartInv'
      BY <1>2, <1>o, <2>b, <2>1 DEF DeviceInv, Becomes, OpsAt, StartInv, InLoop, StateInv,
        LockInv, HoldsIpc, CallInv, PlaceInv, StopPlaces, ConfigPlaces, TodoInv, Present
    <2> QED BY <2>2, <2>3, <2>4, <2>5, <2>6, <2>7, <2>8, <2>9 DEF DeviceInv
  <1> QED BY <1>1, <1>2

\* A caller that takes a container has a peer that is there.
LEMMA SetStagedKeeps ==
    ASSUME DeviceInv, NEW c \in Callers, SetStaged(c)
    PROVE  DeviceInv'
  <1> USE LifecycleAssumption
        DEF SetStaged, lockVars, peerVars, queueVars, refVars, closeVars
  <1>t. TypeOK BY DEF DeviceInv
  <1>o. OpsAt(c) BY PlacesHaveOps
  <1>1. CASE Goto(c, "push")
    <2>b. call[c].pc = "staged"
      BY <1>1
    <2>1. Becomes(c, call[c].op, "push", call[c].todo, call[c].peer)
      BY <1>1, <1>t, <2>b, GotoBecomes DEF CallPlaces
    <2>2. TypeOK'
      BY <1>1, <1>t, <2>1 DEF TypeOK, LockTypes, Becomes
    <2>3. CallInv'
      BY <1>1, <1>o, <2>b, <2>1 DEF DeviceInv, Becomes, OpsAt, CallInv, PlaceInv, InLoop,
        StopPlaces, ConfigPlaces
    <2>4. LockInv'
      BY <1>1, <1>o, <2>b, <2>1 DEF DeviceInv, Becomes, OpsAt, CallInv, PlaceInv, LockInv,
        HoldsIpc, InLoop, StopPlaces, ConfigPlaces
    <2>5. StateInv'
      BY <1>1, <1>o, <2>b, <2>1 DEF DeviceInv, Becomes, OpsAt, StateInv, LockInv, HoldsIpc,
        CallInv, PlaceInv, StopPlaces, ConfigPlaces
    <2>6. TodoInv'
      BY <1>1, <1>o, <2>b, <2>1 DEF DeviceInv, Becomes, OpsAt, TodoInv, Present, LockInv,
        HoldsIpc, InLoop, CallInv, PlaceInv, StopPlaces, ConfigPlaces
    <2>7. PeerInv' /\ RoutineInv' /\ RefInv'
      BY <1>1, <2>b, <2>1, QuietKeeps DEF StopPlaces, Becomes
    <2>8. BindInv'
      BY <1>1, <1>o, <2>b, <2>1 DEF DeviceInv, Becomes, OpsAt, BindInv, Silent, StateInv,
        LockInv, CallInv, PlaceInv, StopPlaces, ConfigPlaces
    <2>9. StartInv'
      BY <1>1, <1>o, <2>b, <2>1 DEF DeviceInv, Becomes, OpsAt, StartInv, InLoop, StateInv,
        LockInv, HoldsIpc, CallInv, PlaceInv, StopPlaces, ConfigPlaces, TodoInv, Present
    <2> QED BY <2>2, <2>3, <2>4, <2>5, <2>6, <2>7, <2>8, <2>9 DEF DeviceInv
  <1>2. CASE ~Goto(c, "push")
    <2>b. call[c].pc = "staged"
      BY <1>2
    <2>1. Becomes(c, call[c].op, "line", call[c].todo, Nobody)
      BY <1>2, <1>t, <2>b, PeerBecomes DEF CallPlaces
    <2>2. TypeOK'
      BY <1>2, <1>t, <2>1 DEF TypeOK, LockTypes, Becomes
    <2>3. CallInv'
      BY <1>2, <1>o, <2>b, <2>1 DEF DeviceInv, Becomes, OpsAt, CallInv, PlaceInv, InLoop,
        StopPlaces, ConfigPlaces
    <2>4. LockInv'
      BY <1>2, <1>o, <2>b, <2>1 DEF DeviceInv, Becomes, OpsAt, CallInv, PlaceInv, LockInv,
        HoldsIpc, InLoop, StopPlaces, ConfigPlaces
    <2>5. StateInv'
      BY <1>2, <1>o, <2>b, <2>1 DEF DeviceInv, Becomes, OpsAt, StateInv, LockInv, HoldsIpc,
        CallInv, PlaceInv, StopPlaces, ConfigPlaces
    <2>6. TodoInv'
      BY <1>2, <1>o, <2>b, <2>1 DEF DeviceInv, Becomes, OpsAt, TodoInv, Present, LockInv,
        HoldsIpc, InLoop, CallInv, PlaceInv, StopPlaces, ConfigPlaces
    <2>7. PeerInv' /\ RoutineInv' /\ RefInv'
      BY <1>2, <2>b, <2>1, QuietKeeps DEF StopPlaces, Becomes
    <2>8. BindInv'
      BY <1>2, <1>o, <2>b, <2>1 DEF DeviceInv, Becomes, OpsAt, BindInv, Silent, StateInv,
        LockInv, CallInv, PlaceInv, StopPlaces, ConfigPlaces
    <2>9. StartInv'
      BY <1>2, <1>o, <2>b, <2>1 DEF DeviceInv, Becomes, OpsAt, StartInv, InLoop, StateInv,
        LockInv, HoldsIpc, CallInv, PlaceInv, StopPlaces, ConfigPlaces, TodoInv, Present
    <2> QED BY <2>2, <2>3, <2>4, <2>5, <2>6, <2>7, <2>8, <2>9 DEF DeviceInv
  <1> QED BY <1>1, <1>2

\* Back to the staged queue.
LEMMA SetSealsKeeps ==
    ASSUME DeviceInv, NEW c \in Callers, SetSeals(c)
    PROVE  DeviceInv'
  <1> USE LifecycleAssumption
        DEF SetSeals, lockVars, peerVars, queueVars, refVars, closeVars
  <1>t. TypeOK BY DEF DeviceInv
  <1>o. OpsAt(c) BY PlacesHaveOps
  <1>b. call[c].pc = "seal"
    OBVIOUS
  <1>1. Becomes(c, call[c].op, "staged", call[c].todo, call[c].peer)
    BY <1>t, <1>b, GotoBecomes DEF CallPlaces
  <1>2. TypeOK'
    BY <1>t, <1>1 DEF TypeOK, LockTypes, Becomes
  <1>3. CallInv'
    BY <1>o, <1>b, <1>1 DEF DeviceInv, Becomes, OpsAt, CallInv, PlaceInv, InLoop,
      StopPlaces, ConfigPlaces
  <1>4. LockInv'
    BY <1>o, <1>b, <1>1 DEF DeviceInv, Becomes, OpsAt, CallInv, PlaceInv, LockInv,
      HoldsIpc, InLoop, StopPlaces, ConfigPlaces
  <1>5. StateInv'
    BY <1>o, <1>b, <1>1 DEF DeviceInv, Becomes, OpsAt, StateInv, LockInv, HoldsIpc,
      CallInv, PlaceInv, StopPlaces, ConfigPlaces
  <1>6. TodoInv'
    BY <1>o, <1>b, <1>1 DEF DeviceInv, Becomes, OpsAt, TodoInv, Present, LockInv, HoldsIpc,
      InLoop, CallInv, PlaceInv, StopPlaces, ConfigPlaces
  <1>7. PeerInv' /\ RoutineInv' /\ RefInv'
    BY <1>b, <1>1, QuietKeeps DEF StopPlaces, Becomes
  <1>8. BindInv'
    BY <1>o, <1>b, <1>1 DEF DeviceInv, Becomes, OpsAt, BindInv, Silent, StateInv, LockInv,
      CallInv, PlaceInv, StopPlaces, ConfigPlaces
  <1>9. StartInv'
    BY <1>o, <1>b, <1>1 DEF DeviceInv, Becomes, OpsAt, StartInv, InLoop, StateInv, LockInv,
      HoldsIpc, CallInv, PlaceInv, StopPlaces, ConfigPlaces, TodoInv, Present
  <1> QED BY <1>2, <1>3, <1>4, <1>5, <1>6, <1>7, <1>8, <1>9 DEF DeviceInv

\* A set operation ends where it holds no lock but the IPC mutex.
LEMMA SetReturnsKeeps ==
    ASSUME DeviceInv, NEW c \in Callers, SetReturns(c)
    PROVE  DeviceInv'
  <1> USE LifecycleAssumption
        DEF SetReturns, lockVars, peerVars, queueVars, refVars, closeVars
  <1>t. TypeOK BY DEF DeviceInv
  <1>o. OpsAt(c) BY PlacesHaveOps
  <1>b. call[c].pc \in {"line", "peer"}
    OBVIOUS
  <1>1. Becomes(c, "none", "idle", {}, Nobody)
    BY <1>t, <1>b, ReturnBecomes DEF Return
  <1>2. TypeOK'
    BY <1>t, <1>1 DEF TypeOK, LockTypes, Becomes, Return, Freed
  <1>3. CallInv'
    BY <1>o, <1>b, <1>1 DEF DeviceInv, Becomes, OpsAt, CallInv, PlaceInv, InLoop,
      StopPlaces, ConfigPlaces
  <1>4. LockInv'
    BY <1>o, <1>b, <1>1 DEF DeviceInv, Becomes, OpsAt, CallInv, PlaceInv, LockInv,
      HoldsIpc, InLoop, StopPlaces, ConfigPlaces, Return, Freed
  <1>5. StateInv'
    BY <1>o, <1>b, <1>1 DEF DeviceInv, Becomes, OpsAt, StateInv, LockInv, HoldsIpc,
      CallInv, PlaceInv, StopPlaces, ConfigPlaces
  <1>6. TodoInv'
    BY <1>o, <1>b, <1>1 DEF DeviceInv, Becomes, OpsAt, TodoInv, Present, LockInv, HoldsIpc,
      InLoop, CallInv, PlaceInv, StopPlaces, ConfigPlaces
  <1>7. PeerInv' /\ RoutineInv' /\ RefInv'
    BY <1>b, <1>1, QuietKeeps DEF StopPlaces, Becomes
  <1>8. BindInv'
    BY <1>o, <1>b, <1>1 DEF DeviceInv, Becomes, OpsAt, BindInv, Silent, StateInv, LockInv,
      CallInv, PlaceInv, StopPlaces, ConfigPlaces
  <1>9. StartInv'
    BY <1>o, <1>b, <1>1 DEF DeviceInv, Becomes, OpsAt, StartInv, InLoop, StateInv, LockInv,
      HoldsIpc, CallInv, PlaceInv, StopPlaces, ConfigPlaces, TodoInv, Present
  <1> QED BY <1>2, <1>3, <1>4, <1>5, <1>6, <1>7, <1>8, <1>9 DEF DeviceInv

\* NewPeer, under the IPC mutex and the peers lock.
LEMMA CreatePeerKeeps ==
    ASSUME DeviceInv, NEW c \in Callers, NEW p \in Peers, CreatePeer(c, p)
    PROVE  DeviceInv'
  <1> USE LifecycleAssumption
        DEF CreatePeer, lockVars, peerVars, queueVars, refVars, closeVars
  <1>t. TypeOK BY DEF DeviceInv
  <1>o. OpsAt(c) BY PlacesHaveOps
  <1>b. call[c].pc = "line"
    OBVIOUS
  <1>1. Becomes(c, "setPeer", "peer", call[c].todo, p)
    BY <1>t, <1>b, OpPeerBecomes DEF CallOps, CallPlaces
  <1>2. TypeOK'
    BY <1>t, <1>1 DEF TypeOK, LockTypes, Becomes
  <1>3. CallInv'
    BY <1>o, <1>b, <1>1 DEF DeviceInv, Becomes, OpsAt, CallInv, PlaceInv, InLoop,
      StopPlaces, ConfigPlaces
  <1>4. LockInv'
    BY <1>o, <1>b, <1>1 DEF DeviceInv, Becomes, OpsAt, CallInv, PlaceInv, LockInv,
      HoldsIpc, InLoop, StopPlaces, ConfigPlaces
  <1>5. StateInv'
    BY <1>o, <1>b, <1>1 DEF DeviceInv, Becomes, OpsAt, StateInv, LockInv, HoldsIpc,
      CallInv, PlaceInv, StopPlaces, ConfigPlaces
  <1>6. TodoInv'
    <2>1. Present' = Present \cup {p} BY <1>t DEF TypeOK, Present
    <2>2. \A d \in Callers \ {c} : ~HoldsIpc(d)
      BY <1>o, <1>b DEF DeviceInv, LockInv, HoldsIpc, OpsAt
    <2>3. initialRefs' BY DEF DeviceInv, StateInv
    <2>4. \A q \in Peers : isRunning'[q] => q \in Present' BY <2>1 DEF DeviceInv, TodoInv
    <2> QED
      BY <1>o, <1>b, <1>1, <2>1, <2>2, <2>3, <2>4
        DEF DeviceInv, TodoInv, LockInv, Becomes, HoldsIpc, OpsAt, ConfigPlaces
  <1>7. PeerInv' /\ RoutineInv' /\ RefInv'
    BY <1>b, <1>1, QuietKeeps DEF StopPlaces, Becomes
  <1>8. BindInv'
    BY <1>o, <1>b, <1>1 DEF DeviceInv, Becomes, OpsAt, BindInv, Silent, StateInv, LockInv,
      CallInv, PlaceInv, StopPlaces, ConfigPlaces
  <1>9. StartInv'
    BY <1>o, <1>b, <1>1 DEF DeviceInv, Becomes, OpsAt, StartInv, InLoop, StateInv, LockInv,
      HoldsIpc, CallInv, PlaceInv, StopPlaces, ConfigPlaces, TodoInv, Present
  <1> QED BY <1>2, <1>3, <1>4, <1>5, <1>6, <1>7, <1>8, <1>9 DEF DeviceInv

\* The peer is configured: started next when the device is up, by Up when it is not.
LEMMA PostConfigKeeps ==
    ASSUME DeviceInv, NEW c \in Callers, PostConfig(c)
    PROVE  DeviceInv'
  <1> USE LifecycleAssumption
        DEF PostConfig, lockVars, peerVars, queueVars, refVars, closeVars
  <1>t. TypeOK BY DEF DeviceInv
  <1>o. OpsAt(c) BY PlacesHaveOps
  <1>1. CASE state = "up"
    <2>b. call[c].pc = "peer"
      BY <1>1
    <2>1. Becomes(c, call[c].op, "start", call[c].todo, call[c].peer)
      BY <1>1, <1>t, <2>b, GotoBecomes DEF Goto, CallPlaces
    <2>2. TypeOK'
      BY <1>1, <1>t, <2>1 DEF TypeOK, LockTypes, Becomes
    <2>3. CallInv'
      BY <1>1, <1>o, <2>b, <2>1 DEF DeviceInv, Becomes, OpsAt, CallInv, PlaceInv, InLoop,
        StopPlaces, ConfigPlaces
    <2>4. LockInv'
      BY <1>1, <1>o, <2>b, <2>1 DEF DeviceInv, Becomes, OpsAt, CallInv, PlaceInv, LockInv,
        HoldsIpc, InLoop, StopPlaces, ConfigPlaces
    <2>5. StateInv'
      BY <1>1, <1>o, <2>b, <2>1 DEF DeviceInv, Becomes, OpsAt, StateInv, LockInv, HoldsIpc,
        CallInv, PlaceInv, StopPlaces, ConfigPlaces
    <2>6. TodoInv'
      BY <1>1, <1>o, <2>b, <2>1 DEF DeviceInv, Becomes, OpsAt, TodoInv, Present, LockInv,
        HoldsIpc, InLoop, CallInv, PlaceInv, StopPlaces, ConfigPlaces
    <2>7. PeerInv' /\ RoutineInv' /\ RefInv'
      BY <1>1, <2>b, <2>1, QuietKeeps DEF StopPlaces, Becomes
    <2>8. BindInv'
      BY <1>1, <1>o, <2>b, <2>1 DEF DeviceInv, Becomes, OpsAt, BindInv, Silent, StateInv,
        LockInv, CallInv, PlaceInv, StopPlaces, ConfigPlaces
    <2>9. StartInv'
      BY <1>1, <1>o, <2>b, <2>1 DEF DeviceInv, Becomes, OpsAt, StartInv, InLoop, StateInv,
        LockInv, HoldsIpc, CallInv, PlaceInv, StopPlaces, ConfigPlaces, TodoInv, Present
    <2> QED BY <2>2, <2>3, <2>4, <2>5, <2>6, <2>7, <2>8, <2>9 DEF DeviceInv
  <1>2. CASE state # "up"
    <2>b. call[c].pc = "peer"
      BY <1>2
    <2>1. Becomes(c, call[c].op, "line", call[c].todo, Nobody)
      BY <1>2, <1>t, <2>b, PeerBecomes DEF CallPlaces
    <2>2. TypeOK'
      BY <1>2, <1>t, <2>1 DEF TypeOK, LockTypes, Becomes
    <2>3. CallInv'
      BY <1>2, <1>o, <2>b, <2>1 DEF DeviceInv, Becomes, OpsAt, CallInv, PlaceInv, InLoop,
        StopPlaces, ConfigPlaces
    <2>4. LockInv'
      BY <1>2, <1>o, <2>b, <2>1 DEF DeviceInv, Becomes, OpsAt, CallInv, PlaceInv, LockInv,
        HoldsIpc, InLoop, StopPlaces, ConfigPlaces
    <2>5. StateInv'
      BY <1>2, <1>o, <2>b, <2>1 DEF DeviceInv, Becomes, OpsAt, StateInv, LockInv, HoldsIpc,
        CallInv, PlaceInv, StopPlaces, ConfigPlaces
    <2>6. TodoInv'
      BY <1>2, <1>o, <2>b, <2>1 DEF DeviceInv, Becomes, OpsAt, TodoInv, Present, LockInv,
        HoldsIpc, InLoop, CallInv, PlaceInv, StopPlaces, ConfigPlaces
    <2>7. PeerInv' /\ RoutineInv' /\ RefInv'
      BY <1>2, <2>b, <2>1, QuietKeeps DEF StopPlaces, Becomes
    <2>8. BindInv'
      BY <1>2, <1>o, <2>b, <2>1 DEF DeviceInv, Becomes, OpsAt, BindInv, Silent, StateInv,
        LockInv, CallInv, PlaceInv, StopPlaces, ConfigPlaces
    <2>9. StartInv'
      BY <1>2, <1>o, <2>b, <2>1 DEF DeviceInv, Becomes, OpsAt, StartInv, InLoop, StateInv,
        LockInv, HoldsIpc, CallInv, PlaceInv, StopPlaces, ConfigPlaces, TodoInv, Present
    <2> QED BY <2>2, <2>3, <2>4, <2>5, <2>6, <2>7, <2>8, <2>9 DEF DeviceInv
  <1> QED BY <1>1, <1>2

\* Close gives up references that it alone can give up.
LEMMA DropReferencesKeeps ==
    ASSUME DeviceInv, NEW c \in Callers, DropReferences(c)
    PROVE  DeviceInv'
  <1> USE LifecycleAssumption
        DEF DropReferences, lockVars, peerVars, queueVars, refVars, closeVars
  <1>t. TypeOK BY DEF DeviceInv
  <1>o. OpsAt(c) BY PlacesHaveOps
  <1>b. call[c].pc = "refs"
    OBVIOUS
  <1>1. Becomes(c, call[c].op, "tun", call[c].todo, call[c].peer)
    BY <1>t, <1>b, GotoBecomes DEF CallPlaces
  <1>2. initialRefs /\ encryptionRefs >= 1 /\ inputRefs >= 1
    BY <1>b, <1>1, <1>o, RefCounts DEF DeviceInv, StateInv, RefInv, OpsAt, One
  <1>3. encryptionRefs' \in Nat /\ inputRefs' \in Nat
    BY <1>b, <1>1, <1>t, <1>2 DEF TypeOK
  <1>4. TypeOK'
    BY <1>t, <1>1, <1>2, <1>3 DEF TypeOK, LockTypes, Becomes
  <1>5. CallInv'
    BY <1>o, <1>b, <1>1, <1>2, <1>3 DEF DeviceInv, Becomes, OpsAt, CallInv, PlaceInv,
      InLoop, StopPlaces, ConfigPlaces
  <1>6. LockInv'
    BY <1>o, <1>b, <1>1, <1>2, <1>3 DEF DeviceInv, Becomes, OpsAt, CallInv, PlaceInv,
      LockInv, HoldsIpc, InLoop, StopPlaces, ConfigPlaces
  <1>7. StateInv'
    BY <1>o, <1>b, <1>1, <1>2, <1>3 DEF DeviceInv, Becomes, OpsAt, StateInv, LockInv,
      HoldsIpc, CallInv, PlaceInv, StopPlaces, ConfigPlaces
  <1>8. TodoInv'
    BY <1>o, <1>b, <1>1, <1>2, <1>3 DEF DeviceInv, Becomes, OpsAt, TodoInv, Present,
      LockInv, HoldsIpc, InLoop, CallInv, PlaceInv, StopPlaces, ConfigPlaces
  <1>9. PeerInv'
    BY <1>o, <1>b, <1>1, <1>2, <1>3 DEF DeviceInv, Becomes, OpsAt, PeerInv, PeerAt,
      LockInv, CallInv, PlaceInv, StopPlaces, ConfigPlaces
  <1>10. RoutineInv'
    BY <1>o, <1>b, <1>1, <1>2, <1>3 DEF DeviceInv, Becomes, OpsAt, RoutineInv, LockInv,
      StopPlaces
  <1>11. RefInv'
    <2>1. /\ BusyWorkers' = BusyWorkers /\ LivePeers' = LivePeers /\ OpenSockets' = OpenSockets
          /\ at'[TunReader] = at[TunReader]
      BY DEF BusyWorkers, LivePeers, OpenSockets
    <2>2. One(initialRefs) = 1 /\ One(initialRefs') = 0 BY <1>2 DEF One
    <2>3. RefInv BY DEF DeviceInv
    <2>4. One(at[TunReader] # "off") \in Nat BY DEF One
    <2> QED BY <1>2, <2>1, <2>2, <2>3, <2>4, RefCounts DEF RefInv
  <1>12. BindInv'
    BY <1>o, <1>b, <1>1, <1>2, <1>3 DEF DeviceInv, Becomes, OpsAt, BindInv, Silent,
      StateInv, LockInv, CallInv, PlaceInv, StopPlaces, ConfigPlaces
  <1>13. StartInv'
    BY <1>o, <1>b, <1>1, <1>2, <1>3 DEF DeviceInv, Becomes, OpsAt, StartInv, InLoop,
      StateInv, LockInv, HoldsIpc, CallInv, PlaceInv, StopPlaces, ConfigPlaces, TodoInv,
      Present
  <1> QED BY <1>4, <1>5, <1>6, <1>7, <1>8, <1>9, <1>10, <1>11, <1>12, <1>13 DEF DeviceInv

\* The TUN reader is gone.
LEMMA CloseEndsKeeps ==
    ASSUME DeviceInv, NEW c \in Callers, CloseEnds(c)
    PROVE  DeviceInv'
  <1> USE LifecycleAssumption
        DEF CloseEnds, lockVars, peerVars, queueVars, refVars, closeVars
  <1>t. TypeOK BY DEF DeviceInv
  <1>o. OpsAt(c) BY PlacesHaveOps
  <1>b. call[c].pc = "tun"
    OBVIOUS
  <1>1. Becomes(c, "none", "idle", {}, Nobody)
    BY <1>t, <1>b, ReturnBecomes DEF Return
  <1>2. TypeOK'
    BY <1>t, <1>1 DEF TypeOK, LockTypes, Becomes, Return, Freed
  <1>3. CallInv'
    BY <1>o, <1>b, <1>1 DEF DeviceInv, Becomes, OpsAt, CallInv, PlaceInv, InLoop,
      StopPlaces, ConfigPlaces
  <1>4. LockInv'
    BY <1>o, <1>b, <1>1 DEF DeviceInv, Becomes, OpsAt, CallInv, PlaceInv, LockInv,
      HoldsIpc, InLoop, StopPlaces, ConfigPlaces, Return, Freed
  <1>5. StateInv'
    BY <1>o, <1>b, <1>1 DEF DeviceInv, Becomes, OpsAt, StateInv, LockInv, HoldsIpc,
      CallInv, PlaceInv, StopPlaces, ConfigPlaces
  <1>6. TodoInv'
    BY <1>o, <1>b, <1>1 DEF DeviceInv, Becomes, OpsAt, TodoInv, Present, LockInv, HoldsIpc,
      InLoop, CallInv, PlaceInv, StopPlaces, ConfigPlaces
  <1>7. PeerInv' /\ RoutineInv' /\ RefInv'
    BY <1>b, <1>1, QuietKeeps DEF StopPlaces, Becomes
  <1>8. BindInv'
    BY <1>o, <1>b, <1>1 DEF DeviceInv, Becomes, OpsAt, BindInv, Silent, StateInv, LockInv,
      CallInv, PlaceInv, StopPlaces, ConfigPlaces
  <1>9. StartInv'
    BY <1>o, <1>b, <1>1 DEF DeviceInv, Becomes, OpsAt, StartInv, InLoop, StateInv, LockInv,
      HoldsIpc, CallInv, PlaceInv, StopPlaces, ConfigPlaces, TodoInv, Present
  <1> QED BY <1>2, <1>3, <1>4, <1>5, <1>6, <1>7, <1>8, <1>9 DEF DeviceInv

\* The receive functions are gone.
LEMMA BindDrainedKeeps ==
    ASSUME DeviceInv, NEW c \in Callers, BindDrained(c)
    PROVE  DeviceInv'
  <1> USE LifecycleAssumption
        DEF BindDrained, lockVars, peerVars, queueVars, refVars, closeVars
  <1>t. TypeOK BY DEF DeviceInv
  <1>o. OpsAt(c) BY PlacesHaveOps
  <1>1. CASE BindFailed(c) /\ call[c].op = "up"
    <2>b. call[c].pc = "drain"
      BY <1>1
    <2>1. Becomes(c, "down", "net", call[c].todo, call[c].peer)
      BY <1>1, <1>t, <2>b, BeginBecomes DEF BindFailed, CallOps, CallPlaces
    <2>2. TypeOK'
      BY <1>1, <1>t, <2>1 DEF TypeOK, LockTypes, Becomes, BindFailed
    <2>3. CallInv'
      BY <1>1, <1>o, <2>b, <2>1 DEF DeviceInv, Becomes, OpsAt, CallInv, PlaceInv, InLoop,
        StopPlaces, ConfigPlaces
    <2>4. LockInv'
      BY <1>1, <1>o, <2>b, <2>1 DEF DeviceInv, Becomes, OpsAt, CallInv, PlaceInv, LockInv,
        HoldsIpc, InLoop, StopPlaces, ConfigPlaces, BindFailed
    <2>5. StateInv'
      BY <1>1, <1>o, <2>b, <2>1 DEF DeviceInv, Becomes, OpsAt, StateInv, LockInv, HoldsIpc,
        CallInv, PlaceInv, StopPlaces, ConfigPlaces, BindFailed
    <2>6. TodoInv'
      BY <1>1, <1>o, <2>b, <2>1 DEF DeviceInv, Becomes, OpsAt, TodoInv, Present, LockInv,
        HoldsIpc, InLoop, CallInv, PlaceInv, StopPlaces, ConfigPlaces, BindFailed
    <2>7. PeerInv' /\ RoutineInv' /\ RefInv'
      BY <1>1, <2>b, <2>1, QuietKeeps DEF StopPlaces, Becomes
    <2>8. BindInv'
      BY <1>1, <1>o, <2>b, <2>1 DEF DeviceInv, Becomes, OpsAt, BindInv, Silent, StateInv,
        LockInv, CallInv, PlaceInv, StopPlaces, ConfigPlaces, BindFailed
    <2>9. StartInv'
      BY <1>1, <1>o, <2>b, <2>1 DEF DeviceInv, Becomes, OpsAt, StartInv, InLoop, StateInv,
        LockInv, HoldsIpc, CallInv, PlaceInv, StopPlaces, ConfigPlaces, TodoInv, Present,
        BindFailed
    <2> QED BY <2>2, <2>3, <2>4, <2>5, <2>6, <2>7, <2>8, <2>9 DEF DeviceInv
  <1>2. CASE BindFailed(c) /\ call[c].op # "up" /\ Updates(c)
    <2>b. call[c].pc = "drain"
      BY <1>2
    <2>1. Becomes(c, "none", "idle", {}, Nobody)
      BY <1>2, <1>t, <2>b, ReturnBecomes DEF BindFailed, Return
    <2>2. TypeOK'
      BY <1>2, <1>t, <2>1 DEF TypeOK, LockTypes, Becomes, BindFailed, Return, Freed
    <2>3. CallInv'
      BY <1>2, <1>o, <2>b, <2>1 DEF DeviceInv, Becomes, OpsAt, CallInv, PlaceInv, InLoop,
        StopPlaces, ConfigPlaces
    <2>4. LockInv'
      BY <1>2, <1>o, <2>b, <2>1 DEF DeviceInv, Becomes, OpsAt, CallInv, PlaceInv, LockInv,
        HoldsIpc, InLoop, StopPlaces, ConfigPlaces, BindFailed, Return, Freed, Updates
    <2>5. StateInv'
      BY <1>2, <1>o, <2>b, <2>1 DEF DeviceInv, Becomes, OpsAt, StateInv, LockInv, HoldsIpc,
        CallInv, PlaceInv, StopPlaces, ConfigPlaces, BindFailed, Return, Freed, Updates
    <2>6. TodoInv'
      BY <1>2, <1>o, <2>b, <2>1 DEF DeviceInv, Becomes, OpsAt, TodoInv, Present, LockInv,
        HoldsIpc, InLoop, CallInv, PlaceInv, StopPlaces, ConfigPlaces, BindFailed, Return,
        Freed, Updates
    <2>7. PeerInv' /\ RoutineInv' /\ RefInv'
      BY <1>2, <2>b, <2>1, QuietKeeps DEF StopPlaces, Becomes
    <2>8. BindInv'
      BY <1>2, <1>o, <2>b, <2>1 DEF DeviceInv, Becomes, OpsAt, BindInv, Silent, StateInv,
        LockInv, CallInv, PlaceInv, StopPlaces, ConfigPlaces, BindFailed, Return, Freed,
        Updates
    <2>9. StartInv'
      BY <1>2, <1>o, <2>b, <2>1 DEF DeviceInv, Becomes, OpsAt, StartInv, InLoop, StateInv,
        LockInv, HoldsIpc, CallInv, PlaceInv, StopPlaces, ConfigPlaces, TodoInv, Present,
        BindFailed, Return, Freed, Updates
    <2> QED BY <2>2, <2>3, <2>4, <2>5, <2>6, <2>7, <2>8, <2>9 DEF DeviceInv
  <1>3. CASE /\ Updates(c) /\ state = "up" /\ Goto(c, "open")
             /\ UNCHANGED <<state, stateLock, ipcLock, netLock>>
    <2>b. call[c].pc = "drain"
      BY <1>3
    <2>1. Becomes(c, call[c].op, "open", call[c].todo, call[c].peer)
      BY <1>3, <1>t, <2>b, GotoBecomes DEF CallPlaces
    <2>2. TypeOK'
      BY <1>3, <1>t, <2>1 DEF TypeOK, LockTypes, Becomes
    <2>3. CallInv'
      BY <1>3, <1>o, <2>b, <2>1 DEF DeviceInv, Becomes, OpsAt, CallInv, PlaceInv, InLoop,
        StopPlaces, ConfigPlaces, Updates
    <2>4. LockInv'
      BY <1>3, <1>o, <2>b, <2>1 DEF DeviceInv, Becomes, OpsAt, CallInv, PlaceInv, LockInv,
        HoldsIpc, InLoop, StopPlaces, ConfigPlaces, Updates
    <2>5. StateInv'
      BY <1>3, <1>o, <2>b, <2>1 DEF DeviceInv, Becomes, OpsAt, StateInv, LockInv, HoldsIpc,
        CallInv, PlaceInv, StopPlaces, ConfigPlaces, Updates
    <2>6. TodoInv'
      BY <1>3, <1>o, <2>b, <2>1 DEF DeviceInv, Becomes, OpsAt, TodoInv, Present, LockInv,
        HoldsIpc, InLoop, CallInv, PlaceInv, StopPlaces, ConfigPlaces, Updates
    <2>7. PeerInv' /\ RoutineInv' /\ RefInv'
      BY <1>3, <2>b, <2>1, QuietKeeps DEF StopPlaces, Becomes
    <2>8. BindInv'
      BY <1>3, <1>o, <2>b, <2>1 DEF DeviceInv, Becomes, OpsAt, BindInv, Silent, StateInv,
        LockInv, CallInv, PlaceInv, StopPlaces, ConfigPlaces, Updates
    <2>9. StartInv'
      BY <1>3, <1>o, <2>b, <2>1 DEF DeviceInv, Becomes, OpsAt, StartInv, InLoop, StateInv,
        LockInv, HoldsIpc, CallInv, PlaceInv, StopPlaces, ConfigPlaces, TodoInv, Present,
        Updates
    <2> QED BY <2>2, <2>3, <2>4, <2>5, <2>6, <2>7, <2>8, <2>9 DEF DeviceInv
  <1>4. CASE /\ call[c].op = "unbind" /\ Return(c)
             /\ netLock' = Nobody /\ UNCHANGED state
    <2>b. call[c].pc = "drain"
      BY <1>4
    <2>1. Becomes(c, "none", "idle", {}, Nobody)
      BY <1>4, <1>t, <2>b, ReturnBecomes DEF Return
    <2>2. TypeOK'
      BY <1>4, <1>t, <2>1 DEF TypeOK, LockTypes, Becomes, Return, Freed
    <2>3. CallInv'
      BY <1>4, <1>o, <2>b, <2>1 DEF DeviceInv, Becomes, OpsAt, CallInv, PlaceInv, InLoop,
        StopPlaces, ConfigPlaces
    <2>4. LockInv'
      BY <1>4, <1>o, <2>b, <2>1 DEF DeviceInv, Becomes, OpsAt, CallInv, PlaceInv, LockInv,
        HoldsIpc, InLoop, StopPlaces, ConfigPlaces, Return, Freed
    <2>5. StateInv'
      BY <1>4, <1>o, <2>b, <2>1 DEF DeviceInv, Becomes, OpsAt, StateInv, LockInv, HoldsIpc,
        CallInv, PlaceInv, StopPlaces, ConfigPlaces
    <2>6. TodoInv'
      BY <1>4, <1>o, <2>b, <2>1 DEF DeviceInv, Becomes, OpsAt, TodoInv, Present, LockInv,
        HoldsIpc, InLoop, CallInv, PlaceInv, StopPlaces, ConfigPlaces
    <2>7. PeerInv' /\ RoutineInv' /\ RefInv'
      BY <1>4, <2>b, <2>1, QuietKeeps DEF StopPlaces, Becomes
    <2>8. BindInv'
      BY <1>4, <1>o, <2>b, <2>1 DEF DeviceInv, Becomes, OpsAt, BindInv, Silent, StateInv,
        LockInv, CallInv, PlaceInv, StopPlaces, ConfigPlaces
    <2>9. StartInv'
      BY <1>4, <1>o, <2>b, <2>1 DEF DeviceInv, Becomes, OpsAt, StartInv, InLoop, StateInv,
        LockInv, HoldsIpc, CallInv, PlaceInv, StopPlaces, ConfigPlaces, TodoInv, Present
    <2> QED BY <2>2, <2>3, <2>4, <2>5, <2>6, <2>7, <2>8, <2>9 DEF DeviceInv
  <1>5. CASE /\ Updates(c) => call[c].op = "set" /\ state # "up"
             /\ call[c].op # "unbind"
             /\ Goto(c, IF call[c].op = "set" THEN "line" ELSE "peers")
             /\ netLock' = Nobody /\ UNCHANGED <<state, stateLock, ipcLock>>
    <2>b. call[c].pc = "drain"
      BY <1>5
    <2>1. Becomes(c, call[c].op, IF call[c].op = "set" THEN "line" ELSE "peers", call[c].todo, call[c].peer)
      BY <1>5, <1>t, <2>b, GotoBecomes DEF CallPlaces
    <2>2. TypeOK'
      BY <1>5, <1>t, <2>1 DEF TypeOK, LockTypes, Becomes
    <2>3. CallInv'
      BY <1>5, <1>o, <2>b, <2>1 DEF DeviceInv, Becomes, OpsAt, CallInv, PlaceInv, InLoop,
        StopPlaces, ConfigPlaces, Updates
    <2>4. LockInv'
      BY <1>5, <1>o, <2>b, <2>1 DEF DeviceInv, Becomes, OpsAt, CallInv, PlaceInv, LockInv,
        HoldsIpc, InLoop, StopPlaces, ConfigPlaces, Updates
    <2>5. StateInv'
      BY <1>5, <1>o, <2>b, <2>1 DEF DeviceInv, Becomes, OpsAt, StateInv, LockInv, HoldsIpc,
        CallInv, PlaceInv, StopPlaces, ConfigPlaces, Updates
    <2>6. TodoInv'
      BY <1>5, <1>o, <2>b, <2>1 DEF DeviceInv, Becomes, OpsAt, TodoInv, Present, LockInv,
        HoldsIpc, InLoop, CallInv, PlaceInv, StopPlaces, ConfigPlaces, Updates
    <2>7. PeerInv' /\ RoutineInv' /\ RefInv'
      BY <1>5, <2>b, <2>1, QuietKeeps DEF StopPlaces, Becomes
    <2>8. BindInv'
      BY <1>5, <1>o, <2>b, <2>1 DEF DeviceInv, Becomes, OpsAt, BindInv, Silent, StateInv,
        LockInv, CallInv, PlaceInv, StopPlaces, ConfigPlaces, Updates
    <2>9. StartInv'
      BY <1>5, <1>o, <2>b, <2>1 DEF DeviceInv, Becomes, OpsAt, StartInv, InLoop, StateInv,
        LockInv, HoldsIpc, CallInv, PlaceInv, StopPlaces, ConfigPlaces, TodoInv, Present,
        Updates
    <2> QED BY <2>2, <2>3, <2>4, <2>5, <2>6, <2>7, <2>8, <2>9 DEF DeviceInv
  <1> QED BY <1>1, <1>2, <1>3, <1>4, <1>5

\* Sockets opened on a device that has gone down meanwhile wait for Down to close them.
LEMMA BindOpensKeeps ==
    ASSUME DeviceInv, NEW c \in Callers, BindOpens(c)
    PROVE  DeviceInv'
  <1> USE LifecycleAssumption
        DEF BindOpens, lockVars, peerVars, queueVars, refVars, closeVars
  <1>t. TypeOK BY DEF DeviceInv
  <1>o. OpsAt(c) BY PlacesHaveOps
  <1>1. CASE /\ bindOpen' = TRUE /\ Goto(c, "mark")
             /\ UNCHANGED <<state, stateLock, ipcLock, netLock>>
    <2>b. call[c].pc = "open"
      BY <1>1
    <2>1. Becomes(c, call[c].op, "mark", call[c].todo, call[c].peer)
      BY <1>1, <1>t, <2>b, GotoBecomes DEF CallPlaces
    <2>2. TypeOK'
      BY <1>1, <1>t, <2>1 DEF TypeOK, LockTypes, Becomes
    <2>3. CallInv'
      BY <1>1, <1>o, <2>b, <2>1 DEF DeviceInv, Becomes, OpsAt, CallInv, PlaceInv, InLoop,
        StopPlaces, ConfigPlaces
    <2>4. LockInv'
      BY <1>1, <1>o, <2>b, <2>1 DEF DeviceInv, Becomes, OpsAt, CallInv, PlaceInv, LockInv,
        HoldsIpc, InLoop, StopPlaces, ConfigPlaces
    <2>5. StateInv'
      BY <1>1, <1>o, <2>b, <2>1 DEF DeviceInv, Becomes, OpsAt, StateInv, LockInv, HoldsIpc,
        CallInv, PlaceInv, StopPlaces, ConfigPlaces
    <2>6. TodoInv'
      BY <1>1, <1>o, <2>b, <2>1 DEF DeviceInv, Becomes, OpsAt, TodoInv, Present, LockInv,
        HoldsIpc, InLoop, CallInv, PlaceInv, StopPlaces, ConfigPlaces
    <2>7. PeerInv' /\ RoutineInv' /\ RefInv'
      BY <1>1, <2>b, <2>1, QuietKeeps DEF StopPlaces, Becomes
    <2>8. BindInv'
      BY <1>1, <1>o, <2>b, <2>1 DEF DeviceInv, Becomes, OpsAt, BindInv, Silent, StateInv,
        LockInv, CallInv, PlaceInv, StopPlaces, ConfigPlaces
    <2>9. StartInv'
      BY <1>1, <1>o, <2>b, <2>1 DEF DeviceInv, Becomes, OpsAt, StartInv, InLoop, StateInv,
        LockInv, HoldsIpc, CallInv, PlaceInv, StopPlaces, ConfigPlaces, TodoInv, Present
    <2> QED BY <2>2, <2>3, <2>4, <2>5, <2>6, <2>7, <2>8, <2>9 DEF DeviceInv
  <1>2. CASE BindFailed(c) /\ UNCHANGED bindOpen /\ call[c].op = "up"
    <2>b. call[c].pc = "open"
      BY <1>2
    <2>1. Becomes(c, "down", "net", call[c].todo, call[c].peer)
      BY <1>2, <1>t, <2>b, BeginBecomes DEF BindFailed, CallOps, CallPlaces
    <2>2. TypeOK'
      BY <1>2, <1>t, <2>1 DEF TypeOK, LockTypes, Becomes, BindFailed
    <2>3. CallInv'
      BY <1>2, <1>o, <2>b, <2>1 DEF DeviceInv, Becomes, OpsAt, CallInv, PlaceInv, InLoop,
        StopPlaces, ConfigPlaces
    <2>4. LockInv'
      BY <1>2, <1>o, <2>b, <2>1 DEF DeviceInv, Becomes, OpsAt, CallInv, PlaceInv, LockInv,
        HoldsIpc, InLoop, StopPlaces, ConfigPlaces, BindFailed
    <2>5. StateInv'
      BY <1>2, <1>o, <2>b, <2>1 DEF DeviceInv, Becomes, OpsAt, StateInv, LockInv, HoldsIpc,
        CallInv, PlaceInv, StopPlaces, ConfigPlaces, BindFailed
    <2>6. TodoInv'
      BY <1>2, <1>o, <2>b, <2>1 DEF DeviceInv, Becomes, OpsAt, TodoInv, Present, LockInv,
        HoldsIpc, InLoop, CallInv, PlaceInv, StopPlaces, ConfigPlaces, BindFailed
    <2>7. PeerInv' /\ RoutineInv' /\ RefInv'
      BY <1>2, <2>b, <2>1, QuietKeeps DEF StopPlaces, Becomes
    <2>8. BindInv'
      BY <1>2, <1>o, <2>b, <2>1 DEF DeviceInv, Becomes, OpsAt, BindInv, Silent, StateInv,
        LockInv, CallInv, PlaceInv, StopPlaces, ConfigPlaces, BindFailed
    <2>9. StartInv'
      BY <1>2, <1>o, <2>b, <2>1 DEF DeviceInv, Becomes, OpsAt, StartInv, InLoop, StateInv,
        LockInv, HoldsIpc, CallInv, PlaceInv, StopPlaces, ConfigPlaces, TodoInv, Present,
        BindFailed
    <2> QED BY <2>2, <2>3, <2>4, <2>5, <2>6, <2>7, <2>8, <2>9 DEF DeviceInv
  <1>3. CASE BindFailed(c) /\ UNCHANGED bindOpen /\ call[c].op # "up"
    <2>b. call[c].pc = "open"
      BY <1>3
    <2>1. Becomes(c, "none", "idle", {}, Nobody)
      BY <1>3, <1>t, <2>b, ReturnBecomes DEF BindFailed, Return
    <2>2. TypeOK'
      BY <1>3, <1>t, <2>1 DEF TypeOK, LockTypes, Becomes, BindFailed, Return, Freed
    <2>3. CallInv'
      BY <1>3, <1>o, <2>b, <2>1 DEF DeviceInv, Becomes, OpsAt, CallInv, PlaceInv, InLoop,
        StopPlaces, ConfigPlaces
    <2>4. LockInv'
      BY <1>3, <1>o, <2>b, <2>1 DEF DeviceInv, Becomes, OpsAt, CallInv, PlaceInv, LockInv,
        HoldsIpc, InLoop, StopPlaces, ConfigPlaces, BindFailed, Return, Freed, Updates
    <2>5. StateInv'
      BY <1>3, <1>o, <2>b, <2>1 DEF DeviceInv, Becomes, OpsAt, StateInv, LockInv, HoldsIpc,
        CallInv, PlaceInv, StopPlaces, ConfigPlaces, BindFailed, Return, Freed, Updates
    <2>6. TodoInv'
      BY <1>3, <1>o, <2>b, <2>1 DEF DeviceInv, Becomes, OpsAt, TodoInv, Present, LockInv,
        HoldsIpc, InLoop, CallInv, PlaceInv, StopPlaces, ConfigPlaces, BindFailed, Return,
        Freed, Updates
    <2>7. PeerInv' /\ RoutineInv' /\ RefInv'
      BY <1>3, <2>b, <2>1, QuietKeeps DEF StopPlaces, Becomes
    <2>8. BindInv'
      BY <1>3, <1>o, <2>b, <2>1 DEF DeviceInv, Becomes, OpsAt, BindInv, Silent, StateInv,
        LockInv, CallInv, PlaceInv, StopPlaces, ConfigPlaces, BindFailed, Return, Freed,
        Updates
    <2>9. StartInv'
      BY <1>3, <1>o, <2>b, <2>1 DEF DeviceInv, Becomes, OpsAt, StartInv, InLoop, StateInv,
        LockInv, HoldsIpc, CallInv, PlaceInv, StopPlaces, ConfigPlaces, TodoInv, Present,
        BindFailed, Return, Freed, Updates
    <2> QED BY <2>2, <2>3, <2>4, <2>5, <2>6, <2>7, <2>8, <2>9 DEF DeviceInv
  <1> QED BY <1>1, <1>2, <1>3

\* The receive functions start on a device that is not closed, and are counted.
LEMMA BindUpdatedKeeps ==
    ASSUME DeviceInv, NEW c \in Callers, BindUpdated(c)
    PROVE  DeviceInv'
  <1> USE LifecycleAssumption
        DEF BindUpdated, lockVars, peerVars, queueVars, refVars, closeVars
  <1>t. TypeOK BY DEF DeviceInv
  <1>o. OpsAt(c) BY PlacesHaveOps
  <1>1. CASE BindFailed(c) /\ UNCHANGED <<at, inputRefs>> /\ call[c].op = "up"
    <2>b. call[c].pc = "mark"
      BY <1>1
    <2>1. Becomes(c, "down", "net", call[c].todo, call[c].peer)
      BY <1>1, <1>t, <2>b, BeginBecomes DEF BindFailed, CallOps, CallPlaces
    <2>2. TypeOK'
      BY <1>1, <1>t, <2>1 DEF TypeOK, LockTypes, Becomes, BindFailed
    <2>3. CallInv'
      BY <1>1, <1>o, <2>b, <2>1 DEF DeviceInv, Becomes, OpsAt, CallInv, PlaceInv, InLoop,
        StopPlaces, ConfigPlaces
    <2>4. LockInv'
      BY <1>1, <1>o, <2>b, <2>1 DEF DeviceInv, Becomes, OpsAt, CallInv, PlaceInv, LockInv,
        HoldsIpc, InLoop, StopPlaces, ConfigPlaces, BindFailed
    <2>5. StateInv'
      BY <1>1, <1>o, <2>b, <2>1 DEF DeviceInv, Becomes, OpsAt, StateInv, LockInv, HoldsIpc,
        CallInv, PlaceInv, StopPlaces, ConfigPlaces, BindFailed
    <2>6. TodoInv'
      BY <1>1, <1>o, <2>b, <2>1 DEF DeviceInv, Becomes, OpsAt, TodoInv, Present, LockInv,
        HoldsIpc, InLoop, CallInv, PlaceInv, StopPlaces, ConfigPlaces, BindFailed
    <2>7. PeerInv' /\ RoutineInv' /\ RefInv'
      BY <1>1, <2>b, <2>1, QuietKeeps DEF StopPlaces, Becomes
    <2>8. BindInv'
      BY <1>1, <1>o, <2>b, <2>1 DEF DeviceInv, Becomes, OpsAt, BindInv, Silent, StateInv,
        LockInv, CallInv, PlaceInv, StopPlaces, ConfigPlaces, BindFailed
    <2>9. StartInv'
      BY <1>1, <1>o, <2>b, <2>1 DEF DeviceInv, Becomes, OpsAt, StartInv, InLoop, StateInv,
        LockInv, HoldsIpc, CallInv, PlaceInv, StopPlaces, ConfigPlaces, TodoInv, Present,
        BindFailed
    <2> QED BY <2>2, <2>3, <2>4, <2>5, <2>6, <2>7, <2>8, <2>9 DEF DeviceInv
  <1>2. CASE BindFailed(c) /\ UNCHANGED <<at, inputRefs>> /\ call[c].op # "up"
    <2>b. call[c].pc = "mark"
      BY <1>2
    <2>1. Becomes(c, "none", "idle", {}, Nobody)
      BY <1>2, <1>t, <2>b, ReturnBecomes DEF BindFailed, Return
    <2>2. TypeOK'
      BY <1>2, <1>t, <2>1 DEF TypeOK, LockTypes, Becomes, BindFailed, Return, Freed
    <2>3. CallInv'
      BY <1>2, <1>o, <2>b, <2>1 DEF DeviceInv, Becomes, OpsAt, CallInv, PlaceInv, InLoop,
        StopPlaces, ConfigPlaces
    <2>4. LockInv'
      BY <1>2, <1>o, <2>b, <2>1 DEF DeviceInv, Becomes, OpsAt, CallInv, PlaceInv, LockInv,
        HoldsIpc, InLoop, StopPlaces, ConfigPlaces, BindFailed, Return, Freed
    <2>5. StateInv'
      BY <1>2, <1>o, <2>b, <2>1 DEF DeviceInv, Becomes, OpsAt, StateInv, LockInv, HoldsIpc,
        CallInv, PlaceInv, StopPlaces, ConfigPlaces, BindFailed, Return, Freed
    <2>6. TodoInv'
      BY <1>2, <1>o, <2>b, <2>1 DEF DeviceInv, Becomes, OpsAt, TodoInv, Present, LockInv,
        HoldsIpc, InLoop, CallInv, PlaceInv, StopPlaces, ConfigPlaces, BindFailed, Return,
        Freed
    <2>7. PeerInv' /\ RoutineInv' /\ RefInv'
      BY <1>2, <2>b, <2>1, QuietKeeps DEF StopPlaces, Becomes
    <2>8. BindInv'
      BY <1>2, <1>o, <2>b, <2>1 DEF DeviceInv, Becomes, OpsAt, BindInv, Silent, StateInv,
        LockInv, CallInv, PlaceInv, StopPlaces, ConfigPlaces, BindFailed, Return, Freed
    <2>9. StartInv'
      BY <1>2, <1>o, <2>b, <2>1 DEF DeviceInv, Becomes, OpsAt, StartInv, InLoop, StateInv,
        LockInv, HoldsIpc, CallInv, PlaceInv, StopPlaces, ConfigPlaces, TodoInv, Present,
        BindFailed, Return, Freed
    <2> QED BY <2>2, <2>3, <2>4, <2>5, <2>6, <2>7, <2>8, <2>9 DEF DeviceInv
  <1>3. CASE /\ peersLock = Nobody
             /\ at' = [r \in Routines |-> IF r \in Sockets THEN "rest" ELSE at[r]]
             /\ inputRefs' = inputRefs + Cardinality(Sockets)
             /\ netLock' = Nobody
             /\ Goto(c, IF call[c].op = "up" THEN "ipc" ELSE "line")
             /\ UNCHANGED <<state, stateLock, ipcLock>>
    <2>b. call[c].pc = "mark"
      BY <1>3
    <2>1. Becomes(c, call[c].op, IF call[c].op = "up" THEN "ipc" ELSE "line", call[c].todo, call[c].peer)
      BY <1>3, <1>t, <2>b, GotoBecomes DEF CallPlaces
    <2>2. initialRefs /\ OpenSockets = {} /\ OpenSockets' = Sockets
      BY <1>3, <2>b, <2>1, <1>o, Names DEF DeviceInv, StateInv, BindInv, OpsAt, OpenSockets
    <2>3. \A r \in Routines \ Sockets : at'[r] = at[r]
      BY <1>3, <2>b, <2>1, Names
    <2>4. \A s \in Sockets : at'[s] = "rest"
      BY <1>3, <2>b, <2>1, Names
    <2>5. Cardinality(Sockets) \in Nat
      BY <1>3, <2>b, <2>1, Counts
    <2>6. \A p \in Peers : at'[Sender(p)] = at[Sender(p)] /\ at'[Receiver(p)] = at[Receiver(p)] /\ at'[Timer(p)] = at[Timer(p)]
      BY <1>3, <2>b, <2>1, <2>3, Names
    <2>7. \A r \in {TunReader} \cup Workers : at'[r] = at[r]
      BY <1>3, <2>b, <2>1, <2>3, Names
    <2>8. TypeOK'
      BY <1>3, <1>t, <2>1, <2>2, <2>3, <2>4, <2>5, <2>6, <2>7 DEF TypeOK, LockTypes,
        Becomes
    <2>9. CallInv'
      BY <1>3, <1>o, <2>b, <2>1, <2>2, <2>3, <2>4, <2>5, <2>6, <2>7 DEF DeviceInv, Becomes,
        OpsAt, CallInv, PlaceInv, InLoop, StopPlaces, ConfigPlaces
    <2>10. LockInv'
      BY <1>3, <1>o, <2>b, <2>1, <2>2, <2>3, <2>4, <2>5, <2>6, <2>7 DEF DeviceInv, Becomes,
        OpsAt, CallInv, PlaceInv, LockInv, HoldsIpc, InLoop, StopPlaces, ConfigPlaces
    <2>11. StateInv'
      BY <1>3, <1>o, <2>b, <2>1, <2>2, <2>3, <2>4, <2>5, <2>6, <2>7 DEF DeviceInv, Becomes,
        OpsAt, StateInv, LockInv, HoldsIpc, CallInv, PlaceInv, StopPlaces, ConfigPlaces
    <2>12. TodoInv'
      BY <1>3, <1>o, <2>b, <2>1, <2>2, <2>3, <2>4, <2>5, <2>6, <2>7 DEF DeviceInv, Becomes,
        OpsAt, TodoInv, Present, LockInv, HoldsIpc, InLoop, CallInv, PlaceInv, StopPlaces,
        ConfigPlaces
    <2>13. PeerInv'
      <3>1. \A p \in Peers : peerLock[p] # c BY <2>b DEF DeviceInv, LockInv, StopPlaces
      <3> QED BY <2>1, <2>6, <3>1 DEF DeviceInv, PeerInv, PeerAt, NoNil, OneNil, Becomes
    <2>14. RoutineInv'
      BY <1>3, <1>o, <2>b, <2>1, <2>2, <2>3, <2>4, <2>5, <2>6, <2>7 DEF DeviceInv, Becomes,
        OpsAt, RoutineInv, LockInv, StopPlaces
    <2>15. RefInv'
      <3>1. BusyWorkers' = BusyWorkers /\ LivePeers' = LivePeers /\ at'[TunReader] = at[TunReader]
        BY <1>3, <2>7 DEF BusyWorkers, LivePeers
      <3>2. RefInv BY DEF DeviceInv
      <3>3. Cardinality(OpenSockets) = 0 BY <2>2, FS_EmptySet
      <3>4. inputRefs = 1 /\ inputRefs' = 1 + Cardinality(OpenSockets')
        BY <1>3, <2>2, <2>5, <3>2, <3>3 DEF RefInv, One
      <3> QED BY <1>3, <2>2, <3>1, <3>2, <3>4 DEF RefInv, One
    <2>16. BindInv'
      BY <1>3, <1>o, <2>b, <2>1, <2>2, <2>3, <2>4, <2>5, <2>6, <2>7 DEF DeviceInv, Becomes,
        OpsAt, BindInv, Silent, StateInv, LockInv, CallInv, PlaceInv, StopPlaces,
        ConfigPlaces
    <2>17. StartInv'
      BY <1>3, <1>o, <2>b, <2>1, <2>2, <2>3, <2>4, <2>5, <2>6, <2>7 DEF DeviceInv, Becomes,
        OpsAt, StartInv, InLoop, StateInv, LockInv, HoldsIpc, CallInv, PlaceInv,
        StopPlaces, ConfigPlaces, TodoInv, Present
    <2> QED BY <2>8, <2>9, <2>10, <2>11, <2>12, <2>13, <2>14, <2>15, <2>16, <2>17 DEF
      DeviceInv
  <1> QED BY <1>1, <1>2, <1>3

\* Up starts a peer of its list.
LEMMA UpStartsKeeps ==
    ASSUME DeviceInv, NEW c \in Callers, NEW p \in Peers, UpStarts(c, p)
    PROVE  DeviceInv'
  <1> USE LifecycleAssumption
        DEF UpStarts, lockVars, peerVars, queueVars, refVars, closeVars
  <1>t. TypeOK BY DEF DeviceInv
  <1>o. OpsAt(c) BY PlacesHaveOps
  <1>1. CASE Starts(p)
    <2>b. call[c].pc = "loop" /\ call[c].op = "up"
      BY <1>1
    <2>1. Becomes(c, call[c].op, "hello", call[c].todo \ {p}, p)
      BY <1>1, <1>t, <2>b, PlaceTodoPeerBecomes DEF CallPlaces, TypeOK, CallTypes
    <2>2. /\ isRunning' \in [Peers -> BOOLEAN] /\ isRunning'[p]
          /\ \A x \in Peers \ {p} : isRunning'[x] = isRunning[x]
          /\ inbound' \in [Peers -> Seq({Packet, Nil})]
          /\ outbound' \in [Peers -> Seq({Packet, Nil})]
          /\ at' \in [Routines -> {"off", "rest", "deliver", "staged", "push", "seal", "hello"}]
          /\ at'[TunReader] = at[TunReader] /\ \A s \in Sockets : at'[s] = at[s]
          /\ encryptionRefs' \in Nat
          /\ PeerInv' /\ RoutineInv' /\ RefInv'
      BY <1>1, <2>b, <2>1, StartKeepsPeers DEF StopPlaces, Becomes
    <2>3. /\ isRunning'[p] /\ \A x \in Peers \ {p} : isRunning'[x] = isRunning[x]
          /\ at'[TunReader] = at[TunReader] /\ \A s \in Sockets : at'[s] = at[s]
          /\ call[c].pc \notin {"open", "mark"}
      BY <1>1, <2>b, <2>1, <2>2
    <2>4. TypeOK'
      BY <1>1, <1>t, <2>1, <2>2, <2>3 DEF TypeOK, LockTypes, Becomes
    <2>5. CallInv'
      BY <1>o, <2>b, <2>1 DEF DeviceInv, Becomes, OpsAt, CallInv, PlaceInv, InLoop, StopPlaces,
        ConfigPlaces
    <2>6. LockInv'
      BY <1>1, <1>o, <2>b, <2>1, <2>2, <2>3 DEF DeviceInv, Becomes, OpsAt, CallInv,
        PlaceInv, LockInv, HoldsIpc, InLoop, StopPlaces, ConfigPlaces
    <2>7. StateInv'
      BY <1>o, <2>b, <2>1, <2>3 DEF DeviceInv, Becomes, OpsAt, StateInv
    <2>8. TodoInv'
      <3>1. Present' = Present BY DEF Present
      <3>2. p \in Present BY <2>b DEF DeviceInv, TodoInv, ConfigPlaces
      <3>3. \A x \in Peers : isRunning'[x] => x \in Present'
        BY <2>3, <3>1, <3>2 DEF DeviceInv, TodoInv
      <3> QED
        BY <1>o, <2>b, <2>1, <3>1, <3>2, <3>3
          DEF DeviceInv, TodoInv, LockInv, CallInv, Becomes, OpsAt, ConfigPlaces, StopPlaces
    <2>9. PeerInv'
      BY <2>2
    <2>10. RoutineInv'
      BY <2>2
    <2>11. RefInv'
      BY <2>2
    <2>12. BindInv'
      <3>1. Silent' <=> Silent BY <2>3 DEF Silent
      <3> QED BY <1>o, <2>b, <2>1, <2>3, <3>1 DEF DeviceInv, BindInv, StateInv, Becomes, OpsAt
    <2>13. StartInv'
      BY <1>o, <2>b, <2>1, <2>3 DEF DeviceInv, StartInv, StateInv, InLoop, Becomes, OpsAt, StopPlaces
    <2> QED BY <2>4, <2>5, <2>6, <2>7, <2>8, <2>9, <2>10, <2>11, <2>12, <2>13 DEF DeviceInv
  <1>2. CASE ~Starts(p)
    <2>b. call[c].pc = "loop" /\ call[c].op = "up"
      BY <1>2
    <2>1. Becomes(c, call[c].op, "hello", call[c].todo \ {p}, p)
      BY <1>2, <1>t, <2>b, PlaceTodoPeerBecomes DEF CallPlaces, TypeOK, CallTypes
    <2>2. TypeOK'
      BY <1>2, <1>t, <2>1 DEF TypeOK, LockTypes, Becomes, Start
    <2>3. CallInv'
      BY <1>2, <1>o, <2>b, <2>1 DEF DeviceInv, Becomes, OpsAt, CallInv, PlaceInv, InLoop,
        StopPlaces, ConfigPlaces
    <2>4. LockInv'
      BY <1>2, <1>o, <2>b, <2>1 DEF DeviceInv, Becomes, OpsAt, CallInv, PlaceInv, LockInv,
        HoldsIpc, InLoop, StopPlaces, ConfigPlaces
    <2>5. StateInv'
      BY <1>2, <1>o, <2>b, <2>1 DEF DeviceInv, Becomes, OpsAt, StateInv, LockInv, HoldsIpc,
        CallInv, PlaceInv, StopPlaces, ConfigPlaces, Start
    <2>6. TodoInv'
      BY <1>2, <1>o, <2>b, <2>1 DEF DeviceInv, Becomes, OpsAt, TodoInv, Present, LockInv,
        HoldsIpc, InLoop, CallInv, PlaceInv, StopPlaces, ConfigPlaces, Start
    <2>7. PeerInv' /\ RoutineInv' /\ RefInv'
      BY <1>2, <2>b, <2>1, QuietKeeps DEF StopPlaces, Becomes, Start
    <2>8. BindInv'
      BY <1>2, <1>o, <2>b, <2>1 DEF DeviceInv, Becomes, OpsAt, BindInv, Silent, StateInv,
        LockInv, CallInv, PlaceInv, StopPlaces, ConfigPlaces, Start
    <2>9. StartInv'
      BY <1>2, <1>o, <2>b, <2>1 DEF DeviceInv, Becomes, OpsAt, StartInv, InLoop, StateInv,
        LockInv, HoldsIpc, CallInv, PlaceInv, StopPlaces, ConfigPlaces, TodoInv, Present,
        Start, Starts
    <2> QED BY <2>2, <2>3, <2>4, <2>5, <2>6, <2>7, <2>8, <2>9 DEF DeviceInv
  <1> QED BY <1>1, <1>2

\* handlePostConfig starts the peer it configured.
LEMMA SetStartsKeeps ==
    ASSUME DeviceInv, NEW c \in Callers, SetStarts(c)
    PROVE  DeviceInv'
  <1> USE LifecycleAssumption
        DEF SetStarts, lockVars, peerVars, queueVars, refVars, closeVars
  <1>t. TypeOK BY DEF DeviceInv
  <1>o. OpsAt(c) BY PlacesHaveOps
  <1>p. PICK p \in Peers : p = call[c].peer
    BY DEF DeviceInv, CallInv, ConfigPlaces
  <1> USE <1>p
  <1>1. CASE Starts(p)
    <2>b. call[c].pc = "start"
      BY <1>1
    <2>1. Becomes(c, call[c].op, "hello", call[c].todo, call[c].peer)
      BY <1>1, <1>t, <2>b, GotoBecomes DEF CallPlaces
    <2>2. /\ isRunning' \in [Peers -> BOOLEAN] /\ isRunning'[p]
          /\ \A x \in Peers \ {p} : isRunning'[x] = isRunning[x]
          /\ inbound' \in [Peers -> Seq({Packet, Nil})]
          /\ outbound' \in [Peers -> Seq({Packet, Nil})]
          /\ at' \in [Routines -> {"off", "rest", "deliver", "staged", "push", "seal", "hello"}]
          /\ at'[TunReader] = at[TunReader] /\ \A s \in Sockets : at'[s] = at[s]
          /\ encryptionRefs' \in Nat
          /\ PeerInv' /\ RoutineInv' /\ RefInv'
      BY <1>1, <2>b, <2>1, StartKeepsPeers DEF StopPlaces, Becomes
    <2>3. /\ isRunning'[p] /\ \A x \in Peers \ {p} : isRunning'[x] = isRunning[x]
          /\ at'[TunReader] = at[TunReader] /\ \A s \in Sockets : at'[s] = at[s]
          /\ call[c].pc \notin {"open", "mark"}
      BY <1>1, <2>b, <2>1, <2>2
    <2>4. TypeOK'
      BY <1>1, <1>t, <2>1, <2>2, <2>3 DEF TypeOK, LockTypes, Becomes
    <2>5. CallInv'
      BY <1>o, <2>b, <2>1 DEF DeviceInv, Becomes, OpsAt, CallInv, PlaceInv, InLoop, StopPlaces,
        ConfigPlaces
    <2>6. LockInv'
      BY <1>1, <1>o, <2>b, <2>1, <2>2, <2>3 DEF DeviceInv, Becomes, OpsAt, CallInv,
        PlaceInv, LockInv, HoldsIpc, InLoop, StopPlaces, ConfigPlaces
    <2>7. StateInv'
      BY <1>o, <2>b, <2>1, <2>3 DEF DeviceInv, Becomes, OpsAt, StateInv
    <2>8. TodoInv'
      <3>1. Present' = Present BY DEF Present
      <3>2. p \in Present BY <2>b DEF DeviceInv, TodoInv, ConfigPlaces
      <3>3. \A x \in Peers : isRunning'[x] => x \in Present'
        BY <2>3, <3>1, <3>2 DEF DeviceInv, TodoInv
      <3> QED
        BY <1>o, <2>b, <2>1, <3>1, <3>2, <3>3
          DEF DeviceInv, TodoInv, LockInv, CallInv, Becomes, OpsAt, ConfigPlaces, StopPlaces
    <2>9. PeerInv'
      BY <2>2
    <2>10. RoutineInv'
      BY <2>2
    <2>11. RefInv'
      BY <2>2
    <2>12. BindInv'
      <3>1. Silent' <=> Silent BY <2>3 DEF Silent
      <3> QED BY <1>o, <2>b, <2>1, <2>3, <3>1 DEF DeviceInv, BindInv, StateInv, Becomes, OpsAt
    <2>13. StartInv'
      <3> SUFFICES ASSUME NEW x \in Peers, state' = "up", phase'[x] = "configured", ~isRunning'[x]
                   PROVE  \E d \in Callers :
                             \/ call'[d].op = "up" /\ (InLoop(d)' => x \in call'[d].todo)
                             \/ call'[d].op = "setPeer" /\ call'[d].pc = "start" /\ call'[d].peer = x
                             \/ peersLock' = d /\ peerLock'[x] = d
        BY DEF StartInv
      <3>1. x # p /\ ~isRunning[x] BY <2>3
      <3>2. PICK d \in Callers :
              \/ call[d].op = "up" /\ (InLoop(d) => x \in call[d].todo)
              \/ call[d].op = "setPeer" /\ call[d].pc = "start" /\ call[d].peer = x
              \/ peersLock = d /\ peerLock[x] = d
        BY <3>1 DEF DeviceInv, StartInv
      <3>3. d # c
        BY <1>o, <2>b, <3>1, <3>2 DEF DeviceInv, LockInv, StopPlaces, OpsAt, ConfigPlaces
      <3>4. call'[d] = call[d] BY <2>1, <3>3 DEF Becomes
      <3> QED BY <3>2, <3>4 DEF InLoop
    <2> QED BY <2>4, <2>5, <2>6, <2>7, <2>8, <2>9, <2>10, <2>11, <2>12, <2>13 DEF DeviceInv
  <1>2. CASE ~Starts(p)
    <2>b. call[c].pc = "start"
      BY <1>2
    <2>1. Becomes(c, call[c].op, "hello", call[c].todo, call[c].peer)
      BY <1>2, <1>t, <2>b, GotoBecomes DEF CallPlaces
    <2>2. TypeOK'
      BY <1>2, <1>t, <2>1 DEF TypeOK, LockTypes, Becomes, Start
    <2>3. CallInv'
      BY <1>2, <1>o, <2>b, <2>1 DEF DeviceInv, Becomes, OpsAt, CallInv, PlaceInv, InLoop,
        StopPlaces, ConfigPlaces
    <2>4. LockInv'
      BY <1>2, <1>o, <2>b, <2>1 DEF DeviceInv, Becomes, OpsAt, CallInv, PlaceInv, LockInv,
        HoldsIpc, InLoop, StopPlaces, ConfigPlaces
    <2>5. StateInv'
      BY <1>2, <1>o, <2>b, <2>1 DEF DeviceInv, Becomes, OpsAt, StateInv, LockInv, HoldsIpc,
        CallInv, PlaceInv, StopPlaces, ConfigPlaces, Start
    <2>6. TodoInv'
      BY <1>2, <1>o, <2>b, <2>1 DEF DeviceInv, Becomes, OpsAt, TodoInv, Present, LockInv,
        HoldsIpc, InLoop, CallInv, PlaceInv, StopPlaces, ConfigPlaces, Start
    <2>7. PeerInv' /\ RoutineInv' /\ RefInv'
      BY <1>2, <2>b, <2>1, QuietKeeps DEF StopPlaces, Becomes, Start
    <2>8. BindInv'
      BY <1>2, <1>o, <2>b, <2>1 DEF DeviceInv, Becomes, OpsAt, BindInv, Silent, StateInv,
        LockInv, CallInv, PlaceInv, StopPlaces, ConfigPlaces, Start
    <2>9. StartInv'
      BY <1>2, <1>o, <2>b, <2>1 DEF DeviceInv, Becomes, OpsAt, StartInv, InLoop, StateInv,
        LockInv, HoldsIpc, CallInv, PlaceInv, StopPlaces, ConfigPlaces, TodoInv, Present,
        Start, Starts
    <2> QED BY <2>2, <2>3, <2>4, <2>5, <2>6, <2>7, <2>8, <2>9 DEF DeviceInv
  <1> QED BY <1>1, <1>2

\* No timer of the peer is between a container and the encryption queue.
LEMMA StopTimersKeeps ==
    ASSUME DeviceInv, NEW c \in Callers, StopTimers(c)
    PROVE  DeviceInv'
  <1> USE LifecycleAssumption
        DEF StopTimers, lockVars, peerVars, queueVars, refVars, closeVars
  <1>t. TypeOK BY DEF DeviceInv
  <1>o. OpsAt(c) BY PlacesHaveOps
  <1>p. PICK p \in Peers : p = call[c].peer
    BY DEF DeviceInv, CallInv, StopPlaces, ConfigPlaces
  <1> USE <1>p
  <1>b. call[c].pc = "timers"
    OBVIOUS
  <1>1. Becomes(c, call[c].op, "nilIn", call[c].todo, call[c].peer)
    BY <1>t, <1>b, GotoBecomes DEF CallPlaces
  <1>2. TypeOK'
    BY <1>t, <1>1 DEF TypeOK, LockTypes, Becomes
  <1>3. CallInv'
    BY <1>o, <1>b, <1>1 DEF DeviceInv, Becomes, OpsAt, CallInv, PlaceInv, InLoop,
      StopPlaces, ConfigPlaces
  <1>4. LockInv'
    BY <1>o, <1>b, <1>1 DEF DeviceInv, Becomes, OpsAt, CallInv, PlaceInv, LockInv,
      HoldsIpc, InLoop, StopPlaces, ConfigPlaces
  <1>5. StateInv'
    BY <1>o, <1>b, <1>1 DEF DeviceInv, Becomes, OpsAt, StateInv, LockInv, HoldsIpc,
      CallInv, PlaceInv, StopPlaces, ConfigPlaces
  <1>6. TodoInv'
    BY <1>o, <1>b, <1>1 DEF DeviceInv, Becomes, OpsAt, TodoInv, Present, LockInv, HoldsIpc,
      InLoop, CallInv, PlaceInv, StopPlaces, ConfigPlaces
  <1>7. PeerInv'
    <2>1. PeerAt(p)'
      BY <1>b, <1>1 DEF DeviceInv, PeerInv, PeerAt, LockInv, Becomes, StopPlaces
    <2>2. \A x \in Peers \ {p} : PeerAt(x)'
      BY <1>b, <1>1, OtherPeers DEF DeviceInv, LockInv, Becomes
    <2> QED BY <2>1, <2>2 DEF PeerInv
  <1>8. RoutineInv'
    BY <1>o, <1>b, <1>1 DEF DeviceInv, Becomes, OpsAt, RoutineInv, LockInv, StopPlaces
  <1>9. RefInv'
    BY <1>o, <1>b, <1>1 DEF DeviceInv, Becomes, OpsAt, RefInv, BusyWorkers, OpenSockets,
      LivePeers
  <1>10. BindInv'
    BY <1>o, <1>b, <1>1 DEF DeviceInv, Becomes, OpsAt, BindInv, Silent, StateInv, LockInv,
      CallInv, PlaceInv, StopPlaces, ConfigPlaces
  <1>11. StartInv'
    BY <1>o, <1>b, <1>1 DEF DeviceInv, Becomes, OpsAt, StartInv, InLoop, StateInv, LockInv,
      HoldsIpc, CallInv, PlaceInv, StopPlaces, ConfigPlaces, TodoInv, Present
  <1> QED BY <1>2, <1>3, <1>4, <1>5, <1>6, <1>7, <1>8, <1>9, <1>10, <1>11 DEF DeviceInv

\* The nil for the receiver.
LEMMA StopInboundKeeps ==
    ASSUME DeviceInv, NEW c \in Callers, StopInbound(c)
    PROVE  DeviceInv'
  <1> USE LifecycleAssumption
        DEF StopInbound, lockVars, peerVars, queueVars, refVars, closeVars
  <1>t. TypeOK BY DEF DeviceInv
  <1>o. OpsAt(c) BY PlacesHaveOps
  <1>p. PICK p \in Peers : p = call[c].peer
    BY DEF DeviceInv, CallInv, StopPlaces, ConfigPlaces
  <1> USE <1>p
  <1>b. call[c].pc = "nilIn"
    OBVIOUS
  <1>1. Becomes(c, call[c].op, "nilOut", call[c].todo, call[c].peer)
    BY <1>t, <1>b, GotoBecomes DEF CallPlaces
  <1>2. inbound[p] \in Seq({Packet, Nil})
    BY <1>b, <1>1, <1>t DEF TypeOK
  <1>3. /\ inbound' \in [Peers -> Seq({Packet, Nil})]
        /\ inbound'[p] = Append(inbound[p], Nil)
        /\ \A x \in Peers \ {p} : inbound'[x] = inbound[x]
    BY <1>b, <1>1, <1>t, <1>2, Nils DEF TypeOK
  <1>4. TypeOK'
    BY <1>t, <1>1, <1>2, <1>3 DEF TypeOK, LockTypes, Becomes
  <1>5. CallInv'
    BY <1>o, <1>b, <1>1, <1>2, <1>3 DEF DeviceInv, Becomes, OpsAt, CallInv, PlaceInv,
      InLoop, StopPlaces, ConfigPlaces
  <1>6. LockInv'
    BY <1>o, <1>b, <1>1, <1>2, <1>3 DEF DeviceInv, Becomes, OpsAt, CallInv, PlaceInv,
      LockInv, HoldsIpc, InLoop, StopPlaces, ConfigPlaces
  <1>7. StateInv'
    BY <1>o, <1>b, <1>1, <1>2, <1>3 DEF DeviceInv, Becomes, OpsAt, StateInv, LockInv,
      HoldsIpc, CallInv, PlaceInv, StopPlaces, ConfigPlaces
  <1>8. TodoInv'
    BY <1>o, <1>b, <1>1, <1>2, <1>3 DEF DeviceInv, Becomes, OpsAt, TodoInv, Present,
      LockInv, HoldsIpc, InLoop, CallInv, PlaceInv, StopPlaces, ConfigPlaces
  <1>9. PeerInv'
    <2>1. PeerAt(p)'
      BY <1>b, <1>1, <1>2, <1>3, Nils DEF DeviceInv, PeerInv, PeerAt, LockInv, Becomes, StopPlaces
    <2>2. \A x \in Peers \ {p} : PeerAt(x)'
      BY <1>b, <1>1, <1>3, OtherPeers DEF DeviceInv, LockInv, Becomes
    <2> QED BY <2>1, <2>2 DEF PeerInv
  <1>10. RoutineInv'
    BY <1>o, <1>b, <1>1, <1>2, <1>3 DEF DeviceInv, Becomes, OpsAt, RoutineInv, LockInv,
      StopPlaces
  <1>11. RefInv'
    BY <1>o, <1>b, <1>1, <1>2, <1>3 DEF DeviceInv, Becomes, OpsAt, RefInv, BusyWorkers,
      OpenSockets, LivePeers
  <1>12. BindInv'
    BY <1>o, <1>b, <1>1, <1>2, <1>3 DEF DeviceInv, Becomes, OpsAt, BindInv, Silent,
      StateInv, LockInv, CallInv, PlaceInv, StopPlaces, ConfigPlaces
  <1>13. StartInv'
    BY <1>o, <1>b, <1>1, <1>2, <1>3 DEF DeviceInv, Becomes, OpsAt, StartInv, InLoop,
      StateInv, LockInv, HoldsIpc, CallInv, PlaceInv, StopPlaces, ConfigPlaces, TodoInv,
      Present
  <1> QED BY <1>4, <1>5, <1>6, <1>7, <1>8, <1>9, <1>10, <1>11, <1>12, <1>13 DEF DeviceInv

\* The nil for the sender.
LEMMA StopOutboundKeeps ==
    ASSUME DeviceInv, NEW c \in Callers, StopOutbound(c)
    PROVE  DeviceInv'
  <1> USE LifecycleAssumption
        DEF StopOutbound, lockVars, peerVars, queueVars, refVars, closeVars
  <1>t. TypeOK BY DEF DeviceInv
  <1>o. OpsAt(c) BY PlacesHaveOps
  <1>p. PICK p \in Peers : p = call[c].peer
    BY DEF DeviceInv, CallInv, StopPlaces, ConfigPlaces
  <1> USE <1>p
  <1>b. call[c].pc = "nilOut"
    OBVIOUS
  <1>1. Becomes(c, call[c].op, "join", call[c].todo, call[c].peer)
    BY <1>t, <1>b, GotoBecomes DEF CallPlaces
  <1>2. outbound[p] \in Seq({Packet, Nil})
    BY <1>b, <1>1, <1>t DEF TypeOK
  <1>3. /\ outbound' \in [Peers -> Seq({Packet, Nil})]
        /\ outbound'[p] = Append(outbound[p], Nil)
        /\ \A x \in Peers \ {p} : outbound'[x] = outbound[x]
    BY <1>b, <1>1, <1>t, <1>2, Nils DEF TypeOK
  <1>4. TypeOK'
    BY <1>t, <1>1, <1>2, <1>3 DEF TypeOK, LockTypes, Becomes
  <1>5. CallInv'
    BY <1>o, <1>b, <1>1, <1>2, <1>3 DEF DeviceInv, Becomes, OpsAt, CallInv, PlaceInv,
      InLoop, StopPlaces, ConfigPlaces
  <1>6. LockInv'
    BY <1>o, <1>b, <1>1, <1>2, <1>3 DEF DeviceInv, Becomes, OpsAt, CallInv, PlaceInv,
      LockInv, HoldsIpc, InLoop, StopPlaces, ConfigPlaces
  <1>7. StateInv'
    BY <1>o, <1>b, <1>1, <1>2, <1>3 DEF DeviceInv, Becomes, OpsAt, StateInv, LockInv,
      HoldsIpc, CallInv, PlaceInv, StopPlaces, ConfigPlaces
  <1>8. TodoInv'
    BY <1>o, <1>b, <1>1, <1>2, <1>3 DEF DeviceInv, Becomes, OpsAt, TodoInv, Present,
      LockInv, HoldsIpc, InLoop, CallInv, PlaceInv, StopPlaces, ConfigPlaces
  <1>9. PeerInv'
    <2>1. PeerAt(p)'
      BY <1>b, <1>1, <1>2, <1>3, Nils DEF DeviceInv, PeerInv, PeerAt, LockInv, Becomes, StopPlaces
    <2>2. \A x \in Peers \ {p} : PeerAt(x)'
      BY <1>b, <1>1, <1>3, OtherPeers DEF DeviceInv, LockInv, Becomes
    <2> QED BY <2>1, <2>2 DEF PeerInv
  <1>10. RoutineInv'
    BY <1>o, <1>b, <1>1, <1>2, <1>3 DEF DeviceInv, Becomes, OpsAt, RoutineInv, LockInv,
      StopPlaces
  <1>11. RefInv'
    BY <1>o, <1>b, <1>1, <1>2, <1>3 DEF DeviceInv, Becomes, OpsAt, RefInv, BusyWorkers,
      OpenSockets, LivePeers
  <1>12. BindInv'
    BY <1>o, <1>b, <1>1, <1>2, <1>3 DEF DeviceInv, Becomes, OpsAt, BindInv, Silent,
      StateInv, LockInv, CallInv, PlaceInv, StopPlaces, ConfigPlaces
  <1>13. StartInv'
    BY <1>o, <1>b, <1>1, <1>2, <1>3 DEF DeviceInv, Becomes, OpsAt, StartInv, InLoop,
      StateInv, LockInv, HoldsIpc, CallInv, PlaceInv, StopPlaces, ConfigPlaces, TodoInv,
      Present
  <1> QED BY <1>4, <1>5, <1>6, <1>7, <1>8, <1>9, <1>10, <1>11, <1>12, <1>13 DEF DeviceInv

\* A packet of the peer in hand.
LEMMA SetPushesKeeps ==
    ASSUME DeviceInv, NEW c \in Callers, SetPushes(c)
    PROVE  DeviceInv'
  <1> USE LifecycleAssumption
        DEF SetPushes, lockVars, peerVars, queueVars, refVars, closeVars
  <1>t. TypeOK BY DEF DeviceInv
  <1>o. OpsAt(c) BY PlacesHaveOps
  <1>p. PICK p \in Peers : p = call[c].peer
    BY DEF DeviceInv, CallInv, StopPlaces, ConfigPlaces
  <1> USE <1>p
  <1>b. call[c].pc = "push"
    OBVIOUS
  <1>1. Becomes(c, call[c].op, "seal", call[c].todo, call[c].peer)
    BY <1>t, <1>b, GotoBecomes DEF CallPlaces
  <1>2. outbound[p] \in Seq({Packet, Nil})
    BY <1>b, <1>1, <1>t DEF TypeOK
  <1>3. /\ outbound' \in [Peers -> Seq({Packet, Nil})]
        /\ outbound'[p] = Append(outbound[p], Packet)
        /\ \A x \in Peers \ {p} : outbound'[x] = outbound[x]
    BY <1>b, <1>1, <1>t, <1>2, Nils DEF TypeOK
  <1>4. TypeOK'
    BY <1>t, <1>1, <1>2, <1>3 DEF TypeOK, LockTypes, Becomes
  <1>5. CallInv'
    BY <1>o, <1>b, <1>1, <1>2, <1>3 DEF DeviceInv, Becomes, OpsAt, CallInv, PlaceInv,
      InLoop, StopPlaces, ConfigPlaces
  <1>6. LockInv'
    BY <1>o, <1>b, <1>1, <1>2, <1>3 DEF DeviceInv, Becomes, OpsAt, CallInv, PlaceInv,
      LockInv, HoldsIpc, InLoop, StopPlaces, ConfigPlaces
  <1>7. StateInv'
    BY <1>o, <1>b, <1>1, <1>2, <1>3 DEF DeviceInv, Becomes, OpsAt, StateInv, LockInv,
      HoldsIpc, CallInv, PlaceInv, StopPlaces, ConfigPlaces
  <1>8. TodoInv'
    BY <1>o, <1>b, <1>1, <1>2, <1>3 DEF DeviceInv, Becomes, OpsAt, TodoInv, Present,
      LockInv, HoldsIpc, InLoop, CallInv, PlaceInv, StopPlaces, ConfigPlaces
  <1>9. PeerInv'
    <2>1. \A x \in Peers : peerLock[x] # c BY <1>b DEF DeviceInv, LockInv, StopPlaces
    <2>2. PeerAt(p)'
      BY <1>1, <1>3, <2>1, PacketKeepsPeer DEF Becomes
    <2>3. \A x \in Peers \ {p} : PeerAt(x)'
      BY <1>1, <1>3, <2>1, OtherPeers DEF Becomes
    <2> QED BY <2>2, <2>3 DEF PeerInv
  <1>10. RoutineInv'
    BY <1>o, <1>b, <1>1, <1>2, <1>3 DEF DeviceInv, Becomes, OpsAt, RoutineInv, LockInv,
      StopPlaces, ConfigPlaces
  <1>11. RefInv'
    BY <1>o, <1>b, <1>1, <1>2, <1>3 DEF DeviceInv, Becomes, OpsAt, RefInv, BusyWorkers,
      OpenSockets, LivePeers
  <1>12. BindInv'
    BY <1>o, <1>b, <1>1, <1>2, <1>3 DEF DeviceInv, Becomes, OpsAt, BindInv, Silent,
      StateInv, LockInv, CallInv, PlaceInv, StopPlaces, ConfigPlaces
  <1>13. StartInv'
    BY <1>o, <1>b, <1>1, <1>2, <1>3 DEF DeviceInv, Becomes, OpsAt, StartInv, InLoop,
      StateInv, LockInv, HoldsIpc, CallInv, PlaceInv, StopPlaces, ConfigPlaces, TodoInv,
      Present
  <1> QED BY <1>4, <1>5, <1>6, <1>7, <1>8, <1>9, <1>10, <1>11, <1>12, <1>13 DEF DeviceInv

\* Both routines are gone, and the peer gives up its reference.
LEMMA StopJoinsKeeps ==
    ASSUME DeviceInv, NEW c \in Callers, StopJoins(c)
    PROVE  DeviceInv'
  <1> USE LifecycleAssumption
        DEF StopJoins, lockVars, peerVars, queueVars, refVars, closeVars
  <1>t. TypeOK BY DEF DeviceInv
  <1>o. OpsAt(c) BY PlacesHaveOps
  <1>p. PICK p \in Peers : p = call[c].peer
    BY DEF DeviceInv, CallInv, StopPlaces
  <1> USE <1>p
  <1>b. call[c].pc = "join"
    OBVIOUS
  <1>1. Becomes(c, call[c].op, "loop", call[c].todo \ {p}, Nobody)
    BY <1>t, <1>b, PlaceTodoPeerBecomes DEF CallPlaces, TypeOK, CallTypes
  <1>2. /\ \/ peersLock # c /\ phase' = phase /\ Present' = Present
              /\ call[c].op \in {"down", "close"}
           \/ peersLock = c /\ phase'[p] = "removed" /\ Present' = Present \ {p}
        /\ phase' \in [Peers -> {"absent", "created", "configured", "removed"}]
        /\ \A x \in Peers \ {p} : phase'[x] = phase[x]
        /\ peersLock = c => HoldsIpc(c)
        /\ p \in Present /\ p \in call[c].todo
    BY <1>b, <1>1, <1>o, Removes DEF OpsAt, StopPlaces, DeviceInv, CallInv
  <1>3. /\ peerLock[p] = c /\ peerLock'[p] = Nobody /\ peerLock' \in [Peers -> Callers \cup {Nobody}]
        /\ \A x \in Peers \ {p} : peerLock'[x] = peerLock[x] /\ peerLock[x] # c
    BY <1>b, <1>1, <1>t DEF DeviceInv, TypeOK, LockTypes, LockInv, StopPlaces
  <1>4. LivePeers \in SUBSET Peers /\ p \in LivePeers /\ LivePeers' = LivePeers \ {p} /\ ~isRunning[p]
    BY <1>b, <1>1, <1>3 DEF DeviceInv, PeerInv, PeerAt, LivePeers
  <1>5. Cardinality(LivePeers') = Cardinality(LivePeers) - 1 /\ Cardinality(LivePeers) >= 1
    BY <1>b, <1>1, <1>4, Counts
  <1>6. encryptionRefs >= 1 /\ encryptionRefs' \in Nat
    BY <1>b, <1>1, <1>t, <1>5, RefCounts DEF DeviceInv, RefInv, One, TypeOK
  <1>7. TypeOK'
    BY <1>t, <1>1, <1>2, <1>3, <1>4, <1>5, <1>6 DEF TypeOK, LockTypes, Becomes
  <1>8. CallInv'
    BY <1>o, <1>b, <1>1, <1>2, <1>3, <1>4, <1>5, <1>6 DEF DeviceInv, Becomes, OpsAt,
      CallInv, PlaceInv, InLoop, StopPlaces, ConfigPlaces
  <1>9. LockInv'
    BY <1>o, <1>b, <1>1, <1>2, <1>3, <1>4, <1>5, <1>6 DEF DeviceInv, Becomes, OpsAt,
      CallInv, PlaceInv, LockInv, HoldsIpc, InLoop, StopPlaces, ConfigPlaces
  <1>10. StateInv'
    BY <1>o, <1>b, <1>1, <1>2, <1>3, <1>4, <1>5, <1>6 DEF DeviceInv, Becomes, OpsAt,
      StateInv, LockInv, HoldsIpc, CallInv, PlaceInv, StopPlaces, ConfigPlaces
  <1>11. TodoInv'
    <2>1. \A d \in Callers \ {c} : peersLock = c => ~InLoop(d) /\ ~HoldsIpc(d)
      BY <1>2 DEF DeviceInv, LockInv
    <2>2. \A d \in Callers \ {c} : peersLock = c => call[d].todo = {}
      BY <2>1, PlacesHaveOps DEF DeviceInv, CallInv, OpsAt, HoldsIpc
    <2>3. \A x \in Peers : isRunning'[x] => x # p /\ isRunning[x]
      BY <1>t, <1>2 DEF DeviceInv, TypeOK, PeerInv, PeerAt, LockInv, StopPlaces
    <2>4. \A x \in Peers : isRunning'[x] => x \in Present'
      BY <1>2, <2>3 DEF DeviceInv, TodoInv
    <2>5. \A d \in Callers \ {c} : call[d].pc \in ConfigPlaces \/ call[d].op = "setPeer" => HoldsIpc(d)
      BY PlacesHaveOps DEF OpsAt, HoldsIpc
    <2>6. \A d \in Callers \ {c} : call[d].op = "close" /\ call[d].pc \in {"remove", "refs", "tun"} => HoldsIpc(d)
      BY DEF HoldsIpc
    <2> QED
      BY <1>o, <1>b, <1>1, <1>2, <2>1, <2>2, <2>4, <2>5, <2>6
        DEF DeviceInv, TodoInv, LockInv, Becomes, OpsAt, ConfigPlaces, StopPlaces
  <1>12. PeerInv'
    <2>1. PeerAt(p)' BY <1>3, <1>4, <1>b DEF DeviceInv, PeerInv, PeerAt
    <2>2. \A x \in Peers \ {p} : PeerAt(x)' BY <1>1, <1>3, OtherPeers DEF Becomes
    <2> QED BY <2>1, <2>2 DEF PeerInv
  <1>13. RoutineInv'
    BY <1>o, <1>b, <1>1, <1>2, <1>3, <1>4, <1>5, <1>6 DEF DeviceInv, Becomes, OpsAt,
      RoutineInv, LockInv, StopPlaces
  <1>14. RefInv'
    <2>1. /\ BusyWorkers' = BusyWorkers /\ OpenSockets' = OpenSockets
          /\ at'[TunReader] = at[TunReader] /\ initialRefs' = initialRefs
      BY DEF BusyWorkers, OpenSockets
    <2>2. encryptionRefs' = encryptionRefs - 1 OBVIOUS
    <2>3. encryptionRefs = One(initialRefs) + One(at[TunReader] # "off")
                             + Cardinality(BusyWorkers) + Cardinality(LivePeers)
      BY DEF DeviceInv, RefInv
    <2>4. One(initialRefs) \in Nat /\ One(at[TunReader] # "off") \in Nat BY DEF One
    <2>5. encryptionRefs' = One(initialRefs) + One(at[TunReader] # "off")
                              + Cardinality(BusyWorkers) + Cardinality(LivePeers')
      BY <2>2, <2>3, <2>4, <1>5, RefCounts
    <2>6. "encryption" \notin closedQueues BY <1>6 DEF DeviceInv, RefInv
    <2> QED BY <2>1, <2>5, <2>6 DEF DeviceInv, RefInv
  <1>15. BindInv'
    BY <1>o, <1>b, <1>1, <1>2, <1>3, <1>4, <1>5, <1>6 DEF DeviceInv, Becomes, OpsAt,
      BindInv, Silent, StateInv, LockInv, CallInv, PlaceInv, StopPlaces, ConfigPlaces
  <1>16. StartInv'
    BY <1>o, <1>b, <1>1, <1>2, <1>3, <1>4, <1>5, <1>6 DEF DeviceInv, Becomes, OpsAt,
      StartInv, InLoop, StateInv, LockInv, HoldsIpc, CallInv, PlaceInv, StopPlaces,
      ConfigPlaces, TodoInv, Present
  <1> QED BY <1>7, <1>8, <1>9, <1>10, <1>11, <1>12, <1>13, <1>14, <1>15, <1>16 DEF
    DeviceInv

\* A peer that runs is locked while it is stopped; one that does not is passed over.
LEMMA StopBeginsKeeps ==
    ASSUME DeviceInv, NEW c \in Callers, NEW p \in Peers, StopBegins(c, p)
    PROVE  DeviceInv'
  <1> USE LifecycleAssumption
        DEF StopBegins, lockVars, peerVars, queueVars, refVars, closeVars
  <1>t. TypeOK BY DEF DeviceInv
  <1>o. OpsAt(c) BY PlacesHaveOps
  <1>1. CASE isRunning[p]
    <2>b. /\ call[c].pc = "loop" /\ call[c].op # "up" /\ p \in call[c].todo /\ phase' = phase
          /\ isRunning' = [isRunning EXCEPT ![p] = FALSE] /\ peerLock' = [peerLock EXCEPT ![p] = c]
          /\ call' = [call EXCEPT ![c].pc = "timers", ![c].peer = p]
      BY <1>1
    <2>1. Becomes(c, call[c].op, "timers", call[c].todo, p)
      BY <1>1, <1>t, <2>b, PeerBecomes DEF CallPlaces
    <2>2. /\ isRunning' \in [Peers -> BOOLEAN] /\ ~isRunning'[p]
          /\ \A x \in Peers \ {p} : isRunning'[x] = isRunning[x]
      BY <1>1, <2>b, <2>1, <1>t DEF TypeOK
    <2>3. \A x \in Peers : peerLock[x] # c
      BY <1>1, <2>b, <2>1,  <1>o DEF DeviceInv, LockInv, StopPlaces
    <2>4. /\ peerLock'[p] = c /\ peerLock' \in [Peers -> Callers \cup {Nobody}]
          /\ \A x \in Peers \ {p} : peerLock'[x] = peerLock[x]
      BY <1>1, <2>b, <2>1, <1>t DEF TypeOK, LockTypes
    <2>5. TypeOK'
      BY <1>1, <1>t, <2>1, <2>2, <2>3, <2>4 DEF TypeOK, LockTypes, Becomes
    <2>6. CallInv'
      BY <1>1, <1>o, <2>b, <2>1, <2>2, <2>3, <2>4 DEF DeviceInv, Becomes, OpsAt, CallInv,
        PlaceInv, InLoop, StopPlaces, ConfigPlaces
    <2>7. LockInv'
      BY <1>1, <1>o, <2>b, <2>1, <2>2, <2>3, <2>4 DEF DeviceInv, Becomes, OpsAt, CallInv,
        PlaceInv, LockInv, HoldsIpc, InLoop, StopPlaces, ConfigPlaces
    <2>8. StateInv'
      BY <1>1, <1>o, <2>b, <2>1, <2>2, <2>3, <2>4 DEF DeviceInv, Becomes, OpsAt, StateInv,
        LockInv, HoldsIpc, CallInv, PlaceInv, StopPlaces, ConfigPlaces
    <2>9. TodoInv'
      BY <1>1, <1>o, <2>b, <2>1, <2>2, <2>3, <2>4 DEF DeviceInv, Becomes, OpsAt, TodoInv,
        Present, LockInv, HoldsIpc, InLoop, CallInv, PlaceInv, StopPlaces, ConfigPlaces
    <2>10. PeerInv'
      <3>1. PeerAt(p)' BY <1>1, <2>1, <2>2, <2>3, <2>4 DEF DeviceInv, PeerInv, PeerAt, Becomes
      <3>2. \A x \in Peers \ {p} : PeerAt(x)'
        BY <1>1, <2>1, <2>2, <2>3, <2>4, OtherPeers DEF Becomes
      <3> QED BY <3>1, <3>2 DEF PeerInv
    <2>11. RoutineInv'
      BY <1>1, <1>o, <2>b, <2>1, <2>2, <2>3, <2>4 DEF DeviceInv, Becomes, OpsAt,
        RoutineInv, LockInv, StopPlaces
    <2>12. RefInv'
      <3>1. LivePeers' = LivePeers BY <1>1, <2>2, <2>3, <2>4 DEF LivePeers
      <3> QED BY <1>1, <3>1 DEF DeviceInv, RefInv, BusyWorkers, OpenSockets
    <2>13. BindInv'
      BY <1>1, <1>o, <2>b, <2>1, <2>2, <2>3, <2>4 DEF DeviceInv, Becomes, OpsAt, BindInv,
        Silent, StateInv, LockInv, CallInv, PlaceInv, StopPlaces, ConfigPlaces
    <2>14. StartInv'
      BY <1>1, <1>o, <2>b, <2>1, <2>2, <2>3, <2>4 DEF DeviceInv, Becomes, OpsAt, StartInv,
        InLoop, StateInv, LockInv, HoldsIpc, CallInv, PlaceInv, StopPlaces, ConfigPlaces,
        TodoInv, Present
    <2> QED BY <2>5, <2>6, <2>7, <2>8, <2>9, <2>10, <2>11, <2>12, <2>13, <2>14 DEF
      DeviceInv
  <1>2. CASE ~isRunning[p]
    <2>b. /\ call[c].pc = "loop" /\ call[c].op # "up" /\ p \in call[c].todo /\ phase' = Gone(c, p)
          /\ isRunning' = isRunning /\ peerLock' = peerLock /\ call' = [call EXCEPT ![c].todo = @ \ {p}]
      BY <1>2
    <2>1. Becomes(c, call[c].op, "loop", call[c].todo \ {p}, call[c].peer)
      BY <1>2, <1>t, <2>b, TodoBecomes
    <2>2. /\ \/ peersLock # c /\ phase' = phase /\ Present' = Present
                /\ call[c].op \in {"down", "close"}
             \/ peersLock = c /\ phase'[p] = "removed" /\ Present' = Present \ {p}
          /\ phase' \in [Peers -> {"absent", "created", "configured", "removed"}]
          /\ \A x \in Peers \ {p} : phase'[x] = phase[x]
          /\ peersLock = c => HoldsIpc(c)
          /\ p \in Present /\ p \in call[c].todo
      BY <1>2, <2>b, <2>1, <1>o, Removes DEF OpsAt, StopPlaces, DeviceInv, CallInv
    <2>3. TypeOK'
      BY <1>2, <1>t, <2>1, <2>2 DEF TypeOK, LockTypes, Becomes
    <2>4. CallInv'
      BY <1>2, <1>o, <2>b, <2>1, <2>2 DEF DeviceInv, Becomes, OpsAt, CallInv, PlaceInv,
        InLoop, StopPlaces, ConfigPlaces
    <2>5. LockInv'
      BY <1>2, <1>o, <2>b, <2>1, <2>2 DEF DeviceInv, Becomes, OpsAt, CallInv, PlaceInv,
        LockInv, HoldsIpc, InLoop, StopPlaces, ConfigPlaces
    <2>6. StateInv'
      BY <1>2, <1>o, <2>b, <2>1, <2>2 DEF DeviceInv, Becomes, OpsAt, StateInv, LockInv,
        HoldsIpc, CallInv, PlaceInv, StopPlaces, ConfigPlaces
    <2>7. TodoInv'
      <3>1. \A d \in Callers \ {c} : peersLock = c => ~InLoop(d) /\ ~HoldsIpc(d)
        BY <2>2 DEF DeviceInv, LockInv
      <3>2. \A d \in Callers \ {c} : peersLock = c => call[d].todo = {}
        BY <3>1, PlacesHaveOps DEF DeviceInv, CallInv, OpsAt, HoldsIpc
      <3>3. \A x \in Peers : isRunning'[x] => x # p /\ isRunning[x]
        BY <1>t, <2>2 DEF DeviceInv, TypeOK, PeerInv, PeerAt, LockInv, StopPlaces
      <3>4. \A x \in Peers : isRunning'[x] => x \in Present'
        BY <2>2, <3>3 DEF DeviceInv, TodoInv
      <3>5. \A d \in Callers \ {c} : call[d].pc \in ConfigPlaces \/ call[d].op = "setPeer" => HoldsIpc(d)
        BY PlacesHaveOps DEF OpsAt, HoldsIpc
      <3>6. \A d \in Callers \ {c} : call[d].op = "close" /\ call[d].pc \in {"remove", "refs", "tun"} => HoldsIpc(d)
        BY DEF HoldsIpc
      <3> QED
        BY <1>o, <2>b, <2>1, <2>2, <3>1, <3>2, <3>4, <3>5, <3>6
          DEF DeviceInv, TodoInv, LockInv, Becomes, OpsAt, ConfigPlaces, StopPlaces
    <2>8. PeerInv' /\ RoutineInv' /\ RefInv'
      BY <1>2, <2>b, <2>1, QuietKeeps DEF StopPlaces, Becomes
    <2>9. BindInv'
      BY <1>2, <1>o, <2>b, <2>1, <2>2 DEF DeviceInv, Becomes, OpsAt, BindInv, Silent,
        StateInv, LockInv, CallInv, PlaceInv, StopPlaces, ConfigPlaces
    <2>10. StartInv'
      BY <1>2, <1>o, <2>b, <2>1, <2>2 DEF DeviceInv, Becomes, OpsAt, StartInv, InLoop,
        StateInv, LockInv, HoldsIpc, CallInv, PlaceInv, StopPlaces, ConfigPlaces, TodoInv,
        Present
    <2> QED BY <2>3, <2>4, <2>5, <2>6, <2>7, <2>8, <2>9, <2>10 DEF DeviceInv
  <1> QED BY <1>1, <1>2
-----------------------------------------------------------------------------
(***************************************************************************)
(* The routines.                                                           *)
(***************************************************************************)
RoutinePlaces == {"off", "rest", "deliver", "staged", "push", "seal", "hello"}

\* A routine does not touch what callers hold; none that has ended comes back by itself.
LEMMA RoutinesKeepControl ==
    ASSUME DeviceInv,
           UNCHANGED <<state, lockVars, call, bindOpen, tunClosed, peerVars, closed, initialRefs>>,
           at[TunReader] = "off" => at'[TunReader] = "off",
           \A s \in Sockets : at[s] = "off" => at'[s] = "off"
    PROVE  CallInv' /\ LockInv' /\ StateInv' /\ TodoInv' /\ BindInv' /\ StartInv'
  <1> USE DEF lockVars, peerVars
  <1>1. CallInv' BY DEF DeviceInv, CallInv, PlaceInv, InLoop
  <1>2. LockInv' BY DEF DeviceInv, LockInv, HoldsIpc, InLoop
  <1>3. StateInv' BY DEF DeviceInv, StateInv
  <1>4. TodoInv' BY DEF DeviceInv, TodoInv, Present
  <1>5. Silent => Silent' BY DEF Silent
  <1>6. BindInv' BY <1>5 DEF DeviceInv, BindInv
  <1>7. StartInv' BY DEF DeviceInv, StartInv, InLoop
  <1> QED BY <1>1, <1>2, <1>3, <1>4, <1>6, <1>7

\* One routine moves.
LEMMA OneMoves ==
    ASSUME DeviceInv, NEW r \in Routines, NEW l \in RoutinePlaces, Moves(r, l)
    PROVE  /\ at' \in [Routines -> RoutinePlaces]
           /\ at'[r] = l
           /\ \A x \in Routines \ {r} : at'[x] = at[x]
  BY DEF DeviceInv, TypeOK, Moves, RoutinePlaces

\* What a routine has in hand after it moved.
LEMMA MoveKeepsRoutines ==
    ASSUME DeviceInv, NEW r \in Routines, NEW l \in RoutinePlaces, Moves(r, l),
           UNCHANGED <<isRunning, peerLock, call>>,
           \A x \in Shared \ {r} : target'[x] = target[x],
           r \in Shared /\ l \notin {"off", "rest"} => target'[r] \in Peers,
           r \in Sockets => l \in {"off", "rest", "deliver"},
           r \in {TunReader} \cup Workers => l # "deliver",
           \A p \in Peers : r = Timer(p) =>
              l # "off" /\ (l \in {"push", "seal"} => isRunning[p] \/ at[r] \in {"push", "seal"})
    PROVE  RoutineInv'
  <1>1. /\ at'[r] = l
        /\ \A x \in Routines \ {r} : at'[x] = at[x]
    BY OneMoves
  <1>2. ASSUME NEW x \in {TunReader} \cup Workers
        PROVE  /\ at'[x] # "deliver"
               /\ at'[x] \in {"staged", "push", "seal", "hello"} => target'[x] \in Peers
    <2>1. x \in Shared /\ x \in Routines BY Names
    <2> QED BY <1>1, <2>1 DEF DeviceInv, RoutineInv
  <1>3. ASSUME NEW s \in Sockets
        PROVE  /\ at'[s] \in {"off", "rest", "deliver"}
               /\ at'[s] = "deliver" => target'[s] \in Peers
    <2>1. s \in Shared /\ s \in Routines BY Names
    <2> QED BY <1>1, <2>1 DEF DeviceInv, RoutineInv
  <1>4. ASSUME NEW p \in Peers
        PROVE  /\ at'[Timer(p)] # "off"
               /\ at'[Timer(p)] \in {"push", "seal"} =>
                     \/ isRunning'[p]
                     \/ \E c \in Callers : peerLock'[p] = c /\ call'[c].pc = "timers"
    <2>1. Timer(p) \in Routines BY Names
    <2> QED BY <1>1, <2>1 DEF DeviceInv, RoutineInv
  <1> QED BY <1>2, <1>3, <1>4 DEF RoutineInv

\* A routine that goes on running, and may queue a packet for a peer.
LEMMA GoingOnKeeps ==
    ASSUME DeviceInv, NEW r \in Routines, NEW l \in RoutinePlaces \ {"off"}, at[r] # "off",
           Moves(r, l),
           UNCHANGED <<controlVars, call, refVars>>,
           target' \in [Shared -> Peers \cup {Nobody}],
           inbound' \in [Peers -> Seq({Packet, Nil})],
           outbound' \in [Peers -> Seq({Packet, Nil})],
           \A p \in Peers : /\ inbound'[p] \in {inbound[p], Append(inbound[p], Packet)}
                            /\ outbound'[p] \in {outbound[p], Append(outbound[p], Packet)},
           RoutineInv'
    PROVE  DeviceInv'
  <1> USE DEF controlVars, lockVars, peerVars, closeVars, refVars
  <1>t. TypeOK BY DEF DeviceInv
  <1>1. /\ at' \in [Routines -> RoutinePlaces]
        /\ \A x \in Routines : at'[x] = "off" <=> at[x] = "off"
    BY OneMoves
  <1>2. TypeOK' BY <1>1, <1>t DEF TypeOK, LockTypes, RoutinePlaces
  <1>3. CallInv' /\ LockInv' /\ StateInv' /\ TodoInv' /\ BindInv' /\ StartInv'
    <2>1. /\ at[TunReader] = "off" => at'[TunReader] = "off"
          /\ \A s \in Sockets : at[s] = "off" => at'[s] = "off"
      BY <1>1, Names
    <2> QED BY <2>1, RoutinesKeepControl
  <1>4. PeerInv'
    <2>1. \A p \in Peers : /\ at'[Sender(p)] = "off" <=> at[Sender(p)] = "off"
                           /\ at'[Receiver(p)] = "off" <=> at[Receiver(p)] = "off"
      BY <1>1, Names
    <2>2. \A p \in Peers : PeerAt(p)' BY <2>1, PacketKeepsPeer
    <2> QED BY <2>2 DEF PeerInv
  <1>5. RefInv'
    <2>1. /\ BusyWorkers' = BusyWorkers /\ OpenSockets' = OpenSockets /\ LivePeers' = LivePeers
          /\ at'[TunReader] # "off" <=> at[TunReader] # "off"
      BY <1>1, Names DEF BusyWorkers, OpenSockets, LivePeers
    <2> QED BY <2>1 DEF DeviceInv, RefInv, One
  <1> QED BY <1>2, <1>3, <1>4, <1>5 DEF DeviceInv

\* A receive function reads a packet for a peer.
LEMMA ReceiveKeeps ==
    ASSUME DeviceInv, NEW s \in Sockets, NEW p \in Peers, Receive(s, p)
    PROVE  DeviceInv'
  <1> USE DEF Receive, Takes
  <1>1. s \in Shared /\ s \in Routines /\ s \notin {TunReader} \cup Workers
    BY Names, LifecycleAssumption
  <1>2. /\ target' \in [Shared -> Peers \cup {Nobody}] /\ target'[s] = p
        /\ \A x \in Shared \ {s} : target'[x] = target[x]
    BY <1>1 DEF DeviceInv, TypeOK
  <1>3. \A x \in Peers : s # Timer(x) BY <1>1, Names
  <1>4. RoutineInv'
    BY <1>1, <1>2, <1>3, MoveKeepsRoutines DEF RoutinePlaces, controlVars, lockVars, peerVars
  <1> QED BY <1>1, <1>2, <1>4, GoingOnKeeps DEF RoutinePlaces, queueVars, DeviceInv, TypeOK

\* A receive function puts its packet in the peer's inbound queue.
LEMMA DeliverKeeps ==
    ASSUME DeviceInv, NEW s \in Sockets, Deliver(s)
    PROVE  DeviceInv'
  <1> USE DEF Deliver, Rests
  <1>1. s \in Shared /\ s \in Routines /\ s \notin {TunReader} \cup Workers
    BY Names, LifecycleAssumption
  <1>p. PICK p \in Peers : p = target[s] BY DEF DeviceInv, RoutineInv
  <1>2. /\ target' \in [Shared -> Peers \cup {Nobody}]
        /\ \A x \in Shared \ {s} : target'[x] = target[x]
    BY <1>1 DEF DeviceInv, TypeOK
  <1>3. \A x \in Peers : s # Timer(x) BY <1>1, Names
  <1>4. RoutineInv'
    BY <1>1, <1>2, <1>3, MoveKeepsRoutines DEF RoutinePlaces, controlVars, lockVars, peerVars
  <1>5. inbound \in [Peers -> Seq({Packet, Nil})] /\ outbound \in [Peers -> Seq({Packet, Nil})]
    BY DEF DeviceInv, TypeOK
  <1>6. inbound' \in [Peers -> Seq({Packet, Nil})]
    BY <1>p, <1>5, Nils
  <1>7. \A x \in Peers : inbound'[x] \in {inbound[x], Append(inbound[x], Packet)}
    BY <1>p, <1>5
  <1> QED BY <1>1, <1>2, <1>4, <1>5, <1>6, <1>7, GoingOnKeeps DEF RoutinePlaces

\* The tun reader reads a packet for a peer and stages it.
LEMMA TunReadsKeeps ==
    ASSUME DeviceInv, NEW p \in Peers, TunReads(p)
    PROVE  DeviceInv'
  <1> USE DEF TunReads, Takes
  <1>1. TunReader \in Shared /\ TunReader \in Routines /\ TunReader \notin Sockets
    BY Names, LifecycleAssumption
  <1>2. /\ target' \in [Shared -> Peers \cup {Nobody}] /\ target'[TunReader] = p
        /\ \A x \in Shared \ {TunReader} : target'[x] = target[x]
    BY <1>1 DEF DeviceInv, TypeOK
  <1>3. \A x \in Peers : TunReader # Timer(x) BY <1>1, Names
  <1>4. RoutineInv'
    BY <1>1, <1>2, <1>3, MoveKeepsRoutines DEF RoutinePlaces, controlVars, lockVars, peerVars
  <1> QED BY <1>1, <1>2, <1>4, GoingOnKeeps DEF RoutinePlaces, queueVars, DeviceInv, TypeOK

\* A handshake worker takes a message of a peer.
LEMMA WorkerTakesKeeps ==
    ASSUME DeviceInv, NEW w \in Workers, NEW p \in Peers, WorkerTakes(w, p)
    PROVE  DeviceInv'
  <1> USE DEF WorkerTakes, Takes
  <1>1. w \in Shared /\ w \in Routines /\ w \notin Sockets
    BY Names, LifecycleAssumption
  <1>2. /\ target' \in [Shared -> Peers \cup {Nobody}] /\ target'[w] = p
        /\ \A x \in Shared \ {w} : target'[x] = target[x]
    BY <1>1 DEF DeviceInv, TypeOK
  <1>3. \A x \in Peers : w # Timer(x) BY <1>1, Names
  <1>4. RoutineInv'
    BY <1>1, <1>2, <1>3, MoveKeepsRoutines DEF RoutinePlaces, controlVars, lockVars, peerVars
  <1> QED BY <1>1, <1>2, <1>4, GoingOnKeeps DEF RoutinePlaces, queueVars, DeviceInv, TypeOK

\* A timer of a running peer starts its callback.
LEMMA TimerFiresKeeps ==
    ASSUME DeviceInv, NEW p \in Peers, TimerFires(p)
    PROVE  DeviceInv'
  <1> USE DEF TimerFires
  <1>1. Timer(p) \in Routines /\ Timer(p) \notin Shared /\ Timer(p) \notin Sockets \cup {TunReader} \cup Workers
    BY Names
  <1>2. PICK l \in {"staged", "hello"} : Moves(Timer(p), l) BY DEF Begins
  <1>4. RoutineInv'
    BY <1>1, <1>2, MoveKeepsRoutines DEF RoutinePlaces, controlVars, lockVars, peerVars
  <1> QED BY <1>1, <1>2, <1>4, GoingOnKeeps DEF RoutinePlaces, queueVars, DeviceInv, TypeOK

\* A routine that is busy with a peer.
LEMMA BusyStager ==
    ASSUME DeviceInv, NEW r \in Stagers \cup Senders
    PROVE  /\ r \in Routines /\ r \notin Sockets
           /\ at[r] \in {"staged", "push", "seal", "hello"} => PeerOf(r) \in Peers
           /\ at[r] \in {"staged", "push", "seal", "hello"} /\ r \in Shared => target[r] \in Peers
           /\ \A p \in Peers : r = Timer(p) => PeerOf(r) = p
  <1>1. CASE r \in {TunReader} \cup Workers
    <2>1. r \in Shared /\ r \in Routines /\ r \notin Sockets BY <1>1, Names, LifecycleAssumption
    <2>2. at[r] \in {"staged", "push", "seal", "hello"} => target[r] \in Peers
      BY <1>1 DEF DeviceInv, RoutineInv
    <2>3. PeerOf(r) = target[r] BY <2>1 DEF PeerOf
    <2> QED BY <2>1, <2>2, <2>3, Names
  <1>2. ASSUME NEW p \in Peers, r \in {Sender(p), Receiver(p), Timer(p)}
        PROVE  /\ r \in Routines /\ r \notin Sockets /\ r \notin Shared
               /\ PeerOf(r) = p
    <2>1. r \in Routines /\ r \notin Shared /\ r \notin Sockets BY <1>2, Names
    <2>2. r[1] = p BY <1>2 DEF Sender, Receiver, Timer
    <2> QED BY <2>1, <2>2 DEF PeerOf
  <1>3. r \in {TunReader} \cup Workers \/ \E p \in Peers : r \in {Sender(p), Receiver(p), Timer(p)}
    BY DEF Stagers, Senders, Receivers, Timers
  <1>4. CASE \E p \in Peers : r \in {Sender(p), Receiver(p), Timer(p)}
    <2>1. PICK q \in Peers : r \in {Sender(q), Receiver(q), Timer(q)} BY <1>4
    <2>2. /\ r \in Routines /\ r \notin Sockets /\ r \notin Shared
          /\ PeerOf(r) = q
      BY <1>2, <2>1
    <2>3. \A p \in Peers : r = Timer(p) => p = q BY <2>1, Names
    <2> QED BY <2>2, <2>3
  <1> QED BY <1>1, <1>3, <1>4

\* SendStagedPackets goes on with what is staged.
LEMMA StagedKeeps ==
    ASSUME DeviceInv, NEW r \in Stagers, Staged(r)
    PROVE  DeviceInv'
  <1> USE DEF Staged
  <1>1. /\ r \in Routines /\ r \notin Sockets
        /\ r \in Shared => target[r] \in Peers
        /\ \A p \in Peers : r = Timer(p) => isRunning[p]
    BY BusyStager
  <1>2. RoutineInv'
    BY <1>1, MoveKeepsRoutines DEF RoutinePlaces, controlVars, lockVars, peerVars
  <1> QED BY <1>1, <1>2, GoingOnKeeps DEF RoutinePlaces, queueVars, DeviceInv, TypeOK

\* A routine that rests has nothing in hand.
LEMMA RestKeeps ==
    ASSUME DeviceInv, NEW r \in Stagers \cup Senders, at[r] # "off", Rests(r),
           UNCHANGED <<controlVars, call, queueVars, refVars>>
    PROVE  DeviceInv'
  <1> USE DEF Rests
  <1>1. r \in Routines /\ r \notin Sockets BY BusyStager
  <1>2. /\ target' \in [Shared -> Peers \cup {Nobody}]
        /\ \A x \in Shared \ {r} : target'[x] = target[x]
    BY <1>1 DEF DeviceInv, TypeOK
  <1>3. RoutineInv'
    BY <1>1, <1>2, MoveKeepsRoutines DEF RoutinePlaces, controlVars, lockVars, peerVars
  <1> QED BY <1>1, <1>2, <1>3, GoingOnKeeps DEF RoutinePlaces, queueVars, DeviceInv, TypeOK

\* SendStagedPackets finds nothing to send, or no usable key.
LEMMA StagedEmptyKeeps ==
    ASSUME DeviceInv, NEW r \in Stagers, StagedEmpty(r)
    PROVE  DeviceInv'
  <1> USE DEF StagedEmpty
  <1>1. CASE Rests(r) BY <1>1, RestKeeps
  <1>2. CASE Moves(r, "hello") /\ UNCHANGED target
    <2>1. r \in Routines /\ r \notin Sockets /\ (r \in Shared => target[r] \in Peers)
      BY BusyStager
    <2>2. RoutineInv'
      BY <1>2, <2>1, MoveKeepsRoutines DEF RoutinePlaces, controlVars, lockVars, peerVars
    <2> QED BY <1>2, <2>1, <2>2, GoingOnKeeps DEF RoutinePlaces, queueVars, DeviceInv, TypeOK
  <1> QED BY <1>1, <1>2

\* SendStagedPackets puts a batch in the peer's outbound queue.
LEMMA PushesKeeps ==
    ASSUME DeviceInv, NEW r \in Stagers, Pushes(r)
    PROVE  DeviceInv'
  <1> USE DEF Pushes
  <1>1. r \in Routines /\ r \notin Sockets /\ (r \in Shared => target[r] \in Peers)
    BY BusyStager
  <1>p. PICK p \in Peers : p = PeerOf(r) BY BusyStager
  <1>2. RoutineInv'
    BY <1>1, MoveKeepsRoutines DEF RoutinePlaces, controlVars, lockVars, peerVars
  <1>3. inbound \in [Peers -> Seq({Packet, Nil})] /\ outbound \in [Peers -> Seq({Packet, Nil})]
        /\ target \in [Shared -> Peers \cup {Nobody}]
    BY DEF DeviceInv, TypeOK
  <1>4. outbound' \in [Peers -> Seq({Packet, Nil})]
    BY <1>p, <1>3, Nils
  <1>5. \A x \in Peers : outbound'[x] \in {outbound[x], Append(outbound[x], Packet)}
    BY <1>p, <1>3
  <1> QED BY <1>1, <1>2, <1>3, <1>4, <1>5, GoingOnKeeps DEF RoutinePlaces

\* SendStagedPackets hands the batch to the encryption workers.
LEMMA SealsKeeps ==
    ASSUME DeviceInv, NEW r \in Stagers, Seals(r)
    PROVE  DeviceInv'
  <1> USE DEF Seals
  <1>1. r \in Routines /\ r \notin Sockets /\ (r \in Shared => target[r] \in Peers)
    BY BusyStager
  <1>2. RoutineInv'
    BY <1>1, MoveKeepsRoutines DEF RoutinePlaces, controlVars, lockVars, peerVars
  <1> QED BY <1>1, <1>2, GoingOnKeeps DEF RoutinePlaces, queueVars, DeviceInv, TypeOK

\* An initiation is sent and the routine is done.
LEMMA HelloKeeps ==
    ASSUME DeviceInv, NEW r \in (Stagers \ Workers) \cup Senders, Hello(r)
    PROVE  DeviceInv'
  BY RestKeeps DEF Hello

\* A socket's receive function ends and gives up its reference.
LEMMA ReceiveEndsKeeps ==
    ASSUME DeviceInv, NEW s \in Sockets, ReceiveEnds(s)
    PROVE  DeviceInv'
  <1> USE DEF ReceiveEnds, controlVars, lockVars, peerVars, closeVars
  <1>t. TypeOK BY DEF DeviceInv
  <1>1. s \in Shared /\ s \in Routines /\ s \notin {TunReader} \cup Workers
        /\ TunReader \in Routines /\ Workers \subseteq Routines /\ Sockets \subseteq Routines
    BY Names, LifecycleAssumption
  <1>2. /\ at' \in [Routines -> RoutinePlaces] /\ at'[s] = "off"
        /\ \A x \in Routines \ {s} : at'[x] = at[x]
    BY <1>1, OneMoves DEF RoutinePlaces
  <1>3. \A x \in Peers : s # Timer(x) /\ s # Sender(x) /\ s # Receiver(x) BY <1>1, Names
  <1>4. RoutineInv'
    BY <1>1, <1>3, MoveKeepsRoutines DEF RoutinePlaces
  <1>5. /\ OpenSockets \in SUBSET Sockets /\ s \in OpenSockets
        /\ OpenSockets' = OpenSockets \ {s}
    BY <1>1, <1>2 DEF OpenSockets
  <1>6. /\ Cardinality(OpenSockets') = Cardinality(OpenSockets) - 1
        /\ Cardinality(OpenSockets) >= 1
    BY <1>5, Counts
  <1>7. inputRefs >= 1 BY <1>6, RefCounts DEF DeviceInv, RefInv, One
  <1>8. inputRefs' \in Nat BY <1>7, <1>t DEF TypeOK
  <1>9. TypeOK' BY <1>t, <1>2, <1>8 DEF TypeOK, LockTypes, RoutinePlaces, queueVars
  <1>10. CallInv' /\ LockInv' /\ StateInv' /\ TodoInv' /\ BindInv' /\ StartInv'
    BY <1>1, <1>2, RoutinesKeepControl
  <1>11. PeerInv'
    <2>1. \A p \in Peers : at'[Sender(p)] = at[Sender(p)] /\ at'[Receiver(p)] = at[Receiver(p)]
      BY <1>2, <1>3, Names
    <2>2. \A p \in Peers : PeerAt(p)' BY <2>1, OtherPeers DEF queueVars
    <2> QED BY <2>2 DEF PeerInv
  <1>12. RefInv'
    <2>1. BusyWorkers' = BusyWorkers /\ LivePeers' = LivePeers /\ at'[TunReader] = at[TunReader]
      BY <1>1, <1>2 DEF BusyWorkers, LivePeers
    <2>2. inputRefs' = One(initialRefs) + Cardinality(OpenSockets')
      <3>1. inputRefs = One(initialRefs) + Cardinality(OpenSockets) BY DEF DeviceInv, RefInv
      <3>2. inputRefs' = inputRefs - 1 OBVIOUS
      <3>3. One(initialRefs) \in Nat BY DEF One
      <3> QED BY <3>1, <3>2, <3>3, <1>6, RefCounts
    <2>3. "input" \notin closedQueues BY <1>7 DEF DeviceInv, RefInv
    <2> QED BY <2>1, <2>2, <2>3 DEF DeviceInv, RefInv
  <1> QED BY <1>4, <1>9, <1>10, <1>11, <1>12 DEF DeviceInv

\* The TUN reader ends and gives up its reference.
LEMMA TunEndsKeeps ==
    ASSUME DeviceInv, TunEnds
    PROVE  DeviceInv'
  <1> USE DEF TunEnds, lockVars, peerVars
  <1>t. TypeOK BY DEF DeviceInv
  <1>1. TunReader \in Shared /\ TunReader \in Routines /\ TunReader \notin Sockets \cup Workers
        /\ Workers \subseteq Routines /\ Sockets \subseteq Routines
    BY Names, LifecycleAssumption
  <1>2. /\ at' \in [Routines -> RoutinePlaces] /\ at'[TunReader] = "off"
        /\ \A x \in Routines \ {TunReader} : at'[x] = at[x]
    BY <1>1, OneMoves DEF RoutinePlaces
  <1>3. \A x \in Peers : TunReader # Timer(x) /\ TunReader # Sender(x) /\ TunReader # Receiver(x)
    BY <1>1, Names
  <1>4. RoutineInv'
    BY <1>1, <1>3, MoveKeepsRoutines DEF RoutinePlaces
  <1>5. One(at[TunReader] # "off") = 1 /\ One(at'[TunReader] # "off") = 0 BY <1>2 DEF One
  <1>6. encryptionRefs = One(initialRefs) + One(at[TunReader] # "off")
                           + Cardinality(BusyWorkers) + Cardinality(LivePeers)
    BY DEF DeviceInv, RefInv
  <1>7. encryptionRefs >= 1 /\ encryptionRefs' = One(initialRefs) + One(at'[TunReader] # "off")
                                                   + Cardinality(BusyWorkers) + Cardinality(LivePeers)
    <2>1. One(initialRefs) \in Nat BY DEF One
    <2>2. encryptionRefs' = encryptionRefs - 1 OBVIOUS
    <2> QED BY <2>1, <2>2, <1>5, <1>6, RefCounts
  <1>8. encryptionRefs' \in Nat BY <1>7, <1>t DEF TypeOK
  <1>9. TypeOK' BY <1>t, <1>2, <1>8 DEF TypeOK, LockTypes, RoutinePlaces, queueVars
  <1>10. CallInv' /\ LockInv' /\ StateInv' /\ TodoInv' /\ BindInv' /\ StartInv'
    BY <1>1, <1>2, RoutinesKeepControl
  <1>11. PeerInv'
    <2>1. \A p \in Peers : at'[Sender(p)] = at[Sender(p)] /\ at'[Receiver(p)] = at[Receiver(p)]
      BY <1>2, <1>3, Names
    <2>2. \A p \in Peers : PeerAt(p)' BY <2>1, OtherPeers DEF queueVars
    <2> QED BY <2>2 DEF PeerInv
  <1>12. RefInv'
    <2>1. BusyWorkers' = BusyWorkers /\ LivePeers' = LivePeers /\ OpenSockets' = OpenSockets
      BY <1>1, <1>2 DEF BusyWorkers, LivePeers, OpenSockets
    <2>2. "encryption" \notin closedQueues BY <1>7 DEF DeviceInv, RefInv
    <2> QED BY <1>7, <2>1, <2>2 DEF DeviceInv, RefInv
  <1> QED BY <1>4, <1>9, <1>10, <1>11, <1>12 DEF DeviceInv

\* A worker ends, once the handshake queue is closed, and gives up its reference.
LEMMA WorkerEndsKeeps ==
    ASSUME DeviceInv, NEW w \in Workers, WorkerEnds(w)
    PROVE  DeviceInv'
  <1> USE DEF WorkerEnds, controlVars, lockVars, peerVars, closeVars
  <1>t. TypeOK BY DEF DeviceInv
  <1>1. w \in Shared /\ w \in Routines /\ w \notin Sockets \cup {TunReader}
        /\ TunReader \in Routines /\ Workers \subseteq Routines /\ Sockets \subseteq Routines
    BY Names, LifecycleAssumption
  <1>2. /\ at' \in [Routines -> RoutinePlaces] /\ at'[w] = "off"
        /\ \A x \in Routines \ {w} : at'[x] = at[x]
    BY <1>1, OneMoves DEF RoutinePlaces
  <1>3. \A x \in Peers : w # Timer(x) /\ w # Sender(x) /\ w # Receiver(x) BY <1>1, Names
  <1>4. RoutineInv'
    BY <1>1, <1>3, MoveKeepsRoutines DEF RoutinePlaces
  <1>5. /\ BusyWorkers \in SUBSET Workers /\ w \in BusyWorkers
        /\ BusyWorkers' = BusyWorkers \ {w}
    BY <1>1, <1>2 DEF BusyWorkers
  <1>6. /\ Cardinality(BusyWorkers') = Cardinality(BusyWorkers) - 1
        /\ Cardinality(BusyWorkers) >= 1
    BY <1>5, Counts
  <1>7. encryptionRefs >= 1 /\ encryptionRefs' = One(initialRefs) + One(at[TunReader] # "off")
                                                   + Cardinality(BusyWorkers') + Cardinality(LivePeers)
    <2>1. One(initialRefs) \in Nat /\ One(at[TunReader] # "off") \in Nat BY DEF One
    <2>2. encryptionRefs' = encryptionRefs - 1 OBVIOUS
    <2>3. encryptionRefs = One(initialRefs) + One(at[TunReader] # "off")
                             + Cardinality(BusyWorkers) + Cardinality(LivePeers)
      BY DEF DeviceInv, RefInv
    <2> QED BY <2>1, <2>2, <2>3, <1>6, RefCounts
  <1>8. encryptionRefs' \in Nat BY <1>7, <1>t DEF TypeOK
  <1>9. TypeOK' BY <1>t, <1>2, <1>8 DEF TypeOK, LockTypes, RoutinePlaces, queueVars
  <1>10. CallInv' /\ LockInv' /\ StateInv' /\ TodoInv' /\ BindInv' /\ StartInv'
    BY <1>1, <1>2, RoutinesKeepControl
  <1>11. PeerInv'
    <2>1. \A p \in Peers : at'[Sender(p)] = at[Sender(p)] /\ at'[Receiver(p)] = at[Receiver(p)]
      BY <1>2, <1>3, Names
    <2>2. \A p \in Peers : PeerAt(p)' BY <2>1, OtherPeers DEF queueVars
    <2> QED BY <2>2 DEF PeerInv
  <1>12. RefInv'
    <2>1. LivePeers' = LivePeers /\ OpenSockets' = OpenSockets /\ at'[TunReader] = at[TunReader]
      BY <1>1, <1>2 DEF LivePeers, OpenSockets
    <2>2. "encryption" \notin closedQueues BY <1>7 DEF DeviceInv, RefInv
    <2> QED BY <1>7, <2>1, <2>2 DEF DeviceInv, RefInv
  <1> QED BY <1>4, <1>9, <1>10, <1>11, <1>12 DEF DeviceInv

\* The goroutine that waits for the last reference of a queue closes it.
LEMMA QueueClosesKeeps ==
    ASSUME DeviceInv, NEW q \in {"encryption", "input"}, QueueCloses(q)
    PROVE  DeviceInv'
  <1> USE DEF QueueCloses, controlVars, lockVars, peerVars, closeVars
  <1>1. TypeOK' BY DEF DeviceInv, TypeOK, LockTypes, queueVars
  <1>2. CallInv' /\ LockInv' /\ StateInv' /\ TodoInv' /\ BindInv' /\ StartInv'
    BY RoutinesKeepControl
  <1>3. PeerInv'
    <2>1. \A p \in Peers : PeerAt(p)' BY OtherPeers DEF queueVars
    <2> QED BY <2>1 DEF PeerInv
  <1>4. RoutineInv' BY DEF DeviceInv, RoutineInv
  <1>5. RefInv' BY DEF DeviceInv, RefInv, BusyWorkers, LivePeers, OpenSockets
  <1> QED BY <1>1, <1>2, <1>3, <1>4, <1>5 DEF DeviceInv

\* A queue without nil, or with one, loses its head.
LEMMA ReceiverTakesKeeps ==
    ASSUME DeviceInv, NEW p \in Peers, ReceiverTakes(p)
    PROVE  DeviceInv'
  <1> USE DEF ReceiverTakes, controlVars, lockVars, peerVars, closeVars, refVars
  <1>t. TypeOK BY DEF DeviceInv
  <1>q. inbound \in [Peers -> Seq({Packet, Nil})] /\ inbound[p] \in Seq({Packet, Nil})
        /\ inbound[p] # <<>>
    BY <1>t DEF TypeOK
  <1>1. PICK l \in RoutinePlaces \ {"deliver", "push", "seal"} :
          Moves(Receiver(p), l) /\ (l = "off" <=> Head(inbound[p]) = Nil)
    BY DEF Begins, RoutinePlaces
  <1>2. /\ Receiver(p) \in Routines /\ Receiver(p) \notin Shared
        /\ Receiver(p) \notin Sockets /\ Receiver(p) \notin {TunReader} \cup Workers
        /\ TunReader \in Routines /\ Workers \subseteq Routines /\ Sockets \subseteq Routines
        /\ \A x \in Peers : Receiver(p) # Timer(x) /\ Receiver(p) # Sender(x)
        /\ \A x \in Peers \ {p} : Receiver(p) # Receiver(x)
        /\ \A x \in Peers : Receiver(x) \in Routines /\ Sender(x) \in Routines
    BY Names
  <1>3. /\ at' \in [Routines -> RoutinePlaces] /\ at'[Receiver(p)] = l
        /\ \A x \in Routines \ {Receiver(p)} : at'[x] = at[x]
    BY <1>1, <1>2, OneMoves
  <1>4. RoutineInv' BY <1>1, <1>2, MoveKeepsRoutines
  <1>5. /\ inbound' \in [Peers -> Seq({Packet, Nil})] /\ inbound'[p] = Tail(inbound[p])
        /\ \A x \in Peers \ {p} : inbound'[x] = inbound[x]
    BY <1>q, Nils
  <1>6. TypeOK' BY <1>t, <1>3, <1>5 DEF TypeOK, LockTypes, RoutinePlaces
  <1>7. CallInv' /\ LockInv' /\ StateInv' /\ TodoInv' /\ BindInv' /\ StartInv'
    BY <1>2, <1>3, RoutinesKeepControl
  <1>8. PeerInv'
    <2>1. PeerAt(p) BY DEF DeviceInv, PeerInv
    <2>2. at'[Sender(p)] = at[Sender(p)] BY <1>2, <1>3
    <2>3. /\ NoNil(inbound[p]) => NoNil(inbound'[p]) /\ Head(inbound[p]) # Nil
          /\ OneNil(inbound[p]) /\ Head(inbound[p]) = Nil => NoNil(inbound'[p])
          /\ OneNil(inbound[p]) /\ Head(inbound[p]) # Nil => OneNil(inbound'[p])
      BY <1>q, <1>5, Nils
    <2>4. PeerAt(p)' BY <1>1, <1>3, <2>1, <2>2, <2>3 DEF PeerAt
    <2>5. \A x \in Peers \ {p} : /\ at'[Sender(x)] = at[Sender(x)]
                                 /\ at'[Receiver(x)] = at[Receiver(x)]
      BY <1>2, <1>3
    <2>6. \A x \in Peers \ {p} : PeerAt(x)' BY <1>5, <2>5, OtherPeers
    <2> QED BY <2>4, <2>6 DEF PeerInv
  <1>9. RefInv'
    <2>1. BusyWorkers' = BusyWorkers /\ LivePeers' = LivePeers /\ OpenSockets' = OpenSockets
          /\ at'[TunReader] = at[TunReader]
      BY <1>2, <1>3 DEF BusyWorkers, LivePeers, OpenSockets
    <2> QED BY <2>1 DEF DeviceInv, RefInv
  <1> QED BY <1>4, <1>6, <1>7, <1>8, <1>9 DEF DeviceInv

\* A peer's sender takes a batch, or the nil that ends it.
LEMMA SenderTakesKeeps ==
    ASSUME DeviceInv, NEW p \in Peers, SenderTakes(p)
    PROVE  DeviceInv'
  <1> USE DEF SenderTakes, controlVars, lockVars, peerVars, closeVars, refVars
  <1>t. TypeOK BY DEF DeviceInv
  <1>q. outbound \in [Peers -> Seq({Packet, Nil})] /\ outbound[p] \in Seq({Packet, Nil})
        /\ outbound[p] # <<>>
    BY <1>t DEF TypeOK
  <1>1. PICK l \in {"off", "rest", "hello"} :
          Moves(Sender(p), l) /\ (l = "off" <=> Head(outbound[p]) = Nil)
    OBVIOUS
  <1>2. /\ Sender(p) \in Routines /\ Sender(p) \notin Shared
        /\ Sender(p) \notin Sockets /\ Sender(p) \notin {TunReader} \cup Workers
        /\ TunReader \in Routines /\ Workers \subseteq Routines /\ Sockets \subseteq Routines
        /\ \A x \in Peers : Sender(p) # Timer(x) /\ Sender(p) # Receiver(x)
        /\ \A x \in Peers \ {p} : Sender(p) # Sender(x)
        /\ \A x \in Peers : Receiver(x) \in Routines /\ Sender(x) \in Routines
    BY Names
  <1>3. /\ at' \in [Routines -> RoutinePlaces] /\ at'[Sender(p)] = l
        /\ \A x \in Routines \ {Sender(p)} : at'[x] = at[x]
    BY <1>1, <1>2, OneMoves DEF RoutinePlaces
  <1>4. RoutineInv' BY <1>1, <1>2, MoveKeepsRoutines DEF RoutinePlaces
  <1>5. /\ outbound' \in [Peers -> Seq({Packet, Nil})] /\ outbound'[p] = Tail(outbound[p])
        /\ \A x \in Peers \ {p} : outbound'[x] = outbound[x]
    BY <1>q, Nils
  <1>6. TypeOK' BY <1>t, <1>3, <1>5 DEF TypeOK, LockTypes, RoutinePlaces
  <1>7. CallInv' /\ LockInv' /\ StateInv' /\ TodoInv' /\ BindInv' /\ StartInv'
    BY <1>2, <1>3, RoutinesKeepControl
  <1>8. PeerInv'
    <2>1. PeerAt(p) BY DEF DeviceInv, PeerInv
    <2>2. at'[Receiver(p)] = at[Receiver(p)] BY <1>2, <1>3
    <2>3. /\ NoNil(outbound[p]) => NoNil(outbound'[p]) /\ Head(outbound[p]) # Nil
          /\ OneNil(outbound[p]) /\ Head(outbound[p]) = Nil => NoNil(outbound'[p])
          /\ OneNil(outbound[p]) /\ Head(outbound[p]) # Nil => OneNil(outbound'[p])
      BY <1>q, <1>5, Nils
    <2>4. PeerAt(p)' BY <1>1, <1>3, <2>1, <2>2, <2>3 DEF PeerAt
    <2>5. \A x \in Peers \ {p} : /\ at'[Sender(x)] = at[Sender(x)]
                                 /\ at'[Receiver(x)] = at[Receiver(x)]
      BY <1>2, <1>3
    <2>6. \A x \in Peers \ {p} : PeerAt(x)' BY <1>5, <2>5, OtherPeers
    <2> QED BY <2>4, <2>6 DEF PeerInv
  <1>9. RefInv'
    <2>1. BusyWorkers' = BusyWorkers /\ LivePeers' = LivePeers /\ OpenSockets' = OpenSockets
          /\ at'[TunReader] = at[TunReader]
      BY <1>2, <1>3 DEF BusyWorkers, LivePeers, OpenSockets
    <2> QED BY <2>1 DEF DeviceInv, RefInv
  <1> QED BY <1>4, <1>6, <1>7, <1>8, <1>9 DEF DeviceInv

-----------------------------------------------------------------------------
\* A device that was just made: down, unlocked, without peers, its own references and
\* those of the TUN reader and the workers taken.
LEMMA DeviceInit == Init => DeviceInv
  <1> SUFFICES ASSUME Init PROVE DeviceInv OBVIOUS
  <1> USE LifecycleAssumption DEF Init
  <1>c. \A c \in Callers : call[c] = Idle BY DEF Idle
  <1>f. /\ \A c \in Callers : /\ call[c].op = "none" /\ call[c].pc = "idle"
                              /\ call[c].todo = {} /\ call[c].peer = Nobody
    BY <1>c DEF Idle
  <1>n. Nobody \notin Callers OBVIOUS
  <1>p. Present = {} BY DEF Present
  <1>1. TypeOK
    <2>1. Idle \in CallTypes BY DEF Idle, CallTypes, CallOps, CallPlaces
    <2>2. call \in [Callers -> CallTypes] BY <2>1
    <2>3. encryptionRefs \in Nat BY FS_CardinalityType DEF InitialRefs
    <2>4. at \in [Routines -> {"off", "rest", "deliver", "staged", "push", "seal", "hello"}]
      OBVIOUS
    <2>5. <<>> \in Seq({Packet, Nil}) OBVIOUS
    <2>6. inbound \in [Peers -> Seq({Packet, Nil})] /\ outbound \in [Peers -> Seq({Packet, Nil})]
      BY <2>5
    <2>7. LockTypes BY DEF LockTypes
    <2>8. /\ phase \in [Peers -> {"absent", "created", "configured", "removed"}]
          /\ isRunning \in [Peers -> BOOLEAN]
          /\ target \in [Shared -> Peers \cup {Nobody}]
      OBVIOUS
    <2>9. /\ inputRefs \in Nat /\ state \in {"down", "up", "closed"}
          /\ bindOpen \in BOOLEAN /\ tunClosed \in BOOLEAN
          /\ initialRefs \in BOOLEAN /\ closeSpawned \in BOOLEAN /\ closed \in BOOLEAN
          /\ closedQueues \subseteq {"encryption", "input"}
      OBVIOUS
    <2> HIDE DEF Init
    <2> QED BY <2>2, <2>3, <2>4, <2>6, <2>7, <2>8, <2>9 DEF TypeOK
  <1>2. CallInv
    BY <1>f DEF CallInv, PlaceInv, ConfigPlaces, StopPlaces
  <1>3. LockInv
    BY <1>f, <1>n DEF LockInv, HoldsIpc, InLoop, StopPlaces
  <1>4. StateInv BY <1>f DEF StateInv
  <1>5. TodoInv BY <1>f, <1>n, <1>p DEF TodoInv, ConfigPlaces
  <1>6. PeerInv
    <2>1. \A p \in Peers : at[Sender(p)] = "off" /\ at[Receiver(p)] = "off"
      <3> SUFFICES ASSUME NEW p \in Peers PROVE at[Sender(p)] = "off" /\ at[Receiver(p)] = "off"
        OBVIOUS
      <3>1. /\ Sender(p) \in Routines /\ Receiver(p) \in Routines
            /\ Sender(p) \notin {TunReader} \cup Workers /\ Receiver(p) \notin {TunReader} \cup Workers
        BY Names
      <3>2. Sender(p) \notin Timers /\ Receiver(p) \notin Timers BY Names DEF Timers
      <3> QED BY <3>1, <3>2
    <2>2. NoNil(<<>>) BY DEF NoNil
    <2> QED BY <1>n, <2>1, <2>2 DEF PeerInv, PeerAt
  <1>7. \A s \in Sockets : at[s] = "off"
    <2>1. \A s \in Sockets : s \in Routines /\ s \notin {TunReader} \cup Workers BY Names
    <2>2. \A s \in Sockets : s \notin Timers BY Names DEF Timers
    <2> QED BY <2>1, <2>2
  <1>8. at[TunReader] = "rest" /\ \A w \in Workers : at[w] = "rest" BY Names
  <1>9. RoutineInv
    <2>1. \A p \in Peers : at[Timer(p)] = "rest" BY Names DEF Timers
    <2> QED BY <1>7, <1>8, <2>1 DEF RoutineInv
  <1>10. RefInv
    <2>1. BusyWorkers = Workers /\ OpenSockets = {} /\ LivePeers = {}
      BY <1>7, <1>8 DEF BusyWorkers, OpenSockets, LivePeers
    <2>2. Cardinality(OpenSockets) = 0 /\ Cardinality(LivePeers) = 0 BY <2>1, FS_EmptySet
    <2>3. One(initialRefs) = 1 /\ One(at[TunReader] # "off") = 1 BY <1>8 DEF One
    <2>4. encryptionRefs = 1 + 1 + Cardinality(Workers) + 0
      BY FS_CardinalityType DEF InitialRefs
    <2> QED BY <2>1, <2>2, <2>3, <2>4 DEF RefInv
  <1>11. BindInv BY <1>f, <1>7 DEF BindInv, Silent
  <1>12. StartInv BY DEF StartInv
  <1> QED BY <1>1, <1>2, <1>3, <1>4, <1>5, <1>6, <1>9, <1>10, <1>11, <1>12 DEF DeviceInv

\* A caller's step.
LEMMA ControlKeeps ==
    ASSUME DeviceInv, NEW c \in Callers, Control(c)
    PROVE  DeviceInv'
  <1>1. CASE Locks(c)
    BY <1>1, ChangeStateKeeps, LockStateKeeps, SetBeginsKeeps, UpLocksIpcKeeps DEF Locks
  <1>2. CASE Binds(c)
    BY <1>2, LockNetKeeps, BindDrainedKeeps, BindOpensKeeps, BindUpdatedKeeps DEF Binds
  <1>3. CASE Loops(c)
    <2>1. CASE Stops(c)
      BY <2>1, StopBeginsKeeps, StopTimersKeeps, StopInboundKeeps, StopOutboundKeeps,
         StopJoinsKeeps DEF Stops
    <2> QED
      BY <1>3, <2>1, ReadPeersKeeps, WritePeersKeeps, LoopEndsKeeps, UpStartsKeeps,
         CallerHelloKeeps DEF Loops
  <1>4. CASE Sets(c)
    BY <1>4, CreatePeerKeeps, SelectPeerKeeps, RemoveLineKeeps, ReplacePeersLineKeeps,
       ListenPortLineKeeps, PostConfigKeeps, SetStartsKeeps, SetTestsKeeps, SetStagedKeeps,
       SetPushesKeeps, SetSealsKeeps, SetReturnsKeeps DEF Sets
  <1>5. CASE Closes(c)
    BY <1>5, CloseBeginsKeeps, DropReferencesKeeps, CloseEndsKeeps DEF Closes
  <1> QED BY <1>1, <1>2, <1>3, <1>4, <1>5 DEF Control

\* Every step of every caller, routine and timer keeps DeviceInv.
LEMMA DeviceStep == DeviceInv /\ [Next]_vars => DeviceInv'
  <1> SUFFICES ASSUME DeviceInv, [Next]_vars PROVE DeviceInv' OBVIOUS
  <1>1. CASE \E c \in Callers : Control(c) BY <1>1, ControlKeeps
  <1>2. CASE \E s \in Sockets : (\E p \in Peers : Receive(s, p)) \/ Deliver(s) \/ ReceiveEnds(s)
    BY <1>2, ReceiveKeeps, DeliverKeeps, ReceiveEndsKeeps
  <1>3. CASE \E p \in Peers : TunReads(p) \/ TimerFires(p) \/ ReceiverTakes(p) \/ SenderTakes(p)
    BY <1>3, TunReadsKeeps, TimerFiresKeeps, ReceiverTakesKeeps, SenderTakesKeeps
  <1>4. CASE TunEnds BY <1>4, TunEndsKeeps
  <1>5. CASE \E w \in Workers : (\E p \in Peers : WorkerTakes(w, p)) \/ WorkerEnds(w)
    BY <1>5, WorkerTakesKeeps, WorkerEndsKeeps
  <1>6. CASE \E r \in Stagers : Stages(r)
    BY <1>6, StagedKeeps, StagedEmptyKeeps, PushesKeeps, SealsKeeps DEF Stages
  <1>7. CASE \E r \in (Stagers \ Workers) \cup Senders : Hello(r) BY <1>7, HelloKeeps
  <1>8. CASE \E q \in {"encryption", "input"} : QueueCloses(q) BY <1>8, QueueClosesKeeps
  <1>9. CASE UNCHANGED vars
    <2> USE <1>9 DEF vars, lockVars, peerVars, queueVars, refVars, closeVars
    <2>1. TypeOK' BY DEF DeviceInv, TypeOK, LockTypes
    <2>2. CallInv' /\ LockInv' /\ StateInv' /\ TodoInv' /\ BindInv' /\ StartInv'
      BY RoutinesKeepControl
    <2>3. \A p \in Peers : PeerAt(p)' BY OtherPeers
    <2>4. RoutineInv' BY DEF DeviceInv, RoutineInv
    <2>5. RefInv' BY DEF DeviceInv, RefInv, BusyWorkers, LivePeers, OpenSockets
    <2> QED BY <2>1, <2>2, <2>3, <2>4, <2>5 DEF DeviceInv, PeerInv
  <1> QED BY <1>1, <1>2, <1>3, <1>4, <1>5, <1>6, <1>7, <1>8, <1>9 DEF Next

\* The inductive invariant of the device holds always.
THEOREM DeviceInvariant == Spec => []DeviceInv
  BY DeviceInit, DeviceStep, PTL DEF Spec

-----------------------------------------------------------------------------
\* The shapes of the device's state hold, and neither reference count of a queue goes
\* below zero, however Up, Down, IpcSet, BindClose and Close overlap.
THEOREM TypeCorrect == Spec => []TypeOK
  <1>1. DeviceInv => TypeOK BY DEF DeviceInv
  <1> QED BY <1>1, DeviceInvariant, PTL

\* Nobody sends on a closed queue (channels.go closes it when the last reference goes):
\* whoever holds a container for it is counted among its references.
THEOREM SendsAreSafe == Spec => []NoSendOnClosedQueue
  <1>1. ASSUME DeviceInv PROVE NoSendOnClosedQueue
    <2>t. One(initialRefs) \in Nat /\ One(at[TunReader] # "off") \in Nat BY DEF One
    <2>1. ASSUME "encryption" \in closedQueues
          PROVE  /\ ~initialRefs /\ at[TunReader] = "off"
                 /\ \A w \in Workers : at[w] = "off"
                 /\ \A p \in Peers : ~isRunning[p] /\ peerLock[p] = Nobody
      <3>1. One(initialRefs) = 0 /\ One(at[TunReader] # "off") = 0
            /\ Cardinality(BusyWorkers) = 0 /\ Cardinality(LivePeers) = 0
        BY <1>1, <2>1, <2>t, RefCounts DEF DeviceInv, RefInv
      <3>2. IsFiniteSet(BusyWorkers) /\ IsFiniteSet(LivePeers)
        BY Counts DEF BusyWorkers, LivePeers
      <3>3. BusyWorkers = {} BY <3>1, <3>2, FS_EmptySet
      <3>4. LivePeers = {} BY <3>1, <3>2, FS_EmptySet
      <3> QED BY <3>1, <3>3, <3>4 DEF BusyWorkers, LivePeers, One
    <2>2. ASSUME "encryption" \in closedQueues, NEW r \in Stagers PROVE at[r] # "seal"
      <3>1. CASE r \in {TunReader} \cup Workers BY <2>1, <2>2, <3>1
      <3>2. ASSUME NEW p \in Peers, r = Receiver(p) PROVE at[r] # "seal"
        BY <1>1, <2>1, <2>2, <3>2 DEF DeviceInv, PeerInv, PeerAt
      <3>3. ASSUME NEW p \in Peers, r = Timer(p) PROVE at[r] # "seal"
        BY <1>1, <2>1, <2>2, <3>3, LifecycleAssumption DEF DeviceInv, RoutineInv
      <3> QED BY <3>1, <3>2, <3>3 DEF Stagers, Receivers, Timers
    <2>3. ASSUME "encryption" \in closedQueues, NEW c \in Callers PROVE call[c].pc # "seal"
      BY <1>1, <2>1, <2>3 DEF DeviceInv, TodoInv, ConfigPlaces
    <2>4. ASSUME "input" \in closedQueues, NEW s \in Sockets PROVE at[s] = "off"
      <3>1. Cardinality(OpenSockets) = 0
        BY <1>1, <2>4, <2>t, RefCounts DEF DeviceInv, RefInv
      <3>2. IsFiniteSet(OpenSockets) BY Counts DEF OpenSockets
      <3>3. OpenSockets = {} BY <3>1, <3>2, FS_EmptySet
      <3> QED BY <3>3 DEF OpenSockets
    <2> QED BY <2>2, <2>3, <2>4 DEF NoSendOnClosedQueue
  <1> QED BY <1>1, DeviceInvariant, PTL

\* Peer.Start and Peer.Stop leave a peer with both routines or with neither, and never
\* a nil in its queues, for any number of callers that start and stop it.
THEOREM PeersStayWhole == Spec => []PeersAreWhole
  <1>1. DeviceInv => PeersAreWhole BY DEF DeviceInv, PeerInv, PeerAt, PeersAreWhole, NoNil
  <1> QED BY <1>1, DeviceInvariant, PTL

\* After Close no peer, no receive function and no TUN reader runs, and none is started:
\* handlePostConfig and BindUpdate, which read the state without its lock, included.
THEOREM CloseIsFinal == Spec => []NothingRunsAfterClose
  <1>1. ASSUME DeviceInv, closed PROVE NothingRunsAfterClose
    <2>1. ~initialRefs /\ at[TunReader] = "off" BY <1>1 DEF DeviceInv, StateInv
    <2>2. Present = {} /\ Silent BY <1>1, <2>1 DEF DeviceInv, TodoInv, BindInv
    <2>3. \A p \in Peers : ~isRunning[p] BY <1>1, <2>2 DEF DeviceInv, TodoInv
    <2>4. \A p \in Peers : peerLock[p] = Nobody
      BY <1>1, <2>2 DEF DeviceInv, TypeOK, LockTypes, LockInv, CallInv, TodoInv
    <2>5. \A p \in Peers : at[Sender(p)] = "off" /\ at[Receiver(p)] = "off"
      BY <1>1, <2>3, <2>4 DEF DeviceInv, PeerInv, PeerAt
    <2> QED BY <2>1, <2>2, <2>3, <2>5 DEF NothingRunsAfterClose, Silent
  <1>2. DeviceInv => NothingRunsAfterClose BY <1>1 DEF NothingRunsAfterClose
  <1> QED BY <1>2, DeviceInvariant, PTL

\* Once every call has returned, a device that is not up has no open socket.
THEOREM DownStaysSilent == Spec => []DownIsSilent
  <1>1. ASSUME DeviceInv, Quiescent, state # "up" PROVE Silent
    <2>1. \A c \in Callers : call[c].pc = "idle" BY <1>1 DEF Quiescent, Idle
    <2> QED BY <1>1, <2>1 DEF DeviceInv, BindInv
  <1>2. DeviceInv => DownIsSilent BY <1>1 DEF DownIsSilent, Silent
  <1> QED BY <1>2, DeviceInvariant, PTL

\* Once every call has returned, every configured peer of a device that is up runs:
\* the lost start that upLocked's wait for the IPC mutex is there to prevent.
THEOREM UpStartsThePeers == Spec => []UpRunsPeers
  <1>1. ASSUME DeviceInv, Quiescent, state = "up", NEW p \in Peers, phase[p] = "configured"
        PROVE  isRunning[p]
    <2>1. \A c \in Callers : call[c].pc = "idle" /\ call[c].op = "none"
      BY <1>1 DEF Quiescent, Idle
    <2>2. \A c \in Callers : peerLock[p] # c
      BY <1>1, <2>1 DEF DeviceInv, LockInv, StopPlaces
    <2> QED BY <1>1, <2>1, <2>2 DEF DeviceInv, StartInv
  <1>2. DeviceInv => UpRunsPeers BY <1>1 DEF UpRunsPeers
  <1> QED BY <1>2, DeviceInvariant, PTL

=============================================================================
