--------------------------- MODULE DeviceLifecycle ---------------------------
(***************************************************************************)
(* The life of a WireGuard device: wireguard/device device.go, peer.go,    *)
(* uapi.go, tun.go, channels.go and the loops of send.go and receive.go.   *)
(*                                                                         *)
(* Callers (the application, the TUN event reader, a UAPI connection, and  *)
(* the goroutine the TUN reader starts to close the device) bring it up    *)
(* and down, configure it and close it, under four device-wide locks and   *)
(* a lock of each peer, while the routines below move packets:             *)
(*                                                                         *)
(*   TunReader     TUN device -> a peer's outbound queue                   *)
(*   Workers       answer handshake messages                               *)
(*   Sockets       RoutineReceiveIncoming -> a peer's inbound queue        *)
(*   Sender(p)     outbound queue -> network                               *)
(*   Receiver(p)   inbound queue -> TUN device                             *)
(*   Timer(p)      the timer callbacks of a peer                           *)
(*                                                                         *)
(* The device-wide encryption, decryption and handshake queues close when  *)
(* their reference counts reach zero; a send on a closed queue panics.     *)
(* The encryption and decryption workers never block, so these queues and  *)
(* the locks of queued containers are taken to let every goroutine pass.   *)
(***************************************************************************)
EXTENDS Integers, Sequences, FiniteSets

CONSTANTS
    Callers,      \* goroutines that call Up, Down, IpcSet, BindClose and Close
    Operations,   \* what callers call: "up", "down", "set", "unbind", "close"
    Peers,        \* peer objects; one that was removed does not come back
    Sockets,      \* receive functions of an open bind
    Workers,      \* RoutineHandshake, one per CPU
    TunReader,    \* RoutineReadFromTUN
    Nobody,       \* no caller, no peer
    QueueSize     \* capacity of a peer's inbound and outbound queues (1024)

Sender(p)   == <<p, "sender">>
Receiver(p) == <<p, "receiver">>
Timer(p)    == <<p, "timer">>

Shared    == {TunReader} \cup Workers \cup Sockets
Senders   == {Sender(p) : p \in Peers}
Receivers == {Receiver(p) : p \in Peers}
Timers    == {Timer(p) : p \in Peers}
Routines  == Shared \cup Senders \cup Receivers \cup Timers

\* The routines that call SendStagedPackets and SendHandshakeInitiation.
Stagers == {TunReader} \cup Workers \cup Receivers \cup Timers

ASSUME LifecycleAssumption ==
    /\ Operations \subseteq {"up", "down", "set", "unbind", "close"}
    /\ Nobody \notin Callers \cup Peers
    /\ TunReader \notin Workers \cup Sockets /\ Workers \cap Sockets = {}
    /\ Shared \cap (Senders \cup Receivers \cup Timers) = {}
    /\ IsFiniteSet(Peers) /\ IsFiniteSet(Workers) /\ IsFiniteSet(Sockets)
    /\ QueueSize \in Nat \ {0}

VARIABLES
    state,          \* the device state, stored before the device itself changes
    stateLock,      \* holder of state.Mutex
    ipcLock,        \* holder of ipcMutex
    netLock,        \* writer of the net lock
    peersLock,      \* writer of the peers lock
    peersReaders,   \* its readers
    peerLock,       \* peer -> holder of its state lock
    call,           \* caller -> operation, where in it, peers left, peer in hand
    bindOpen,       \* the bind has open sockets
    tunClosed,      \* the TUN device is closed
    phase,          \* peer -> absent, created, configured or removed
    isRunning,      \* peer -> started
    inbound,        \* peer -> queue of packets and the nil that ends it
    outbound,       \* peer -> likewise
    at,             \* routine -> where it is, off when it does not run
    target,         \* shared routine -> the peer in hand
    encryptionRefs, \* references to the encryption queue
    inputRefs,      \* references to the decryption and to the handshake queue
    initialRefs,    \* the device still holds the references of its own
    closedQueues,   \* "encryption", and "input" for the other two, when closed
    closeSpawned,   \* the TUN reader's "go device.Close()" has yet to begin
    closed          \* device.closed is closed: Close is complete

lockVars  == <<stateLock, ipcLock, netLock, peersLock, peersReaders, peerLock>>
queueVars == <<inbound, outbound>>
refVars   == <<encryptionRefs, inputRefs, initialRefs, closedQueues>>
peerVars  == <<phase, isRunning>>
closeVars == <<closeSpawned, closed>>

vars == <<state, lockVars, call, bindOpen, tunClosed, peerVars, queueVars, at, target,
          refVars, closeVars>>

Packet == "packet"
Nil    == "nil"

Idle == [op |-> "none", pc |-> "idle", todo |-> {}, peer |-> Nobody]

PeerOf(r) == IF r \in Shared THEN target[r] ELSE r[1]

Present == {p \in Peers : phase[p] \in {"created", "configured"}}

InitialRefs == Cardinality(Workers) + 2   \* the device, the workers, the TUN reader

Init ==
    /\ state = "down"
    /\ stateLock = Nobody
    /\ ipcLock = Nobody
    /\ netLock = Nobody
    /\ peersLock = Nobody
    /\ peersReaders = {}
    /\ peerLock = [p \in Peers |-> Nobody]
    /\ call = [c \in Callers |-> Idle]
    /\ bindOpen = FALSE
    /\ tunClosed = FALSE
    /\ phase = [p \in Peers |-> "absent"]
    /\ isRunning = [p \in Peers |-> FALSE]
    /\ inbound = [p \in Peers |-> <<>>]
    /\ outbound = [p \in Peers |-> <<>>]
    /\ at = [r \in Routines |->
               IF r \in {TunReader} \cup Workers \cup Timers THEN "rest" ELSE "off"]
    /\ target = [r \in Shared |-> Nobody]
    /\ encryptionRefs = InitialRefs
    /\ inputRefs = 1
    /\ initialRefs = TRUE
    /\ closedQueues = {}
    /\ closeSpawned = FALSE
    /\ closed = FALSE

-----------------------------------------------------------------------------
(***************************************************************************)
(* Calls.  A caller that waits for the first lock of its operation has     *)
(* done nothing yet: the call and the lock are one step.  A caller that    *)
(* returns releases what it holds.                                         *)
(***************************************************************************)
Goto(c, l) == call' = [call EXCEPT ![c].pc = l]

Freed(lock, c) == IF lock = c THEN Nobody ELSE lock

Return(c) ==
    /\ call' = [call EXCEPT ![c] = Idle]
    /\ stateLock' = Freed(stateLock, c)
    /\ ipcLock' = Freed(ipcLock, c)

Calls(c, op) ==
    /\ op \in Operations
    /\ call[c] = Idle

Begin(c, op, l) == call' = [call EXCEPT ![c].op = op, ![c].pc = l]

\* Mutant: Down does not store the new state.
ChangeState_KeepsUp(c, want) ==
    /\ Calls(c, want)
    /\ stateLock = Nobody
    /\ state \notin {"closed", want}
    /\ state' = IF want = "up" THEN "up" ELSE state
    /\ stateLock' = c
    /\ Begin(c, want, "net")
    /\ UNCHANGED <<ipcLock, netLock, peersLock, peersReaders, peerLock, bindOpen, tunClosed,
                   peerVars, queueVars, at, target, refVars, closeVars>>

\* changeState up to upLocked or downLocked; it returns at once from a closed
\* device and from one that is as it should be.
ChangeState(c, want) ==
    /\ Calls(c, want)
    /\ stateLock = Nobody
    /\ state \notin {"closed", want}
    /\ state' = want
    /\ stateLock' = c
    /\ Begin(c, want, "net")
    /\ UNCHANGED <<ipcLock, netLock, peersLock, peersReaders, peerLock, bindOpen, tunClosed,
                   peerVars, queueVars, at, target, refVars, closeVars>>

\* Close, by a caller or by the goroutine of the TUN reader.
LockState(c) ==
    /\ \/ Calls(c, "close") /\ UNCHANGED closeSpawned
       \/ call[c] = Idle /\ closeSpawned /\ closeSpawned' = FALSE
    /\ stateLock = Nobody
    /\ stateLock' = c
    /\ Begin(c, "close", "ipc")
    /\ UNCHANGED <<state, ipcLock, netLock, peersLock, peersReaders, peerLock, bindOpen,
                   tunClosed, peerVars, queueVars, at, target, refVars, closed>>

SetBegins(c) ==
    /\ Calls(c, "set")
    /\ ipcLock = Nobody
    /\ ipcLock' = c
    /\ Begin(c, "set", "line")
    /\ UNCHANGED <<state, stateLock, netLock, peersLock, peersReaders, peerLock, bindOpen,
                   tunClosed, peerVars, queueVars, at, target, refVars, closeVars>>

\* upLocked waits for a set operation to end before it starts the peers.
UpLocksIpc(c) ==
    /\ call[c].pc = "ipc"
    /\ call[c].op = "up"
    /\ ipcLock = Nobody
    /\ ipcLock' = c
    /\ Goto(c, "peers")
    /\ UNCHANGED <<state, stateLock, netLock, peersLock, peersReaders, peerLock, bindOpen,
                   tunClosed, peerVars, queueVars, at, target, refVars, closeVars>>

\* Mutant: Close does not wait for a set operation to end.
CloseBegins_NoIpcMutex(c) ==
    /\ call[c].pc = "ipc"
    /\ call[c].op = "close"
    /\ IF state = "closed"
       THEN Return(c) /\ UNCHANGED <<state, tunClosed>>
       ELSE /\ state' = "closed"
            /\ tunClosed' = TRUE
            /\ Goto(c, "net")
            /\ UNCHANGED <<stateLock, ipcLock>>
    /\ UNCHANGED <<netLock, peersLock, peersReaders, peerLock, bindOpen,
                   peerVars, queueVars, at, target, refVars, closeVars>>

\* Mutant: Close does not return early from a device that is closed.
CloseBegins_Again(c) ==
    /\ call[c].pc = "ipc"
    /\ call[c].op = "close"
    /\ ipcLock = Nobody
    /\ state' = "closed"
    /\ tunClosed' = TRUE
    /\ ipcLock' = c
    /\ Goto(c, "net")
    /\ UNCHANGED <<stateLock, netLock, peersLock, peersReaders, peerLock, bindOpen,
                   peerVars, queueVars, at, target, refVars, closeVars>>

\* Close: nothing on a device that is closed; no set operation runs beside the rest.
CloseBegins(c) ==
    /\ call[c].pc = "ipc"
    /\ call[c].op = "close"
    /\ ipcLock = Nobody
    /\ IF state = "closed"
       THEN Return(c) /\ UNCHANGED <<state, tunClosed>>
       ELSE /\ state' = "closed"
            /\ tunClosed' = TRUE
            /\ ipcLock' = c
            /\ Goto(c, "net")
            /\ UNCHANGED stateLock
    /\ UNCHANGED <<netLock, peersLock, peersReaders, peerLock, bindOpen,
                   peerVars, queueVars, at, target, refVars, closeVars>>

-----------------------------------------------------------------------------
(***************************************************************************)
(* BindClose, and BindUpdate of upLocked and of a listen_port line.        *)
(***************************************************************************)
Updates(c) == call[c].op \in {"up", "set"}

\* Lock, and closeBindLocked up to the wait for the receive routines.
LockNet(c) ==
    /\ netLock = Nobody
    /\ netLock' = c
    /\ bindOpen' = FALSE
    /\ \/ call[c].pc = "net" /\ Goto(c, "drain")
       \/ Calls(c, "unbind") /\ Begin(c, "unbind", "drain")
    /\ UNCHANGED <<state, stateLock, ipcLock, peersLock, peersReaders, peerLock, tunClosed,
                   peerVars, queueVars, at, target, refVars, closeVars>>

\* What follows a failed BindUpdate: Up brings the device down again, a set
\* operation returns the error.
BindFailed(c) ==
    /\ netLock' = Nobody
    /\ IF call[c].op = "up"
       THEN /\ state' = "down"
            /\ call' = [call EXCEPT ![c].op = "down", ![c].pc = "net"]
            /\ UNCHANGED <<stateLock, ipcLock>>
       ELSE Return(c) /\ UNCHANGED state

\* Mutant: BindUpdate opens the sockets whatever the state of the device.
BindDrained_IgnoresState(c) ==
    /\ call[c].pc = "drain"
    /\ \A s \in Sockets : at[s] = "off"
    /\ IF Updates(c)
       THEN Goto(c, "open") /\ UNCHANGED <<stateLock, ipcLock, netLock>>
       ELSE /\ netLock' = Nobody
            /\ IF call[c].op = "unbind"
               THEN Return(c)
               ELSE Goto(c, "peers") /\ UNCHANGED <<stateLock, ipcLock>>
    /\ UNCHANGED <<state, peersLock, peersReaders, peerLock, bindOpen, tunClosed,
                   peerVars, queueVars, at, target, refVars, closeVars>>

\* The receive routines are gone.
BindDrained(c) ==
    /\ call[c].pc = "drain"
    /\ \A s \in Sockets : at[s] = "off"
    /\ \/ /\ Updates(c)
          /\ BindFailed(c)                             \* bind.Close returned an error
       \/ /\ Updates(c)
          /\ state = "up"
          /\ Goto(c, "open")
          /\ UNCHANGED <<state, stateLock, ipcLock, netLock>>
       \/ /\ Updates(c) => call[c].op = "set" /\ state # "up"
          /\ netLock' = Nobody
          /\ IF call[c].op = "unbind"
             THEN Return(c)
             ELSE /\ Goto(c, IF call[c].op = "set" THEN "line" ELSE "peers")
                  /\ UNCHANGED <<stateLock, ipcLock>>
          /\ UNCHANGED state
    /\ UNCHANGED <<peersLock, peersReaders, peerLock, bindOpen, tunClosed,
                   peerVars, queueVars, at, target, refVars, closeVars>>

BindOpens(c) ==
    /\ call[c].pc = "open"
    /\ \/ /\ bindOpen' = TRUE
          /\ Goto(c, "mark")
          /\ UNCHANGED <<state, stateLock, ipcLock, netLock>>
       \/ /\ BindFailed(c)
          /\ UNCHANGED bindOpen
    /\ UNCHANGED <<peersLock, peersReaders, peerLock, tunClosed,
                   peerVars, queueVars, at, target, refVars, closeVars>>

\* SetMark fails with the sockets open, or the routines start once the peers,
\* whose source addresses are cleared, can be read.
BindUpdated(c) ==
    /\ call[c].pc = "mark"
    /\ \/ /\ BindFailed(c)
          /\ UNCHANGED <<at, inputRefs>>
       \/ /\ peersLock = Nobody
          /\ at' = [r \in Routines |-> IF r \in Sockets THEN "rest" ELSE at[r]]
          /\ inputRefs' = inputRefs + Cardinality(Sockets)
          /\ netLock' = Nobody
          /\ Goto(c, IF call[c].op = "up" THEN "ipc" ELSE "line")
          /\ UNCHANGED <<state, stateLock, ipcLock>>
    /\ UNCHANGED <<peersLock, peersReaders, peerLock, bindOpen, tunClosed, peerVars,
                   queueVars, target, encryptionRefs, initialRefs, closedQueues, closeVars>>

-----------------------------------------------------------------------------
(***************************************************************************)
(* Starting and stopping peers.  "loop" is the loop over todo: Up starts,  *)
(* the others stop, and remove when they hold the peers lock for writing.  *)
(***************************************************************************)
ReadPeers(c) ==
    /\ call[c].pc = "peers"
    /\ peersLock = Nobody
    /\ peersReaders' = peersReaders \cup {c}
    /\ call' = [call EXCEPT ![c].pc = "loop", ![c].todo = Present]
    /\ UNCHANGED <<state, stateLock, ipcLock, netLock, peersLock, peerLock, bindOpen,
                   tunClosed, peerVars, queueVars, at, target, refVars, closeVars>>

\* RemovePeer for one peer, RemoveAllPeers for all of them.
WritePeers(c) ==
    /\ call[c].pc = "remove"
    /\ peersLock = Nobody /\ peersReaders = {}
    /\ peersLock' = c
    /\ Goto(c, "loop")
    /\ UNCHANGED <<state, stateLock, ipcLock, netLock, peersReaders, peerLock, bindOpen,
                   tunClosed, peerVars, queueVars, at, target, refVars, closeVars>>

\* The peer may run: Start, for Up and for handlePostConfig.
Starts(p) == state # "closed" /\ ~isRunning[p]

Start(p) ==
    IF Starts(p)
    THEN /\ isRunning' = [isRunning EXCEPT ![p] = TRUE]
         /\ encryptionRefs' = encryptionRefs + 1
         /\ inbound' = [inbound EXCEPT ![p] = <<>>]
         /\ outbound' = [outbound EXCEPT ![p] = <<>>]
         /\ at' = [at EXCEPT ![Sender(p)] = "rest", ![Receiver(p)] = "rest"]
    ELSE UNCHANGED <<isRunning, encryptionRefs, queueVars, at>>

\* upLocked: start the peer, then send it an initiation.
UpStarts(c, p) ==
    /\ call[c].pc = "loop"
    /\ call[c].op = "up"
    /\ p \in call[c].todo
    /\ peerLock[p] = Nobody
    /\ Start(p)
    /\ call' = [call EXCEPT ![c].pc = "hello", ![c].todo = @ \ {p}, ![c].peer = p]
    /\ UNCHANGED <<state, lockVars, bindOpen, tunClosed, phase, target, inputRefs,
                   initialRefs, closedQueues, closeVars>>

\* SendHandshakeInitiation reads the net lock.
CallerHello(c) ==
    /\ call[c].pc = "hello"
    /\ netLock = Nobody
    /\ Goto(c, IF call[c].op = "up" THEN "loop" ELSE "test")
    /\ UNCHANGED <<state, lockVars, bindOpen, tunClosed, peerVars, queueVars, at, target,
                   refVars, closeVars>>

Gone(c, p) == IF peersLock = c THEN [phase EXCEPT ![p] = "removed"] ELSE phase

\* Stop, up to the swap of isRunning.
StopBegins(c, p) ==
    /\ call[c].pc = "loop"
    /\ call[c].op # "up"
    /\ p \in call[c].todo
    /\ peerLock[p] = Nobody
    /\ IF isRunning[p]
       THEN /\ isRunning' = [isRunning EXCEPT ![p] = FALSE]
            /\ peerLock' = [peerLock EXCEPT ![p] = c]
            /\ call' = [call EXCEPT ![c].pc = "timers", ![c].peer = p]
            /\ UNCHANGED phase
       ELSE /\ phase' = Gone(c, p)
            /\ call' = [call EXCEPT ![c].todo = @ \ {p}]
            /\ UNCHANGED <<isRunning, peerLock>>
    /\ UNCHANGED <<state, stateLock, ipcLock, netLock, peersLock, peersReaders, bindOpen,
                   tunClosed, queueVars, at, target, refVars, closeVars>>

\* timersStop waits for a callback that is running.
StopTimers(c) ==
    /\ call[c].pc = "timers"
    /\ at[Timer(call[c].peer)] = "rest"
    /\ Goto(c, "nilIn")
    /\ UNCHANGED <<state, lockVars, bindOpen, tunClosed, peerVars, queueVars, at, target,
                   refVars, closeVars>>

StopInbound(c) ==
    LET p == call[c].peer
    IN /\ call[c].pc = "nilIn"
       /\ Len(inbound[p]) < QueueSize
       /\ inbound' = [inbound EXCEPT ![p] = Append(@, Nil)]
       /\ Goto(c, "nilOut")
       /\ UNCHANGED <<state, lockVars, bindOpen, tunClosed, peerVars, outbound, at, target,
                      refVars, closeVars>>

StopOutbound(c) ==
    LET p == call[c].peer
    IN /\ call[c].pc = "nilOut"
       /\ Len(outbound[p]) < QueueSize
       /\ outbound' = [outbound EXCEPT ![p] = Append(@, Nil)]
       /\ Goto(c, "join")
       /\ UNCHANGED <<state, lockVars, bindOpen, tunClosed, peerVars, inbound, at, target,
                      refVars, closeVars>>

\* Mutant: Stop does not wait for the two routines.
StopJoins_NoWait(c) ==
    LET p == call[c].peer
    IN /\ call[c].pc = "join"
       /\ encryptionRefs' = encryptionRefs - 1
       /\ peerLock' = [peerLock EXCEPT ![p] = Nobody]
       /\ phase' = Gone(c, p)
       /\ call' = [call EXCEPT ![c].pc = "loop", ![c].todo = @ \ {p}, ![c].peer = Nobody]
       /\ UNCHANGED <<state, stateLock, ipcLock, netLock, peersLock, peersReaders, bindOpen,
                      tunClosed, isRunning, queueVars, at, target, inputRefs, initialRefs,
                      closedQueues, closeVars>>

StopJoins(c) ==
    LET p == call[c].peer
    IN /\ call[c].pc = "join"
       /\ at[Sender(p)] = "off" /\ at[Receiver(p)] = "off"
       /\ encryptionRefs' = encryptionRefs - 1
       /\ peerLock' = [peerLock EXCEPT ![p] = Nobody]
       /\ phase' = Gone(c, p)
       /\ call' = [call EXCEPT ![c].pc = "loop", ![c].todo = @ \ {p}, ![c].peer = Nobody]
       /\ UNCHANGED <<state, stateLock, ipcLock, netLock, peersLock, peersReaders, bindOpen,
                      tunClosed, isRunning, queueVars, at, target, inputRefs, initialRefs,
                      closedQueues, closeVars>>

\* The loop is through: unlock the peers and go on.
LoopEnds(c) ==
    /\ call[c].pc = "loop"
    /\ call[c].todo = {}
    /\ peersReaders' = peersReaders \ {c}
    /\ peersLock' = Freed(peersLock, c)
    /\ IF call[c].op \in {"up", "down"}
       THEN Return(c)
       ELSE /\ call' = [call EXCEPT
                          ![c].pc = CASE call[c].op \in {"set", "setPeer"} -> "line"
                                      [] c \in peersReaders -> "remove"
                                      [] OTHER -> "refs",
                          ![c].todo = IF c \in peersReaders THEN Present ELSE {}]
            /\ UNCHANGED <<stateLock, ipcLock>>
    /\ UNCHANGED <<state, netLock, peerLock, bindOpen, tunClosed, peerVars, queueVars, at,
                   target, refVars, closeVars>>

\* Close gives up the device's own references.
DropReferences(c) ==
    /\ call[c].pc = "refs"
    /\ encryptionRefs' = encryptionRefs - 1
    /\ inputRefs' = inputRefs - 1
    /\ initialRefs' = FALSE
    /\ Goto(c, "tun")
    /\ UNCHANGED <<state, lockVars, bindOpen, tunClosed, peerVars, queueVars, at, target,
                   closedQueues, closeVars>>

\* Mutant: Close does not wait for the TUN reader.
CloseEnds_NoWait(c) ==
    /\ call[c].pc = "tun"
    /\ closed' = TRUE
    /\ Return(c)
    /\ UNCHANGED <<state, netLock, peersLock, peersReaders, peerLock, bindOpen, tunClosed,
                   peerVars, queueVars, at, target, refVars, closeSpawned>>

\* state.stopping.Wait and the end of Close.
CloseEnds(c) ==
    /\ call[c].pc = "tun"
    /\ at[TunReader] = "off"
    /\ closed' = TRUE
    /\ Return(c)
    /\ UNCHANGED <<state, netLock, peersLock, peersReaders, peerLock, bindOpen, tunClosed,
                   peerVars, queueVars, at, target, refVars, closeSpawned>>

-----------------------------------------------------------------------------
(***************************************************************************)
(* IpcSetOperation: one line after the other until the end or an error,    *)
(* lines of the device ("set") before those of peers ("setPeer").          *)
(***************************************************************************)
\* public_key of a peer that is not there yet: NewPeer.
CreatePeer(c, p) ==
    /\ call[c].pc = "line"
    /\ state # "closed"
    /\ phase[p] = "absent"
    /\ peersLock = Nobody /\ peersReaders = {}
    /\ phase' = [phase EXCEPT ![p] = "created"]
    /\ call' = [call EXCEPT ![c].op = "setPeer", ![c].pc = "peer", ![c].peer = p]
    /\ UNCHANGED <<state, lockVars, bindOpen, tunClosed, isRunning, queueVars, at, target,
                   refVars, closeVars>>

\* public_key of a peer that is: LookupPeer.
SelectPeer(c, p) ==
    /\ call[c].pc = "line"
    /\ p \in Present
    /\ peersLock = Nobody
    /\ call' = [call EXCEPT ![c].op = "setPeer", ![c].pc = "peer", ![c].peer = p]
    /\ UNCHANGED <<state, lockVars, bindOpen, tunClosed, peerVars, queueVars, at, target,
                   refVars, closeVars>>

\* A remove or update_only line.
RemoveLine(c) ==
    /\ call[c].pc = "peer"
    /\ call' = [call EXCEPT ![c].pc = "remove", ![c].todo = {call[c].peer}, ![c].peer = Nobody]
    /\ UNCHANGED <<state, lockVars, bindOpen, tunClosed, peerVars, queueVars, at, target,
                   refVars, closeVars>>

ReplacePeersLine(c) ==
    /\ call[c].op = "set"
    /\ call[c].pc = "line"
    /\ call' = [call EXCEPT ![c].pc = "remove", ![c].todo = Present]
    /\ UNCHANGED <<state, lockVars, bindOpen, tunClosed, peerVars, queueVars, at, target,
                   refVars, closeVars>>

ListenPortLine(c) ==
    /\ call[c].op = "set"
    /\ call[c].pc = "line"
    /\ Goto(c, "net")
    /\ UNCHANGED <<state, lockVars, bindOpen, tunClosed, peerVars, queueVars, at, target,
                   refVars, closeVars>>

\* handlePostConfig reads the device state without its lock.
PostConfig(c) ==
    LET p == call[c].peer
    IN /\ call[c].pc = "peer"
       /\ phase' = [phase EXCEPT ![p] = "configured"]
       /\ call' = IF state = "up"
                  THEN [call EXCEPT ![c].pc = "start"]
                  ELSE [call EXCEPT ![c].pc = "line", ![c].peer = Nobody]
       /\ UNCHANGED <<state, lockVars, bindOpen, tunClosed, isRunning, queueVars, at,
                      target, refVars, closeVars>>

SetStarts(c) ==
    LET p == call[c].peer
    IN /\ call[c].pc = "start"
       /\ peerLock[p] = Nobody
       /\ Start(p)
       /\ Goto(c, "hello")
       /\ UNCHANGED <<state, lockVars, bindOpen, tunClosed, phase, target, inputRefs,
                      initialRefs, closedQueues, closeVars>>

SetTests(c) ==
    /\ call[c].pc = "test"
    /\ call' = IF state = "up"
               THEN [call EXCEPT ![c].pc = "staged"]
               ELSE [call EXCEPT ![c].pc = "line", ![c].peer = Nobody]
    /\ UNCHANGED <<state, lockVars, bindOpen, tunClosed, peerVars, queueVars, at, target,
                   refVars, closeVars>>

\* SendStagedPackets: a container goes to the outbound queue of a peer that
\* runs, and from there to the encryption queue, until none is left.
SetStaged(c) ==
    LET p == call[c].peer
    IN /\ call[c].pc = "staged"
       /\ \/ /\ isRunning[p]
             /\ Goto(c, "push")
          \/ call' = [call EXCEPT ![c].pc = "line", ![c].peer = Nobody]
       /\ UNCHANGED <<state, lockVars, bindOpen, tunClosed, peerVars, queueVars, at, target,
                      refVars, closeVars>>

SetPushes(c) ==
    LET p == call[c].peer
    IN /\ call[c].pc = "push"
       /\ Len(outbound[p]) < QueueSize
       /\ outbound' = [outbound EXCEPT ![p] = Append(@, Packet)]
       /\ Goto(c, "seal")
       /\ UNCHANGED <<state, lockVars, bindOpen, tunClosed, peerVars, inbound, at, target,
                      refVars, closeVars>>

SetSeals(c) ==
    /\ call[c].pc = "seal"
    /\ Goto(c, "staged")
    /\ UNCHANGED <<state, lockVars, bindOpen, tunClosed, peerVars, queueVars, at, target,
                   refVars, closeVars>>

\* The end of the configuration, or a line that is refused: the peer it was
\* about is left as it is, without handlePostConfig.
SetReturns(c) ==
    /\ call[c].pc \in {"line", "peer"}
    /\ Return(c)
    /\ UNCHANGED <<state, netLock, peersLock, peersReaders, peerLock, bindOpen, tunClosed,
                   peerVars, queueVars, at, target, refVars, closeVars>>

-----------------------------------------------------------------------------
(***************************************************************************)
(* The routines.                                                           *)
(***************************************************************************)
Moves(r, l) == at' = [at EXCEPT ![r] = l]

Rests(r) ==
    /\ Moves(r, "rest")
    /\ target' = IF r \in Shared THEN [target EXCEPT ![r] = Nobody] ELSE target

Takes(r, p, l) ==
    /\ Moves(r, l)
    /\ target' = [target EXCEPT ![r] = p]

controlVars == <<state, lockVars, bindOpen, tunClosed, peerVars, closeVars>>

\* RoutineReceiveIncoming: a packet for a peer that runs ...
Receive(s, p) ==
    /\ at[s] = "rest"
    /\ bindOpen
    /\ isRunning[p]
    /\ Takes(s, p, "deliver")
    /\ UNCHANGED <<controlVars, call, queueVars, refVars>>

\* ... goes to its inbound queue, and to the decryption queue.
Deliver(s) ==
    LET p == target[s]
    IN /\ at[s] = "deliver"
       /\ Len(inbound[p]) < QueueSize
       /\ inbound' = [inbound EXCEPT ![p] = Append(@, Packet)]
       /\ Rests(s)
       /\ UNCHANGED <<controlVars, call, outbound, refVars>>

\* The bind is closed, or the socket failed for good or ten times in a row.
ReceiveEnds(s) ==
    /\ at[s] = "rest"
    /\ Moves(s, "off")
    /\ inputRefs' = inputRefs - 1
    /\ UNCHANGED <<controlVars, call, queueVars, target, encryptionRefs, initialRefs,
                   closedQueues>>

\* How a stager begins: with SendStagedPackets, once the device is up, or with
\* SendHandshakeInitiation or another SendBuffers.
Begins == (IF state = "up" THEN {"staged"} ELSE {}) \cup {"hello"}

\* RoutineReadFromTUN: a packet for a peer that runs.
TunReads(p) ==
    /\ at[TunReader] = "rest"
    /\ isRunning[p]
    /\ state = "up"
    /\ Takes(TunReader, p, "staged")
    /\ UNCHANGED <<controlVars, call, queueVars, refVars>>

\* Mutant: the TUN reader keeps its reference to the encryption queue.
TunEnds_KeepsReference ==
    /\ at[TunReader] = "rest"
    /\ Moves(TunReader, "off")
    /\ closeSpawned' = (closeSpawned \/ state # "closed")
    /\ UNCHANGED <<state, lockVars, call, bindOpen, tunClosed, peerVars, closed, queueVars,
                   target, refVars>>

\* A read error ends it, and closes the device unless it is closing.
TunEnds ==
    /\ at[TunReader] = "rest"
    /\ Moves(TunReader, "off")
    /\ encryptionRefs' = encryptionRefs - 1
    /\ closeSpawned' = (closeSpawned \/ state # "closed")
    /\ UNCHANGED <<state, lockVars, call, bindOpen, tunClosed, peerVars, closed, queueVars,
                   target, inputRefs, initialRefs, closedQueues>>

\* RoutineHandshake: a message of a peer's, until the queue is closed and empty.
\* Nobody waits for a worker: what it sends without staging is left out.
WorkerTakes(w, p) ==
    /\ at[w] = "rest"
    /\ p \in Present
    /\ state = "up"
    /\ Takes(w, p, "staged")
    /\ UNCHANGED <<controlVars, call, queueVars, refVars>>

WorkerEnds(w) ==
    /\ at[w] = "rest"
    /\ "input" \in closedQueues
    /\ Moves(w, "off")
    /\ encryptionRefs' = encryptionRefs - 1
    /\ UNCHANGED <<controlVars, call, queueVars, target, inputRefs, initialRefs, closedQueues>>

\* A timer that is pending expires.  Which timers are pending is not kept: one
\* that a stale timersActive left behind may fire when the peer is stopped.
TimerFires(p) ==
    /\ at[Timer(p)] = "rest"
    /\ p \in Present
    /\ \E l \in Begins : Moves(Timer(p), l)
    /\ UNCHANGED <<controlVars, call, queueVars, target, refVars>>

\* RoutineSequentialReceiver; nil ends it.
ReceiverTakes(p) ==
    /\ at[Receiver(p)] = "rest"
    /\ inbound[p] # <<>>
    /\ inbound' = [inbound EXCEPT ![p] = Tail(@)]
    /\ \E l \in IF Head(inbound[p]) = Nil THEN {"off"} ELSE Begins \cup {"rest"} :
          Moves(Receiver(p), l)
    /\ UNCHANGED <<controlVars, call, outbound, target, refVars>>

\* RoutineSequentialSender; a packet of a peer that was stopped is dropped.
SenderTakes(p) ==
    /\ at[Sender(p)] = "rest"
    /\ outbound[p] # <<>>
    /\ outbound' = [outbound EXCEPT ![p] = Tail(@)]
    /\ Moves(Sender(p), IF Head(outbound[p]) = Nil THEN "off"
                        ELSE IF isRunning[p] THEN "hello" ELSE "rest")
    /\ UNCHANGED <<controlVars, call, inbound, target, refVars>>

\* The next container of the staged queue; none is left, or there is no key.
Staged(r) ==
    /\ at[r] = "staged"
    /\ isRunning[PeerOf(r)]
    /\ Moves(r, "push")
    /\ UNCHANGED <<controlVars, call, queueVars, target, refVars>>

StagedEmpty(r) ==
    /\ at[r] = "staged"
    /\ \/ r \notin Workers /\ Moves(r, "hello") /\ UNCHANGED target
       \/ Rests(r)
    /\ UNCHANGED <<controlVars, call, queueVars, refVars>>

Pushes(r) ==
    LET p == PeerOf(r)
    IN /\ at[r] = "push"
       /\ Len(outbound[p]) < QueueSize
       /\ outbound' = [outbound EXCEPT ![p] = Append(@, Packet)]
       /\ Moves(r, "seal")
       /\ UNCHANGED <<controlVars, call, inbound, target, refVars>>

Seals(r) ==
    /\ at[r] = "seal"
    /\ Moves(r, "staged")
    /\ UNCHANGED <<controlVars, call, queueVars, target, refVars>>

\* SendBuffers reads the net lock.
Hello(r) ==
    /\ at[r] = "hello"
    /\ netLock = Nobody
    /\ Rests(r)
    /\ UNCHANGED <<controlVars, call, queueVars, refVars>>

\* The goroutine that closes a queue whose last reference is gone.
QueueCloses(q) ==
    /\ q \notin closedQueues
    /\ (IF q = "encryption" THEN encryptionRefs ELSE inputRefs) = 0
    /\ closedQueues' = closedQueues \cup {q}
    /\ UNCHANGED <<controlVars, call, queueVars, at, target, encryptionRefs, inputRefs,
                   initialRefs>>

-----------------------------------------------------------------------------
Binds(c) == LockNet(c) \/ BindDrained(c) \/ BindOpens(c) \/ BindUpdated(c)

Stops(c) ==
    \/ \E p \in Peers : StopBegins(c, p)
    \/ StopTimers(c) \/ StopInbound(c) \/ StopOutbound(c) \/ StopJoins(c)

Loops(c) ==
    \/ ReadPeers(c) \/ WritePeers(c) \/ LoopEnds(c)
    \/ \E p \in Peers : UpStarts(c, p)
    \/ CallerHello(c)
    \/ Stops(c)

Sets(c) ==
    \/ \E p \in Peers : CreatePeer(c, p) \/ SelectPeer(c, p)
    \/ RemoveLine(c) \/ ReplacePeersLine(c) \/ ListenPortLine(c)
    \/ PostConfig(c) \/ SetStarts(c) \/ SetTests(c) \/ SetStaged(c) \/ SetPushes(c)
    \/ SetSeals(c)
    \/ SetReturns(c)

Closes(c) == CloseBegins(c) \/ DropReferences(c) \/ CloseEnds(c)

Locks(c) ==
    \/ ChangeState(c, "up") \/ ChangeState(c, "down")
    \/ LockState(c) \/ SetBegins(c) \/ UpLocksIpc(c)

Control(c) == Locks(c) \/ Binds(c) \/ Loops(c) \/ Sets(c) \/ Closes(c)

Stages(r) ==
    Staged(r) \/ StagedEmpty(r) \/ Pushes(r) \/ Seals(r)

Next ==
    \/ \E c \in Callers : Control(c)
    \/ \E s \in Sockets : (\E p \in Peers : Receive(s, p)) \/ Deliver(s) \/ ReceiveEnds(s)
    \/ \E p \in Peers :
          TunReads(p) \/ TimerFires(p) \/ ReceiverTakes(p) \/ SenderTakes(p)
    \/ TunEnds
    \/ \E w \in Workers : (\E p \in Peers : WorkerTakes(w, p)) \/ WorkerEnds(w)
    \/ \E r \in Stagers : Stages(r)
    \/ \E r \in (Stagers \ Workers) \cup Senders : Hello(r)
    \/ \E q \in {"encryption", "input"} : QueueCloses(q)

Spec == Init /\ [][Next]_vars

(***************************************************************************)
(* Goroutines that can go on do; a receive function of a closed bind       *)
(* returns net.ErrClosed; a timer that is being stopped does not fire for  *)
(* ever.  Nothing makes anybody call, and no packet has to arrive.         *)
(***************************************************************************)
StagerRuns(r) == Stages(r) \/ (r \notin Workers /\ Hello(r))

Fairness ==
    /\ \A c \in Callers : WF_vars(call[c] # Idle /\ Control(c)) /\ SF_vars(StopTimers(c))
    /\ \A s \in Sockets : WF_vars(Deliver(s) \/ (~bindOpen /\ ReceiveEnds(s)))
    /\ \A p \in Peers :
          /\ WF_vars(SenderTakes(p) \/ Hello(Sender(p)))
          /\ WF_vars(ReceiverTakes(p) \/ StagerRuns(Receiver(p)))
    /\ \A r \in Stagers \ Receivers : WF_vars(StagerRuns(r))

FairSpec == Spec /\ Fairness

\* What the end of the device-wide routines needs: the workers, and the
\* goroutines that wait for the last reference of a queue.
ClosingFairness ==
    /\ \A w \in Workers : WF_vars(Stages(w) \/ WorkerEnds(w))
    /\ \A q \in {"encryption", "input"} : WF_vars(QueueCloses(q))

ClosingSpec == Spec /\ ClosingFairness

-----------------------------------------------------------------------------
CallOps == {"none", "up", "down", "set", "setPeer", "unbind", "close"}

CallPlaces ==
    {"idle", "ipc", "net", "drain", "open", "mark", "peers", "remove", "loop", "hello",
     "timers", "nilIn", "nilOut", "join", "refs", "tun", "line", "peer", "start", "test",
     "staged", "push", "seal"}

CallTypes ==
    [op : CallOps, pc : CallPlaces, todo : SUBSET Peers, peer : Peers \cup {Nobody}]

LockTypes ==
    /\ stateLock \in Callers \cup {Nobody}
    /\ ipcLock \in Callers \cup {Nobody}
    /\ netLock \in Callers \cup {Nobody}
    /\ peersLock \in Callers \cup {Nobody}
    /\ peersReaders \subseteq Callers
    /\ peerLock \in [Peers -> Callers \cup {Nobody}]

\* Shapes of the state, and no reference count below zero: Close, which may be called
\* twice and by two goroutines, gives up the device's references once.
TypeOK ==
    /\ state \in {"down", "up", "closed"}
    /\ LockTypes
    /\ call \in [Callers -> CallTypes]
    /\ bindOpen \in BOOLEAN
    /\ tunClosed \in BOOLEAN
    /\ phase \in [Peers -> {"absent", "created", "configured", "removed"}]
    /\ isRunning \in [Peers -> BOOLEAN]
    /\ inbound \in [Peers -> Seq({Packet, Nil})]
    /\ outbound \in [Peers -> Seq({Packet, Nil})]
    /\ at \in [Routines -> {"off", "rest", "deliver", "staged", "push", "seal", "hello"}]
    /\ target \in [Shared -> Peers \cup {Nobody}]
    /\ encryptionRefs \in Nat
    /\ inputRefs \in Nat
    /\ initialRefs \in BOOLEAN
    /\ closedQueues \subseteq {"encryption", "input"}
    /\ closeSpawned \in BOOLEAN
    /\ closed \in BOOLEAN

\* Nobody sends on a closed channel, which would panic: whoever has a container
\* for the encryption queue, or a packet for the decryption or handshake queue,
\* is covered by a reference, its own, its peer's or the device's.
NoSendOnClosedQueue ==
    /\ (\E r \in Stagers : at[r] = "seal") \/ (\E c \in Callers : call[c].pc = "seal")
          => "encryption" \notin closedQueues
    /\ (\E s \in Sockets : at[s] # "off") => "input" \notin closedQueues

\* No operation is in progress.
Quiescent == \A c \in Callers : call[c] = Idle

\* Once every operation has returned, a device that is not up has no open socket
\* and nobody receiving, although BindUpdate reads the state without its lock.
DownIsSilent ==
    Quiescent /\ state # "up" => ~bindOpen /\ \A s \in Sockets : at[s] = "off"

\* Once every operation has returned, every configured peer of a device that is
\* up runs, whichever of Up and IpcSet saw the other's change first.
UpRunsPeers ==
    Quiescent /\ state = "up" => \A p \in Peers : phase[p] = "configured" => isRunning[p]

\* A peer that nobody is starting or stopping has both its routines when it runs
\* and neither when it does not, and no nil is left in its queues: the flush of
\* the next Start would dereference it.
PeersAreWhole ==
    \A p \in Peers : peerLock[p] = Nobody =>
        /\ isRunning[p] <=> at[Sender(p)] # "off"
        /\ isRunning[p] <=> at[Receiver(p)] # "off"
        /\ \A n \in 1..Len(inbound[p]) : inbound[p][n] # Nil
        /\ \A n \in 1..Len(outbound[p]) : outbound[p][n] # Nil

\* Close leaves nothing behind: no peer runs and nothing reads or receives, and
\* nobody starts a peer again.
NothingRunsAfterClose ==
    closed =>
        /\ \A p \in Peers : ~isRunning[p] /\ at[Sender(p)] = "off" /\ at[Receiver(p)] = "off"
        /\ at[TunReader] = "off"
        /\ \A s \in Sockets : at[s] = "off"

\* After Close every device-wide queue is closed, which is what ends the encryption,
\* decryption and handshake workers: whoever held a reference gives it up, although
\* some of them wait for another queue to close first.
CloseEndsTheWorkers ==
    closed ~> closedQueues = {"encryption", "input"} /\ \A w \in Workers : at[w] = "off"

\* Down comes back, as TestUpDown expects of fifty in a row.
DownReturns == \A c \in Callers : call[c].op = "down" ~> call[c] = Idle

=============================================================================
