# Vwarp: specifications

TLA+ models of Vwarp, the TLC runs that check them and the TLAPS proofs about
them. Vwarp brings up a tunnel to Cloudflare WARP, over WireGuard or over MASQUE
(CONNECT-IP in HTTP/3), and offers it as a local SOCKS/HTTP proxy. Paths below are
relative to the repository.

`PROJECT.json` lists the components, the runs, the hazards each property is
aimed at, the source lines of every definition, a mutation of the model that
breaks each property, and the theorems.

    tlc -config MasqueTunnel_safety.cfg MCMasqueTunnel
    tlapm MasqueTunnelProofs.tla

## 1. Inventory

### The parts and how they interact

`cmd/vwarp` parses flags and calls `app.RunWarp`, which picks one of: plain
WireGuard, WARP, WARP in WARP, WARP with Psiphon, or MASQUE. Each path gets an
identity (`warp`), finds an endpoint (`ipscanner`, `masque/scanner.go`), builds a
userspace network stack (`wireguard/tun/netstack`), attaches a tunnel to it and
starts a proxy on it (`wiresocks`, `proxy/pkg`).

| part | state it keeps | operations | hard behaviour |
|---|---|---|---|
| MASQUE supervisor, `app/masque_tun_adapter.go` | adapter behind a lock; atomics `connectionBroken`, `connectionFailures`, time stamps; one-slot channel `connectionDown` | forward both ways, health tick, failure monitor, recovery cycle | five goroutines over shared atomics, lossy signals, nested retries, cancellation |
| MASQUE adapter, `masque/adapter.go`, `connect_with_noize.go` | QUIC connection, IP connection, config file | create, Read, Write, Close | clean-up when one of several steps fails |
| Noize obfuscation, `masque/noize` | packet counters, phase, `enabled` flag | write, read, junk packets | flag read without a lock, random sizes at their limits |
| MASQUE scanner, `masque/scanner.go` | results, `stopChan`, `stopped` | Scan, Stop | early exit against Stop, workers and collector |
| WireGuard device, `wireguard/device/device.go`, `peer.go`, `uapi.go`, `channels.go`, `timers.go` | device state, peers, bind, queues with reference counts; five kinds of lock | Up, Down, IpcSet, BindUpdate, BindClose, Close; the packet routines | lock order, queues that close on the last reference, nil sentinels, stale reads of the state |
| WireGuard handshake, `noise-protocol.go`, `indextable.go`, `keypair.go` | handshake, index table, three keypairs | create and consume initiation and response, begin session, receive, expire | locks dropped between check and update; lost, repeated, reordered messages |
| Replay filter, `wireguard/replay` | ring of blocks | Reset, ValidateCounter | jumps past the whole ring, lazily cleared blocks |
| WaitPool, `wireguard/device/pools.go` | counter, condition variable | Get, Put | counter and signal outside the lock |
| Rate limiter and cookies, `wireguard/ratelimiter`, `cookie.go` | token buckets, collector; secrets | Allow, Init, Close; check and make MACs | blocking send under a lock, Close beside Allow |
| AllowedIPs, `allowedips.go` | trie of prefixes | Insert, Lookup, RemoveByPeer | splicing in place |
| Sockets, `wireguard/conn`, `preflightbind`, `preflight` | sockets; time of the last decoys per destination | Open, Close, Send, receive | system calls; decoys before an initiation |
| TUN and netstack, `wireguard/tun` | gVisor stack, channels, segment coalescing | Read, Write, Dial, Close | channel at Close; offload edge cases |
| IP scanner, `ipscanner` | staged pipeline, sorted result queue, address generator | Run, Enqueue, Generate | cancellation across stages, trimmed queue against a target |
| Proxy, `proxy/pkg`, `wiresocks` | one relay per connection | negotiate, relay, UDP forward | half-closed connections, shutdown |
| WARP identity, `warp` | identity file, remote registration | load, create, update license, save | crash between truncation and write; remote and local state apart |
| Start-up, `app/app.go`, `app/wg.go`, `psiphon` | what has been opened so far | modes, fallbacks, connectivity tests | what stays open when a later step fails; lossy notices |
| Configuration, `config`, `cmd` | the file on disk | load, merge, validate, export | which of flag, default and file decides |
| tun2socks, `lwip` | globals: device, stack, pipe | Start, Stop | a pipe that reads globals while they are replaced |
| `iputils`, `wireguard/tai64n`, `rwcancel`, `ipc` | none of note | random address, time stamp, sockets | |

The parts meet at few places: the supervisor uses an adapter only through `Read`,
`Write` and `Close` and gets new ones from a factory; device, handshake, replay
filter, pools and rate limiter are one process around shared queues; the scanners
return a list; the proxy sees a netstack and nothing of the tunnel under it.

### What makes each part correct

- Supervisor: at most one adapter open; a failure is repaired; nothing is
  installed after cancellation.
- Device: no send on a closed queue; up means running peers and open sockets,
  down and closed mean neither; operations come back.
- Handshake: both ends agree on keys, directions and indices; a key is derived
  once; a packet is accepted once; the index table leaks nothing.
- Replay filter: it is a sliding window. WaitPool: it is a limit, and nobody
  waits without reason.
- Rate limiter and cookies: no address gets more than its rate, nobody blocks, a
  reachable initiator gets through. AllowedIPs: longest prefix.
- TUN devices: no packet lost, doubled or left unnoticed; what offload merges is
  what it splits; the device learns whether the interface is up.
- Sockets: a failed Open leaves nothing, a Send that succeeds sent everything.
- Obfuscation: decoys before what they hide, in their number, and never after it
  was switched off.
- Proxy: both connections are closed in the end, no goroutine is left, what the
  client was told is true.
- Scanners: they end; what they try is what was asked for; the result is the best
  seen.
- Identity and adapter: a registration is not lost, and what runs is what is saved.
- Start-up and settings: the mode asked for runs, and what failed is closed.

## 2. Modules

| module | models | extends or instantiates |
|---|---|---|
| `MasqueTunnel` | the five goroutines of `maintainMasqueTunnel` | |
| `MasqueTunnelProofs` | theorems about it | `MasqueTunnel` |
| `NoiseHandshake` | two devices and the network between them | |
| `NoiseHandshakeProofs` | theorems about it | `NoiseHandshake` |
| `DeviceLifecycle` | one device: its operations, locks, queues and routines | |
| `DeviceLifecycleProofs` | theorems about it | `DeviceLifecycle` |
| `ReplayWindow` | abstract specification of a replay filter | |
| `ReplayFilter` | the ring of blocks, shown to implement it | `ReplayWindow` |
| `WaitPool` | the bounded pool | |
| `RateLimiter`, `Cookies` | a responder under load | |
| `AllowedIPs` | the routing trie | |
| `NetTun`, `NetDial` | the netstack's device and its dialling | |
| `NativeTun`, `Offload` | the Linux device: events, GRO and GSO | |
| `Tun2Socks` | the lwip instance of a mobile app | |
| `StdBind`, `ProxyBind`, `PreflightBind` | the three binds | |
| `MasqueNoize` | the obfuscation of MASQUE | |
| `ProxyServer`, `UdpAssociate`, `UdpForwarder` | the local proxy | |
| `IpGenerator`, `ScanTargets`, `ScanEngine` | the IP scanner, from range to result | |
| `MasqueScanner` | the scanner for MASQUE endpoints | |
| `Identity`, `MasqueAdapter` | registrations and their files | |
| `Startup` | `RunWarp` and its modes, Psiphon's notices | |
| `NoizeConfig`, `Settings` | presets; from flags and file to options | `Settings` extends `NoizeConfig` |
| `MCPackets`, `MCProxy`, `MCControl` | the smaller parts together, for TLC | the modules above |
| `MCPacketsProofs`, `MCWireProofs`, `MCProxyProofs`, `MCControlProofs` | theorems about those parts | `MCPackets` (the first two), `MCProxy`, `MCControl` |
| `DataLemmas` | induction over numbers, folds and recursions, quotients and products, the period of a congruential generator: what the proofs above rest on | |
| other `MC...` | symmetry sets and constants for TLC | the module of that name |

The parts in `MCPackets`, `MCProxy` and `MCControl` share no variable in the code
and none in the model. Each of the three modules instantiates its parts side by
side; the variable `part`, chosen at the start and constant from then on, says
which of them moves, and the others keep their first state. One run thereby checks
several parts, each over all of its own behaviours and not over the product. An
invariant of such a module is a conjunction of named ones of the parts, each behind
`part = ...`; mutations in `PROJECT.json` break the parts one by one. `MCPackets`
extends `WaitPool` and `MCProxy` extends `ProxyServer`, which makes their names
directly available.

### MasqueTunnel

One process per goroutine: `pc[f]` for the two forwarders, `health`, `monitor`,
`recovery`. A step is what happens between two accesses of shared state, so that
the test of `connectionBroken` and its store, the swap of the adapter and the
reset of the flag, the reset and the drain of `connectionDown` are apart as they
are in the code. `connectionDown` is a Boolean, the one slot; a send on the full
slot is dropped, as `select` with `default` does.

Time is reduced to the comparisons the code makes: `stale[f]` (no success for
`StaleConnectionThreshold`), `inCooldown` (less than `RecoveryCooldownPeriod` since
a recovery), and the monitor's windows. Counters stop at the highest threshold
they are compared with. The environment (`EnvMay`) may cancel, return and run the
deferred `Close` of `app.go`, send packets, drop the tunnel or leave it idle.
Errors are the four kinds the code tells apart; `io.EOF` is not a connection error
here because `isConnectionError` compares the pattern "EOF" with a lower-cased
message. The adapters and the network are external.

### NoiseHandshake

Two devices, each other's only peer. `handshake`, `table`, `heap` (every keypair
ever derived), `keypairs` (positions in it), and one job per handshake worker: a
handler that takes `handshake.mutex` twice is two steps, between which the job
holds what the code holds in local variables. The network is the set of all
messages ever sent; receiving does not remove, so loss, repetition and reordering
are all behaviours. Cryptography is symbolic: a chain names initiator and both
ephemerals, and authentication is equality of chains.

Left out: cookies and rate limits (which only drop messages),
`ExpireCurrentKeypairs`, and the index 0. `randUint32` may draw 0, which the code
also uses for "no index"; `DeviceAssumption` excludes it (2^-32 per handshake).

### DeviceLifecycle

Callers (application, TUN event reader, UAPI connection, the goroutine the TUN
reader starts to close the device) run `up`, `down`, `set`, `unbind`, `close`, each
a sequence of steps from one lock or wait to the next; `call[c]` says where one
is. The state lock, `ipcMutex`, the net lock, the peers lock and the state lock of
each peer are variables, and so are the inbound and outbound queues with their
packets and nils. Readers of the net lock hold it for one step. `at[r]` is where a
routine is: `staged` about to test `isRunning`, `push` about to send on the
outbound queue, `seal` about to send on the encryption queue, `hello` waiting for
the net lock in `SendBuffers`, `deliver` about to send on an inbound queue.

A call and its first lock are one step: a caller that waits for it has done
nothing. `Start` is one step under the peer's lock; it is called only under
`ipcMutex`, as is the store of "closed" it tests for. Encryption and decryption
workers never block and are not processes; their queues matter as reference
counts (`encryptionRefs`; `inputRefs` for the decryption and handshake queues,
whose references are always taken and given up together).

Left out: `SetPrivateKey` and the identity and handshake locks, `BindSetMark` and
`IpcGet`, which take locks and change nothing modelled, what a worker sends without
staging, and which timers are pending: any timer of a present peer may fire, which
includes the ones a stale `timersActive` leaves behind.

### ReplayFilter and ReplayWindow

`ReplayWindow` is the promise: accept a counter that is under the limit, new, and
not more than the window behind the newest. `ReplayFilter` has the ring, the
block arithmetic, the cap on the number of blocks cleared and the `Reset` that
clears one block only. The history variable `accepted` maps to the window's `seen`.

### WaitPool

`Get` and `Put` statement by statement. `sync.Cond` is external: `Wait` joins the
list before it unlocks, `Signal` wakes the first or is lost.

### RateLimiter and Cookies

`Allow` is three steps: the look-up under the read lock, the insertion under the
write lock, the spending under the entry's own lock. Between the first two another
worker may enter the same source, and the second insertion then finds one entry
again and sends to the collector, blocking, with the lock held. The clock counts
`packetCost`. `Close` comes at any time and waits for no worker.

In `Cookies` a MAC is what went into it, so that a forged one cannot be built and a
stale one is recognised. `CreateReply` tests the age of the secret under the read
lock and renews it under the write lock without testing again; two workers do it.
The initiator changes its address, messages and replies are lost or come late.

### AllowedIPs

A node is named by its prefix; `place` is the pointer to it, which the code keeps
as the address of a field. The loop of `lookup` and of `nodePlacement` is `Walk`, the
node after each number of steps, and `Visits`, the steps at which that node covers the
address. `Insert` puts a node between a place and what hung there (`Interpose`), once or,
below a new fork, twice, or takes over as the code does; `RemoveByPeer` lets a node's only
child take its place (`Splice`), then the sibling that of a parent nobody owns. `routes`
is what was asked for, and `LongestPrefixWins` compares every address of `Width` bits.

### NetTun, NetDial

`NetTun`: a sender queues a packet, is notified, takes *some* packet out and waits
for the reader; `Close` is its four statements. `NetDial`: one look-up per family
in parallel, each trying the servers twice, by UDP and, for a truncated answer, by
TCP, and each exchange with a deadline of its own and a socket; the caller's time runs
all the while (`TimePasses`). Then the addresses in turn with `partialDeadline`'s share
of what the look-up has left.

### NativeTun, Offload

`NativeTun` has the goroutine that reads netlink datagrams and the one that polls,
both sending on the one channel of events that only the first closes. `Offload`
keeps of a packet what the code compares: protocol, sequence number, length, PSH,
checksum, options. A byte is known by the packet it came in and its position, so
that splitting can be compared with what arrived. One flow of each protocol. A buffer
whose item was deleted from the table for a bad checksum is written without a header of
its own (`headless`): what the kernel makes of the bytes that are there is left open.
The path on which `gsoSplit` has too many segments for its caller's buffers is left out.

### Tun2Socks

`Start` and `Stop` from one caller, statement by statement where another goroutine
can see a difference; the pipe reads the globals anew for each copy.

### StdBind, ProxyBind, PreflightBind

`StdBind`: `Open` for both families on one port with its retries; `Send` with
coalesced messages, the kernel refusing segmentation, and the second try without;
`splitCoalescedMessages`. One sender beside the owner of the bind. `ProxyBind`: the
association, its failure before and after the socket is stored, the relay address,
and the family of an endpoint as the code sees it (`net.IPv4` gives the mapped
form). `PreflightBind`: several goroutines in `Send`; only the two tables are
guarded, and the clock is read before the lock is taken (`ReadClock`, `Gate`), so that a
sender may note a time that is past.

### MasqueNoize

The socket under QUIC: junk before, around and after the handshake from goroutines
of their own, fragments of an Initial sent from the caller's buffer, padding, and
the switch. Bytes are numbers of packets and offsets, so that a buffer that QUIC
uses again shows.

### ProxyServer, UdpAssociate, UdpForwarder

A connection from the accept loop through the negotiation of its protocol to the
relay, for the three ways the code sets servers up (`mode`). Ends of connections are
open, gone (the peer left) or closed (by the proxy). In `UdpAssociate` packets come
from anybody and are good, short, bad or for another target; the deadline of
`copyConnTimeout` is the socket's. `UdpForwarder` is the forwarder of WARP in WARP.

### IpGenerator, ScanTargets, ScanEngine, MasqueScanner

`IpGenerator`: ranges are walked in blocks and segments with retries for addresses
already drawn; the linear congruential generator is stepped through its period for
small moduli. `ScanTargets`: what becomes of a user's list of names, addresses and
ranges, with families and ports; the resolver gives an IPv4 address in four bytes or in
sixteen, which `netip` takes for IPv6 (`Forms`, `Is`). `ScanEngine`: three stages of workers between
closed streams and the sorted, trimmed queue. `MasqueScanner`: candidates, sender,
workers, collector, `Stop`; its test is disabled in the code.

### Identity, MasqueAdapter

Files are absent, torn (truncated and not yet written) or whole. The program may
crash between any two steps and be started again, and calls to the service fail.
`account` and `enrolled` are what the service knows. Reading back the saved
configuration may fail on a whole file too.

### Startup, NoizeConfig, Settings

`Startup` has the modes of `RunWarp`, each with its devices, tries, tests,
fall-back and what stays open; the outcome of each part is a choice. A device whose
set-up failed is left behind with the event that `CreateNetTUN` has queued, and its
event reader brings it up sooner or later (`EventUp`). Psiphon's notices come from
goroutines of the controller and are offered without waiting. `NoizeConfig` is the table
of presets, the loader's checks and the merge; `Settings` the way from flags and file to
`RunWarp`'s options, where a noize section may be absent, good, or JSON of the wrong
shape, and the export of a preset to a path with or without a directory.

## 3. Runs

| run | bounds | what it shows |
|---|---|---|
| `tunnel_safety` | 3 adapters, 2 attempts per cycle, thresholds 1 | at most one open adapter; a closed adapter is never left without replacement under way; only the drain loses wake-ups |
| `tunnel_liveness` | 2 adapters, 1 attempt | a cancelled context ends recovery for good; a closed adapter is renewed |
| `tunnel_repair` | 3 adapters, 1 attempt | violated: a failure signalled while recovery finishes is drained, forwarding stays suspended |
| `handshake_onecpu` | 1 worker, 3 indices, 2 ephemerals each, 1 message per key, expiry at both ends | table, directions, confirmation, single derivation, single delivery |
| `handshake_duplicate` | 2 workers, 1 ephemeral each | violated: copies of one response derive the same key twice |
| `device_lifecycle` | 2 callers, 1 peer, 1 socket, queues of 1 | six invariants over all orders of the five operations |
| `device_close` | 1 caller, 1 peer, 1 worker, queues of 2 | Close is followed by the end of every device-wide routine |
| `device_stuck` | 1 caller, 1 peer, 1 socket, queues of 1 | violated: Down and the routines it waits for wait for each other |
| `packets` | see below | pool, replay filter, rate limiter, cookies, trie, tun devices, tun2socks, binds, obfuscation: ten properties |
| `proxy` | 1 connection, 3 packets each way, 2 local senders, 1 DNS server asked twice, a caller's time of 2, 5 or any | what connections are told and leave open, UDP associations, forwarder, dialling; that all of it ends |
| `proxy_halfopen` | the same, smaller | violated: a relay with one dead direction stays open while the other peer is silent |
| `control` | see below | candidates, scans, registrations, start-up, obfuscation settings; that scans and start-up end |

Why the bounds are enough. Thresholds of 1 make "counter below" and "counter at the
threshold" both happen; 3 adapters are one in place, one a forwarder still holds and
a new one. Two ephemerals per device give a retransmission, crossing
initiations and a renewal; one message per key makes the limit on messages happen;
three indices are two keypairs and a handshake in progress, the fourth would not be
used at the same time more than once. In `device_lifecycle` two callers give
every pair of operations, and a queue of 1 is full after one packet; peers do not
share locks except the device's, so a second one adds no new order of locks. In
`device_close` each routine that stages can leave one container in the queue of a
stopped peer: with a TUN reader, a worker and no socket (the receiver has nothing
to stage for) that is two, hence queues of 2; the code's 1024 is more than it has
such routines. With the queue smaller than that, or with a socket, the property
fails in the model, on a queue filled with leftovers.

In `packets`: four goroutines on a pool of two make two of them wait at once; a
window of 6 counters over a ring of 8 is turned over before the limit of 12; two
workers and one source race for an entry, and three buckets let one be collected and
made again; addresses of 3 bits and 3 routes reach every case of glue and splice;
two senders on a queue of 2 fill it; batches of 4 segments with room for 5 bytes
merge in front, behind and not at all; two netlink messages share a datagram; 4
datagrams in messages of 3 segments split a batch in two; two senders of
initiations over two and a half intervals; QUIC packets of 5 and 7 bytes with
fragments of 2 and a limit of 6 are cut, padded and left alone; three instances of
tun2socks are an old one, a new one and one after a stop. In `proxy` one connection is
enough because connections share nothing but the accept loop, which is in the model. A
server asked twice by UDP and TCP costs at most four units of time, so that of the two
deadlines one may be used up by the look-up and the other may not.
In `control`: 16 addresses in blocks of 4 with ranges that start inside a block and
wrap at the top; lists of two entries; three candidates, two workers and a queue of
two, so that the queue is trimmed; two callers of Stop; three starts with two faults
of an identity; three dials and a crash of an adapter; every mode alone and two that
clash; all pairs of mode flags with every file of interest, one run or one edit after
an export, since a run changes no file.

`CHECK_DEADLOCK FALSE` where the system may stop: the tunnel after cancellation,
the handshake when its bounded ephemerals are used up, the device after Close, and
the parts of the three composed runs when they have done what they are for.

### Fairness

- Goroutines that can run do: weak fairness per goroutine. Nothing forces a packet,
  a call, a tick, a cancellation or a failure.
- Supervisor: a read or write on an adapter that is closed or lost returns an
  error; `select` eventually takes a case that is ready again and again (strong
  fairness of `RecoveryStops`); an endpoint that is asked again and again answers
  once (strong fairness of `FactorySucceeds`): without it no recovery could be
  promised.
- Cookies: the initiator retries and the responder answers; losses and changes of
  address are bounded, as a property that promises progress has to have it.
- Native device: both listeners and the device's event reader run; the poll of the
  interface comes again. MASQUE obfuscation and tun2socks: goroutines run, and a
  read of a closed device returns. Nothing makes an open one return.
- Proxy: accept loop, handlers, copiers and deadlines run. That packets keep coming
  to the forwarder is part of `CancelClosesSockets`' fairness, and its comment says
  so: without packets the property is false, for the context is looked at only
  between reads.
- Scanners and start-up: workers, sender, collector and `RunWarp` go on; a probe, a
  test and a handshake come to an answer or a timeout.
- Device, `FairSpec`: the receive function of a closed bind returns
  `net.ErrClosed`; a timer that is being stopped does not fire for ever.
  `ClosingSpec` asks only for the workers and for the goroutines that wait for
  the last reference of a queue.

### What the violated runs say

- `tunnel_repair` (`app/masque_tun_adapter.go:539`): recovery clears
  `connectionBroken` and later drains `connectionDown`. A forwarder that breaks the
  connection again in between has its signal drained and its flag left set; both
  forwarders wait, the health check and the monitor skip a broken connection.
- `handshake_duplicate` (`noise-protocol.go:499`): `ConsumeMessageResponse` checks
  under a read lock and updates under a write lock without checking again. With two
  workers the confirmation of keys fails for the same reason; it is checked for one.
  `ConsumeMessageInitiation` (`noise-protocol.go:328`) has the same pattern: its test
  against "replay & flood" is over when the write lock is taken, two workers pass it with
  copies of one initiation, and both answer.
- `device_stuck` (`device.go:432`): `closeBindLocked` waits for the receive routines
  with the net lock held. One of them waits for room in an inbound queue; the
  receiver that would make room waits for the net lock to send an initiation.
- `proxy_halfopen` (`wiresocks/proxy.go:113`): `generalHandler` waits for both
  directions before anything is closed, although its comment says that the first
  end closes the connections.

### Exceptions that properties name

Where the code lets a good property fail in one known way, the property says so and
TLC shows that there is no other: `OnlyAStaleTestStrands` (`pools.go:44`, `Put` takes
no lock; builds with a limit only), `OnlyTwoFirstPacketsBlock`
(`ratelimiter.go:114`), `PushLostOnlyInFront` (a segment merged in front of a PSH
one loses the flag), `SplitUndoesMerge` (a TCP packet with a wrong checksum may be
written without a header, `offload_linux.go:610`), `DatagramsStayInOrder` (of those with a payload; an empty one may
be overtaken, `offload_linux.go:832`), `OpenIsAliveUnlessLeft` and
`MappedOnlyOnceHeard` (`bind_proxy.go`), `FragmentsMakeThePacket` (unless QUIC has used
its buffer again), `CrowdedOnlyByALateOne` (`preflight_bind.go:359`), `OnlyAWaitingSenderPanics` (`netstack/tun.go:165`),
`AssociationReleased`, `QuietAssociationEnds` (a packet of under three bytes stops the
reader silently), `StartReturns` (tun2socks waits for a pipe whose device it did not
close), `DevicesLostByFaultsOnly`, `OnlyFailedDialsLeak` (a failed MASQUE dial keeps its
UDP socket), `FailedDialLeavesNothing` (a ping's socket, and that of a DNS exchange whose
`SetDeadline` failed, `netstack/tun.go:674`), `OnlySetupAndTestStrand` (the device of a try
whose set-up or test failed is never closed), `FewEscapeFamilies` (an IPv4 address of the
hosts file), `FallbackLeavesNoTunnel`, `StartEnds` (a lost notice of Psiphon's),
`PresetsStaySound` (a sound file merged over a sound preset may be unsound).

### Other observations, not checked by a run

Supervisor and device: the health check treats an idle tunnel as a broken one; error
counts of forwarders survive a recovery; the comment "30 second cooldown" stands
beside a constant of 60 s; the deferred `adapter.Close()` of `app.go:630` closes the
first adapter only; `MaxTimerHandshakes` is 90/5 although `RekeyTimeout` is 10 s; a
socket that fails ten times leaves an up device deaf; a handshake worker that enters
a first packet after the rate limiter's Close sends on a closed channel
(`ratelimiter.go:114`).

TUN: `EventDown` is lost, because `wasEverUp` starts anew with each netlink datagram
(`tun_linux.go:158`); `gsoSplit` returns one packet less than it made when there are
too many segments; a failing `setMTU` leaks the listeners; the look-up goes on when the
context is cancelled; the first server's "no such name" ends it. tun2socks: an address of the proxy that does not resolve
panics before its error is looked at (`lwip.go:110`).

Sockets: after the kernel refused segmentation the whole batch is sent again,
including messages that had gone; an association dropped by the proxy goes
unnoticed. AtomicNoize: the time noted for a preflight is read before the lock is taken,
so that after one that had to wait the next may begin sooner than the minimum interval
that `app/wg.go:254` asks for (`CrowdedOnlyByALateOne` says that there is no other way, and
the rate is kept); the junk that should trail the initiation may precede it, a
second goroutine's initiation can overtake a preflight, `JcAfterHS` is not used, the
random generator is shared without a lock. MASQUE noize: the packet that triggers the
junk is itself classified as 1-RTT, so the junk after the handshake starts before it;
`executePostHandshake`'s comment says that it tests `enabled` and it does not;
`WriteToUDP` returns the obfuscated length; a disguise's header can push a packet past
the limit of padding; `Enable`, `SetConfig`, `StoreAddr` and `fragmentPacket` have no
callers.

Proxy: a UDP association leaks its socket when its reply or its dial fails; a first
packet that cannot be parsed leaves the handler waiting; packets of strangers are
accepted; `asyncReadPackets` uses one buffer for all; HTTP's `customConn.Read` returns
the length of the caller's buffer (`http/common.go:76`); data behind an HTTP CONNECT
is lost; the bare servers leave connections open after a failed negotiation;
the forwarder leaks its listener when `DialUDP` fails and answers the last sender.

Scanners: `netip.AddrFromSlice` without `Unmap` (`ipscanner/scanner.go:486`) takes an IPv4
address of the hosts file, which comes in sixteen bytes, for IPv6, whatever the comment at
line 491 says; when none of the given names resolves, Cloudflare's ranges are scanned
(`scanner.go:73`), though `cmd/warp-scan/main.go:350` says that only the endpoints are;
an IPv6 prefix that is not masked is sampled outside its range and can
panic at the top of the space; the congruential generator's `Next` and the MASQUE scanner
have no caller in the program; with `ConcurrentScanners` 0 the scan hangs; candidates without a port are tried at 2408
whatever `--scanner-ports` says; `MaxRTT` is not used; `--no-default-cidrs` leads to all
of Cloudflare; with `StopOnFirstGoodIPs` above `IPQueueSize` a scan never stops early; the MASQUE scanner's
default range yields no candidate.

Start-up and settings: `saveConfigFile` (`masque/adapter.go:483`) is described as an
atomic write and truncates in place; an identity that fails to load is removed and
registered anew; `StartTunnel` ignores its context; the comment "config file takes
precedence" meets code in which a flag wins unless it has its default value, and the
test URL is compared with another default; modes of flags and file are added up and two
together are fatal (`rootcmd.go:228-250, 378-390`), though `docs/CONFIG_FORGE.md:313` says
that flags override the file and offers `masque.preferred`, which clashes with the `masque`
it comes with; a file without noize hides the flags' preset, since `GetNoizeConfig` never
returns nil (`rootcmd.go:398`, against the comment at 403); a bare file name, as in the
help's own example (`rootcmd.go:135`), makes the export panic (`config/noize/loader.go:313`),
and what is exported elsewhere has no endpoint and is refused (`config/config.go:112`);
without a file noize is on by default; the
checks of `config/noize` refuse every preset as a whole, since each has a name beside its
numbers (`config.go:144`, `validator.go:59`), and are made of files only; the stealth
preset has 12 junk packets where the comment at `preflight_bind.go:35` says 0 to 10;
`LoadMixed` and `ConfigValidator` have no callers.

## 4. Proofs

For every value of the constants under the named assumptions, checked by TLAPS.
TLC evaluates the assumptions on the instances of section 3, and checked the
inductive invariants there before they were proved.

**MasqueTunnelProofs** (from `AdapterAssumption`, `BoundAssumption`).
`TypeCorrect`, `OneLiveAdapter`, `NoAdapterLeftClosed` and the action property
`WakeupsSurvive`. `TypeInv` adds to `TypeOK` that the attempt counter is within its
limit at every place of the cycle but the one that ends it (`AttemptsCounted`),
without which the next increment leaves the type. `AdapterInv` adds to
`SingleLiveAdapter` that the old adapter is closed before the factory runs
(`ClosedBeforeFactory`) and that right after the swap the new one is not
(`OpenAfterSwap`): `SingleLiveAdapter` alone is not inductive, because the
factory's step would leave two open adapters behind if the old one were open.

**NoiseHandshakeProofs** (from `DeviceAssumption`, `LimitAssumption`), for any number
of indices and ephemerals. For any number of workers: `TypeCorrect`;
`OppositeDirections`, by `DirectionInv`: in addition to the derived keypairs, whoever
is in a state to derive one carries a chain of its own or the other's as that state
says (`OwnChain`); `TableAgreesWithOwners`, by `TableInv`: in addition, the index of a
handshake in progress is in the table under "handshake" unless it was dropped, and
no keypair in use shares it (`TableOwned`), which is what makes `Delete` and
`SwapIndexForKeypair` safe.

The other three have the hypothesis `OneWorker`. The program starts
`runtime.NumCPU()` handshake workers, so this is a machine with one CPU, and it is
needed: with two workers the run `handshake_duplicate` violates `KeyDerivedOnce`,
and the argument for the other two goes through it or through a worker that is
alone between a check and its use. `KeysAreFresh` is by `FreshKeys`: keys are made
with ephemerals of the device's own, and the ephemeral of the handshake in progress,
or of a response that was checked and is not finished, has made none yet.
`PacketsAreDeliveredOnce` rests on it: what was delivered is marked in the filter of
a keypair with its key (`DeliveredMarked`), and a key has one keypair.
`KeysAreConfirmed` needs a fact about every message ever sent: whoever sent a response
or a packet has derived its key (`SentIsDerived`), so that whoever consumes one, has
one in its queue or makes its keypair the current one shares the key with the sender
(`FinishIsDerived`, `ConsumedIsDerived`, `InboundIsDerived`, `CurrentIsDerived`).

**DeviceLifecycleProofs** (from `LifecycleAssumption`), for any number of callers,
peers, sockets and workers and queues of any size: `TypeCorrect`, `SendsAreSafe`,
`PeersStayWhole`, `CloseIsFinal`, `DownStaysSilent`, `UpStartsThePeers`. What makes
them true is spread over five locks, so `DeviceInv` first says who holds which lock
at which place (`CallInv`, `LockInv`), then what holders may rely on: the state
of the device (`StateInv`), the peers in a caller's hands (`TodoInv`), the two
routines of a peer and the nils that end them (`PeerInv`), what a routine has in hand
(`RoutineInv`), that each reference to a queue has an owner (`RefInv`, an equation
between the counters and the cardinalities of the sets of owners, from which "no send
on a closed queue" follows), who is going to close open sockets (`BindInv`) and who is
going to start a configured peer (`StartInv`). The assumption says that the
goroutines have different names and that the sets are finite.

**MCControlProofs** (from `ControlAssumption`, `ScanAssumption`, `AddressAssumption`).
`RegistrationSurvives` by `IdInv`
(what is in memory or in the file is registered with the service, the file follows
the memory place by place, and no more devices are forgotten than faults happened) and
`AdapterInv`; `StartLeavesNothing` by `StartInv` (which devices exist, which were
tested, what failed of each and which adapter is in place, for each place of `RunWarp`);
`NoizeStaysSoundAlways` by `SettingsInv`, which leaves the numbers of a merge to lemmas
about `Merge` and the sizes of junk. The assumption says that bounds are numbers, flags
name modes that exist, and a noize section has no negative numbers.

`ScansKeepCount` is for any candidates, workers and limits, by `ScanInv` and `MasqueInv`.
In the first, candidates in the hands of a stage are no more than its live workers and a
stream is closed only when the stage before has none (`StagesHold`); the queue is
sorted, without repetition, and holds the best of what answered (`QueueIsBest`), so that
trimming loses none that belongs there; and the answers counted together with those
waited for are no more than the limit and one for each other worker (`StopHolds`). In the
second, one caller gets past the flag of `Stop` (`StopIsOnce`), and until somebody stops
the scan every endpoint is as often among jobs, tests and results as it was sent
(`NoneIsLost`): an equation between cardinalities that each step moves by one on both
sides or on neither. The assumption says that round trip times and limits are numbers
and that there are workers.

`CandidatesStayRight` is for addresses of any number of bits, blocks, buckets and ranges
of any size, and user's lists of any length, by `GenInv` and `TargetInv`. The walk over a
range (`RangeInv`): the subnet in hand lies in the range, the samples of an IPv4 range
ascend and stay below the end of the last segment done, and samples and misses together
are the segments done; sizes are powers of two, so that subnets divide the range without
a rest. The generator (`IsLcg`): behind the remainders there is a sequence of numbers, and
the period is the theorem of Hull and Dobell for powers of two, proved in `DataLemmas`: if
`p` is a power of two, `p` steps move by an odd multiple of `p` (`MovesBy`), and only
multiples of `p` steps come back to the same remainder (`ReturnsBy`), both from `p` to
`2p`. That is what `checkHullDobell` is for, and the proof uses its two conditions; for
two addresses the code lets the multiplier 0 through and the property says so. The
targets (`TargetInv`): entries of the list passed so far are among the options
(`ListIsKept`, `FamiliesKept`), Cloudflare's ranges come only when there is nothing else
(`LastResort`), and what is pinged stands for an option (`StandsFor`). The assumption says
that a block is part of an address and that ranges are written with addresses.

**MCProxyProofs** (from `ProxyAssumption`). `ConnectionsEndClean` by `ServerInv`
(per connection: which ends are open at which place), `UdpGivesBack` by `AssocInv` and
`FwInv` (no loop before the set-up has ended well), `DialTriesAll` by `DialInv` (what
the look-ups found is what is dialled, the attempts are counted, every open socket belongs
to a look-up or to an exchange that forgot it (`SocketsFit`), and a deadline is given up
only when the time is over). `SpentFits` bounds the look-up: a family that is at its nth
exchange has spent no more than n - 1 deadlines and what it has waited, and the caller no
more than any family that is still asking.

**MCPacketsProofs** (from `PoolAssumption`, `PacketsAssumption`, `TrieAssumption`). For
the pool, with any number of goroutines: `TypeCorrect`, `CountExact`,
`StrandingNeedsAStaleTest`, by `PoolInv`: the lock is held exactly in the critical section
(`LockHeld`), who is past the test finds room (`RoomToTake`; `Put` only makes more), the
list is exactly the sleepers (`ListSleeps`), and the count is the number of users. The
instance of the pool that TLC checks is in the run `packets`. `LoadStaysShed` by `RateInv` and
`CookieInv`: the grants of a source are bounded by a burst and the time that has
passed (`WithinRate`), which needs that an entry thrown away had filled up again;
that is why the assumption says that `CollectAge` is not below the time it takes to
fill (in the code twenty packets' time against five). `TunsKeepAll` by `TunInv` (no packet is in two
places and every one is in some; there are as many notifications under way as packets
queued), `NativeInv` and `LwipInv` (a caller that is stopping an instance knows
which).

`RoutesStayRight` is for addresses of any width, any peers and any number of prefixes
(`TrieAssumption`: a width is a number, and nobody is not a peer). `IpsInv` has four
parts. `Linked`: a child begins with its parent's prefix and the bit of the side it hangs
on, it knows that place as its parent, and every node hangs somewhere; this is what the
unsafe pointer arithmetic of `RemoveByPeer`, which finds a parent from the address of
its field, relies on. `Forks`: a node nobody owns has two children. `Given`: the routes
are the nodes with an owner. `AllLists`: a peer's list is its prefixes, each once. The
lookup is right because the descent meets every node whose prefix begins the address
and meets longer ones later: a node it missed would have, somewhere above it, the
node at which the descent went another way or ended, and two nodes that begin one
address are one below the other. `Interpose` and `Splice` keep `Linked`; `InsertNode`
and `RemoveNode` are made of them. `Forks` is needed for the removal: taking a leaf away
from a fork leaves one child, which takes the fork's place. The removal of a whole list
is a fold and is taken node by node (`RemoveAllIs`).

**MCWireProofs** (from `ReplayAssumption`, `ObfuscationAssumption`, `BindAssumption`: sizes and counts
are natural numbers; the bits of a block and the blocks of the ring, which are divided
by, the limit, and the interval between preflights, 100 ms in `app/wg.go`, are not
zero). `RingIsTheWindow` is the refinement: the ring of blocks implements `ReplayWindow` under the mapping the run
`packets` checks, for every block size, ring length and limit. `RingAgrees` says which
counters the bits of the ring stand for: a bit is set exactly when its counter was
accepted, for the counters of the last `RingBlocks` blocks. The step that moves the
window clears the blocks between the old and the new end, with `RingBlocks` as the
most; that the cleared blocks are exactly those that are reused comes from lemmas about
quotients and remainders (`DivisionIsUnique`, `PartsOfSum`, `RemaindersDiffer`,
`RemaindersCover`, `PlacesAreApart`). `ObfuscationStaysBounded` is by `PreInv` and
`NoizeInv`. In `PreInv` the junk sent to an address, the junk that preflights under way
have left (`Pending`, a set of pairs of sender and place, so that goroutines that send
at once can be counted) and the trailing junk left are together no more than the
preflights begun and the one trail allow (`JunkCounted`); the times given are an interval
apart, none is past the last one noted or the time at which the preflight began, and there are no more of them than intervals
before it (`BegunApart`), and an address with a preflight begun has had it sent or
has it on its way (`Announced`). In `NoizeInv` the fragments of a packet are apart
(`PiecesFit`), a packet is cut by one goroutine that has sent all before its offset
(`CuttersFit`), when it is done all but the first fragment is out (`DoneIsCovered`), and a
writer with the first fragment in hand belongs to a packet that is being cut or was
(`WritersFit`): together they give each byte exactly once, whichever of the writer and
the goroutine is faster. `BindsStaySound` is for any sizes of datagrams, any batch and any
limits of segments, payload and receive slots, by `StdInv` and `SocksInv`. Coalescing is a
fold over the batch: after each datagram, cutting the messages built so far gives the
batch so far. In `SendInv` what is on the wire and what cutting the messages still to be
written gives make up the batch, behind the front of it that went out before
segmentation was refused; what `splitCoalescedMessages` does to a batch read from the
other end is that every segment lands at or before the slot it is read from, so nothing
is overwritten that is still to be read. `OpenInv` says which sockets exist between the
two families and their retries.

The parts of the last four modules share no variable, so each has an inductive
invariant of its own, kept by its own steps and untouched by the others'.

What the attempts to prove corrected in the model: `RateKept` has to allow for every
packet let through by an entry that another worker's entry had overtaken (`raced`),
which happens more than once per race; a sound noize file over a sound preset is also
unsound when it sets one end of a size range only (`UnsoundOnlyByMixture`); and
`NetDial` has to keep what each family's look-up found (`found`) apart from the list
that is dialled. The alternatives of `ScanEngine`'s `Take` overlapped in a `CASE`, which
leaves the choice open where the code has an order of tests; they are an `IF` now.

**DataLemmas** is what the others share. The library's induction theorems take an operator,
which the provers cannot instantiate; its theorem that a well-founded relation has least
elements (`WFMin`) takes a set. From it come induction over the numbers (`NatInd`), that a
fold over a sequence is the last of the values it goes through (`FoldExists`) and that a
function defined by recursion on an interval satisfies its definition
(`RecursionExists`), then quotients, remainders, products and the period of a
congruential generator. Definitions are laid out for
this where the provers could not see into an operator (`SelectSeq`, powers, `@@`):
`AllowedIPs`, `IpGenerator` (`Power`) and `MasqueScanner` say the same in other words, and
alternatives of a `CASE` that overlapped are now ordered, as the code's conditions are
(`IpGenerator`, `ScanTargets`).

Only model-checked: everything with fairness, and `ENABLED`, which are out of the
prover's reach (`PacketsFlow`, `ProxyEnds`, `ControlEnds`, `CloseEndsTheWorkers`, the
liveness of the tunnel); and `OffloadIsUndone`, the one invariant without a theorem, whose
statement filters and flattens what was received.

## 5. Plan

1. `OffloadIsUndone`: an invariant that says, for each item, which packets of the batch
   its buffer holds and in which order.
2. The action properties inside the temporal ones: `QuietStays` of `MasqueNoize`.

## 6. Not modelled, and why

System calls and their control messages (sticky sources, socket options, the Windows
bind, `wireguard/ipc`, `rwcancel`, the TUN drivers of other systems), checksums, the
gVisor and lwip stacks, QUIC and CONNECT-IP, HTTP calls to the WARP API and TLS, the
probes of the scanners, the contents of decoy packets (random bytes), the parser of
WireGuard configuration files, logging, and flags that no mode depends on. `iputils`
has no state; its MTU check only logs. `SetPrivateKey` with the identity and handshake
locks is left out of `DeviceLifecycle`, whose state space is at its limit. Memory
ordering is sequentially consistent, as Go's atomics and locks make it for the
variables modelled; plain variables shared without either are named in the hazards.
