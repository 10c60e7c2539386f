---------------------------- MODULE MasqueTunnel ----------------------------
(***************************************************************************)
(* The MASQUE tunnel supervisor of app/masque_tun_adapter.go: the five     *)
(* goroutines that maintainMasqueTunnel starts.                            *)
(*                                                                         *)
(*   writer    netstack -> MASQUE forwarder                                *)
(*   reader    MASQUE -> netstack forwarder                                *)
(*   health    45 s ticker: an idle or failing tunnel is reported          *)
(*   monitor   30 s ticker: a high failure rate is reported                *)
(*   recovery  waits on connectionDown and replaces the adapter            *)
(*                                                                         *)
(* They share the atomics connectionBroken, connectionFailures, the two    *)
(* lastSuccessful timestamps and lastRecoveryTime, the one-slot channel    *)
(* connectionDown, and the adapter behind adapterMutex.                    *)
(*                                                                         *)
(* Time is abstracted to what the goroutines compare it with: stale[f] is  *)
(* "more than StaleConnectionThreshold since f's last success" and         *)
(* inCooldown is "less than RecoveryCooldownPeriod since the last          *)
(* recovery"; how long ago the failure counters were reset is any of the   *)
(* windows the monitor distinguishes.  Sleeps are the gaps between steps.  *)
(***************************************************************************)
EXTENDS Naturals, FiniteSets

CONSTANTS
    Adapters,                 \* adapter objects; a closed one nobody holds is reused
    First,                    \* the adapter maintainMasqueTunnel is called with
    NoAdapter,                \* a forwarder between two packets holds none
    EnvMay,                   \* what happens around the tunnel: the caller may
                              \* "cancel" or "return", netstack send "outbound",
                              \* the network "drop" the tunnel or leave it "idle"
    MaxReconnectionAttempts,  \* attempts of one recovery cycle (5)
    MaxRecoveryAttempts,      \* failed cycles before the long pause (5)
    ErrThreshold,             \* consecutive errors that break the connection (3)
    StaleFailures,            \* failures the health check reports (3)
    LocalHigh,                \* failures the monitor calls high (5)
    GlobalHigh                \* process-wide failures it calls high (8)

ASSUME AdapterAssumption ==
    /\ First \in Adapters
    /\ NoAdapter \notin Adapters
    /\ EnvMay \subseteq {"cancel", "return", "outbound", "drop", "idle"}

ASSUME BoundAssumption ==
    /\ MaxReconnectionAttempts \in Nat \ {0}
    /\ MaxRecoveryAttempts \in Nat \ {0}
    /\ ErrThreshold \in Nat \ {0}
    /\ StaleFailures \in Nat \ {0}
    /\ LocalHigh \in Nat \ {0}
    /\ GlobalHigh \in Nat \ {0}

VARIABLES
    ctxDone,             \* the caller's context is cancelled
    ownerReturned,       \* runWarpWithMasque returned and ran its deferred Close
    adapter,             \* the adapter in place
    life,                \* adapter -> up, lost (the network dropped it) or closed
    writeLocked,         \* recovery holds adapterMutex for writing
    connectionBroken,    \* forwarding is suspended
    connectionDown,      \* the one-slot channel holds a signal
    pc,                  \* forwarder -> where it is in its loop
    held,                \* forwarder -> its currentAdapter
    errs,                \* forwarder -> writeErrors, consecutiveErrors
    stale,               \* forwarder -> no success for too long
    connectionFailures,  \* failures of this tunnel
    globalFailures,      \* failures of the process
    inCooldown,          \* a recovery completed recently
    recovery,            \* where the recovery goroutine is
    attempt,             \* its attempt of the current cycle
    recoveryAttempts,    \* its failed cycles in a row
    health,              \* where the health goroutine is
    monitor,             \* where the failure monitor is
    monitorResets        \* the monitor's tick found its counter over age

sharedVars   == <<adapter, life, writeLocked, connectionBroken, connectionDown>>
callerVars   == <<ctxDone, ownerReturned>>
forwardVars  == <<pc, held, errs>>
countVars    == <<connectionFailures, globalFailures>>
timeVars     == <<stale, inCooldown>>
recoveryVars == <<recovery, attempt, recoveryAttempts>>
monitorVars  == <<monitor, monitorResets>>

vars == <<callerVars, sharedVars, forwardVars, countVars, timeVars,
          recoveryVars, health, monitorVars>>

Forwarders == {"reader", "writer"}

-----------------------------------------------------------------------------
(***************************************************************************)
(* What an operation on the adapter can fail with: "closed" and "timeout"  *)
(* stand for the messages isConnectionError lists, "eof" for io.EOF, which *)
(* it lists as "EOF" and looks for in a lower-cased message, "other" for   *)
(* the rest.                                                               *)
(***************************************************************************)
Errors == {"closed", "timeout", "eof", "other"}

isConnectionError(e) == e \in {"closed", "timeout"}

\* The counters saturate at the largest value the code compares them with.
Bump(n, cap) == IF n < cap THEN n + 1 ELSE n

FailureCap == IF StaleFailures > LocalHigh THEN StaleFailures ELSE LocalHigh

Signalled == connectionDown' = TRUE   \* select with a default: a full channel drops

-----------------------------------------------------------------------------
Init ==
    /\ ctxDone = FALSE
    /\ ownerReturned = FALSE
    /\ adapter = First
    /\ life = [a \in Adapters |-> IF a = First THEN "up" ELSE "closed"]
    /\ writeLocked = FALSE
    /\ connectionBroken = FALSE
    /\ connectionDown = FALSE
    /\ pc = [f \in Forwarders |-> "loop"]
    /\ held = [f \in Forwarders |-> NoAdapter]
    /\ errs = [f \in Forwarders |-> 0]
    /\ stale = [f \in Forwarders |-> FALSE]
    /\ connectionFailures = 0
    /\ globalFailures = 0
    /\ inCooldown = FALSE
    /\ recovery = "idle"
    /\ attempt = 0
    /\ recoveryAttempts = 0
    /\ health = "wait"
    /\ monitor = "wait"
    /\ monitorResets = FALSE

-----------------------------------------------------------------------------
(***************************************************************************)
(* The environment: the caller, the network and the clock.                 *)
(***************************************************************************)
Cancel ==
    /\ "cancel" \in EnvMay
    /\ ~ctxDone
    /\ ctxDone' = TRUE
    /\ UNCHANGED <<ownerReturned, sharedVars, forwardVars, countVars, timeVars,
                   recoveryVars, health, monitorVars>>

\* runWarpWithMasque returns once the context ends, or at once when the proxy
\* does not start; its deferred Close is on the adapter it created itself.
OwnerReturns ==
    /\ "return" \in EnvMay
    /\ ~ownerReturned
    /\ ownerReturned' = TRUE
    /\ life' = [life EXCEPT ![First] = "closed"]
    /\ UNCHANGED <<ctxDone, adapter, writeLocked, connectionBroken, connectionDown,
                   forwardVars, countVars, timeVars, recoveryVars, health, monitorVars>>

NetworkDrops(a) ==
    /\ "drop" \in EnvMay
    /\ life[a] = "up"
    /\ life' = [life EXCEPT ![a] = "lost"]
    /\ UNCHANGED <<callerVars, adapter, writeLocked, connectionBroken, connectionDown,
                   forwardVars, countVars, timeVars, recoveryVars, health, monitorVars>>

GoesStale(f) ==
    /\ "idle" \in EnvMay
    /\ ~stale[f]
    /\ stale' = [stale EXCEPT ![f] = TRUE]
    /\ UNCHANGED <<callerVars, sharedVars, forwardVars, countVars, inCooldown,
                   recoveryVars, health, monitorVars>>

CooldownEnds ==
    /\ inCooldown
    /\ inCooldown' = FALSE
    /\ UNCHANGED <<callerVars, sharedVars, forwardVars, countVars, stale,
                   recoveryVars, health, monitorVars>>

-----------------------------------------------------------------------------
(***************************************************************************)
(* The two forwarders.  A ready forwarder has passed its test of           *)
(* connectionBroken, which can be old by the time it takes the adapter:    *)
(* the writer waits for a packet of the TUN device in between, and both    *)
(* wait for adapterMutex.                                                  *)
(***************************************************************************)
LoopTest(f) ==
    /\ pc[f] = "loop"
    /\ \/ ctxDone /\ pc' = [pc EXCEPT ![f] = "done"]
       \/ /\ ~ctxDone
          /\ ~connectionBroken
          /\ pc' = [pc EXCEPT ![f] = "ready"]
    /\ UNCHANGED <<callerVars, sharedVars, held, errs, countVars, timeVars,
                   recoveryVars, health, monitorVars>>

TunError ==
    /\ pc["writer"] = "ready"
    /\ pc' = [pc EXCEPT !["writer"] = IF ctxDone THEN "done" ELSE "loop"]
    /\ UNCHANGED <<callerVars, sharedVars, held, errs, countVars, timeVars,
                   recoveryVars, health, monitorVars>>

Capture(f) ==
    /\ pc[f] = "ready"
    /\ f = "writer" => "outbound" \in EnvMay
    /\ ~writeLocked
    /\ held' = [held EXCEPT ![f] = adapter]
    /\ pc' = [pc EXCEPT ![f] = "io"]
    /\ UNCHANGED <<callerVars, sharedVars, errs, countVars, timeVars,
                   recoveryVars, health, monitorVars>>

PacketMoved(f) ==
    /\ pc[f] = "io"
    /\ life[held[f]] = "up"
    /\ errs' = [errs EXCEPT ![f] = 0]
    /\ stale' = [stale EXCEPT ![f] = FALSE]
    /\ held' = [held EXCEPT ![f] = NoAdapter]
    /\ pc' = [pc EXCEPT ![f] = "loop"]
    /\ UNCHANGED <<callerVars, sharedVars, countVars, inCooldown,
                   recoveryVars, health, monitorVars>>

\* Only the reader gives up on a cancelled context here.
ReadCancelled ==
    /\ pc["reader"] = "io"
    /\ ctxDone
    /\ held' = [held EXCEPT !["reader"] = NoAdapter]
    /\ pc' = [pc EXCEPT !["reader"] = "done"]
    /\ UNCHANGED <<callerVars, sharedVars, errs, countVars, timeVars,
                   recoveryVars, health, monitorVars>>

PacketFailed(f, e) ==
    /\ pc[f] = "io"
    /\ ~(f = "reader" /\ ctxDone)
    /\ errs' = [errs EXCEPT ![f] = Bump(errs[f], ErrThreshold)]
    /\ held' = [held EXCEPT ![f] = NoAdapter]
    /\ IF isConnectionError(e)
       THEN /\ connectionFailures' = Bump(connectionFailures, FailureCap)
            /\ globalFailures' = Bump(globalFailures, GlobalHigh)
            /\ pc' = [pc EXCEPT ![f] =
                          IF Bump(errs[f], ErrThreshold) >= ErrThreshold /\ ~connectionBroken
                          THEN "mark" ELSE "loop"]
       ELSE /\ pc' = [pc EXCEPT ![f] = "loop"]
            /\ UNCHANGED countVars
    /\ UNCHANGED <<callerVars, sharedVars, timeVars, recoveryVars, health, monitorVars>>

\* Mutant: the store without the signal that follows it.
MarkBroken_Silent(f) ==
    /\ pc[f] = "mark"
    /\ pc' = [pc EXCEPT ![f] = "loop"]
    /\ connectionBroken' = TRUE
    /\ UNCHANGED <<callerVars, adapter, life, writeLocked, connectionDown, held, errs,
                   countVars, timeVars, recoveryVars, health, monitorVars>>

\* The store of connectionBroken, which was false when it was tested; the signal
\* is a later step.
MarkBroken(f) ==
    /\ pc[f] = "mark"
    /\ pc' = [pc EXCEPT ![f] = "signal"]
    /\ connectionBroken' = TRUE
    /\ UNCHANGED <<callerVars, adapter, life, writeLocked, connectionDown, held, errs,
                   countVars, timeVars, recoveryVars, health, monitorVars>>

SendDown(f) ==
    /\ pc[f] = "signal"
    /\ Signalled
    /\ pc' = [pc EXCEPT ![f] = "loop"]
    /\ UNCHANGED <<callerVars, adapter, life, writeLocked, connectionBroken, held, errs,
                   countVars, timeVars, recoveryVars, health, monitorVars>>

Forward(f) ==
    \/ LoopTest(f)
    \/ Capture(f)
    \/ PacketMoved(f)
    \/ \E e \in Errors : PacketFailed(f, e)
    \/ MarkBroken(f)
    \/ SendDown(f)

-----------------------------------------------------------------------------
(***************************************************************************)
(* The health goroutine.  A tick that finds nothing changes nothing; one   *)
(* that finds an issue signals a step later, whatever has happened since.  *)
(***************************************************************************)
ConnectionIssues ==
    \/ \E f \in Forwarders : stale[f]
    \/ connectionFailures >= StaleFailures

HealthTick ==
    /\ health = "wait"
    /\ ~inCooldown
    /\ ~connectionBroken
    /\ ConnectionIssues
    /\ health' = "signal"
    /\ UNCHANGED <<callerVars, sharedVars, forwardVars, countVars, timeVars,
                   recoveryVars, monitorVars>>

HealthSignals ==
    /\ health = "signal"
    /\ health' = "wait"
    /\ Signalled
    /\ UNCHANGED <<callerVars, adapter, life, writeLocked, connectionBroken, forwardVars,
                   countVars, timeVars, recoveryVars, monitorVars>>

HealthStops ==
    /\ health = "wait"
    /\ ctxDone
    /\ health' = "done"
    /\ UNCHANGED <<callerVars, sharedVars, forwardVars, countVars, timeVars,
                   recoveryVars, monitorVars>>

Health == HealthTick \/ HealthSignals \/ HealthStops

-----------------------------------------------------------------------------
(***************************************************************************)
(* The failure monitor.  window is how long ago the counter of this tunnel *)
(* was reset: under 120 s, up to 300 s, or longer; globalWindow whether    *)
(* the process-wide one was reset less than 180 s ago.                     *)
(***************************************************************************)
HighFailureRate(window, globalWindow) ==
    \/ connectionFailures >= LocalHigh /\ window = "under120"
    \/ globalFailures >= GlobalHigh /\ globalWindow

CounterExpired(window) == window = "over300" /\ connectionFailures > 0

\* The reset of the counter ends the tick that found it over age.
MonitorTick(window, globalWindow) ==
    /\ monitor = "wait"
    /\ \/ /\ HighFailureRate(window, globalWindow)
          /\ ~connectionBroken
          /\ monitor' = "mark"
          /\ monitorResets' = CounterExpired(window)
          /\ UNCHANGED connectionFailures
       \/ /\ ~HighFailureRate(window, globalWindow) \/ connectionBroken
          /\ CounterExpired(window)
          /\ connectionFailures' = 0
          /\ UNCHANGED monitorVars
    /\ UNCHANGED <<callerVars, sharedVars, forwardVars, globalFailures, timeVars,
                   recoveryVars, health>>

MonitorMarks ==
    /\ monitor = "mark"
    /\ monitor' = "signal"
    /\ connectionBroken' = TRUE
    /\ UNCHANGED <<callerVars, adapter, life, writeLocked, connectionDown, forwardVars,
                   countVars, timeVars, recoveryVars, health, monitorResets>>

MonitorSignals ==
    /\ monitor = "signal"
    /\ Signalled
    /\ monitor' = "wait"
    /\ monitorResets' = FALSE
    /\ connectionFailures' = IF monitorResets THEN 0 ELSE connectionFailures
    /\ UNCHANGED <<callerVars, adapter, life, writeLocked, connectionBroken, forwardVars,
                   globalFailures, timeVars, recoveryVars, health>>

MonitorStops ==
    /\ monitor = "wait"
    /\ ctxDone
    /\ monitor' = "done"
    /\ UNCHANGED <<callerVars, sharedVars, forwardVars, countVars, timeVars,
                   recoveryVars, health, monitorResets>>

Monitor ==
    \/ \E window \in {"under120", "upTo300", "over300"}, globalWindow \in BOOLEAN :
          MonitorTick(window, globalWindow)
    \/ MonitorMarks
    \/ MonitorSignals
    \/ MonitorStops

-----------------------------------------------------------------------------
(***************************************************************************)
(* The recovery goroutine.                                                 *)
(***************************************************************************)
\* Mutant: the select has no case for ctx.Done().
RecoveryStops_Never == FALSE

RecoveryStops ==
    /\ recovery = "idle"
    /\ ctxDone
    /\ recovery' = "done"
    /\ UNCHANGED <<callerVars, sharedVars, forwardVars, countVars, timeVars,
                   attempt, recoveryAttempts, health, monitorVars>>

TakeSignal ==
    /\ recovery = "idle"
    /\ connectionDown
    /\ connectionDown' = FALSE
    /\ recovery' = "attempt"
    /\ attempt' = 1
    /\ UNCHANGED <<callerVars, adapter, life, writeLocked, connectionBroken, forwardVars,
                   countVars, timeVars, recoveryAttempts, health, monitorVars>>

\* Mutant: one attempt too many.
AttemptTest_OneMore ==
    /\ recovery = "attempt"
    /\ recovery' = IF attempt <= MaxReconnectionAttempts + 1 /\ ~ctxDone
                   THEN "backoff" ELSE "failed"
    /\ UNCHANGED <<callerVars, sharedVars, forwardVars, countVars, timeVars,
                   attempt, recoveryAttempts, health, monitorVars>>

\* The for condition, after the settle time or after a failed attempt.
AttemptTest ==
    /\ recovery = "attempt"
    /\ recovery' = IF attempt <= MaxReconnectionAttempts /\ ~ctxDone
                   THEN "backoff" ELSE "failed"
    /\ UNCHANGED <<callerVars, sharedVars, forwardVars, countVars, timeVars,
                   attempt, recoveryAttempts, health, monitorVars>>

\* After the backoff: give up on a cancelled context, else lock and close.
BackoffCancelled ==
    /\ recovery = "backoff"
    /\ ctxDone
    /\ recovery' = "done"
    /\ UNCHANGED <<callerVars, sharedVars, forwardVars, countVars, timeVars,
                   attempt, recoveryAttempts, health, monitorVars>>

\* Mutant: the old adapter is left open.
CloseOld_LeavesOpen ==
    /\ recovery = "backoff"
    /\ ~ctxDone
    /\ writeLocked' = TRUE
    /\ recovery' = "factory"
    /\ UNCHANGED <<callerVars, adapter, life, connectionBroken, connectionDown, forwardVars,
                   countVars, timeVars, attempt, recoveryAttempts, health, monitorVars>>

CloseOld ==
    /\ recovery = "backoff"
    /\ ~ctxDone
    /\ writeLocked' = TRUE
    /\ life' = [life EXCEPT ![adapter] = "closed"]
    /\ recovery' = "factory"
    /\ UNCHANGED <<callerVars, adapter, connectionBroken, connectionDown, forwardVars,
                   countVars, timeVars, attempt, recoveryAttempts, health, monitorVars>>

FactoryFails ==
    /\ recovery = "factory"
    /\ writeLocked' = FALSE
    /\ attempt' = attempt + 1
    /\ recovery' = "attempt"
    /\ UNCHANGED <<callerVars, adapter, life, connectionBroken, connectionDown, forwardVars,
                   countVars, timeVars, recoveryAttempts, health, monitorVars>>

\* The forwarders refer to the adapters they hold, and a caller that may still
\* return to the one it closes then.
Referenced ==
    {adapter} \cup {held[f] : f \in Forwarders}
              \cup (IF "return" \in EnvMay /\ ~ownerReturned THEN {First} ELSE {})

\* The new adapter is an object nobody refers to.
FactorySucceeds(new) ==
    /\ recovery = "factory"
    /\ new \in Adapters \ Referenced
    /\ life' = [life EXCEPT ![new] = "up"]
    /\ adapter' = new
    /\ stale' = [f \in Forwarders |-> FALSE]
    /\ writeLocked' = FALSE
    /\ recovery' = "swapped"
    /\ UNCHANGED <<callerVars, connectionBroken, connectionDown, forwardVars, countVars,
                   inCooldown, attempt, recoveryAttempts, health, monitorVars>>

RestoreForwarding ==
    /\ recovery = "swapped"
    /\ connectionBroken' = FALSE
    /\ recovery' = "testing"
    /\ UNCHANGED <<callerVars, adapter, life, writeLocked, connectionDown, forwardVars,
                   countVars, timeVars, attempt, recoveryAttempts, health, monitorVars>>

\* Every outcome of the connectivity test accepts the tunnel; the cooldown
\* starts and the failure counters restart.
AcceptTunnel ==
    /\ recovery = "testing"
    /\ inCooldown' = TRUE
    /\ recoveryAttempts' = 0
    /\ connectionFailures' = 0
    /\ globalFailures' = 0
    /\ recovery' = "drain"
    /\ UNCHANGED <<callerVars, sharedVars, forwardVars, stale, attempt, health, monitorVars>>

DrainSignal ==
    /\ recovery = "drain"
    /\ connectionDown
    /\ connectionDown' = FALSE
    /\ UNCHANGED <<callerVars, adapter, life, writeLocked, connectionBroken, forwardVars,
                   countVars, timeVars, recoveryVars, health, monitorVars>>

DrainComplete ==
    /\ recovery = "drain"
    /\ ~connectionDown
    /\ recovery' = "idle"
    /\ attempt' = 0
    /\ UNCHANGED <<callerVars, sharedVars, forwardVars, countVars, timeVars,
                   recoveryAttempts, health, monitorVars>>

\* Mutant: a failed cycle does not start another.
CycleFailed_NoRetry ==
    /\ recovery = "failed"
    /\ recoveryAttempts' = IF recoveryAttempts + 1 >= MaxRecoveryAttempts
                           THEN 0 ELSE recoveryAttempts + 1
    /\ recovery' = "idle"
    /\ attempt' = 0
    /\ UNCHANGED <<callerVars, sharedVars, forwardVars, countVars, timeVars,
                   health, monitorVars>>

\* After the pause that follows a failed cycle.
CycleFailed ==
    /\ recovery = "failed"
    /\ recoveryAttempts' = IF recoveryAttempts + 1 >= MaxRecoveryAttempts
                           THEN 0 ELSE recoveryAttempts + 1
    /\ connectionDown' = IF ctxDone THEN connectionDown ELSE TRUE
    /\ recovery' = "idle"
    /\ attempt' = 0
    /\ UNCHANGED <<callerVars, adapter, life, writeLocked, connectionBroken, forwardVars,
                   countVars, timeVars, health, monitorVars>>

Recover ==
    \/ RecoveryStops
    \/ TakeSignal
    \/ AttemptTest
    \/ BackoffCancelled
    \/ CloseOld
    \/ FactoryFails
    \/ \E new \in Adapters : FactorySucceeds(new)
    \/ RestoreForwarding
    \/ AcceptTunnel
    \/ DrainSignal
    \/ DrainComplete
    \/ CycleFailed

-----------------------------------------------------------------------------
Next ==
    \/ Cancel
    \/ OwnerReturns
    \/ \E a \in Adapters : NetworkDrops(a)
    \/ \E f \in Forwarders : GoesStale(f)
    \/ CooldownEnds
    \/ \E f \in Forwarders : Forward(f)
    \/ TunError
    \/ ReadCancelled
    \/ Health
    \/ Monitor
    \/ Recover

Spec == Init /\ [][Next]_vars

(***************************************************************************)
(* What the scheduler and the libraries guarantee.  A goroutine that can   *)
(* run does; a select that is asked again and again takes every ready case *)
(* in the end (Go picks at random); an operation on a closed connection,   *)
(* or on a dropped one once QUIC's idle timeout is over, returns an error. *)
(* Nothing makes the TUN device or a working tunnel deliver a packet.  The *)
(* last conjunct is the assumption that the endpoint is not gone for good. *)
(***************************************************************************)
IoReturns(f) ==
    /\ pc[f] = "io"
    /\ life[held[f]] # "up"
    /\ \E e \in Errors : PacketFailed(f, e)

ForwarderRuns(f) ==
    \/ LoopTest(f)
    \/ f = "reader" /\ Capture(f)
    \/ IoReturns(f)
    \/ MarkBroken(f)
    \/ SendDown(f)

Fairness ==
    /\ \A f \in Forwarders : WF_vars(ForwarderRuns(f))
    /\ WF_vars(HealthSignals)
    /\ WF_vars(MonitorMarks \/ MonitorSignals)
    /\ WF_vars(Recover)
    /\ SF_vars(RecoveryStops)
    /\ SF_vars(\E new \in Adapters : FactorySucceeds(new))

FairSpec == Spec /\ Fairness

-----------------------------------------------------------------------------
CallerTypes ==
    /\ ctxDone \in BOOLEAN
    /\ ownerReturned \in BOOLEAN

SharedTypes ==
    /\ adapter \in Adapters
    /\ life \in [Adapters -> {"up", "lost", "closed"}]
    /\ writeLocked \in BOOLEAN
    /\ connectionBroken \in BOOLEAN
    /\ connectionDown \in BOOLEAN

ForwardTypes ==
    /\ pc \in [Forwarders -> {"loop", "ready", "io", "mark", "signal", "done"}]
    /\ held \in [Forwarders -> Adapters \cup {NoAdapter}]
    /\ errs \in [Forwarders -> 0..ErrThreshold]

CountTypes ==
    /\ connectionFailures \in 0..FailureCap
    /\ globalFailures \in 0..GlobalHigh

TimeTypes ==
    /\ stale \in [Forwarders -> BOOLEAN]
    /\ inCooldown \in BOOLEAN

RecoveryTypes ==
    /\ recovery \in {"idle", "attempt", "backoff", "factory", "swapped", "testing",
                     "drain", "failed", "done"}
    /\ attempt \in 0..(MaxReconnectionAttempts + 1)
    /\ recoveryAttempts \in 0..(MaxRecoveryAttempts - 1)

WatcherTypes ==
    /\ health \in {"wait", "signal", "done"}
    /\ monitor \in {"wait", "mark", "signal", "done"}
    /\ monitorResets \in BOOLEAN

\* Every variable keeps its type; in particular no cycle makes more than
\* MaxReconnectionAttempts attempts and no more than MaxRecoveryAttempts cycles
\* fail in a row before the long pause.
TypeOK ==
    /\ CallerTypes
    /\ SharedTypes
    /\ ForwardTypes
    /\ CountTypes
    /\ TimeTypes
    /\ RecoveryTypes
    /\ WatcherTypes

\* A replaced adapter was closed first, so at most one adapter is open.
SingleLiveAdapter ==
    \A a \in Adapters : life[a] # "closed" => a = adapter

\* Recovery is on its way to install a new adapter, or will be.
ReplacementUnderWay ==
    \/ recovery \in {"attempt", "backoff", "factory", "failed"}
    \/ connectionDown

\* The tunnel never rests on an adapter that recovery itself closed: such an
\* adapter is replaced by the running cycle or by one that a pending signal starts.
ClosedAdapterIsReplaced ==
    life[adapter] = "closed" => ReplacementUnderWay \/ ctxDone \/ ownerReturned

\* Somebody is about to send, or recovery has yet to restore forwarding.
WakeupPending ==
    \/ connectionDown
    \/ recovery \in {"attempt", "backoff", "factory", "failed", "swapped"}
    \/ \E f \in Forwarders : pc[f] = "signal"
    \/ monitor = "signal"

\* The waiting forwarders of a suspended tunnel have somebody to wake them.
SuspensionEnds == connectionBroken => WakeupPending \/ ctxDone

\* The one step that leaves a suspended tunnel with nobody to wake it is the
\* drain of connectionDown that ends a successful recovery.
OnlyTheDrainLosesWakeups ==
    [][SuspensionEnds => SuspensionEnds' \/ DrainSignal]_vars

\* Forwarding that a failure suspends resumes, unless the caller shuts down:
\* the "automatic reconnection on connection failures" of maintainMasqueTunnel.
BrokenIsRepaired == connectionBroken ~> (~connectionBroken \/ ctxDone)

\* An adapter that recovery closed is replaced by a working one.
ClosedAdapterIsRenewed ==
    life[adapter] = "closed" ~> (life[adapter] = "up" \/ ctxDone \/ ownerReturned)

\* After the caller's cancellation recovery ends, wherever in its cycle it is and
\* although the monitors may go on signalling: no adapter is created after that.
CancelStopsRecovery == ctxDone ~> [](recovery = "done")

=============================================================================
