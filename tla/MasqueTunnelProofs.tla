------------------------- MODULE MasqueTunnelProofs -------------------------
(***************************************************************************)
(* Proofs about the tunnel supervisor, for every set of adapters and every *)
(* value of the thresholds.                                                *)
(*                                                                         *)
(* TypeOK is inductive together with AttemptsCounted: an attempt that is   *)
(* under way is within the limit, so counting it stays in range.  The two  *)
(* adapter invariants are inductive together with what holds between the   *)
(* close and the swap (ClosedBeforeFactory) and after the swap             *)
(* (OpenAfterSwap).                                                        *)
(***************************************************************************)
EXTENDS MasqueTunnel, TLAPS

\* A running attempt is one of the attempts the loop allows.
AttemptsCounted ==
    recovery \in {"backoff", "factory"} => attempt <= MaxReconnectionAttempts

TypeInv == TypeOK /\ AttemptsCounted

\* The factory runs after the old adapter was closed.
ClosedBeforeFactory == recovery = "factory" => life[adapter] = "closed"

\* Once the new adapter is in place only the owner's deferred Close closes it.
OpenAfterSwap ==
    recovery \in {"swapped", "testing", "drain"}
       => life[adapter] # "closed" \/ ownerReturned

AdapterInv ==
    /\ ClosedBeforeFactory
    /\ OpenAfterSwap
    /\ SingleLiveAdapter
    /\ ClosedAdapterIsReplaced

\* The saturation bound of the failure counter is a positive number.
LEMMA CapIsPositive == FailureCap \in Nat \ {0}
  BY BoundAssumption DEF FailureCap

\* A step that leaves a group of variables alone keeps the group's types.
LEMMA UnchangedTypes ==
    ASSUME TypeInv
    PROVE  /\ UNCHANGED callerVars => CallerTypes'
           /\ UNCHANGED sharedVars => SharedTypes'
           /\ UNCHANGED forwardVars => ForwardTypes'
           /\ UNCHANGED countVars => CountTypes'
           /\ UNCHANGED timeVars => TimeTypes'
           /\ UNCHANGED recoveryVars => RecoveryTypes' /\ AttemptsCounted'
           /\ UNCHANGED <<health, monitorVars>> => WatcherTypes'
  BY DEF TypeInv, TypeOK, AttemptsCounted, CallerTypes, SharedTypes,
      ForwardTypes, CountTypes, TimeTypes, RecoveryTypes, WatcherTypes,
      callerVars, sharedVars, forwardVars, countVars, timeVars, recoveryVars,
      monitorVars

\* The state maintainMasqueTunnel sets up is well typed.
LEMMA InitTypeInv == Init => TypeInv
<1> SUFFICES ASSUME Init PROVE TypeInv
  OBVIOUS
<1>1. CallerTypes /\ SharedTypes /\ TimeTypes /\ WatcherTypes
  BY AdapterAssumption DEF Init, CallerTypes, SharedTypes, TimeTypes, WatcherTypes
<1>2. ForwardTypes
  BY BoundAssumption DEF Init, ForwardTypes
<1>3. CountTypes
  BY BoundAssumption, CapIsPositive DEF Init, CountTypes
<1>4. RecoveryTypes /\ AttemptsCounted
  BY BoundAssumption DEF Init, RecoveryTypes, AttemptsCounted
<1> QED
  BY <1>1, <1>2, <1>3, <1>4 DEF TypeInv, TypeOK

\* It starts with one open adapter, the one it is given.
LEMMA InitAdapterInv == Init => AdapterInv
  BY AdapterAssumption DEF Init, AdapterInv, ClosedBeforeFactory, OpenAfterSwap,
      SingleLiveAdapter, ClosedAdapterIsReplaced

\* Every step of every goroutine keeps the types and the attempt limit.
LEMMA StepTypeInv ==
    ASSUME TypeInv, [Next]_vars
    PROVE  TypeInv'
<1>1. CASE Cancel
  <2>1. CallerTypes'
    BY <1>1 DEF Cancel, TypeInv, TypeOK, CallerTypes
  <2> QED
    BY <1>1, <2>1, UnchangedTypes DEF Cancel, TypeInv, TypeOK
<1>2. CASE OwnerReturns
  <2>1. CallerTypes'
    BY <1>2, AdapterAssumption DEF OwnerReturns, TypeInv, TypeOK, CallerTypes
  <2>2. SharedTypes'
    BY <1>2, AdapterAssumption DEF OwnerReturns, TypeInv, TypeOK, SharedTypes
  <2> QED
    BY <1>2, <2>1, <2>2, UnchangedTypes DEF OwnerReturns, TypeInv, TypeOK
<1>3. ASSUME NEW a \in Adapters, NetworkDrops(a) PROVE TypeInv'
  <2>1. SharedTypes'
    BY <1>3 DEF NetworkDrops, TypeInv, TypeOK, SharedTypes
  <2> QED
    BY <1>3, <2>1, UnchangedTypes DEF NetworkDrops, TypeInv, TypeOK
<1>4. ASSUME NEW f \in Forwarders, GoesStale(f) PROVE TypeInv'
  <2>1. TimeTypes'
    BY <1>4 DEF GoesStale, TypeInv, TypeOK, TimeTypes
  <2> QED
    BY <1>4, <2>1, UnchangedTypes DEF GoesStale, TypeInv, TypeOK
<1>5. CASE CooldownEnds
  <2>1. TimeTypes'
    BY <1>5 DEF CooldownEnds, TypeInv, TypeOK, TimeTypes
  <2> QED
    BY <1>5, <2>1, UnchangedTypes DEF CooldownEnds, TypeInv, TypeOK
<1>6. ASSUME NEW f \in Forwarders, LoopTest(f) PROVE TypeInv'
  <2>1. ForwardTypes'
    BY <1>6, BoundAssumption DEF LoopTest, TypeInv, TypeOK, ForwardTypes
  <2> QED
    BY <1>6, <2>1, UnchangedTypes DEF LoopTest, TypeInv, TypeOK
<1>7. ASSUME NEW f \in Forwarders, Capture(f) PROVE TypeInv'
  <2>1. ForwardTypes'
    BY <1>7, BoundAssumption DEF Capture, SharedTypes, TypeInv, TypeOK,
        ForwardTypes
  <2> QED
    BY <1>7, <2>1, UnchangedTypes DEF Capture, TypeInv, TypeOK
<1>8. ASSUME NEW f \in Forwarders, PacketMoved(f) PROVE TypeInv'
  <2>1. ForwardTypes'
    BY <1>8, BoundAssumption DEF PacketMoved, TypeInv, TypeOK, ForwardTypes
  <2>2. TimeTypes'
    BY <1>8 DEF PacketMoved, TypeInv, TypeOK, TimeTypes
  <2> QED
    BY <1>8, <2>1, <2>2, UnchangedTypes DEF PacketMoved, TypeInv, TypeOK
<1>9. ASSUME NEW f \in Forwarders, NEW e \in Errors, PacketFailed(f, e) PROVE
         TypeInv'
  <2>1. ForwardTypes'
    BY <1>9, BoundAssumption DEF PacketFailed, Bump, TypeInv, TypeOK,
        ForwardTypes
  <2>2. CountTypes'
    BY <1>9, CapIsPositive, BoundAssumption DEF PacketFailed, Bump, countVars,
        TypeInv, TypeOK, CountTypes
  <2> QED
    BY <1>9, <2>1, <2>2, UnchangedTypes DEF PacketFailed, TypeInv, TypeOK
<1>10. ASSUME NEW f \in Forwarders, MarkBroken(f) PROVE TypeInv'
  <2>1. SharedTypes'
    BY <1>10 DEF MarkBroken, TypeInv, TypeOK, SharedTypes
  <2>2. ForwardTypes'
    BY <1>10, BoundAssumption DEF MarkBroken, TypeInv, TypeOK, ForwardTypes
  <2> QED
    BY <1>10, <2>1, <2>2, UnchangedTypes DEF MarkBroken, TypeInv, TypeOK
<1>11. ASSUME NEW f \in Forwarders, SendDown(f) PROVE TypeInv'
  <2>1. SharedTypes'
    BY <1>11 DEF SendDown, Signalled, TypeInv, TypeOK, SharedTypes
  <2>2. ForwardTypes'
    BY <1>11, BoundAssumption DEF SendDown, TypeInv, TypeOK, ForwardTypes
  <2> QED
    BY <1>11, <2>1, <2>2, UnchangedTypes DEF SendDown, TypeInv, TypeOK
<1>12. CASE TunError
  <2>1. ForwardTypes'
    BY <1>12, BoundAssumption DEF TunError, Forwarders, TypeInv, TypeOK,
        ForwardTypes
  <2> QED
    BY <1>12, <2>1, UnchangedTypes DEF TunError, TypeInv, TypeOK
<1>13. CASE ReadCancelled
  <2>1. ForwardTypes'
    BY <1>13, BoundAssumption DEF ReadCancelled, Forwarders, TypeInv, TypeOK,
        ForwardTypes
  <2> QED
    BY <1>13, <2>1, UnchangedTypes DEF ReadCancelled, TypeInv, TypeOK
<1>14. CASE HealthTick
  <2>1. WatcherTypes'
    BY <1>14 DEF HealthTick, monitorVars, TypeInv, TypeOK, WatcherTypes
  <2> QED
    BY <1>14, <2>1, UnchangedTypes DEF HealthTick, TypeInv, TypeOK
<1>15. CASE HealthSignals
  <2>1. SharedTypes'
    BY <1>15 DEF HealthSignals, Signalled, TypeInv, TypeOK, SharedTypes
  <2>2. WatcherTypes'
    BY <1>15 DEF HealthSignals, monitorVars, TypeInv, TypeOK, WatcherTypes
  <2> QED
    BY <1>15, <2>1, <2>2, UnchangedTypes DEF HealthSignals, TypeInv, TypeOK
<1>16. CASE HealthStops
  <2>1. WatcherTypes'
    BY <1>16 DEF HealthStops, monitorVars, TypeInv, TypeOK, WatcherTypes
  <2> QED
    BY <1>16, <2>1, UnchangedTypes DEF HealthStops, TypeInv, TypeOK
<1>17. ASSUME NEW window \in {"under120", "upTo300", "over300"}, NEW
         globalWindow \in BOOLEAN, MonitorTick(window, globalWindow) PROVE
         TypeInv'
  <2>1. CountTypes'
    BY <1>17, CapIsPositive, BoundAssumption DEF MonitorTick, TypeInv, TypeOK,
        CountTypes
  <2>2. WatcherTypes'
    BY <1>17 DEF MonitorTick, monitorVars, CounterExpired, TypeInv, TypeOK,
        WatcherTypes
  <2> QED
    BY <1>17, <2>1, <2>2, UnchangedTypes DEF MonitorTick, TypeInv, TypeOK
<1>18. CASE MonitorMarks
  <2>1. SharedTypes'
    BY <1>18 DEF MonitorMarks, TypeInv, TypeOK, SharedTypes
  <2>2. WatcherTypes'
    BY <1>18 DEF MonitorMarks, TypeInv, TypeOK, WatcherTypes
  <2> QED
    BY <1>18, <2>1, <2>2, UnchangedTypes DEF MonitorMarks, TypeInv, TypeOK
<1>19. CASE MonitorSignals
  <2>1. SharedTypes'
    BY <1>19 DEF MonitorSignals, Signalled, TypeInv, TypeOK, SharedTypes
  <2>2. CountTypes'
    BY <1>19, CapIsPositive, BoundAssumption DEF MonitorSignals,
        TypeInv, TypeOK, CountTypes
  <2>3. WatcherTypes'
    BY <1>19 DEF MonitorSignals, TypeInv, TypeOK, WatcherTypes
  <2> QED
    BY <1>19, <2>1, <2>2, <2>3, UnchangedTypes DEF MonitorSignals, TypeInv,
        TypeOK
<1>20. CASE MonitorStops
  <2>1. WatcherTypes'
    BY <1>20 DEF MonitorStops, monitorVars, TypeInv, TypeOK, WatcherTypes
  <2> QED
    BY <1>20, <2>1, UnchangedTypes DEF MonitorStops, TypeInv, TypeOK
<1>21. CASE RecoveryStops
  <2>1. RecoveryTypes' /\ AttemptsCounted'
    BY <1>21, BoundAssumption DEF RecoveryStops, TypeInv, TypeOK,
        AttemptsCounted, RecoveryTypes
  <2> QED
    BY <1>21, <2>1, UnchangedTypes DEF RecoveryStops, TypeInv, TypeOK
<1>22. CASE TakeSignal
  <2>1. SharedTypes'
    BY <1>22 DEF TakeSignal, TypeInv, TypeOK, SharedTypes
  <2>2. RecoveryTypes' /\ AttemptsCounted'
    BY <1>22, BoundAssumption DEF TakeSignal, TypeInv, TypeOK, AttemptsCounted,
        RecoveryTypes
  <2> QED
    BY <1>22, <2>1, <2>2, UnchangedTypes DEF TakeSignal, TypeInv, TypeOK
<1>23. CASE AttemptTest
  <2>1. RecoveryTypes' /\ AttemptsCounted'
    BY <1>23, BoundAssumption DEF AttemptTest, TypeInv, TypeOK, AttemptsCounted,
        RecoveryTypes
  <2> QED
    BY <1>23, <2>1, UnchangedTypes DEF AttemptTest, TypeInv, TypeOK
<1>24. CASE BackoffCancelled
  <2>1. RecoveryTypes' /\ AttemptsCounted'
    BY <1>24, BoundAssumption DEF BackoffCancelled, TypeInv, TypeOK,
        AttemptsCounted, RecoveryTypes
  <2> QED
    BY <1>24, <2>1, UnchangedTypes DEF BackoffCancelled, TypeInv, TypeOK
<1>25. CASE CloseOld
  <2>1. SharedTypes'
    BY <1>25 DEF CloseOld, TypeInv, TypeOK, SharedTypes
  <2>2. RecoveryTypes' /\ AttemptsCounted'
    BY <1>25, BoundAssumption DEF CloseOld, TypeInv, TypeOK, AttemptsCounted,
        RecoveryTypes
  <2> QED
    BY <1>25, <2>1, <2>2, UnchangedTypes DEF CloseOld, TypeInv, TypeOK
<1>26. CASE FactoryFails
  <2>1. SharedTypes'
    BY <1>26 DEF FactoryFails, TypeInv, TypeOK, SharedTypes
  <2>2. RecoveryTypes' /\ AttemptsCounted'
    BY <1>26, BoundAssumption DEF FactoryFails, TypeInv, TypeOK, AttemptsCounted,
        RecoveryTypes
  <2> QED
    BY <1>26, <2>1, <2>2, UnchangedTypes DEF FactoryFails, TypeInv, TypeOK
<1>27. ASSUME NEW new \in Adapters, FactorySucceeds(new) PROVE TypeInv'
  <2>1. SharedTypes'
    BY <1>27 DEF FactorySucceeds, Referenced, TypeInv, TypeOK, SharedTypes
  <2>2. TimeTypes'
    BY <1>27 DEF FactorySucceeds, Referenced, Forwarders, TypeInv, TypeOK, TimeTypes
  <2>3. RecoveryTypes' /\ AttemptsCounted'
    BY <1>27, BoundAssumption DEF FactorySucceeds, Referenced, TypeInv, TypeOK,
        AttemptsCounted, RecoveryTypes
  <2> QED
    BY <1>27, <2>1, <2>2, <2>3, UnchangedTypes DEF FactorySucceeds, Referenced, TypeInv,
        TypeOK
<1>28. CASE RestoreForwarding
  <2>1. SharedTypes'
    BY <1>28 DEF RestoreForwarding, TypeInv, TypeOK, SharedTypes
  <2>2. RecoveryTypes' /\ AttemptsCounted'
    BY <1>28, BoundAssumption DEF RestoreForwarding, TypeInv, TypeOK,
        AttemptsCounted, RecoveryTypes
  <2> QED
    BY <1>28, <2>1, <2>2, UnchangedTypes DEF RestoreForwarding, TypeInv, TypeOK
<1>29. CASE AcceptTunnel
  <2>1. CountTypes'
    BY <1>29, CapIsPositive, BoundAssumption DEF AcceptTunnel, TypeInv, TypeOK,
        CountTypes
  <2>2. TimeTypes'
    BY <1>29 DEF AcceptTunnel, TypeInv, TypeOK, TimeTypes
  <2>3. RecoveryTypes' /\ AttemptsCounted'
    BY <1>29, BoundAssumption DEF AcceptTunnel, TypeInv, TypeOK, AttemptsCounted,
        RecoveryTypes
  <2> QED
    BY <1>29, <2>1, <2>2, <2>3, UnchangedTypes DEF AcceptTunnel, TypeInv, TypeOK
<1>30. CASE DrainSignal
  <2>1. SharedTypes'
    BY <1>30 DEF DrainSignal, TypeInv, TypeOK, SharedTypes
  <2> QED
    BY <1>30, <2>1, UnchangedTypes DEF DrainSignal, TypeInv, TypeOK
<1>31. CASE DrainComplete
  <2>1. RecoveryTypes' /\ AttemptsCounted'
    BY <1>31, BoundAssumption DEF DrainComplete, TypeInv, TypeOK,
        AttemptsCounted, RecoveryTypes
  <2> QED
    BY <1>31, <2>1, UnchangedTypes DEF DrainComplete, TypeInv, TypeOK
<1>32. CASE CycleFailed
  <2>1. SharedTypes'
    BY <1>32 DEF CycleFailed, TypeInv, TypeOK, SharedTypes
  <2>2. RecoveryTypes' /\ AttemptsCounted'
    BY <1>32, BoundAssumption DEF CycleFailed, TypeInv, TypeOK, AttemptsCounted,
        RecoveryTypes
  <2> QED
    BY <1>32, <2>1, <2>2, UnchangedTypes DEF CycleFailed, TypeInv, TypeOK
<1>u. CASE UNCHANGED vars
  BY <1>u, UnchangedTypes DEF vars, TypeInv, TypeOK
<1> QED
  BY <1>1, <1>2, <1>3, <1>4, <1>5, <1>6, <1>7, <1>8, <1>9, <1>10, <1>11, <1>12,
      <1>13, <1>14, <1>15, <1>16, <1>17, <1>18, <1>19, <1>20, <1>21, <1>22,
      <1>23, <1>24, <1>25, <1>26, <1>27, <1>28, <1>29, <1>30, <1>31, <1>32,
      <1>u DEF Next, Forward, Health, Monitor, Recover

\* A step that neither moves recovery nor touches the adapters, and takes no
\* signal, leaves the adapter facts as they are.
LEMMA AdapterInvUndisturbed ==
    ASSUME AdapterInv,
           UNCHANGED <<callerVars, adapter, life, recovery>>,
           connectionDown => connectionDown'
    PROVE  AdapterInv'
  BY DEF AdapterInv, ClosedBeforeFactory, OpenAfterSwap, SingleLiveAdapter,
      ClosedAdapterIsReplaced, ReplacementUnderWay, callerVars

\* Every step keeps the adapter facts: close comes before the factory, the swap
\* installs an open adapter, and a failed cycle signals again.
LEMMA StepAdapterInv ==
    ASSUME TypeInv, AdapterInv, [Next]_vars
    PROVE  AdapterInv'
<1> USE DEF TypeInv, TypeOK, CallerTypes, SharedTypes, AdapterInv,
        ClosedBeforeFactory, OpenAfterSwap, SingleLiveAdapter,
        ClosedAdapterIsReplaced, ReplacementUnderWay
<1>1. CASE Cancel
  BY <1>1 DEF Cancel, sharedVars, recoveryVars
<1>2. CASE OwnerReturns
  BY <1>2 DEF OwnerReturns, recoveryVars
<1>3. ASSUME NEW a \in Adapters, NetworkDrops(a) PROVE AdapterInv'
  BY <1>3 DEF NetworkDrops, callerVars, recoveryVars
<1>4. CASE (\E f \in Forwarders : GoesStale(f)) \/ CooldownEnds \/ TunError \/ ReadCancelled
  BY <1>4, AdapterInvUndisturbed DEF GoesStale, CooldownEnds, TunError,
      ReadCancelled, sharedVars, recoveryVars
<1>5. ASSUME NEW f \in Forwarders, Forward(f) PROVE AdapterInv'
  BY <1>5, AdapterInvUndisturbed DEF Forward, LoopTest, Capture, PacketMoved,
      PacketFailed, MarkBroken, SendDown, Signalled, sharedVars, recoveryVars
<1>6. CASE Health
  BY <1>6, AdapterInvUndisturbed DEF Health, HealthTick, HealthSignals,
      HealthStops, Signalled, sharedVars, recoveryVars
<1>7. CASE Monitor
  BY <1>7, AdapterInvUndisturbed DEF Monitor, MonitorTick, MonitorMarks,
      MonitorSignals, MonitorStops, Signalled, sharedVars, recoveryVars
<1>8. CASE RecoveryStops
  BY <1>8 DEF RecoveryStops, callerVars, sharedVars, forwardVars, countVars,
      timeVars, monitorVars
<1>9. CASE TakeSignal
  BY <1>9 DEF TakeSignal, callerVars, forwardVars, countVars, timeVars,
      monitorVars
<1>10. CASE AttemptTest
  BY <1>10 DEF AttemptTest, callerVars, sharedVars, forwardVars, countVars,
      timeVars, monitorVars
<1>11. CASE BackoffCancelled
  BY <1>11 DEF BackoffCancelled, callerVars, sharedVars, forwardVars,
      countVars, timeVars, monitorVars
<1>12. CASE CloseOld
  BY <1>12 DEF CloseOld, callerVars, forwardVars, countVars, timeVars,
      monitorVars
<1>13. CASE FactoryFails
  BY <1>13 DEF FactoryFails, callerVars, forwardVars, countVars, timeVars,
      monitorVars
<1>14. ASSUME NEW new \in Adapters, FactorySucceeds(new) PROVE AdapterInv'
  BY <1>14 DEF FactorySucceeds, Referenced, callerVars, forwardVars, countVars, monitorVars
<1>15. CASE RestoreForwarding
  BY <1>15 DEF RestoreForwarding, callerVars, forwardVars, countVars, timeVars,
      monitorVars
<1>16. CASE AcceptTunnel
  BY <1>16 DEF AcceptTunnel, callerVars, sharedVars, forwardVars, monitorVars
<1>17. CASE DrainSignal
  BY <1>17 DEF DrainSignal, callerVars, forwardVars, countVars, timeVars,
      recoveryVars, monitorVars
<1>18. CASE DrainComplete
  BY <1>18 DEF DrainComplete, callerVars, sharedVars, forwardVars, countVars,
      timeVars, monitorVars
<1>19. CASE CycleFailed
  BY <1>19 DEF CycleFailed, callerVars, forwardVars, countVars, timeVars,
      monitorVars
<1>u. CASE UNCHANGED vars
  BY <1>u, AdapterInvUndisturbed DEF vars, sharedVars, recoveryVars
<1> HIDE DEF TypeInv, TypeOK, CallerTypes, SharedTypes, AdapterInv,
        ClosedBeforeFactory, OpenAfterSwap, SingleLiveAdapter,
        ClosedAdapterIsReplaced, ReplacementUnderWay
<1> QED
  BY <1>1, <1>2, <1>3, <1>4, <1>5, <1>6, <1>7, <1>8, <1>9, <1>10, <1>11, <1>12,
      <1>13, <1>14, <1>15, <1>16, <1>17, <1>18, <1>19, <1>u DEF Next, Recover

\* Every reachable state is well typed, and the attempt and cycle counters of
\* the recovery goroutine never pass their limits.
THEOREM TypeCorrect == Spec => []TypeOK
<1>1. Spec => []TypeInv
  BY InitTypeInv, StepTypeInv, PTL DEF Spec
<1>2. TypeInv => TypeOK
  BY DEF TypeInv
<1> QED
  BY <1>1, <1>2, PTL

\* The inductive invariants hold in every reachable state.
LEMMA InvariantHolds == Spec => [](TypeInv /\ AdapterInv)
  BY InitTypeInv, InitAdapterInv, StepTypeInv, StepAdapterInv, PTL DEF Spec

\* Recovery never holds two open MASQUE connections: the adapter in place is
\* closed before the factory creates its successor.
THEOREM OneLiveAdapter == Spec => []SingleLiveAdapter
<1>1. AdapterInv => SingleLiveAdapter
  BY DEF AdapterInv
<1> QED
  BY <1>1, InvariantHolds, PTL

\* A tunnel never rests on an adapter that recovery closed while nobody is on
\* the way to replace it.
THEOREM NoAdapterLeftClosed == Spec => []ClosedAdapterIsReplaced
<1>1. AdapterInv => ClosedAdapterIsReplaced
  BY DEF AdapterInv
<1> QED
  BY <1>1, InvariantHolds, PTL

\* A step that leaves the flag, recovery and every pending send alone, and takes
\* no signal, cannot strand the forwarders.
LEMMA WakeupUndisturbed ==
    ASSUME SuspensionEnds,
           UNCHANGED <<ctxDone, connectionBroken, recovery>>,
           connectionDown => connectionDown',
           \A f \in Forwarders : pc[f] = "signal" => pc'[f] = "signal" \/ connectionDown',
           monitor = "signal" => monitor' = "signal" \/ connectionDown'
    PROVE  SuspensionEnds'
  BY DEF SuspensionEnds, WakeupPending

\* No step but the drain leaves a suspended tunnel without somebody to wake it.
LEMMA StepWakeup ==
    ASSUME TypeInv, SuspensionEnds, Next
    PROVE  SuspensionEnds' \/ DrainSignal
<1> USE DEF TypeInv, TypeOK, ForwardTypes, SharedTypes
<1>1. CASE Cancel
  BY <1>1 DEF Cancel, SuspensionEnds
<1>2. CASE \/ OwnerReturns
           \/ \E a \in Adapters : NetworkDrops(a)
           \/ \E f \in Forwarders : GoesStale(f)
           \/ CooldownEnds
  BY <1>2, WakeupUndisturbed DEF OwnerReturns, NetworkDrops, GoesStale,
      CooldownEnds, callerVars, sharedVars, forwardVars, recoveryVars,
      monitorVars
<1>3. CASE TunError \/ ReadCancelled
  BY <1>3, WakeupUndisturbed DEF TunError, ReadCancelled, Forwarders,
      callerVars, sharedVars, forwardVars, recoveryVars, monitorVars
<1>4. ASSUME NEW f \in Forwarders, LoopTest(f) PROVE SuspensionEnds'
  BY <1>4, WakeupUndisturbed DEF LoopTest, Signalled, callerVars, sharedVars,
      forwardVars, recoveryVars, monitorVars
<1>5. ASSUME NEW f \in Forwarders, Capture(f) PROVE SuspensionEnds'
  BY <1>5, WakeupUndisturbed DEF Capture, Signalled, callerVars, sharedVars,
      forwardVars, recoveryVars, monitorVars
<1>6. ASSUME NEW f \in Forwarders, PacketMoved(f) PROVE SuspensionEnds'
  BY <1>6, WakeupUndisturbed DEF PacketMoved, Signalled, callerVars,
      sharedVars, forwardVars, recoveryVars, monitorVars
<1>7. ASSUME NEW f \in Forwarders, NEW e \in Errors, PacketFailed(f, e) PROVE SuspensionEnds'
  BY <1>7, WakeupUndisturbed DEF PacketFailed, Signalled, callerVars,
      sharedVars, forwardVars, recoveryVars, monitorVars
<1>8. ASSUME NEW f \in Forwarders, SendDown(f) PROVE SuspensionEnds'
  BY <1>8, WakeupUndisturbed DEF SendDown, Signalled, callerVars, sharedVars,
      forwardVars, recoveryVars, monitorVars
<1>9. ASSUME NEW f \in Forwarders, MarkBroken(f) PROVE SuspensionEnds'
  BY <1>9 DEF MarkBroken, SuspensionEnds, WakeupPending, callerVars,
      sharedVars, forwardVars, recoveryVars, monitorVars
<1>10. CASE Health
  BY <1>10, WakeupUndisturbed DEF Health, HealthTick, HealthSignals,
      HealthStops, Signalled, callerVars, sharedVars, forwardVars, recoveryVars,
      monitorVars
<1>11. ASSUME NEW window \in {"under120", "upTo300", "over300"}, NEW globalWindow \in BOOLEAN,
             MonitorTick(window, globalWindow)
      PROVE  SuspensionEnds'
  BY <1>11, WakeupUndisturbed DEF MonitorTick, callerVars, sharedVars,
      forwardVars, recoveryVars, monitorVars
<1>12. CASE MonitorMarks
  BY <1>12 DEF MonitorMarks, SuspensionEnds, WakeupPending,
      callerVars, sharedVars, forwardVars, recoveryVars, monitorVars
<1>13. CASE MonitorSignals
  BY <1>13, WakeupUndisturbed DEF MonitorSignals, Signalled,
      callerVars, sharedVars, forwardVars, recoveryVars, monitorVars
<1>14. CASE MonitorStops
  BY <1>14, WakeupUndisturbed DEF MonitorStops, callerVars, sharedVars,
      forwardVars, recoveryVars, monitorVars
<1>15. CASE RestoreForwarding
  BY <1>15 DEF RestoreForwarding, SuspensionEnds, WakeupPending
<1>16. CASE RecoveryStops
  BY <1>16 DEF RecoveryStops, SuspensionEnds, WakeupPending, callerVars,
      sharedVars, forwardVars, recoveryVars, monitorVars
<1>17. CASE TakeSignal
  BY <1>17 DEF TakeSignal, SuspensionEnds, WakeupPending, callerVars,
      sharedVars, forwardVars, recoveryVars, monitorVars
<1>18. CASE AttemptTest
  BY <1>18 DEF AttemptTest, SuspensionEnds, WakeupPending, callerVars,
      sharedVars, forwardVars, recoveryVars, monitorVars
<1>19. CASE BackoffCancelled
  BY <1>19 DEF BackoffCancelled, SuspensionEnds, WakeupPending, callerVars,
      sharedVars, forwardVars, recoveryVars, monitorVars
<1>20. CASE CloseOld
  BY <1>20 DEF CloseOld, SuspensionEnds, WakeupPending, callerVars, sharedVars,
      forwardVars, recoveryVars, monitorVars
<1>21. CASE FactoryFails
  BY <1>21 DEF FactoryFails, SuspensionEnds, WakeupPending, callerVars,
      sharedVars, forwardVars, recoveryVars, monitorVars
<1>22. ASSUME NEW new \in Adapters, FactorySucceeds(new) PROVE SuspensionEnds'
  BY <1>22 DEF FactorySucceeds, Referenced, SuspensionEnds, WakeupPending, callerVars,
      sharedVars, forwardVars, recoveryVars, monitorVars
<1>23. CASE AcceptTunnel
  BY <1>23 DEF AcceptTunnel, SuspensionEnds, WakeupPending, callerVars,
      sharedVars, forwardVars, recoveryVars, monitorVars
<1>24. CASE DrainComplete
  BY <1>24 DEF DrainComplete, SuspensionEnds, WakeupPending, callerVars,
      sharedVars, forwardVars, recoveryVars, monitorVars
<1>25. CASE CycleFailed
  BY <1>25 DEF CycleFailed, SuspensionEnds, WakeupPending, callerVars,
      sharedVars, forwardVars, recoveryVars, monitorVars
<1> HIDE DEF TypeInv, TypeOK, ForwardTypes, SharedTypes
<1> QED
  BY <1>1, <1>2, <1>3, <1>4, <1>5, <1>6, <1>7, <1>8, <1>9, <1>10, <1>11, <1>12,
      <1>13, <1>14, <1>15, <1>16, <1>17, <1>18, <1>19, <1>20, <1>21, <1>22,
      <1>23, <1>24, <1>25 DEF Next, Forward, Monitor, Recover

\* Whatever the goroutines interleave, the only step that strands suspended
\* forwarders is the drain of connectionDown after a successful recovery.
THEOREM WakeupsSurvive == Spec => OnlyTheDrainLosesWakeups
<1>1. ASSUME TypeInv, [Next]_vars
      PROVE  [SuspensionEnds => SuspensionEnds' \/ DrainSignal]_vars
  BY <1>1, StepWakeup
<1>2. Spec => []TypeInv
  BY InitTypeInv, StepTypeInv, PTL DEF Spec
<1> QED
  BY <1>1, <1>2, PTL DEF Spec, OnlyTheDrainLosesWakeups

=============================================================================
