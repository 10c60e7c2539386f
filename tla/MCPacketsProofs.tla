-------------------------- MODULE MCPacketsProofs --------------------------
(***************************************************************************)
(* Proofs about the parts a packet passes through. They share nothing, so  *)
(* each part has an inductive invariant of its own, kept by its own steps  *)
(* and untouched by the others': here the pool, the tun devices, tun2socks,*)
(* a responder under load and the trie of allowed addresses, in            *)
(* MCWireProofs the replay filter, the sockets and the two obfuscations.   *)
(***************************************************************************)
EXTENDS MCPackets, DataLemmas, FiniteSetTheorems, SequenceTheorems, TLAPS

-----------------------------------------------------------------------------
(* The pool, for any number of goroutines, any limit and any number of     *)
(* rounds.  The limit holds although Put counts down without the lock,     *)
(* because the test and the count of Get are under it and Put only makes   *)
(* room; the counter is exact because every Take has one Put.              *)

Locations == {"outside", "lock", "test", "wait", "asleep", "take", "holding", "signal"}

\* The types, without the limit on count.
Shapes ==
    /\ count \in Int
    /\ lock \in Procs \cup {Nobody}
    /\ waiters \in Seq(Procs)
    /\ pc \in [Procs -> Locations]
    /\ left \in [Procs -> 0..Rounds]

\* A goroutine between Lock and Unlock holds the mutex.
LockHeld == \A p \in Procs : pc[p] \in {"test", "wait", "take"} => lock = p

\* A test that found room is not overtaken by another Take.
RoomToTake == \A p \in Procs : pc[p] = "take" => count < Max

\* Who is in the list sleeps, and is there once: a signal wakes nobody else.
ListSleeps ==
    /\ \A n \in 1..Len(waiters) : pc[waiters[n]] = "asleep"
    /\ \A m, n \in 1..Len(waiters) : waiters[m] = waiters[n] => m = n

PoolInv ==
    /\ Shapes
    /\ LockHeld
    /\ RoomToTake
    /\ ListSleeps
    /\ CountIsUsers
    /\ count <= Max

-----------------------------------------------------------------------------
\* One goroutine joins or leaves the users, and the cardinality follows it.
LEMMA UserCounts ==
    ASSUME NEW S \in SUBSET Procs, NEW p \in Procs
    PROVE  /\ IsFiniteSet(S)
           /\ Cardinality(S) \in Nat
           /\ p \notin S => Cardinality(S \cup {p}) = Cardinality(S) + 1
           /\ p \in S => Cardinality(S \ {p}) = Cardinality(S) - 1
  BY PoolAssumption, FS_Subset, FS_CardinalityType, FS_AddElement, FS_RemoveElement

\* The initial pool is unused, unlocked and has nobody waiting.
LEMMA PoolInit == Init => PoolInv
  <1> SUFFICES ASSUME Init PROVE PoolInv OBVIOUS
  <1> USE DEF Init
  <1>1. Shapes BY PoolAssumption DEF Shapes, Locations
  <1>2. Users = {} BY DEF Users
  <1>3. CountIsUsers BY <1>2, FS_EmptySet DEF CountIsUsers
  <1>4. LockHeld /\ RoomToTake /\ ListSleeps BY DEF LockHeld, RoomToTake, ListSleeps
  <1>5. count <= Max BY PoolAssumption
  <1> QED BY <1>1, <1>3, <1>4, <1>5 DEF PoolInv

\* Steps that move one goroutine between places that do not count as using an
\* element leave the users alone.
LEMMA UsersKept ==
    ASSUME PoolInv, NEW p \in Procs, NEW l \in Locations \ {"holding"},
           pc[p] # "holding", Goto(p, l)
    PROVE  /\ pc' \in [Procs -> Locations]
           /\ Users' = Users
  BY DEF PoolInv, Shapes, Goto, Users

\* Every step of a goroutine keeps the invariant.
LEMMA PoolStep ==
    ASSUME PoolInv, NEW p \in Procs, Step(p)
    PROVE  PoolInv'
  <1> USE PoolAssumption DEF PoolInv
  <1>t. Shapes OBVIOUS
  <1>1. CASE Get(p)
    <2> USE <1>1 DEF Get
    <2>1. pc' \in [Procs -> Locations] /\ Users' = Users
      BY UsersKept DEF Locations
    <2>2. CountIsUsers' BY <2>1 DEF CountIsUsers
    <2>3. Shapes' BY <1>t, <2>1 DEF Shapes
    <2>4. (LockHeld /\ RoomToTake /\ ListSleeps)'
      BY <1>t DEF Shapes, Goto, LockHeld, RoomToTake, ListSleeps
    <2> QED BY <2>2, <2>3, <2>4
  <1>2. CASE Lock(p)
    <2> USE <1>2 DEF Lock
    <2>1. pc' \in [Procs -> Locations] /\ Users' = Users
      BY UsersKept DEF Locations
    <2>2. CountIsUsers' BY <2>1 DEF CountIsUsers
    <2>3. Shapes' BY <1>t, <2>1 DEF Shapes
    <2>4. (LockHeld /\ RoomToTake /\ ListSleeps)'
      BY <1>t DEF Shapes, Goto, LockHeld, RoomToTake, ListSleeps
    <2> QED BY <2>2, <2>3, <2>4
  <1>3. CASE Test(p)
    <2> USE <1>3 DEF Test
    <2>1. pc' \in [Procs -> Locations] /\ Users' = Users
      BY UsersKept DEF Locations
    <2>2. CountIsUsers' BY <2>1 DEF CountIsUsers
    <2>3. Shapes' BY <1>t, <2>1 DEF Shapes
    <2>4. (LockHeld /\ RoomToTake /\ ListSleeps)'
      BY <1>t DEF Shapes, Goto, LockHeld, RoomToTake, ListSleeps, Full
    <2> QED BY <2>2, <2>3, <2>4
  <1>4. CASE Wait(p)
    <2> USE <1>4 DEF Wait
    <2>1. pc' \in [Procs -> Locations] /\ Users' = Users
      BY UsersKept DEF Locations
    <2>2. CountIsUsers' BY <2>1 DEF CountIsUsers
    <2>3. /\ waiters' \in Seq(Procs)
          /\ Len(waiters') = Len(waiters) + 1
          /\ \A n \in 1..Len(waiters) : waiters'[n] = waiters[n]
          /\ waiters'[Len(waiters) + 1] = p
      BY <1>t DEF Shapes
    <2>4. Shapes' BY <1>t, <2>1, <2>3 DEF Shapes
    <2>5. (LockHeld /\ RoomToTake)'
      BY <1>t DEF Shapes, Goto, LockHeld, RoomToTake
    <2>6. ListSleeps'
      BY <1>t, <2>3 DEF Shapes, Goto, ListSleeps
    <2> QED BY <2>2, <2>4, <2>5, <2>6
  <1>5. CASE Take(p)
    <2> USE <1>5 DEF Take
    <2>1. pc' \in [Procs -> Locations] BY <1>t DEF Shapes, Goto, Locations
    <2>2. Users' = Users \cup {p} /\ p \notin Users
      BY <1>t DEF Shapes, Goto, Users
    <2>3. CountIsUsers'
      BY <2>2, UserCounts DEF CountIsUsers, Users
    <2>4. Shapes' BY <1>t, <2>1 DEF Shapes
    <2>5. (LockHeld /\ RoomToTake /\ ListSleeps)'
      BY <1>t DEF Shapes, Goto, LockHeld, RoomToTake, ListSleeps
    <2>6. count' <= Max BY <1>t DEF RoomToTake, Shapes
    <2> QED BY <2>3, <2>4, <2>5, <2>6
  <1>6. CASE Put(p)
    <2> USE <1>6 DEF Put
    <2>1. pc' \in [Procs -> Locations] BY <1>t DEF Shapes, Goto, Locations
    <2>2. Users' = Users \ {p} /\ p \in Users
      BY <1>t DEF Shapes, Goto, Users
    <2>3. CountIsUsers'
      BY <2>2, UserCounts DEF CountIsUsers, Users
    <2>4. Shapes' BY <1>t, <2>1 DEF Shapes
    <2>5. (LockHeld /\ RoomToTake /\ ListSleeps)'
      BY <1>t DEF Shapes, Goto, LockHeld, RoomToTake, ListSleeps
    <2>6. count' <= Max BY <1>t DEF Shapes
    <2> QED BY <2>3, <2>4, <2>5, <2>6
  <1>7. CASE Signal(p)
    <2> USE <1>7 DEF Signal
    <2>1. CASE waiters = <<>>
      <3> USE <2>1
      <3>1. pc' \in [Procs -> Locations] /\ Users' = Users
        BY UsersKept DEF Locations
      <3>2. CountIsUsers' BY <3>1 DEF CountIsUsers
      <3>3. Shapes' BY <1>t, <3>1 DEF Shapes
      <3>4. (LockHeld /\ RoomToTake /\ ListSleeps)'
        BY <1>t DEF Shapes, Goto, LockHeld, RoomToTake, ListSleeps
      <3> QED BY <3>2, <3>3, <3>4
    <2>2. CASE waiters # <<>>
      <3> USE <2>2
      <3>1. /\ Head(waiters) = waiters[1]
            /\ Len(waiters) >= 1
            /\ Head(waiters) \in Procs
            /\ waiters' \in Seq(Procs)
            /\ Len(waiters') = Len(waiters) - 1
            /\ \A n \in 1..Len(waiters') : waiters'[n] = waiters[n + 1]
        <4>1. waiters \in Seq(Procs) /\ waiters' = Tail(waiters) BY <1>t DEF Shapes
        <4> HIDE <1>7
        <4>2. Len(waiters) \in Nat /\ Len(waiters) # 0 BY <4>1, EmptySeq
        <4> QED BY <4>1, <4>2, HeadTailProperties
      <3>2. pc[Head(waiters)] = "asleep" BY <3>1, <1>t DEF ListSleeps, Shapes
      <3>3. pc' \in [Procs -> Locations] /\ Users' = Users
        <4>1. pc' = [pc EXCEPT ![p] = "outside", ![Head(waiters)] = "lock"]
          OBVIOUS
        <4>2. Head(waiters) # p BY <3>2
        <4>3. pc' \in [Procs -> Locations] BY <4>1, <3>1, <1>t DEF Shapes, Locations
        <4>4. \A q \in Procs : pc'[q] = "holding" <=> pc[q] = "holding"
          BY <4>1, <4>2, <3>1, <3>2, <1>t DEF Shapes
        <4> QED BY <4>3, <4>4 DEF Users
      <3>4. CountIsUsers' BY <3>3 DEF CountIsUsers
      <3>5. Shapes' BY <1>t, <3>1, <3>3 DEF Shapes
      <3>6. (LockHeld /\ RoomToTake)'
        BY <1>t, <3>1 DEF Shapes, LockHeld, RoomToTake
      <3>7. ListSleeps'
        <4>1. ASSUME NEW n \in 1..Len(waiters') PROVE pc'[waiters'[n]] = "asleep"
          <5>1. n + 1 \in 1..Len(waiters) /\ 1 \in 1..Len(waiters) /\ n + 1 # 1
            BY <3>1, <1>t DEF Shapes
          <5>2. waiters[n + 1] # Head(waiters) /\ waiters[n + 1] \in Procs
            BY <5>1, <3>1, <1>t DEF ListSleeps, Shapes
          <5>3. waiters'[n] = waiters[n + 1] BY <3>1
          <5>4. pc[waiters[n + 1]] = "asleep" BY <5>1 DEF ListSleeps
          <5>5. waiters[n + 1] # p BY <5>4
          <5>6. pc' = [pc EXCEPT ![p] = "outside", ![Head(waiters)] = "lock"]
            OBVIOUS
          <5> HIDE <1>7, <2>2
          <5>7. pc'[waiters[n + 1]] = pc[waiters[n + 1]]
            BY <5>2, <5>5, <5>6, <3>1, <1>t DEF Shapes
          <5> QED BY <5>3, <5>4, <5>7
        <4>2. \A m, n \in 1..Len(waiters') : waiters'[m] = waiters'[n] => m = n
          <5> SUFFICES ASSUME NEW m \in 1..Len(waiters'), NEW n \in 1..Len(waiters'),
                              waiters'[m] = waiters'[n]
                       PROVE  m = n
            OBVIOUS
          <5>1. Len(waiters) \in Nat BY <1>t DEF Shapes
          <5>2. m + 1 \in 1..Len(waiters) /\ n + 1 \in 1..Len(waiters) BY <5>1, <3>1
          <5>3. waiters[m + 1] = waiters[n + 1] BY <3>1
          <5>4. m + 1 = n + 1 BY <5>2, <5>3 DEF ListSleeps
          <5> QED BY <5>4
        <4> QED BY <4>1, <4>2 DEF ListSleeps
      <3> QED BY <3>4, <3>5, <3>6, <3>7
    <2> QED BY <2>1, <2>2
  <1> QED BY <1>1, <1>2, <1>3, <1>4, <1>5, <1>6, <1>7 DEF Step

\* A step that changes nothing keeps the invariant.
LEMMA PoolStutter == PoolInv /\ UNCHANGED vars => PoolInv'
  BY DEF PoolInv, vars, Shapes, LockHeld, RoomToTake, ListSleeps, CountIsUsers, Users

\* The inductive invariant holds in every reachable state.
THEOREM PoolInvariant == Spec => []PoolInv
  <1>1. PoolInv /\ [Next]_vars => PoolInv'
    BY PoolStep, PoolStutter DEF Next
  <1> QED BY PoolInit, <1>1, PTL DEF Spec

\* The counter is a natural number within the limit.
THEOREM TypeCorrect == Spec => []TypeOK
  <1>1. PoolInv => TypeOK
    <2> SUFFICES ASSUME PoolInv PROVE TypeOK OBVIOUS
    <2>1. count \in Nat
      <3>1. Users \in SUBSET Procs BY DEF Users
      <3>2. IsFiniteSet(Users) BY <3>1, FS_Subset, PoolAssumption
      <3> QED BY <3>2, FS_CardinalityType DEF PoolInv, CountIsUsers
    <2>2. count \in 0..Max BY <2>1, PoolAssumption DEF PoolInv
    <2> QED BY <2>2 DEF PoolInv, Shapes, Locations, TypeOK
  <1> QED BY <1>1, PoolInvariant, PTL

\* The counter of pools.go is the number of elements in use: Get counts each one
\* that it hands out and Put uncounts it once.
THEOREM CountExact == Spec => []CountIsUsers
  <1>1. PoolInv => CountIsUsers BY DEF PoolInv
  <1> QED BY <1>1, PoolInvariant, PTL

\* A Wait whose test is still true leaves the users of the full pool awake.
LEMMA FullPoolHasUsers ==
    ASSUME PoolInv, Full
    PROVE  \E q \in Procs : pc[q] = "holding"
  <1>1. Users # {}
    <2>1. count > 0 BY PoolAssumption DEF PoolInv, Shapes, Full
    <2> QED BY <2>1, FS_EmptySet DEF PoolInv, CountIsUsers
  <1> QED BY <1>1 DEF Users

\* The lost wakeup of Put, which signals without the lock, has one cause: a Wait
\* whose test is out of date.
THEOREM StrandingNeedsAStaleTest == Spec => OnlyAStaleTestStrands
  <1>1. ASSUME PoolInv, [Next]_vars, SleepersCovered
        PROVE  SleepersCovered' \/ (\E p \in Procs : Wait(p) /\ ~Full) \/ UNCHANGED vars
    <2> SUFFICES ASSUME NEW p \in Procs, Step(p), ~(Wait(p) /\ ~Full)
                 PROVE  SleepersCovered'
      BY <1>1 DEF Next
    <2>t. pc \in [Procs -> Locations] /\ waiters \in Seq(Procs)
      BY <1>1 DEF PoolInv, Shapes
    <2> DEFINE Awake == {"lock", "test", "wait", "take", "holding", "signal"}
    <2>1. CASE Wait(p)
      <3>1. PICK q \in Procs : pc[q] = "holding" BY <1>1, <2>1, FullPoolHasUsers
      <3>2. pc'[q] = "holding" BY <3>1, <2>1, <2>t DEF Wait, Goto
      <3> QED BY <3>2 DEF SleepersCovered
    <2>2. CASE Signal(p)
      <3>1. CASE waiters = <<>>
        BY <3>1, <2>2 DEF Signal, SleepersCovered
      <3>2. CASE waiters # <<>>
        <4>1. Head(waiters) \in Procs BY <3>2, <2>t
        <4>2. pc'[Head(waiters)] = "lock" BY <4>1, <3>2, <2>2, <2>t DEF Signal
        <4> QED BY <4>1, <4>2 DEF SleepersCovered
      <3> QED BY <3>1, <3>2
    <2>3. CASE Get(p) \/ Lock(p) \/ Test(p) \/ Take(p) \/ Put(p)
      <3>1. pc'[p] \in Awake BY <2>3, <2>t DEF Get, Lock, Test, Take, Put, Goto
      <3> QED BY <3>1 DEF SleepersCovered
    <2> QED BY <2>1, <2>2, <2>3 DEF Step
  <1>2. PoolInv /\ [Next]_vars =>
            [SleepersCovered => SleepersCovered' \/ (\E p \in Procs : Wait(p) /\ ~Full)]_vars
    BY <1>1
  <1> QED BY <1>2, PoolInvariant, PTL DEF Spec, OnlyAStaleTestStrands

-----------------------------------------------------------------------------
(* The netstack's tun device.                                              *)

Queued == {queue[i] : i \in DOMAIN queue}
Held == {notifier[s].packet : s \in Senders} \ {0}
Notifying == {s \in Senders : notifier[s].at = "notify"}

TunTypes ==
    /\ queue \in Seq(1 .. Sends) /\ Len(queue) <= QueueSize /\ packetsSent \in 0 .. Sends
    /\ notifier \in [Senders -> [at : {"idle", "notify", "waiting", "panic"}, packet : 0 .. Sends]]
    /\ read \subseteq 1 .. Sends /\ dropped \subseteq 1 .. Sends
    /\ tunReader \in {"reading", "closed"}
    /\ closing \in {"open", "nic", "events", "ep", "closed"}

\* A notifier that waits for the reader has a packet, and only it.
HoldersWait == \A s \in Senders : notifier[s].packet # 0 <=> notifier[s].at \in {"waiting", "panic"}

\* No two places have the same packet.
PlacesApart ==
    /\ \A s, t \in Senders : s # t /\ notifier[s].packet # 0 => notifier[s].packet # notifier[t].packet
    /\ \A i, j \in 1 .. Len(queue) : i # j => queue[i] # queue[j]
    /\ \A i \in 1 .. Len(queue) : queue[i] \notin Held /\ queue[i] \notin read \cup dropped
    /\ \A s \in Senders : notifier[s].packet \notin read \cup dropped

EveryPlace == Held \cup Queued \cup read \cup dropped = 1 .. packetsSent

TunInv ==
    /\ TunTypes /\ HoldersWait /\ PlacesApart /\ EveryPlace
    /\ Cardinality(Notifying) >= Len(queue)

\* The device starts with an empty queue.
LEMMA TunInit == Tun!Init => TunInv
<1> SUFFICES ASSUME Tun!Init PROVE TunInv
  OBVIOUS
<1> USE PacketsAssumption
<1>1. /\ queue = <<>> /\ packetsSent = 0 /\ read = {} /\ dropped = {} /\ tunReader = "reading" /\ closing = "open"
      /\ notifier = [s \in Senders |-> [at |-> "idle", packet |-> 0]]
  BY DEF Tun!Init, Tun!NoPacket
<1>2. TunTypes
  BY <1>1 DEF TunTypes
<1>3. \A s \in Senders : notifier[s].at = "idle" /\ notifier[s].packet = 0
  BY <1>1
<1>4. HoldersWait /\ PlacesApart
  BY <1>1, <1>3 DEF HoldersWait, PlacesApart
<1>5. Held = {} /\ Queued = {}
  BY <1>1, <1>3 DEF Held, Queued
<1>6. EveryPlace
  BY <1>1, <1>5 DEF EveryPlace
<1>7. Notifying = {}
  BY <1>3 DEF Notifying
<1>8. Cardinality(Notifying) = 0 /\ Len(queue) = 0
  BY <1>1, <1>7, FS_EmptySet
<1> QED BY <1>2, <1>4, <1>6, <1>8 DEF TunInv

\* What one notifier's step does to those that are on their way to the queue.
LEMMA OneNotifies ==
    ASSUME TunTypes, NEW s \in Senders, NEW k \in [at : {"idle", "notify", "waiting", "panic"}, packet : 0 .. Sends],
           notifier' = [notifier EXCEPT ![s] = k]
    PROVE  /\ Cardinality(Notifying) \in Nat /\ Cardinality(Notifying') \in Nat
           /\ notifier[s].at = "notify" /\ k.at # "notify" => Cardinality(Notifying') = Cardinality(Notifying) - 1
           /\ notifier[s].at # "notify" /\ k.at = "notify" => Cardinality(Notifying') = Cardinality(Notifying) + 1
           /\ notifier[s].at # "notify" /\ k.at # "notify" => Cardinality(Notifying') = Cardinality(Notifying)
<1>1. IsFiniteSet(Notifying) /\ IsFiniteSet(Notifying')
  BY FS_Subset, PacketsAssumption, Notifying \subseteq Senders, Notifying' \subseteq Senders DEF Notifying
<1>2. Cardinality(Notifying) \in Nat /\ Cardinality(Notifying') \in Nat
  BY <1>1, FS_CardinalityType
<1>a. \A t \in Senders : notifier'[t] = IF t = s THEN k ELSE notifier[t]
  BY DEF TunTypes
<1>3. ASSUME notifier[s].at = "notify", k.at # "notify" PROVE Cardinality(Notifying') = Cardinality(Notifying) - 1
  <2>1. Notifying' = Notifying \ {s} /\ s \in Notifying
    BY <1>3, <1>a DEF Notifying
  <2> QED BY <1>1, <2>1, FS_RemoveElement
<1>4. ASSUME notifier[s].at # "notify", k.at = "notify" PROVE Cardinality(Notifying') = Cardinality(Notifying) + 1
  <2>1. Notifying' = Notifying \cup {s} /\ s \notin Notifying
    BY <1>4, <1>a DEF Notifying
  <2> QED BY <1>1, <2>1, FS_AddElement
<1>5. ASSUME notifier[s].at # "notify", k.at # "notify" PROVE Cardinality(Notifying') = Cardinality(Notifying)
  <2>1. Notifying' = Notifying
    BY <1>5, <1>a DEF Notifying
  <2> QED BY <2>1
<1> QED BY <1>2, <1>3, <1>4, <1>5

\* Each notifier before and after a step of one.
LEMMA OthersWait ==
    ASSUME TunInv, NEW s \in Senders, NEW at \in {"idle", "notify", "waiting", "panic"}, NEW p \in 0 .. Sends,
           Tun!Notifier(s, at, p)
    PROVE  /\ notifier' \in [Senders -> [at : {"idle", "notify", "waiting", "panic"}, packet : 0 .. Sends]]
           /\ notifier'[s].at = at /\ notifier'[s].packet = p
           /\ \A t \in Senders : t # s => notifier'[t] = notifier[t]
           /\ (p # 0 <=> at \in {"waiting", "panic"}) => HoldersWait'
<1>1. notifier' = [notifier EXCEPT ![s] = [at |-> at, packet |-> p]]
  BY DEF Tun!Notifier
<1>2. notifier \in [Senders -> [at : {"idle", "notify", "waiting", "panic"}, packet : 0 .. Sends]]
  BY DEF TunInv, TunTypes
<1>3. /\ notifier' \in [Senders -> [at : {"idle", "notify", "waiting", "panic"}, packet : 0 .. Sends]]
      /\ notifier'[s] = [at |-> at, packet |-> p]
      /\ \A t \in Senders : t # s => notifier'[t] = notifier[t]
  BY <1>1, <1>2
<1>4. (p # 0 <=> at \in {"waiting", "panic"}) => HoldersWait'
  BY <1>3 DEF HoldersWait, TunInv
<1> QED BY <1>3, <1>4

\* What a step of one notifier does to the number of those on their way.
LEMMA OneOnItsWay ==
    ASSUME TunInv, NEW s \in Senders, NEW at \in {"idle", "notify", "waiting", "panic"}, NEW p \in 0 .. Sends,
           Tun!Notifier(s, at, p)
    PROVE  /\ Cardinality(Notifying) \in Nat /\ Cardinality(Notifying') \in Nat
           /\ notifier[s].at = "notify" /\ at # "notify" => Cardinality(Notifying') = Cardinality(Notifying) - 1
           /\ notifier[s].at # "notify" /\ at = "notify" => Cardinality(Notifying') = Cardinality(Notifying) + 1
           /\ notifier[s].at # "notify" /\ at # "notify" => Cardinality(Notifying') = Cardinality(Notifying)
<1> DEFINE k == [at |-> at, packet |-> p]
<1>1. k \in [at : {"idle", "notify", "waiting", "panic"}, packet : 0 .. Sends] /\ k.at = at
  OBVIOUS
<1>2. notifier' = [notifier EXCEPT ![s] = k]
  BY DEF Tun!Notifier
<1>3. TunTypes
  BY DEF TunInv
<1> HIDE DEF k
<1> QED BY <1>1, <1>2, <1>3, OneNotifies

\* The stack sends: the packet is new, and goes to the end of the queue or is dropped.
LEMMA TunSends == ASSUME TunInv, NEW s \in Senders, Tun!Sends1(s) PROVE TunInv'
<1> USE PacketsAssumption
<1> DEFINE n == packetsSent + 1
<1>0. /\ notifier[s].at = "idle" /\ packetsSent < Sends /\ packetsSent' = n
      /\ read' = read /\ tunReader' = tunReader /\ closing' = closing
  BY DEF Tun!Sends1
<1>t. /\ packetsSent \in Nat /\ Sends \in Nat /\ queue \in Seq(1 .. Sends) /\ n \in 1 .. Sends /\ Len(queue) \in Nat
      /\ n \notin Held /\ n \notin Queued /\ n \notin read /\ n \notin dropped /\ notifier[s].packet = 0
      /\ 1 .. n = (1 .. packetsSent) \cup {n} /\ QueueSize \in Nat
  <2>1. packetsSent \in Nat /\ Sends \in Nat /\ n \in 1 .. Sends /\ n \notin 1 .. packetsSent
        /\ 1 .. n = (1 .. packetsSent) \cup {n} /\ queue \in Seq(1 .. Sends) /\ QueueSize \in Nat
    BY <1>0 DEF TunInv, TunTypes
  <2>2. notifier[s].packet = 0
    BY <1>0 DEF TunInv, HoldersWait
  <2> QED BY <2>1, <2>2 DEF TunInv, EveryPlace
<1>1. CASE Len(queue) < QueueSize
  <2>0. queue' = Append(queue, n) /\ Tun!Notifier(s, "notify", 0) /\ dropped' = dropped
    BY <1>0, <1>1 DEF Tun!Sends1, Tun!NoPacket
  <2> HIDE DEF n
  <2>1. /\ notifier' \in [Senders -> [at : {"idle", "notify", "waiting", "panic"}, packet : 0 .. Sends]]
        /\ notifier'[s].at = "notify" /\ notifier'[s].packet = 0
        /\ \A t \in Senders : t # s => notifier'[t] = notifier[t]
        /\ HoldersWait'
    BY <2>0, <1>t, OthersWait
  <2>2. /\ Len(queue') = Len(queue) + 1 /\ queue' \in Seq(1 .. Sends)
        /\ \A i \in 1 .. Len(queue') : queue'[i] = IF i = Len(queue) + 1 THEN n ELSE queue[i]
    BY <2>0, <1>t
  <2>3. TunTypes'
    BY <1>0, <1>1, <1>t, <2>0, <2>1, <2>2 DEF TunInv, TunTypes
  <2>4. \A t \in Senders : notifier'[t].packet = notifier[t].packet
    BY <2>1, <1>t
  <2>5. Held' = Held
    BY <2>4 DEF Held
  <2>a. (\A i \in 1 .. Len(queue) : queue[i] # n) /\ \A i, j \in 1 .. Len(queue) : i # j => queue[i] # queue[j]
    <3>1. DOMAIN queue = 1 .. Len(queue)
      BY <1>t
    <3> QED BY <3>1, <1>t DEF Queued, TunInv, PlacesApart
  <2>6. Queued' = Queued \cup {n} /\ \A i, j \in 1 .. Len(queue') : i # j => queue'[i] # queue'[j]
    <3>1. /\ DOMAIN queue' = DOMAIN queue \cup {Len(queue) + 1} /\ queue'[Len(queue) + 1] = n
          /\ \A i \in DOMAIN queue : queue'[i] = queue[i]
          /\ \A i, j \in 1 .. Len(queue') : i # j => queue'[i] # queue'[j]
      <4> DEFINE m == Len(queue)
      <4>1. m \in Nat /\ DOMAIN queue = 1 .. m /\ Len(queue') = m + 1 /\ DOMAIN queue' = 1 .. (m + 1)
            /\ \A i \in 1 .. (m + 1) : queue'[i] = IF i = m + 1 THEN n ELSE queue[i]
        BY <1>t, <2>2
      <4>2. (\A i \in 1 .. m : queue[i] # n) /\ \A i, j \in 1 .. m : i # j => queue[i] # queue[j]
        BY <2>a
      <4> HIDE DEF m
      <4>3. 1 .. (m + 1) = (1 .. m) \cup {m + 1} /\ m + 1 \notin 1 .. m
        BY <4>1
      <4>4. queue'[m + 1] = n /\ \A i \in 1 .. m : queue'[i] = queue[i]
        BY <4>1, <4>3
      <4>5. \A i, j \in 1 .. (m + 1) : i # j => queue'[i] # queue'[j]
        BY <4>2, <4>3, <4>4
      <4> QED BY <4>1, <4>3, <4>4, <4>5 DEF m
    <3>2. Queued' = {queue'[i] : i \in DOMAIN queue'}
      BY DEF Queued
    <3>3. {queue'[i] : i \in DOMAIN queue'} = Queued \cup {n}
      BY <3>1 DEF Queued
    <3> QED BY <3>1, <3>2, <3>3
  <2>7. EveryPlace'
    BY <1>0, <1>t, <2>0, <2>5, <2>6 DEF TunInv, EveryPlace
  <2>8. PlacesApart'
    <3>1. \A t, u \in Senders : t # u /\ notifier'[t].packet # 0 => notifier'[t].packet # notifier'[u].packet
      BY <2>4 DEF TunInv, PlacesApart
    <3>4. \A i \in 1 .. Len(queue') : queue'[i] \notin Held' /\ queue'[i] \notin read' \cup dropped'
      BY <1>0, <1>t, <2>0, <2>2, <2>5 DEF TunInv, PlacesApart
    <3>5. \A t \in Senders : notifier'[t].packet \notin read' \cup dropped'
      BY <1>0, <2>0, <2>4 DEF TunInv, PlacesApart
    <3> QED BY <3>1, <2>6, <3>4, <3>5 DEF PlacesApart
  <2>9. Cardinality(Notifying)' >= Len(queue)'
    <3>1. 0 \in 0 .. Sends /\ Cardinality(Notifying) >= Len(queue)
      BY <1>t DEF TunInv
    <3>2. Cardinality(Notifying) \in Nat /\ Cardinality(Notifying') = Cardinality(Notifying) + 1
      BY <1>0, <2>0, <3>1, OneOnItsWay
    <3> QED BY <3>1, <3>2, <2>2, <1>t
  <2> QED BY <2>1, <2>3, <2>7, <2>8, <2>9 DEF TunInv
<1>2. CASE ~(Len(queue) < QueueSize)
  <2>0. queue' = queue /\ notifier' = notifier /\ dropped' = dropped \cup {n}
    BY <1>0, <1>2 DEF Tun!Sends1
  <2> HIDE DEF n
  <2>1. Held' = Held /\ Queued' = Queued /\ Notifying' = Notifying
    BY <2>0 DEF Held, Queued, Notifying
  <2>a. TunTypes'
    BY <1>0, <1>t, <2>0 DEF TunInv, TunTypes
  <2>b. HoldersWait'
    BY <2>0 DEF TunInv, HoldersWait
  <2>2. TunTypes' /\ HoldersWait'
    BY <2>a, <2>b
  <2>3. EveryPlace'
    BY <1>0, <1>t, <2>0, <2>1 DEF TunInv, EveryPlace
  <2>4. n # 0 /\ (\A i \in 1 .. Len(queue) : queue[i] # n) /\ \A t \in Senders : notifier[t].packet # n
    <3>1. n # 0 /\ DOMAIN queue = 1 .. Len(queue) /\ n \notin Queued /\ n \notin Held
      BY <1>t
    <3>2. \A i \in 1 .. Len(queue) : queue[i] # n
      BY <3>1 DEF Queued
    <3>3. \A t \in Senders : notifier[t].packet # n
      BY <3>1 DEF Held
    <3> QED BY <3>1, <3>2, <3>3
  <2>5. PlacesApart'
    BY <1>0, <2>0, <2>1, <2>4 DEF TunInv, PlacesApart
  <2> QED BY <2>0, <2>1, <2>2, <2>3, <2>5 DEF TunInv
<1> QED BY <1>1, <1>2

\* A notifier takes the head of the queue, or finds it empty.
LEMMA TunNotifies == ASSUME TunInv, NEW s \in Senders, Tun!WriteNotify(s) PROVE TunInv'
<1> USE PacketsAssumption
<1>0. /\ notifier[s].at = "notify" /\ packetsSent' = packetsSent /\ dropped' = dropped
      /\ read' = read /\ tunReader' = tunReader /\ closing' = closing
  BY DEF Tun!WriteNotify
<1>t. /\ queue \in Seq(1 .. Sends) /\ Len(queue) \in Nat /\ notifier[s].packet = 0 /\ 0 \in 0 .. Sends /\ Sends \in Nat
      /\ Cardinality(Notifying) >= Len(queue) /\ DOMAIN queue = 1 .. Len(queue) /\ QueueSize \in Nat
  BY <1>0 DEF TunInv, TunTypes, HoldersWait
<1>1. CASE queue = <<>>
  <2>0. queue' = queue /\ Tun!Notifier(s, "idle", 0)
    BY <1>1 DEF Tun!WriteNotify, Tun!NoPacket
  <2>1. /\ notifier' \in [Senders -> [at : {"idle", "notify", "waiting", "panic"}, packet : 0 .. Sends]]
        /\ notifier'[s].at = "idle" /\ notifier'[s].packet = 0
        /\ \A t \in Senders : t # s => notifier'[t] = notifier[t]
        /\ HoldersWait'
    BY <2>0, <1>t, OthersWait
  <2>2. \A t \in Senders : notifier'[t].packet = notifier[t].packet
    BY <2>1, <1>t
  <2>3. Held' = Held /\ Queued' = Queued
    BY <2>2, <2>0 DEF Held, Queued
  <2>4. TunTypes' /\ EveryPlace'
    BY <1>0, <2>0, <2>1, <2>3 DEF TunInv, TunTypes, EveryPlace
  <2>5. PlacesApart'
    BY <1>0, <2>0, <2>2, <2>3 DEF TunInv, PlacesApart
  <2>6. Cardinality(Notifying') \in Nat
    BY <2>0, <1>t, OneOnItsWay
  <2>7. Len(queue)' = 0
    BY <2>0, <1>1
  <2> QED BY <2>1, <2>4, <2>5, <2>6, <2>7 DEF TunInv
<1>2. CASE queue # <<>>
  <2> DEFINE p == Head(queue)
  <2>0. queue' = Tail(queue) /\ Tun!Notifier(s, "waiting", p)
    BY <1>2 DEF Tun!WriteNotify
  <2>a. p = queue[1] /\ 1 \in 1 .. Len(queue) /\ p \in 1 .. Sends /\ p \in 0 .. Sends /\ p # 0 /\ Len(queue) >= 1
    BY <1>2, <1>t
  <2> HIDE DEF p
  <2>1. /\ notifier' \in [Senders -> [at : {"idle", "notify", "waiting", "panic"}, packet : 0 .. Sends]]
        /\ notifier'[s].at = "waiting" /\ notifier'[s].packet = p
        /\ \A t \in Senders : t # s => notifier'[t] = notifier[t]
        /\ HoldersWait'
    BY <2>0, <2>a, OthersWait
  <2>2. /\ Len(queue') = Len(queue) - 1 /\ queue' \in Seq(1 .. Sends) /\ DOMAIN queue' = 1 .. Len(queue')
        /\ \A i \in 1 .. Len(queue') : i + 1 \in 1 .. Len(queue) /\ queue'[i] = queue[i + 1] /\ i + 1 # 1
    BY <2>0, <1>2, <1>t
  <2>3. TunTypes'
    BY <1>0, <1>t, <2>1, <2>2, SMTT(30) DEF TunInv, TunTypes
  <2>4. Held' = Held \cup {p}
    <3>1. \A x \in Held' : x \in Held \cup {p}
      BY <2>1 DEF Held
    <3>2. p \in Held'
      BY <2>1, <2>a DEF Held
    <3>3. ASSUME NEW x \in Held PROVE x \in Held'
      <4>1. PICK t \in Senders : x = notifier[t].packet /\ x # 0
        BY DEF Held
      <4>2. notifier'[t].packet = x
        BY <4>1, <2>1, <1>t
      <4> QED BY <4>1, <4>2 DEF Held
    <3> QED BY <3>1, <3>2, <3>3
  <2>5. p \notin Held /\ p \notin read /\ p \notin dropped /\ \A i \in 1 .. Len(queue) : i # 1 => queue[i] # p
    BY <2>a DEF TunInv, PlacesApart
  <2>6. Queued' \cup {p} = Queued
    <3>1. ASSUME NEW x \in Queued' PROVE x \in Queued
      <4>1. PICK i \in 1 .. Len(queue') : x = queue'[i]
        BY <2>2 DEF Queued
      <4>2. i + 1 \in DOMAIN queue /\ queue[i + 1] = x
        BY <4>1, <2>2, <1>t
      <4> QED BY <4>2 DEF Queued
    <3>2. p \in Queued
      BY <2>a, <1>t DEF Queued
    <3>3. ASSUME NEW x \in Queued, x # p PROVE x \in Queued'
      <4>1. PICK i \in 1 .. Len(queue) : x = queue[i]
        BY <1>t DEF Queued
      <4>2. i # 1 /\ i - 1 \in 1 .. Len(queue') /\ (i - 1) + 1 = i
        BY <4>1, <3>3, <2>a, <2>2, <1>t, SMTT(30)
      <4>3. queue'[i - 1] = x
        BY <4>1, <4>2, <2>2
      <4> QED BY <4>2, <4>3, <2>2 DEF Queued
    <3> QED BY <3>1, <3>2, <3>3
  <2>7. EveryPlace'
    BY <1>0, <2>4, <2>6 DEF TunInv, EveryPlace
  <2>8. PlacesApart'
    <3>0. \A t \in Senders : t # s => notifier[t].packet # p
      BY <2>5, <2>a DEF Held
    <3>1. \A t, u \in Senders : t # u /\ notifier'[t].packet # 0 => notifier'[t].packet # notifier'[u].packet
      BY <2>1, <2>a, <3>0 DEF TunInv, PlacesApart
    <3>2. \A i, j \in 1 .. Len(queue) : i # j => queue[i] # queue[j]
      BY DEF TunInv, PlacesApart
    <3>3. \A i, j \in 1 .. Len(queue') : i # j => queue'[i] # queue'[j]
      BY <1>t, <2>2, <3>2
    <3>4. \A i \in 1 .. Len(queue) : queue[i] \notin Held /\ queue[i] \notin read \cup dropped
      BY DEF TunInv, PlacesApart
    <3>5. \A i \in 1 .. Len(queue') : queue'[i] \notin Held' /\ queue'[i] \notin read' \cup dropped'
      BY <1>0, <2>2, <2>4, <2>5, <3>4
    <3>6. \A t \in Senders : notifier'[t].packet \notin read' \cup dropped'
      BY <1>0, <2>1, <2>5 DEF TunInv, PlacesApart
    <3> QED BY <3>1, <3>3, <3>5, <3>6 DEF PlacesApart
  <2>9. Cardinality(Notifying)' >= Len(queue)'
    <3>1. Cardinality(Notifying) \in Nat /\ Cardinality(Notifying') = Cardinality(Notifying) - 1
      BY <1>0, <2>0, <2>a, OneOnItsWay
    <3> QED BY <3>1, <2>2, <1>t
  <2> QED BY <2>1, <2>3, <2>7, <2>8, <2>9 DEF TunInv
<1> QED BY <1>1, <1>2

\* The reader takes what a notifier holds.
LEMMA TunReads == ASSUME TunInv, NEW s \in Senders, Tun!Read(s) PROVE TunInv'
<1> USE PacketsAssumption
<1> DEFINE p == notifier[s].packet
<1>0. /\ notifier[s].at = "waiting" /\ packetsSent' = packetsSent /\ dropped' = dropped /\ queue' = queue
      /\ read' = read \cup {p} /\ tunReader' = tunReader /\ closing' = closing /\ Tun!Notifier(s, "idle", 0)
  BY DEF Tun!Read, Tun!NoPacket
<1>t. 0 \in 0 .. Sends /\ p \in 1 .. Sends /\ p # 0
  BY <1>0 DEF TunInv, TunTypes, HoldersWait
<1>1. /\ notifier' \in [Senders -> [at : {"idle", "notify", "waiting", "panic"}, packet : 0 .. Sends]]
      /\ notifier'[s].at = "idle" /\ notifier'[s].packet = 0
      /\ \A t \in Senders : t # s => notifier'[t] = notifier[t]
      /\ HoldersWait'
  BY <1>0, <1>t, OthersWait
<1>a. \A t \in Senders : t # s => notifier[t].packet # p
  BY <1>t DEF TunInv, PlacesApart
<1>2. Held' \cup {p} = Held /\ p \notin Held' /\ Queued' = Queued
  <2>1. \A x \in Held' : x \in Held /\ x # p
    BY <1>1, <1>a DEF Held
  <2>2. p \in Held
    BY <1>t DEF Held
  <2>3. ASSUME NEW x \in Held, x # p PROVE x \in Held'
    <3>1. PICK t \in Senders : x = notifier[t].packet /\ x # 0
      BY DEF Held
    <3>2. t # s /\ notifier'[t].packet = x
      BY <3>1, <2>3, <1>1
    <3> QED BY <3>1, <3>2 DEF Held
  <2>4. Queued' = Queued
    BY <1>0 DEF Queued
  <2> QED BY <2>1, <2>2, <2>3, <2>4
<1> HIDE DEF p
<1>3. TunTypes'
  BY <1>0, <1>t, <1>1 DEF TunInv, TunTypes
<1>4. EveryPlace'
  BY <1>0, <1>2 DEF TunInv, EveryPlace
<1>5. PlacesApart'
  <2>1. \A t, u \in Senders : t # u /\ notifier'[t].packet # 0 => notifier'[t].packet # notifier'[u].packet
    BY <1>1 DEF TunInv, PlacesApart
  <2>2. \A i \in 1 .. Len(queue) : queue[i] \notin Held /\ queue[i] \notin read \cup dropped
    BY DEF TunInv, PlacesApart
  <2>3. \A i \in 1 .. Len(queue') : queue'[i] \notin Held' /\ queue'[i] \notin read' \cup dropped'
    BY <1>0, <1>2, <2>2
  <2>4. \A t \in Senders : notifier'[t].packet # p /\ notifier'[t].packet \notin read \cup dropped
    <3>1. 0 \notin read \cup dropped
      BY DEF TunInv, TunTypes
    <3> QED BY <1>1, <1>a, <1>t, <3>1 DEF TunInv, PlacesApart
  <2>5. \A t \in Senders : notifier'[t].packet \notin read' \cup dropped'
    BY <1>0, <2>4
  <2> QED BY <1>0, <2>1, <2>3, <2>5 DEF TunInv, PlacesApart
<1>6. Cardinality(Notifying)' >= Len(queue)'
  <2>1. Cardinality(Notifying') = Cardinality(Notifying)
    BY <1>0, <1>t, OneOnItsWay
  <2> QED BY <2>1, <1>0 DEF TunInv
<1> QED BY <1>1, <1>3, <1>4, <1>5, <1>6 DEF TunInv

\* A sender panics with its packet in hand.
LEMMA TunPanics == ASSUME TunInv, NEW s \in Senders, Tun!SendOnClosed(s) PROVE TunInv'
<1> USE PacketsAssumption
<1> DEFINE p == notifier[s].packet
<1>0. /\ notifier[s].at = "waiting" /\ packetsSent' = packetsSent /\ dropped' = dropped /\ queue' = queue
      /\ read' = read /\ tunReader' = tunReader /\ closing' = closing /\ Tun!Notifier(s, "panic", p)
  BY DEF Tun!SendOnClosed
<1>t. p \in 0 .. Sends /\ p # 0
  BY <1>0 DEF TunInv, TunTypes, HoldersWait
<1>1. /\ notifier' \in [Senders -> [at : {"idle", "notify", "waiting", "panic"}, packet : 0 .. Sends]]
      /\ notifier'[s].at = "panic" /\ notifier'[s].packet = p
      /\ \A t \in Senders : t # s => notifier'[t] = notifier[t]
      /\ HoldersWait'
  BY <1>0, <1>t, OthersWait
<1>2. \A t \in Senders : notifier'[t].packet = notifier[t].packet
  BY <1>1
<1>3. Held' = Held /\ Queued' = Queued
  BY <1>0, <1>2 DEF Held, Queued
<1>4. TunTypes' /\ EveryPlace'
  BY <1>0, <1>1, <1>3 DEF TunInv, TunTypes, EveryPlace
<1>5. PlacesApart'
  BY <1>0, <1>2, <1>3 DEF TunInv, PlacesApart
<1>6. Cardinality(Notifying)' >= Len(queue)'
  <2>1. Cardinality(Notifying') = Cardinality(Notifying)
    BY <1>0, <1>t, OneOnItsWay
  <2> QED BY <2>1, <1>0 DEF TunInv
<1> QED BY <1>1, <1>4, <1>5, <1>6 DEF TunInv

\* Close drops what is queued when it comes to the endpoint.
LEMMA TunCloses == ASSUME TunInv, Tun!Close PROVE TunInv'
<1> USE PacketsAssumption
<1>0. packetsSent' = packetsSent /\ notifier' = notifier /\ read' = read /\ tunReader' = tunReader
  BY DEF Tun!Close
<1>1. closing' \in {"open", "nic", "events", "ep", "closed"}
  BY DEF Tun!Close, TunInv, TunTypes
<1>2. Held' = Held /\ Notifying' = Notifying /\ HoldersWait'
  BY <1>0 DEF Held, Notifying, TunInv, HoldersWait
<1>3. CASE closing = "events"
  <2>0. queue' = <<>> /\ dropped' = dropped \cup Queued
    BY <1>3 DEF Tun!Close, Queued
  <2>1. Queued' = {} /\ Len(queue)' = 0
    BY <2>0 DEF Queued
  <2>2. Queued \subseteq 1 .. Sends
    BY DEF Queued, TunInv, TunTypes
  <2>3. TunTypes'
    BY <1>0, <1>1, <2>0, <2>1, <2>2 DEF TunInv, TunTypes
  <2>4. EveryPlace'
    BY <1>0, <1>2, <2>0, <2>1 DEF TunInv, EveryPlace
  <2>5. \A t \in Senders : notifier[t].packet \notin Queued
    <3>1. 0 \notin Queued /\ DOMAIN queue = 1 .. Len(queue)
      BY <2>2 DEF TunInv, TunTypes
    <3>2. \A x \in Queued : x \notin Held
      BY <3>1 DEF TunInv, PlacesApart, Queued
    <3> QED BY <3>1, <3>2 DEF Held
  <2>6. PlacesApart'
    BY <1>0, <1>2, <2>0, <2>1, <2>5 DEF TunInv, PlacesApart
  <2>7. Cardinality(Notifying) \in Nat
    <3>1. Notifying \subseteq Senders
      BY DEF Notifying
    <3> QED BY <3>1, FS_Subset, FS_CardinalityType
  <2> QED BY <1>2, <2>1, <2>3, <2>4, <2>6, <2>7 DEF TunInv
<1>4. CASE closing # "events"
  <2>0. queue' = queue /\ dropped' = dropped
    BY <1>4 DEF Tun!Close
  <2>1. Queued' = Queued
    BY <2>0 DEF Queued
  <2>2. TunTypes' /\ EveryPlace'
    BY <1>0, <1>1, <1>2, <2>0, <2>1 DEF TunInv, TunTypes, EveryPlace
  <2>3. PlacesApart'
    BY <1>0, <1>2, <2>0 DEF TunInv, PlacesApart
  <2> QED BY <1>2, <2>0, <2>2, <2>3 DEF TunInv
<1> QED BY <1>3, <1>4

\* The device's steps keep its invariant.
LEMMA TunStep == TunInv /\ Tun!Next => TunInv'
<1> SUFFICES ASSUME TunInv, Tun!Next PROVE TunInv'
  OBVIOUS
<1>1. CASE Tun!ReadClosed
  <2>0. /\ queue' = queue /\ packetsSent' = packetsSent /\ notifier' = notifier /\ read' = read
        /\ dropped' = dropped /\ closing' = closing /\ tunReader' = "closed"
    BY <1>1 DEF Tun!ReadClosed
  <2> QED BY <2>0 DEF TunInv, TunTypes, HoldersWait, PlacesApart, EveryPlace, Held, Queued, Notifying
<1>2. CASE \E s \in Senders : Tun!WriteNotify(s) \/ Tun!Read(s) \/ Tun!SendOnClosed(s)
  BY <1>2, TunNotifies, TunReads, TunPanics
<1>3. CASE Tun!Close
  BY <1>3, TunCloses
<1>4. CASE \E s \in Senders : Tun!Sends1(s)
  BY <1>4, TunSends
<1> QED BY <1>1, <1>2, <1>3, <1>4 DEF Tun!Next, Tun!System

\* It keeps it while other parts move.
LEMMA TunStays == ASSUME TunInv, UNCHANGED tunVars PROVE TunInv'
<1>0. /\ queue' = queue /\ packetsSent' = packetsSent /\ notifier' = notifier /\ read' = read
      /\ dropped' = dropped /\ closing' = closing /\ tunReader' = tunReader
  BY DEF tunVars
<1>1. Held' = Held /\ Queued' = Queued /\ Notifying' = Notifying
  BY <1>0 DEF Held, Queued, Notifying
<1>2. TunTypes' /\ HoldersWait'
  BY <1>0 DEF TunInv, TunTypes, HoldersWait
<1>3. PlacesApart' /\ EveryPlace'
  BY <1>0, <1>1 DEF TunInv, PlacesApart, EveryPlace
<1>4. Cardinality(Notifying') >= Len(queue')
  BY <1>0, <1>1 DEF TunInv
<1> QED BY <1>2, <1>3, <1>4 DEF TunInv

\* Places that have nothing in common and make up the packets sent have as many.
LEMMA TunMeans == TunInv => Tun!TypeOK /\ Tun!NoPacketTwice /\ Tun!QueueIsNoticed
<1> SUFFICES ASSUME TunInv PROVE Tun!TypeOK /\ Tun!NoPacketTwice /\ Tun!QueueIsNoticed
  OBVIOUS
<1> USE PacketsAssumption
<1>1. Tun!TypeOK
  BY DEF TunInv, TunTypes, Tun!TypeOK
<1>c. \A S : Tun!Cardinality(S) = Cardinality(S)
  BY DEF Tun!Cardinality, Cardinality
<1>2. Tun!QueueIsNoticed
  BY <1>c DEF TunInv, Notifying, Tun!QueueIsNoticed
<1>3. Tun!NoPacketTwice
  <2> DEFINE rest == read \cup dropped
  <2>1. /\ queue \in Seq(1 .. Sends) /\ packetsSent \in Nat /\ Len(queue) \in Nat /\ DOMAIN queue = 1 .. Len(queue)
        /\ Held \cup Queued \cup rest = 1 .. packetsSent
    BY DEF TunInv, TunTypes, EveryPlace
  <2>2. IsFiniteSet(1 .. packetsSent) /\ Cardinality(1 .. packetsSent) = packetsSent
    <3>1. 1 \in Int /\ packetsSent \in Int
      BY <2>1
    <3>2. IsFiniteSet(1 .. packetsSent)
          /\ Cardinality(1 .. packetsSent) = IF 1 > packetsSent THEN 0 ELSE packetsSent - 1 + 1
      BY <3>1, FS_Interval
    <3> QED BY <3>2, <2>1
  <2>3. IsFiniteSet(Held) /\ IsFiniteSet(Queued) /\ IsFiniteSet(rest)
    BY <2>1, <2>2, FS_Subset
  <2>4. Held \cap rest = {} /\ Queued \cap (Held \cup rest) = {}
    BY <2>1 DEF Held, Queued, TunInv, PlacesApart
  <2>5. IsFiniteSet(Held \cup rest) /\ Cardinality(Held \cup rest) = Cardinality(Held) + Cardinality(rest)
    <3>1. Cardinality(Held \cup rest) = Cardinality(Held) + Cardinality(rest) - Cardinality(Held \cap rest)
          /\ IsFiniteSet(Held \cup rest)
      BY <2>3, FS_Union
    <3>2. Cardinality(Held \cap rest) = 0 /\ Cardinality(Held) \in Nat /\ Cardinality(rest) \in Nat
      BY <2>3, <2>4, FS_EmptySet, FS_CardinalityType
    <3> QED BY <3>1, <3>2
  <2>6. Cardinality(Queued) = Len(queue)
    <3> DEFINE f == [i \in 1 .. Len(queue) |-> queue[i]]
    <3>1. f \in Bijection(1 .. Len(queue), Queued)
      BY <2>1 DEF Queued, TunInv, PlacesApart, Bijection, Injection, Surjection, IsInjective
    <3> HIDE DEF f
    <3>2. ExistsBijection(1 .. Len(queue), Queued)
      BY <3>1 DEF ExistsBijection
    <3> QED BY <3>2, <2>1, FS_CountingElements
  <2>7. Cardinality(Queued \cup (Held \cup rest)) = Cardinality(Queued) + Cardinality(Held \cup rest)
    <3>1. Cardinality(Queued \cup (Held \cup rest)) =
          Cardinality(Queued) + Cardinality(Held \cup rest) - Cardinality(Queued \cap (Held \cup rest))
      BY <2>3, <2>5, FS_Union
    <3>2. Cardinality(Queued \cap (Held \cup rest)) = 0 /\ Cardinality(Queued) \in Nat
          /\ Cardinality(Held \cup rest) \in Nat
      BY <2>3, <2>4, <2>5, FS_EmptySet, FS_CardinalityType
    <3> QED BY <3>1, <3>2
  <2>8. Queued \cup (Held \cup rest) = 1 .. packetsSent /\ Cardinality(Held) \in Nat /\ Cardinality(rest) \in Nat
    BY <2>1, <2>3, FS_CardinalityType
  <2>9. Cardinality(Held) + Len(queue) + Cardinality(rest) = packetsSent
    <3>1. packetsSent = Len(queue) + (Cardinality(Held) + Cardinality(rest))
      BY <2>2, <2>5, <2>6, <2>7, <2>8
    <3> QED BY <3>1, <2>1, <2>8
  <2> QED BY <1>c, <2>1, <2>9 DEF Tun!NoPacketTwice, Tun!NoPacket, Held, Queued
<1> QED BY <1>1, <1>2, <1>3

-----------------------------------------------------------------------------
(* The native tun device.                                                  *)

Statuses == {"up", "down"}

NativeTypes ==
    /\ status \in Statuses /\ changes \in 0 .. MaxChanges /\ netlink \in Seq(Statuses)
    /\ hack \in {"poll", "send", "sleep", "gone"} /\ hackLast \in {"none", "up", "down"}
    /\ nl \in {"recv", "handle", "send", "mtu", "closing", "gone"} /\ nlMsgs \in Seq(Statuses)
    /\ nlSends \in {"none", "up", "down"}
    /\ events \in Seq({"up", "down", "mtu"}) /\ Len(events) <= EventRoom
    /\ told \in {"none", "up", "down"}

\* Who is about to send an event knows which, and the channel outlives both.
NativeInv ==
    /\ NativeTypes
    /\ hack = "send" => hackLast \in Statuses
    /\ nl = "send" => nlSends \in Statuses
    /\ ~eventsOpen => hack = "gone" /\ nl = "gone"

\* The device starts open, with nobody in a call.
LEMMA NativeInit == Native!Init => NativeInv
BY PacketsAssumption DEF Native!Init, NativeInv, NativeTypes, Statuses

\* Every step of the native tun, its listeners and its callers keeps NativeInv.
LEMMA NativeStep == NativeInv /\ Native!Next => NativeInv'
<1> SUFFICES ASSUME NativeInv, Native!Next PROVE NativeInv'
  OBVIOUS
<1> USE PacketsAssumption DEF NativeInv, NativeTypes, Statuses
<1>e. /\ events \in Seq({"up", "down", "mtu"}) /\ Len(events) \in Nat /\ Len(events) <= EventRoom
      /\ netlink \in Seq(Statuses) /\ nlMsgs \in Seq(Statuses)
  OBVIOUS
<1>a. \A x \in {"up", "down", "mtu"} :
         Len(events) < EventRoom =>
            Append(events, x) \in Seq({"up", "down", "mtu"}) /\ Len(Append(events, x)) <= EventRoom
  BY <1>e
<1>1. CASE Native!Changes
  <2>0. /\ changes' = changes + 1 /\ changes < MaxChanges /\ status' \in Statuses /\ netlink' = Append(netlink, status')
        /\ created' = created /\ hack' = hack /\ hackLast' = hackLast /\ nl' = nl /\ nlMsgs' = nlMsgs
        /\ nlSends' = nlSends /\ events' = events /\ eventsOpen' = eventsOpen /\ told' = told
    BY <1>1 DEF Native!Changes, Native!hackVars, Native!nlVars
  <2>1. netlink' \in Seq(Statuses)
    BY <1>e, <2>0
  <2> QED BY <2>0, <2>1
<1>2. CASE Native!SetMTU
  BY <1>2 DEF Native!SetMTU, Native!hackVars, Native!nlVars, Native!linkVars
<1>3. CASE Native!Close
  BY <1>3 DEF Native!Close, Native!hackVars, Native!nlVars, Native!linkVars
<1>4. CASE Native!HackPolls
  BY <1>4 DEF Native!HackPolls, Native!nlVars, Native!linkVars
<1>5. CASE Native!HackSends
  <2>0. /\ hack = "send" /\ hack' = "sleep" /\ Len(events) < EventRoom /\ events' = Append(events, hackLast)
        /\ status' = status /\ changes' = changes /\ netlink' = netlink /\ hackLast' = hackLast /\ nl' = nl
        /\ nlMsgs' = nlMsgs /\ nlSends' = nlSends /\ eventsOpen' = eventsOpen /\ told' = told
    BY <1>5 DEF Native!HackSends, Native!Room, Native!nlVars, Native!linkVars
  <2>1. events' \in Seq({"up", "down", "mtu"}) /\ Len(events') <= EventRoom
    BY <1>a, <2>0
  <2> QED BY <2>0, <2>1
<1>6. CASE Native!HackWakes
  BY <1>6 DEF Native!HackWakes, Native!nlVars, Native!linkVars
<1>7. CASE Native!NetlinkReceives
  <2>0. /\ nl = "recv" /\ nl' \in {"closing", "handle"} /\ hack' = hack /\ events' = events
        /\ status' = status /\ changes' = changes /\ hackLast' = hackLast
        /\ nlSends' = nlSends /\ eventsOpen' = eventsOpen /\ told' = told
    BY <1>7 DEF Native!NetlinkReceives, Native!hackVars, Native!linkVars
  <2>1. netlink' \in Seq(Statuses) /\ nlMsgs' \in Seq(Statuses)
    <3>1. CASE netlink' = netlink /\ nlMsgs' = nlMsgs
      BY <3>1
    <3>2. CASE \E n \in {1, Len(netlink)} : /\ nlMsgs' = SubSeq(netlink, 1, n)
                                           /\ netlink' = SubSeq(netlink, n + 1, Len(netlink)) /\ netlink # <<>>
      <4>1. PICK n \in {1, Len(netlink)} : /\ nlMsgs' = SubSeq(netlink, 1, n)
                                           /\ netlink' = SubSeq(netlink, n + 1, Len(netlink))
        BY <3>2
      <4>2. Len(netlink) \in Nat /\ Len(netlink) >= 1 /\ n \in 1 .. Len(netlink)
        BY <1>e, <3>2
      <4>3. \A i \in 1 .. Len(netlink) : netlink[i] \in Statuses
        BY <1>e
      <4> DEFINE m == Len(netlink)
      <4>4. SubSeq(netlink, 1, n) \in Seq(Statuses)
        BY <1>e, <4>2, <4>3
      <4>5. SubSeq(netlink, n + 1, m) \in Seq(Statuses)
        BY <1>e, <4>2, <4>3
      <4> QED BY <4>1, <4>4, <4>5
    <3> QED BY <1>7, <3>1, <3>2 DEF Native!NetlinkReceives
  <2> QED BY <2>0, <2>1
<1>8. CASE Native!NetlinkHandles
  <2>0. /\ nl = "handle" /\ hack' = hack /\ events' = events
        /\ status' = status /\ changes' = changes /\ hackLast' = hackLast /\ netlink' = netlink
        /\ eventsOpen' = eventsOpen /\ told' = told
    BY <1>8 DEF Native!NetlinkHandles, Native!hackVars, Native!linkVars
  <2>1. CASE nlMsgs = <<>>
    BY <1>8, <2>0, <2>1 DEF Native!NetlinkHandles
  <2>2. CASE nlMsgs # <<>>
    <3>1. nlMsgs' = Tail(nlMsgs) /\ nlSends' = Head(nlMsgs) /\ nl' \in {"send", "mtu"}
      BY <1>8, <2>2 DEF Native!NetlinkHandles
    <3>2. Tail(nlMsgs) \in Seq(Statuses) /\ Head(nlMsgs) \in Statuses
      BY <1>e, <2>2
    <3> QED BY <2>0, <3>1, <3>2
  <2> QED BY <2>1, <2>2
<1>9. CASE Native!NetlinkSends
  <2>0. /\ nl \in {"send", "mtu"} /\ nl' \in {"mtu", "handle"} /\ Len(events) < EventRoom
        /\ events' = Append(events, IF nl = "send" THEN nlSends ELSE "mtu") /\ hack' = hack
        /\ status' = status /\ changes' = changes /\ netlink' = netlink /\ hackLast' = hackLast
        /\ nlMsgs' = nlMsgs /\ nlSends' = nlSends /\ eventsOpen' = eventsOpen /\ told' = told
    BY <1>9 DEF Native!NetlinkSends, Native!Room, Native!hackVars, Native!linkVars
  <2>1. events' \in Seq({"up", "down", "mtu"}) /\ Len(events') <= EventRoom
    BY <1>a, <2>0
  <2> QED BY <2>0, <2>1
<1>10. CASE Native!NetlinkCloses
  BY <1>10 DEF Native!NetlinkCloses, Native!hackVars, Native!linkVars
<1>11. CASE Native!ReaderHears
  <2>0. /\ events # <<>> /\ events' = Tail(events) /\ told' = IF Head(events) = "mtu" THEN told ELSE Head(events)
        /\ status' = status /\ changes' = changes /\ netlink' = netlink /\ hackLast' = hackLast /\ nl' = nl
        /\ nlMsgs' = nlMsgs /\ nlSends' = nlSends /\ eventsOpen' = eventsOpen /\ hack' = hack
    BY <1>11 DEF Native!ReaderHears, Native!hackVars, Native!nlVars, Native!linkVars
  <2>1. Tail(events) \in Seq({"up", "down", "mtu"}) /\ Head(events) \in {"up", "down", "mtu"} /\ Len(Tail(events)) <= EventRoom
    BY <1>e, <2>0
  <2> QED BY <2>0, <2>1
<1> QED BY <1>1, <1>2, <1>3, <1>4, <1>5, <1>6, <1>7, <1>8, <1>9, <1>10, <1>11
        DEF Native!Next, Native!HackSystem, Native!NetlinkSystem

\* Steps of the other parts leave the native tun as it is.
LEMMA NativeStays == ASSUME NativeInv, UNCHANGED nativeVars PROVE NativeInv'
BY DEF NativeInv, NativeTypes, nativeVars

\* NativeInv is more than the properties of the native tun.
LEMMA NativeMeans == NativeInv => Native!TypeOK /\ Native!EventsClosedLast
BY DEF NativeInv, NativeTypes, Statuses, Native!TypeOK, Native!EventsClosedLast

-----------------------------------------------------------------------------
(* tun2socks.                                                              *)

PipeTypes ==
    [at : {"none", "loop", "copy", "ended"}, from : 0 .. MaxInstances, to : 0 .. MaxInstances,
     errors : 0 .. MaxErrors, stop : BOOLEAN]

LwipTypes ==
    /\ lwipAt \in {"idle", "stack", "replace", "wait", "pipe", "ask", "join", "panicked"}
    /\ starts \in 0 .. MaxInstances /\ tunDev \in 0 .. MaxInstances /\ lwipStack \in 0 .. MaxInstances
    /\ pipeTask \in 0 .. MaxInstances /\ devsOpen \subseteq 0 .. MaxInstances /\ stacksOpen \subseteq 0 .. MaxInstances
    /\ pipes \in [1 .. MaxInstances -> PipeTypes]
    /\ pipeResult \in {"none", "started", "stopped", "not stopped"}

Works(p) == pipes[p].at \in {"loop", "copy"}

\* A pipe that runs is the one the package knows and has errors left; one that ended
\* unasked has none.
OnePipe ==
    \A p \in 1 .. MaxInstances :
        /\ Works(p) => p = pipeTask /\ pipes[p].errors >= 1
        /\ pipes[p].at = "ended" /\ ~pipes[p].stop => pipes[p].errors = 0

\* Where the caller is says what Start and Stop have done to the globals.
CallerKnows ==
    /\ lwipAt = "pipe" => \A p \in 1 .. MaxInstances : ~Works(p)
    /\ lwipAt \in {"idle", "ask", "join"} =>
          \A p \in 1 .. MaxInstances : pipes[p].at = "copy" => pipes[p].from = tunDev /\ pipes[p].to = lwipStack
    /\ lwipAt \in {"stack", "replace", "wait", "pipe"} => starts # 0 /\ tunDev \in devsOpen
    /\ (lwipAt = "idle" /\ tunDev # 0 /\ tunDev \in devsOpen) \/ lwipAt = "ask" =>
          /\ pipeTask # 0 /\ ~pipes[pipeTask].stop
          /\ pipes[pipeTask].at # "none"
    /\ lwipAt \in {"ask", "join"} => tunDev \notin devsOpen
    /\ lwipAt = "idle" /\ tunDev # 0 /\ tunDev \notin devsOpen =>
          /\ \A p \in 1 .. MaxInstances : ~Works(p)
          /\ lwipStack \in stacksOpen => pipeResult = "not stopped" /\ pipeTask # 0 /\ pipes[pipeTask].errors = 0

LwipInv == LwipTypes /\ OnePipe /\ CallerKnows

\* An instance is numbered from 1; 0 is no instance.
LEMMA InstanceNumbers == \A x \in 0 .. MaxInstances : MaxInstances \in Nat /\ x \in Nat /\ (x # 0 => x \in 1 .. MaxInstances)
BY PacketsAssumption

\* At the start there is no instance and no caller.
LEMMA LwipInit == Lwip!Init => LwipInv
<1> SUFFICES ASSUME Lwip!Init PROVE LwipInv
  OBVIOUS
<1>1. /\ lwipAt = "idle" /\ starts = 0 /\ tunDev = 0 /\ devsOpen = {} /\ lwipStack = 0 /\ stacksOpen = {} /\ pipeTask = 0
      /\ pipes = [p \in 1 .. MaxInstances |-> Lwip!NoPipe] /\ pipeResult = "none"
  BY DEF Lwip!Init
<1>2. Lwip!NoPipe \in PipeTypes /\ Lwip!NoPipe.at = "none"
  BY PacketsAssumption DEF Lwip!NoPipe, PipeTypes
<1>3. LwipTypes
  BY <1>1, <1>2, PacketsAssumption DEF LwipTypes
<1>4. \A p \in 1 .. MaxInstances : pipes[p].at = "none"
  BY <1>1, <1>2
<1>5. OnePipe /\ CallerKnows
  BY <1>1, <1>4 DEF OnePipe, CallerKnows, Works
<1> QED BY <1>3, <1>5 DEF LwipInv

\* The caller asks the pipe it knows to stop: only its flag changes.
LEMMA LwipAsks ==
    ASSUME LwipInv, pipeTask # 0, Lwip!AskToStop(pipeTask)
    PROVE  /\ pipes' \in [1 .. MaxInstances -> PipeTypes] /\ pipeTask \in 1 .. MaxInstances
           /\ pipes'[pipeTask].stop
           /\ \A p \in 1 .. MaxInstances :
                 /\ pipes'[p].at = pipes[p].at /\ pipes'[p].from = pipes[p].from /\ pipes'[p].to = pipes[p].to
                 /\ pipes'[p].errors = pipes[p].errors
                 /\ p # pipeTask => pipes'[p] = pipes[p]
<1>1. pipeTask \in 1 .. MaxInstances /\ pipes \in [1 .. MaxInstances -> PipeTypes]
  BY InstanceNumbers DEF LwipInv, LwipTypes
<1> DEFINE k == [pipes[pipeTask] EXCEPT !.stop = TRUE]
<1>2. pipes' = [pipes EXCEPT ![pipeTask] = k]
  BY DEF Lwip!AskToStop
<1>3. pipes[pipeTask] \in PipeTypes
  BY <1>1
<1>4. /\ k \in PipeTypes /\ k.stop = TRUE /\ k.at = pipes[pipeTask].at /\ k.from = pipes[pipeTask].from
      /\ k.to = pipes[pipeTask].to /\ k.errors = pipes[pipeTask].errors
  BY <1>3 DEF PipeTypes
<1> HIDE DEF k
<1>5. \A p \in 1 .. MaxInstances : pipes'[p] = IF p = pipeTask THEN k ELSE pipes[p]
  BY <1>1, <1>2
<1>6. pipes' \in [1 .. MaxInstances -> PipeTypes]
  BY <1>1, <1>2, <1>4
<1> QED BY <1>1, <1>4, <1>5, <1>6

\* A step of the pipe.
LEMMA LwipPipe ==
    ASSUME LwipInv, NEW p \in 1 .. MaxInstances, NEW k \in PipeTypes, Works(p),
           k.at \in {"loop", "copy"} => k.errors >= 1,
           k.at = "ended" /\ ~k.stop => k.errors = 0,
           k.at # "none", k.stop = pipes[p].stop,
           k.at = "copy" => k.from = tunDev /\ k.to = lwipStack,
           pipes' = [pipes EXCEPT ![p] = k],
           UNCHANGED <<lwipAt, starts, tunDev, devsOpen, lwipStack, stacksOpen, pipeTask, pipeResult>>
    PROVE  LwipInv'
<1>1. pipes \in [1 .. MaxInstances -> PipeTypes] /\ p = pipeTask /\ lwipAt # "pipe"
      /\ ~(lwipAt = "idle" /\ tunDev # 0 /\ tunDev \notin devsOpen)
  BY DEF LwipInv, LwipTypes, OnePipe, CallerKnows
<1>2. pipes' \in [1 .. MaxInstances -> PipeTypes] /\ \A q \in 1 .. MaxInstances : pipes'[q] = IF q = p THEN k ELSE pipes[q]
  BY <1>1
<1>3. LwipTypes'
  BY <1>2 DEF LwipInv, LwipTypes
<1>4. OnePipe'
  BY <1>1, <1>2 DEF LwipInv, OnePipe, Works
<1>5. CallerKnows'
  BY <1>1, <1>2 DEF LwipInv, CallerKnows, Works
<1> QED BY <1>3, <1>4, <1>5 DEF LwipInv

\* Steps that only write, close or read a pipe.
LEMMA LwipPipeSteps ==
    ASSUME LwipInv, NEW p \in 1 .. MaxInstances
    PROVE  /\ Lwip!PipeCopies(p) => LwipInv'
           /\ \A failed \in BOOLEAN : Lwip!PipeReturns(p, failed) => LwipInv'
<1>0. pipes[p] \in PipeTypes /\ tunDev \in 0 .. MaxInstances /\ lwipStack \in 0 .. MaxInstances
  BY DEF LwipInv, LwipTypes
<1>1. ASSUME Lwip!PipeCopies(p) PROVE LwipInv'
  <2> DEFINE k == [pipes[p] EXCEPT !.at = "copy", !.from = tunDev, !.to = lwipStack]
  <2>1. /\ pipes[p].at = "loop" /\ pipes' = [pipes EXCEPT ![p] = k]
        /\ UNCHANGED <<lwipAt, starts, tunDev, devsOpen, lwipStack, stacksOpen, pipeTask, pipeResult>>
    BY <1>1 DEF Lwip!PipeCopies
  <2>2. /\ k \in PipeTypes /\ k.at = "copy" /\ k.from = tunDev /\ k.to = lwipStack /\ k.stop = pipes[p].stop
        /\ k.errors = pipes[p].errors
    BY <1>0 DEF PipeTypes
  <2>3. Works(p) /\ pipes[p].errors >= 1
    BY <2>1 DEF Works, LwipInv, OnePipe
  <2> HIDE DEF k
  <2> QED BY <2>1, <2>2, <2>3, LwipPipe
<1>2. ASSUME NEW failed \in BOOLEAN, Lwip!PipeReturns(p, failed) PROVE LwipInv'
  <2> DEFINE e == IF failed THEN pipes[p].errors - 1 ELSE pipes[p].errors
             a == IF pipes[p].stop \/ e = 0 THEN "ended" ELSE "loop"
             k == [pipes[p] EXCEPT !.errors = e, !.at = a]
  <2>1. /\ pipes[p].at = "copy" /\ pipes' = [pipes EXCEPT ![p] = k]
        /\ UNCHANGED <<lwipAt, starts, tunDev, devsOpen, lwipStack, stacksOpen, pipeTask, pipeResult>>
    BY <1>2 DEF Lwip!PipeReturns
  <2>3. Works(p) /\ pipes[p].errors >= 1
    BY <2>1 DEF Works, LwipInv, OnePipe
  <2>4. e \in 0 .. MaxErrors
    BY <1>0, <2>3, PacketsAssumption DEF PipeTypes
  <2>5. k \in PipeTypes /\ k.errors = e /\ k.at = a /\ k.stop = pipes[p].stop
    <3> HIDE DEF e
    <3> QED BY <1>0, <2>4 DEF PipeTypes
  <2>6. (a = "loop" => e >= 1) /\ a \in {"ended", "loop"} /\ (a = "ended" /\ ~pipes[p].stop => e = 0)
    <3>1. e = 0 \/ e >= 1
      <4> HIDE DEF e
      <4> QED BY <2>4, PacketsAssumption
    <3> HIDE DEF e
    <3> QED BY <3>1
  <2> HIDE DEF k, a, e
  <2> QED BY <2>1, <2>3, <2>5, <2>6, LwipPipe
<1> QED BY <1>1, <1>2

\* Every step of tun2socks, its callers and its pipe keeps LwipInv.
LEMMA LwipStep == LwipInv /\ Lwip!Next => LwipInv'
<1> SUFFICES ASSUME LwipInv, Lwip!Next PROVE LwipInv'
  OBVIOUS
<1> USE PacketsAssumption
<1>1. CASE Lwip!StartOpens
  <2>0. /\ lwipAt = "idle" /\ lwipAt' = "stack" /\ starts < MaxInstances /\ starts' = starts + 1 /\ tunDev' = starts'
        /\ devsOpen' = devsOpen \cup {starts'}
        /\ UNCHANGED <<lwipStack, stacksOpen, pipeTask, pipes, pipeResult>>
    BY <1>1 DEF Lwip!StartOpens
  <2>a. starts' \in 1 .. MaxInstances /\ starts' \in 0 .. MaxInstances
    <3>1. starts \in 0 .. MaxInstances
      BY DEF LwipInv, LwipTypes
    <3> QED BY <2>0, <3>1, InstanceNumbers
  <2>1. LwipTypes'
    BY <2>0, <2>a DEF LwipInv, LwipTypes
  <2>2. OnePipe'
    BY <2>0 DEF LwipInv, OnePipe, Works
  <2>3. starts' # 0
    BY <2>a
  <2>4. CallerKnows'
    BY <2>0, <2>3 DEF CallerKnows
  <2> QED BY <2>1, <2>2, <2>4 DEF LwipInv
<1>2. CASE Lwip!StartStack
  <2>0. /\ lwipAt = "stack" /\ lwipAt' \in {"replace", "panicked"} /\ lwipStack' = starts
        /\ stacksOpen' = (stacksOpen \ {lwipStack}) \cup {starts}
        /\ UNCHANGED <<starts, tunDev, devsOpen, pipeTask, pipes, pipeResult>>
    BY <1>2 DEF Lwip!StartStack
  <2>1. LwipTypes'
    BY <2>0 DEF LwipInv, LwipTypes
  <2>2. OnePipe' /\ CallerKnows'
    BY <2>0 DEF LwipInv, OnePipe, CallerKnows, Works
  <2> QED BY <2>1, <2>2 DEF LwipInv
<1>3. CASE Lwip!StartReplaces
  <2>0. lwipAt = "replace" /\ UNCHANGED <<starts, tunDev, devsOpen, lwipStack, stacksOpen, pipeTask, pipeResult>>
    BY <1>3 DEF Lwip!StartReplaces
  <2>1. CASE Lwip!Running(pipeTask)
    <3>1. lwipAt' = "wait" /\ Lwip!AskToStop(pipeTask) /\ pipeTask # 0
      BY <1>3, <2>1 DEF Lwip!StartReplaces, Lwip!Running
    <3>2. /\ pipes' \in [1 .. MaxInstances -> PipeTypes] /\ pipeTask \in 1 .. MaxInstances
          /\ pipes'[pipeTask].stop
          /\ \A p \in 1 .. MaxInstances :
                 /\ pipes'[p].at = pipes[p].at /\ pipes'[p].from = pipes[p].from /\ pipes'[p].to = pipes[p].to
                 /\ pipes'[p].errors = pipes[p].errors
                 /\ p # pipeTask => pipes'[p] = pipes[p]
      BY <3>1, LwipAsks
    <3>3. LwipTypes'
      BY <2>0, <3>1, <3>2 DEF LwipInv, LwipTypes
    <3>4. OnePipe'
      BY <2>0, <3>2 DEF LwipInv, OnePipe, Works
    <3>5. CallerKnows'
      BY <2>0, <3>1 DEF LwipInv, CallerKnows
    <3> QED BY <3>3, <3>4, <3>5 DEF LwipInv
  <2>2. CASE ~Lwip!Running(pipeTask)
    <3>1. lwipAt' = "pipe" /\ pipes' = pipes
      BY <1>3, <2>2 DEF Lwip!StartReplaces
    <3>2. \A p \in 1 .. MaxInstances : ~Works(p)
      BY <2>2 DEF LwipInv, OnePipe, Works, Lwip!Running
    <3>3. LwipTypes' /\ OnePipe'
      BY <2>0, <3>1 DEF LwipInv, LwipTypes, OnePipe, Works
    <3>4. CallerKnows'
      BY <2>0, <3>1, <3>2 DEF LwipInv, CallerKnows, Works
    <3> QED BY <3>3, <3>4 DEF LwipInv
  <2> QED BY <2>1, <2>2
<1>4. CASE Lwip!StartWaits
  <2>0. /\ lwipAt = "wait" /\ ~Lwip!Running(pipeTask) /\ lwipAt' = "pipe"
        /\ UNCHANGED <<starts, tunDev, devsOpen, lwipStack, stacksOpen, pipeTask, pipes, pipeResult>>
    BY <1>4 DEF Lwip!StartWaits
  <2>1. \A p \in 1 .. MaxInstances : ~Works(p)
    BY <2>0 DEF LwipInv, OnePipe, Works, Lwip!Running
  <2>2. LwipTypes' /\ OnePipe'
    BY <2>0 DEF LwipInv, LwipTypes, OnePipe, Works
  <2>3. CallerKnows'
    BY <2>0, <2>1 DEF LwipInv, CallerKnows, Works
  <2> QED BY <2>2, <2>3 DEF LwipInv
<1>5. CASE Lwip!StartRuns
  <2> DEFINE k == [Lwip!NoPipe EXCEPT !.at = "loop", !.errors = MaxErrors]
  <2>0. /\ lwipAt = "pipe" /\ pipeTask' = starts /\ pipes' = [pipes EXCEPT ![starts] = k]
        /\ lwipAt' = "idle" /\ pipeResult' = "started"
        /\ UNCHANGED <<starts, tunDev, devsOpen, lwipStack, stacksOpen>>
    BY <1>5 DEF Lwip!StartRuns
  <2>1. k \in PipeTypes /\ k.at = "loop" /\ k.errors = MaxErrors /\ k.stop = FALSE /\ MaxErrors >= 1
    <3>1. MaxErrors \in 0 .. MaxErrors /\ MaxErrors >= 1 /\ 0 \in 0 .. MaxInstances
      OBVIOUS
    <3> QED BY <3>1 DEF Lwip!NoPipe, PipeTypes
  <2>2. starts \in 1 .. MaxInstances /\ tunDev \in devsOpen /\ pipes \in [1 .. MaxInstances -> PipeTypes]
        /\ \A p \in 1 .. MaxInstances : ~Works(p)
    BY <2>0, InstanceNumbers DEF LwipInv, LwipTypes, CallerKnows
  <2> HIDE DEF k
  <2>3. pipes' \in [1 .. MaxInstances -> PipeTypes] /\ \A q \in 1 .. MaxInstances : pipes'[q] = IF q = starts THEN k ELSE pipes[q]
    BY <2>0, <2>1, <2>2
  <2>4. LwipTypes'
    BY <2>0, <2>2, <2>3 DEF LwipInv, LwipTypes
  <2>5. OnePipe'
    BY <2>0, <2>1, <2>2, <2>3 DEF LwipInv, OnePipe, Works
  <2>6. CallerKnows'
    BY <2>0, <2>1, <2>2, <2>3 DEF CallerKnows, Works
  <2> QED BY <2>4, <2>5, <2>6 DEF LwipInv
<1>6. CASE Lwip!StopBegins
  <2>0. /\ lwipAt = "idle" /\ tunDev # 0 /\ UNCHANGED <<starts, tunDev, lwipStack, stacksOpen, pipeTask, pipes>>
        /\ \/ tunDev \in devsOpen /\ devsOpen' = devsOpen \ {tunDev} /\ lwipAt' = "ask" /\ pipeResult' = pipeResult
           \/ lwipAt' = "idle" /\ pipeResult' = "not stopped" /\ devsOpen' = devsOpen
    BY <1>6 DEF Lwip!StopBegins, Lwip!Returns
  <2>1. LwipTypes'
    BY <2>0 DEF LwipInv, LwipTypes
  <2>2. OnePipe'
    BY <2>0 DEF LwipInv, OnePipe, Works
  <2>3. CallerKnows'
    BY <2>0 DEF LwipInv, CallerKnows, Works
  <2> QED BY <2>1, <2>2, <2>3 DEF LwipInv
<1>7. CASE Lwip!StopAsks
  <2>0. lwipAt = "ask" /\ UNCHANGED <<starts, tunDev, devsOpen, lwipStack, stacksOpen, pipeTask>>
    BY <1>7 DEF Lwip!StopAsks
  <2>1. CASE Lwip!Running(pipeTask)
    <3>1. lwipAt' = "join" /\ Lwip!AskToStop(pipeTask) /\ pipeTask # 0 /\ pipeResult' = pipeResult
      BY <1>7, <2>1 DEF Lwip!StopAsks, Lwip!Running
    <3>2. /\ pipes' \in [1 .. MaxInstances -> PipeTypes] /\ pipeTask \in 1 .. MaxInstances
          /\ pipes'[pipeTask].stop
          /\ \A p \in 1 .. MaxInstances :
                 /\ pipes'[p].at = pipes[p].at /\ pipes'[p].from = pipes[p].from /\ pipes'[p].to = pipes[p].to
                 /\ pipes'[p].errors = pipes[p].errors
                 /\ p # pipeTask => pipes'[p] = pipes[p]
      BY <3>1, LwipAsks
    <3>3. LwipTypes'
      BY <2>0, <3>1, <3>2 DEF LwipInv, LwipTypes
    <3>4. OnePipe'
      BY <2>0, <3>2 DEF LwipInv, OnePipe, Works
    <3>5. CallerKnows'
      BY <2>0, <3>1, <3>2 DEF LwipInv, CallerKnows
    <3> QED BY <3>3, <3>4, <3>5 DEF LwipInv
  <2>2. CASE ~Lwip!Running(pipeTask)
    <3>1. lwipAt' = "idle" /\ pipes' = pipes /\ pipeResult' = "not stopped"
      BY <1>7, <2>2 DEF Lwip!StopAsks, Lwip!Returns
    <3>2. \A p \in 1 .. MaxInstances : ~Works(p)
      BY <2>2 DEF LwipInv, OnePipe, Works, Lwip!Running
    <3>3. pipeTask \in 1 .. MaxInstances /\ pipes[pipeTask] \in PipeTypes /\ ~pipes[pipeTask].stop
          /\ pipes[pipeTask].at # "none"
      <4>1. pipeTask # 0 /\ ~pipes[pipeTask].stop /\ pipes[pipeTask].at # "none"
        BY <2>0 DEF LwipInv, CallerKnows
      <4>2. pipeTask \in 1 .. MaxInstances /\ pipes \in [1 .. MaxInstances -> PipeTypes]
        BY <4>1, InstanceNumbers DEF LwipInv, LwipTypes
      <4> QED BY <4>1, <4>2
    <3>4. pipes[pipeTask].at = "ended"
      BY <3>2, <3>3 DEF Works, PipeTypes
    <3>5. pipes[pipeTask].errors = 0
      BY <3>3, <3>4 DEF LwipInv, OnePipe
    <3>6. LwipTypes' /\ OnePipe'
      BY <2>0, <3>1 DEF LwipInv, LwipTypes, OnePipe, Works
    <3>7. CallerKnows'
      BY <2>0, <3>1, <3>2, <3>3, <3>5 DEF LwipInv, CallerKnows, Works
    <3> QED BY <3>6, <3>7 DEF LwipInv
  <2> QED BY <2>1, <2>2
<1>8. CASE Lwip!StopJoins
  <2>0. /\ lwipAt = "join" /\ ~Lwip!Running(pipeTask) /\ lwipAt' = "idle" /\ pipeResult' = "stopped"
        /\ stacksOpen' = stacksOpen \ {lwipStack}
        /\ UNCHANGED <<starts, tunDev, devsOpen, lwipStack, pipeTask, pipes>>
    BY <1>8 DEF Lwip!StopJoins, Lwip!Returns
  <2>1. \A p \in 1 .. MaxInstances : ~Works(p)
    BY <2>0 DEF LwipInv, OnePipe, Works, Lwip!Running
  <2>2. LwipTypes' /\ OnePipe'
    BY <2>0 DEF LwipInv, LwipTypes, OnePipe, Works
  <2>3. CallerKnows'
    BY <2>0, <2>1 DEF LwipInv, CallerKnows, Works
  <2> QED BY <2>2, <2>3 DEF LwipInv
<1>9. CASE \E p \in 1 .. MaxInstances : Lwip!PipeCopies(p) \/ \E failed \in BOOLEAN : Lwip!PipeReturns(p, failed)
  BY <1>9, LwipPipeSteps
<1> QED BY <1>1, <1>2, <1>3, <1>4, <1>5, <1>6, <1>7, <1>8, <1>9 DEF Lwip!Next, Lwip!LwipSystem

\* Steps of the other parts leave tun2socks as it is.
LEMMA LwipStays == ASSUME LwipInv, UNCHANGED lwipVars PROVE LwipInv'
BY DEF LwipInv, LwipTypes, OnePipe, CallerKnows, Works, lwipVars

\* LwipInv is more than the properties of tun2socks.
LEMMA LwipMeans == LwipInv => Lwip!TypeOK /\ Lwip!PipeIsCurrent /\ Lwip!StopIsComplete
<1> SUFFICES ASSUME LwipInv PROVE Lwip!TypeOK /\ Lwip!PipeIsCurrent /\ Lwip!StopIsComplete
  OBVIOUS
<1>1. \A p \in 1 .. MaxInstances : pipes[p].at \in {"none", "loop", "copy", "ended"}
                                   /\ pipes[p].errors \in 0 .. MaxErrors /\ pipes[p].stop \in BOOLEAN
  <2>1. \A p \in 1 .. MaxInstances : pipes[p] \in PipeTypes
    BY DEF LwipInv, LwipTypes
  <2>2. \A p \in 1 .. MaxInstances : pipes[p].at \in {"none", "loop", "copy", "ended"} /\ pipes[p].errors \in 0 .. MaxErrors
    BY <2>1 DEF PipeTypes
  <2>3. \A p \in 1 .. MaxInstances : pipes[p].stop \in BOOLEAN
    BY <2>1 DEF PipeTypes
  <2> QED BY <2>2, <2>3
<1>2. Lwip!TypeOK
  BY <1>1 DEF LwipInv, LwipTypes, Lwip!TypeOK
<1>3. Lwip!PipeIsCurrent
  BY DEF LwipInv, OnePipe, CallerKnows, Works, Lwip!PipeIsCurrent, Lwip!Running
<1>4. Lwip!StopIsComplete
  <2>1. pipeTask \in 0 .. MaxInstances
    BY DEF LwipInv, LwipTypes
  <2>2. pipeTask # 0 => pipeTask \in 1 .. MaxInstances
    BY <2>1, InstanceNumbers
  <2> QED BY <2>2 DEF LwipInv, CallerKnows, Works, Lwip!StopIsComplete, Lwip!Running
<1> QED BY <1>2, <1>3, <1>4

-----------------------------------------------------------------------------
(* The rate limiter.                                                       *)

Places == {"idle", "insert", "spend", "reset", "panic"}
WorkerTypes == [at : Places, ip : Sources \cup {"none"}, entry : Nat, time : Nat, seen : Nat, again : BOOLEAN]
BucketTypes == [last : 0 .. Horizon, tokens : 1 .. MaxTokens]

RateTypes ==
    /\ now \in 0 .. Horizon /\ buckets \in Seq(BucketTypes) /\ table \in [Sources -> 0 .. Len(buckets)]
    /\ mutex \in Workers \cup {"free"} /\ worker \in [Workers -> WorkerTypes]
    /\ collector \in {"select", "clean", "stop", "gone"}
    /\ ticking \in BOOLEAN /\ resetOpen \in BOOLEAN
    /\ passed \in [Sources -> Nat] /\ raced \in [Sources -> Nat]

NoFuture ==
    /\ \A i \in 1 .. Len(buckets) : buckets[i].last <= now
    /\ \A w \in Workers : worker[w].time <= now

\* Two sources never have one entry.
EntriesApart == \A s, t \in Sources : table[s] # 0 /\ table[s] = table[t] => s = t

\* What raced packets add to a source's budget.
Budget(n) == MaxTokens * n

\* An entry that was found is still the source's or nobody's; a source that was not
\* in the table, and of which nothing has passed since, is within its rate for the
\* time its new entry will have.
AskersKnow ==
    \A w \in Workers :
        /\ worker[w].at # "idle" => worker[w].ip \in Sources
        /\ worker[w].at = "spend" =>
              /\ worker[w].entry \in 1 .. Len(buckets)
              /\ \A t \in Sources : table[t] = worker[w].entry => t = worker[w].ip
        /\ worker[w].at = "insert" =>
              /\ worker[w].seen <= passed[worker[w].ip]
              /\ passed[worker[w].ip] = worker[w].seen =>
                    passed[worker[w].ip] <= Budget(raced[worker[w].ip]) + worker[w].time

\* What a source had and what it may have at once are within its rate; a source
\* without an entry may have a whole burst.
WithinRate ==
    \A s \in Sources :
        /\ table[s] = 0 => passed[s] <= Budget(raced[s]) + now
        /\ table[s] # 0 => passed[s] + Rate!Refilled(buckets[table[s]]) <= MaxTokens + Budget(raced[s]) + now

LockIsHeld == \A w \in Workers : worker[w].at \in {"reset", "panic"} <=> mutex = w

Resetting == \E w \in Workers : worker[w].at = "reset"
Empty == \A s \in Sources : table[s] = 0

CollectorKnows ==
    /\ collector = "clean" => ticking
    /\ ticking /\ collector \in {"select", "clean"} => ~Empty
    /\ Resetting => ~Empty
    /\ \A w \in Workers : worker[w].at = "reset" /\ ~worker[w].again /\ collector \in {"select", "clean"} => ~ticking
    /\ collector = "stop" /\ resetOpen /\ ~Empty => Resetting
    /\ resetOpen /\ ~Empty => ticking \/ Resetting

RateInv == RateTypes /\ NoFuture /\ EntriesApart /\ AskersKnow /\ WithinRate /\ LockIsHeld /\ CollectorKnows

\* What a source may be granted grows with the time that has passed.
LEMMA BudgetGrows ==
    \A n \in Nat : Budget(n) \in Nat /\ Budget(n + 1) = Budget(n) + MaxTokens /\ MaxTokens * (1 + n) = MaxTokens + Budget(n)
BY PacketsAssumption DEF Budget

\* What a bucket has at a time: no more than a burst, one at least, and all of a
\* burst when it is old enough to be thrown away.
LEMMA RefilledIs ==
    ASSUME NEW b \in BucketTypes, now \in Nat, b.last <= now
    PROVE  /\ Rate!Refilled(b) \in 1 .. MaxTokens
           /\ Rate!Refilled(b) <= b.tokens + now - b.last
           /\ b.last = now => Rate!Refilled(b) = b.tokens
           /\ now - b.last > CollectAge => Rate!Refilled(b) = MaxTokens
<1>1. b.tokens \in 1 .. MaxTokens /\ b.last \in Nat
  BY PacketsAssumption DEF BucketTypes
<1> QED BY <1>1, PacketsAssumption DEF Rate!Refilled

\* The limiter starts empty and unlocked.
LEMMA RateInit == Rate!Init => RateInv
<1> SUFFICES ASSUME Rate!Init PROVE RateInv
  OBVIOUS
<1> USE PacketsAssumption
<1>0. /\ now = 0 /\ buckets = <<>> /\ table = [s \in Sources |-> 0] /\ mutex = "free"
      /\ worker = [w \in Workers |-> Rate!Idle] /\ collector = "select" /\ ticking = FALSE /\ resetOpen = TRUE
      /\ passed = [s \in Sources |-> 0] /\ raced = [s \in Sources |-> 0]
  BY DEF Rate!Init
<1>1. Rate!Idle \in WorkerTypes /\ Rate!Idle.at = "idle" /\ Rate!Idle.time = 0
  BY DEF Rate!Idle, WorkerTypes, Places
<1>2. \A w \in Workers : worker[w] = Rate!Idle
  BY <1>0
<1>3. RateTypes
  <2>1. Len(buckets) = 0 /\ buckets \in Seq(BucketTypes) /\ 0 \in 0 .. Len(buckets) /\ now \in 0 .. Horizon
    BY <1>0
  <2>2. table \in [Sources -> 0 .. Len(buckets)] /\ worker \in [Workers -> WorkerTypes]
        /\ passed \in [Sources -> Nat] /\ raced \in [Sources -> Nat]
    BY <1>0, <1>1, <2>1
  <2> QED BY <1>0, <2>1, <2>2 DEF RateTypes
<1>4. NoFuture /\ EntriesApart /\ AskersKnow /\ LockIsHeld
  BY <1>0, <1>1, <1>2 DEF NoFuture, EntriesApart, AskersKnow, LockIsHeld
<1>5. WithinRate
  BY <1>0, BudgetGrows, SMTT(30) DEF WithinRate
<1>6. CollectorKnows
  BY <1>0, <1>1, <1>2 DEF CollectorKnows, Resetting, Empty
<1> QED BY <1>3, <1>4, <1>5, <1>6 DEF RateInv

\* Facts of every state that the steps need.
LEMMA RateFacts ==
    ASSUME RateInv
    PROVE  /\ now \in Nat /\ Len(buckets) \in Nat /\ MaxTokens \in Nat /\ MaxTokens >= 2 /\ Horizon \in Nat
           /\ \A i \in 1 .. Len(buckets) : buckets[i] \in BucketTypes /\ buckets[i].last <= now
           /\ \A s \in Sources : /\ passed[s] \in Nat /\ raced[s] \in Nat /\ table[s] \in 0 .. Len(buckets)
                                 /\ Budget(raced[s]) \in Nat
                                 /\ table[s] # 0 => table[s] \in 1 .. Len(buckets)
           /\ \A w \in Workers : worker[w] \in WorkerTypes
<1>1. now \in Nat /\ Len(buckets) \in Nat /\ MaxTokens \in Nat /\ MaxTokens >= 2 /\ Horizon \in Nat
  BY PacketsAssumption DEF RateInv, RateTypes
<1>2. \A i \in 1 .. Len(buckets) : buckets[i] \in BucketTypes /\ buckets[i].last <= now
  BY DEF RateInv, RateTypes, NoFuture
<1>3. \A s \in Sources : passed[s] \in Nat /\ raced[s] \in Nat /\ table[s] \in 0 .. Len(buckets)
  BY DEF RateInv, RateTypes
<1>4. \A s \in Sources : Budget(raced[s]) \in Nat
  BY <1>3, BudgetGrows
<1>5. \A s \in Sources : table[s] # 0 => table[s] \in 1 .. Len(buckets)
  BY <1>1, <1>3
<1>6. \A w \in Workers : worker[w] \in WorkerTypes
  BY DEF RateInv, RateTypes
<1> QED BY <1>1, <1>2, <1>3, <1>4, <1>5, <1>6

\* The look-up only changes the worker that does it.
LEMMA RateAllows == ASSUME RateInv, NEW w \in Workers, NEW s \in Sources, Rate!Allow(w, s) PROVE RateInv'
<1> DEFINE k == [at |-> IF table[s] = 0 THEN "insert" ELSE "spend",
                 ip |-> s, entry |-> table[s], time |-> now, seen |-> passed[s], again |-> FALSE]
<1>0. /\ worker[w].at = "idle" /\ mutex = "free" /\ worker' = [worker EXCEPT ![w] = k]
      /\ now' = now /\ buckets' = buckets /\ table' = table /\ mutex' = mutex /\ collector' = collector
      /\ ticking' = ticking /\ resetOpen' = resetOpen /\ passed' = passed /\ raced' = raced
  BY DEF Rate!Allow
<1>f. /\ now \in Nat /\ Len(buckets) \in Nat
      /\ passed[s] \in Nat /\ raced[s] \in Nat /\ table[s] \in Nat /\ Budget(raced[s]) \in Nat
      /\ table[s] # 0 => table[s] \in 1 .. Len(buckets)
  BY RateFacts
<1>1. k \in WorkerTypes
  BY <1>f DEF WorkerTypes, Places
<1>2. /\ k.at = IF table[s] = 0 THEN "insert" ELSE "spend"
      /\ k.ip = s /\ k.entry = table[s] /\ k.time = now /\ k.seen = passed[s]
  OBVIOUS
<1> HIDE DEF k
<1>3. worker' \in [Workers -> WorkerTypes] /\ \A v \in Workers : worker'[v] = IF v = w THEN k ELSE worker[v]
  BY <1>0, <1>1 DEF RateInv, RateTypes
<1>4. RateTypes'
  BY <1>0, <1>3 DEF RateInv, RateTypes
<1>5. NoFuture' /\ EntriesApart'
  BY <1>0, <1>2, <1>3, <1>f DEF RateInv, NoFuture, EntriesApart
<1>6. AskersKnow'
  <2>1. k.at # "idle" => k.ip \in Sources
    BY <1>2
  <2>2. k.at = "spend" => k.entry \in 1 .. Len(buckets) /\ \A t \in Sources : table[t] = k.entry => t = k.ip
    BY <1>2, <1>f DEF RateInv, EntriesApart
  <2>3. k.at = "insert" => k.seen <= passed[k.ip] /\ passed[k.ip] <= Budget(raced[k.ip]) + k.time
    BY <1>2, <1>f DEF RateInv, WithinRate
  <2> QED BY <1>0, <1>3, <2>1, <2>2, <2>3 DEF RateInv, AskersKnow
<1>7. WithinRate'
  BY <1>0 DEF RateInv, WithinRate, Rate!Refilled
<1>8. LockIsHeld'
  BY <1>0, <1>2, <1>3, PacketsAssumption DEF RateInv, LockIsHeld
<1>9. CollectorKnows'
  <2>1. Resetting' <=> Resetting
    BY <1>0, <1>2, <1>3 DEF Resetting
  <2>2. \A v \in Workers : worker'[v].at = "reset" => worker[v].at = "reset" /\ worker'[v] = worker[v]
    BY <1>2, <1>3
  <2> QED BY <1>0, <2>1, <2>2 DEF RateInv, CollectorKnows, Empty
<1> QED BY <1>4, <1>5, <1>6, <1>7, <1>8, <1>9 DEF RateInv

\* The send on stopReset: the ticker runs and the lock is free.
LEMMA RateResets == ASSUME RateInv, NEW w \in Workers, Rate!Reset(w) PROVE RateInv'
<1>0. /\ worker[w].at = "reset" /\ resetOpen /\ collector = "select" /\ ticking' = TRUE
      /\ worker' = [worker EXCEPT ![w] = Rate!Idle] /\ mutex' = "free"
      /\ now' = now /\ buckets' = buckets /\ table' = table /\ collector' = collector
      /\ resetOpen' = resetOpen /\ passed' = passed /\ raced' = raced
  BY DEF Rate!Reset
<1>1. Rate!Idle \in WorkerTypes /\ Rate!Idle.at = "idle" /\ Rate!Idle.time = 0 /\ now \in Nat
  BY RateFacts DEF Rate!Idle, WorkerTypes, Places
<1>2. worker' \in [Workers -> WorkerTypes] /\ \A v \in Workers : worker'[v] = IF v = w THEN Rate!Idle ELSE worker[v]
  BY <1>0, <1>1 DEF RateInv, RateTypes
<1>3. RateTypes'
  BY <1>0, <1>2 DEF RateInv, RateTypes
<1>4. NoFuture' /\ EntriesApart'
  BY <1>0, <1>1, <1>2 DEF RateInv, NoFuture, EntriesApart
<1>5. AskersKnow'
  BY <1>0, <1>1, <1>2 DEF RateInv, AskersKnow
<1>6. WithinRate'
  BY <1>0 DEF RateInv, WithinRate, Rate!Refilled
<1>7. LockIsHeld' /\ \A v \in Workers : worker'[v].at # "reset"
  BY <1>0, <1>1, <1>2, PacketsAssumption DEF RateInv, LockIsHeld
<1>8. ~Empty
  BY <1>0 DEF RateInv, CollectorKnows, Resetting
<1>9. CollectorKnows'
  BY <1>0, <1>7, <1>8 DEF CollectorKnows, Resetting, Empty
<1> QED BY <1>3, <1>4, <1>5, <1>6, <1>7, <1>9 DEF RateInv

\* The send once the channel is closed.
LEMMA RatePanics == ASSUME RateInv, NEW w \in Workers, Rate!Panics(w) PROVE RateInv'
<1> DEFINE k == [worker[w] EXCEPT !.at = "panic"]
<1>0. /\ worker[w].at = "reset" /\ ~resetOpen /\ worker' = [worker EXCEPT ![w] = k]
      /\ now' = now /\ buckets' = buckets /\ table' = table /\ mutex' = mutex /\ collector' = collector
      /\ ticking' = ticking /\ resetOpen' = resetOpen /\ passed' = passed /\ raced' = raced
  BY DEF Rate!Panics
<1>1. k \in WorkerTypes /\ k.at = "panic" /\ k.time = worker[w].time /\ k.ip = worker[w].ip
  <2>1. worker[w] \in WorkerTypes
    BY RateFacts
  <2> QED BY <2>1 DEF WorkerTypes, Places
<1> HIDE DEF k
<1>2. worker' \in [Workers -> WorkerTypes] /\ \A v \in Workers : worker'[v] = IF v = w THEN k ELSE worker[v]
  BY <1>0, <1>1 DEF RateInv, RateTypes
<1>3. RateTypes'
  BY <1>0, <1>2 DEF RateInv, RateTypes
<1>4. NoFuture' /\ EntriesApart'
  BY <1>0, <1>1, <1>2 DEF RateInv, NoFuture, EntriesApart
<1>5. AskersKnow'
  BY <1>0, <1>1, <1>2 DEF RateInv, AskersKnow
<1>6. WithinRate'
  BY <1>0 DEF RateInv, WithinRate, Rate!Refilled
<1>7. LockIsHeld'
  BY <1>0, <1>1, <1>2 DEF RateInv, LockIsHeld
<1>8. \A v \in Workers : worker'[v].at = "reset" => worker[v].at = "reset" /\ worker'[v] = worker[v]
  BY <1>1, <1>2
<1>9. CollectorKnows'
  BY <1>0, <1>8 DEF RateInv, CollectorKnows, Resetting, Empty
<1> QED BY <1>3, <1>4, <1>5, <1>6, <1>7, <1>9 DEF RateInv

\* The collector's own steps, Close and the clock.
LEMMA RateCollects ==
    ASSUME RateInv, Rate!Tick \/ Rate!StopTicker \/ Rate!CollectorStops \/ Rate!Close
    PROVE  RateInv'
<1>0. /\ now' = now /\ buckets' = buckets /\ table' = table /\ mutex' = mutex /\ worker' = worker
      /\ passed' = passed /\ raced' = raced
  BY DEF Rate!Tick, Rate!StopTicker, Rate!CollectorStops, Rate!Close
<1>1. RateTypes'
  <2>1. collector' \in {"select", "clean", "stop", "gone"}
    BY DEF RateInv, RateTypes, Rate!Tick, Rate!StopTicker, Rate!CollectorStops, Rate!Close
  <2>2. ticking' \in BOOLEAN /\ resetOpen' \in BOOLEAN
    BY DEF RateInv, RateTypes, Rate!Tick, Rate!StopTicker, Rate!CollectorStops, Rate!Close
  <2> QED BY <1>0, <2>1, <2>2 DEF RateInv, RateTypes
<1>2. NoFuture' /\ EntriesApart' /\ AskersKnow' /\ LockIsHeld'
  BY <1>0 DEF RateInv, NoFuture, EntriesApart, AskersKnow, LockIsHeld
<1>3. WithinRate'
  BY <1>0 DEF RateInv, WithinRate, Rate!Refilled
<1>4. CollectorKnows'
  <2>0. (Resetting' <=> Resetting) /\ (Empty' <=> Empty)
    BY <1>0 DEF Resetting, Empty
  <2>1. CASE Rate!Tick
    BY <1>0, <2>0, <2>1 DEF RateInv, CollectorKnows, Rate!Tick
  <2>2. CASE Rate!StopTicker
    BY <1>0, <2>0, <2>2 DEF RateInv, CollectorKnows, Rate!StopTicker
  <2>3. CASE Rate!CollectorStops
    BY <1>0, <2>0, <2>3 DEF RateInv, CollectorKnows, Rate!CollectorStops
  <2>4. CASE Rate!Close
    BY <1>0, <2>0, <2>4 DEF RateInv, CollectorKnows, Rate!Close
  <2> QED BY <2>1, <2>2, <2>3, <2>4
<1> QED BY <1>1, <1>2, <1>3, <1>4 DEF RateInv

\* Time adds to the budget what it adds to a bucket at most.
LEMMA RateTime == ASSUME RateInv, Rate!TimePasses PROVE RateInv'
<1>0. /\ now < Horizon /\ now' = now + 1
      /\ buckets' = buckets /\ table' = table /\ mutex' = mutex /\ worker' = worker /\ collector' = collector
      /\ ticking' = ticking /\ resetOpen' = resetOpen /\ passed' = passed /\ raced' = raced
  BY DEF Rate!TimePasses
<1>f. now \in Nat /\ MaxTokens \in Nat /\ Horizon \in Nat
  BY RateFacts
<1>1. RateTypes'
  BY <1>0, <1>f DEF RateInv, RateTypes
<1>2. EntriesApart' /\ AskersKnow' /\ LockIsHeld'
  BY <1>0 DEF RateInv, EntriesApart, AskersKnow, LockIsHeld
<1>3. NoFuture'
  <2>1. \A i \in 1 .. Len(buckets) : buckets[i].last \in Nat /\ buckets[i].last <= now
    BY RateFacts DEF BucketTypes
  <2>2. \A w \in Workers : worker[w].time \in Nat /\ worker[w].time <= now
    BY RateFacts DEF WorkerTypes, RateInv, NoFuture
  <2> QED BY <1>0, <1>f, <2>1, <2>2 DEF NoFuture
<1>4. WithinRate'
  <2>1. ASSUME NEW s \in Sources, table[s] # 0
        PROVE  passed[s] + Rate!Refilled(buckets[table[s]])' <= MaxTokens + Budget(raced[s]) + now + 1
    <3> DEFINE b == buckets[table[s]]
    <3>1. b \in BucketTypes /\ b.last <= now /\ passed[s] \in Nat /\ Budget(raced[s]) \in Nat
      BY <2>1, RateFacts
    <3>2. b.tokens \in Nat /\ b.last \in Nat
      BY <3>1, <1>f DEF BucketTypes
    <3>3. passed[s] + Rate!Refilled(b) <= MaxTokens + Budget(raced[s]) + now
      BY <2>1 DEF RateInv, WithinRate
    <3> DEFINE t == b.tokens
               l == b.last
    <3>4. Rate!Refilled(b) = (IF t + now - l > MaxTokens THEN MaxTokens ELSE t + now - l)
      BY DEF Rate!Refilled
    <3>5. Rate!Refilled(buckets[table[s]])' = (IF t + (now + 1) - l > MaxTokens THEN MaxTokens ELSE t + (now + 1) - l)
      BY <1>0 DEF Rate!Refilled
    <3> HIDE DEF t, l, b
    <3> QED BY <3>1, <3>2, <3>3, <3>4, <3>5, <1>f DEF t, l
  <2>2. \A s \in Sources : passed[s] \in Nat /\ Budget(raced[s]) \in Nat /\ (table[s] = 0 => passed[s] <= Budget(raced[s]) + now)
    BY RateFacts DEF RateInv, WithinRate
  <2>3. \A s \in Sources : table[s] = 0 => passed[s] <= Budget(raced[s]) + now + 1
    BY <2>2, <1>f
  <2>4. \A s \in Sources : MaxTokens + Budget(raced[s]) + now' = MaxTokens + Budget(raced[s]) + now + 1
                           /\ Budget(raced[s]) + now' = Budget(raced[s]) + now + 1
    BY <1>0, <1>f, RateFacts
  <2> QED BY <1>0, <2>1, <2>3, <2>4 DEF WithinRate
<1>5. CollectorKnows'
  BY <1>0 DEF RateInv, CollectorKnows, Resetting, Empty
<1> QED BY <1>1, <1>2, <1>3, <1>4, <1>5 DEF RateInv

\* cleanup takes entries out that are full again.
LEMMA RateCleans == ASSUME RateInv, Rate!Cleanup PROVE RateInv'
<1> DEFINE kept == {s \in Rate!Listed(table) : ~Rate!Quiet(s)}
<1>0. /\ collector = "clean" /\ mutex = "free" /\ table' = [s \in Sources |-> IF s \in kept THEN table[s] ELSE 0]
      /\ collector' = IF kept = {} THEN "stop" ELSE "select"
      /\ now' = now /\ buckets' = buckets /\ mutex' = mutex /\ worker' = worker
      /\ ticking' = ticking /\ resetOpen' = resetOpen /\ passed' = passed /\ raced' = raced
  BY DEF Rate!Cleanup
<1>1. \A s \in Sources : s \in kept <=> table[s] # 0 /\ ~Rate!Quiet(s)
  BY DEF Rate!Listed
<1> HIDE DEF kept
<1>2. \A s \in Sources : table'[s] = IF s \in kept THEN table[s] ELSE 0
  BY <1>0
<1>f. /\ now \in Nat /\ MaxTokens \in Nat /\ Len(buckets) \in Nat
      /\ \A s \in Sources : passed[s] \in Nat /\ Budget(raced[s]) \in Nat /\ table[s] \in 0 .. Len(buckets)
  BY RateFacts
<1>3. RateTypes'
  <2>1. 0 \in 0 .. Len(buckets)
    BY <1>f
  <2>2. table' \in [Sources -> 0 .. Len(buckets)]
    BY <1>0, <2>1, <1>f
  <2>3. collector' \in {"select", "clean", "stop", "gone"}
    BY <1>0
  <2> QED BY <1>0, <2>2, <2>3 DEF RateInv, RateTypes
<1>4. NoFuture' /\ EntriesApart' /\ LockIsHeld'
  BY <1>0, <1>2 DEF RateInv, NoFuture, EntriesApart, LockIsHeld
<1>5. AskersKnow'
  <2>1. \A w \in Workers : worker[w].at = "spend" => worker[w].entry # 0
    BY <1>f DEF RateInv, AskersKnow
  <2> QED BY <1>0, <1>2, <2>1 DEF RateInv, AskersKnow
<1>6. WithinRate'
  <2>1. ASSUME NEW s \in Sources, table[s] # 0, Rate!Quiet(s) PROVE passed[s] <= Budget(raced[s]) + now
    <3> DEFINE b == buckets[table[s]]
    <3>1. b \in BucketTypes /\ b.last <= now /\ now - b.last > CollectAge
      BY <2>1, RateFacts DEF Rate!Quiet
    <3>2. Rate!Refilled(b) = MaxTokens
      BY <3>1, <1>f, RefilledIs
    <3>3. passed[s] + Rate!Refilled(b) <= MaxTokens + Budget(raced[s]) + now
      BY <2>1 DEF RateInv, WithinRate
    <3> HIDE DEF b
    <3> QED BY <3>2, <3>3, <1>f
  <2>2. \A s \in Sources : table'[s] = 0 => passed[s] <= Budget(raced[s]) + now
    BY <1>1, <1>2, <2>1 DEF RateInv, WithinRate
  <2>3. \A s \in Sources : table'[s] # 0 => table'[s] = table[s] /\ table[s] # 0
    BY <1>2
  <2> QED BY <1>0, <2>2, <2>3 DEF RateInv, WithinRate, Rate!Refilled
<1>7. CollectorKnows'
  <2>1. kept = {} => Empty'
    BY <1>2 DEF Empty
  <2>2. ~Empty' => kept # {} /\ ~Empty
    BY <1>1, <1>2 DEF Empty
  <2>3. kept # {} => ~Empty'
    <3>1. kept \subseteq Sources
      BY DEF kept, Rate!Listed
    <3> QED BY <3>1, <1>1, <1>2 DEF Empty
  <2>4. ~Resetting /\ ~Resetting'
    BY <1>0, PacketsAssumption DEF RateInv, LockIsHeld, Resetting
  <2> QED BY <1>0, <2>1, <2>2, <2>3, <2>4 DEF RateInv, CollectorKnows, Resetting
<1> QED BY <1>3, <1>4, <1>5, <1>6, <1>7 DEF RateInv

\* The bucket that a new entry is.
NewBucket(w) == [last |-> worker[w].time, tokens |-> MaxTokens - 1]

\* The worker after its insertion.
Inserted(w, first) ==
    IF first THEN [worker[w] EXCEPT !.at = "reset", !.again = table[worker[w].ip] # 0] ELSE Rate!Idle

\* A new entry: the source passed one packet, and has what is kept of a burst since
\* the look-up; when others passed since, that is a race.
LEMMA RateInserts == ASSUME RateInv, NEW w \in Workers, Rate!Insert(w) PROVE RateInv'
<1> DEFINE s == worker[w].ip
           e == Len(buckets) + 1
           t == [table EXCEPT ![s] = e]
           first == Rate!Listed(t) = {s}
           k == Inserted(w, first)
           r == IF passed[s] # worker[w].seen THEN raced[s] + 1 ELSE raced[s]
<1>0. /\ worker[w].at = "insert" /\ mutex = "free" /\ Len(buckets) < MaxBuckets
      /\ buckets' = Append(buckets, NewBucket(w)) /\ table' = t
      /\ now' = now /\ collector' = collector /\ ticking' = ticking /\ resetOpen' = resetOpen
  BY DEF Rate!Insert, Rate!PacketCost, NewBucket
<1>a. worker' = [worker EXCEPT ![w] = k] /\ mutex' = IF first THEN w ELSE mutex
  <2>1. CASE first
    <3>1. worker' = [worker EXCEPT ![w].at = "reset", ![w].again = table[s] # 0] /\ mutex' = w
      BY <2>1 DEF Rate!Insert
    <3> QED BY <2>1, <3>1 DEF Inserted
  <2>2. CASE ~first
    BY <2>2 DEF Rate!Insert, Inserted
  <2> QED BY <2>1, <2>2
<1>b. passed' = [passed EXCEPT ![s] = passed[s] + 1] /\ raced' = [raced EXCEPT ![s] = r]
  BY DEF Rate!Insert, Rate!Passed
<1>f. /\ now \in Nat /\ Len(buckets) \in Nat /\ MaxTokens \in Nat /\ MaxTokens >= 2 /\ Horizon \in Nat
      /\ \A i \in 1 .. Len(buckets) : buckets[i] \in BucketTypes /\ buckets[i].last <= now
      /\ \A u \in Sources : /\ passed[u] \in Nat /\ raced[u] \in Nat /\ table[u] \in 0 .. Len(buckets)
                            /\ Budget(raced[u]) \in Nat
                            /\ table[u] # 0 => table[u] \in 1 .. Len(buckets)
      /\ \A v \in Workers : worker[v] \in WorkerTypes
  BY RateFacts
<1>g. s \in Sources /\ worker[w].time \in Nat /\ worker[w].time <= now /\ worker[w].seen \in Nat /\ worker[w].seen <= passed[s]
  BY <1>0, <1>f DEF RateInv, AskersKnow, NoFuture, WorkerTypes
<1>1. /\ NewBucket(w) \in BucketTypes /\ NewBucket(w).last = worker[w].time /\ NewBucket(w).tokens = MaxTokens - 1
  <2>1. worker[w].time \in 0 .. Horizon /\ MaxTokens - 1 \in 1 .. MaxTokens
    BY <1>f, <1>g DEF RateInv, RateTypes
  <2> QED BY <2>1 DEF NewBucket, BucketTypes
<1>2. /\ buckets' \in Seq(BucketTypes) /\ Len(buckets') = e /\ buckets'[e] = NewBucket(w)
      /\ \A i \in 1 .. Len(buckets) : buckets'[i] = buckets[i]
  <2>1. buckets \in Seq(BucketTypes)
    BY DEF RateInv, RateTypes
  <2> QED BY <1>0, <1>1, <2>1
<1>3. /\ \A u \in Sources : table'[u] = IF u = s THEN e ELSE table[u]
      /\ table' \in [Sources -> 0 .. Len(buckets')] /\ e # 0
  <2>1. e \in 0 .. e /\ e # 0 /\ \A u \in Sources : table[u] \in 0 .. e
    BY <1>f
  <2>2. table \in [Sources -> 0 .. Len(buckets)]
    BY DEF RateInv, RateTypes
  <2>3. \A u \in Sources : table'[u] = IF u = s THEN e ELSE table[u]
    BY <1>0, <1>g, <2>2
  <2>4. table' \in [Sources -> 0 .. e]
    BY <1>0, <1>g, <2>1, <2>2
  <2> QED BY <1>2, <2>1, <2>3, <2>4
<1>4. /\ k \in WorkerTypes /\ k.at = (IF first THEN "reset" ELSE "idle") /\ k.time \in Nat /\ k.time <= now
      /\ first => k.ip = s /\ (k.again <=> table[s] # 0)
  <2>1. worker[w] \in WorkerTypes
    BY <1>f
  <2>2. CASE first
    <3>1. k = [worker[w] EXCEPT !.at = "reset", !.again = table[s] # 0]
      BY <2>2 DEF Inserted
    <3>2. (table[s] # 0) \in BOOLEAN
      OBVIOUS
    <3> HIDE DEF k, first
    <3> QED BY <2>1, <2>2, <3>1, <3>2, <1>g DEF WorkerTypes, Places
  <2>3. CASE ~first
    <3>1. k = Rate!Idle
      BY <2>3 DEF Inserted
    <3> HIDE DEF k, first
    <3> QED BY <2>3, <3>1, <1>f DEF Rate!Idle, WorkerTypes, Places
  <2> QED BY <2>2, <2>3
<1>5. first <=> \A u \in Sources : u # s => table[u] = 0
  <2>1. first <=> {u \in Sources : t[u] # 0} = {s}
    BY DEF Rate!Listed
  <2>2. \A u \in Sources : t[u] = IF u = s THEN e ELSE table[u]
    BY <1>0, <1>3
  <2> HIDE DEF first, t
  <2> QED BY <2>1, <2>2, <1>3, <1>g
<1> HIDE DEF k, first
<1>6. worker' \in [Workers -> WorkerTypes] /\ \A v \in Workers : worker'[v] = IF v = w THEN k ELSE worker[v]
  BY <1>a, <1>4 DEF RateInv, RateTypes
<1>7. /\ r \in Nat /\ r >= raced[s] /\ (passed[s] # worker[w].seen => Budget(r) = Budget(raced[s]) + MaxTokens)
      /\ (passed[s] = worker[w].seen => r = raced[s]) /\ Budget(r) \in Nat
  <2>1. raced[s] \in Nat /\ passed[s] \in Nat
    BY <1>f, <1>g
  <2>2. Budget(raced[s]) \in Nat /\ Budget(raced[s] + 1) = Budget(raced[s]) + MaxTokens /\ Budget(raced[s] + 1) \in Nat
    <3>1. raced[s] + 1 \in Nat
      BY <2>1
    <3>2. Budget(raced[s]) \in Nat /\ Budget(raced[s] + 1) = Budget(raced[s]) + MaxTokens
      BY <2>1, BudgetGrows
    <3>3. Budget(raced[s] + 1) \in Nat
      BY <3>1, BudgetGrows
    <3> QED BY <3>2, <3>3
  <2>3. CASE passed[s] # worker[w].seen
    <3>1. r = raced[s] + 1
      BY <2>3
    <3> HIDE DEF r
    <3> QED BY <2>1, <2>2, <2>3, <3>1
  <2>4. CASE passed[s] = worker[w].seen
    <3>1. r = raced[s]
      BY <2>4
    <3> HIDE DEF r
    <3> QED BY <2>1, <2>2, <2>4, <3>1
  <2> QED BY <2>3, <2>4
<1> HIDE DEF r
<1>8. /\ passed' \in [Sources -> Nat] /\ raced' \in [Sources -> Nat] /\ passed'[s] = passed[s] + 1 /\ raced'[s] = r
      /\ \A u \in Sources : u # s => passed'[u] = passed[u] /\ raced'[u] = raced[u]
  <2>1. passed \in [Sources -> Nat] /\ raced \in [Sources -> Nat]
    BY DEF RateInv, RateTypes
  <2>2. passed[s] + 1 \in Nat
    BY <1>f, <1>g
  <2> QED BY <1>b, <1>7, <1>g, <2>1, <2>2
<1>9. RateTypes'
  BY <1>0, <1>a, <1>2, <1>3, <1>6, <1>8 DEF RateInv, RateTypes
<1>10. NoFuture'
  <2>1. \A i \in 1 .. Len(buckets') : i \in 1 .. Len(buckets) \/ i = e
    BY <1>2, <1>f
  <2>2. \A i \in 1 .. Len(buckets') : buckets'[i].last <= now
    BY <2>1, <1>1, <1>2, <1>f, <1>g
  <2>3. \A v \in Workers : worker'[v].time <= now
    BY <1>4, <1>6 DEF RateInv, NoFuture
  <2> QED BY <1>0, <2>2, <2>3 DEF NoFuture
<1>c. \A u \in Sources : table[u] # e
  BY <1>f
<1>11. EntriesApart'
  BY <1>3, <1>c DEF RateInv, EntriesApart
<1>12. AskersKnow'
  <2>1. ASSUME NEW v \in Workers PROVE worker'[v].at # "idle" => worker'[v].ip \in Sources
    BY <1>4, <1>6, <1>g DEF RateInv, AskersKnow
  <2>2. ASSUME NEW v \in Workers, worker'[v].at = "spend"
        PROVE  /\ worker'[v].entry \in 1 .. Len(buckets')
               /\ \A u \in Sources : table'[u] = worker'[v].entry => u = worker'[v].ip
    <3>1. v # w /\ worker'[v] = worker[v] /\ worker[v].at = "spend"
      BY <2>2, <1>4, <1>6
    <3>2. worker[v].entry \in 1 .. Len(buckets) /\ \A u \in Sources : table[u] = worker[v].entry => u = worker[v].ip
      BY <3>1 DEF RateInv, AskersKnow
    <3>3. worker[v].entry # e /\ worker[v].entry \in 1 .. e
      BY <3>2, <1>f
    <3> QED BY <3>1, <3>2, <3>3, <1>2, <1>3
  <2>3. ASSUME NEW v \in Workers, worker'[v].at = "insert"
        PROVE  /\ worker'[v].seen <= passed'[worker'[v].ip]
               /\ passed'[worker'[v].ip] = worker'[v].seen =>
                     passed'[worker'[v].ip] <= Budget(raced'[worker'[v].ip]) + worker'[v].time
    <3>1. v # w /\ worker'[v] = worker[v] /\ worker[v].at = "insert"
      BY <2>3, <1>4, <1>6
    <3> DEFINE u == worker[v].ip
    <3>2. /\ u \in Sources /\ worker[v].seen <= passed[u] /\ worker[v].seen \in Nat
          /\ passed[u] = worker[v].seen => passed[u] <= Budget(raced[u]) + worker[v].time
      BY <3>1, <1>f DEF RateInv, AskersKnow, WorkerTypes
    <3>3. CASE u = s
      <4>1. passed'[u] = passed[u] + 1 /\ passed[u] \in Nat
        BY <3>2, <3>3, <1>8, <1>f
      <4>2. worker[v].seen < passed'[u]
        BY <4>1, <3>2
      <4> QED BY <3>1, <4>1, <4>2, <3>2
    <3>4. CASE u # s
      BY <3>1, <3>2, <3>4, <1>8
    <3> QED BY <3>3, <3>4
  <2> QED BY <2>1, <2>2, <2>3 DEF AskersKnow
<1>13. WithinRate'
  <2>1. ASSUME NEW u \in Sources, u # s
        PROVE  /\ table'[u] = 0 => passed'[u] <= Budget(raced'[u]) + now'
               /\ table'[u] # 0 => passed'[u] + Rate!Refilled(buckets[table[u]])' <= MaxTokens + Budget(raced'[u]) + now'
    <3>1. table'[u] = table[u] /\ passed'[u] = passed[u] /\ raced'[u] = raced[u] /\ now' = now
      BY <2>1, <1>0, <1>3, <1>8
    <3>2. table[u] # 0 => buckets'[table[u]] = buckets[table[u]]
      BY <1>2, <1>f
    <3>3. table[u] # 0 => Rate!Refilled(buckets[table[u]])' = Rate!Refilled(buckets[table[u]])
      BY <3>1, <3>2 DEF Rate!Refilled
    <3> QED BY <3>1, <3>3 DEF RateInv, WithinRate
  <2>2. passed'[s] + Rate!Refilled(NewBucket(w)) <= MaxTokens + Budget(raced'[s]) + now
    <3> DEFINE f == Rate!Refilled(NewBucket(w))
               p == passed[s]
               B == Budget(raced[s])
               l == worker[w].time
    <3>1. f \in Nat /\ f <= MaxTokens /\ f <= (MaxTokens - 1) + now - l /\ p \in Nat /\ B \in Nat /\ l \in Nat /\ l <= now
      <4>1. f \in 1 .. MaxTokens /\ f <= NewBucket(w).tokens + now - NewBucket(w).last
        BY <1>1, <1>f, <1>g, RefilledIs
      <4> HIDE DEF f
      <4> QED BY <4>1, <1>1, <1>f, <1>g
    <3>2. passed'[s] = p + 1 /\ raced'[s] = r
      BY <1>8
    <3>3. CASE p = worker[w].seen
      <4>1. p <= B + l /\ Budget(raced'[s]) = B
        BY <3>3, <3>2, <1>0, <1>7 DEF RateInv, AskersKnow
      <4> HIDE DEF f, p, B, l
      <4> QED BY <3>1, <3>2, <4>1, <1>f DEF f
    <3>4. CASE p # worker[w].seen
      <4>1. Budget(raced'[s]) = B + MaxTokens
        BY <3>4, <3>2, <1>7
      <4>2. p + 1 <= MaxTokens + B + now
        <5>1. CASE table[s] = 0
          <6>1. p <= B + now
            BY <5>1, <1>g DEF RateInv, WithinRate
          <6> HIDE DEF p, B
          <6> QED BY <6>1, <3>1, <1>f
        <5>2. CASE table[s] # 0
          <6> DEFINE g == Rate!Refilled(buckets[table[s]])
          <6>1. p + g <= MaxTokens + B + now
            BY <5>2, <1>g DEF RateInv, WithinRate
          <6>2. g \in 1 .. MaxTokens
            BY <5>2, <1>f, <1>g, RefilledIs
          <6> HIDE DEF p, B, g
          <6> QED BY <6>1, <6>2, <3>1, <1>f
        <5> QED BY <5>1, <5>2
      <4> HIDE DEF f, p, B, l
      <4> QED BY <3>1, <3>2, <4>1, <4>2, <1>f DEF f
    <3> QED BY <3>3, <3>4
  <2>3. ASSUME NEW u \in Sources, u = s
        PROVE  table'[u] # 0 /\ Rate!Refilled(buckets[table[u]])' = Rate!Refilled(NewBucket(w))
    <3>1. table'[u] = e /\ buckets'[e] = NewBucket(w)
      BY <2>3, <1>2, <1>3, <1>g
    <3>2. buckets'[table'[u]] = NewBucket(w)
      BY <3>1
    <3> QED BY <3>1, <3>2, <1>0, <1>3 DEF Rate!Refilled
  <2> QED BY <2>1, <2>2, <2>3, <1>0 DEF WithinRate
<1>14. LockIsHeld'
  BY <1>0, <1>a, <1>4, <1>6, PacketsAssumption DEF RateInv, LockIsHeld
<1>15. CollectorKnows'
  <2>1. ~Resetting /\ ~Empty' /\ (Resetting' <=> first)
    <3>1. ~Resetting
      BY <1>0, PacketsAssumption DEF RateInv, LockIsHeld, Resetting
    <3>2. ~Empty'
      BY <1>3, <1>g DEF Empty
    <3>3. Resetting' <=> first
      BY <3>1, <1>4, <1>6 DEF Resetting
    <3> QED BY <3>1, <3>2, <3>3
  <2>2. ASSUME NEW v \in Workers, worker'[v].at = "reset", ~worker'[v].again, collector \in {"select", "clean"}
        PROVE  ~ticking
    <3>1. v = w /\ first /\ table[s] = 0
      BY <2>1, <2>2, <1>4, <1>6 DEF Resetting
    <3>2. Empty
      BY <3>1, <1>5 DEF Empty
    <3> QED BY <2>2, <3>2 DEF RateInv, CollectorKnows
  <2>3. ~first => ~Empty
    BY <1>5 DEF Empty
  <2> QED BY <1>0, <2>1, <2>2, <2>3 DEF RateInv, CollectorKnows
<1> QED BY <1>9, <1>10, <1>11, <1>12, <1>13, <1>14, <1>15 DEF RateInv

\* A found entry is used: what it gives it has no more, and one that is not in the
\* table adds a race.
LEMMA RateSpends == ASSUME RateInv, NEW w \in Workers, Rate!Spend(w) PROVE RateInv'
<1> DEFINE s == worker[w].ip
           e == worker[w].entry
           full == Rate!Refilled(buckets[e])
           ok == full > 1
           nb == [last |-> now, tokens |-> IF ok THEN full - 1 ELSE full]
           n == IF ok THEN passed[s] + 1 ELSE passed[s]
           r == IF ok /\ table[s] # e THEN raced[s] + 1 ELSE raced[s]
<1>0. /\ worker[w].at = "spend" /\ buckets' = [buckets EXCEPT ![e] = nb]
      /\ worker' = [worker EXCEPT ![w] = Rate!Idle]
      /\ now' = now /\ table' = table /\ mutex' = mutex /\ collector' = collector /\ ticking' = ticking
      /\ resetOpen' = resetOpen
  BY DEF Rate!Spend, Rate!PacketCost
<1>f. /\ now \in Nat /\ Len(buckets) \in Nat /\ MaxTokens \in Nat /\ MaxTokens >= 2 /\ Horizon \in Nat
      /\ \A i \in 1 .. Len(buckets) : buckets[i] \in BucketTypes /\ buckets[i].last <= now
      /\ \A u \in Sources : /\ passed[u] \in Nat /\ raced[u] \in Nat /\ table[u] \in 0 .. Len(buckets)
                            /\ Budget(raced[u]) \in Nat
                            /\ table[u] # 0 => table[u] \in 1 .. Len(buckets)
      /\ \A v \in Workers : worker[v] \in WorkerTypes
  BY RateFacts
<1>g. s \in Sources /\ e \in 1 .. Len(buckets) /\ \A u \in Sources : table[u] = e => u = s
  BY <1>0 DEF RateInv, AskersKnow
<1>p. passed \in [Sources -> Nat] /\ raced \in [Sources -> Nat]
  BY DEF RateInv, RateTypes
<1>b. passed' = [passed EXCEPT ![s] = n] /\ raced' = [raced EXCEPT ![s] = r]
  <2>1. CASE ok
    BY <2>1 DEF Rate!Spend, Rate!PacketCost, Rate!Passed
  <2>2. CASE ~ok
    <3>1. passed' = passed /\ raced' = [raced EXCEPT ![s] = raced[s]]
      BY <2>2 DEF Rate!Spend, Rate!PacketCost
    <3>2. passed = [passed EXCEPT ![s] = passed[s]]
      BY <1>p, <1>g
    <3> QED BY <2>2, <3>1, <3>2
  <2> QED BY <2>1, <2>2
<1>1. full \in 1 .. MaxTokens
  BY <1>f, <1>g, RefilledIs
<1>2. nb \in BucketTypes /\ nb.last = now /\ nb.tokens = IF ok THEN full - 1 ELSE full
  <2>1. (IF ok THEN full - 1 ELSE full) \in 1 .. MaxTokens /\ now \in 0 .. Horizon
    <3>1. now \in 0 .. Horizon
      BY DEF RateInv, RateTypes
    <3> HIDE DEF full
    <3> QED BY <1>1, <1>f, <3>1
  <2> HIDE DEF full, ok
  <2> QED BY <2>1 DEF BucketTypes
<1>3. /\ n \in Nat /\ r \in Nat /\ n >= passed[s] /\ Budget(r) \in Nat
      /\ (ok /\ table[s] # e => n = passed[s] + 1 /\ Budget(r) = Budget(raced[s]) + MaxTokens)
      /\ (ok /\ table[s] = e => n = passed[s] + 1 /\ r = raced[s])
      /\ (~ok => n = passed[s] /\ r = raced[s])
  <2>1. raced[s] \in Nat /\ passed[s] \in Nat /\ raced[s] + 1 \in Nat /\ passed[s] + 1 \in Nat /\ passed[s] + 1 >= passed[s]
    BY <1>f, <1>g
  <2>2. Budget(raced[s]) \in Nat /\ Budget(raced[s] + 1) = Budget(raced[s]) + MaxTokens
    BY <2>1, BudgetGrows
  <2>3. Budget(raced[s] + 1) \in Nat
    BY <2>1, BudgetGrows
  <2> HIDE DEF ok, e
  <2> QED BY <2>1, <2>2, <2>3
<1> HIDE DEF nb, n, r
<1>4. /\ buckets' \in Seq(BucketTypes) /\ Len(buckets') = Len(buckets) /\ buckets'[e] = nb
      /\ \A i \in 1 .. Len(buckets) : i # e => buckets'[i] = buckets[i]
  <2>1. buckets \in Seq(BucketTypes) /\ DOMAIN buckets = 1 .. Len(buckets)
    BY DEF RateInv, RateTypes
  <2> QED BY <1>0, <1>2, <1>g, <2>1
<1>5. /\ passed' \in [Sources -> Nat] /\ raced' \in [Sources -> Nat] /\ passed'[s] = n /\ raced'[s] = r
      /\ \A u \in Sources : u # s => passed'[u] = passed[u] /\ raced'[u] = raced[u]
  BY <1>b, <1>p, <1>3, <1>g
<1>6. Rate!Idle \in WorkerTypes /\ Rate!Idle.at = "idle" /\ Rate!Idle.time = 0
  BY DEF Rate!Idle, WorkerTypes, Places
<1>7. worker' \in [Workers -> WorkerTypes] /\ \A v \in Workers : worker'[v] = IF v = w THEN Rate!Idle ELSE worker[v]
  BY <1>0, <1>6 DEF RateInv, RateTypes
<1>8. RateTypes'
  BY <1>0, <1>4, <1>5, <1>7 DEF RateInv, RateTypes
<1>9. NoFuture'
  <2>1. \A i \in 1 .. Len(buckets') : buckets'[i].last <= now
    BY <1>2, <1>4, <1>f
  <2>2. \A v \in Workers : worker'[v].time <= now
    BY <1>6, <1>7, <1>f DEF RateInv, NoFuture
  <2> QED BY <1>0, <2>1, <2>2 DEF NoFuture
<1>10. EntriesApart'
  BY <1>0 DEF RateInv, EntriesApart
<1>11. AskersKnow'
  <2>1. ASSUME NEW v \in Workers, worker'[v].at # "idle" PROVE v # w /\ worker'[v] = worker[v]
    BY <2>1, <1>6, <1>7
  <2>2. ASSUME NEW v \in Workers, worker'[v].at = "insert"
        PROVE  /\ worker'[v].seen <= passed'[worker'[v].ip]
               /\ passed'[worker'[v].ip] = worker'[v].seen =>
                     passed'[worker'[v].ip] <= Budget(raced'[worker'[v].ip]) + worker'[v].time
    <3>1. worker'[v] = worker[v] /\ worker[v].at = "insert"
      BY <2>1, <2>2
    <3> DEFINE u == worker[v].ip
    <3>2. /\ u \in Sources /\ worker[v].seen <= passed[u] /\ worker[v].seen \in Nat
          /\ passed[u] = worker[v].seen => passed[u] <= Budget(raced[u]) + worker[v].time
      BY <3>1, <1>f DEF RateInv, AskersKnow, WorkerTypes
    <3>3. CASE u = s /\ ok
      <4>1. passed'[u] = passed[u] + 1 /\ passed[u] \in Nat
        BY <3>2, <3>3, <1>3, <1>5, <1>f
      <4>2. worker[v].seen < passed'[u]
        BY <4>1, <3>2
      <4> QED BY <3>1, <4>1, <4>2, <3>2
    <3>4. CASE ~(u = s /\ ok)
      <4>1. passed'[u] = passed[u] /\ raced'[u] = raced[u]
        BY <3>2, <3>4, <1>3, <1>5
      <4> QED BY <3>1, <3>2, <4>1
    <3> QED BY <3>3, <3>4
  <2>3. \A v \in Workers : worker'[v].at # "idle" => worker'[v].ip \in Sources
    BY <2>1 DEF RateInv, AskersKnow
  <2>4. \A v \in Workers : worker'[v].at = "spend" =>
              /\ worker'[v].entry \in 1 .. Len(buckets')
              /\ \A t \in Sources : table'[t] = worker'[v].entry => t = worker'[v].ip
    BY <2>1, <1>0, <1>4 DEF RateInv, AskersKnow
  <2> QED BY <2>2, <2>3, <2>4 DEF AskersKnow
<1>12. WithinRate'
  <2>1. ASSUME NEW u \in Sources, u # s
        PROVE  /\ table'[u] = 0 => passed'[u] <= Budget(raced'[u]) + now'
               /\ table'[u] # 0 => passed'[u] + Rate!Refilled(buckets[table[u]])' <= MaxTokens + Budget(raced'[u]) + now'
    <3>1. table'[u] = table[u] /\ passed'[u] = passed[u] /\ raced'[u] = raced[u] /\ now' = now /\ table[u] # e
      BY <2>1, <1>0, <1>5, <1>g
    <3>2. table[u] # 0 => buckets'[table[u]] = buckets[table[u]]
      BY <3>1, <1>4, <1>f
    <3>3. table[u] # 0 => Rate!Refilled(buckets[table[u]])' = Rate!Refilled(buckets[table[u]])
      BY <3>1, <3>2 DEF Rate!Refilled
    <3> QED BY <3>1, <3>3 DEF RateInv, WithinRate
  <2>2. ASSUME NEW u \in Sources, u = s
        PROVE  /\ table'[u] = 0 => passed'[u] <= Budget(raced'[u]) + now'
               /\ table'[u] # 0 => passed'[u] + Rate!Refilled(buckets[table[u]])' <= MaxTokens + Budget(raced'[u]) + now'
    <3> DEFINE p == passed[u]
               B == Budget(raced[u])
               q == passed'[u]
               C == Budget(raced'[u])
    <3>1. p \in Nat /\ B \in Nat /\ q \in Nat /\ C \in Nat /\ now' = now /\ table'[u] = table[u]
      BY <2>2, <1>0, <1>3, <1>5, <1>f
    <3>2. /\ ok /\ table[u] # e => q = p + 1 /\ C = B + MaxTokens
          /\ ok /\ table[u] = e => q = p + 1 /\ C = B
          /\ ~ok => q = p /\ C = B
      BY <2>2, <1>3, <1>5
    <3>3. (table[u] = 0 => p <= B + now)
          /\ (table[u] # 0 => p + Rate!Refilled(buckets[table[u]]) <= MaxTokens + B + now)
      BY DEF RateInv, WithinRate
    <3>4. CASE table[u] = e
      <4>1. Rate!Refilled(buckets[table[u]])' = nb.tokens
        <5>1. buckets'[table'[u]] = nb /\ now' = now
          BY <3>1, <3>4, <1>4
        <5>2. Rate!Refilled(buckets[table[u]])' = Rate!Refilled(nb)
          BY <5>1 DEF Rate!Refilled
        <5>3. nb.last <= now
          BY <1>2, <1>f
        <5> QED BY <5>2, <5>3, <1>2, <1>f, RefilledIs
      <4>2. table[u] # 0 /\ p + full <= MaxTokens + B + now
        BY <3>3, <3>4, <1>g, <1>f
      <4>3. nb.tokens = (IF ok THEN full - 1 ELSE full) /\ (ok => q = p + 1 /\ C = B) /\ (~ok => q = p /\ C = B)
        BY <1>2, <3>2, <3>4
      <4> HIDE DEF p, q, B, C, full, ok
      <4>4. q + nb.tokens <= MaxTokens + C + now
        BY <3>1, <4>2, <4>3, <1>1, <1>f
      <4> QED BY <4>1, <4>2, <4>4, <3>1 DEF q, C
    <3>5. CASE table[u] # e
      <4>1. (ok => q = p + 1 /\ C = B + MaxTokens) /\ (~ok => q = p /\ C = B)
        BY <3>2, <3>5
      <4>2. CASE table[u] = 0
        <5>1. p <= B + now
          BY <3>3, <4>2
        <5>2. q <= C + now
          <6> HIDE DEF p, q, B, C, ok
          <6> QED BY <3>1, <4>1, <5>1, <1>f
        <5> QED BY <5>2, <4>2, <3>1
      <4>3. CASE table[u] # 0
        <5>1. Rate!Refilled(buckets[table[u]])' = Rate!Refilled(buckets[table[u]])
          <6>1. buckets'[table'[u]] = buckets[table[u]]
            BY <3>1, <3>5, <4>3, <1>4, <1>f
          <6> QED BY <6>1, <3>1 DEF Rate!Refilled
        <5> DEFINE g == Rate!Refilled(buckets[table[u]])
        <5>2. g \in 1 .. MaxTokens /\ p + g <= MaxTokens + B + now
          BY <4>3, <3>3, <1>f, RefilledIs
        <5>3. q + g <= MaxTokens + C + now
          <6> HIDE DEF p, q, B, C, ok, g
          <6> QED BY <3>1, <4>1, <5>2, <1>f
        <5> QED BY <5>1, <5>3, <4>3, <3>1
      <4> QED BY <4>2, <4>3
    <3> QED BY <3>4, <3>5
  <2> QED BY <2>1, <2>2 DEF WithinRate
<1>13. LockIsHeld'
  BY <1>0, <1>6, <1>7 DEF RateInv, LockIsHeld
<1>14. CollectorKnows'
  <2>1. \A v \in Workers : worker'[v].at = "reset" <=> worker[v].at = "reset"
    BY <1>0, <1>6, <1>7
  <2>2. \A v \in Workers : worker'[v].at = "reset" => worker'[v] = worker[v]
    BY <1>6, <1>7
  <2>3. (Resetting' <=> Resetting) /\ (Empty' <=> Empty)
    BY <1>0, <2>1 DEF Resetting, Empty
  <2> QED BY <1>0, <2>1, <2>2, <2>3 DEF RateInv, CollectorKnows
<1> QED BY <1>8, <1>9, <1>10, <1>11, <1>12, <1>13, <1>14 DEF RateInv

\* Every step of the workers, the collector and the clock keeps RateInv.
LEMMA RateStep == RateInv /\ Rate!Next => RateInv'
BY RateAllows, RateInserts, RateResets, RatePanics, RateSpends, RateCollects, RateCleans, RateTime
   DEF Rate!Next, Rate!System

\* Steps of the other parts leave the limiter as it is.
LEMMA RateStays == ASSUME RateInv, UNCHANGED rateVars PROVE RateInv'
<1>0. /\ now' = now /\ buckets' = buckets /\ table' = table /\ mutex' = mutex /\ worker' = worker
      /\ collector' = collector /\ ticking' = ticking /\ resetOpen' = resetOpen /\ passed' = passed /\ raced' = raced
  BY DEF rateVars
<1>1. RateTypes' /\ NoFuture' /\ EntriesApart' /\ AskersKnow' /\ LockIsHeld'
  BY <1>0 DEF RateInv, RateTypes, NoFuture, EntriesApart, AskersKnow, LockIsHeld
<1>2. WithinRate'
  BY <1>0 DEF RateInv, WithinRate, Rate!Refilled
<1>3. CollectorKnows'
  BY <1>0 DEF RateInv, CollectorKnows, Resetting, Empty
<1> QED BY <1>1, <1>2, <1>3 DEF RateInv

\* RateInv is more than the properties of the rate limiter.
LEMMA RateMeans ==
    RateInv => Rate!TypeOK /\ Rate!RateKept /\ Rate!EntriesAreCollected /\ Rate!OnlyTwoFirstPacketsBlock
<1> SUFFICES ASSUME RateInv
             PROVE  Rate!TypeOK /\ Rate!RateKept /\ Rate!EntriesAreCollected /\ Rate!OnlyTwoFirstPacketsBlock
  OBVIOUS
<1>f. /\ now \in Nat /\ Len(buckets) \in Nat /\ MaxTokens \in Nat /\ MaxTokens >= 2
      /\ \A i \in 1 .. Len(buckets) : buckets[i] \in BucketTypes /\ buckets[i].last <= now
      /\ \A u \in Sources : /\ passed[u] \in Nat /\ raced[u] \in Nat /\ table[u] \in 0 .. Len(buckets)
                            /\ Budget(raced[u]) \in Nat
                            /\ table[u] # 0 => table[u] \in 1 .. Len(buckets)
      /\ \A v \in Workers : worker[v] \in WorkerTypes
  BY RateFacts
<1>1. Rate!TypeOK
  <2>1. \A i \in DOMAIN buckets : buckets[i].last \in 0 .. Horizon /\ buckets[i].tokens \in 0 .. MaxTokens
    <3>1. DOMAIN buckets = 1 .. Len(buckets)
      BY DEF RateInv, RateTypes
    <3> QED BY <3>1, <1>f DEF BucketTypes
  <2>2. \A w \in Workers : worker[w].at \in {"idle", "insert", "spend", "reset", "panic"}
    BY <1>f DEF WorkerTypes, Places
  <2>3. ticking \in BOOLEAN /\ resetOpen \in BOOLEAN
    BY DEF RateInv, RateTypes
  <2> QED BY <2>1, <2>2, <2>3 DEF RateInv, RateTypes, Rate!TypeOK
<1>2. Rate!RateKept
  <2>1. ASSUME NEW s \in Sources PROVE passed[s] * 1 <= MaxTokens * (1 + raced[s]) + now
    <3>1. MaxTokens * (1 + raced[s]) = MaxTokens + Budget(raced[s])
      BY <1>f, BudgetGrows
    <3>2. passed[s] <= MaxTokens + Budget(raced[s]) + now
      <4>1. CASE table[s] = 0
        <5>1. passed[s] <= Budget(raced[s]) + now
          BY <4>1 DEF RateInv, WithinRate
        <5> QED BY <5>1, <1>f
      <4>2. CASE table[s] # 0
        <5> DEFINE g == Rate!Refilled(buckets[table[s]])
        <5>1. passed[s] + g <= MaxTokens + Budget(raced[s]) + now
          BY <4>2 DEF RateInv, WithinRate
        <5>2. g \in 1 .. MaxTokens
          BY <4>2, <1>f, RefilledIs
        <5> HIDE DEF g
        <5> QED BY <5>1, <5>2, <1>f
      <4> QED BY <4>1, <4>2
    <3>3. passed[s] * 1 = passed[s]
      BY <1>f
    <3> QED BY <3>1, <3>2, <3>3
  <2> QED BY <2>1 DEF Rate!RateKept, Rate!PacketCost
<1>3. Rate!EntriesAreCollected
  <2>1. Rate!Listed(table) # {} => ~Empty
    BY DEF Rate!Listed, Empty
  <2> QED BY <2>1 DEF RateInv, CollectorKnows, Resetting, Rate!EntriesAreCollected
<1>4. Rate!OnlyTwoFirstPacketsBlock
  BY DEF RateInv, CollectorKnows, Rate!OnlyTwoFirstPacketsBlock
<1> QED BY <1>1, <1>2, <1>3, <1>4

-----------------------------------------------------------------------------
(* The cookies.                                                            *)

ReplyTypes == [cookie : Cook!Cookie, mac1 : Cook!Numbers]

CookieTypes ==
    /\ secret \in Cook!Secrets /\ secretAge \in 0 .. Cook!Expired /\ cookieAge \in 0 .. Cook!Expired
    /\ replier \in [Cook!Repliers -> {"idle", "check", "refresh", "derive"}]
    /\ cookie \in Cook!Cookie \cup {Cook!None} /\ lastMAC1 \in 0 .. 3
    /\ addr \in Addrs /\ faults \in 0 .. MaxFaults /\ mac1Sent \in BOOLEAN
    /\ message \in Cook!Message \cup {Cook!None} /\ through \in Cook!Message \cup {Cook!None}
    /\ cookieReply \in ReplyTypes \cup {Cook!None}

\* The worker with the initiator's message has it until the reply is made.
CookieInv ==
    /\ CookieTypes
    /\ replier["ours"] # "idle" => message # Cook!None
    /\ through # Cook!None => through.mac2.src = through.src

\* At the start no cookie was made.
LEMMA CookieInit == Cook!Init => CookieInv
<1> SUFFICES ASSUME Cook!Init PROVE CookieInv
  OBVIOUS
<1>1. /\ secret = 0 /\ secretAge = Cook!Expired /\ replier = [r \in Cook!Repliers |-> "idle"] /\ cookie = Cook!None
      /\ cookieAge = Cook!Expired /\ lastMAC1 = 0 /\ addr \in Addrs /\ faults = 0 /\ mac1Sent = FALSE
      /\ message = Cook!None /\ cookieReply = Cook!None /\ through = Cook!None
  BY DEF Cook!Init
<1>2. secretAge \in 0 .. Cook!Expired /\ secret \in Cook!Secrets /\ faults \in 0 .. MaxFaults /\ "ours" \in Cook!Repliers
  BY <1>1, PacketsAssumption DEF Cook!Expired, Cook!Secrets, Cook!Repliers
<1>a. replier \in [Cook!Repliers -> {"idle", "check", "refresh", "derive"}] /\ lastMAC1 \in 0 .. 3
  BY <1>1
<1>c. mac1Sent \in BOOLEAN
  BY <1>1
<1>b. cookieAge \in 0 .. Cook!Expired
  BY <1>1, <1>2
<1>3. CookieTypes
  BY <1>1, <1>2, <1>a, <1>b, <1>c DEF CookieTypes
<1> QED BY <1>1, <1>2, <1>3 DEF CookieInv

\* There is a number that neither the last message nor a late reply has.
LEMMA FreeNumber ==
    ASSUME CookieInv
    PROVE  \E n \in Cook!Numbers : n # lastMAC1 /\ (cookieReply # Cook!None => n # cookieReply.mac1)
<1>1. lastMAC1 \in 0 .. 3 /\ (cookieReply # Cook!None => cookieReply.mac1 \in 1 .. 3)
  BY DEF CookieInv, CookieTypes, ReplyTypes, Cook!Numbers
<1>2. \A x \in 0 .. 3, y \in 1 .. 3 : \E n \in 1 .. 3 : n # x /\ n # y
  OBVIOUS
<1>3. \A x \in 0 .. 3 : \E n \in 1 .. 3 : n # x
  OBVIOUS
<1> QED BY <1>1, <1>2, <1>3 DEF Cook!Numbers

\* There is a secret of which nothing is under way.
LEMMA FreeSecret == ASSUME CookieInv PROVE \E x \in Cook!Secrets : x \notin Cook!Used
<1>1. /\ secret \in 0 .. 3 /\ (cookie # Cook!None => cookie.of \in 0 .. 3)
      /\ (cookieReply # Cook!None => cookieReply.cookie.of \in 0 .. 3)
  <2>1. cookieReply # Cook!None => cookieReply.cookie \in Cook!Cookie
    BY DEF CookieInv, CookieTypes, ReplyTypes
  <2> QED BY <2>1 DEF CookieInv, CookieTypes, Cook!Secrets, Cook!Cookie
<1>2. \A x, y, z \in 0 .. 3 : \E n \in 0 .. 3 : n # x /\ n # y /\ n # z
  OBVIOUS
<1>3. PICK y \in 0 .. 3 : cookie # Cook!None => y = cookie.of
  BY <1>1
<1>4. PICK z \in 0 .. 3 : cookieReply # Cook!None => z = cookieReply.cookie.of
  BY <1>1
<1>5. PICK n \in 0 .. 3 : n # secret /\ n # y /\ n # z
  BY <1>1, <1>2
<1>6. n \notin Cook!Used
  BY <1>3, <1>4, <1>5 DEF Cook!Used
<1> QED BY <1>5, <1>6 DEF Cook!Secrets

\* Every step of the two cookie ends keeps CookieInv.
LEMMA CookieStep == CookieInv /\ Cook!Next => CookieInv'
<1> SUFFICES ASSUME CookieInv, Cook!Next PROVE CookieInv'
  OBVIOUS
<1> USE PacketsAssumption
<1>t. /\ replier \in [Cook!Repliers -> {"idle", "check", "refresh", "derive"}] /\ "ours" \in Cook!Repliers
      /\ faults \in 0 .. MaxFaults /\ secret \in Cook!Secrets
      /\ (faults < MaxFaults => faults + 1 \in 0 .. MaxFaults)
  BY DEF CookieInv, CookieTypes, Cook!Repliers
<1>1. CASE Cook!AddMacs
  <2> DEFINE m2 == IF cookieAge > RefreshAge THEN Cook!None ELSE cookie
  <2>0. /\ message = Cook!None /\ (faults' = faults \/ (faults < MaxFaults /\ faults' = faults + 1))
        /\ lastMAC1' = (CHOOSE n \in Cook!Numbers : n # lastMAC1 /\ (cookieReply # Cook!None => n # cookieReply.mac1))
        /\ message' = [mac1 |-> lastMAC1', src |-> addr, mac2 |-> m2] /\ mac1Sent' = TRUE /\ through' = Cook!None
        /\ secret' = secret /\ secretAge' = secretAge /\ replier' = replier /\ cookie' = cookie
        /\ cookieAge' = cookieAge /\ addr' = addr /\ cookieReply' = cookieReply
    BY <1>1 DEF Cook!AddMacs, Cook!Fault
  <2>1. lastMAC1' \in Cook!Numbers
    BY <2>0, FreeNumber
  <2>2. m2 \in Cook!Cookie \cup {Cook!None} /\ addr \in Addrs
    BY DEF CookieInv, CookieTypes
  <2> HIDE DEF m2
  <2>3. message' \in Cook!Message
    BY <2>0, <2>1, <2>2 DEF Cook!Message
  <2>4. lastMAC1' \in 0 .. 3
    BY <2>1 DEF Cook!Numbers
  <2>5. CookieTypes'
    BY <2>0, <2>3, <2>4, <1>t DEF CookieInv, CookieTypes
  <2>6. replier["ours"] = "idle"
    BY <2>0 DEF CookieInv
  <2> QED BY <2>0, <2>5, <2>6 DEF CookieInv
<1>2. CASE Cook!Receives
  <2>0. /\ message # Cook!None /\ replier["ours"] = "idle"
        /\ secret' = secret /\ secretAge' = secretAge /\ cookie' = cookie
        /\ cookieAge' = cookieAge /\ addr' = addr /\ cookieReply' = cookieReply
        /\ lastMAC1' = lastMAC1 /\ faults' = faults /\ mac1Sent' = mac1Sent
    BY <1>2 DEF Cook!Receives
  <2>1. CASE Cook!CheckMAC2(message)
    <3>1. through' = message /\ message' = Cook!None /\ replier' = replier /\ message.mac2.src = message.src
      BY <1>2, <2>1 DEF Cook!Receives, Cook!CheckMAC2, Cook!CookieFor
    <3>2. CookieTypes'
      BY <2>0, <3>1 DEF CookieInv, CookieTypes
    <3> QED BY <2>0, <3>1, <3>2 DEF CookieInv
  <2>2. CASE ~Cook!CheckMAC2(message)
    <3>1. through' = through /\ message' = message /\ replier' = [replier EXCEPT !["ours"] = "check"]
      BY <1>2, <2>2 DEF Cook!Receives
    <3>2. replier' \in [Cook!Repliers -> {"idle", "check", "refresh", "derive"}]
      BY <3>1, <1>t
    <3>3. CookieTypes'
      BY <2>0, <3>1, <3>2 DEF CookieInv, CookieTypes
    <3> QED BY <2>0, <3>1, <3>3 DEF CookieInv
  <2> QED BY <2>1, <2>2
<1>3. CASE Cook!OtherReceived
  <2>0. /\ replier' = [replier EXCEPT !["other"] = "check"]
        /\ secret' = secret /\ secretAge' = secretAge /\ cookie' = cookie /\ message' = message /\ through' = through
        /\ cookieAge' = cookieAge /\ addr' = addr /\ cookieReply' = cookieReply
        /\ lastMAC1' = lastMAC1 /\ faults' = faults /\ mac1Sent' = mac1Sent
    BY <1>3 DEF Cook!OtherReceived
  <2>1. replier' \in [Cook!Repliers -> {"idle", "check", "refresh", "derive"}] /\ replier'["ours"] = replier["ours"]
    BY <2>0, <1>t
  <2>2. CookieTypes'
    BY <2>0, <2>1 DEF CookieInv, CookieTypes
  <2> QED BY <2>0, <2>1, <2>2 DEF CookieInv
<1>4. CASE Cook!ConsumeReply
  <2>0. /\ cookieReply # Cook!None /\ cookieReply' = Cook!None
        /\ \/ cookie' = cookieReply.cookie /\ cookieAge' = 0
           \/ cookie' = cookie /\ cookieAge' = cookieAge
        /\ secret' = secret /\ secretAge' = secretAge /\ replier' = replier /\ message' = message /\ through' = through
        /\ addr' = addr /\ lastMAC1' = lastMAC1 /\ faults' = faults /\ mac1Sent' = mac1Sent
    BY <1>4 DEF Cook!ConsumeReply
  <2>1. cookieReply.cookie \in Cook!Cookie /\ 0 \in 0 .. Cook!Expired
    BY <2>0 DEF CookieInv, CookieTypes, ReplyTypes, Cook!Expired
  <2>2. cookie' \in Cook!Cookie \cup {Cook!None} /\ cookieAge' \in 0 .. Cook!Expired
    BY <2>0, <2>1 DEF CookieInv, CookieTypes
  <2>3. CookieTypes'
    BY <2>0, <2>2 DEF CookieInv, CookieTypes
  <2> QED BY <2>0, <2>3 DEF CookieInv
<1>5. CASE Cook!Lost
  <2>0. /\ faults < MaxFaults /\ faults' = faults + 1
        /\ \/ message # Cook!None /\ replier["ours"] = "idle" /\ message' = Cook!None /\ cookieReply' = cookieReply
           \/ cookieReply' = Cook!None /\ message' = message
        /\ secret' = secret /\ secretAge' = secretAge /\ replier' = replier /\ cookie' = cookie /\ through' = through
        /\ cookieAge' = cookieAge /\ addr' = addr /\ lastMAC1' = lastMAC1 /\ mac1Sent' = mac1Sent
    BY <1>5 DEF Cook!Lost, Cook!Fault
  <2>1. CookieTypes'
    BY <2>0, <1>t DEF CookieInv, CookieTypes
  <2> QED BY <2>0, <2>1 DEF CookieInv
<1>6. CASE Cook!Roams
  <2>0. /\ faults < MaxFaults /\ faults' = faults + 1 /\ addr' \in Addrs
        /\ secret' = secret /\ secretAge' = secretAge /\ replier' = replier /\ cookie' = cookie /\ through' = through
        /\ cookieAge' = cookieAge /\ lastMAC1' = lastMAC1 /\ mac1Sent' = mac1Sent /\ message' = message
        /\ cookieReply' = cookieReply
    BY <1>6 DEF Cook!Roams, Cook!Fault
  <2>1. CookieTypes'
    BY <2>0, <1>t DEF CookieInv, CookieTypes
  <2> QED BY <2>0, <2>1 DEF CookieInv
<1>7. CASE Cook!TimePasses
  <2>0. /\ secretAge' = Cook!Older(secretAge) /\ cookieAge' = Cook!Older(cookieAge) /\ mac1Sent' = FALSE
        /\ secret' = secret /\ replier' = replier /\ cookie' = cookie /\ lastMAC1' = lastMAC1 /\ addr' = addr
        /\ faults' = faults /\ message' = message /\ cookieReply' = cookieReply /\ through' = through
    BY <1>7 DEF Cook!TimePasses
  <2>1. \A a \in 0 .. Cook!Expired : Cook!Older(a) \in 0 .. Cook!Expired
    BY DEF Cook!Older, Cook!Expired
  <2>2. CookieTypes'
    BY <2>0, <2>1 DEF CookieInv, CookieTypes
  <2> QED BY <2>0, <2>2 DEF CookieInv
<1>8. CASE \E r \in Cook!Repliers : Cook!Work(r)
  <2>1. PICK r \in Cook!Repliers : Cook!Work(r)
    BY <1>8
  <2>2. CASE Cook!TestSecret(r)
    <3> DEFINE a == IF secretAge > RefreshAge THEN "refresh" ELSE "derive"
    <3>0. /\ replier[r] = "check" /\ replier' = [replier EXCEPT ![r] = a]
          /\ secret' = secret /\ secretAge' = secretAge /\ cookie' = cookie /\ message' = message /\ through' = through
          /\ cookieAge' = cookieAge /\ addr' = addr /\ cookieReply' = cookieReply
          /\ lastMAC1' = lastMAC1 /\ faults' = faults /\ mac1Sent' = mac1Sent
      BY <2>2 DEF Cook!TestSecret
    <3>1. a \in {"idle", "check", "refresh", "derive"}
      OBVIOUS
    <3> HIDE DEF a
    <3>2. replier' \in [Cook!Repliers -> {"idle", "check", "refresh", "derive"}]
          /\ (replier'["ours"] # "idle" => replier["ours"] # "idle")
      BY <3>0, <3>1, <1>t
    <3>3. CookieTypes'
      BY <3>0, <3>2 DEF CookieInv, CookieTypes
    <3> QED BY <3>0, <3>2, <3>3 DEF CookieInv
  <2>3. CASE Cook!Refresh(r)
    <3>0. /\ replier[r] = "refresh" /\ replier' = [replier EXCEPT ![r] = "derive"] /\ secretAge' = 0
          /\ secret' = (CHOOSE x \in Cook!Secrets : x \notin Cook!Used)
          /\ cookie' = cookie /\ message' = message /\ through' = through
          /\ cookieAge' = cookieAge /\ addr' = addr /\ cookieReply' = cookieReply
          /\ lastMAC1' = lastMAC1 /\ faults' = faults /\ mac1Sent' = mac1Sent
      BY <2>3 DEF Cook!Refresh
    <3>1. secret' \in Cook!Secrets /\ 0 \in 0 .. Cook!Expired
      <4>1. secret' \in Cook!Secrets
        BY <3>0, FreeSecret
      <4> QED BY <4>1 DEF Cook!Expired
    <3>2. replier' \in [Cook!Repliers -> {"idle", "check", "refresh", "derive"}]
          /\ (replier'["ours"] # "idle" => replier["ours"] # "idle")
      BY <3>0, <1>t
    <3>3. CookieTypes'
      BY <3>0, <3>1, <3>2 DEF CookieInv, CookieTypes
    <3> QED BY <3>0, <3>2, <3>3 DEF CookieInv
  <2>4. CASE Cook!CreateReply(r)
    <3>0. /\ replier[r] = "derive" /\ replier' = [replier EXCEPT ![r] = "idle"]
          /\ \/ /\ r = "ours" /\ cookieReply' = [cookie |-> Cook!CookieFor(message.src), mac1 |-> message.mac1]
                /\ message' = Cook!None
             \/ r # "ours" /\ cookieReply' = cookieReply /\ message' = message
          /\ secret' = secret /\ secretAge' = secretAge /\ cookie' = cookie /\ through' = through
          /\ cookieAge' = cookieAge /\ addr' = addr
          /\ lastMAC1' = lastMAC1 /\ faults' = faults /\ mac1Sent' = mac1Sent
      BY <2>4 DEF Cook!CreateReply
    <3>1. r = "ours" => message \in Cook!Message
      BY <3>0 DEF CookieInv, CookieTypes
    <3>2. r = "ours" => [cookie |-> Cook!CookieFor(message.src), mac1 |-> message.mac1] \in ReplyTypes
      BY <3>1, <1>t DEF Cook!Message, Cook!Cookie, Cook!CookieFor, ReplyTypes
    <3>3. /\ replier' \in [Cook!Repliers -> {"idle", "check", "refresh", "derive"}]
          /\ (r = "ours" => replier'["ours"] = "idle") /\ (r # "ours" => replier'["ours"] = replier["ours"])
      BY <3>0, <1>t
    <3>4. message' \in Cook!Message \cup {Cook!None} /\ cookieReply' \in ReplyTypes \cup {Cook!None}
      BY <3>0, <3>2 DEF CookieInv, CookieTypes
    <3>5. CookieTypes'
      BY <3>0, <3>3, <3>4 DEF CookieInv, CookieTypes
    <3> QED BY <3>0, <3>3, <3>5 DEF CookieInv
  <2> QED BY <2>1, <2>2, <2>3, <2>4 DEF Cook!Work
<1> QED BY <1>1, <1>2, <1>3, <1>4, <1>5, <1>6, <1>7, <1>8 DEF Cook!Next

\* Steps of the other parts leave the cookies as they are.
LEMMA CookieStays == ASSUME CookieInv, UNCHANGED cookieVars PROVE CookieInv'
BY DEF CookieInv, CookieTypes, cookieVars

\* CookieInv is more than the properties of the cookies.
LEMMA CookieMeans == CookieInv => Cook!TypeOK /\ Cook!ThroughMeansReachable
<1>1. CookieInv => mac1Sent \in BOOLEAN
  BY DEF CookieInv, CookieTypes
<1> QED BY <1>1 DEF CookieInv, CookieTypes, ReplyTypes, Cook!TypeOK, Cook!ThroughMeansReachable

-----------------------------------------------------------------------------
(* The trie of allowed addresses, for any width, any peers and any order   *)
(* of insertions and removals.  A trie is linked when children, parents    *)
(* and the root agree and a child is beneath its parent at its bit; it is  *)
(* forked when a node that nobody owns has two children.  A new node comes *)
(* between a place and what hangs there, a node that goes gives its place  *)
(* to its only child: both keep the links.  The descent to an address then *)
(* passes every node that begins it, the longest last.                     *)

-----------------------------------------------------------------------------
(* Bit strings.                                                            *)

\* The bits of a are the first ones of b.
Begins(a, b) == Len(a) <= Len(b) /\ \A i \in 1 .. Len(a) : a[i] = b[i]

\* c is longer than n, begins with it and goes on with the bit b.
Beneath(n, b, c) == Len(n) < Len(c) /\ Begins(n, c) /\ c[Len(n) + 1] = b

\* A prefix is a sequence of at most Width bits; Nil is none.
LEMMA NetsAre ==
    /\ \A x \in Ips!Nets : x \in Seq({0, 1}) /\ Len(x) \in 0 .. Width
    /\ \A x \in Seq({0, 1}) : Len(x) <= Width => x \in Ips!Nets
    /\ Ips!Nil \notin Ips!Nets
    /\ Ips!Addresses \subseteq Ips!Nets
<1>0. Width \in Nat
  BY TrieAssumption
<1>1. ASSUME NEW x \in Ips!Nets PROVE x \in Seq({0, 1}) /\ Len(x) \in 0 .. Width
  <2>1. PICK n \in 0 .. Width : x \in [1 .. n -> {0, 1}]
    BY DEF Ips!Nets, Ips!Bit
  <2>2. n \in Nat
    BY <1>0
  <2>3. x \in Seq({0, 1}) /\ Len(x) = n
    BY <2>1, <2>2
  <2> QED BY <2>1, <2>3
<1>2. ASSUME NEW x \in Seq({0, 1}), Len(x) <= Width PROVE x \in Ips!Nets
  <2>1. x \in [1 .. Len(x) -> {0, 1}] /\ Len(x) \in 0 .. Width
    BY <1>2, <1>0
  <2> QED BY <2>1 DEF Ips!Nets, Ips!Bit
<1>3. Ips!Nil \notin Ips!Nets
  <2> SUFFICES ASSUME Ips!Nil \in Ips!Nets PROVE FALSE
    OBVIOUS
  <2>1. Ips!Nil \in Seq({0, 1})
    BY <1>1
  <2>2. Ips!Nil = <<2>>
    BY DEF Ips!Nil
  <2>3. Len(<<2>>) = 1 /\ <<2>>[1] = 2
    OBVIOUS
  <2>4. <<2>>[1] \in {0, 1}
    BY <2>1, <2>2, <2>3, ElementOfSeq
  <2> QED BY <2>3, <2>4
<1>4. Ips!Addresses \subseteq Ips!Nets
  BY <1>0 DEF Ips!Addresses, Ips!Nets
<1> QED BY <1>1, <1>2, <1>3, <1>4

\* Two prefixes with the same bits are one.
LEMMA SameBits ==
    ASSUME NEW a \in Ips!Nets, NEW b \in Ips!Nets, Len(a) = Len(b), \A i \in 1 .. Len(a) : a[i] = b[i]
    PROVE  a = b
<1>1. a \in Seq({0, 1}) /\ b \in Seq({0, 1})
  BY NetsAre
<1> QED BY <1>1, SeqEqual

LEMMA BeginsTransitive ==
    ASSUME NEW a \in Ips!Nets, NEW b \in Ips!Nets, NEW c \in Ips!Nets, Begins(a, b), Begins(b, c)
    PROVE  Begins(a, c)
<1>1. Len(a) \in Nat /\ Len(b) \in Nat /\ Len(c) \in Nat
  BY NetsAre
<1> QED BY <1>1 DEF Begins

\* Of two that begin the same string the shorter begins the longer.
LEMMA BeginsTheSame ==
    ASSUME NEW a \in Ips!Nets, NEW b \in Ips!Nets, NEW c \in Ips!Nets, Begins(a, c), Begins(b, c), Len(a) <= Len(b)
    PROVE  Begins(a, b) /\ (Len(a) = Len(b) => a = b)
<1>1. Len(a) \in Nat /\ Len(b) \in Nat /\ Len(c) \in Nat
  BY NetsAre
<1>2. Begins(a, b)
  BY <1>1 DEF Begins
<1> QED BY <1>2, SameBits DEF Begins

LEMMA BeginsItself ==
    ASSUME NEW a \in Ips!Nets
    PROVE  Begins(a, a)
  BY NetsAre DEF Begins

\* A string goes on with its next bit after what it begins with.
LEMMA GoesOn ==
    ASSUME NEW a \in Ips!Nets, NEW b \in Ips!Nets, Begins(a, b), a # b
    PROVE  /\ Len(a) < Len(b) /\ b[Len(a) + 1] \in Ips!Bit
           /\ Beneath(a, b[Len(a) + 1], b)
<1>1. Len(a) \in Nat /\ Len(b) \in Nat /\ b \in Seq({0, 1})
  BY NetsAre
<1>2. Len(a) < Len(b)
  BY <1>1, SameBits DEF Begins
<1>3. b[Len(a) + 1] \in {0, 1}
  BY <1>1, <1>2, ElementOfSeq
<1> QED BY <1>2, <1>3 DEF Beneath, Ips!Bit

\* What begins beneath a node is beneath it at the same bit.
LEMMA StaysBeneath ==
    ASSUME NEW a \in Ips!Nets, NEW b \in Ips!Nets, NEW c \in Ips!Nets, NEW v, Beneath(a, v, b), Begins(b, c)
    PROVE  Beneath(a, v, c)
<1>1. Len(a) \in Nat /\ Len(b) \in Nat /\ Len(c) \in Nat
  BY NetsAre
<1>2. Begins(a, c)
  BY BeginsTransitive DEF Beneath
<1>3. c[Len(a) + 1] = b[Len(a) + 1]
  BY <1>1 DEF Beneath, Begins
<1> QED BY <1>1, <1>2, <1>3 DEF Beneath, Begins

\* What begins what is beneath a node and is longer than the node is beneath it too.
LEMMA BeneathBetween ==
    ASSUME NEW a \in Ips!Nets, NEW b \in Ips!Nets, NEW v, Beneath(a, v, b),
           NEW g \in Ips!Nets, Begins(g, b), Len(g) > Len(a)
    PROVE  Beneath(a, v, g)
<1>1. Len(a) \in Nat /\ Len(b) \in Nat /\ Len(g) \in Nat
  BY NetsAre
<1>2. Begins(a, g)
  BY <1>1, BeginsTheSame DEF Beneath
<1>3. g[Len(a) + 1] = b[Len(a) + 1]
  BY <1>1 DEF Begins
<1> QED BY <1>2, <1>3 DEF Beneath

-----------------------------------------------------------------------------
\* The largest element of a set of steps is one of them.
LEMMA TopIs ==
    ASSUME NEW n \in Nat, NEW S \in SUBSET (0 .. n), S # {}
    PROVE  Ips!Max(S) \in S /\ \A y \in S : y <= Ips!Max(S)
<1> DEFINE T == {m \in Nat : \A y \in S : m >= y}
<1>1. n \in T
  OBVIOUS
<1>2. PICK m \in T : \A k \in T : m <= k
  <2> HIDE DEF T
  <2>1. T \in SUBSET Nat /\ T # {}
    BY <1>1 DEF T
  <2> QED BY <2>1, LeastNat
<1>3. m \in S
  <2> SUFFICES ASSUME m \notin S PROVE FALSE
    OBVIOUS
  <2>1. PICK y \in S : TRUE
    OBVIOUS
  <2>2. m \in Nat /\ m > y /\ y \in Nat
    BY <1>2
  <2>3. m - 1 \in T
    BY <2>2, <1>2
  <2>4. m <= m - 1
    BY <2>3, <1>2
  <2> QED BY <2>2, <2>4
<1>4. \A y \in S : m >= y
  BY <1>2
<1>5. Ips!Max(S) \in S /\ \A y \in S : Ips!Max(S) >= y
  BY <1>3, <1>4 DEF Ips!Max
<1> QED BY <1>5

\* What commonBits counts.
Shared(a, b) == {n \in 0 .. Len(a) : n <= Len(b) /\ SubSeq(a, 1, n) = SubSeq(b, 1, n)}

\* The first bits of two strings are the same if each of them is.
LEMMA SameStart ==
    ASSUME NEW a \in Ips!Nets, NEW b \in Ips!Nets, NEW n \in Nat, n <= Len(a), n <= Len(b)
    PROVE  SubSeq(a, 1, n) = SubSeq(b, 1, n) <=> \A i \in 1 .. n : a[i] = b[i]
<1>1. a \in Seq({0, 1}) /\ b \in Seq({0, 1}) /\ Len(a) \in Nat /\ Len(b) \in Nat
  BY NetsAre
<1> DEFINE x == SubSeq(a, 1, n)
           y == SubSeq(b, 1, n)
<1>2. x \in Seq({0, 1}) /\ Len(x) = n /\ \A i \in 1 .. n : x[i] = a[i]
  BY <1>1
<1>3. y \in Seq({0, 1}) /\ Len(y) = n /\ \A i \in 1 .. n : y[i] = b[i]
  BY <1>1
<1> HIDE DEF x, y
<1>4. x = y <=> \A i \in 1 .. n : a[i] = b[i]
  BY <1>2, <1>3, SeqEqual
<1> QED BY <1>4 DEF x, y

\* commonBits: the strings are the same up to there and not at the next bit.
LEMMA CommonBits ==
    ASSUME NEW a \in Ips!Nets, NEW b \in Ips!Nets
    PROVE  LET n == Ips!commonBits(a, b)
           IN /\ n \in 0 .. Len(a) /\ n <= Len(b)
              /\ \A i \in 1 .. n : a[i] = b[i]
              /\ n < Len(a) /\ n < Len(b) => a[n + 1] # b[n + 1]
<1> DEFINE S == Shared(a, b)
           n == Ips!commonBits(a, b)
<1>1. Len(a) \in Nat /\ Len(b) \in Nat
  BY NetsAre
<1>2. \A k \in 0 .. Len(a) : k \in S <=> k <= Len(b) /\ \A i \in 1 .. k : a[i] = b[i]
  BY <1>1, SameStart DEF Shared
<1>3. 0 \in S /\ S \in SUBSET (0 .. Len(a))
  BY <1>1, <1>2 DEF Shared
<1>4. Ips!Max(S) \in S /\ \A y \in S : y <= Ips!Max(S)
  <2> HIDE DEF S
  <2> QED BY <1>1, <1>3, TopIs
<1>5. n \in S /\ \A k \in S : k <= n
  BY <1>4 DEF Ips!commonBits, Shared
<1> HIDE DEF n, S
<1>6. n \in 0 .. Len(a) /\ n <= Len(b) /\ \A i \in 1 .. n : a[i] = b[i]
  BY <1>2, <1>3, <1>5
<1>7. ASSUME n < Len(a), n < Len(b), a[n + 1] = b[n + 1] PROVE FALSE
  <2>1. \A i \in 1 .. (n + 1) : a[i] = b[i]
    BY <1>1, <1>6, <1>7
  <2>2. n + 1 \in S
    BY <1>1, <1>2, <1>6, <1>7, <2>1
  <2> QED BY <1>1, <1>5, <1>6, <2>2
<1> QED BY <1>6, <1>7 DEF n

\* A node covers what begins with it.
LEMMA CoversMeans ==
    ASSUME NEW a \in Ips!Nets, NEW b \in Ips!Nets
    PROVE  Ips!Covers(a, b) <=> Begins(a, b)
<1> DEFINE n == Ips!commonBits(a, b)
<1>1. Len(a) \in Nat /\ Len(b) \in Nat
  BY NetsAre
<1>2. /\ n \in 0 .. Len(a) /\ n <= Len(b)
      /\ \A i \in 1 .. n : a[i] = b[i]
      /\ n < Len(a) /\ n < Len(b) => a[n + 1] # b[n + 1]
  BY CommonBits
<1>3. Ips!Covers(a, b) <=> n >= Len(a)
  BY DEF Ips!Covers
<1> HIDE DEF n
<1>4. n >= Len(a) => Begins(a, b)
  BY <1>1, <1>2 DEF Begins
<1>5. ASSUME Begins(a, b), n < Len(a) PROVE FALSE
  <2>1. n < Len(b) /\ n + 1 \in 1 .. Len(a)
    BY <1>1, <1>2, <1>5 DEF Begins
  <2> QED BY <1>2, <1>5, <2>1 DEF Begins
<1> QED BY <1>1, <1>2, <1>3, <1>4, <1>5

\* The bits a new prefix and the node below it share: less than either when neither
\* begins the other, and more than a node that is above both at the same bit.
LEMMA SplitIs ==
    ASSUME NEW down \in Ips!Nets, NEW ip \in Ips!Nets, ~Begins(down, ip),
           NEW g, g = SubSeq(ip, 1, Ips!Split(down, ip))
    PROVE  /\ g \in Ips!Nets /\ Begins(g, ip) /\ Begins(g, down) /\ g # down
           /\ g # ip => down[Len(g) + 1] # ip[Len(g) + 1]
           /\ \A a \in Ips!Nets, v \in Ips!Bit :
                 Beneath(a, v, ip) /\ Beneath(a, v, down) => Beneath(a, v, g)
<1> DEFINE n == Ips!commonBits(down, ip)
<1>1. Len(down) \in Nat /\ Len(ip) \in Nat /\ ip \in Seq({0, 1}) /\ Len(ip) <= Width /\ Width \in Nat
  BY NetsAre, TrieAssumption
<1>2. /\ n \in 0 .. Len(down) /\ n <= Len(ip)
      /\ \A i \in 1 .. n : down[i] = ip[i]
      /\ n < Len(down) /\ n < Len(ip) => down[n + 1] # ip[n + 1]
  BY CommonBits
<1>3. Ips!Split(down, ip) = n
  BY <1>1, <1>2 DEF Ips!Split
<1> HIDE DEF n
<1>4. n < Len(down)
  BY <1>1, <1>2 DEF Begins
<1>5. g \in Seq({0, 1}) /\ Len(g) = n /\ \A i \in 1 .. n : g[i] = ip[i]
  BY <1>1, <1>2, <1>3
<1>6. g \in Ips!Nets
  <2>1. Len(g) <= Width
    BY <1>1, <1>2, <1>5
  <2> QED BY <1>5, <2>1, NetsAre
<1>7. Begins(g, ip) /\ Begins(g, down)
  BY <1>1, <1>2, <1>5 DEF Begins
<1>8. g # down
  BY <1>4, <1>5
<1>9. ASSUME g # ip PROVE down[Len(g) + 1] # ip[Len(g) + 1]
  <2>1. Len(g) < Len(ip)
    BY <1>6, <1>7, <1>9, GoesOn
  <2> QED BY <1>2, <1>4, <1>5, <2>1
<1>10. ASSUME NEW a \in Ips!Nets, NEW v \in Ips!Bit, Beneath(a, v, ip), Beneath(a, v, down) PROVE Beneath(a, v, g)
  <2>1. Len(a) \in Nat /\ Len(a) < Len(ip) /\ Len(a) < Len(down)
    BY <1>10, NetsAre DEF Beneath
  <2>2. \A i \in 1 .. (Len(a) + 1) : ip[i] = down[i]
    BY <1>10, <2>1 DEF Beneath, Begins
  <2>3. ~(n <= Len(a))
    <3> SUFFICES ASSUME n <= Len(a) PROVE FALSE
      OBVIOUS
    <3>1. n + 1 \in 1 .. (Len(a) + 1) /\ n < Len(ip)
      BY <2>1, <1>2
    <3> QED BY <3>1, <2>2, <1>2, <1>4
  <2>4. Len(g) > Len(a)
    BY <2>1, <2>3, <1>2, <1>5
  <2> QED BY <1>6, <1>7, <1>10, <2>4, BeneathBetween
<1> QED BY <1>6, <1>7, <1>8, <1>9, <1>10

-----------------------------------------------------------------------------
(* Tables.                                                                 *)

\* The slots a node can hang from.
Slots == [node : Ips!Nets, bit : Ips!Bit]

NodeSet == [owner : Owners \cup {NoOwner}, child : [Ips!Bit -> Ips!Nets \cup {Ips!Nil}],
            parent : Slots \cup {Ips!AtRoot}]

\* The nodes of a trie are records of their owner, their children and their place.
Nodes(t) == DOMAIN t \subseteq Ips!Nets /\ t \in [DOMAIN t -> NodeSet]

TableOf(t, r) == [trie |-> t, root |-> r]

\* The root is no slot.
LEMMA RootIsNoSlot ==
    /\ Ips!AtRoot \notin Slots
    /\ \A x \in Ips!Nets, b \in Ips!Bit : [node |-> x, bit |-> b] \in Slots
<1>1. Ips!AtRoot.node = Ips!Nil
  BY DEF Ips!AtRoot
<1>2. \A s \in Slots : s.node \in Ips!Nets
  BY DEF Slots
<1>3. \A x \in Ips!Nets, b \in Ips!Bit : [node |-> x, bit |-> b] \in Slots
  BY DEF Slots
<1> QED BY <1>1, <1>2, <1>3, NetsAre

\* t with the node n in the slot.
HungTrie(t, place, n) ==
    [x \in DOMAIN t |->
        [owner |-> t[x].owner,
         child |-> [b \in Ips!Bit |-> IF place = [node |-> x, bit |-> b] THEN n ELSE t[x].child[b]],
         parent |-> t[x].parent]]

\* t with place as the parent of n.
ReparentedTrie(t, n, place) ==
    [x \in DOMAIN t |-> [owner |-> t[x].owner, child |-> t[x].child, parent |-> IF x = n THEN place ELSE t[x].parent]]

\* A node is made of its parts.
LEMMA NodeParts ==
    ASSUME NEW v \in NodeSet
    PROVE  /\ v = [owner |-> v.owner, child |-> v.child, parent |-> v.parent]
           /\ v.owner \in Owners \cup {NoOwner}
           /\ v.child \in [Ips!Bit -> Ips!Nets \cup {Ips!Nil}]
           /\ v.parent \in Slots \cup {Ips!AtRoot}
  BY DEF NodeSet

LEMMA HangIs ==
    ASSUME NEW t, NEW r, Nodes(t), NEW place \in Slots \cup {Ips!AtRoot}, NEW n \in Ips!Nets \cup {Ips!Nil},
           place # Ips!AtRoot => place.node \in DOMAIN t
    PROVE  /\ Ips!Hang(TableOf(t, r), place, n) = TableOf(HungTrie(t, place, n), IF place = Ips!AtRoot THEN n ELSE r)
           /\ Nodes(HungTrie(t, place, n))
<1> DEFINE D == DOMAIN t
           h == HungTrie(t, place, n)
<1>1. D \subseteq Ips!Nets /\ t \in [D -> NodeSet]
  BY DEF Nodes
<1>2. \A x \in D : /\ t[x] = [owner |-> t[x].owner, child |-> t[x].child, parent |-> t[x].parent]
                   /\ t[x].owner \in Owners \cup {NoOwner}
                   /\ t[x].child \in [Ips!Bit -> Ips!Nets \cup {Ips!Nil}]
                   /\ t[x].parent \in Slots \cup {Ips!AtRoot}
  BY <1>1, NodeParts
<1>3. Nodes(h)
  <2>1. DOMAIN h = D
    BY DEF HungTrie
  <2>2. ASSUME NEW x \in D PROVE h[x] \in NodeSet
    <3>1. [b \in Ips!Bit |-> IF place = [node |-> x, bit |-> b] THEN n ELSE t[x].child[b]]
             \in [Ips!Bit -> Ips!Nets \cup {Ips!Nil}]
      BY <1>2
    <3> QED BY <1>2, <3>1 DEF HungTrie, NodeSet
  <2>3. h = [x \in D |-> h[x]]
    BY DEF HungTrie
  <2> QED BY <1>1, <2>1, <2>2, <2>3 DEF Nodes
<1>4. CASE place = Ips!AtRoot
  <2>1. \A x \in D, b \in Ips!Bit : place # [node |-> x, bit |-> b]
    BY <1>1, <1>4, RootIsNoSlot
  <2>2. ASSUME NEW x \in D PROVE h[x] = t[x]
    <3>1. t[x].child = [b \in Ips!Bit |-> t[x].child[b]]
      BY <1>2
    <3>2. [b \in Ips!Bit |-> IF place = [node |-> x, bit |-> b] THEN n ELSE t[x].child[b]] = t[x].child
      BY <2>1, <3>1
    <3> QED BY <1>2, <3>2 DEF HungTrie
  <2>3. h = t
    BY <1>1, <2>2 DEF HungTrie
  <2>4. Ips!Hang(TableOf(t, r), place, n) = TableOf(t, n)
    BY <1>4 DEF Ips!Hang, TableOf
  <2> QED BY <1>3, <1>4, <2>3, <2>4
<1>5. CASE place # Ips!AtRoot
  <2> DEFINE m == place.node
             c == place.bit
             u == [t EXCEPT ![m].child[c] = n]
  <2>0. place = [node |-> m, bit |-> c] /\ m \in D /\ c \in Ips!Bit
    BY <1>5 DEF Slots
  <2>1. Ips!Hang(TableOf(t, r), place, n) = TableOf(u, r)
    BY <1>5 DEF Ips!Hang, TableOf
  <2>2. ASSUME NEW x \in D PROVE h[x] = u[x]
    <3>1. CASE x = m
      <4>1. u[x] = [owner |-> t[x].owner, child |-> [t[x].child EXCEPT ![c] = n], parent |-> t[x].parent]
        BY <1>1, <1>2, <2>0, <3>1
      <4>2. \A b \in Ips!Bit : place = [node |-> x, bit |-> b] <=> b = c
        BY <2>0, <3>1
      <4>3. [t[x].child EXCEPT ![c] = n] = [b \in Ips!Bit |-> IF place = [node |-> x, bit |-> b] THEN n ELSE t[x].child[b]]
        BY <1>2, <2>0, <4>2
      <4> QED BY <4>1, <4>3 DEF HungTrie
    <3>2. CASE x # m
      <4>1. \A b \in Ips!Bit : place # [node |-> x, bit |-> b]
        BY <2>0, <3>2
      <4>2. [b \in Ips!Bit |-> IF place = [node |-> x, bit |-> b] THEN n ELSE t[x].child[b]] = t[x].child
        BY <1>2, <4>1
      <4>3. u[x] = t[x]
        BY <1>1, <3>2
      <4> QED BY <1>2, <4>2, <4>3 DEF HungTrie
    <3> QED BY <3>1, <3>2
  <2>3. u = [x \in D |-> u[x]] /\ h = [x \in D |-> h[x]]
    BY <1>1 DEF HungTrie
  <2>4. u = h
    BY <2>2, <2>3
  <2> QED BY <1>3, <1>5, <2>1, <2>4
<1> QED BY <1>4, <1>5

LEMMA ReparentIs ==
    ASSUME NEW t, NEW r, Nodes(t), NEW place \in Slots \cup {Ips!AtRoot}, NEW n \in DOMAIN t
    PROVE  /\ Ips!Reparent(TableOf(t, r), n, place) = TableOf(ReparentedTrie(t, n, place), r)
           /\ Nodes(ReparentedTrie(t, n, place))
<1> DEFINE D == DOMAIN t
           h == ReparentedTrie(t, n, place)
           u == [t EXCEPT ![n].parent = place]
<1>1. D \subseteq Ips!Nets /\ t \in [D -> NodeSet] /\ n # Ips!Nil
  BY NetsAre DEF Nodes
<1>2. \A x \in D : /\ t[x] = [owner |-> t[x].owner, child |-> t[x].child, parent |-> t[x].parent]
                   /\ t[x].owner \in Owners \cup {NoOwner}
                   /\ t[x].child \in [Ips!Bit -> Ips!Nets \cup {Ips!Nil}]
                   /\ t[x].parent \in Slots \cup {Ips!AtRoot}
  BY <1>1, NodeParts
<1>3. Nodes(h)
  <2>1. DOMAIN h = D
    BY DEF ReparentedTrie
  <2>2. ASSUME NEW x \in D PROVE h[x] \in NodeSet
    BY <1>2 DEF ReparentedTrie, NodeSet
  <2>3. h = [x \in D |-> h[x]]
    BY DEF ReparentedTrie
  <2> QED BY <1>1, <2>1, <2>2, <2>3 DEF Nodes
<1>4. Ips!Reparent(TableOf(t, r), n, place) = TableOf(u, r)
  BY <1>1 DEF Ips!Reparent, TableOf
<1>5. ASSUME NEW x \in D PROVE h[x] = u[x]
  BY <1>1, <1>2 DEF ReparentedTrie
<1>6. u = [x \in D |-> u[x]] /\ h = [x \in D |-> h[x]]
  BY <1>1 DEF ReparentedTrie
<1>7. u = h
  BY <1>5, <1>6
<1> QED BY <1>3, <1>4, <1>7

\* t with n in its new place.
AttachedTrie(t, place, n) ==
    [x \in DOMAIN t |->
        [owner |-> t[x].owner,
         child |-> [b \in Ips!Bit |-> IF place = [node |-> x, bit |-> b] THEN n ELSE t[x].child[b]],
         parent |-> IF x = n THEN place ELSE t[x].parent]]

LEMMA AttachIs ==
    ASSUME NEW t, NEW r, Nodes(t), NEW place \in Slots \cup {Ips!AtRoot}, NEW n \in DOMAIN t \cup {Ips!Nil},
           place # Ips!AtRoot => place.node \in DOMAIN t
    PROVE  /\ Ips!Attach(TableOf(t, r), place, n) = TableOf(AttachedTrie(t, place, n), IF place = Ips!AtRoot THEN n ELSE r)
           /\ Nodes(AttachedTrie(t, place, n))
<1> DEFINE h == HungTrie(t, place, n)
           q == IF place = Ips!AtRoot THEN n ELSE r
<1>1. DOMAIN t \subseteq Ips!Nets /\ Ips!Nil \notin DOMAIN t
  BY NetsAre DEF Nodes
<1>2. Ips!Hang(TableOf(t, r), place, n) = TableOf(h, q) /\ Nodes(h)
  <2>1. n \in Ips!Nets \cup {Ips!Nil}
    BY <1>1
  <2> QED BY <2>1, HangIs
<1>3. DOMAIN h = DOMAIN t
  BY DEF HungTrie
<1>4. CASE n = Ips!Nil
  <2>1. Ips!Reparent(TableOf(h, q), n, place) = TableOf(h, q)
    BY <1>4 DEF Ips!Reparent
  <2>2. h = AttachedTrie(t, place, n)
    BY <1>1, <1>4 DEF HungTrie, AttachedTrie
  <2> QED BY <1>2, <2>1, <2>2 DEF Ips!Attach
<1>5. CASE n # Ips!Nil
  <2>1. n \in DOMAIN h
    BY <1>3, <1>5
  <2>2. Ips!Reparent(TableOf(h, q), n, place) = TableOf(ReparentedTrie(h, n, place), q) /\ Nodes(ReparentedTrie(h, n, place))
    <3> HIDE DEF h, q
    <3> QED BY <1>2, <2>1, ReparentIs
  <2>3. ReparentedTrie(h, n, place) = AttachedTrie(t, place, n)
    BY DEF ReparentedTrie, HungTrie, AttachedTrie
  <2> QED BY <1>2, <2>2, <2>3 DEF Ips!Attach
<1> QED BY <1>4, <1>5

LEMMA AddNodeIs ==
    ASSUME NEW t, NEW r, Nodes(t), NEW n \in Ips!Nets, NEW p \in Owners \cup {NoOwner}
    PROVE  /\ Ips!AddNode(TableOf(t, r), n, p) = TableOf(Ips!Update(t, n, Ips!Leaf(p)), r)
           /\ Nodes(Ips!Update(t, n, Ips!Leaf(p)))
           /\ DOMAIN Ips!Update(t, n, Ips!Leaf(p)) = DOMAIN t \cup {n}
<1> DEFINE u == Ips!Update(t, n, Ips!Leaf(p))
<1>1. Ips!AddNode(TableOf(t, r), n, p) = TableOf(u, r)
  BY DEF Ips!AddNode, TableOf
<1>2. Ips!Leaf(p) \in NodeSet
  <2>1. [b \in Ips!Bit |-> Ips!Nil] \in [Ips!Bit -> Ips!Nets \cup {Ips!Nil}]
    OBVIOUS
  <2> QED BY <2>1 DEF Ips!Leaf, NodeSet
<1>3. DOMAIN u = DOMAIN t \cup {n}
  BY DEF Ips!Update
<1>4. u \in [DOMAIN t \cup {n} -> NodeSet]
  BY <1>2 DEF Ips!Update, Nodes
<1>5. Nodes(u)
  BY <1>3, <1>4 DEF Nodes
<1> QED BY <1>1, <1>3, <1>5

-----------------------------------------------------------------------------
\* A trie whose links and parents agree.

Child(t, n, b, c) == c \in DOMAIN t /\ Beneath(n, b, c) /\ t[c].parent = [node |-> n, bit |-> b]

Hangs(t, r, n) ==
    \/ t[n].parent = Ips!AtRoot /\ r = n
    \/ \E m \in DOMAIN t, b \in Ips!Bit : t[n].parent = [node |-> m, bit |-> b] /\ t[m].child[b] = n

Linked(t, r) ==
    /\ Nodes(t)
    /\ r # Ips!Nil => r \in DOMAIN t /\ t[r].parent = Ips!AtRoot
    /\ \A n \in DOMAIN t, b \in Ips!Bit : t[n].child[b] # Ips!Nil => Child(t, n, b, t[n].child[b])
    /\ \A n \in DOMAIN t : Hangs(t, r, n)

\* Slots are told apart by node and bit.
LEMMA SlotsDiffer ==
    /\ \A x, y, b, c : [node |-> x, bit |-> b] = [node |-> y, bit |-> c] => x = y /\ b = c
    /\ \A x \in Ips!Nets : \A b : [node |-> x, bit |-> b] # Ips!AtRoot
<1>1. \A x, y, b, c : [node |-> x, bit |-> b] = [node |-> y, bit |-> c] => x = y /\ b = c
  <2> SUFFICES ASSUME NEW x, NEW y, NEW b, NEW c, [node |-> x, bit |-> b] = [node |-> y, bit |-> c] PROVE x = y /\ b = c
    OBVIOUS
  <2>1. [node |-> x, bit |-> b].node = x /\ [node |-> x, bit |-> b].bit = b
    OBVIOUS
  <2>2. [node |-> y, bit |-> c].node = y /\ [node |-> y, bit |-> c].bit = c
    OBVIOUS
  <2> QED BY <2>1, <2>2
<1>2. \A x \in Ips!Nets : \A b : [node |-> x, bit |-> b] # Ips!AtRoot
  BY <1>1, NetsAre DEF Ips!AtRoot
<1> QED BY <1>1, <1>2

\* A child is not its parent.
LEMMA ChildIsOther ==
    ASSUME NEW n \in Ips!Nets, NEW c \in Ips!Nets, NEW b, Beneath(n, b, c)
    PROVE  n # c
  BY NetsAre DEF Beneath

\* What a child of a linked trie is.
LEMMA ChildIs ==
    ASSUME NEW t, NEW r, Linked(t, r), NEW n \in DOMAIN t, NEW b \in Ips!Bit, t[n].child[b] # Ips!Nil
    PROVE  /\ t[n].child[b] \in DOMAIN t /\ t[n].child[b] # n /\ Beneath(n, b, t[n].child[b])
           /\ t[t[n].child[b]].parent = [node |-> n, bit |-> b]
<1>1. Child(t, n, b, t[n].child[b]) /\ DOMAIN t \subseteq Ips!Nets
  BY DEF Linked, Nodes
<1> QED BY <1>1, ChildIsOther DEF Child

\* Where a node of a linked trie hangs.
InPlace(t, r, n) ==
    /\ t[n].parent \in Slots \cup {Ips!AtRoot}
    /\ t[n].parent = Ips!AtRoot => r = n
    /\ t[n].parent # Ips!AtRoot =>
          /\ t[n].parent.node \in DOMAIN t /\ t[n].parent.bit \in Ips!Bit /\ t[n].parent.node # n
          /\ t[n].parent = [node |-> t[n].parent.node, bit |-> t[n].parent.bit]
          /\ t[t[n].parent.node].child[t[n].parent.bit] = n
          /\ Beneath(t[n].parent.node, t[n].parent.bit, n)

LEMMA PlaceIs ==
    ASSUME NEW t, NEW r, Linked(t, r), NEW n \in DOMAIN t
    PROVE  InPlace(t, r, n)
<1>1. t[n].parent \in Slots \cup {Ips!AtRoot}
  BY NodeParts DEF Linked, Nodes
<1>2. Hangs(t, r, n) /\ DOMAIN t \subseteq Ips!Nets /\ n # Ips!Nil
  BY NetsAre DEF Linked, Nodes
<1>3. CASE t[n].parent = Ips!AtRoot /\ r = n
  BY <1>1, <1>3 DEF InPlace
<1>4. ASSUME NEW m \in DOMAIN t, NEW b \in Ips!Bit, t[n].parent = [node |-> m, bit |-> b], t[m].child[b] = n
      PROVE  /\ t[n].parent # Ips!AtRoot
             /\ t[n].parent.node = m /\ t[n].parent.bit = b
             /\ m # n /\ Beneath(m, b, n)
  BY <1>2, <1>4, ChildIs, SlotsDiffer
<1> QED BY <1>1, <1>2, <1>3, <1>4 DEF Hangs, InPlace

\* Only the root hangs at the root.
LEMMA OnlyRoot ==
    ASSUME NEW t, NEW r, Linked(t, r), NEW n \in DOMAIN t, t[n].parent = Ips!AtRoot
    PROVE  r = n
<1>1. InPlace(t, r, n)
  BY PlaceIs
<1> QED BY <1>1 DEF InPlace

\* t without n, and c in the place of n.
SplicedTrie(t, n, c) == [x \in DOMAIN t \ {n} |-> AttachedTrie(t, t[n].parent, c)[x]]
SplicedRoot(t, r, n, c) == IF t[n].parent = Ips!AtRoot THEN c ELSE r

IsSpliced(t, u, n, c) ==
    /\ Nodes(u)
    /\ DOMAIN u = DOMAIN t \ {n}
    /\ \A x \in DOMAIN t \ {n} :
          /\ u[x].owner = t[x].owner
          /\ u[x].parent = (IF x = c THEN t[n].parent ELSE t[x].parent)
          /\ \A b \in Ips!Bit :
                u[x].child[b] = (IF t[n].parent = [node |-> x, bit |-> b] THEN c ELSE t[x].child[b])

LEMMA SpliceIs ==
    ASSUME NEW t, NEW r, Linked(t, r), NEW n \in DOMAIN t, NEW c \in DOMAIN t \cup {Ips!Nil}
    PROVE  /\ Ips!Splice(TableOf(t, r), n, c) = TableOf(SplicedTrie(t, n, c), SplicedRoot(t, r, n, c))
           /\ IsSpliced(t, SplicedTrie(t, n, c), n, c)
<1> DEFINE place == t[n].parent
           a == AttachedTrie(t, place, c)
           q == SplicedRoot(t, r, n, c)
           u == SplicedTrie(t, n, c)
<1>0. Nodes(t)
  BY DEF Linked
<1>1. place \in Slots \cup {Ips!AtRoot} /\ (place # Ips!AtRoot => place.node \in DOMAIN t)
  BY PlaceIs DEF InPlace
<1>2. Ips!Attach(TableOf(t, r), place, c) = TableOf(a, q) /\ Nodes(a)
  <2> HIDE DEF place
  <2>2. Ips!Attach(TableOf(t, r), place, c) = TableOf(a, IF place = Ips!AtRoot THEN c ELSE r) /\ Nodes(a)
    BY <1>0, <1>1, AttachIs
  <2> QED BY <2>2 DEF SplicedRoot, place
<1>3. TableOf(t, r).trie = t
  BY DEF TableOf
<1>4. Ips!Drop(TableOf(a, q), n) = TableOf([x \in DOMAIN a \ {n} |-> a[x]], q)
  <2> HIDE DEF a, q
  <2> QED BY DEF Ips!Drop, TableOf
<1>5. DOMAIN a = DOMAIN t
  BY DEF AttachedTrie
<1>6. u = [x \in DOMAIN a \ {n} |-> a[x]]
  BY <1>5 DEF SplicedTrie
<1>7. Ips!Splice(TableOf(t, r), n, c) = TableOf(u, q)
  BY <1>2, <1>3, <1>4, <1>6 DEF Ips!Splice
<1>8. DOMAIN u = DOMAIN t \ {n}
  BY DEF SplicedTrie
<1>9. \A x \in DOMAIN t \ {n} : u[x] = a[x]
  BY DEF SplicedTrie
<1>10. Nodes(u)
  <2>1. \A x \in DOMAIN t \ {n} : u[x] \in NodeSet
    BY <1>2, <1>5, <1>9 DEF Nodes
  <2>2. u = [x \in DOMAIN t \ {n} |-> u[x]]
    BY DEF SplicedTrie
  <2>3. DOMAIN t \ {n} \subseteq Ips!Nets
    BY <1>0 DEF Nodes
  <2> HIDE DEF u
  <2> QED BY <1>8, <2>1, <2>2, <2>3 DEF Nodes
<1>11. \A x \in DOMAIN t \ {n} :
          /\ a[x].owner = t[x].owner
          /\ a[x].parent = (IF x = c THEN place ELSE t[x].parent)
          /\ \A b \in Ips!Bit : a[x].child[b] = (IF place = [node |-> x, bit |-> b] THEN c ELSE t[x].child[b])
  BY DEF AttachedTrie
<1>12. IsSpliced(t, u, n, c)
  BY <1>8, <1>9, <1>10, <1>11 DEF IsSpliced
<1> QED BY <1>7, <1>12

\* A node that has no other child than c can give its place to c.
LEMMA SpliceLinked ==
    ASSUME NEW t, NEW r, Linked(t, r), NEW n \in DOMAIN t, NEW c,
           \A b \in Ips!Bit : t[n].child[b] \in {Ips!Nil, c},
           c # Ips!Nil => \E b \in Ips!Bit : t[n].child[b] = c
    PROVE  /\ Ips!Splice(TableOf(t, r), n, c) = TableOf(SplicedTrie(t, n, c), SplicedRoot(t, r, n, c))
           /\ Linked(SplicedTrie(t, n, c), SplicedRoot(t, r, n, c))
<1> DEFINE D == DOMAIN t
           place == t[n].parent
           u == SplicedTrie(t, n, c)
           q == SplicedRoot(t, r, n, c)
<1>0. Nodes(t) /\ D \subseteq Ips!Nets /\ Ips!Nil \notin D
  BY NetsAre DEF Linked, Nodes
<1>1. c # Ips!Nil => /\ c \in D /\ c # n
                     /\ \E b \in Ips!Bit : Beneath(n, b, c) /\ t[c].parent = [node |-> n, bit |-> b]
  <2> SUFFICES ASSUME c # Ips!Nil
               PROVE  c \in D /\ c # n /\ \E b \in Ips!Bit : Beneath(n, b, c) /\ t[c].parent = [node |-> n, bit |-> b]
    OBVIOUS
  <2>1. PICK b \in Ips!Bit : t[n].child[b] = c
    OBVIOUS
  <2>2. t[n].child[b] # Ips!Nil
    BY <2>1
  <2>3. /\ t[n].child[b] \in DOMAIN t /\ t[n].child[b] # n /\ Beneath(n, b, t[n].child[b])
        /\ t[t[n].child[b]].parent = [node |-> n, bit |-> b]
    BY <2>2, ChildIs
  <2> QED BY <2>1, <2>3
<1>2. /\ place = Ips!AtRoot => r = n
      /\ place # Ips!AtRoot =>
            /\ place.node \in D /\ place.bit \in Ips!Bit /\ place.node # n
            /\ place = [node |-> place.node, bit |-> place.bit]
            /\ t[place.node].child[place.bit] = n
            /\ Beneath(place.node, place.bit, n)
  BY PlaceIs DEF InPlace
<1>3. /\ Ips!Splice(TableOf(t, r), n, c) = TableOf(u, q)
      /\ Nodes(u) /\ DOMAIN u = D \ {n}
      /\ \A x \in D \ {n} :
            /\ u[x].parent = (IF x = c THEN place ELSE t[x].parent)
            /\ \A b \in Ips!Bit : u[x].child[b] = (IF place = [node |-> x, bit |-> b] THEN c ELSE t[x].child[b])
  <2>1. c \in D \cup {Ips!Nil}
    BY <1>1
  <2>3. Ips!Splice(TableOf(t, r), n, c) = TableOf(u, q)
    BY <2>1, SpliceIs
  <2>4. IsSpliced(t, u, n, c)
    BY <2>1, SpliceIs
  <2> QED BY <2>3, <2>4 DEF IsSpliced
<1>4. q = (IF place = Ips!AtRoot THEN c ELSE r)
  BY DEF SplicedRoot
<1> HIDE DEF u, q, place
<1>5. \A m \in D, b \in Ips!Bit : [node |-> m, bit |-> b] # Ips!AtRoot
  BY <1>0, SlotsDiffer
<1>6. q # Ips!Nil => q \in DOMAIN u /\ u[q].parent = Ips!AtRoot
  <2>1. CASE place = Ips!AtRoot
    BY <1>1, <1>3, <1>4, <2>1
  <2>2. CASE place # Ips!AtRoot /\ r # Ips!Nil
    <3>1. r \in D /\ t[r].parent = Ips!AtRoot
      BY <2>2 DEF Linked
    <3>2. r # n
      BY <2>2, <3>1 DEF place
    <3>3. r # c
      BY <1>1, <1>5, <2>2, <3>1
    <3> QED BY <1>3, <1>4, <2>2, <3>1, <3>2, <3>3
  <2> QED BY <1>4, <2>1, <2>2
<1>7. ASSUME NEW x \in DOMAIN u, NEW b \in Ips!Bit, u[x].child[b] # Ips!Nil PROVE Child(u, x, b, u[x].child[b])
  <2>0. x \in D /\ x # n
    BY <1>3
  <2>1. CASE place = [node |-> x, bit |-> b]
    <3>1. u[x].child[b] = c /\ c # Ips!Nil
      BY <1>3, <1>7, <2>0, <2>1
    <3>2. place # Ips!AtRoot /\ place.node = x /\ place.bit = b
      BY <1>5, <2>0, <2>1
    <3>3. PICK v \in Ips!Bit : Beneath(n, v, c)
      BY <1>1, <3>1
    <3>4. c \in Ips!Nets /\ n \in Ips!Nets /\ x \in Ips!Nets /\ Begins(n, c) /\ Beneath(x, b, n)
      BY <1>0, <1>1, <1>2, <2>0, <3>1, <3>2, <3>3 DEF Beneath
    <3>5. Beneath(x, b, c)
      BY <3>4, StaysBeneath
    <3>6. c \in DOMAIN u /\ u[c].parent = place
      BY <1>1, <1>3, <3>1
    <3> QED BY <2>1, <3>1, <3>5, <3>6 DEF Child
  <2>2. CASE place # [node |-> x, bit |-> b]
    <3> DEFINE y == t[x].child[b]
    <3>1. u[x].child[b] = y /\ y # Ips!Nil
      BY <1>3, <1>7, <2>0, <2>2
    <3>2. y \in D /\ Beneath(x, b, y) /\ t[y].parent = [node |-> x, bit |-> b]
      BY <2>0, <3>1, ChildIs
    <3>3. y # n
      BY <2>2, <3>2 DEF place
    <3>4. y # c
      <4> SUFFICES ASSUME y = c PROVE FALSE
        OBVIOUS
      <4>1. PICK v \in Ips!Bit : t[c].parent = [node |-> n, bit |-> v]
        BY <1>1, <3>1
      <4>2. [node |-> n, bit |-> v] = [node |-> x, bit |-> b]
        BY <3>2, <4>1
      <4> QED BY <2>0, <4>2, SlotsDiffer
    <3>5. y \in DOMAIN u /\ u[y].parent = [node |-> x, bit |-> b]
      BY <1>3, <3>2, <3>3, <3>4
    <3> HIDE DEF y
    <3> QED BY <3>1, <3>2, <3>5 DEF Child
  <2> QED BY <2>1, <2>2
<1>8. ASSUME NEW x \in DOMAIN u PROVE Hangs(u, q, x)
  <2>0. x \in D /\ x # n /\ x # Ips!Nil
    BY <1>0, <1>3
  <2>1. CASE x = c
    <3>1. u[x].parent = place
      BY <1>3, <2>0, <2>1
    <3>2. CASE place = Ips!AtRoot
      BY <1>4, <2>1, <3>1, <3>2 DEF Hangs
    <3>3. CASE place # Ips!AtRoot
      <4>1. place.node \in DOMAIN u /\ place.bit \in Ips!Bit /\ place = [node |-> place.node, bit |-> place.bit]
        BY <1>2, <1>3, <3>3
      <4>2. u[place.node].child[place.bit] = c
        BY <1>3, <4>1
      <4> QED BY <2>1, <3>1, <4>1, <4>2 DEF Hangs
    <3> QED BY <3>2, <3>3
  <2>2. CASE x # c
    <3>1. u[x].parent = t[x].parent
      BY <1>3, <2>0, <2>2
    <3>2. CASE t[x].parent = Ips!AtRoot
      <4>1. r = x
        <5>1. x \in DOMAIN t
          BY <2>0
        <5> QED BY <3>2, <5>1, OnlyRoot
      <4>2. place # Ips!AtRoot
        BY <1>2, <2>0, <4>1
      <4> QED BY <1>4, <3>1, <3>2, <4>1, <4>2 DEF Hangs
    <3>3. CASE t[x].parent # Ips!AtRoot
      <4> DEFINE m == t[x].parent.node
                 b == t[x].parent.bit
      <4>1. m \in D /\ b \in Ips!Bit /\ t[x].parent = [node |-> m, bit |-> b] /\ t[m].child[b] = x
        BY <2>0, <3>3, PlaceIs DEF InPlace
      <4> HIDE DEF m, b
      <4>2. m # n
        BY <2>0, <2>2, <4>1
      <4>3. place # [node |-> m, bit |-> b]
        <5> SUFFICES ASSUME place = [node |-> m, bit |-> b] PROVE FALSE
          OBVIOUS
        <5>1. place # Ips!AtRoot /\ place.node = m /\ place.bit = b
          BY <1>5, <4>1
        <5> QED BY <1>2, <2>0, <4>1, <5>1
      <4>4. m \in DOMAIN u /\ u[m].child[b] = x
        BY <1>3, <4>1, <4>2, <4>3
      <4> QED BY <3>1, <4>1, <4>4 DEF Hangs
    <3> QED BY <3>2, <3>3
  <2> QED BY <2>1, <2>2
<1>9. Linked(u, q)
  BY <1>3, <1>6, <1>7, <1>8 DEF Linked
<1> QED BY <1>3, <1>9 DEF u, q

\* A place of the trie: the root, or a slot of one of its nodes.
PlaceIn(t, place) == place = Ips!AtRoot \/ (place \in Slots /\ place.node \in DOMAIN t)

\* What hangs there.
AtPlace(t, r, place) == IF place = Ips!AtRoot THEN r ELSE t[place.node].child[place.bit]

\* t with g above down.
IsInterposed(t, u, place, g, p, down) ==
    /\ Nodes(u) /\ DOMAIN u = DOMAIN t \cup {g}
    /\ u[g].owner = p /\ u[g].parent = place
    /\ \A b \in Ips!Bit : u[g].child[b] = (IF down # Ips!Nil /\ b = down[Len(g) + 1] THEN down ELSE Ips!Nil)
    /\ \A x \in DOMAIN t :
          /\ u[x].owner = t[x].owner
          /\ u[x].parent = (IF x = down THEN [node |-> g, bit |-> down[Len(g) + 1]] ELSE t[x].parent)
          /\ \A b \in Ips!Bit :
                u[x].child[b] = (IF place = [node |-> x, bit |-> b] THEN g ELSE t[x].child[b])

LEMMA InterposeIs ==
    ASSUME NEW t, NEW r, Nodes(t), NEW place, PlaceIn(t, place), NEW g \in Ips!Nets, g \notin DOMAIN t,
           NEW p \in Owners \cup {NoOwner}, NEW down \in DOMAIN t \cup {Ips!Nil},
           down = Ips!Nil \/ down[Len(g) + 1] \in Ips!Bit
    PROVE  \E u : /\ Ips!Interpose(TableOf(t, r), place, g, p, down) = TableOf(u, IF place = Ips!AtRoot THEN g ELSE r)
                  /\ IsInterposed(t, u, place, g, p, down)
<1> DEFINE a == Ips!Update(t, g, Ips!Leaf(p))
           w == AttachedTrie(a, place, g)
           q == IF place = Ips!AtRoot THEN g ELSE r
<1>0. place \in Slots \cup {Ips!AtRoot} /\ (place # Ips!AtRoot => place.node \in DOMAIN t) /\ DOMAIN t \subseteq Ips!Nets
  BY DEF PlaceIn, Nodes
<1>1. Ips!AddNode(TableOf(t, r), g, p) = TableOf(a, r) /\ Nodes(a) /\ DOMAIN a = DOMAIN t \cup {g}
  BY AddNodeIs, ZenonT(30)
<1>2. /\ \A x \in DOMAIN t : a[x] = t[x]
      /\ a[g] = Ips!Leaf(p)
  BY DEF Ips!Update
<1> HIDE DEF a
<1>3. Ips!Attach(TableOf(a, r), place, g) = TableOf(w, q) /\ Nodes(w)
  BY <1>0, <1>1, AttachIs
<1>4. DOMAIN w = DOMAIN t \cup {g}
  BY <1>1 DEF AttachedTrie
<1>5. ASSUME NEW x \in DOMAIN t
      PROVE  /\ w[x].owner = t[x].owner /\ w[x].parent = t[x].parent
             /\ \A b \in Ips!Bit : w[x].child[b] = (IF place = [node |-> x, bit |-> b] THEN g ELSE t[x].child[b])
  <2>1. x # g /\ x \in DOMAIN a /\ a[x] = t[x]
    BY <1>1, <1>2
  <2> QED BY <2>1 DEF AttachedTrie
<1>6. /\ w[g].owner = p /\ w[g].parent = place
      /\ \A b \in Ips!Bit : w[g].child[b] = Ips!Nil
  <2>1. \A b \in Ips!Bit : place # [node |-> g, bit |-> b]
    BY <1>0, SlotsDiffer
  <2>2. /\ a[g].owner = p
        /\ \A b \in Ips!Bit : a[g].child[b] = Ips!Nil
    BY <1>2 DEF Ips!Leaf
  <2>3. g \in DOMAIN a
    BY <1>1
  <2> QED BY <2>1, <2>2, <2>3 DEF AttachedTrie
<1> HIDE DEF w
<1>7. CASE down = Ips!Nil
  <2>1. Ips!Interpose(TableOf(t, r), place, g, p, down) = TableOf(w, q)
    BY <1>1, <1>3, <1>7 DEF Ips!Interpose
  <2>2. Ips!Nil \notin DOMAIN t
    BY <1>0, NetsAre
  <2>3. IsInterposed(t, w, place, g, p, down)
    BY <1>3, <1>4, <1>5, <1>6, <1>7, <2>2 DEF IsInterposed
  <2> QED BY <2>1, <2>3
<1>8. CASE down # Ips!Nil
  <2> DEFINE s == Ips!Under(g, down)
             v == AttachedTrie(w, s, down)
             q2 == IF s = Ips!AtRoot THEN down ELSE q
  <2>0. s = [node |-> g, bit |-> down[Len(g) + 1]] /\ s \in Slots
    BY <1>8 DEF Ips!Under, Ips!choose, Slots
  <2>1. s # Ips!AtRoot /\ s.node = g /\ s.node \in DOMAIN w /\ down \in DOMAIN w
    BY <1>4, <1>8, <2>0, SlotsDiffer
  <2> HIDE DEF s
  <2>2. Ips!Attach(TableOf(w, q), s, down) = TableOf(v, q2) /\ Nodes(v)
    <3> HIDE DEF q
    <3> QED BY <1>3, <2>0, <2>1, AttachIs
  <2>3. q2 = q
    BY <2>1
  <2>4. Ips!Interpose(TableOf(t, r), place, g, p, down) = TableOf(v, q)
    BY <1>1, <1>3, <1>8, <2>2, <2>3 DEF Ips!Interpose, s
  <2>5. DOMAIN v = DOMAIN t \cup {g}
    BY <1>4 DEF AttachedTrie
  <2>6. ASSUME NEW x \in DOMAIN t
        PROVE  /\ v[x].owner = t[x].owner
               /\ v[x].parent = (IF x = down THEN s ELSE t[x].parent)
               /\ \A b \in Ips!Bit : v[x].child[b] = (IF place = [node |-> x, bit |-> b] THEN g ELSE t[x].child[b])
    <3>1. x # g /\ x \in DOMAIN w
      BY <1>4
    <3>2. \A b \in Ips!Bit : s # [node |-> x, bit |-> b]
      BY <2>0, <3>1, SlotsDiffer
    <3>3. /\ v[x].owner = w[x].owner
          /\ v[x].parent = (IF x = down THEN s ELSE w[x].parent)
          /\ \A b \in Ips!Bit : v[x].child[b] = w[x].child[b]
      BY <3>1, <3>2 DEF AttachedTrie
    <3> HIDE DEF v
    <3> QED BY <1>5, <3>3
  <2>7. /\ v[g].owner = p /\ v[g].parent = place
        /\ \A b \in Ips!Bit : v[g].child[b] = (IF b = down[Len(g) + 1] THEN down ELSE Ips!Nil)
    <3>1. g # down /\ g \in DOMAIN w
      BY <1>4, <1>8
    <3>2. \A b \in Ips!Bit : s = [node |-> g, bit |-> b] <=> b = down[Len(g) + 1]
      BY <2>0, SlotsDiffer
    <3>3. /\ v[g].owner = w[g].owner
          /\ v[g].parent = w[g].parent
          /\ \A b \in Ips!Bit : v[g].child[b] = (IF s = [node |-> g, bit |-> b] THEN down ELSE w[g].child[b])
      BY <3>1 DEF AttachedTrie
    <3> HIDE DEF v
    <3> QED BY <1>6, <3>2, <3>3
  <2> HIDE DEF v
  <2>8. IsInterposed(t, v, place, g, p, down)
    BY <1>8, <2>0, <2>2, <2>5, <2>6, <2>7 DEF IsInterposed
  <2> QED BY <2>4, <2>8
<1> QED BY <1>7, <1>8

\* A new node can come between a place and what hangs there if it is beneath the one
\* and begins the other.
FitsAt(t, place, g, down) ==
    /\ place # Ips!AtRoot => Beneath(place.node, place.bit, g)
    /\ down # Ips!Nil => Begins(g, down)

LEMMA InterposeLinked ==
    ASSUME NEW t, NEW r, Linked(t, r), NEW place, PlaceIn(t, place), NEW g \in Ips!Nets, g \notin DOMAIN t,
           NEW p \in Owners \cup {NoOwner}, NEW down, down = AtPlace(t, r, place), FitsAt(t, place, g, down)
    PROVE  \E u, q : /\ Ips!Interpose(TableOf(t, r), place, g, p, down) = TableOf(u, q)
                     /\ IsInterposed(t, u, place, g, p, down)
                     /\ Linked(u, q) /\ q = (IF place = Ips!AtRoot THEN g ELSE r)
<1> DEFINE D == DOMAIN t
           q == IF place = Ips!AtRoot THEN g ELSE r
           v == down[Len(g) + 1]
<1>0. Nodes(t) /\ D \subseteq Ips!Nets /\ Ips!Nil \notin D /\ Ips!Nil \notin Ips!Nets
  BY NetsAre DEF Linked, Nodes
<1>1. place # Ips!AtRoot =>
         /\ place.node \in D /\ place.bit \in Ips!Bit /\ place = [node |-> place.node, bit |-> place.bit]
         /\ Beneath(place.node, place.bit, g)
  BY DEF PlaceIn, Slots, FitsAt
<1>2. down # Ips!Nil => down \in D /\ t[down].parent = place
  <2>1. CASE place = Ips!AtRoot
    BY <2>1 DEF AtPlace, Linked
  <2>2. CASE place # Ips!AtRoot /\ down # Ips!Nil
    <3>1. down = t[place.node].child[place.bit] /\ place.node \in D /\ place.bit \in Ips!Bit
      BY <1>1, <2>2 DEF AtPlace
    <3>2. down \in D /\ t[down].parent = [node |-> place.node, bit |-> place.bit]
      BY <2>2, <3>1, ChildIs
    <3> QED BY <1>1, <2>2, <3>2
  <2> QED BY <2>1, <2>2
<1>3. down # Ips!Nil => v \in Ips!Bit /\ Beneath(g, v, down)
  <2> SUFFICES ASSUME down # Ips!Nil PROVE v \in Ips!Bit /\ Beneath(g, v, down)
    OBVIOUS
  <2>1. down \in Ips!Nets /\ g # down /\ Begins(g, down)
    BY <1>0, <1>2 DEF FitsAt
  <2> QED BY <2>1, GoesOn
<1>4. PICK u : /\ Ips!Interpose(TableOf(t, r), place, g, p, down) = TableOf(u, q)
               /\ IsInterposed(t, u, place, g, p, down)
  <2>1. down \in DOMAIN t \cup {Ips!Nil}
    BY <1>2
  <2>2. down = Ips!Nil \/ down[Len(g) + 1] \in Ips!Bit
    BY <1>3
  <2> QED BY <1>0, <2>1, <2>2, InterposeIs
<1>5. /\ Nodes(u) /\ DOMAIN u = D \cup {g}
      /\ u[g].parent = place
      /\ \A b \in Ips!Bit : u[g].child[b] = (IF down # Ips!Nil /\ b = v THEN down ELSE Ips!Nil)
      /\ \A x \in D :
            /\ u[x].parent = (IF x = down THEN [node |-> g, bit |-> v] ELSE t[x].parent)
            /\ \A b \in Ips!Bit :
                  u[x].child[b] = (IF place = [node |-> x, bit |-> b] THEN g ELSE t[x].child[b])
  BY <1>4 DEF IsInterposed
<1>6. q = (IF place = Ips!AtRoot THEN g ELSE r)
  OBVIOUS
<1> HIDE DEF q, v
<1>7. \A m \in D, b \in Ips!Bit : [node |-> m, bit |-> b] # Ips!AtRoot
  BY <1>0, SlotsDiffer
<1>8. q # Ips!Nil => q \in DOMAIN u /\ u[q].parent = Ips!AtRoot
  <2>1. CASE place = Ips!AtRoot
    BY <1>5, <1>6, <2>1
  <2>2. CASE place # Ips!AtRoot /\ r # Ips!Nil
    <3>1. r \in D /\ t[r].parent = Ips!AtRoot
      BY <2>2 DEF Linked
    <3>2. r # down
      BY <1>2, <2>2, <3>1
    <3> QED BY <1>5, <1>6, <2>2, <3>1, <3>2
  <2> QED BY <1>6, <2>1, <2>2
<1>9. ASSUME NEW x \in DOMAIN u, NEW b \in Ips!Bit, u[x].child[b] # Ips!Nil PROVE Child(u, x, b, u[x].child[b])
  <2>1. CASE x = g
    <3>1. u[x].child[b] = down /\ down # Ips!Nil /\ b = v
      BY <1>5, <1>9, <2>1
    <3>2. down \in DOMAIN u /\ u[down].parent = [node |-> g, bit |-> v]
      BY <1>2, <1>5, <3>1
    <3> QED BY <1>3, <2>1, <3>1, <3>2 DEF Child
  <2>2. CASE x \in D /\ place = [node |-> x, bit |-> b]
    <3>1. u[x].child[b] = g
      BY <1>5, <2>2
    <3>2. place # Ips!AtRoot /\ place.node = x /\ place.bit = b
      BY <1>7, <2>2
    <3> QED BY <1>1, <1>5, <2>2, <3>1, <3>2 DEF Child
  <2>3. CASE x \in D /\ place # [node |-> x, bit |-> b]
    <3> DEFINE y == t[x].child[b]
    <3>1. u[x].child[b] = y /\ y # Ips!Nil
      BY <1>5, <1>9, <2>3
    <3>2. y \in D /\ Beneath(x, b, y) /\ t[y].parent = [node |-> x, bit |-> b]
      BY <2>3, <3>1, ChildIs
    <3> HIDE DEF y
    <3>3. y # down
      BY <1>2, <2>3, <3>1, <3>2
    <3>4. y \in DOMAIN u /\ u[y].parent = [node |-> x, bit |-> b]
      BY <1>5, <3>2, <3>3
    <3> QED BY <3>1, <3>2, <3>4 DEF Child
  <2> QED BY <1>5, <2>1, <2>2, <2>3
<1>10. ASSUME NEW x \in DOMAIN u PROVE Hangs(u, q, x)
  <2>1. CASE x = g
    <3>1. CASE place = Ips!AtRoot
      BY <1>5, <1>6, <2>1, <3>1 DEF Hangs
    <3>2. CASE place # Ips!AtRoot
      <4>1. place.node \in DOMAIN u /\ u[place.node].child[place.bit] = g
        BY <1>1, <1>5, <3>2
      <4> QED BY <1>1, <1>5, <2>1, <3>2, <4>1 DEF Hangs
    <3> QED BY <3>1, <3>2
  <2>2. CASE x \in D /\ x = down
    <3>1. down # Ips!Nil /\ v \in Ips!Bit
      BY <1>0, <1>3, <2>2
    <3>2. u[x].parent = [node |-> g, bit |-> v] /\ u[g].child[v] = x /\ g \in DOMAIN u
      BY <1>5, <2>2, <3>1
    <3> QED BY <3>1, <3>2 DEF Hangs
  <2>3. CASE x \in D /\ x # down
    <3>1. u[x].parent = t[x].parent
      BY <1>5, <2>3
    <3>0. InPlace(t, r, x)
      BY <2>3, PlaceIs
    <3>2. CASE t[x].parent = Ips!AtRoot
      <4>1. r = x
        BY <3>0, <3>2 DEF InPlace
      <4>2. place # Ips!AtRoot
        BY <2>3, <4>1 DEF AtPlace
      <4> QED BY <1>6, <3>1, <3>2, <4>1, <4>2 DEF Hangs
    <3>3. CASE t[x].parent # Ips!AtRoot
      <4> DEFINE m == t[x].parent.node
                 b == t[x].parent.bit
      <4>1. m \in D /\ b \in Ips!Bit /\ t[x].parent = [node |-> m, bit |-> b] /\ t[m].child[b] = x
        BY <3>0, <3>3 DEF InPlace
      <4> HIDE DEF m, b
      <4>2. place # [node |-> m, bit |-> b]
        <5> SUFFICES ASSUME place = [node |-> m, bit |-> b] PROVE FALSE
          OBVIOUS
        <5>1. place # Ips!AtRoot /\ place.node = m /\ place.bit = b
          BY <1>7, <4>1
        <5> QED BY <2>3, <4>1, <5>1 DEF AtPlace
      <4>3. m \in DOMAIN u /\ u[m].child[b] = x
        BY <1>5, <4>1, <4>2
      <4> QED BY <3>1, <4>1, <4>3 DEF Hangs
    <3> QED BY <3>2, <3>3
  <2> QED BY <1>5, <2>1, <2>2, <2>3
<1>11. Linked(u, q)
  BY <1>5, <1>8, <1>9, <1>10 DEF Linked
<1> QED BY <1>4, <1>6, <1>11

-----------------------------------------------------------------------------
(* The descent.                                                            *)

\* Where the descent to ip goes from a node.
StepFrom(t, ip, n) ==
    IF n = Ips!Nil \/ ~Begins(n, ip) \/ n = ip THEN Ips!Nil ELSE t[n].child[ip[Len(n) + 1]]

IsWalk(t, r, ip, at) ==
    /\ at \in [0 .. Width -> DOMAIN t \cup {Ips!Nil}]
    /\ at[0] = r
    /\ \A k \in 1 .. Width : at[k] = StepFrom(t, ip, at[k - 1])

\* A step stays in the trie and goes down.
LEMMA StepIs ==
    ASSUME NEW t, NEW r, Linked(t, r), NEW ip \in Ips!Nets, NEW n \in DOMAIN t \cup {Ips!Nil}
    PROVE  /\ StepFrom(t, ip, n) \in DOMAIN t \cup {Ips!Nil}
           /\ StepFrom(t, ip, n) # Ips!Nil =>
                 /\ n \in DOMAIN t /\ Begins(n, ip) /\ n # ip
                 /\ Len(n) < Len(ip) /\ Len(n) < Len(StepFrom(t, ip, n))
           /\ n \in DOMAIN t =>
                 (IF n = Ips!Nil \/ ~Ips!Covers(n, ip) \/ Len(n) = Len(ip) THEN Ips!Nil
                  ELSE t[n].child[Ips!choose(n, ip)]) = StepFrom(t, ip, n)
<1>0. DOMAIN t \subseteq Ips!Nets /\ Ips!Nil \notin Ips!Nets
  BY NetsAre DEF Linked, Nodes
<1>1. CASE n = Ips!Nil
  BY <1>0, <1>1 DEF StepFrom
<1>2. CASE n \in DOMAIN t
  <2>0. n \in Ips!Nets /\ n # Ips!Nil
    BY <1>0, <1>2
  <2>1. Ips!Covers(n, ip) <=> Begins(n, ip)
    BY <2>0, CoversMeans
  <2>2. CASE ~Begins(n, ip)
    BY <2>1, <2>2 DEF StepFrom
  <2>3. CASE n = ip
    BY <2>3 DEF StepFrom
  <2>4. CASE Begins(n, ip) /\ n # ip
    <3>1. Len(n) < Len(ip) /\ ip[Len(n) + 1] \in Ips!Bit /\ Len(n) # Len(ip)
      <4>1. Len(n) \in Nat /\ Len(ip) \in Nat
        BY <2>0, NetsAre
      <4> QED BY <2>0, <2>4, <4>1, GoesOn
    <3>2. StepFrom(t, ip, n) = t[n].child[ip[Len(n) + 1]]
      BY <2>0, <2>4 DEF StepFrom
    <3>3. ASSUME t[n].child[ip[Len(n) + 1]] # Ips!Nil
          PROVE  t[n].child[ip[Len(n) + 1]] \in DOMAIN t /\ Len(n) < Len(t[n].child[ip[Len(n) + 1]])
      BY <1>2, <3>1, <3>3, ChildIs DEF Beneath
    <3>4. (IF n = Ips!Nil \/ ~Ips!Covers(n, ip) \/ Len(n) = Len(ip) THEN Ips!Nil
           ELSE t[n].child[Ips!choose(n, ip)]) = t[n].child[ip[Len(n) + 1]]
      BY <2>0, <2>1, <2>4, <3>1 DEF Ips!choose
    <3> QED BY <1>2, <2>4, <3>1, <3>2, <3>3, <3>4
  <2> QED BY <2>2, <2>3, <2>4
<1> QED BY <1>1, <1>2

LEMMA WalkIs ==
    ASSUME NEW t, NEW r, Linked(t, r), NEW ip \in Ips!Nets
    PROVE  IsWalk(t, r, ip, Ips!Walk(t, r, ip))
<1> DEFINE A == DOMAIN t \cup {Ips!Nil}
           G == [x \in A \X (1 .. Width) |-> StepFrom(t, ip, x[1])]
           Code(n) == IF n = Ips!Nil \/ ~Ips!Covers(n, ip) \/ Len(n) = Len(ip) THEN Ips!Nil
                      ELSE t[n].child[Ips!choose(n, ip)]
           F(f) == [k \in 0 .. Width |-> IF k = 0 THEN r ELSE Code(f[k - 1])]
           at == CHOOSE f : f = F(f)
<1>0. Width \in Nat /\ r \in A
  BY TrieAssumption DEF Linked
<1>1. \A n \in A : StepFrom(t, ip, n) \in A /\ Code(n) = StepFrom(t, ip, n)
  <2> SUFFICES ASSUME NEW n \in A PROVE StepFrom(t, ip, n) \in A /\ Code(n) = StepFrom(t, ip, n)
    OBVIOUS
  <2>1. StepFrom(t, ip, n) \in A
    BY StepIs
  <2>2. CASE n = Ips!Nil
    BY <2>1, <2>2 DEF StepFrom
  <2>3. CASE n \in DOMAIN t
    BY <2>1, <2>3, StepIs
  <2> QED BY <2>2, <2>3
<1>2. G \in [A \X (1 .. Width) -> A] /\ \A n \in A, k \in 1 .. Width : G[<<n, k>>] = StepFrom(t, ip, n)
  BY <1>1
<1>3. Ips!Walk(t, r, ip) = at
  BY DEF Ips!Walk
<1> HIDE DEF G, A, Code
<1>4. PICK h : IsRecursion(h, A, r, G, Width)
  BY <1>0, <1>2, RecursionExists
<1>5. h \in [0 .. Width -> A] /\ h[0] = r
  BY <1>4 DEF IsRecursion
<1>6. ASSUME NEW k \in 1 .. Width PROVE k - 1 \in 0 .. Width /\ h[k - 1] \in A /\ h[k] = StepFrom(t, ip, h[k - 1])
  <2>1. k - 1 \in 0 .. Width
    BY <1>0
  <2>2. h[k - 1] \in A
    BY <1>5, <2>1
  <2>3. h[k] = G[<<h[k - 1], k>>]
    BY <1>4 DEF IsRecursion
  <2> QED BY <1>2, <2>1, <2>2, <2>3
<1>7. h = F(h)
  <2>1. ASSUME NEW k \in 0 .. Width PROVE h[k] = F(h)[k]
    <3>1. CASE k = 0
      BY <1>5, <3>1
    <3>2. CASE k # 0
      <4>1. k \in 1 .. Width
        BY <1>0, <3>2
      <4>2. h[k] = StepFrom(t, ip, h[k - 1]) /\ h[k - 1] \in A
        BY <1>6, <4>1
      <4>3. h[k] = Code(h[k - 1])
        BY <1>1, <4>2
      <4> QED BY <3>2, <4>3
    <3> QED BY <3>1, <3>2
  <2>2. h = [k \in 0 .. Width |-> h[k]]
    BY <1>5
  <2> QED BY <2>1, <2>2
<1>8. at = F(at)
  BY <1>7
<1> HIDE DEF at
<1> DEFINE Same(k) == k <= Width => at[k] = h[k]
           S == {k \in Nat : Same(k)}
<1>9. 0 \in S
  BY <1>0, <1>5, <1>8
<1>10. ASSUME NEW k \in S PROVE k + 1 \in S
  <2> SUFFICES ASSUME k + 1 <= Width PROVE at[k + 1] = h[k + 1]
    BY <1>10
  <2>1. k \in Nat /\ k <= Width /\ at[k] = h[k]
    BY <1>0, <1>10
  <2>2. k + 1 \in 1 .. Width /\ k + 1 \in 0 .. Width /\ k + 1 # 0 /\ (k + 1) - 1 = k
    BY <1>0, <2>1
  <2>3. at[k + 1] = Code(at[k])
    BY <1>8, <2>2
  <2>4. h[k + 1] = StepFrom(t, ip, h[k]) /\ h[k] \in A
    BY <1>6, <2>2
  <2> QED BY <1>1, <2>1, <2>3, <2>4
<1> HIDE DEF S
<1>11. S = Nat
  <2>1. S \in SUBSET Nat
    BY DEF S
  <2> QED BY <1>9, <1>10, <2>1, NatInd
<1>12. \A k \in 0 .. Width : at[k] = h[k]
  BY <1>0, <1>11 DEF S
<1>13. at = [k \in 0 .. Width |-> at[k]]
  BY <1>8
<1>14. at \in [0 .. Width -> A]
  BY <1>5, <1>12, <1>13
<1>15. at[0] = r
  BY <1>0, <1>5, <1>12
<1>16. \A k \in 1 .. Width : at[k] = StepFrom(t, ip, at[k - 1])
  <2> SUFFICES ASSUME NEW k \in 1 .. Width PROVE at[k] = StepFrom(t, ip, at[k - 1])
    OBVIOUS
  <2>1. k \in 0 .. Width /\ k - 1 \in 0 .. Width
    BY <1>0
  <2> QED BY <1>6, <1>12, <2>1
<1>17. IsWalk(t, r, ip, at)
  BY <1>14, <1>15, <1>16 DEF IsWalk, A
<1> QED BY <1>3, <1>17

\* The steps of a descent that are at a node that begins ip.
Seen(ip, at) == {k \in 0 .. Width : at[k] # Ips!Nil /\ Begins(at[k], ip)}

LEMMA VisitsAre ==
    ASSUME NEW t, NEW r, Linked(t, r), NEW ip \in Ips!Nets
    PROVE  Ips!Visits(t, r, ip) = Seen(ip, Ips!Walk(t, r, ip))
<1> DEFINE at == Ips!Walk(t, r, ip)
<1>1. at \in [0 .. Width -> DOMAIN t \cup {Ips!Nil}]
  BY WalkIs DEF IsWalk
<1>2. DOMAIN t \subseteq Ips!Nets
  BY DEF Linked, Nodes
<1>3. Ips!Visits(t, r, ip) = {k \in 0 .. Width : at[k] # Ips!Nil /\ Ips!Covers(at[k], ip)}
  BY DEF Ips!Visits
<1> HIDE DEF at
<1>4. \A k \in 0 .. Width : at[k] # Ips!Nil => (Ips!Covers(at[k], ip) <=> Begins(at[k], ip))
  BY <1>1, <1>2, CoversMeans
<1> QED BY <1>3, <1>4 DEF Seen, at

\* A descent goes through nodes that begin ip, each longer than the one before.
LEMMA WalkGoesDown ==
    ASSUME NEW t, NEW r, Linked(t, r), NEW ip \in Ips!Nets, NEW at, IsWalk(t, r, ip, at),
           NEW k \in 0 .. Width, at[k] # Ips!Nil
    PROVE  /\ Len(at[k]) >= k
           /\ \A j \in 0 .. Width : j < k => at[j] # Ips!Nil /\ Begins(at[j], ip) /\ Len(at[j]) < Len(at[k])
<1> DEFINE D == DOMAIN t
           Down(n) == n <= Width /\ at[n] # Ips!Nil =>
              /\ Len(at[n]) >= n
              /\ \A j \in 0 .. Width : j < n => at[j] # Ips!Nil /\ Begins(at[j], ip) /\ Len(at[j]) < Len(at[n])
           S == {n \in Nat : Down(n)}
<1>0. /\ Width \in Nat /\ D \subseteq Ips!Nets /\ Ips!Nil \notin D
      /\ at \in [0 .. Width -> D \cup {Ips!Nil}]
      /\ \A n \in 1 .. Width : at[n] = StepFrom(t, ip, at[n - 1])
  BY TrieAssumption, NetsAre DEF Linked, Nodes, IsWalk
<1>1. \A n \in 0 .. Width : at[n] # Ips!Nil => Len(at[n]) \in Nat
  BY <1>0, NetsAre
<1>2. 0 \in S
  BY <1>0, <1>1
<1>3. ASSUME NEW n \in S PROVE n + 1 \in S
  <2> SUFFICES ASSUME n + 1 <= Width, at[n + 1] # Ips!Nil
               PROVE  /\ Len(at[n + 1]) >= n + 1
                      /\ \A j \in 0 .. Width : j < n + 1 =>
                            at[j] # Ips!Nil /\ Begins(at[j], ip) /\ Len(at[j]) < Len(at[n + 1])
    BY <1>3
  <2>1. n \in 0 .. Width /\ n + 1 \in 1 .. Width /\ (n + 1) - 1 = n /\ n + 1 \in 0 .. Width
    BY <1>0, <1>3
  <2>2. at[n + 1] = StepFrom(t, ip, at[n]) /\ at[n] \in D \cup {Ips!Nil}
    BY <1>0, <2>1
  <2> DEFINE a == at[n]
             c == at[n + 1]
  <2>3. a \in D /\ Begins(a, ip) /\ Len(a) < Len(c)
    <3> HIDE DEF a, c
    <3>1. c = StepFrom(t, ip, a) /\ a \in DOMAIN t \cup {Ips!Nil} /\ StepFrom(t, ip, a) # Ips!Nil
      BY <2>2 DEF a, c
    <3> QED BY <3>1, StepIs
  <2>4. a # Ips!Nil /\ Len(a) \in Nat /\ Len(c) \in Nat
    BY <1>0, <1>1, <2>1, <2>3
  <2>5. /\ Len(a) >= n
        /\ \A j \in 0 .. Width : j < n => at[j] # Ips!Nil /\ Begins(at[j], ip) /\ Len(at[j]) < Len(a)
    BY <1>3, <2>1, <2>4
  <2>6. Len(c) >= n + 1
    <3> HIDE DEF a, c
    <3> QED BY <2>1, <2>3, <2>4, <2>5
  <2>7. ASSUME NEW j \in 0 .. Width, j < n + 1 PROVE at[j] # Ips!Nil /\ Begins(at[j], ip) /\ Len(at[j]) < Len(c)
    <3>1. CASE j = n
      BY <2>3, <2>4, <3>1
    <3>2. CASE j # n
      <4>1. j < n
        BY <2>1, <2>7, <3>2
      <4>2. at[j] # Ips!Nil /\ Begins(at[j], ip) /\ Len(at[j]) < Len(a)
        BY <2>5, <4>1
      <4>3. Len(at[j]) \in Nat
        BY <1>1, <4>2
      <4> HIDE DEF a, c
      <4> QED BY <2>3, <2>4, <4>2, <4>3
    <3> QED BY <3>1, <3>2
  <2> QED BY <2>6, <2>7
<1> HIDE DEF S
<1>4. S = Nat
  <2>1. S \in SUBSET Nat
    BY DEF S
  <2> QED BY <1>2, <1>3, <2>1, NatInd
<1>5. k \in S /\ k <= Width
  BY <1>0, <1>4
<1> QED BY <1>5 DEF S

\* ... and through all of them.
LEMMA WalkMeets ==
    ASSUME NEW t, NEW r, Linked(t, r), NEW ip \in Ips!Nets, NEW at, IsWalk(t, r, ip, at),
           NEW x \in DOMAIN t, Begins(x, ip)
    PROVE  \E k \in 0 .. Width : at[k] = x
<1> DEFINE D == DOMAIN t
           Met(y) == \E k \in 0 .. Width : at[k] = y
           S == {n \in Nat : \A y \in D : Begins(y, ip) /\ Len(y) <= n => Met(y)}
<1>0. /\ Width \in Nat /\ D \subseteq Ips!Nets /\ Ips!Nil \notin D
      /\ at \in [0 .. Width -> D \cup {Ips!Nil}] /\ at[0] = r
      /\ \A n \in 1 .. Width : at[n] = StepFrom(t, ip, at[n - 1])
  BY TrieAssumption, NetsAre DEF Linked, Nodes, IsWalk
<1>1. ASSUME NEW y \in D, Begins(y, ip), \A z \in D : Begins(z, ip) /\ Len(z) < Len(y) => Met(z) PROVE Met(y)
  <2>0. InPlace(t, r, y)
    BY PlaceIs
  <2>1. CASE t[y].parent = Ips!AtRoot
    <3>1. r = y
      BY <2>0, <2>1 DEF InPlace
    <3>2. 0 \in 0 .. Width /\ at[0] = y
      BY <1>0, <3>1
    <3> QED BY <3>2
  <2>2. CASE t[y].parent # Ips!AtRoot
    <3> DEFINE m == t[y].parent.node
               b == t[y].parent.bit
    <3>1. m \in D /\ b \in Ips!Bit /\ t[m].child[b] = y /\ Beneath(m, b, y)
      BY <2>0, <2>2 DEF InPlace
    <3> HIDE DEF m, b
    <3>2. m \in Ips!Nets /\ y \in Ips!Nets
      BY <1>0, <3>1
    <3>3. Beneath(m, b, ip)
      BY <1>1, <3>1, <3>2, StaysBeneath
    <3>4. Begins(m, ip) /\ Len(m) < Len(y) /\ Len(m) < Len(ip) /\ ip[Len(m) + 1] = b
      BY <3>1, <3>3 DEF Beneath
    <3>5. PICK k \in 0 .. Width : at[k] = m
      BY <1>1, <3>1, <3>4
    <3>6. Len(m) >= k
      BY <1>0, <3>1, <3>5, WalkGoesDown
    <3>7. Len(m) \in Nat /\ Len(ip) \in 0 .. Width
      BY <3>2, NetsAre
    <3>8. k + 1 \in 1 .. Width /\ (k + 1) - 1 = k /\ k + 1 \in 0 .. Width
      BY <1>0, <3>4, <3>6, <3>7
    <3>9. at[k + 1] = StepFrom(t, ip, m)
      BY <1>0, <3>5, <3>8
    <3>10. m # ip /\ m # Ips!Nil
      BY <1>0, <3>1, <3>4, <3>7
    <3>11. StepFrom(t, ip, m) = y
      BY <3>1, <3>4, <3>10 DEF StepFrom
    <3> QED BY <3>8, <3>9, <3>11
  <2> QED BY <2>1, <2>2
<1>2. \A y \in D : Len(y) \in Nat
  BY <1>0, NetsAre
<1> HIDE DEF Met
<1>3. 0 \in S
  <2>1. \A y, z \in D : Len(y) <= 0 => ~(Len(z) < Len(y))
    BY <1>2
  <2> QED BY <1>1, <2>1
<1>4. ASSUME NEW n \in S PROVE n + 1 \in S
  <2>1. n \in Nat /\ \A y \in D : Begins(y, ip) /\ Len(y) <= n => Met(y)
    BY <1>4
  <2>2. ASSUME NEW y \in D, Begins(y, ip), Len(y) <= n + 1 PROVE Met(y)
    <3>1. \A z \in D : Len(z) < Len(y) => Len(z) <= n
      BY <1>2, <2>1, <2>2
    <3> QED BY <1>1, <2>1, <2>2, <3>1
  <2> QED BY <2>1, <2>2
<1> HIDE DEF S
<1>5. S = Nat
  <2>1. S \in SUBSET Nat
    BY DEF S
  <2> QED BY <1>3, <1>4, <2>1, NatInd
<1>6. Len(x) \in S /\ Len(x) <= Len(x)
  BY <1>2, <1>5
<1>7. Met(x)
  BY <1>6 DEF S
<1> QED BY <1>7 DEF Met

-----------------------------------------------------------------------------
(* Lookup and insertion.                                                   *)

\* The routes are the nodes that have an owner.
Given(t, given) ==
    /\ DOMAIN given = {n \in DOMAIN t : t[n].owner # NoOwner}
    /\ \A n \in DOMAIN given : given[n] = t[n].owner

\* What the descent finds last is the longest prefix.
LEMMA LookupIsLongest ==
    ASSUME Linked(trie, root), Given(trie, routes), NEW ip \in Ips!Addresses
    PROVE  LET covering == {x \in DOMAIN routes : Ips!Covers(x, ip)}
           IN Ips!Lookup(ip) =
                 IF covering = {} THEN NoOwner
                 ELSE routes[CHOOSE x \in covering : \A y \in covering : Len(y) <= Len(x)]
<1> DEFINE at == Ips!Walk(trie, root, ip)
           owned == {k \in Seen(ip, at) : trie[at[k]].owner # NoOwner}
           covering == {x \in DOMAIN routes : Ips!Covers(x, ip)}
           longest == CHOOSE x \in covering : \A y \in covering : Len(y) <= Len(x)
<1>0. ip \in Ips!Nets /\ Width \in Nat /\ DOMAIN trie \subseteq Ips!Nets /\ Ips!Nil \notin DOMAIN trie
  BY NetsAre, TrieAssumption DEF Linked, Nodes
<1>1. IsWalk(trie, root, ip, at)
  BY <1>0, WalkIs
<1>2. Ips!Lookup(ip) = IF owned = {} THEN NoOwner ELSE trie[at[Ips!Max(owned)]].owner
  BY <1>0, VisitsAre DEF Ips!Lookup
<1> HIDE DEF at
<1>3. \A k \in 0 .. Width : at[k] \in DOMAIN trie \cup {Ips!Nil}
  BY <1>1 DEF IsWalk
<1>4. covering = {x \in DOMAIN trie : trie[x].owner # NoOwner /\ Begins(x, ip)}
  BY <1>0, CoversMeans DEF Given
<1>5. \A k \in owned : k \in 0 .. Width /\ at[k] \in covering
  BY <1>3, <1>4 DEF Seen
<1>6. ASSUME NEW x \in covering PROVE \E k \in owned : at[k] = x
  <2>1. x \in DOMAIN trie /\ trie[x].owner # NoOwner /\ Begins(x, ip)
    BY <1>4
  <2>2. PICK k \in 0 .. Width : at[k] = x
    BY <1>0, <1>1, <2>1, WalkMeets
  <2>3. k \in owned
    BY <1>0, <2>1, <2>2 DEF Seen
  <2> QED BY <2>2, <2>3
<1> HIDE DEF owned
<1>7. CASE owned = {}
  <2>1. covering = {}
    BY <1>6, <1>7
  <2> QED BY <1>2, <1>7, <2>1
<1>8. CASE owned # {}
  <2> DEFINE K == Ips!Max(owned)
  <2>1. K \in owned /\ \A k \in owned : k <= K
    <3>1. owned \in SUBSET (0 .. Width)
      BY <1>5
    <3> QED BY <1>0, <1>8, <3>1, TopIs
  <2> HIDE DEF K
  <2>2. K \in 0 .. Width /\ at[K] \in covering
    BY <1>5, <2>1
  <2>3. ASSUME NEW y \in covering PROVE Len(y) <= Len(at[K])
    <3>1. PICK k \in owned : at[k] = y
      BY <1>6
    <3>2. k \in 0 .. Width /\ K \in 0 .. Width /\ k <= K
      BY <1>5, <2>1, <2>2
    <3>3. Len(y) \in Nat /\ Len(at[K]) \in Nat /\ at[K] # Ips!Nil
      BY <1>0, <1>4, <2>2, NetsAre
    <3>4. CASE k = K
      BY <3>1, <3>3, <3>4
    <3>5. CASE k < K
      <4>1. Len(at[k]) < Len(at[K])
        BY <1>0, <1>1, <3>2, <3>3, <3>5, WalkGoesDown
      <4> QED BY <3>1, <3>3, <4>1
    <3> QED BY <1>0, <3>2, <3>4, <3>5
  <2>4. longest \in covering /\ \A y \in covering : Len(y) <= Len(longest)
    <3> HIDE DEF covering
    <3> QED BY <2>2, <2>3
  <2> HIDE DEF longest
  <2>5. longest \in Ips!Nets /\ at[K] \in Ips!Nets /\ Begins(longest, ip) /\ Begins(at[K], ip)
    BY <1>0, <1>4, <2>2, <2>4
  <2>6. Len(longest) \in Nat /\ Len(at[K]) \in Nat
    BY <2>5, NetsAre
  <2>7. Len(longest) <= Len(at[K]) /\ Len(longest) = Len(at[K])
    BY <2>2, <2>3, <2>4, <2>6
  <2>8. longest = at[K]
    BY <1>0, <2>5, <2>7, BeginsTheSame
  <2>9. routes[at[K]] = trie[at[K]].owner
    BY <2>2 DEF Given
  <2> QED BY <1>2, <1>8, <2>2, <2>8, <2>9 DEF K, longest
<1> QED BY <1>7, <1>8 DEF longest

-----------------------------------------------------------------------------
\* The place nodePlacement finds: the deepest node that begins ip, and beneath it on
\* the side of ip nothing that does.
Placement(t, r, ip, place, down) ==
    /\ PlaceIn(t, place) /\ down = AtPlace(t, r, place)
    /\ down # Ips!Nil => ~Begins(down, ip)
    /\ place # Ips!AtRoot => Beneath(place.node, place.bit, ip)
    /\ \A x \in DOMAIN t : Begins(x, ip) => place # Ips!AtRoot /\ Len(x) <= Len(place.node)

\* What insert does there.
InsertAt(tb, ip, p, place, down) ==
    LET g == SubSeq(ip, 1, Ips!Split(down, ip))
    IN IF down = Ips!Nil \/ g = ip THEN Ips!Interpose(tb, place, ip, p, down)
       ELSE Ips!Interpose(Ips!Interpose(tb, place, g, NoOwner, down), Ips!Under(g, ip), ip, p, Ips!Nil)

LEMMA PlacementIs ==
    ASSUME NEW t, NEW r, Linked(t, r), NEW ip \in Ips!Nets, ip \notin DOMAIN t, NEW p
    PROVE  \E place, down : /\ Ips!InsertNode(TableOf(t, r), ip, p) = InsertAt(TableOf(t, r), ip, p, place, down)
                            /\ Placement(t, r, ip, place, down)
<1> DEFINE at == Ips!Walk(t, r, ip)
           V == Seen(ip, at)
           K == Ips!Max(V)
           m == at[K]
           place == IF V = {} THEN Ips!AtRoot ELSE Ips!Under(m, ip)
           down == IF V = {} THEN r ELSE t[m].child[place.bit]
<1>0. Width \in Nat /\ DOMAIN t \subseteq Ips!Nets /\ Ips!Nil \notin DOMAIN t
  BY NetsAre, TrieAssumption DEF Linked, Nodes
<1>1. IsWalk(t, r, ip, at)
  BY WalkIs
<1>2. Ips!InsertNode(TableOf(t, r), ip, p) = InsertAt(TableOf(t, r), ip, p, place, down)
  <2>1. TableOf(t, r).trie = t /\ TableOf(t, r).root = r
    BY DEF TableOf
  <2>2. Ips!Visits(t, r, ip) = V
    BY VisitsAre
  <2> QED BY <2>1, <2>2 DEF Ips!InsertNode, InsertAt
<1> HIDE DEF at
<1>3. /\ \A k \in 0 .. Width : at[k] \in DOMAIN t \cup {Ips!Nil}
      /\ at[0] = r
      /\ \A k \in 1 .. Width : at[k] = StepFrom(t, ip, at[k - 1])
  BY <1>1 DEF IsWalk
<1>4. ASSUME NEW x \in DOMAIN t, Begins(x, ip) PROVE \E k \in V : at[k] = x
  <2>1. PICK k \in 0 .. Width : at[k] = x
    BY <1>0, <1>1, <1>4, WalkMeets
  <2> QED BY <1>0, <1>4, <2>1 DEF Seen
<1>5. V \in SUBSET (0 .. Width) /\ \A k \in V : at[k] \in DOMAIN t /\ Begins(at[k], ip)
  BY <1>3 DEF Seen
<1>6. \A k \in 0 .. Width : k \notin V => at[k] = Ips!Nil \/ ~Begins(at[k], ip)
  BY DEF Seen
<1> HIDE DEF V
<1>7. CASE V = {}
  <2>1. place = Ips!AtRoot /\ down = r
    BY <1>7
  <2>2. r = Ips!Nil \/ ~Begins(r, ip)
    BY <1>0, <1>3, <1>6, <1>7
  <2>3. \A x \in DOMAIN t : ~Begins(x, ip)
    BY <1>4, <1>7
  <2> HIDE DEF place, down
  <2>4. Placement(t, r, ip, place, down)
    BY <2>1, <2>2, <2>3 DEF Placement, PlaceIn, AtPlace
  <2> QED BY <1>2, <2>4
<1>8. CASE V # {}
  <2>1. K \in V /\ \A k \in V : k <= K
    BY <1>0, <1>5, <1>8, TopIs
  <2> HIDE DEF K
  <2>2. K \in 0 .. Width /\ m \in DOMAIN t /\ Begins(m, ip) /\ m # ip /\ m \in Ips!Nets /\ m # Ips!Nil
    BY <1>0, <1>5, <2>1
  <2> DEFINE b == ip[Len(m) + 1]
  <2>3. Len(m) < Len(ip) /\ b \in Ips!Bit /\ Beneath(m, b, ip)
    <3> HIDE DEF m
    <3> QED BY <2>2, GoesOn
  <2>4. place = [node |-> m, bit |-> b] /\ place.node = m /\ place.bit = b /\ down = t[m].child[b]
    BY <1>8 DEF Ips!Under, Ips!choose
  <2>5. place \in Slots /\ place # Ips!AtRoot
    BY <2>2, <2>3, <2>4, RootIsNoSlot
  <2>6. Len(at[K]) >= K
    BY <1>1, <2>2, WalkGoesDown
  <2>7. Len(m) \in Nat /\ Len(ip) \in 0 .. Width
    BY <2>2, NetsAre
  <2>8. K + 1 \in 1 .. Width /\ (K + 1) - 1 = K /\ K + 1 \in 0 .. Width /\ K + 1 \notin V
    BY <1>0, <2>1, <2>2, <2>3, <2>6, <2>7
  <2>9. at[K + 1] = StepFrom(t, ip, m)
    BY <1>3, <2>8
  <2>10. StepFrom(t, ip, m) = t[m].child[b]
    BY <2>2 DEF StepFrom
  <2>11. down = Ips!Nil \/ ~Begins(down, ip)
    BY <1>6, <2>4, <2>8, <2>9, <2>10
  <2>12. ASSUME NEW x \in DOMAIN t, Begins(x, ip) PROVE Len(x) <= Len(m)
    <3>1. PICK k \in V : at[k] = x
      BY <1>4, <2>12
    <3>2. k \in 0 .. Width /\ k <= K
      BY <1>5, <2>1
    <3>3. CASE k = K
      BY <2>7, <3>1, <3>3
    <3>4. CASE k < K
      <4>1. Len(at[k]) < Len(at[K])
        BY <1>1, <2>2, <3>2, <3>4, WalkGoesDown
      <4>2. Len(x) \in Nat
        BY <1>0, NetsAre
      <4> QED BY <2>7, <3>1, <4>1, <4>2
    <3> QED BY <1>0, <2>2, <3>2, <3>3, <3>4
  <2> HIDE DEF place, down, m, b
  <2>13. PlaceIn(t, place) /\ down = AtPlace(t, r, place)
    BY <2>2, <2>4, <2>5 DEF PlaceIn, AtPlace
  <2>14. Placement(t, r, ip, place, down)
    BY <2>3, <2>4, <2>5, <2>11, <2>12, <2>13 DEF Placement
  <2> QED BY <1>2, <2>14
<1> QED BY <1>7, <1>8

\* A node without an owner has two children.
Forks(t) == \A n \in DOMAIN t : t[n].owner = NoOwner => \A b \in Ips!Bit : t[n].child[b] # Ips!Nil

\* u has the nodes of t, ip with the owner p, and others that nobody owns.
HasAdded(t, u, ip, p) ==
    /\ ip \in DOMAIN u /\ u[ip].owner = p
    /\ \A x \in DOMAIN t : x \in DOMAIN u /\ u[x].owner = t[x].owner
    /\ \A x \in DOMAIN u : x \in DOMAIN t \/ x = ip \/ u[x].owner = NoOwner

\* One new node, which has an owner.
LEMMA AddsOne ==
    ASSUME NEW t, NEW u, Nodes(t), Forks(t), NEW place, NEW ip \in Ips!Nets, ip \notin DOMAIN t, NEW p, p # NoOwner, NEW down,
           IsInterposed(t, u, place, ip, p, down)
    PROVE  HasAdded(t, u, ip, p) /\ Forks(u)
<1>0. ip # Ips!Nil
  BY NetsAre
<1>1. /\ DOMAIN u = DOMAIN t \cup {ip} /\ u[ip].owner = p
      /\ \A x \in DOMAIN t :
            /\ u[x].owner = t[x].owner
            /\ \A b \in Ips!Bit : u[x].child[b] = (IF place = [node |-> x, bit |-> b] THEN ip ELSE t[x].child[b])
  BY DEF IsInterposed
<1>2. HasAdded(t, u, ip, p)
  BY <1>1 DEF HasAdded
<1>3. Forks(u)
  <2> SUFFICES ASSUME NEW n \in DOMAIN u, u[n].owner = NoOwner, NEW b \in Ips!Bit PROVE u[n].child[b] # Ips!Nil
    BY DEF Forks
  <2>1. n \in DOMAIN t /\ t[n].owner = NoOwner
    BY <1>1
  <2>2. t[n].child[b] # Ips!Nil
    BY <2>1 DEF Forks
  <2> QED BY <1>0, <1>1, <2>1, <2>2
<1> QED BY <1>2, <1>3

\* insert keeps the trie linked and forked and adds ip.
LEMMA InsertNodeIs ==
    ASSUME NEW t, NEW r, Linked(t, r), Forks(t), NEW ip \in Ips!Nets, ip \notin DOMAIN t, NEW p \in Owners
    PROVE  \E u, q : /\ Ips!InsertNode(TableOf(t, r), ip, p) = TableOf(u, q)
                     /\ Linked(u, q) /\ Forks(u) /\ HasAdded(t, u, ip, p)
<1>0. /\ Nodes(t) /\ DOMAIN t \subseteq Ips!Nets /\ Ips!Nil \notin DOMAIN t /\ Ips!Nil \notin Ips!Nets
      /\ p # NoOwner /\ p \in Owners \cup {NoOwner} /\ NoOwner \in Owners \cup {NoOwner}
  BY NetsAre, TrieAssumption DEF Linked, Nodes
<1>1. PICK place, down : /\ Ips!InsertNode(TableOf(t, r), ip, p) = InsertAt(TableOf(t, r), ip, p, place, down)
                         /\ Placement(t, r, ip, place, down)
  BY PlacementIs
<1>2. /\ PlaceIn(t, place) /\ down = AtPlace(t, r, place)
      /\ down # Ips!Nil => ~Begins(down, ip)
      /\ place # Ips!AtRoot => Beneath(place.node, place.bit, ip)
      /\ \A x \in DOMAIN t : Begins(x, ip) => place # Ips!AtRoot /\ Len(x) <= Len(place.node)
  BY <1>1 DEF Placement
<1> DEFINE g == SubSeq(ip, 1, Ips!Split(down, ip))
<1>3. ASSUME down = Ips!Nil \/ g = ip, down = Ips!Nil \/ Begins(ip, down)
      PROVE  \E u, q : /\ Ips!InsertNode(TableOf(t, r), ip, p) = TableOf(u, q)
                       /\ Linked(u, q) /\ Forks(u) /\ HasAdded(t, u, ip, p)
  <2>1. InsertAt(TableOf(t, r), ip, p, place, down) = Ips!Interpose(TableOf(t, r), place, ip, p, down)
    BY <1>3 DEF InsertAt
  <2>2. FitsAt(t, place, ip, down)
    BY <1>2, <1>3 DEF FitsAt
  <2>3. PICK u, q : /\ Ips!Interpose(TableOf(t, r), place, ip, p, down) = TableOf(u, q)
                    /\ IsInterposed(t, u, place, ip, p, down) /\ Linked(u, q)
    BY <1>0, <1>2, <2>2, InterposeLinked
  <2>4. HasAdded(t, u, ip, p) /\ Forks(u)
    BY <1>0, <2>3, AddsOne
  <2> QED BY <1>1, <2>1, <2>3, <2>4
<1>4. CASE down = Ips!Nil
  BY <1>3, <1>4
<1>5. CASE down # Ips!Nil
  <2>1. down \in DOMAIN t /\ (place # Ips!AtRoot => Beneath(place.node, place.bit, down))
    <3>1. CASE place = Ips!AtRoot
      BY <1>2, <1>5, <3>1 DEF AtPlace, Linked
    <3>2. CASE place # Ips!AtRoot
      <4>1. place.node \in DOMAIN t /\ place.bit \in Ips!Bit /\ down = t[place.node].child[place.bit]
        BY <1>2, <3>2 DEF PlaceIn, Slots, AtPlace
      <4> QED BY <1>5, <4>1, ChildIs
    <3> QED BY <3>1, <3>2
  <2>2. /\ g \in Ips!Nets /\ Begins(g, ip) /\ Begins(g, down) /\ g # down
        /\ g # ip => down[Len(g) + 1] # ip[Len(g) + 1]
        /\ \A a \in Ips!Nets, v \in Ips!Bit : Beneath(a, v, ip) /\ Beneath(a, v, down) => Beneath(a, v, g)
    <3>1. down \in Ips!Nets /\ ~Begins(down, ip)
      BY <1>0, <1>2, <1>5, <2>1
    <3> QED BY <3>1, SplitIs
  <2>3. CASE g = ip
    BY <1>3, <2>2, <2>3
  <2>4. CASE g # ip
    <3>1. InsertAt(TableOf(t, r), ip, p, place, down) =
             Ips!Interpose(Ips!Interpose(TableOf(t, r), place, g, NoOwner, down), Ips!Under(g, ip), ip, p, Ips!Nil)
      BY <1>5, <2>4 DEF InsertAt
    <3> HIDE DEF g
    <3>2. place # Ips!AtRoot => Beneath(place.node, place.bit, g)
      <4> SUFFICES ASSUME place # Ips!AtRoot PROVE Beneath(place.node, place.bit, g)
        OBVIOUS
      <4>1. place.node \in Ips!Nets /\ place.bit \in Ips!Bit
        BY <1>0, <1>2 DEF PlaceIn, Slots
      <4> QED BY <1>2, <2>1, <2>2, <4>1
    <3>3. g \notin DOMAIN t
      <4> SUFFICES ASSUME g \in DOMAIN t PROVE FALSE
        OBVIOUS
      <4>1. place # Ips!AtRoot /\ Len(g) <= Len(place.node)
        BY <1>2, <2>2
      <4>2. Len(place.node) < Len(g)
        BY <3>2, <4>1 DEF Beneath
      <4>3. place.node \in Ips!Nets
        BY <1>0, <1>2, <4>1 DEF PlaceIn
      <4>4. Len(g) \in Nat /\ Len(place.node) \in Nat
        BY <2>2, <4>3, NetsAre
      <4> QED BY <4>1, <4>2, <4>4
    <3>4. FitsAt(t, place, g, down)
      BY <2>2, <3>2 DEF FitsAt
    <3>5. PICK u, q : /\ Ips!Interpose(TableOf(t, r), place, g, NoOwner, down) = TableOf(u, q)
                      /\ IsInterposed(t, u, place, g, NoOwner, down) /\ Linked(u, q)
      BY <1>0, <1>2, <2>2, <3>3, <3>4, InterposeLinked
    <3>6. /\ Nodes(u) /\ DOMAIN u = DOMAIN t \cup {g} /\ u[g].owner = NoOwner
          /\ \A b \in Ips!Bit : u[g].child[b] = (IF b = down[Len(g) + 1] THEN down ELSE Ips!Nil)
          /\ \A x \in DOMAIN t :
                /\ u[x].owner = t[x].owner
                /\ \A b \in Ips!Bit : u[x].child[b] = (IF place = [node |-> x, bit |-> b] THEN g ELSE t[x].child[b])
      BY <1>5, <3>5 DEF IsInterposed
    <3> DEFINE v == ip[Len(g) + 1]
               w == down[Len(g) + 1]
               s == Ips!Under(g, ip)
    <3>7. v \in Ips!Bit /\ w \in Ips!Bit /\ v # w /\ Beneath(g, v, ip)
      <4>1. down \in Ips!Nets
        BY <1>0, <2>1
      <4>2. v \in Ips!Bit /\ Beneath(g, v, ip)
        BY <2>2, <2>4, GoesOn
      <4>3. w \in Ips!Bit
        BY <2>2, <4>1, GoesOn
      <4> QED BY <2>2, <2>4, <4>2, <4>3
    <3>8. s = [node |-> g, bit |-> v] /\ s.node = g /\ s.bit = v
      BY DEF Ips!Under, Ips!choose
    <3> HIDE DEF v, w, s
    <3>9. s \in Slots /\ s # Ips!AtRoot
      BY <2>2, <3>7, <3>8, RootIsNoSlot
    <3>10. PlaceIn(u, s)
      BY <3>6, <3>8, <3>9 DEF PlaceIn
    <3>11. AtPlace(u, q, s) = Ips!Nil
      BY <3>6, <3>7, <3>8, <3>9 DEF AtPlace, w
    <3>12. FitsAt(u, s, ip, Ips!Nil)
      BY <3>7, <3>8 DEF FitsAt
    <3>13. ip \notin DOMAIN u
      BY <2>4, <3>6
    <3>14. PICK u2, q2 : /\ Ips!Interpose(TableOf(u, q), s, ip, p, Ips!Nil) = TableOf(u2, q2)
                         /\ IsInterposed(u, u2, s, ip, p, Ips!Nil) /\ Linked(u2, q2)
      BY <1>0, <3>5, <3>10, <3>11, <3>12, <3>13, InterposeLinked
    <3>15. /\ DOMAIN u2 = DOMAIN u \cup {ip} /\ u2[ip].owner = p
           /\ \A x \in DOMAIN u :
                /\ u2[x].owner = u[x].owner
                /\ \A b \in Ips!Bit : u2[x].child[b] = (IF s = [node |-> x, bit |-> b] THEN ip ELSE u[x].child[b])
      BY <3>14 DEF IsInterposed
    <3>16. HasAdded(t, u2, ip, p)
      BY <3>6, <3>15 DEF HasAdded
    <3>17. Forks(u2)
      <4> SUFFICES ASSUME NEW n \in DOMAIN u2, u2[n].owner = NoOwner, NEW b \in Ips!Bit PROVE u2[n].child[b] # Ips!Nil
        BY DEF Forks
      <4>0. ip # Ips!Nil /\ g # Ips!Nil
        BY <1>0, <2>2
      <4>1. n \in DOMAIN u /\ u[n].owner = NoOwner
        BY <1>0, <3>15
      <4>2. CASE n = g
        <5>1. b = v \/ b = w
          BY <3>7 DEF Ips!Bit
        <5>2. CASE b = v
          BY <3>8, <3>15, <4>0, <4>1, <4>2, <5>2
        <5>3. CASE b = w /\ b # v
          <6>1. s # [node |-> g, bit |-> b]
            BY <3>8, <5>3, SlotsDiffer
          <6>2. u2[g].child[b] = u[g].child[b]
            BY <3>15, <4>1, <4>2, <6>1
          <6> QED BY <1>5, <3>6, <4>2, <5>3, <6>2 DEF w
        <5> QED BY <5>1, <5>2, <5>3
      <4>3. CASE n # g
        <5>1. n \in DOMAIN t /\ t[n].owner = NoOwner
          BY <3>6, <4>1, <4>3
        <5>2. t[n].child[b] # Ips!Nil
          BY <5>1 DEF Forks
        <5>3. u[n].child[b] # Ips!Nil
          BY <3>6, <4>0, <5>1, <5>2
        <5> QED BY <3>15, <4>0, <4>1, <5>3
      <4> QED BY <4>2, <4>3
    <3> QED BY <1>1, <3>1, <3>5, <3>14, <3>16, <3>17 DEF s
  <2> QED BY <2>3, <2>4
<1> QED BY <1>4, <1>5

\* u is t with another owner of n.
ChangesHands(t, u, n, p) ==
    /\ DOMAIN u = DOMAIN t
    /\ \A x \in DOMAIN t : u[x].child = t[x].child /\ u[x].parent = t[x].parent
    /\ \A x \in DOMAIN t : u[x].owner = (IF x = n THEN p ELSE t[x].owner)

LEMMA OwnerChanges ==
    ASSUME NEW t, NEW r, Linked(t, r), NEW n \in DOMAIN t, NEW p \in Owners \cup {NoOwner},
           NEW u, u = [t EXCEPT ![n].owner = p]
    PROVE  Linked(u, r) /\ ChangesHands(t, u, n, p)
<1>0. Nodes(t) /\ DOMAIN t \subseteq Ips!Nets /\ t \in [DOMAIN t -> NodeSet]
  BY DEF Linked, Nodes
<1>1. \A x \in DOMAIN t : /\ t[x] = [owner |-> t[x].owner, child |-> t[x].child, parent |-> t[x].parent]
                          /\ t[x].owner \in Owners \cup {NoOwner}
                          /\ t[x].child \in [Ips!Bit -> Ips!Nets \cup {Ips!Nil}]
                          /\ t[x].parent \in Slots \cup {Ips!AtRoot}
  BY <1>0, NodeParts
<1>2. DOMAIN u = DOMAIN t
  OBVIOUS
<1>3. ASSUME NEW x \in DOMAIN t
      PROVE  /\ u[x].child = t[x].child /\ u[x].parent = t[x].parent
             /\ u[x].owner = (IF x = n THEN p ELSE t[x].owner)
             /\ u[x] \in NodeSet
  BY <1>0, <1>1 DEF NodeSet
<1>4. Nodes(u)
  <2>1. u = [x \in DOMAIN t |-> u[x]]
    BY <1>0
  <2> QED BY <1>0, <1>2, <1>3, <2>1 DEF Nodes
<1>5. r # Ips!Nil => r \in DOMAIN u /\ u[r].parent = Ips!AtRoot
  BY <1>2, <1>3 DEF Linked
<1>6. ASSUME NEW x \in DOMAIN u, NEW b \in Ips!Bit, u[x].child[b] # Ips!Nil PROVE Child(u, x, b, u[x].child[b])
  <2>1. u[x].child = t[x].child /\ x \in DOMAIN t
    BY <1>2, <1>3
  <2>2. Child(t, x, b, t[x].child[b])
    BY <1>6, <2>1 DEF Linked
  <2> QED BY <1>2, <1>3, <2>1, <2>2 DEF Child
<1>7. ASSUME NEW x \in DOMAIN u PROVE Hangs(u, r, x)
  <2>1. Hangs(t, r, x) /\ x \in DOMAIN t
    BY <1>2 DEF Linked
  <2> QED BY <1>2, <1>3, <2>1, ZenonT(30) DEF Hangs
<1>8. Linked(u, r)
  BY <1>4, <1>5, <1>6, <1>7 DEF Linked
<1> QED BY <1>2, <1>3, <1>8 DEF ChangesHands

-----------------------------------------------------------------------------
(* Removal.                                                                *)

\* u has the nodes of t that have an owner but n, and none that t has not.
HasLost(t, u, n) ==
    /\ \A x \in DOMAIN u : x \in DOMAIN t /\ u[x].owner = (IF x = n THEN NoOwner ELSE t[x].owner)
    /\ \A x \in DOMAIN t : x # n /\ t[x].owner # NoOwner => x \in DOMAIN u

\* The child of a node that has not two.
LEMMA OnlyChildIs ==
    ASSUME NEW t, NEW r, Linked(t, r), NEW n \in DOMAIN t, Ips!Kids(t, n) # Ips!Bit
    PROVE  /\ \A b \in Ips!Bit : t[n].child[b] \in {Ips!Nil, Ips!OnlyChild(t, n)}
           /\ Ips!OnlyChild(t, n) # Ips!Nil => \E b \in Ips!Bit : t[n].child[b] = Ips!OnlyChild(t, n)
           /\ Ips!OnlyChild(t, n) \in DOMAIN t \cup {Ips!Nil}
           /\ Ips!Kids(t, n) # {} => Ips!OnlyChild(t, n) # Ips!Nil
<1> DEFINE K == Ips!Kids(t, n)
           c == Ips!OnlyChild(t, n)
<1>1. CASE K = {}
  BY <1>1 DEF Ips!Kids, Ips!OnlyChild
<1>2. CASE K # {}
  <2>1. PICK v \in K : v = CHOOSE b \in K : TRUE
    BY <1>2
  <2>2. c = t[n].child[v] /\ v \in Ips!Bit /\ t[n].child[v] # Ips!Nil
    BY <1>2, <2>1 DEF Ips!OnlyChild, Ips!Kids
  <2>3. \A b \in Ips!Bit : b # v => b \notin K
    <3> SUFFICES ASSUME NEW b \in Ips!Bit, b # v, b \in K PROVE FALSE
      OBVIOUS
    <3>1. \A x \in Ips!Bit : x = b \/ x = v
      BY <2>2 DEF Ips!Bit
    <3>2. K = Ips!Bit
      BY <2>1, <3>1 DEF Ips!Kids
    <3> QED BY <3>2
  <2>4. \A b \in Ips!Bit : b # v => t[n].child[b] = Ips!Nil
    BY <2>3 DEF Ips!Kids
  <2>5. t[n].child[v] \in DOMAIN t
    BY <2>2, ChildIs
  <2> QED BY <2>2, <2>4, <2>5
<1> QED BY <1>1, <1>2

\* Giving a place to a child leaves every fork a fork; giving it to none, every fork
\* but the one above.
LEMMA SpliceForks ==
    ASSUME NEW t, NEW r, Linked(t, r), NEW n \in DOMAIN t, NEW c \in DOMAIN t \cup {Ips!Nil}, NEW x \in DOMAIN t \ {n},
           \A b \in Ips!Bit : t[x].child[b] # Ips!Nil,
           c # Ips!Nil \/ \A b \in Ips!Bit : t[n].parent # [node |-> x, bit |-> b]
    PROVE  \A b \in Ips!Bit : SplicedTrie(t, n, c)[x].child[b] # Ips!Nil
<1>1. \A b \in Ips!Bit : SplicedTrie(t, n, c)[x].child[b] =
         (IF t[n].parent = [node |-> x, bit |-> b] THEN c ELSE t[x].child[b])
  <2>1. IsSpliced(t, SplicedTrie(t, n, c), n, c)
    BY SpliceIs
  <2> QED BY <2>1 DEF IsSpliced
<1> QED BY <1>1

LEMMA RemoveNodeIs ==
    ASSUME NEW t, NEW r, Linked(t, r), Forks(t), NEW n \in DOMAIN t, t[n].owner # NoOwner
    PROVE  \E u, q : /\ Ips!RemoveNode(TableOf(t, r), n) = TableOf(u, q)
                     /\ Linked(u, q) /\ Forks(u) /\ HasLost(t, u, n)
<1> DEFINE s == [t EXCEPT ![n].owner = NoOwner]
           place == t[n].parent
           c == Ips!OnlyChild(t, n)
           u == SplicedTrie(s, n, c)
           q == SplicedRoot(s, r, n, c)
           m == place.node
           v == place.bit
           d == u[m].child[1 - v]
<1>0. DOMAIN t \subseteq Ips!Nets /\ Ips!Nil \notin DOMAIN t
  BY NetsAre DEF Linked, Nodes
<1>1. /\ Linked(s, r) /\ DOMAIN s = DOMAIN t
      /\ \A x \in DOMAIN t : s[x].child = t[x].child /\ s[x].parent = t[x].parent
      /\ \A x \in DOMAIN t : s[x].owner = (IF x = n THEN NoOwner ELSE t[x].owner)
  <2>1. NoOwner \in Owners \cup {NoOwner}
    OBVIOUS
  <2>2. Linked(s, r) /\ ChangesHands(t, s, n, NoOwner)
    BY <2>1, OwnerChanges
  <2> QED BY <2>2 DEF ChangesHands
<1>2. [TableOf(t, r) EXCEPT !.trie[n].owner = NoOwner] = TableOf(s, r) /\ TableOf(t, r).trie = t
  BY DEF TableOf
<1>3. Ips!RemoveNode(TableOf(t, r), n) =
         IF Ips!Kids(t, n) = Ips!Bit THEN TableOf(s, r)
         ELSE LET spliced == Ips!Splice(TableOf(s, r), n, c)
              IN IF Ips!Kids(t, n) # {} \/ place = Ips!AtRoot \/ spliced.trie[m].owner # NoOwner THEN spliced
                 ELSE Ips!Splice(spliced, m, spliced.trie[m].child[1 - v])
  BY <1>2 DEF Ips!RemoveNode
<1> HIDE DEF s
<1>4. CASE Ips!Kids(t, n) = Ips!Bit
  <2>1. Forks(s)
    <3> SUFFICES ASSUME NEW x \in DOMAIN s, s[x].owner = NoOwner, NEW b \in Ips!Bit PROVE s[x].child[b] # Ips!Nil
      BY DEF Forks
    <3>1. x = n \/ (x \in DOMAIN t /\ t[x].owner = NoOwner)
      BY <1>1
    <3>2. t[x].child[b] # Ips!Nil
      BY <1>4, <3>1 DEF Ips!Kids, Forks
    <3> QED BY <1>1, <3>2
  <2>2. HasLost(t, s, n)
    BY <1>1 DEF HasLost
  <2> QED BY <1>1, <1>3, <1>4, <2>1, <2>2
<1>5. CASE Ips!Kids(t, n) # Ips!Bit
  <2>1. /\ \A b \in Ips!Bit : t[n].child[b] \in {Ips!Nil, c}
        /\ c # Ips!Nil => \E b \in Ips!Bit : t[n].child[b] = c
        /\ c \in DOMAIN t \cup {Ips!Nil}
        /\ Ips!Kids(t, n) # {} => c # Ips!Nil
    BY <1>5, OnlyChildIs
  <2> HIDE DEF c
  <2>2. /\ \A b \in Ips!Bit : s[n].child[b] \in {Ips!Nil, c}
        /\ c # Ips!Nil => \E b \in Ips!Bit : s[n].child[b] = c
        /\ c \in DOMAIN s \cup {Ips!Nil} /\ n \in DOMAIN s
    BY <1>1, <2>1
  <2>3. Ips!Splice(TableOf(s, r), n, c) = TableOf(u, q) /\ Linked(u, q)
    BY <1>1, <2>2, SpliceLinked
  <2>4. DOMAIN u = DOMAIN t \ {n} /\ \A x \in DOMAIN u : u[x].owner = t[x].owner
    <3>1. DOMAIN u = DOMAIN s \ {n} /\ \A x \in DOMAIN s \ {n} : u[x].owner = s[x].owner
      <4>1. IsSpliced(s, u, n, c)
        BY <1>1, <2>2, SpliceIs
      <4> QED BY <4>1 DEF IsSpliced
    <3> QED BY <1>1, <3>1
  <2>5. ASSUME NEW x \in DOMAIN t \ {n}, t[x].owner = NoOwner,
               c # Ips!Nil \/ \A b \in Ips!Bit : place # [node |-> x, bit |-> b]
        PROVE  \A b \in Ips!Bit : u[x].child[b] # Ips!Nil
    <3>1. \A b \in Ips!Bit : s[x].child[b] # Ips!Nil
      BY <1>1, <2>5 DEF Forks
    <3>2. x \in DOMAIN s \ {n} /\ s[n].parent = place
      BY <1>1
    <3>3. c # Ips!Nil \/ \A b \in Ips!Bit : s[n].parent # [node |-> x, bit |-> b]
      BY <2>5, <3>2
    <3> QED BY <1>1, <2>2, <3>1, <3>2, <3>3, SpliceForks
  <2>6. HasLost(t, u, n)
    BY <2>4 DEF HasLost
  <2>7. TableOf(u, q).trie = u
    BY DEF TableOf
  <2>8. InPlace(t, r, n)
    BY PlaceIs
  <2> HIDE DEF u, q
  <2>9. CASE Ips!Kids(t, n) # {} \/ place = Ips!AtRoot \/ u[m].owner # NoOwner
    <3>1. Ips!RemoveNode(TableOf(t, r), n) = TableOf(u, q)
      BY <1>3, <1>5, <2>3, <2>7, <2>9
    <3>2. Forks(u)
      <4> SUFFICES ASSUME NEW x \in DOMAIN u, u[x].owner = NoOwner PROVE \A b \in Ips!Bit : u[x].child[b] # Ips!Nil
        BY DEF Forks
      <4>1. x \in DOMAIN t \ {n} /\ t[x].owner = NoOwner
        BY <2>4
      <4>2. ASSUME c = Ips!Nil, NEW b \in Ips!Bit, place = [node |-> x, bit |-> b] PROVE FALSE
        <5>1. Ips!Kids(t, n) = {}
          BY <2>1, <4>2
        <5>2. place # Ips!AtRoot /\ m = x
          BY <1>0, <4>1, <4>2, SlotsDiffer
        <5> QED BY <2>9, <5>1, <5>2
      <4> QED BY <2>5, <4>1, <4>2
    <3> QED BY <2>3, <2>6, <3>1, <3>2
  <2>10. CASE Ips!Kids(t, n) = {} /\ place # Ips!AtRoot /\ u[m].owner = NoOwner
    <3>1. Ips!RemoveNode(TableOf(t, r), n) = Ips!Splice(TableOf(u, q), m, d)
      BY <1>3, <1>5, <2>3, <2>7, <2>10
    <3>2. m \in DOMAIN u /\ v \in Ips!Bit /\ place = [node |-> m, bit |-> v] /\ m \in DOMAIN t /\ m # n
      BY <2>4, <2>8, <2>10 DEF InPlace
    <3>3. c = Ips!Nil
      BY <2>10 DEF c, Ips!OnlyChild
    <3>4. 1 - v \in Ips!Bit /\ 1 - v # v /\ \A b \in Ips!Bit : b = v \/ b = 1 - v
      BY <3>2 DEF Ips!Bit
    <3>5. t[m].owner = NoOwner
      BY <2>4, <2>10, <3>2
    <3>6. \A b \in Ips!Bit : u[m].child[b] = (IF place = [node |-> m, bit |-> b] THEN c ELSE t[m].child[b])
      <4>1. \A b \in Ips!Bit : u[m].child[b] = (IF s[n].parent = [node |-> m, bit |-> b] THEN c ELSE s[m].child[b])
        <5>1. m \in DOMAIN s \ {n}
          BY <1>1, <3>2
        <5>2. IsSpliced(s, u, n, c)
          BY <1>1, <2>2, SpliceIs DEF u
        <5> QED BY <5>1, <5>2 DEF IsSpliced
      <4> QED BY <1>1, <3>2, <4>1
    <3>7. u[m].child[v] = Ips!Nil
      BY <3>2, <3>3, <3>6
    <3>8. d = t[m].child[1 - v] /\ d # Ips!Nil
      <4>1. place # [node |-> m, bit |-> 1 - v]
        BY <3>2, <3>4, SlotsDiffer
      <4>2. t[m].child[1 - v] # Ips!Nil
        BY <3>2, <3>4, <3>5 DEF Forks
      <4> QED BY <3>4, <3>6, <4>1, <4>2
    <3>9. /\ \A b \in Ips!Bit : u[m].child[b] \in {Ips!Nil, d}
          /\ \E b \in Ips!Bit : u[m].child[b] = d
      BY <3>4, <3>7
    <3>10. d \in DOMAIN u
      BY <2>3, <3>2, <3>4, <3>8, ChildIs
    <3> HIDE DEF d, m, v
    <3> DEFINE u2 == SplicedTrie(u, m, d)
               q2 == SplicedRoot(u, q, m, d)
    <3>11. Ips!Splice(TableOf(u, q), m, d) = TableOf(u2, q2) /\ Linked(u2, q2)
      BY <2>3, <3>2, <3>9, SpliceLinked
    <3>12. DOMAIN u2 = DOMAIN u \ {m} /\ \A x \in DOMAIN u \ {m} : u2[x].owner = u[x].owner
      <4>1. d \in DOMAIN u \cup {Ips!Nil}
        BY <3>10
      <4>2. IsSpliced(u, u2, m, d)
        BY <2>3, <3>2, <4>1, SpliceIs
      <4> QED BY <4>2 DEF IsSpliced
    <3>13. ASSUME NEW x \in DOMAIN u \ {m}, \A b \in Ips!Bit : u[x].child[b] # Ips!Nil
           PROVE  \A b \in Ips!Bit : u2[x].child[b] # Ips!Nil
      <4>1. d \in DOMAIN u \cup {Ips!Nil} /\ m \in DOMAIN u
        BY <3>2, <3>10
      <4> QED BY <2>3, <3>8, <3>13, <4>1, SpliceForks
    <3> HIDE DEF u2, q2
    <3>14. Forks(u2)
      <4> SUFFICES ASSUME NEW x \in DOMAIN u2, u2[x].owner = NoOwner PROVE \A b \in Ips!Bit : u2[x].child[b] # Ips!Nil
        BY DEF Forks
      <4>1. x \in DOMAIN u \ {m} /\ x \in DOMAIN t \ {n} /\ t[x].owner = NoOwner
        BY <2>4, <3>12
      <4>2. \A b \in Ips!Bit : place # [node |-> x, bit |-> b]
        BY <3>2, <4>1, SlotsDiffer
      <4>3. \A b \in Ips!Bit : u[x].child[b] # Ips!Nil
        BY <2>5, <4>1, <4>2
      <4> QED BY <3>13, <4>1, <4>3
    <3>15. HasLost(t, u2, n)
      BY <2>4, <3>5, <3>12 DEF HasLost
    <3> QED BY <3>1, <3>11, <3>14, <3>15
  <2> QED BY <2>9, <2>10
<1> QED BY <1>4, <1>5

\* u has the nodes of t that have an owner but those of X, and none that t has not.
HasLostAll(t, u, X) ==
    /\ \A x \in DOMAIN u : x \in DOMAIN t /\ u[x].owner = (IF x \in X THEN NoOwner ELSE t[x].owner)
    /\ \A x \in DOMAIN t : x \notin X /\ t[x].owner # NoOwner => x \in DOMAIN u

\* The tables that can be left of t.
Tables(t) ==
    {a \in [trie : UNION {[D -> NodeSet] : D \in SUBSET DOMAIN t}, root : Ips!Nets \cup {Ips!Nil}] :
        Linked(a.trie, a.root) /\ Forks(a.trie)}

LEMMA TableIn ==
    ASSUME NEW t, NEW u, NEW q, Linked(u, q), Forks(u), DOMAIN u \subseteq DOMAIN t
    PROVE  TableOf(u, q) \in Tables(t) /\ TableOf(u, q).trie = u
<1> DEFINE a == TableOf(u, q)
<1>1. a = [trie |-> u, root |-> q] /\ a.trie = u /\ a.root = q
  BY DEF TableOf
<1>2. u \in [DOMAIN u -> NodeSet] /\ DOMAIN u \subseteq Ips!Nets
  BY DEF Linked, Nodes
<1>3. u \in UNION {[D -> NodeSet] : D \in SUBSET DOMAIN t}
  BY <1>2
<1>4. q \in Ips!Nets \cup {Ips!Nil}
  BY <1>2 DEF Linked
<1> HIDE DEF a
<1>5. a \in [trie : UNION {[D -> NodeSet] : D \in SUBSET DOMAIN t}, root : Ips!Nets \cup {Ips!Nil}]
  BY <1>1, <1>3, <1>4
<1>6. a \in Tables(t)
  BY <1>1, <1>5 DEF Tables
<1> QED BY <1>1, <1>6 DEF a

LEMMA TableParts ==
    ASSUME NEW t, NEW a \in Tables(t)
    PROVE  /\ a = TableOf(a.trie, a.root) /\ Linked(a.trie, a.root) /\ Forks(a.trie)
           /\ DOMAIN a.trie \subseteq DOMAIN t
<1>1. a \in [trie : UNION {[D -> NodeSet] : D \in SUBSET DOMAIN t}, root : Ips!Nets \cup {Ips!Nil}]
  BY DEF Tables
<1>2. Linked(a.trie, a.root) /\ Forks(a.trie)
  BY DEF Tables
<1>3. a = [trie |-> a.trie, root |-> a.root] /\ a.trie \in UNION {[D -> NodeSet] : D \in SUBSET DOMAIN t}
  BY <1>1
<1>4. PICK D \in SUBSET DOMAIN t : a.trie \in [D -> NodeSet]
  BY <1>3
<1> QED BY <1>2, <1>3, <1>4 DEF TableOf

\* One more is removed.
LEMMA RemoveOneMore ==
    ASSUME NEW t, NEW a \in Tables(t), NEW X, HasLostAll(t, a.trie, X),
           NEW n \in DOMAIN t, n \notin X, t[n].owner # NoOwner
    PROVE  /\ Ips!RemoveNode(a, n) \in Tables(t)
           /\ HasLostAll(t, Ips!RemoveNode(a, n).trie, X \cup {n})
<1>1. /\ a = TableOf(a.trie, a.root) /\ Linked(a.trie, a.root) /\ Forks(a.trie)
      /\ DOMAIN a.trie \subseteq DOMAIN t
  BY TableParts
<1> DEFINE s == a.trie  r == a.root
<1>2. n \in DOMAIN s /\ s[n].owner # NoOwner
  BY DEF HasLostAll
<1>3. PICK u, q : /\ Ips!RemoveNode(TableOf(s, r), n) = TableOf(u, q)
                  /\ Linked(u, q) /\ Forks(u) /\ HasLost(s, u, n)
  <2> HIDE DEF s, r
  <2>1. Linked(s, r) /\ Forks(s)
    BY <1>1 DEF s, r
  <2> QED BY <1>2, <2>1, RemoveNodeIs
<1>4. Ips!RemoveNode(a, n) = TableOf(u, q)
  BY <1>1, <1>3
<1>5. DOMAIN u \subseteq DOMAIN t
  BY <1>1, <1>3 DEF HasLost
<1>6. TableOf(u, q) \in Tables(t) /\ TableOf(u, q).trie = u
  BY <1>3, <1>5, TableIn
<1>7. HasLostAll(t, u, X \cup {n})
  BY <1>1, <1>3 DEF HasLost, HasLostAll
<1> QED BY <1>4, <1>6, <1>7

\* What a list has at some of its places.
Listed(e, s) == {e[i] : i \in s}

RemoveEach(tb, e) == Ips!FoldLeft(Ips!RemoveNode, tb, e)

\* A list of nodes, each once, is removed one by one.
LEMMA RemoveAllIs ==
    ASSUME NEW t, NEW r, Linked(t, r), Forks(t), NEW W, NEW e \in Seq(W),
           \A i \in DOMAIN e : e[i] \in DOMAIN t /\ t[e[i]].owner # NoOwner,
           \A i, j \in DOMAIN e : e[i] = e[j] => i = j
    PROVE  \E u, q : /\ RemoveEach(TableOf(t, r), e) = TableOf(u, q)
                     /\ Linked(u, q) /\ Forks(u) /\ HasLostAll(t, u, Listed(e, DOMAIN e))
<1> DEFINE n == Len(e)
           A == Tables(t)
           tb == TableOf(t, r)
           Removed(x) == Ips!RemoveNode(x[1], e[x[2]])
           G == [x \in A \X (1 .. n) |-> IF Removed(x) \in A THEN Removed(x) ELSE x[1]]
           F(f) == [s \in SUBSET (1 .. n) |-> IF s = {} THEN tb ELSE Ips!RemoveNode(f[s \ {Largest(s)}], e[Largest(s)])]
           iter == CHOOSE f : f = F(f)
<1>1. n \in Nat /\ DOMAIN e = 1 .. n
  OBVIOUS
<1>2. RemoveEach(TableOf(t, r), e) = iter[1 .. n]
  BY <1>1 DEF RemoveEach, Ips!FoldLeft, Ips!MapThenFoldSet, Ips!Max, Largest
<1>3. tb \in A /\ tb.trie = t /\ HasLostAll(t, t, {})
  BY TableIn DEF HasLostAll
<1>4. G \in [A \X (1 .. n) -> A]
  OBVIOUS
<1>5. \A a \in A, k \in 1 .. n : Ips!RemoveNode(a, e[k]) \in A => G[<<a, k>>] = Ips!RemoveNode(a, e[k])
  OBVIOUS
<1> HIDE DEF G, A, tb
<1>6. PICK f : IsFold(f, A, tb, G, n)
  BY <1>1, <1>3, <1>4, FoldExists
<1>7. ASSUME NEW s \in SUBSET (1 .. n), s # {}
      PROVE  Largest(s) \in s /\ Largest(s) \in 1 .. n /\ s \ {Largest(s)} \in SUBSET (1 .. n) /\ \A y \in s : y <= Largest(s)
  <2>1. s \in SUBSET (0 .. n)
    BY <1>1
  <2>2. Ips!Max(s) \in s /\ \A y \in s : y <= Ips!Max(s)
    BY <1>1, <1>7, <2>1, TopIs
  <2>3. Largest(s) = Ips!Max(s)
    BY DEF Largest, Ips!Max
  <2> QED BY <2>2, <2>3
<1>8. \A s \in SUBSET (1 .. n) : f[s] \in A
  BY <1>6 DEF IsFold
<1> DEFINE Lost(s) == HasLostAll(t, f[s].trie, Listed(e, s))
           Taken(s) == s # {} => f[s] = Ips!RemoveNode(f[s \ {Largest(s)}], e[Largest(s)])
           S == {k \in Nat : k <= n => \A s \in SUBSET (1 .. k) : Lost(s) /\ Taken(s)}
<1>9. f[{}] = tb /\ Lost({})
  <2>1. {} \in SUBSET (1 .. n)
    OBVIOUS
  <2>2. f[{}] = tb
    BY <1>6, <2>1 DEF IsFold
  <2>3. Listed(e, {}) = {}
    BY DEF Listed
  <2> QED BY <1>3, <2>2, <2>3
<1>10. 0 \in S
  <2>1. \A s \in SUBSET (1 .. 0) : s = {}
    OBVIOUS
  <2> QED BY <1>9, <2>1
<1>11. ASSUME NEW k \in S PROVE k + 1 \in S
  <2> HIDE DEF Lost, Taken
  <2> SUFFICES ASSUME k + 1 <= n, NEW s \in SUBSET (1 .. k + 1) PROVE Lost(s) /\ Taken(s)
    BY <1>11
  <2>1. k \in Nat /\ k <= n /\ \A z \in SUBSET (1 .. k) : Lost(z) /\ Taken(z)
    BY <1>1, <1>11
  <2> USE DEF Lost, Taken
  <2>2. CASE s = {}
    BY <1>9, <2>2
  <2>3. CASE s # {}
    <3> DEFINE L == Largest(s)
               z == s \ {L}
    <3>1. s \in SUBSET (1 .. n)
      BY <1>1, <2>1
    <3>2. L \in s /\ L \in 1 .. n /\ \A y \in s : y <= L
      BY <1>7, <2>3, <3>1
    <3> HIDE DEF L
    <3>3. z \in SUBSET (1 .. k) /\ z \in SUBSET (1 .. n)
      BY <2>1, <3>1, <3>2
    <3>4. Lost(z) /\ f[z] \in A
      BY <1>8, <2>1, <3>3
    <3>5. e[L] \in DOMAIN t /\ t[e[L]].owner # NoOwner
      BY <1>1, <3>2
    <3>6. e[L] \notin Listed(e, z)
      BY <1>1, <3>1, <3>2 DEF Listed
    <3> DEFINE a == f[z]
               x == e[L]
               X == Listed(e, z)
    <3>7. Ips!RemoveNode(a, x) \in Tables(t) /\ HasLostAll(t, Ips!RemoveNode(a, x).trie, X \cup {x})
      <4> HIDE DEF a, x, X
      <4>1. a \in Tables(t) /\ HasLostAll(t, a.trie, X) /\ x \in DOMAIN t /\ x \notin X /\ t[x].owner # NoOwner
        BY <3>4, <3>5, <3>6 DEF a, x, X, A
      <4> QED BY <4>1, RemoveOneMore
    <3>8. X \cup {x} = Listed(e, s)
      BY <3>2 DEF Listed
    <3>9. f[s] = G[<<f[z], L>>]
      BY <1>6, <2>3, <3>1 DEF IsFold, L
    <3>10. f[s] = Ips!RemoveNode(a, x)
      BY <1>5, <3>2, <3>4, <3>7, <3>9 DEF A
    <3> QED BY <3>7, <3>8, <3>10 DEF L
  <2> QED BY <2>2, <2>3
<1> HIDE DEF S
<1>12. S = Nat
  <2>1. S \in SUBSET Nat
    BY DEF S
  <2> QED BY <1>10, <1>11, <2>1, NatInd
<1>13. \A s \in SUBSET (1 .. n) : Lost(s) /\ Taken(s)
  <2>1. n \in S /\ n <= n
    BY <1>1, <1>12
  <2> QED BY <2>1 DEF S
<1>14. f = F(f)
  <2>1. \A s \in SUBSET (1 .. n) : f[s] = F(f)[s]
    BY <1>9, <1>13
  <2>2. f = [s \in SUBSET (1 .. n) |-> f[s]]
    BY <1>6 DEF IsFold
  <2> QED BY <2>1, <2>2
<1>15. iter = F(iter)
  BY <1>14
<1> HIDE DEF iter
<1> DEFINE T == {k \in Nat : k <= n => iter[1 .. k] = f[1 .. k]}
<1>16. 0 \in T
  <2>1. 1 .. 0 = {} /\ {} \in SUBSET (1 .. n)
    OBVIOUS
  <2>2. iter[{}] = tb
    BY <1>15, <2>1
  <2> QED BY <1>9, <2>1, <2>2
<1>17. ASSUME NEW k \in T PROVE k + 1 \in T
  <2> SUFFICES ASSUME k + 1 <= n PROVE iter[1 .. k + 1] = f[1 .. k + 1]
    BY <1>17
  <2>1. k \in Nat /\ k <= n /\ iter[1 .. k] = f[1 .. k]
    BY <1>1, <1>17
  <2>2. 1 .. k + 1 \in SUBSET (1 .. n) /\ Largest(1 .. k + 1) = k + 1 /\ (1 .. k + 1) \ {k + 1} = 1 .. k /\ 1 .. k + 1 # {}
    BY <1>1, <2>1, LargestOf
  <2>3. iter[1 .. k + 1] = Ips!RemoveNode(iter[1 .. k], e[k + 1])
    BY <1>15, <2>2
  <2>4. f[1 .. k + 1] = Ips!RemoveNode(f[1 .. k], e[k + 1])
    BY <1>13, <2>2
  <2> QED BY <2>1, <2>3, <2>4
<1> HIDE DEF T
<1>18. T = Nat
  <2>1. T \in SUBSET Nat
    BY DEF T
  <2> QED BY <1>16, <1>17, <2>1, NatInd
<1>19. iter[1 .. n] = f[1 .. n]
  <2>1. n \in T /\ n <= n
    BY <1>1, <1>18
  <2> QED BY <2>1 DEF T
<1>20. 1 .. n \in SUBSET (1 .. n)
  OBVIOUS
<1> DEFINE a == f[1 .. n]
<1>21. a \in Tables(t) /\ HasLostAll(t, a.trie, Listed(e, 1 .. n))
  BY <1>8, <1>13, <1>20 DEF A
<1> HIDE DEF a
<1>22. a = TableOf(a.trie, a.root) /\ Linked(a.trie, a.root) /\ Forks(a.trie)
  BY <1>21, TableParts
<1>23. RemoveEach(TableOf(t, r), e) = TableOf(a.trie, a.root)
  BY <1>2, <1>19, <1>22 DEF a
<1> QED BY <1>1, <1>21, <1>22, <1>23

-----------------------------------------------------------------------------
(* The peers' lists.                                                       *)

\* e lists the prefixes given to p, each once.
Lists(e, given, p) ==
    /\ \A i \in DOMAIN e : e[i] \in DOMAIN given /\ given[e[i]] = p
    /\ \A x \in DOMAIN given : given[x] = p => \E i \in DOMAIN e : e[i] = x
    /\ \A i, j \in DOMAIN e : e[i] = e[j] => i = j

AllLists(lists, given) ==
    /\ lists \in [Owners -> Seq(Ips!Nets)]
    /\ \A p \in Owners : Lists(lists[p], given, p)

\* A list without one of its elements.
LEMMA RemoveAtIs ==
    ASSUME NEW W, NEW e \in Seq(W), NEW i \in DOMAIN e, NEW f, f = Ips!RemoveAt(e, i)
    PROVE  /\ f \in Seq(W) /\ DOMAIN f = 1 .. (Len(e) - 1) /\ DOMAIN e = 1 .. Len(e) /\ Len(e) \in Nat
           /\ \A k \in DOMAIN f : f[k] = (IF k < i THEN e[k] ELSE e[k + 1])
<1> DEFINE n == Len(e)
           a == SubSeq(e, 1, i - 1)
           b == SubSeq(e, i + 1, n)
<1>1. n \in Nat /\ DOMAIN e = 1 .. n /\ i \in 1 .. n
  OBVIOUS
<1>2. a \in Seq(W) /\ Len(a) = i - 1 /\ \A k \in 1 .. i - 1 : a[k] = e[k]
  BY <1>1
<1>3. b \in Seq(W) /\ Len(b) = n - i /\ \A k \in 1 .. n - i : b[k] = e[k + i]
  <2>1. b \in Seq(W)
    BY <1>1
  <2>2. Len(b) = n - i
    BY <1>1
  <2>3. ASSUME NEW k \in 1 .. n - i PROVE b[k] = e[k + i]
    <3>1. b[k] = e[(i + 1) + k - 1]
      BY <1>1
    <3>2. (i + 1) + k - 1 = k + i
      BY <1>1
    <3> QED BY <3>1, <3>2
  <2> QED BY <2>1, <2>2, <2>3
<1>4. f = a \o b
  BY DEF Ips!RemoveAt
<1> HIDE DEF a, b
<1>5. f \in Seq(W) /\ Len(f) = n - 1
  <2>1. f \in Seq(W) /\ Len(f) = Len(a) + Len(b)
    BY <1>2, <1>3, <1>4, ConcatProperties
  <2> QED BY <1>1, <1>2, <1>3, <2>1
<1>6. DOMAIN f = 1 .. n - 1
  BY <1>5
<1>7. ASSUME NEW k \in 1 .. n - 1 PROVE f[k] = (IF k < i THEN e[k] ELSE e[k + 1])
  <2>0. f[k] = IF k <= Len(a) THEN a[k] ELSE b[k - Len(a)]
    <3>1. k \in 1 .. Len(a) + Len(b)
      BY <1>1, <1>2, <1>3
    <3> QED BY <1>2, <1>3, <1>4, <3>1, ConcatProperties, SMTT(30)
  <2>1. CASE k < i
    BY <1>1, <1>2, <2>0, <2>1
  <2>2. CASE ~(k < i)
    <3>1. k - Len(a) \in 1 .. n - i /\ (k - Len(a)) + i = k + 1 /\ ~(k <= Len(a))
      BY <1>1, <1>2, <2>2
    <3> QED BY <1>3, <2>0, <2>2, <3>1
  <2> QED BY <2>1, <2>2
<1> QED BY <1>1, <1>5, <1>6, <1>7

\* given without ip.
Less(given, ip) == [x \in DOMAIN given \ {ip} |-> given[x]]

LEMMA ListsWithout ==
    ASSUME NEW lists, NEW given, AllLists(lists, given), NEW ip \in DOMAIN given, NEW q \in Owners, given[ip] = q,
           NEW after, after = [lists EXCEPT ![q] = Ips!RemoveAt(lists[q], CHOOSE i \in DOMAIN lists[q] : lists[q][i] = ip)]
    PROVE  AllLists(after, Less(given, ip))
<1> DEFINE e == lists[q]
           i == CHOOSE k \in DOMAIN e : e[k] = ip
           f == Ips!RemoveAt(e, i)
           n == Len(e)
<1>0. lists \in [Owners -> Seq(Ips!Nets)] /\ \A p \in Owners : Lists(lists[p], given, p)
  BY DEF AllLists
<1>1. e \in Seq(Ips!Nets) /\ Lists(e, given, q)
  BY <1>0
<1>2. i \in DOMAIN e /\ e[i] = ip
  <2>1. \E k \in DOMAIN e : e[k] = ip
    BY <1>1 DEF Lists
  <2> QED BY <2>1
<1>3. after \in [Owners -> Seq(Ips!Nets)] /\ after[q] = f /\ \A p \in Owners \ {q} : after[p] = lists[p]
  <2>1. f \in Seq(Ips!Nets)
    <3> HIDE DEF e, i
    <3> QED BY <1>1, <1>2, RemoveAtIs
  <2> QED BY <1>0, <2>1
<1> HIDE DEF e, i
<1>4. /\ DOMAIN f = 1 .. (n - 1) /\ DOMAIN e = 1 .. n /\ n \in Nat
      /\ \A k \in DOMAIN f : f[k] = (IF k < i THEN e[k] ELSE e[k + 1])
  BY <1>1, <1>2, RemoveAtIs
<1> HIDE DEF f, n
<1>5. DOMAIN Less(given, ip) = DOMAIN given \ {ip} /\ \A x \in DOMAIN given \ {ip} : Less(given, ip)[x] = given[x]
  BY DEF Less
<1>6. Lists(f, Less(given, ip), q)
  <2>0. /\ \A k \in DOMAIN e : e[k] \in DOMAIN given /\ given[e[k]] = q
        /\ \A x \in DOMAIN given : given[x] = q => \E k \in DOMAIN e : e[k] = x
        /\ \A k, j \in DOMAIN e : e[k] = e[j] => k = j
    BY <1>1 DEF Lists
  <2>1. ASSUME NEW k \in DOMAIN f
        PROVE  \E j \in DOMAIN e : f[k] = e[j] /\ j # i /\ j = (IF k < i THEN k ELSE k + 1)
    <3>1. CASE k < i
      BY <1>2, <1>4, <3>1
    <3>2. CASE ~(k < i)
      <4>1. k + 1 \in DOMAIN e /\ k + 1 # i
        BY <1>2, <1>4, <3>2
      <4> QED BY <1>4, <3>2, <4>1
    <3> QED BY <3>1, <3>2
  <2>2. ASSUME NEW k \in DOMAIN f PROVE f[k] \in DOMAIN given \ {ip} /\ given[f[k]] = q
    <3>1. PICK j \in DOMAIN e : f[k] = e[j] /\ j # i
      BY <2>1
    <3>2. e[j] # ip
      BY <1>2, <2>0, <3>1
    <3> QED BY <2>0, <3>1, <3>2
  <2>3. ASSUME NEW x \in DOMAIN given \ {ip}, given[x] = q PROVE \E k \in DOMAIN f : f[k] = x
    <3>1. PICK j \in DOMAIN e : e[j] = x
      BY <2>0, <2>3
    <3>2. j # i
      BY <1>2, <3>1
    <3>3. CASE j < i
      <4>1. j \in DOMAIN f
        BY <1>2, <1>4, <3>3
      <4> QED BY <1>4, <3>1, <3>3, <4>1
    <3>4. CASE j > i
      <4>1. j - 1 \in DOMAIN f /\ ~(j - 1 < i) /\ (j - 1) + 1 = j
        BY <1>2, <1>4, <3>4
      <4> QED BY <1>4, <3>1, <4>1
    <3> QED BY <1>2, <1>4, <3>2, <3>3, <3>4
  <2>4. ASSUME NEW k \in DOMAIN f, NEW l \in DOMAIN f, f[k] = f[l] PROVE k = l
    <3>1. PICK j \in DOMAIN e : f[k] = e[j] /\ j = (IF k < i THEN k ELSE k + 1)
      BY <2>1
    <3>2. PICK m \in DOMAIN e : f[l] = e[m] /\ m = (IF l < i THEN l ELSE l + 1)
      BY <2>1
    <3>3. j = m
      BY <2>0, <2>4, <3>1, <3>2
    <3> QED BY <1>2, <1>4, <3>1, <3>2, <3>3
  <2> QED BY <1>5, <2>2, <2>3, <2>4 DEF Lists
<1>7. ASSUME NEW p \in Owners, p # q PROVE Lists(lists[p], Less(given, ip), p)
  <2>1. Lists(lists[p], given, p)
    BY <1>0
  <2> QED BY <1>5, <1>7, <2>1 DEF Lists
<1> QED BY <1>3, <1>6, <1>7 DEF AllLists

\* more is given and ip for p.
IsMore(given, more, ip, p) ==
    DOMAIN more = DOMAIN given \cup {ip} /\ more[ip] = p /\ \A x \in DOMAIN given : more[x] = given[x]

LEMMA ListsAppend ==
    ASSUME NEW lists, NEW given, AllLists(lists, given), NEW ip \in Ips!Nets, ip \notin DOMAIN given, NEW p \in Owners,
           NEW after, after = [lists EXCEPT ![p] = Append(@, ip)],
           NEW more, IsMore(given, more, ip, p)
    PROVE  AllLists(after, more)
<1> DEFINE e == lists[p]
           f == Append(e, ip)
           n == Len(e)
<1>m. DOMAIN more = DOMAIN given \cup {ip} /\ more[ip] = p /\ \A x \in DOMAIN given : more[x] = given[x]
  BY DEF IsMore
<1>0. lists \in [Owners -> Seq(Ips!Nets)] /\ \A q \in Owners : Lists(lists[q], given, q)
  BY DEF AllLists
<1>1. e \in Seq(Ips!Nets) /\ Lists(e, given, p)
  BY <1>0
<1>2. after \in [Owners -> Seq(Ips!Nets)] /\ after[p] = f /\ \A q \in Owners \ {p} : after[q] = lists[q]
  <2>1. f \in Seq(Ips!Nets)
    BY <1>1, AppendProperties
  <2> QED BY <1>0, <2>1
<1> HIDE DEF e
<1>3. /\ n \in Nat /\ DOMAIN e = 1 .. n /\ DOMAIN f = 1 .. (n + 1)
      /\ f[n + 1] = ip /\ \A k \in 1 .. n : f[k] = e[k]
  BY <1>1
<1> HIDE DEF f, n
<1>4. Lists(f, more, p)
  <2>0. /\ \A k \in DOMAIN e : e[k] \in DOMAIN given /\ given[e[k]] = p
        /\ \A x \in DOMAIN given : given[x] = p => \E k \in DOMAIN e : e[k] = x
        /\ \A k, j \in DOMAIN e : e[k] = e[j] => k = j
    BY <1>1 DEF Lists
  <2>1. \A k \in DOMAIN f : k = n + 1 \/ k \in DOMAIN e
    BY <1>3
  <2>2. \A k \in DOMAIN f : f[k] \in DOMAIN more /\ more[f[k]] = p
    BY <1>3, <1>m, <2>0, <2>1
  <2>3. \A x \in DOMAIN more : more[x] = p => \E k \in DOMAIN f : f[k] = x
    <3> SUFFICES ASSUME NEW x \in DOMAIN more, more[x] = p PROVE \E k \in DOMAIN f : f[k] = x
      OBVIOUS
    <3>1. CASE x = ip
      BY <1>3, <3>1
    <3>2. CASE x # ip
      <4>1. PICK k \in DOMAIN e : e[k] = x
        BY <1>m, <2>0, <3>2
      <4>2. k \in DOMAIN f /\ f[k] = x
        BY <1>3, <4>1
      <4> QED BY <4>2
    <3> QED BY <3>1, <3>2
  <2>4. ASSUME NEW k \in DOMAIN f, NEW j \in DOMAIN f, f[k] = f[j] PROVE k = j
    <3>1. \A l \in DOMAIN e : f[l] # ip /\ f[l] = e[l]
      BY <1>3, <1>m, <2>0
    <3> QED BY <1>3, <2>0, <2>1, <2>4, <3>1
  <2> QED BY <2>2, <2>3, <2>4 DEF Lists
<1>5. ASSUME NEW q \in Owners, q # p PROVE Lists(lists[q], more, q)
  <2>1. Lists(lists[q], given, q)
    BY <1>0
  <2> QED BY <1>5, <1>m, <2>1 DEF Lists
<1> QED BY <1>2, <1>4, <1>5 DEF AllLists

LEMMA ListsClear ==
    ASSUME NEW lists, NEW given, AllLists(lists, given), NEW p \in Owners,
           NEW after, after = [lists EXCEPT ![p] = <<>>],
           NEW rest, rest = [ip \in {x \in DOMAIN given : given[x] # p} |-> given[ip]]
    PROVE  AllLists(after, rest)
<1>0. lists \in [Owners -> Seq(Ips!Nets)] /\ \A q \in Owners : Lists(lists[q], given, q)
  BY DEF AllLists
<1>1. after \in [Owners -> Seq(Ips!Nets)] /\ after[p] = <<>> /\ \A q \in Owners \ {p} : after[q] = lists[q]
  BY <1>0
<1>2. DOMAIN rest = {x \in DOMAIN given : given[x] # p} /\ \A x \in DOMAIN rest : rest[x] = given[x]
  OBVIOUS
<1>3. Lists(<<>>, rest, p)
  BY <1>2 DEF Lists
<1>4. ASSUME NEW q \in Owners, q # p PROVE Lists(lists[q], rest, q)
  <2>1. Lists(lists[q], given, q)
    BY <1>0
  <2> QED BY <1>2, <1>4, <2>1 DEF Lists
<1> QED BY <1>1, <1>3, <1>4 DEF AllLists

-----------------------------------------------------------------------------
(* The table's steps.                                                      *)

IpsInv == Linked(trie, root) /\ Forks(trie) /\ Given(trie, routes) /\ AllLists(entries, routes)

LEMMA IpsInit == Ips!Init => IpsInv
<1> SUFFICES ASSUME Ips!Init PROVE IpsInv
  OBVIOUS
<1>1. trie = <<>> /\ root = Ips!Nil /\ entries = [p \in Owners |-> <<>>] /\ routes = <<>>
  BY DEF Ips!Init
<1>2. DOMAIN trie = {} /\ DOMAIN routes = {}
  BY <1>1
<1>3. trie \in [DOMAIN trie -> NodeSet]
  BY <1>1
<1>4. Linked(trie, root) /\ Forks(trie) /\ Given(trie, routes)
  BY <1>1, <1>2, <1>3 DEF Linked, Nodes, Forks, Given
<1>5. entries \in [Owners -> Seq(Ips!Nets)] /\ \A p \in Owners : DOMAIN entries[p] = {}
  BY <1>1
<1>6. AllLists(entries, routes)
  BY <1>2, <1>5 DEF AllLists, Lists
<1> QED BY <1>4, <1>6 DEF IpsInv

LEMMA IpsInsert ==
    ASSUME IpsInv, NEW ip \in Ips!Nets, NEW p \in Owners, Ips!Insert(ip, p)
    PROVE  IpsInv'
<1>0. /\ Linked(trie, root) /\ Forks(trie) /\ Given(trie, routes) /\ AllLists(entries, routes)
      /\ p # NoOwner /\ p \in Owners \cup {NoOwner}
  BY TrieAssumption DEF IpsInv
<1>1. /\ routes' = Ips!Update(routes, ip, p)
      /\ ip \in DOMAIN trie => /\ trie' = [trie EXCEPT ![ip].owner = p]
                               /\ entries' = [Ips!Retaken(ip) EXCEPT ![p] = Append(@, ip)]
                               /\ root' = root
      /\ ip \notin DOMAIN trie => /\ trie' = Ips!InsertNode(Ips!Table, ip, p).trie
                                  /\ root' = Ips!InsertNode(Ips!Table, ip, p).root
                                  /\ entries' = [entries EXCEPT ![p] = Append(@, ip)]
  BY DEF Ips!Insert
<1>2. /\ DOMAIN routes' = DOMAIN routes \cup {ip} /\ routes'[ip] = p
      /\ \A x \in DOMAIN routes \cup {ip} : x # ip => routes'[x] = routes[x]
  BY <1>1 DEF Ips!Update
<1>3. /\ DOMAIN routes = {n \in DOMAIN trie : trie[n].owner # NoOwner}
      /\ \A n \in DOMAIN routes : routes[n] = trie[n].owner
  BY <1>0 DEF Given
<1>4. CASE ip \in DOMAIN trie
  <2>1. /\ Linked(trie', root) /\ DOMAIN trie' = DOMAIN trie
        /\ \A x \in DOMAIN trie : trie'[x].child = trie[x].child /\ trie'[x].parent = trie[x].parent
        /\ \A x \in DOMAIN trie : trie'[x].owner = (IF x = ip THEN p ELSE trie[x].owner)
    <3> DEFINE u == [trie EXCEPT ![ip].owner = p]
    <3>1. trie' = u
      BY <1>1, <1>4
    <3>2. u = [trie EXCEPT ![ip].owner = p]
      OBVIOUS
    <3> HIDE DEF u
    <3>3. Linked(u, root) /\ ChangesHands(trie, u, ip, p)
      BY <1>0, <1>4, <3>2, OwnerChanges
    <3> QED BY <3>1, <3>3 DEF ChangesHands
  <2>2. Linked(trie', root')
    BY <1>1, <1>4, <2>1
  <2>3. Forks(trie')
    BY <1>0, <2>1 DEF Forks
  <2>4. Given(trie', routes')
    BY <1>0, <1>2, <1>3, <1>4, <2>1 DEF Given
  <2>5. AllLists(entries', routes')
    <3>0. entries' = [Ips!Retaken(ip) EXCEPT ![p] = Append(@, ip)]
      BY <1>1, <1>4
    <3>1. CASE trie[ip].owner = NoOwner
      <4>1. Ips!Retaken(ip) = entries
        BY <3>1 DEF Ips!Retaken
      <4>2. ip \notin DOMAIN routes /\ IsMore(routes, routes', ip, p)
        BY <1>2, <1>3, <3>1 DEF IsMore
      <4>3. entries' = [entries EXCEPT ![p] = Append(@, ip)]
        BY <3>0, <4>1
      <4> QED BY <1>0, <4>2, <4>3, ListsAppend
    <3>2. CASE trie[ip].owner # NoOwner
      <4> DEFINE q == trie[ip].owner
                 own == Ips!Retaken(ip)
                 less == Less(routes, ip)
      <4>1. ip \in DOMAIN routes /\ routes[ip] = q
        BY <1>3, <1>4, <3>2
      <4>2. q \in Owners
        <5>1. trie[ip] \in NodeSet
          BY <1>0, <1>4 DEF Linked, Nodes
        <5> QED BY <3>2, <5>1, NodeParts
      <4>3. own = [entries EXCEPT ![q] = Ips!RemoveAt(entries[q], CHOOSE i \in DOMAIN entries[q] : entries[q][i] = ip)]
        BY <3>2 DEF Ips!Retaken, Ips!Without
      <4>4. AllLists(own, less)
        <5> HIDE DEF own, q
        <5> QED BY <1>0, <4>1, <4>2, <4>3, ListsWithout
      <4>5. DOMAIN less = DOMAIN routes \ {ip} /\ \A x \in DOMAIN less : less[x] = routes[x]
        BY DEF Less
      <4>6. ip \notin DOMAIN less /\ IsMore(less, routes', ip, p)
        <5> HIDE DEF less
        <5> QED BY <1>2, <4>1, <4>5 DEF IsMore
      <4> HIDE DEF own, less
      <4>7. entries' = [own EXCEPT ![p] = Append(@, ip)]
        BY <3>0 DEF own
      <4> QED BY <4>4, <4>6, <4>7, ListsAppend
    <3> QED BY <3>1, <3>2
  <2> QED BY <2>2, <2>3, <2>4, <2>5 DEF IpsInv
<1>5. CASE ip \notin DOMAIN trie
  <2>1. Ips!Table = TableOf(trie, root)
    BY DEF Ips!Table, TableOf
  <2>2. PICK u, q : /\ Ips!InsertNode(TableOf(trie, root), ip, p) = TableOf(u, q)
                    /\ Linked(u, q) /\ Forks(u) /\ HasAdded(trie, u, ip, p)
    BY <1>0, <1>5, InsertNodeIs
  <2>3. TableOf(u, q).trie = u /\ TableOf(u, q).root = q
    BY DEF TableOf
  <2>4. trie' = u /\ root' = q
    BY <1>1, <1>5, <2>1, <2>2, <2>3
  <2>5. Linked(trie', root') /\ Forks(trie')
    BY <2>2, <2>4
  <2>6. Given(trie', routes')
    <3>1. Given(u, routes')
      BY <1>0, <1>2, <1>3, <1>5, <2>2 DEF Given, HasAdded
    <3> QED BY <2>4, <3>1
  <2>7. ip \notin DOMAIN routes /\ IsMore(routes, routes', ip, p)
    BY <1>2, <1>3, <1>5 DEF IsMore
  <2>8. AllLists(entries', routes')
    <3>1. entries' = [entries EXCEPT ![p] = Append(@, ip)]
      BY <1>1, <1>5
    <3> QED BY <1>0, <2>7, <3>1, ListsAppend
  <2> QED BY <2>5, <2>6, <2>8 DEF IpsInv
<1> QED BY <1>4, <1>5

LEMMA IpsRemove ==
    ASSUME IpsInv, NEW p \in Owners, Ips!RemoveByPeer(p)
    PROVE  IpsInv'
<1> DEFINE e == entries[p]
           X == Listed(e, DOMAIN e)
<1>0. Linked(trie, root) /\ Forks(trie) /\ Given(trie, routes) /\ AllLists(entries, routes) /\ p # NoOwner
  BY TrieAssumption DEF IpsInv
<1>1. /\ trie' = RemoveEach(Ips!Table, e).trie /\ root' = RemoveEach(Ips!Table, e).root
      /\ entries' = [entries EXCEPT ![p] = <<>>]
      /\ routes' = [ip \in {x \in DOMAIN routes : routes[x] # p} |-> routes[ip]]
  BY DEF Ips!RemoveByPeer, RemoveEach
<1>2. /\ DOMAIN routes = {n \in DOMAIN trie : trie[n].owner # NoOwner}
      /\ \A n \in DOMAIN routes : routes[n] = trie[n].owner
  BY <1>0 DEF Given
<1>3. /\ e \in Seq(Ips!Nets)
      /\ \A i \in DOMAIN e : e[i] \in DOMAIN routes /\ routes[e[i]] = p
      /\ \A x \in DOMAIN routes : routes[x] = p => \E i \in DOMAIN e : e[i] = x
      /\ \A i, j \in DOMAIN e : e[i] = e[j] => i = j
  BY <1>0 DEF AllLists, Lists
<1>4. Ips!Table = TableOf(trie, root)
  BY DEF Ips!Table, TableOf
<1> HIDE DEF e
<1>5. PICK u, q : /\ RemoveEach(TableOf(trie, root), e) = TableOf(u, q)
                  /\ Linked(u, q) /\ Forks(u) /\ HasLostAll(trie, u, X)
  <2>1. \A i \in DOMAIN e : e[i] \in DOMAIN trie /\ trie[e[i]].owner # NoOwner
    BY <1>2, <1>3
  <2> QED BY <1>0, <1>3, <2>1, RemoveAllIs
<1>6. trie' = u /\ root' = q
  <2>1. TableOf(u, q).trie = u /\ TableOf(u, q).root = q
    BY DEF TableOf
  <2> QED BY <1>1, <1>4, <1>5, <2>1
<1>7. X = {x \in DOMAIN routes : routes[x] = p}
  BY <1>3 DEF Listed
<1> HIDE DEF X
<1>8. /\ DOMAIN routes' = {x \in DOMAIN routes : routes[x] # p}
      /\ \A x \in DOMAIN routes' : routes'[x] = routes[x]
  BY <1>1
<1>9. Given(u, routes')
  <2>1. /\ \A x \in DOMAIN u : x \in DOMAIN trie /\ u[x].owner = (IF x \in X THEN NoOwner ELSE trie[x].owner)
        /\ \A x \in DOMAIN trie : x \notin X /\ trie[x].owner # NoOwner => x \in DOMAIN u
    BY <1>5 DEF HasLostAll
  <2>2. \A x : x \in DOMAIN routes' <=> x \in DOMAIN trie /\ trie[x].owner # NoOwner /\ x \notin X
    BY <1>2, <1>7, <1>8
  <2>3. \A x : x \in DOMAIN routes' <=> x \in DOMAIN u /\ u[x].owner # NoOwner
    BY <2>1, <2>2
  <2>4. \A x \in DOMAIN routes' : routes'[x] = u[x].owner
    BY <1>2, <1>8, <2>1, <2>2
  <2>5. DOMAIN routes' = {x \in DOMAIN u : u[x].owner # NoOwner}
    BY <2>3
  <2> QED BY <2>4, <2>5 DEF Given
<1>10. AllLists(entries', routes')
  BY <1>0, <1>1, ListsClear, ZenonT(30)
<1> QED BY <1>5, <1>6, <1>9, <1>10 DEF IpsInv

LEMMA IpsStep == IpsInv /\ Ips!Next => IpsInv'
<1> SUFFICES ASSUME IpsInv, Ips!Next PROVE IpsInv'
  OBVIOUS
<1>1. \/ \E ip \in Ips!Nets, p \in Owners : Ips!Insert(ip, p)
      \/ \E p \in Owners : Ips!RemoveByPeer(p)
  BY DEF Ips!Next
<1> QED BY <1>1, IpsInsert, IpsRemove

LEMMA IpsStays == IpsInv /\ UNCHANGED ipVars => IpsInv'
  BY DEF IpsInv, ipVars

LEMMA IpsMeans == IpsInv => Ips!TypeOK /\ Ips!LongestPrefixWins /\ Ips!TrieIsWhole
<1> SUFFICES ASSUME IpsInv PROVE Ips!TypeOK /\ Ips!LongestPrefixWins /\ Ips!TrieIsWhole
  OBVIOUS
<1>0. Linked(trie, root) /\ Forks(trie) /\ Given(trie, routes) /\ AllLists(entries, routes)
  BY DEF IpsInv
<1>1. DOMAIN trie \subseteq Ips!Nets /\ \A n \in DOMAIN trie : trie[n] \in NodeSet
  BY <1>0 DEF Linked, Nodes
<1>2. ASSUME NEW n \in DOMAIN trie
      PROVE  /\ trie[n].owner \in Owners \cup {NoOwner}
             /\ \A b \in Ips!Bit : trie[n].child[b] \in DOMAIN trie \cup {Ips!Nil}
             /\ InPlace(trie, root, n)
  <2>1. \A b \in Ips!Bit : trie[n].child[b] # Ips!Nil => trie[n].child[b] \in DOMAIN trie
    BY <1>0, ChildIs
  <2>2. InPlace(trie, root, n)
    BY <1>0, PlaceIs
  <2> QED BY <1>1, <2>1, <2>2, NodeParts
<1>3. root \in DOMAIN trie \cup {Ips!Nil}
  BY <1>0 DEF Linked
<1>4. ASSUME NEW p \in Owners
      PROVE  /\ Ips!ToSet(entries[p]) = {ip \in DOMAIN routes : routes[ip] = p}
             /\ Ips!IsInjective(entries[p])
             /\ Ips!Range(entries[p]) \subseteq DOMAIN trie
  <2> DEFINE e == entries[p]
  <2>1. Lists(e, routes, p)
    BY <1>0 DEF AllLists
  <2>2. DOMAIN routes \subseteq DOMAIN trie
    BY <1>0 DEF Given
  <2> HIDE DEF e
  <2>3. Ips!ToSet(e) = {ip \in DOMAIN routes : routes[ip] = p}
    BY <2>1 DEF Lists, Ips!ToSet
  <2>4. Ips!IsInjective(e)
    BY <2>1 DEF Lists, Ips!IsInjective
  <2>5. Ips!Range(e) \subseteq DOMAIN trie
    BY <2>1, <2>2 DEF Lists, Ips!Range
  <2> QED BY <2>3, <2>4, <2>5 DEF e
<1>5. ASSUME NEW n \in DOMAIN trie
      PROVE  /\ trie[n].parent.node \in DOMAIN trie \cup {Ips!Nil}
             /\ IF trie[n].parent = Ips!AtRoot THEN root = n ELSE trie[trie[n].parent.node].child[trie[n].parent.bit] = n
  <2>1. InPlace(trie, root, n)
    BY <1>2
  <2>2. Ips!AtRoot.node = Ips!Nil
    BY DEF Ips!AtRoot
  <2>3. CASE trie[n].parent = Ips!AtRoot
    BY <2>1, <2>2, <2>3 DEF InPlace
  <2>4. CASE trie[n].parent # Ips!AtRoot
    BY <2>1, <2>4 DEF InPlace
  <2> QED BY <2>3, <2>4
<1>6. Ips!TypeOK
  BY <1>1, <1>2, <1>3, <1>4, <1>5 DEF Ips!TypeOK
<1>7. Ips!LongestPrefixWins
  BY <1>0, LookupIsLongest DEF Ips!LongestPrefixWins
<1>8. Ips!TrieIsWhole
  BY <1>0, <1>4, <1>5 DEF Ips!TrieIsWhole, Forks
<1> QED BY <1>6, <1>7, <1>8

-----------------------------------------------------------------------------
(* The parts together.                                                     *)

PacketsInv == RateInv /\ CookieInv /\ TunInv /\ NativeInv /\ LwipInv /\ IpsInv

\* A step of one part leaves the others as they are.
LEMMA PartsStay ==
    ASSUME [MCNext]_<<part, vars, wireVars, deviceVars, bindVars>>
    PROVE  /\ part' = part
           /\ Rate!Next \/ UNCHANGED rateVars
           /\ Cook!Next \/ UNCHANGED cookieVars
           /\ Tun!Next \/ UNCHANGED tunVars
           /\ Native!Next \/ UNCHANGED nativeVars
           /\ Lwip!Next \/ UNCHANGED lwipVars
           /\ Ips!Next \/ UNCHANGED ipVars
<1>1. CASE UNCHANGED <<part, vars, wireVars, deviceVars, bindVars>>
  BY <1>1 DEF wireVars, deviceVars
<1>2. CASE MCNext
  BY <1>2 DEF MCNext, wireVars, deviceVars
<1> QED BY <1>1, <1>2

\* The invariants of the parts hold together.
THEOREM PacketsInvariant == MCSpec => []PacketsInv
<1>1. MCInit => PacketsInv
  BY RateInit, CookieInit, TunInit, NativeInit, LwipInit, IpsInit DEF MCInit, PacketsInv
<1>2. ASSUME PacketsInv, [MCNext]_<<part, vars, wireVars, deviceVars, bindVars>> PROVE PacketsInv'
  <2>1. RateInv'
    BY <1>2, PartsStay, RateStep, RateStays DEF PacketsInv
  <2>2. CookieInv'
    BY <1>2, PartsStay, CookieStep, CookieStays DEF PacketsInv
  <2>3. TunInv'
    BY <1>2, PartsStay, TunStep, TunStays DEF PacketsInv
  <2>4. NativeInv'
    BY <1>2, PartsStay, NativeStep, NativeStays DEF PacketsInv
  <2>5. LwipInv'
    BY <1>2, PartsStay, LwipStep, LwipStays DEF PacketsInv
  <2>6. IpsInv'
    BY <1>2, PartsStay, IpsStep, IpsStays DEF PacketsInv
  <2> QED BY <2>1, <2>2, <2>3, <2>4, <2>5, <2>6 DEF PacketsInv
<1> QED BY <1>1, <1>2, PTL DEF MCSpec

\* Under load each source is held to its rate, entries are collected, collector and
\* worker wait for each other only after two first packets, and what is let through
\* came from where a cookie had reached its sender (ratelimiter.go, cookie.go), for
\* any number of workers and sources.
THEOREM LoadStaysShed == MCSpec => []LoadIsShed
<1>1. PacketsInv => LoadIsShed
  BY RateMeans, CookieMeans DEF PacketsInv, LoadIsShed
<1> QED BY <1>1, PacketsInvariant, PTL

\* A packet of the netstack is in one place and is noticed, the native device's
\* events are closed last, and tun2socks has one pipe between its present device and
\* stack (netstack/tun.go, tun_linux.go, lwip.go), for any number of senders, packets,
\* changes and starts.
THEOREM TunsKeepAll == MCSpec => []TunsKeepPackets
<1>1. PacketsInv => TunsKeepPackets
  BY TunMeans, NativeMeans, LwipMeans DEF PacketsInv, TunsKeepPackets
<1> QED BY <1>1, PacketsInvariant, PTL

\* After any insertions, reassignments and removals of whole peers a packet goes to the
\* peer of the longest prefix that covers its address, the trie's links, parents and
\* forks are whole, and every peer's list is its prefixes, once each (allowedips.go):
\* for addresses of any width, any peers and any number of prefixes.
THEOREM RoutesStayRight == MCSpec => []RoutesAreRight
<1>1. PacketsInv => RoutesAreRight
  BY IpsMeans DEF PacketsInv, RoutesAreRight
<1> QED BY <1>1, PacketsInvariant, PTL

=============================================================================
