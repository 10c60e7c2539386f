---------------------------- MODULE RateLimiter ----------------------------
(***************************************************************************)
(* wireguard/ratelimiter/ratelimiter.go: a bucket of tokens for each       *)
(* source, and a goroutine that throws away the buckets of sources that    *)
(* have been quiet.  Handshake workers ask Allow while the device is under *)
(* load; Close comes from the device and waits for no worker.              *)
(*                                                                         *)
(* The clock counts packetCost; passed, raced and what a worker has seen   *)
(* are not in the code, they count for RateKept.                           *)
(***************************************************************************)
EXTENDS Integers, Sequences, FiniteSets

CONSTANTS
    Workers,    \* handshake workers
    Sources,    \* addresses
    MaxTokens,  \* packetsBurstable, in packets
    CollectAge, \* garbageCollectTime
    Horizon,    \* bound: the clock
    MaxBuckets  \* bound: buckets ever made

VARIABLES
    now,
    buckets,   \* every entry ever made: last time and tokens
    table,     \* source -> its entry in buckets, 0 for none
    mutex,     \* a worker that blocks while it holds rate.mu, or "free"
    worker,    \* worker -> where it is in Allow
    collector, \* "select", "clean", "stop" or "gone"
    ticking,   \* the ticker runs
    resetOpen, \* stopReset is open
    passed,    \* source -> packets allowed
    raced      \* source -> packets let through by an entry that was overtaken

rateVars == <<now, buckets, table, mutex, worker, collector, ticking, resetOpen, passed, raced>>

PacketCost == 1

Idle == [at |-> "idle", ip |-> "none", entry |-> 0, time |-> 0, seen |-> 0, again |-> FALSE]

Init ==
    /\ now = 0
    /\ buckets = <<>>
    /\ table = [s \in Sources |-> 0]
    /\ mutex = "free"
    /\ worker = [w \in Workers |-> Idle]
    /\ collector = "select"
    /\ ticking = FALSE
    /\ resetOpen = TRUE
    /\ passed = [s \in Sources |-> 0]
    /\ raced = [s \in Sources |-> 0]

Passed(s) == passed' = [passed EXCEPT ![s] = @ + 1]

Listed(t) == {s \in Sources : t[s] # 0}

-----------------------------------------------------------------------------
\* Allow: the look-up, under the read lock.  A new entry takes its time here.
Allow(w, s) ==
    /\ worker[w].at = "idle" /\ mutex = "free"
    /\ worker' = [worker EXCEPT ![w] =
           [at |-> IF table[s] = 0 THEN "insert" ELSE "spend",
            ip |-> s, entry |-> table[s], time |-> now, seen |-> passed[s], again |-> FALSE]]
    /\ UNCHANGED <<now, buckets, table, mutex, collector, ticking, resetOpen, passed, raced>>

\* The new entry goes into the table whether or not one is there by now, or was and
\* is gone again; when it is the only one the worker goes on to the channel with the
\* lock held.
Insert(w) ==
    LET s == worker[w].ip
        t == [table EXCEPT ![s] = Len(buckets) + 1]
    IN /\ worker[w].at = "insert" /\ mutex = "free" /\ Len(buckets) < MaxBuckets
       /\ buckets' = Append(buckets, [last |-> worker[w].time, tokens |-> MaxTokens - PacketCost])
       /\ table' = t
       /\ IF Listed(t) = {s}
          THEN /\ worker' = [worker EXCEPT ![w].at = "reset", ![w].again = table[s] # 0]
               /\ mutex' = w
          ELSE worker' = [worker EXCEPT ![w] = Idle] /\ UNCHANGED mutex
       /\ raced' = [raced EXCEPT ![s] = IF passed[s] # worker[w].seen THEN @ + 1 ELSE @]
       /\ Passed(s)
       /\ UNCHANGED <<now, collector, ticking, resetOpen>>

\* Mutant: the signal is offered and not waited for.
Reset_Offers(w) ==
    /\ worker[w].at = "reset" /\ resetOpen
    /\ ticking' = (ticking \/ collector = "select")
    /\ worker' = [worker EXCEPT ![w] = Idle]
    /\ mutex' = "free"
    /\ UNCHANGED <<now, buckets, table, collector, resetOpen, passed, raced>>

\* The send on stopReset, which nobody but the collector's select receives.
Reset(w) ==
    /\ worker[w].at = "reset" /\ resetOpen /\ collector = "select"
    /\ ticking' = TRUE
    /\ worker' = [worker EXCEPT ![w] = Idle]
    /\ mutex' = "free"
    /\ UNCHANGED <<now, buckets, table, collector, resetOpen, passed, raced>>

\* The send on stopReset once Close has closed it.
Panics(w) ==
    /\ worker[w].at = "reset" /\ ~resetOpen
    /\ worker' = [worker EXCEPT ![w].at = "panic"]
    /\ UNCHANGED <<now, buckets, table, mutex, collector, ticking, resetOpen, passed, raced>>

\* Mutant: the refill has no ceiling.
Refilled_NoCeiling(b) == b.tokens + now - b.last

Refilled(b) ==
    IF b.tokens + now - b.last > MaxTokens THEN MaxTokens ELSE b.tokens + now - b.last

\* An entry that was found is used, in the table or out of it.
Spend(w) ==
    LET s == worker[w].ip
        e == worker[w].entry
        full == Refilled(buckets[e])
        ok == full > PacketCost
    IN /\ worker[w].at = "spend"
       /\ buckets' = [buckets EXCEPT ![e] =
              [last |-> now, tokens |-> IF ok THEN full - PacketCost ELSE full]]
       /\ IF ok THEN Passed(s) ELSE UNCHANGED passed
       /\ raced' = [raced EXCEPT ![s] = IF ok /\ table[s] # e THEN @ + 1 ELSE @]
       /\ worker' = [worker EXCEPT ![w] = Idle]
       /\ UNCHANGED <<now, table, mutex, collector, ticking, resetOpen>>

-----------------------------------------------------------------------------
Tick ==
    /\ collector = "select" /\ ticking
    /\ collector' = "clean"
    /\ UNCHANGED <<now, buckets, table, mutex, worker, ticking, resetOpen, passed, raced>>

\* Mutant: every entry is thrown away.
Quiet_All(s) == TRUE

Quiet(s) == now - buckets[table[s]].last > CollectAge

\* cleanup, under the lock.
Cleanup ==
    LET left == {s \in Listed(table) : ~Quiet(s)}
    IN /\ collector = "clean" /\ mutex = "free"
       /\ table' = [s \in Sources |-> IF s \in left THEN table[s] ELSE 0]
       /\ collector' = IF left = {} THEN "stop" ELSE "select"
       /\ UNCHANGED <<now, buckets, mutex, worker, ticking, resetOpen, passed, raced>>

\* Mutant: an empty table leaves the ticker on.
StopTicker_Keeps ==
    /\ collector = "stop"
    /\ collector' = "select"
    /\ UNCHANGED <<now, buckets, table, mutex, worker, ticking, resetOpen, passed, raced>>

StopTicker ==
    /\ collector = "stop"
    /\ ticking' = FALSE
    /\ collector' = "select"
    /\ UNCHANGED <<now, buckets, table, mutex, worker, resetOpen, passed, raced>>

\* The select finds the channel closed.
CollectorStops ==
    /\ collector = "select" /\ ~resetOpen
    /\ collector' = "gone" /\ ticking' = FALSE
    /\ UNCHANGED <<now, buckets, table, mutex, worker, resetOpen, passed, raced>>

Close ==
    /\ resetOpen /\ mutex = "free"
    /\ resetOpen' = FALSE
    /\ UNCHANGED <<now, buckets, table, mutex, worker, collector, ticking, passed, raced>>

TimePasses ==
    /\ now < Horizon
    /\ now' = now + 1
    /\ UNCHANGED <<buckets, table, mutex, worker, collector, ticking, resetOpen, passed, raced>>

System ==
    \/ \E w \in Workers : Insert(w) \/ Reset(w) \/ Panics(w) \/ Spend(w)
    \/ Tick \/ Cleanup \/ StopTicker \/ CollectorStops

Next == System \/ Close \/ TimePasses \/ \E w \in Workers, s \in Sources : Allow(w, s)

-----------------------------------------------------------------------------
\* Shapes of the state.
TypeOK ==
    /\ now \in 0..Horizon
    /\ \A i \in DOMAIN buckets :
          buckets[i].last \in 0..Horizon /\ buckets[i].tokens \in 0..MaxTokens
    /\ table \in [Sources -> 0..Len(buckets)]
    /\ mutex \in Workers \cup {"free"}
    /\ passed \in [Sources -> Nat] /\ raced \in [Sources -> Nat]
    /\ \A w \in Workers : worker[w].at \in {"idle", "insert", "spend", "reset", "panic"}
    /\ collector \in {"select", "clean", "stop", "gone"}
    /\ ticking \in BOOLEAN /\ resetOpen \in BOOLEAN

\* A source gets a burst and then one packet for each packetCost of time, although
\* its entry is thrown away and made anew: an entry old enough to go is full. Only
\* workers of one source at the same time can add to that, a burst each time one of
\* them is let through by an entry that another has overtaken: a new one that was
\* not the next, or one that is in the table no more.
RateKept ==
    \A s \in Sources : passed[s] * PacketCost <= MaxTokens * (1 + raced[s]) + now

\* As long as the table has an entry the collector's ticker runs, or the worker that
\* made the first one is about to start it: no entry is kept for ever, however the
\* stopping of the ticker and the next first packet fall together.
EntriesAreCollected ==
    resetOpen /\ Listed(table) # {} => ticking \/ \E w \in Workers : worker[w].at = "reset"

\* The collector waits for the lock of a worker that waits for the collector only
\* when that worker's packet was a source's first a second time: two workers looked
\* the source up before either had entered it.
OnlyTwoFirstPacketsBlock ==
    collector = "clean" =>
        \A w \in Workers : worker[w].at = "reset" => worker[w].again

=============================================================================
