------------------------------ MODULE WaitPool ------------------------------
(***************************************************************************)
(* wireguard/device/pools.go: the bounded pool of message buffers and      *)
(* queue elements, as goroutines use it: each takes an element, uses it    *)
(* and puts it back, for a number of rounds.                               *)
(*                                                                         *)
(* sync.Cond is external: Wait joins the list of waiters and only then     *)
(* releases the lock, Signal wakes the waiter that has been in the list    *)
(* longest and is lost when the list is empty.                             *)
(***************************************************************************)
EXTENDS Integers, Sequences, FiniteSets

CONSTANTS
    Procs,   \* the goroutines
    Nobody,  \* holds an unlocked mutex
    Max,     \* PreallocatedBuffersPerPool; 0 would disable the limit
    Rounds   \* bound: how often a goroutine uses the pool

ASSUME PoolAssumption ==
    /\ IsFiniteSet(Procs)
    /\ Nobody \notin Procs
    /\ Max \in Nat \ {0}
    /\ Rounds \in Nat

VARIABLES
    count,   \* elements handed out
    lock,    \* who holds the mutex
    waiters, \* the condition's list, longest waiting first
    pc,      \* goroutine -> where it is in Get or Put
    left     \* goroutine -> rounds it has yet to begin

vars == <<count, lock, waiters, pc, left>>

Init ==
    /\ count = 0
    /\ lock = Nobody
    /\ waiters = <<>>
    /\ pc = [p \in Procs |-> "outside"]
    /\ left = [p \in Procs |-> Rounds]

Goto(p, l) == pc' = [pc EXCEPT ![p] = l]

-----------------------------------------------------------------------------
Get(p) ==
    /\ pc[p] = "outside"
    /\ left[p] > 0
    /\ left' = [left EXCEPT ![p] = @ - 1]
    /\ Goto(p, "lock")
    /\ UNCHANGED <<count, lock, waiters>>

Lock(p) ==
    /\ pc[p] = "lock"
    /\ lock = Nobody
    /\ lock' = p
    /\ Goto(p, "test")
    /\ UNCHANGED <<count, waiters, left>>

Full == count >= Max

\* The for condition.
Test(p) ==
    /\ pc[p] = "test"
    /\ Goto(p, IF Full THEN "wait" ELSE "take")
    /\ UNCHANGED <<count, lock, waiters, left>>

Wait(p) ==
    /\ pc[p] = "wait"
    /\ waiters' = Append(waiters, p)
    /\ lock' = Nobody
    /\ Goto(p, "asleep")
    /\ UNCHANGED <<count, left>>

Take(p) ==
    /\ pc[p] = "take"
    /\ count' = count + 1
    /\ lock' = Nobody
    /\ Goto(p, "holding")
    /\ UNCHANGED <<waiters, left>>

\* Mutant: the element goes back to the pool and stays counted.
Put_StaysCounted(p) ==
    /\ pc[p] = "holding"
    /\ Goto(p, "signal")
    /\ UNCHANGED <<count, lock, waiters, left>>

\* Put takes no lock.
Put(p) ==
    /\ pc[p] = "holding"
    /\ count' = count - 1
    /\ Goto(p, "signal")
    /\ UNCHANGED <<lock, waiters, left>>

\* Mutant: Put only counts down.
Signal_Missing(p) ==
    /\ pc[p] = "signal"
    /\ Goto(p, "outside")
    /\ UNCHANGED <<count, lock, waiters, left>>

Signal(p) ==
    /\ pc[p] = "signal"
    /\ IF waiters = <<>>
       THEN Goto(p, "outside") /\ UNCHANGED waiters
       ELSE /\ pc' = [pc EXCEPT ![p] = "outside", ![Head(waiters)] = "lock"]
            /\ waiters' = Tail(waiters)
    /\ UNCHANGED <<count, lock, left>>

Step(p) ==
    \/ Get(p) \/ Lock(p) \/ Test(p) \/ Wait(p) \/ Take(p) \/ Put(p) \/ Signal(p)

Next == \E p \in Procs : Step(p)

Spec == Init /\ [][Next]_vars

\* Goroutines run, give their elements back, and a mutex starves nobody
\* (Go's goes to the longest waiter after a millisecond).
FairSpec ==
    /\ Spec
    /\ \A p \in Procs : SF_vars(Lock(p)) /\ WF_vars(Step(p))

-----------------------------------------------------------------------------
Users == {p \in Procs : pc[p] = "holding"}

\* Shapes of the state; the count of elements handed out keeps to the limit.
TypeOK ==
    /\ count \in 0..Max
    /\ lock \in Procs \cup {Nobody}
    /\ waiters \in Seq(Procs)
    /\ pc \in [Procs -> {"outside", "lock", "test", "wait", "asleep", "take", "holding", "signal"}]
    /\ left \in [Procs -> 0..Rounds]

\* The counter is the number of elements in use, although Put changes it without
\* the lock, so the limit is a limit on elements and the counter never wraps.
CountIsUsers == count = Cardinality(Users)

\* A sleeper has somebody awake to wake it: one that holds an element, is about
\* to, has yet to signal, or is on its way through Get.
SleepersCovered ==
    waiters # <<>> =>
        \E q \in Procs : pc[q] \in {"lock", "test", "wait", "take", "holding", "signal"}

\* The one step that leaves sleepers with nobody to wake them is a Wait on a
\* stale test: Put, which takes no lock, counted down and signalled in between.
OnlyAStaleTestStrands ==
    [][SleepersCovered =>
          SleepersCovered' \/ (\E p \in Procs : Wait(p) /\ ~Full)]_vars

=============================================================================
