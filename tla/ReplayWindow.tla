---------------------------- MODULE ReplayWindow ----------------------------
(***************************************************************************)
(* What a replay filter promises: a counter is accepted exactly when it is *)
(* under the limit, was not accepted since the last reset, and is ahead of *)
(* the newest accepted counter or at most WindowSize behind it.            *)
(***************************************************************************)
EXTENDS Integers

CONSTANTS
    WindowSize,  \* how far behind the newest counter an old one may be
    Limit,       \* counters from here on are refused
    Counters     \* the counters that arrive

VARIABLES
    top,      \* the newest accepted counter, 0 before the first
    seen,     \* every counter accepted since the last reset
    verdict   \* the answer to the last question

vars == <<top, seen, verdict>>

NoVerdict == [counter |-> 0, ok |-> FALSE]

Init == top = 0 /\ seen = {} /\ verdict = NoVerdict

Fresh(c) ==
    /\ c < Limit
    /\ c \notin seen
    /\ top - c <= WindowSize

Accept(c) ==
    /\ Fresh(c)
    /\ top' = IF c > top THEN c ELSE top
    /\ seen' = seen \cup {c}
    /\ verdict' = [counter |-> c, ok |-> TRUE]

Refuse(c) ==
    /\ ~Fresh(c)
    /\ verdict' = [counter |-> c, ok |-> FALSE]
    /\ UNCHANGED <<top, seen>>

Reset == top' = 0 /\ seen' = {} /\ UNCHANGED verdict

Next == Reset \/ \E c \in Counters : Accept(c) \/ Refuse(c)

Spec == Init /\ [][Next]_vars

=============================================================================
