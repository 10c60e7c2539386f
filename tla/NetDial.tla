------------------------------ MODULE NetDial ------------------------------
(***************************************************************************)
(* wireguard/tun/netstack/tun.go: DialContext of the network stack, with   *)
(* the DNS look-up it begins with.  One goroutine asks for each family,    *)
(* trying the servers in turn, twice, by UDP and then, when the answer is  *)
(* truncated, by TCP, each exchange under a deadline of its own and the    *)
(* caller's; the addresses found are dialled in order, each with its share *)
(* of the time the look-up has left.  Sockets of the stack are external.   *)
(***************************************************************************)
EXTENDS Integers, Sequences

CONSTANTS
    Networks,     \* what may be asked for: a protocol and the families accepted
    DnsServers,   \* how many
    ExchangeTime, \* the time one exchange with a server may take
    MaxTime,      \* bound: the time a caller allows for dialling
    Allowances,   \* the times callers allow
    SaneMinimum,  \* the least share of an address
    MaxUnclosed   \* bound: exchanges whose SetDeadline fails

VARIABLES
    families,  \* families the tunnel has addresses of
    network,   \* protocol asked for, and the families it accepts
    lane,      \* family -> how its look-up stands
    laneErr,   \* the look-up's lastErr is set
    found,     \* family -> addresses of it that were found, addrsV4 and addrsV6
    addrs,     \* addresses left to dial, each its family
    total,     \* how many there were
    tried,
    allowed,   \* the caller's time, or NoDeadline
    remaining, \* what is left of it
    left,      \* what was left of it when the look-up ended
    dialling,  \* "lookup", "dial", "ok" or "failed"
    cancelled, \* the caller's context
    sockets,   \* sockets of the look-up and the dial that are open
    unclosed   \* those that exchange forgot

dialVars ==
    <<families, network, lane, laneErr, found, addrs, total, tried, allowed, remaining, left, dialling,
      cancelled, sockets, unclosed>>

Families == {"v4", "v6"}
AllNetworks == [proto : {"tcp", "udp", "ping"}, accept : {{"v4"}, {"v6"}, Families}]
NoDeadline == MaxTime + 1
Rounds == 2

Lane == [at : {"off", "dial", "open", "found", "corrupt", "failed", "notfound", "took", "gone"},
         server : 1..DnsServers, round : 1..Rounds, udp : BOOLEAN, waited : 0..ExchangeTime]

\* The exchange of a lane with a server begins, or the lane is past all of them.
Fresh(at, server, round, udp) ==
    [at |-> at, server |-> server, round |-> round, udp |-> udp, waited |-> 0]

\* A literal address is its own answer and asks nobody.
Init ==
    /\ families \in SUBSET Families \ {{}}
    /\ network \in Networks
    /\ lane = [f \in Families |-> Fresh(IF f \in families THEN "dial" ELSE "off", 1, 1, TRUE)]
    /\ laneErr = FALSE
    /\ found = [f \in Families |-> 0]
    /\ addrs = <<>> /\ total = 0 /\ tried = 0
    /\ allowed \in Allowances \cup {NoDeadline}
    /\ remaining = allowed /\ left = allowed
    /\ dialling = "lookup"
    /\ cancelled = FALSE
    /\ sockets = 0 /\ unclosed = 0

LaneGoes(f, at) == lane' = [lane EXCEPT ![f].at = at]

\* tryOneName returns.
LaneEnds(f, at) == lane' = [lane EXCEPT ![f] = Fresh(at, 1, 1, TRUE)]

Lookup ==
    UNCHANGED <<families, network, laneErr, found, addrs, total, tried, allowed, left, dialling, cancelled>>

-----------------------------------------------------------------------------
\* The lanes in the middle of an exchange.
Asking == {f \in Families : lane[f].at \in {"dial", "open"}}

\* Mutant: only the caller's deadline is set on the connection.
InTime_Callers(f) == TRUE

\* The exchange's own deadline is not over yet.
InTime(f) == lane[f].waited < ExchangeTime

\* A server is slow: the caller's time runs, and that of the exchanges.
TimePasses ==
    /\ dialling = "lookup" /\ remaining \notin {0, NoDeadline}
    /\ Asking # {} /\ \A f \in Asking : InTime(f)
    /\ remaining' = remaining - 1
    /\ lane' = [f \in Families |->
                   IF f \in Asking THEN [lane[f] EXCEPT !.waited = @ + 1] ELSE lane[f]]
    /\ Lookup /\ UNCHANGED <<sockets, unclosed>>

\* Mutant: the servers are asked for ever.
NextServer_Forever(f) ==
    lane' = [lane EXCEPT ![f] = Fresh("dial", (@.server % DnsServers) + 1, 1, TRUE)]

\* tryOneName after a failed exchange: the next server, the second round, the end.
NextServer(f) ==
    lane' = [lane EXCEPT ![f] =
        IF @.server < DnsServers THEN Fresh("dial", @.server + 1, @.round, TRUE)
        ELSE IF @.round < Rounds THEN Fresh("dial", 1, @.round + 1, TRUE)
        ELSE Fresh("failed", 1, 1, TRUE)]

ExchangeOpens(f) ==
    /\ lane[f].at = "dial"
    /\ LaneGoes(f, "open")
    /\ sockets' = sockets + 1
    /\ Lookup /\ UNCHANGED <<remaining, unclosed>>

\* Mutant: the connection is closed only after a good answer.
Closed_OnSuccess(f) == lane[f].at = "open" /\ lane'[f].at # "dial"

\* The round trip is over, well or not, and its connection closed.
Closed(f) == lane[f].at = "open"

ExchangeOver(f) ==
    /\ sockets' = IF Closed(f) THEN sockets - 1 ELSE sockets
    /\ Lookup /\ UNCHANGED <<remaining, unclosed>>

ExchangeFails(f) == lane[f].at \in {"dial", "open"} /\ NextServer(f) /\ ExchangeOver(f)

\* SetDeadline fails: exchange returns without a Close.
SetDeadlineFails(f) ==
    /\ lane[f].at = "open" /\ unclosed < MaxUnclosed
    /\ NextServer(f)
    /\ unclosed' = unclosed + 1
    /\ Lookup /\ UNCHANGED <<remaining, sockets>>

\* A truncated answer is asked for again by TCP; truncated there it is no answer.
Truncated(f) ==
    /\ lane[f].at = "open" /\ remaining > 0
    /\ IF lane[f].udp THEN lane' = [lane EXCEPT ![f] = Fresh("dial", @.server, @.round, FALSE)] ELSE NextServer(f)
    /\ ExchangeOver(f)

\* checkHeader and skipToAnswer: a server that fails is passed over, one that knows
\* no such name ends the look-up of this family.
Answered(f) ==
    /\ lane[f].at = "open" /\ remaining > 0
    /\ NextServer(f) \/ \E at \in {"found", "corrupt", "notfound"} : LaneEnds(f, at)
    /\ ExchangeOver(f)

\* Mutant: a lane's error drops what the other found.
Collect_ErrorWins(f) ==
    /\ lane[f].at \in {"found", "corrupt", "failed", "notfound"} /\ dialling = "lookup"
    /\ LaneGoes(f, IF lane[f].at = "found" THEN "took" ELSE "gone")
    /\ laneErr' = (laneErr \/ lane[f].at # "found")
    /\ \E n \in 1..2 :
          found' = IF laneErr' THEN [g \in Families |-> 0] ELSE [found EXCEPT ![f] = n]
    /\ UNCHANGED <<families, network, addrs, total, tried, allowed, remaining, left, dialling, cancelled, sockets, unclosed>>

\* LookupContextHost takes the lanes' results as they come. An answer that breaks
\* off sets the error and keeps the addresses before it.
Collect(f) ==
    /\ lane[f].at \in {"found", "corrupt", "failed", "notfound"} /\ dialling = "lookup"
    /\ laneErr' = (laneErr \/ lane[f].at # "found")
    /\ \E n \in 0..2 :
          /\ lane[f].at = "found" => n > 0
          /\ lane[f].at \in {"failed", "notfound"} => n = 0
          /\ found' = [found EXCEPT ![f] = n]
          /\ LaneGoes(f, IF n > 0 THEN "took" ELSE "gone")
    /\ UNCHANGED <<families, network, addrs, total, tried, allowed, remaining, left, dialling, cancelled, sockets, unclosed>>

\* How many addresses of a family the network asked for accepts.
Fit(f) == IF f \in network.accept THEN found[f] ELSE 0

\* The look-up's end: the addresses accepted, those of the sixth version first.
LookupEnds ==
    LET fit == [i \in 1..(Fit("v6") + Fit("v4")) |-> IF i <= Fit("v6") THEN "v6" ELSE "v4"]
    IN /\ dialling = "lookup" /\ \A f \in families : lane[f].at \in {"took", "gone"}
       /\ addrs' = fit /\ total' = Len(fit)
       /\ left' = remaining
       /\ dialling' = IF fit = <<>> THEN "failed" ELSE "dial"
       /\ UNCHANGED <<families, network, lane, laneErr, found, tried, allowed, remaining, cancelled, sockets, unclosed>>

-----------------------------------------------------------------------------
\* Mutant: the first address may take all.
partialDeadline_All(addrsRemaining) == remaining

\* An equal share of what is left, but not less than SaneMinimum.
partialDeadline(addrsRemaining) ==
    IF remaining = NoDeadline THEN NoDeadline
    ELSE IF remaining \div addrsRemaining >= SaneMinimum THEN remaining \div addrsRemaining
    ELSE IF remaining < SaneMinimum THEN remaining ELSE SaneMinimum

\* The head of the loop: the context is done, or its time is over.
DialGivesUp ==
    /\ dialling = "dial" /\ (cancelled \/ remaining = 0)
    /\ dialling' = "failed"
    /\ UNCHANGED <<families, network, lane, laneErr, found, addrs, total, tried, allowed, remaining, left, cancelled, sockets, unclosed>>

\* Mutant: whatever was opened stays open.
Opened_Always(ok) == TRUE

\* Whether an attempt leaves a socket open: a ping's endpoint is not closed when its
\* Connect fails.
Opened(ok) == ok \/ network.proto = "ping"

\* An address is dialled, for at most its share when it is TCP.
DialOne(ok) ==
    /\ dialling = "dial" /\ ~cancelled /\ remaining > 0 /\ addrs # <<>>
    /\ tried' = tried + 1
    /\ addrs' = Tail(addrs)
    /\ \E used \in 0..(IF network.proto = "tcp" /\ remaining # NoDeadline THEN partialDeadline(Len(addrs)) ELSE 0) :
          remaining' = remaining - used
    /\ sockets' = IF Opened(ok) THEN sockets + 1 ELSE sockets
    /\ dialling' = IF ok THEN "ok" ELSE IF addrs' = <<>> THEN "failed" ELSE "dial"
    /\ UNCHANGED <<families, network, lane, laneErr, found, total, allowed, left, cancelled, unclosed>>

Cancel ==
    /\ ~cancelled /\ dialling \in {"lookup", "dial"}
    /\ cancelled' = TRUE
    /\ UNCHANGED <<families, network, lane, laneErr, found, addrs, total, tried, allowed, remaining, left, dialling, sockets, unclosed>>

System ==
    \/ \E f \in Families :
          \/ ExchangeOpens(f) \/ ExchangeFails(f) \/ SetDeadlineFails(f)
          \/ Truncated(f) \/ Answered(f) \/ Collect(f)
    \/ TimePasses \/ LookupEnds \/ DialGivesUp \/ \E ok \in BOOLEAN : DialOne(ok)

Next == System \/ Cancel

-----------------------------------------------------------------------------
\* Shapes of the state.
TypeOK ==
    /\ families \subseteq Families
    /\ lane \in [Families -> Lane]
    /\ found \in [Families -> 0..2]
    /\ addrs \in Seq(Families) /\ {total, tried} \subseteq 0..4
    /\ {allowed, remaining, left} \subseteq 0..NoDeadline
    /\ dialling \in {"lookup", "dial", "ok", "failed"}
    /\ unclosed \in 0..MaxUnclosed /\ sockets \in 0..(MaxUnclosed + 4)

\* One family's failure hides nothing: a look-up one of whose families was answered
\* goes on to dial, unless the network asked for excludes what was found.
OneFamilyIsEnough ==
    dialling = "failed" /\ total = 0 =>
        \A f \in families \cap network.accept : lane[f].at = "gone"

\* The longest look-up: every server asked in both rounds, by UDP and by TCP, and
\* slow each time.
LookupTime == Rounds * DnsServers * 2 * ExchangeTime

\* Slow servers cost the caller no more than that: the two families ask at the same
\* time, and no exchange outlasts its own deadline.
LookupIsBounded == allowed # NoDeadline /\ dialling # "lookup" => allowed <= left + LookupTime

\* A dial that failed although the look-up left enough time, a SaneMinimum for each
\* address, has tried every address: the slow ones use up their own share and no
\* more.
EveryAddressIsTried ==
    dialling = "failed" /\ ~cancelled /\ left >= SaneMinimum * total => tried = total

\* A failed dial leaves no socket behind, nor does its look-up: only a ping's, and
\* those of exchanges whose SetDeadline failed.
FailedDialLeavesNothing == dialling = "failed" => sockets = unclosed \/ network.proto = "ping"

\* A dial ends, whatever the servers answer or leave unanswered and whether or not
\* the context is cancelled: the look-up does not look at it.
DialEnds == <>(dialling \in {"ok", "failed"})

=============================================================================
