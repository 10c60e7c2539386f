------------------------------ MODULE ScanEngine ------------------------------
(***************************************************************************)
(* ipscanner/engine: the pipeline of a scan.  A generator feeds candidates *)
(* to a stream, an ICMP and a TCP stage (a pool of workers that filter, or *)
(* one goroutine that passes everything on) feed the next stream, and the  *)
(* WARP workers put what answers into a queue that keeps the best.  All    *)
(* share a context that the caller or a WARP worker cancels.               *)
(*                                                                         *)
(* A candidate is the number of milliseconds it takes to answer: the order *)
(* of a stream does not matter, so the place of every candidate is the     *)
(* whole state of the streams and of the workers that hold one.            *)
(***************************************************************************)
EXTENDS Integers, Sequences, FiniteSets, SequencesExt

CONSTANTS
    Candidates,  \* set of numbers: allCandidateIPInfos
    Concurrency, \* ConcurrentScanners
    Stops,       \* values of StopOnFirstGoodIPs
    QueueSizes   \* values of IPQueueSize

VARIABLES
    ports,    \* TestPortsForIPs is given: the port scan runs instead
    filter,   \* stage -> it filters (stages 1 and 2)
    stop,     \* StopOnFirstGoodIPs
    maxQueue, \* IPQueueSize
    place,    \* candidate -> where it is
    live,     \* stage -> workers that have not returned
    closed,   \* stream -> closed; stream s feeds stage s
    cancelled,\* the context is done
    asked,    \* the caller cancelled it, or its time ran out
    ipQueue,  \* ipQueue: the answers kept, best first
    answered, \* every candidate that answered
    scanOver  \* Run returned

scanVars == <<ports, filter, stop, maxQueue, place, live, closed, cancelled, asked, ipQueue, answered, scanOver>>

Stages  == 1 .. 3
In(s)   == <<"in", s>>    \* in stream s
Test(s) == <<"test", s>>  \* held by a worker of stage s, being tested
Out(s)  == <<"out", s>>   \* held by a worker of stage s, being sent on
New     == <<"new">>
Junk    == <<"junk">>     \* WarpPing sends its random packets
Await   == <<"await">>    \* WarpPing waits for the response
Kept    == <<"kept">>     \* in the queue, the worker has not counted yet
Gone    == <<"gone">>     \* no worker holds it any more

At(p) == {c \in Candidates : place[c] = p}
Held(s) == IF s < 3 THEN At(Test(s)) \cup At(Out(s)) ELSE At(Junk) \cup At(Await) \cup At(Kept)
Idle(s) == live[s] - Cardinality(Held(s))
Move(c, p) == place' = [place EXCEPT ![c] = p]

settings == <<ports, filter, stop, maxQueue>>
results == <<ipQueue, answered>>
context == <<cancelled, asked>>

Init ==
    /\ ports \in BOOLEAN
    /\ filter \in [1 .. 2 -> BOOLEAN]
    /\ stop \in Stops /\ maxQueue \in QueueSizes
    /\ place = [c \in Candidates |-> New]
    /\ live = [s \in Stages |-> IF ports THEN 0 ELSE IF s < 3 /\ ~filter[s] THEN 1 ELSE Concurrency]
    /\ closed = [s \in Stages |-> FALSE]
    /\ cancelled = FALSE /\ asked = FALSE
    /\ ipQueue = <<>> /\ answered = {} /\ scanOver = FALSE

\* The caller's context is cancelled or ScanTimeout runs out.
Cancel ==
    /\ ~scanOver /\ ~cancelled
    /\ cancelled' = TRUE /\ asked' = TRUE
    /\ UNCHANGED <<settings, place, live, closed, results, scanOver>>

\* The generator sends the next candidate.
Generate(c) ==
    /\ ~ports /\ place[c] = New /\ ~closed[1]
    /\ \A d \in Candidates : d < c => place[d] # New
    /\ Cardinality(At(In(1))) < Concurrency
    /\ Move(c, In(1))
    /\ UNCHANGED <<settings, live, closed, context, results, scanOver>>

\* It closes its stream after the last one, or when the context is done.
GenerateEnds ==
    /\ ~ports /\ ~closed[1]
    /\ At(New) = {} \/ cancelled
    /\ closed' = [closed EXCEPT ![1] = TRUE]
    /\ place' = [c \in Candidates |-> IF place[c] = New THEN Gone ELSE place[c]]
    /\ UNCHANGED <<settings, live, context, results, scanOver>>

Leaves(s) == live' = [live EXCEPT ![s] = @ - 1]

\* A worker takes the next candidate; a filter worker that finds the context done
\* returns with it, the goroutine that only passes on does not look.
Take(s, c) ==
    /\ place[c] = In(s) /\ Idle(s) > 0
    /\ IF (s = 3 \/ filter[s]) /\ cancelled
       THEN Move(c, Gone) /\ Leaves(s)
       ELSE /\ Move(c, IF s = 3 THEN Junk ELSE IF filter[s] THEN Test(s) ELSE Out(s))
            /\ UNCHANGED live
    /\ UNCHANGED <<settings, closed, context, results, scanOver>>

\* A worker finds its stream closed and empty.
WorkerEnds(s) ==
    /\ closed[s] /\ At(In(s)) = {} /\ Idle(s) > 0
    /\ Leaves(s)
    /\ UNCHANGED <<settings, place, closed, context, results, scanOver>>

\* ICMP or TCP ping: it answers fast enough, or is dropped.
Filter(s, c) ==
    /\ place[c] = Test(s)
    /\ \E good \in BOOLEAN : Move(c, IF good THEN Out(s) ELSE Gone)
    /\ UNCHANGED <<settings, live, closed, context, results, scanOver>>

\* A candidate is sent to the next stage, or its worker returns with the context.
SendOn(s, c) ==
    /\ place[c] = Out(s)
    /\ \/ /\ Cardinality(At(In(s + 1))) < Concurrency
          /\ Move(c, In(s + 1))
          /\ UNCHANGED live
       \/ /\ cancelled
          /\ Move(c, Gone)
          /\ Leaves(s)
    /\ UNCHANGED <<settings, closed, context, results, scanOver>>

\* Mutant: the stream is closed by the first worker that returns.
CloseNext_First(s) ==
    /\ ~ports /\ ~closed[s + 1] /\ live[s] < (IF filter[s] THEN Concurrency ELSE 1)
    /\ closed' = [closed EXCEPT ![s + 1] = TRUE]
    /\ UNCHANGED <<settings, place, live, context, results, scanOver>>

\* Mutant: a stage whose workers returned with the context leaves its stream open.
CloseNext_Forgets(s) ==
    /\ ~ports /\ ~closed[s + 1] /\ live[s] = 0 /\ ~cancelled
    /\ closed' = [closed EXCEPT ![s + 1] = TRUE]
    /\ UNCHANGED <<settings, place, live, context, results, scanOver>>

\* When all its workers have returned a stage closes the next stream.
CloseNext(s) ==
    /\ ~ports /\ ~closed[s + 1] /\ live[s] = 0
    /\ closed' = [closed EXCEPT ![s + 1] = TRUE]
    /\ UNCHANGED <<settings, place, live, context, results, scanOver>>

\* runPortScan starts a goroutine for every port, unless the context is done.
StartPort(c) ==
    /\ ports /\ ~scanOver /\ place[c] = New
    /\ \A d \in Candidates : d < c => place[d] # New
    /\ Move(c, IF cancelled THEN Gone ELSE Junk)
    /\ UNCHANGED <<settings, live, closed, context, results, scanOver>>

\* WarpPing polls the context between its random packets, then sends the handshake.
SendJunk(c) ==
    /\ place[c] = Junk
    /\ Move(c, IF cancelled THEN Gone ELSE Await)
    /\ UNCHANGED <<settings, live, closed, context, results, scanOver>>

NoAnswer(c) ==
    /\ place[c] \in {Junk, Await}
    /\ Move(c, Gone)
    /\ UNCHANGED <<settings, live, closed, context, results, scanOver>>

\* Mutant: the queue is cut before the new answer is put in its place.
Enqueued_CutFirst(q, c) ==
    LET r == IF maxQueue > 0 /\ Len(q) >= maxQueue THEN SubSeq(q, 2, Len(q)) ELSE q
        k == Cardinality({j \in DOMAIN r : r[j] <= c})
    IN  InsertAt(r, k + 1, c)

\* IPQueue.Enqueue: in its place by RTT, and the worst one is cut off.
Enqueued(q, c) ==
    LET k == Cardinality({j \in DOMAIN q : q[j] <= c})
        r == InsertAt(q, k + 1, c)
    IN  IF maxQueue > 0 /\ Len(r) > maxQueue THEN SubSeq(r, 1, Len(r) - 1) ELSE r

\* The response comes: it is waited for whatever became of the context.
Answer(c) ==
    /\ place[c] = Await
    /\ ipQueue' = Enqueued(ipQueue, c)
    /\ answered' = answered \cup {c}
    /\ Move(c, IF ports THEN Gone ELSE Kept)
    /\ UNCHANGED <<settings, live, closed, context, scanOver>>

\* Mutant: the count must be passed.
Count_Above(c) ==
    /\ place[c] = Kept
    /\ Move(c, Gone)
    /\ cancelled' = (cancelled \/ (stop > 0 /\ Len(ipQueue) > stop))
    /\ UNCHANGED <<settings, live, closed, asked, results, scanOver>>

\* The worker reads the queue's size, after the answers of others, and may stop the scan.
Count(c) ==
    /\ place[c] = Kept
    /\ Move(c, Gone)
    /\ cancelled' = (cancelled \/ (stop > 0 /\ Len(ipQueue) >= stop))
    /\ UNCHANGED <<settings, live, closed, asked, results, scanOver>>

\* masterWg.Wait (the port scan's wg.Wait) returns.
RunEnds ==
    /\ ~scanOver
    /\ IF ports THEN \A c \in Candidates : place[c] = Gone
       ELSE (\A s \in Stages : closed[s]) /\ live[3] = 0
    /\ scanOver' = TRUE
    /\ UNCHANGED <<settings, place, live, closed, context, results>>

ScanSystem ==
    \/ GenerateEnds \/ RunEnds
    \/ \E s \in Stages : WorkerEnds(s)
    \/ \E s \in 1 .. 2 : CloseNext(s)
    \/ \E c \in Candidates :
         \/ Generate(c) \/ StartPort(c)
         \/ SendJunk(c) \/ NoAnswer(c) \/ Answer(c) \/ Count(c)
         \/ \E s \in Stages : Take(s, c)
         \/ \E s \in 1 .. 2 : Filter(s, c) \/ SendOn(s, c)

Next == Cancel \/ ScanSystem

\* Places, workers and results have their values.
TypeOK ==
    /\ live \in [Stages -> 0 .. Concurrency]
    /\ \A s \in Stages : Idle(s) >= 0 \/ ports
    /\ Range(ipQueue) \subseteq answered /\ answered \subseteq Candidates

(***************************************************************************)
(* Nobody sends on a stream that is closed: a stage closes its output only *)
(* after its last worker has returned.                                     *)
(***************************************************************************)
NoSendOnClosedStream ==
    \A s \in 1 .. 2 : closed[s + 1] => At(Out(s)) \cup At(Test(s)) = {}

(***************************************************************************)
(* The queue is the best of everything that answered, in order, whatever   *)
(* the order in which the answers came and however often it was trimmed.   *)
(***************************************************************************)
QueueHoldsTheBest ==
    /\ \A j, k \in DOMAIN ipQueue : j < k => ipQueue[j] < ipQueue[k]
    /\ \A c \in answered \ Range(ipQueue) : \A d \in Range(ipQueue) : d < c
    /\ Len(ipQueue) = (IF maxQueue > 0 /\ Cardinality(answered) > maxQueue THEN maxQueue ELSE Cardinality(answered))

(***************************************************************************)
(* A scan that is to stop at a number of good endpoints finds at most one  *)
(* more per other worker, provided that many fit into the queue: the size  *)
(* that is compared is that of the trimmed queue.                          *)
(***************************************************************************)
StopIsHeeded ==
    ~ports /\ stop > 0 /\ (maxQueue = 0 \/ maxQueue >= stop) =>
        Cardinality(answered) <= stop + Concurrency - 1

\* Every scan ends, stopped or not: no stage waits for another for ever.
ScanEnds == <>scanOver
=============================================================================
