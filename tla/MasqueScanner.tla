---------------------------- MODULE MasqueScanner ----------------------------
(***************************************************************************)
(* masque/scanner.go: the scan for MASQUE endpoints.  Candidates are made  *)
(* of the custom endpoints and of ranges times ports; workers take them    *)
(* from a buffered channel and send results to the collector, and Stop or  *)
(* the context ends the scan early.  The test itself is disabled in the    *)
(* code: whatever the ping says, the result is a failure.                  *)
(***************************************************************************)
EXTENDS Integers, Sequences, FiniteSets, SequencesExt

CONSTANTS
    MasqueWorkers, \* config.Workers
    Stoppers,      \* goroutines that call Stop
    MaxEndpoints,  \* config.MaxEndpoints
    Ports,         \* config.Ports, a sequence
    Customs,       \* sets of values of config.CustomEndpoints (sequences)
    RangeLists     \* values of config's ranges: sequences of [first, size, v4]

VARIABLES
    custom,    \* CustomEndpoints
    early,     \* EarlyExit
    candidates,\* what is to be tested, in order
    jobs,      \* the channel of jobs
    jobsClosed,\* the sender has closed it
    nextJob,   \* next candidate to send
    worker,    \* worker -> "idle", "done", or what it holds
    resultChan,\* the channel of results
    resultsClosed,
    recorded,  \* s.results
    stopClosed,\* number of times stopChan was closed
    stopFlag,  \* s.stopped
    stopper,   \* caller of Stop -> "out", "in" or "back"
    ctxDone,
    scanned    \* Scan returned

masqueVars == <<custom, early, candidates, jobs, jobsClosed, nextJob, worker, resultChan,
                resultsClosed, recorded, stopClosed, stopFlag, stopper, ctxDone, scanned>>

Idle == [at |-> "idle"]
Done == [at |-> "done"]

\* An address of a range is skipped when it is the first, or for IPv4 the last.
isNetworkOrBroadcast(ip, r) == ip = r.first \/ (r.v4 /\ ip = r.first + r.size - 1)

\* The addresses of a range in order, at least one and at most max of them: only its
\* ends are skipped, the first of them always.
expandCIDR(r, max) ==
    LET usable == {ip \in r.first .. r.first + r.size - 1 : ~isNetworkOrBroadcast(ip, r)}
        n      == IF max < 1 THEN 1 ELSE max
    IN  [k \in 1 .. (IF Cardinality(usable) > n THEN n ELSE Cardinality(usable)) |-> r.first + k]

Endpoints(ips) ==
    [k \in 1 .. Len(ips) * Len(Ports) |->
        <<ips[((k - 1) \div Len(Ports)) + 1], Ports[((k - 1) % Len(Ports)) + 1]>>]

\* Candidates of the ranges after those already there; the loop ends, in the middle
\* of a range, once there are MaxEndpoints.
expanded(have, ranges) ==
    LET Add(acc, r) ==
          IF Len(acc) > Len(have) /\ Len(acc) >= MaxEndpoints THEN acc
          ELSE LET more == Endpoints(expandCIDR(r, MaxEndpoints - Len(acc)))
                   room == IF MaxEndpoints > Len(acc) THEN MaxEndpoints - Len(acc) ELSE 1
               IN  acc \o (IF Len(more) > room THEN SubSeq(more, 1, room) ELSE more)
    IN  FoldLeft(Add, have, ranges)

\* Custom endpoints come first; without them and without ranges there are default
\* ranges (external: the first of RangeLists); the rest may be shuffled.
generateCandidates(have, ranges) ==
    LET all == expanded(have, IF ranges = <<>> /\ have = <<>> THEN CHOOSE d \in RangeLists : d # <<>> ELSE ranges)
    IN  IF Len(all) > MaxEndpoints THEN SubSeq(all, 1, MaxEndpoints) ELSE all

Init ==
    /\ custom \in Customs /\ early \in BOOLEAN
    /\ \E ranges \in RangeLists : candidates = generateCandidates(custom, ranges)
    /\ jobs = <<>> /\ jobsClosed = FALSE /\ nextJob = 1
    /\ worker = [w \in MasqueWorkers |-> Idle]
    /\ resultChan = <<>> /\ resultsClosed = FALSE /\ recorded = <<>>
    /\ stopClosed = 0 /\ stopFlag = FALSE /\ ctxDone = FALSE
    /\ stopper = [t \in Stoppers |-> "out"]
    /\ scanned = (candidates = <<>>)

Stopped == stopClosed > 0 \/ ctxDone

chans == <<jobs, jobsClosed, nextJob, resultChan, resultsClosed>>
config == <<custom, early, candidates>>
stops == <<stopClosed, stopFlag, stopper, ctxDone>>

\* The sender: the channel has room for every candidate; a break leaves its select only.
SendJob ==
    /\ ~scanned /\ ~jobsClosed /\ nextJob <= Len(candidates)
    /\ \/ jobs' = Append(jobs, candidates[nextJob])
       \/ Stopped /\ UNCHANGED jobs
    /\ nextJob' = nextJob + 1
    /\ UNCHANGED <<config, jobsClosed, worker, resultChan, resultsClosed, recorded, stops, scanned>>

CloseJobs ==
    /\ ~jobsClosed /\ nextJob > Len(candidates) /\ candidates # <<>>
    /\ jobsClosed' = TRUE
    /\ UNCHANGED <<config, jobs, nextJob, worker, resultChan, resultsClosed, recorded, stops, scanned>>

TakeJob(w) ==
    /\ worker[w] = Idle /\ jobs # <<>>
    /\ jobs' = Tail(jobs)
    /\ worker' = [worker EXCEPT ![w] = [at |-> "testing", endpoint |-> Head(jobs)]]
    /\ UNCHANGED <<config, jobsClosed, nextJob, resultChan, resultsClosed, recorded, stops, scanned>>

\* Mutant: the test is switched on again.
testEndpoint_Works == BOOLEAN

\* The outcome of testEndpoint: a failure, with or without the ping.
testEndpoint == {FALSE}

\* The test of an endpoint ends; its result is to be sent.
Tested(w) ==
    /\ worker[w].at = "testing"
    /\ \E ok \in testEndpoint :
         worker' = [worker EXCEPT ![w] = [at |-> "sending", endpoint |-> @.endpoint, success |-> ok]]
    /\ UNCHANGED <<config, chans, recorded, stops, scanned>>

\* Mutant: a result that finds the channel full is dropped.
SendResult_Offers(w) ==
    /\ worker[w].at = "sending"
    /\ resultChan' = IF Len(resultChan) < Cardinality(MasqueWorkers)
                     THEN Append(resultChan, [endpoint |-> worker[w].endpoint, success |-> worker[w].success])
                     ELSE resultChan
    /\ worker' = [worker EXCEPT ![w] = Idle]
    /\ UNCHANGED <<config, jobs, jobsClosed, nextJob, resultsClosed, recorded, stops, scanned>>

SendResult(w) ==
    /\ worker[w].at = "sending"
    /\ Len(resultChan) < Cardinality(MasqueWorkers)
    /\ resultChan' = Append(resultChan, [endpoint |-> worker[w].endpoint, success |-> worker[w].success])
    /\ worker' = [worker EXCEPT ![w] = Idle]
    /\ UNCHANGED <<config, jobs, jobsClosed, nextJob, resultsClosed, recorded, stops, scanned>>

\* Mutant: a worker does not see that the jobs are closed.
WorkerLeaves_Stopped(w) ==
    /\ ~scanned /\ candidates # <<>>
    /\ worker[w].at \in {"idle", "sending"} /\ Stopped
    /\ worker' = [worker EXCEPT ![w] = Done]
    /\ UNCHANGED <<config, chans, recorded, stops, scanned>>

\* A worker returns: no jobs are left, or it sees the stop in one of its selects.
WorkerLeaves(w) ==
    /\ ~scanned /\ candidates # <<>>
    /\ \/ worker[w] = Idle /\ jobsClosed /\ jobs = <<>>
       \/ worker[w].at \in {"idle", "sending"} /\ Stopped
    /\ worker' = [worker EXCEPT ![w] = Done]
    /\ UNCHANGED <<config, chans, recorded, stops, scanned>>

CloseResults ==
    /\ ~resultsClosed /\ \A w \in MasqueWorkers : worker[w] = Done
    /\ resultsClosed' = TRUE
    /\ UNCHANGED <<config, jobs, jobsClosed, nextJob, worker, resultChan, recorded, stops, scanned>>

\* The collector records a result; the first success stops the scan if EarlyExit says so,
\* without telling Stop.
Collect ==
    /\ ~scanned /\ resultChan # <<>>
    /\ LET r == Head(resultChan)
       IN  /\ recorded' = Append(recorded, r)
           /\ stopClosed' = IF r.success /\ early /\ \A k \in DOMAIN recorded : ~recorded[k].success
                            THEN stopClosed + 1 ELSE stopClosed
    /\ resultChan' = Tail(resultChan)
    /\ UNCHANGED <<config, jobs, jobsClosed, nextJob, worker, resultsClosed, stopFlag, stopper, ctxDone, scanned>>

ScanReturns ==
    /\ ~scanned /\ resultsClosed /\ resultChan = <<>>
    /\ scanned' = TRUE
    /\ UNCHANGED <<config, chans, worker, recorded, stops>>

\* Stop: the swap decides who closes; the close is a step of its own.
Stop(t) ==
    /\ stopper[t] = "out"
    /\ stopFlag' = TRUE
    /\ stopper' = [stopper EXCEPT ![t] = IF stopFlag THEN "back" ELSE "in"]
    /\ UNCHANGED <<config, chans, worker, recorded, stopClosed, ctxDone, scanned>>

StopCloses(t) ==
    /\ stopper[t] = "in"
    /\ stopClosed' = stopClosed + 1
    /\ stopper' = [stopper EXCEPT ![t] = "back"]
    /\ UNCHANGED <<config, chans, worker, recorded, stopFlag, ctxDone, scanned>>

CancelScan ==
    /\ ~ctxDone
    /\ ctxDone' = TRUE
    /\ UNCHANGED <<config, chans, worker, recorded, stopClosed, stopFlag, stopper, scanned>>

MasqueSystem ==
    \/ SendJob \/ CloseJobs \/ CloseResults \/ Collect \/ ScanReturns
    \/ \E w \in MasqueWorkers : TakeJob(w) \/ Tested(w) \/ SendResult(w) \/ WorkerLeaves(w)

Next ==
    \/ MasqueSystem
    \/ \E t \in Stoppers : Stop(t) \/ StopCloses(t)
    \/ CancelScan

\* Values of the channels and of the counters.
TypeOK ==
    /\ Len(jobs) <= Len(candidates) /\ Len(resultChan) <= Cardinality(MasqueWorkers)
    /\ nextJob \in 1 .. Len(candidates) + 1 /\ stopClosed \in Nat
    /\ Len(candidates) <= MaxEndpoints

(***************************************************************************)
(* stopChan is closed at most once, whoever stops the scan and however     *)
(* many call Stop: a second close panics.  EarlyExit's own close does not  *)
(* set the flag that Stop swaps; it is out of reach only while the         *)
(* endpoint test is disabled.                                              *)
(***************************************************************************)
StopClosesOnce == stopClosed <= 1

(***************************************************************************)
(* A scan that nobody stopped has a result for every candidate, once, and  *)
(* every custom endpoint that fits is among them.                          *)
(***************************************************************************)
EveryCandidateHasAResult ==
    scanned /\ ~Stopped =>
        /\ \A c \in Range(candidates) :
             Cardinality({k \in DOMAIN recorded : recorded[k].endpoint = c})
                = Cardinality({k \in DOMAIN candidates : candidates[k] = c})
        /\ \A k \in DOMAIN custom : k <= MaxEndpoints => custom[k] \in Range(candidates)

\* Scan returns: no worker is left waiting for a collector that has gone.
MasqueScanEnds == <>scanned
=============================================================================
