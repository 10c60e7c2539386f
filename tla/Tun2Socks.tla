----------------------------- MODULE Tun2Socks -----------------------------
(* lwip/lwip.go: a tun2socks instance on a file descriptor that a mobile app hands
   over.  Start replaces the package's globals (device, stack, pipe), Stop takes
   them down; one caller calls them in turn while the pipe, a goroutine that copies
   from the device to the stack, reads the globals whenever it copies anew.

   A device, stack or pipe is the number of the Start that made it.  The stack and
   runner.Task are libraries: a task runs until its function returns, and stopping
   one sets a flag that the function asks for.                                  *)
EXTENDS Naturals, FiniteSets

CONSTANTS MaxErrors,   \* maxErrorTimes (20)
          MaxInstances \* bound: calls of Start

VARIABLES lwipAt,      \* where the caller is
          starts,      \* calls of Start
          tunDev, devsOpen,
          lwipStack, stacksOpen,
          pipeTask,    \* lwipTUNDataPipeTask, 0 for nil
          pipes,       \* pipe -> where it is and what it copies
          pipeResult   \* what the last call returned

lwipVars == <<lwipAt, starts, tunDev, devsOpen, lwipStack, stacksOpen, pipeTask, pipes, pipeResult>>

NoPipe == [at |-> "none", from |-> 0, to |-> 0, errors |-> 0, stop |-> FALSE]

Init == /\ lwipAt = "idle" /\ starts = 0
        /\ tunDev = 0 /\ devsOpen = {} /\ lwipStack = 0 /\ stacksOpen = {} /\ pipeTask = 0
        /\ pipes = [p \in 1..MaxInstances |-> NoPipe]
        /\ pipeResult = "none"

Running(p) == p # 0 /\ pipes[p].at \in {"loop", "copy"}
AskToStop(p) == pipes' = [pipes EXCEPT ![p].stop = TRUE]

-----------------------------------------------------------------------------
\* Start opens the device; the one it had stays open.
StartOpens ==
    /\ lwipAt = "idle" /\ starts < MaxInstances
    /\ starts' = starts + 1 /\ tunDev' = starts' /\ devsOpen' = devsOpen \cup {starts'}
    /\ lwipAt' = "stack"
    /\ UNCHANGED <<lwipStack, stacksOpen, pipeTask, pipes, pipeResult>>

\* It closes the stack it had and makes another.  The address of the proxy is used
\* before the error of its resolution is looked at.
StartStack ==
    /\ lwipAt = "stack"
    /\ lwipStack' = starts /\ stacksOpen' = (stacksOpen \ {lwipStack}) \cup {starts}
    /\ lwipAt' \in {"replace", "panicked"}
    /\ UNCHANGED <<starts, tunDev, devsOpen, pipeTask, pipes, pipeResult>>

\* Mutant: the old pipe is told to stop, and not waited for.
StartReplaces_Hurries ==
    /\ lwipAt = "replace" /\ lwipAt' = "pipe"
    /\ IF Running(pipeTask) THEN AskToStop(pipeTask) ELSE UNCHANGED pipes
    /\ UNCHANGED <<starts, tunDev, devsOpen, lwipStack, stacksOpen, pipeTask, pipeResult>>

StartReplaces ==
    /\ lwipAt = "replace"
    /\ IF Running(pipeTask) THEN AskToStop(pipeTask) /\ lwipAt' = "wait"
       ELSE lwipAt' = "pipe" /\ UNCHANGED pipes
    /\ UNCHANGED <<starts, tunDev, devsOpen, lwipStack, stacksOpen, pipeTask, pipeResult>>

StartWaits ==
    /\ lwipAt = "wait" /\ ~Running(pipeTask) /\ lwipAt' = "pipe"
    /\ UNCHANGED <<starts, tunDev, devsOpen, lwipStack, stacksOpen, pipeTask, pipes, pipeResult>>

StartRuns ==
    /\ lwipAt = "pipe"
    /\ pipeTask' = starts
    /\ pipes' = [pipes EXCEPT ![starts] = [NoPipe EXCEPT !.at = "loop", !.errors = MaxErrors]]
    /\ lwipAt' = "idle" /\ pipeResult' = "started"
    /\ UNCHANGED <<starts, tunDev, devsOpen, lwipStack, stacksOpen>>

-----------------------------------------------------------------------------
Returns(r) == lwipAt' = "idle" /\ pipeResult' = r

\* Mutant: the device is left to its owner.
StopBegins_KeepsDevice ==
    /\ lwipAt = "idle" /\ tunDev \in devsOpen
    /\ lwipAt' = "ask" /\ UNCHANGED pipeResult
    /\ UNCHANGED <<starts, tunDev, devsOpen, lwipStack, stacksOpen, pipeTask, pipes>>

\* Stop closes the device, which may fail and does when it is closed already.
StopBegins ==
    /\ lwipAt = "idle" /\ tunDev # 0
    /\ \/ /\ tunDev \in devsOpen /\ devsOpen' = devsOpen \ {tunDev}
          /\ lwipAt' = "ask" /\ UNCHANGED pipeResult
       \/ Returns("not stopped") /\ UNCHANGED devsOpen
    /\ UNCHANGED <<starts, tunDev, lwipStack, stacksOpen, pipeTask, pipes>>

\* A pipe that has given up before leaves nothing to do, and the stack open.
StopAsks ==
    /\ lwipAt = "ask"
    /\ IF Running(pipeTask) THEN AskToStop(pipeTask) /\ lwipAt' = "join" /\ UNCHANGED pipeResult
       ELSE Returns("not stopped") /\ UNCHANGED pipes
    /\ UNCHANGED <<starts, tunDev, devsOpen, lwipStack, stacksOpen, pipeTask>>

\* Mutant: the stack is closed while the pipe still writes to it.
StopJoins_Hurries ==
    /\ lwipAt = "join"
    /\ stacksOpen' = stacksOpen \ {lwipStack} /\ Returns("stopped")
    /\ UNCHANGED <<starts, tunDev, devsOpen, lwipStack, pipeTask, pipes>>

StopJoins ==
    /\ lwipAt = "join" /\ ~Running(pipeTask)
    /\ stacksOpen' = stacksOpen \ {lwipStack} /\ Returns("stopped")
    /\ UNCHANGED <<starts, tunDev, devsOpen, lwipStack, pipeTask, pipes>>

-----------------------------------------------------------------------------
\* The pipe begins to copy between what the globals hold now ...
PipeCopies(p) ==
    /\ pipes[p].at = "loop"
    /\ pipes' = [pipes EXCEPT ![p].at = "copy", ![p].from = tunDev, ![p].to = lwipStack]
    /\ UNCHANGED <<lwipAt, starts, tunDev, devsOpen, lwipStack, stacksOpen, pipeTask, pipeResult>>

\* ... and when an end fails, or the device has no more, asks whether to go on.
PipeReturns(p, failed) ==
    /\ pipes[p].at = "copy" /\ (pipes[p].from \notin devsOpen => failed)
    /\ LET errors == IF failed THEN pipes[p].errors - 1 ELSE pipes[p].errors
       IN pipes' = [pipes EXCEPT ![p].errors = errors,
                                 ![p].at = IF pipes[p].stop \/ errors = 0 THEN "ended" ELSE "loop"]
    /\ UNCHANGED <<lwipAt, starts, tunDev, devsOpen, lwipStack, stacksOpen, pipeTask, pipeResult>>

\* Steps that nothing outside decides: a read of a closed device fails.
LwipSystem ==
    \/ StartStack \/ StartReplaces \/ StartWaits \/ StartRuns \/ StopAsks \/ StopJoins
    \/ \E p \in 1..MaxInstances :
          PipeCopies(p) \/ (pipes[p].from \notin devsOpen /\ PipeReturns(p, TRUE))

Next == \/ LwipSystem \/ StartOpens \/ StopBegins
        \/ \E p \in 1..MaxInstances, failed \in BOOLEAN : PipeReturns(p, failed)

-----------------------------------------------------------------------------
\* Shapes of the state.
TypeOK ==
    /\ lwipAt \in {"idle", "stack", "replace", "wait", "pipe", "ask", "join", "panicked"}
    /\ {starts, tunDev, lwipStack, pipeTask} \cup devsOpen \cup stacksOpen \subseteq 0..MaxInstances
    /\ \A p \in 1..MaxInstances :
          /\ pipes[p].at \in {"none", "loop", "copy", "ended"}
          /\ pipes[p].errors \in 0..MaxErrors /\ pipes[p].stop \in BOOLEAN
    /\ pipeResult \in {"none", "started", "stopped", "not stopped"}

\* Between calls one pipe runs at most, and it copies from the present device to the
\* present stack although it reads the globals while Start and Stop replace them.
PipeIsCurrent ==
    lwipAt = "idle" => \A p \in 1..MaxInstances : Running(p) =>
        /\ p = pipeTask
        /\ pipes[p].at = "copy" => pipes[p].from = tunDev /\ pipes[p].to = lwipStack

\* When Stop says that it stopped, the pipe has ended and device and stack are
\* closed; when it says that it did not, the stack is left open under a closed
\* device only if the pipe had given up.
StopIsComplete ==
    lwipAt = "idle" /\ tunDev # 0 /\ tunDev \notin devsOpen =>
        /\ ~Running(pipeTask)
        /\ lwipStack \in stacksOpen => pipeResult = "not stopped" /\ pipes[pipeTask].errors = 0

\* Stop returns: with its device closed the pipe comes to its end.
StopReturns == lwipAt \in {"ask", "join"} ~> lwipAt = "idle"

\* Start returns, unless it waits for a pipe that reads a device which is open,
\* because Start does not close the device it replaces.
StartReturns ==
    lwipAt \in {"stack", "replace", "wait", "pipe"} ~>
        lwipAt \in {"idle", "panicked"} \/ (\E p \in 1..MaxInstances : pipes[p].at = "copy" /\ pipes[p].from \in devsOpen)

=============================================================================
