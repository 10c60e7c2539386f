---------------------------- MODULE UdpForwarder ----------------------------
(***************************************************************************)
(* wiresocks/udpfw.go: NewVtunUDPForwarder, which carries WARP in WARP's   *)
(* inner tunnel through the outer one. A local socket and a socket in the  *)
(* network stack, a goroutine that reads each, and one that closes both.   *)
(* The goroutines share clientAddr, the sender of the last packet, without *)
(* a lock.                                                                 *)
(***************************************************************************)
CONSTANT Senders \* local addresses packets come from

VARIABLES
    cancelled,  \* the context is cancelled
    started,    \* "resolve", "listen", "dial", "running" or "failed"
    open,       \* the sockets that are open, of {"local", "stack"}
    loop,       \* socket -> its goroutine: "none", "test", "read" or "done"
    clientAddr, \* sender of the last local packet, or "nil"
    answered    \* who was sent the last answer, or "nil"

fwVars == <<cancelled, started, open, loop, clientAddr, answered>>

Sides == {"local", "stack"}

Init ==
    /\ cancelled = FALSE
    /\ started = "resolve"
    /\ open = {}
    /\ loop = [s \in Sides |-> "none"]
    /\ clientAddr = "nil"
    /\ answered = "nil"

\* The set-up; when a later step fails, what an earlier one opened stays open.
Starts ==
    /\ started \in {"resolve", "listen", "dial"}
    /\ \/ started' = "failed" /\ UNCHANGED <<open, loop>>
       \/ started = "resolve" /\ started' = "listen" /\ UNCHANGED <<open, loop>>
       \/ started = "listen" /\ started' = "dial" /\ open' = {"local"} /\ UNCHANGED loop
       \/ /\ started = "dial"
          /\ started' = "running"
          /\ open' = Sides
          /\ loop' = [s \in Sides |-> "test"]
    /\ UNCHANGED <<cancelled, clientAddr, answered>>

Cancel ==
    /\ ~cancelled
    /\ cancelled' = TRUE
    /\ UNCHANGED <<started, open, loop, clientAddr, answered>>

\* Mutant: the loops do not look at the context.
Test_IgnoresContext(s) ==
    /\ loop[s] = "test"
    /\ loop' = [loop EXCEPT ![s] = "read"]
    /\ UNCHANGED <<cancelled, started, open, clientAddr, answered>>

\* The select at the head of a loop; a failed read comes back here.
Test(s) ==
    /\ loop[s] = "test"
    /\ loop' = [loop EXCEPT ![s] = IF cancelled THEN "done" ELSE "read"]
    /\ UNCHANGED <<cancelled, started, open, clientAddr, answered>>

\* A local packet goes out through the stack; its sender is remembered.
ForwardsOut(c) ==
    /\ loop["local"] = "read"
    /\ loop' = [loop EXCEPT !["local"] = "test"]
    /\ clientAddr' = c
    /\ UNCHANGED <<cancelled, started, open, answered>>

\* A packet of the stack goes to whoever sent last.
ForwardsIn ==
    /\ loop["stack"] = "read"
    /\ loop' = [loop EXCEPT !["stack"] = "test"]
    /\ answered' = IF clientAddr # "nil" THEN clientAddr ELSE answered
    /\ UNCHANGED <<cancelled, started, open, clientAddr>>

\* Mutant: the closing goroutine waits for one loop.
Closes_First ==
    /\ open = Sides
    /\ \E s \in Sides : loop[s] = "done"
    /\ open' = {}
    /\ UNCHANGED <<cancelled, started, loop, clientAddr, answered>>

\* wg.Wait, then both sockets.
Closes ==
    /\ open = Sides
    /\ \A s \in Sides : loop[s] = "done"
    /\ open' = {}
    /\ UNCHANGED <<cancelled, started, loop, clientAddr, answered>>

Next ==
    \/ Starts \/ Cancel \/ Closes \/ ForwardsIn
    \/ \E s \in Sides : Test(s)
    \/ \E c \in Senders : ForwardsOut(c)

\* The loops run.
System == Starts \/ Closes \/ \E s \in Sides : Test(s)

\* Packets keep coming on both sides, which is what ends a read.
Fairness ==
    /\ WF_fwVars(System) /\ WF_fwVars(ForwardsIn)
    /\ WF_fwVars(\E c \in Senders : ForwardsOut(c))

\* Shapes of the state.
TypeOK ==
    /\ cancelled \in BOOLEAN
    /\ started \in {"resolve", "listen", "dial", "running", "failed"}
    /\ open \subseteq Sides
    /\ loop \in [Sides -> {"none", "test", "read", "done"}]
    /\ {clientAddr, answered} \subseteq Senders \cup {"nil"}

\* No loop reads or writes a socket after it was closed: they use each other's
\* sockets, so the closing goroutine has to wait for both.
LoopsOwnTheSockets == \A s \in Sides : loop[s] \in {"test", "read"} => open = Sides

\* A cancelled forwarder gives its sockets back, as long as packets come on both of
\* them: the context is looked at only between two reads.
CancelClosesSockets == cancelled /\ started = "running" ~> open = {}

=============================================================================
