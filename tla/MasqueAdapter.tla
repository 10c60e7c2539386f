---------------------------- MODULE MasqueAdapter ----------------------------
(***************************************************************************)
(* masque/adapter.go, masque/connect_with_noize.go and the retry loop of   *)
(* runWarpWithMasque in app/app.go: a MASQUE adapter is made from a config *)
(* file, or from a new registration that is saved first, opens a UDP       *)
(* socket, dials QUIC and the IP connection over it and checks the answer. *)
(* The program may crash between any two steps and be started again.  The  *)
(* service and the QUIC library are external.                              *)
(***************************************************************************)
EXTENDS Integers, FiniteSets

CONSTANTS
    Attempts,     \* of runWarpWithMasque (3)
    MaxCrashes,   \* bound: crashes
    MaxDials,     \* bound: dials
    MaxRegistered \* bound: registrations

VARIABLES
    configFile, \* "none", "torn", "whole"
    registered, \* devices registered so far
    enrolled,   \* the device whose key is enrolled, 0 if none
    saved,      \* the device in configFile
    inUse,      \* the device of the config in memory
    adapterAt,  \* where NewMasqueAdapter or its caller is
    attempt,
    udp,        \* UDP sockets: open ones of this process
    ipConn,     \* the IP connection is open
    noizeOn,    \* junk is still sent
    withNoize,  \* NoizeConfig is given
    dialFails,  \* failed dials of this process
    dials, crashes

adapterVars == <<configFile, registered, enrolled, saved, inUse, adapterAt, attempt, udp, ipConn,
                 noizeOn, withNoize, dialFails, dials, crashes>>

regVars == <<configFile, registered, enrolled, saved, inUse>>
netVars == <<udp, ipConn, noizeOn, dialFails, dials>>

Init ==
    /\ configFile = "none" /\ registered = 0 /\ enrolled = 0 /\ saved = 0 /\ inUse = 0
    /\ adapterAt = "off" /\ attempt = 0
    /\ udp = 0 /\ ipConn = FALSE /\ noizeOn = FALSE /\ withNoize \in BOOLEAN
    /\ dialFails = 0 /\ dials = 0 /\ crashes = 0

At(a, b) == adapterAt = a /\ adapterAt' = b

\* The attempt fails: the next one, or the caller gives up.
Fails ==
    adapterAt' = IF attempt < Attempts THEN "retry" ELSE "gaveup"

Begin ==
    /\ adapterAt \in {"off", "retry"}
    /\ attempt' = (IF adapterAt = "off" THEN 1 ELSE attempt + 1)
    /\ adapterAt' = "load"
    /\ UNCHANGED <<regVars, netVars, withNoize, crashes>>

\* A config that does not load or is incomplete is removed.
LoadConfig ==
    /\ adapterAt = "load"
    /\ IF configFile = "whole"
       THEN adapterAt' = "endpoint" /\ inUse' = saved /\ UNCHANGED <<configFile, saved>>
       ELSE adapterAt' = "register" /\ configFile' = "none" /\ saved' = 0 /\ UNCHANGED inUse
    /\ UNCHANGED <<registered, enrolled, attempt, netVars, withNoize, crashes>>

Register ==
    /\ adapterAt = "register"
    /\ \/ registered < MaxRegistered /\ registered' = registered + 1 /\ adapterAt' = "enroll"
       \/ Fails /\ UNCHANGED registered
    /\ UNCHANGED <<configFile, enrolled, saved, inUse, attempt, netVars, withNoize, crashes>>

\* A key pair is made and enrolled; what the service answers is checked.
EnrollKey ==
    /\ adapterAt = "enroll"
    /\ \/ enrolled' = registered /\ inUse' = registered /\ adapterAt' = "create"
       \/ enrolled' \in {enrolled, registered} /\ Fails /\ UNCHANGED inUse
    /\ UNCHANGED <<configFile, registered, saved, attempt, netVars, withNoize, crashes>>

\* saveConfigFile: the file is created empty ...
SaveCreates ==
    /\ At("create", "write")
    /\ configFile' = "torn"
    /\ UNCHANGED <<registered, enrolled, saved, inUse, attempt, netVars, withNoize, crashes>>

\* ... and filled, or not.
SaveWrites ==
    /\ adapterAt = "write"
    /\ \/ configFile' = "whole" /\ saved' = inUse /\ adapterAt' = "verify"
       \/ Fails /\ UNCHANGED <<configFile, saved>>
    /\ UNCHANGED <<registered, enrolled, inUse, attempt, netVars, withNoize, crashes>>

\* The saved file is read again; a read that fails leaves the file as it is.
Verify ==
    /\ adapterAt = "verify"
    /\ adapterAt' = "endpoint" \/ Fails
    /\ UNCHANGED <<regVars, attempt, netVars, withNoize, crashes>>

\* Keys, certificate, TLS config, address and a UDP test; each may fail.
Prepare ==
    /\ adapterAt = "endpoint"
    /\ adapterAt' = "socket" \/ Fails
    /\ UNCHANGED <<regVars, attempt, netVars, withNoize, crashes>>

\* The socket is opened and, with a config, wrapped; its first junk goes out.
ListenUDP ==
    /\ adapterAt = "socket" /\ dials < MaxDials
    /\ \/ udp' = udp + 1 /\ noizeOn' = withNoize /\ adapterAt' = "dial"
       \/ Fails /\ UNCHANGED <<udp, noizeOn>>
    /\ UNCHANGED <<regVars, attempt, ipConn, dialFails, dials, withNoize, crashes>>

\* Mutant: obfuscation stays on in the tunnel.
Dial_Noisy ==
    /\ adapterAt = "dial" /\ dials' = dials + 1
    /\ \/ adapterAt' = "status" /\ ipConn' = TRUE /\ UNCHANGED dialFails
       \/ Fails /\ dialFails' = dialFails + 1 /\ UNCHANGED ipConn
    /\ UNCHANGED <<regVars, attempt, udp, noizeOn, withNoize, crashes>>

\* quic.Dial and connectip.Dial.  On failure the socket is returned with the error and
\* NewMasqueAdapter drops it; on success obfuscation is switched off.
Dial ==
    /\ adapterAt = "dial" /\ dials' = dials + 1
    /\ \/ adapterAt' = "status" /\ ipConn' = TRUE /\ noizeOn' = FALSE /\ UNCHANGED dialFails
       \/ Fails /\ dialFails' = dialFails + 1 /\ UNCHANGED <<ipConn, noizeOn>>
    /\ UNCHANGED <<regVars, attempt, udp, withNoize, crashes>>

\* Mutant: a refused tunnel keeps its socket.
CheckStatus_Keeps ==
    /\ adapterAt = "status"
    /\ \/ adapterAt' = "open" /\ UNCHANGED <<udp, ipConn>>
       \/ Fails /\ ipConn' = FALSE /\ UNCHANGED udp
    /\ UNCHANGED <<regVars, attempt, noizeOn, dialFails, dials, withNoize, crashes>>

\* Any answer but 200 closes the connection and the socket.
CheckStatus ==
    /\ adapterAt = "status"
    /\ \/ adapterAt' = "open" /\ UNCHANGED <<udp, ipConn>>
       \/ Fails /\ ipConn' = FALSE /\ udp' = udp - 1
    /\ UNCHANGED <<regVars, attempt, noizeOn, dialFails, dials, withNoize, crashes>>

\* Close closes the connection and its socket; the tunnel may then be made anew.
Close ==
    /\ At("open", "off")
    /\ ipConn' = FALSE /\ udp' = udp - 1
    /\ UNCHANGED <<regVars, attempt, noizeOn, dialFails, dials, withNoize, crashes>>

\* The process dies, and what the system kept for it goes.
Crash ==
    /\ adapterAt # "off" /\ crashes < MaxCrashes
    /\ crashes' = crashes + 1
    /\ adapterAt' = "off"
    /\ udp' = 0 /\ ipConn' = FALSE /\ noizeOn' = FALSE /\ dialFails' = 0 /\ inUse' = 0
    /\ UNCHANGED <<configFile, registered, enrolled, saved, attempt, dials, withNoize>>

Next ==
    \/ Begin \/ LoadConfig \/ Register \/ EnrollKey \/ SaveCreates \/ SaveWrites \/ Verify \/ Prepare
    \/ ListenUDP \/ Dial \/ CheckStatus \/ Close \/ Crash

\* Values of the file, the sockets and the counters.
TypeOK ==
    /\ configFile \in {"none", "torn", "whole"}
    /\ registered \in 0 .. MaxRegistered /\ enrolled \in 0 .. registered
    /\ attempt \in 0 .. Attempts /\ udp \in Nat

(***************************************************************************)
(* A tunnel runs with the key of a device that is in the config file and   *)
(* was the last to be enrolled, and without junk: a restart can use the    *)
(* same device.                                                            *)
(***************************************************************************)
TunnelUsesSavedDevice ==
    adapterAt = "open" =>
        configFile = "whole" /\ inUse = saved /\ inUse = enrolled /\ inUse > 0 /\ ~noizeOn

(***************************************************************************)
(* Only a failed dial leaves its socket open: a refused tunnel and a       *)
(* closed adapter leave none.                                              *)
(***************************************************************************)
OnlyFailedDialsLeak ==
    udp = dialFails + (IF adapterAt \in {"dial", "status", "open"} THEN 1 ELSE 0)
=============================================================================
