----------------------------- MODULE MCControl -----------------------------
(***************************************************************************)
(* What happens before packets flow, for TLC: the settings, the start of a *)
(* mode, the identity and the MASQUE adapter it needs, and the two         *)
(* scanners. They share no variable, so a behaviour is one of any of them  *)
(* while the others stay as they start.                                    *)
(***************************************************************************)
EXTENDS Integers, Sequences, FiniteSets

CONSTANTS
    Width, Host, Buckets, Samples6, Starts, Moduli,
    MaxParts, DefaultPort, UserPort, WarpPorts, CustomPorts,
    Candidates, Concurrency, Stops, QueueSizes,
    MasqueWorkers, Stoppers, MaxEndpoints, Ports, Customs, RangeLists,
    MaxDevices, MaxFaults, MaxStarts,
    Attempts, MaxCrashes, MaxDials, MaxRegistered,
    Options, MaxNotices,
    Flags, Files, Overrides

VARIABLES
    part, \* the part that moves
    range, bucket, current, seg, drawn, ips, misses, genAt, lcg,
    caller, families, flagged, noDefault, scanPorts, parts, next, cidrs, endpoints, pinged, targetAt,
    ports, filter, stop, maxQueue, place, live, closed, cancelled, asked, ipQueue, answered, scanOver,
    custom, early, candidates, jobs, jobsClosed, nextJob, worker, resultChan, resultsClosed, recorded, stopClosed,
    stopFlag, stopper, ctxDone, scanned,
    file, account, idAt, ident, license, faults, starts,
    configFile, registered, enrolled, saved, inUse, adapterAt, attempt, udp, ipConn, noizeOn, withNoize, dialFails,
    dials, crashes,
    startPc, mode, opts, layer, try, devices, tested, forward, adapter, maintain, proxyFailed, controller, notices,
    reported, missed,
    disk, result, mixed

Gen == INSTANCE IpGenerator
Target == INSTANCE ScanTargets
Scan == INSTANCE ScanEngine
Masque == INSTANCE MasqueScanner
Id == INSTANCE Identity
Adapter == INSTANCE MasqueAdapter
Start == INSTANCE Startup
Set == INSTANCE Settings
Noize == INSTANCE NoizeConfig

\* Bounds are numbers, a command line names modes the program has, and the numbers
\* of a noize file are not negative.
ASSUME ControlAssumption ==
    /\ MaxRegistered \in Nat /\ MaxNotices \in Nat /\ Attempts \in Nat \ {0}
    /\ \A c \in Flags : c.modes \subseteq Set!Modes
    /\ Overrides \subseteq [enabled : BOOLEAN, named : BOOLEAN, junk : [Noize!JunkFields -> Nat]]

\* Round trip times and limits are numbers, the scanners have workers (NewScanner and
\* the engine give defaults), and there are default ranges.
ASSUME ScanAssumption ==
    /\ Candidates \subseteq Nat /\ IsFiniteSet(Candidates) /\ Concurrency \in Nat \ {0}
    /\ Stops \subseteq Nat /\ QueueSizes \subseteq Nat
    /\ IsFiniteSet(MasqueWorkers) /\ MasqueWorkers # {} /\ MaxEndpoints \in Nat /\ Ports \in Seq(Nat)
    /\ \A c \in Customs : c \in Seq(Nat \X Nat)
    /\ \A r \in RangeLists : r \in Seq([first : Nat, size : Nat, v4 : BOOLEAN])
    /\ \E r \in RangeLists : r # <<>>

\* The last octet is part of an address, and a range is written with an address.
ASSUME AddressAssumption ==
    Width \in Nat /\ Host \in 0 .. Width /\ Buckets \subseteq Nat /\ Starts \subseteq 0 .. Gen!Space - 1

genVars == <<range, bucket, current, seg, drawn, ips, misses, genAt, lcg>>
targetVars == <<caller, families, flagged, noDefault, scanPorts, parts, next, cidrs, endpoints, pinged, targetAt>>
scanVars == <<ports, filter, stop, maxQueue, place, live, closed, cancelled, asked, ipQueue, answered, scanOver>>
masqueVars ==
    <<custom, early, candidates, jobs, jobsClosed, nextJob, worker, resultChan, resultsClosed, recorded, stopClosed,
      stopFlag, stopper, ctxDone, scanned>>
idVars == <<file, account, idAt, ident, license, faults, starts>>
adapterVars ==
    <<configFile, registered, enrolled, saved, inUse, adapterAt, attempt, udp, ipConn, noizeOn, withNoize, dialFails,
      dials, crashes>>
startVars ==
    <<startPc, mode, opts, layer, try, devices, tested, forward, adapter, maintain, proxyFailed, controller, notices,
      reported, missed>>
settingsVars == <<disk, result, mixed>>

scannerVars == <<genVars, targetVars, scanVars, masqueVars>>
registrationVars == <<idVars, adapterVars>>
programVars == <<startVars, settingsVars>>

Parts == {"generator", "targets", "scan", "masqueScan", "identity", "adapter", "start", "settings"}

-----------------------------------------------------------------------------
\* A custom endpoint, or none; and no ranges, or one of a single address and one
\* whose first address is left out.
CustomLists == {<<>>, << <<99, 443>> >>}
SomeRanges ==
    {<<>>, <<[first |-> 8, size |-> 1, v4 |-> TRUE], [first |-> 16, size |-> 4, v4 |-> FALSE]>>}
TwoPorts == <<443, 500>>

\* Every mode, alone, and two that cannot be combined, with and without AtomicNoize
\* and scan.
SomeOptions ==
    {[masque |-> m = "masque", preferred |-> m = "preferred", psiphon |-> m \in {"psiphon", "clash"},
      gool |-> m \in {"gool", "clash"}, wgconf |-> m = "wgconf", country |-> TRUE, noize |-> n, scan |-> s] :
        m \in {"masque", "preferred", "psiphon", "gool", "wgconf", "warp", "clash"}, n \in BOOLEAN, s \in BOOLEAN}

SomeFlags ==
    {[modes |-> m, config |-> c, wgconf |-> FALSE, noize |-> n, preset |-> p, endpoint |-> e, testUrl |-> "flag default"] :
        m \in {x \in SUBSET {"masque", "preferred", "gool", "cfon"} : Cardinality(x) <= 2},
        c \in BOOLEAN, n \in BOOLEAN, p \in {"unset", "medium"}, e \in {"unset", "cli"}}

SomeFiles ==
    {[there |-> TRUE, wg |-> w, wgConfig |-> c, wgNoize |-> n[1], masque |-> m, preferred |-> p, masqueNoize |-> n[2],
      psiphon |-> s, endpoint |-> e, testUrl |-> "file"] :
        w \in {"absent", "off", "on"}, c \in BOOLEAN, m \in {"absent", "off", "on"}, p \in BOOLEAN, s \in BOOLEAN,
        e \in {"unset", "file"}, n \in {<<"none", "none">>, <<"good", "good">>, <<"bad", "good">>, <<"good", "bad">>}}

SomeOverrides ==
    {[enabled |-> e, named |-> e /\ d, junk |-> Noize!Junk(j, a, b, x, y, 0, 0, 0, 0, 0)] :
        e \in BOOLEAN, d \in BOOLEAN, j \in {0, 2, 5}, a \in {0, 30, 60}, b \in {0, 40, 90, 1500}, x \in 0..1, y \in {0, 1, 3}}

-----------------------------------------------------------------------------
MCInit ==
    /\ part \in Parts
    /\ IF part = "generator" THEN Gen!Init
       ELSE /\ range = 0 /\ bucket = 0 /\ current = 0 /\ seg = 0 /\ drawn = 0 /\ ips = <<>> /\ misses = 0
            /\ genAt = "done" /\ lcg = 0
    /\ Target!Init
    /\ part = "targets" \/ (caller = "RunScan" /\ families = {} /\ parts = <<>> /\ scanPorts = WarpPorts)
    /\ Scan!Init
    /\ part = "scan" \/ (~ports /\ filter = <<FALSE, FALSE>> /\ \A n \in Stops : stop <= n)
    /\ Masque!Init
    /\ part = "masqueScan" \/ (custom # <<>> /\ ~early /\ candidates = custom)
    /\ Id!Init
    /\ Adapter!Init /\ (part = "adapter" \/ ~withNoize)
    /\ Start!Init
    /\ part = "start" \/ opts = CHOOSE o \in Options : ~o.noize /\ ~o.scan /\ o.gool /\ ~o.psiphon
    /\ Set!Init

MCNext ==
    \/ /\ UNCHANGED <<part, registrationVars, programVars>>
       /\ \/ part = "generator" /\ Gen!Next /\ UNCHANGED <<targetVars, scanVars, masqueVars>>
          \/ part = "targets" /\ Target!Next /\ UNCHANGED <<genVars, scanVars, masqueVars>>
          \/ part = "scan" /\ Scan!Next /\ UNCHANGED <<genVars, targetVars, masqueVars>>
          \/ part = "masqueScan" /\ Masque!Next /\ UNCHANGED <<genVars, targetVars, scanVars>>
    \/ /\ UNCHANGED <<part, scannerVars, programVars>>
       /\ \/ part = "identity" /\ Id!Next /\ UNCHANGED adapterVars
          \/ part = "adapter" /\ Adapter!Next /\ UNCHANGED idVars
    \/ /\ UNCHANGED <<part, scannerVars, registrationVars>>
       /\ \/ part = "start" /\ Start!Next /\ UNCHANGED settingsVars
          \/ part = "settings" /\ Set!Next /\ UNCHANGED startVars

MCSpec ==
    /\ MCInit
    /\ [][MCNext]_<<part, scannerVars, registrationVars, programVars>>
    /\ WF_scanVars(part = "scan" /\ Scan!ScanSystem)
    /\ WF_masqueVars(part = "masqueScan" /\ Masque!MasqueSystem)
    /\ WF_startVars(part = "start" /\ Start!StartSystem)

-----------------------------------------------------------------------------
(***************************************************************************)
(* The samples of a range lie in it and cover its subnets, and the         *)
(* generator of addresses comes back to one only after all others          *)
(* (iterator.go).  A disabled family is pinged only through an address the *)
(* user wrote down or has in the hosts file, nothing of a list whose       *)
(* families were inferred is left out, and all of Cloudflare is scanned    *)
(* only when nothing of the list is left (ipscanner/scanner.go,            *)
(* warp-scan).                                                             *)
(***************************************************************************)
CandidatesAreRight ==
    /\ part = "generator" => Gen!TypeOK /\ Gen!RangeIsCovered /\ Gen!LcgHasFullPeriod
    /\ part = "targets" =>
          /\ Target!TypeOK /\ Target!FewEscapeFamilies
          /\ Target!InferredListIsScanned /\ Target!FallbackIsLastResort

(***************************************************************************)
(* No stage of a scan sends on a closed stream, the queue is the best of   *)
(* all that answered however often it was trimmed, and a scan that is to   *)
(* stop does (engine.go).  The MASQUE scanner closes its stop channel once *)
(* and has one result for each candidate unless it was stopped             *)
(* (masque/scanner.go).                                                    *)
(***************************************************************************)
ScansAreExact ==
    /\ part = "scan" =>
          Scan!TypeOK /\ Scan!NoSendOnClosedStream /\ Scan!QueueHoldsTheBest /\ Scan!StopIsHeeded
    /\ part = "masqueScan" =>
          Masque!TypeOK /\ Masque!StopClosesOnce /\ Masque!EveryCandidateHasAResult

(***************************************************************************)
(* A program that runs with an identity has it in its file, and a device   *)
(* registered at the service is lost only by a crash or a failed call      *)
(* (warp/account.go).  A MASQUE tunnel runs with the key of an enrolled    *)
(* device that is saved, and only a failed dial leaves its socket open     *)
(* (masque/adapter.go).                                                    *)
(***************************************************************************)
RegistrationIsKept ==
    /\ part = "identity" => Id!TypeOK /\ Id!ReadyIsSaved /\ Id!DevicesLostByFaultsOnly
    /\ part = "adapter" => Adapter!TypeOK /\ Adapter!TunnelUsesSavedDevice /\ Adapter!OnlyFailedDialsLeak

(***************************************************************************)
(* A proxy is served only over devices that have shaken hands and were     *)
(* tested, two devices of one key run only when the set-up or the test of  *)
(* the first one failed, and the fall back to WireGuard leaves a MASQUE    *)
(* tunnel only when it was the proxy that failed (app.go, wg.go).          *)
(***************************************************************************)
StartIsClean ==
    part = "start" =>
        Start!TypeOK /\ Start!ServedTunnelWorks /\ Start!OnlySetupAndTestStrand /\ Start!FallbackLeavesNoTunnel

(***************************************************************************)
(* The numbers of presets, and of sound files merged over them, are sound  *)
(* but for mixtures, and mixtures too make junk that can be sent           *)
(* (config/noize, preflight_bind.go).                                      *)
(***************************************************************************)
NoizeStaysSound == part = "settings" => Set!TypeOK /\ Set!PresetsStaySound

(***************************************************************************)
(* Every scan returns, and bringing a tunnel up ends in a served proxy or  *)
(* an error, unless a notice of psiphon's came before StartTunnel waited.  *)
(***************************************************************************)
ControlEnds ==
    /\ part = "scan" => Scan!ScanEnds
    /\ part = "masqueScan" => Masque!MasqueScanEnds
    /\ part = "start" => Start!StartEnds

=============================================================================
