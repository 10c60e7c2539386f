------------------------------ MODULE Identity ------------------------------
(***************************************************************************)
(* warp/account.go: the WARP identity.  A start loads the identity file,   *)
(* or throws the directory away, registers a device with the service and   *)
(* writes a new file; a license that differs from the wanted one is        *)
(* changed at the service and the file is written again.  os.Create        *)
(* truncates the file before the new contents are written.  The service is *)
(* external; the program may crash between any two steps.                  *)
(***************************************************************************)
EXTENDS Integers, FiniteSets

CONSTANTS
    MaxDevices, \* bound: devices registered
    MaxFaults,  \* bound: crashes and failed calls
    MaxStarts   \* bound: starts of the program

VARIABLES
    file,     \* the identity file: NoFile, Torn, or the identity in it
    account,  \* the service: device -> its license
    idAt,     \* where LoadOrCreateIdentity is
    ident,    \* the identity in memory
    license,  \* the license the user wants, NoLicense for none
    faults, starts

idVars == <<file, account, idAt, ident, license, faults, starts>>

Devices  == 1 .. MaxDevices
Free     == "free"
Plus     == "plus"
NoLicense == "unset"
Identities == [device : Devices, license : {Free, Plus}]
NoIdentity == [device |-> 0, license |-> Free]
NoFile     == [device |-> 0, license |-> "none"]
Torn       == [device |-> 0, license |-> "torn"]

Init ==
    /\ file = NoFile /\ account = [d \in {} |-> Free]
    /\ idAt = "off" /\ ident = NoIdentity /\ license = NoLicense /\ faults = 0 /\ starts = 0

Start ==
    /\ idAt = "off" /\ starts < MaxStarts
    /\ starts' = starts + 1
    /\ license' \in {NoLicense, Plus}
    /\ ident' = NoIdentity
    /\ idAt' = "load"
    /\ UNCHANGED <<file, account, faults>>

Goto(at) == idAt' = at
Fault == faults < MaxFaults /\ faults' = faults + 1

\* Mutant: an identity with another license than the wanted one is given up.
LoadIdentity_License ==
    /\ idAt = "load"
    /\ IF file \in {NoFile, Torn} \/ (license # NoLicense /\ file.license # license)
       THEN Goto("remove") /\ UNCHANGED <<ident, faults>>
       ELSE ident' = file /\ Goto("license") /\ UNCHANGED faults
    /\ UNCHANGED <<file, account, license, starts>>

\* LoadIdentity: the file must be there, whole and with a peer.
LoadIdentity ==
    /\ idAt = "load"
    /\ IF file \in {NoFile, Torn}
       THEN Goto("remove") /\ UNCHANGED <<ident, faults>>
       ELSE \/ ident' = file /\ Goto("license") /\ UNCHANGED faults
            \/ Fault /\ Goto("remove") /\ UNCHANGED ident
    /\ UNCHANGED <<file, account, license, starts>>

\* The directory is removed and made again.
RemoveAll ==
    /\ idAt = "remove"
    /\ file' = NoFile
    /\ Goto("register")
    /\ UNCHANGED <<account, ident, license, faults, starts>>

\* CreateIdentity: a device is registered; the answer may not come back.
Register ==
    /\ idAt = "register"
    /\ \/ \E d \in Devices \ DOMAIN account :
            /\ account' = [e \in DOMAIN account \cup {d} |-> IF e = d THEN Free ELSE account[e]]
            /\ \/ ident' = [device |-> d, license |-> Free] /\ Goto("create") /\ UNCHANGED faults
               \/ Fault /\ Goto("off") /\ UNCHANGED ident
       \/ Fault /\ Goto("off") /\ UNCHANGED <<account, ident>>
    /\ UNCHANGED <<file, license, starts>>

\* UpdateAccount and GetAccount; either may fail, the second after the first took effect.
ChangeLicense(from, to) ==
    /\ idAt = from
    /\ \/ /\ account' = [account EXCEPT ![ident.device] = license]
          /\ \/ ident' = [ident EXCEPT !.license = license] /\ Goto(to) /\ UNCHANGED faults
             \/ Fault /\ Goto("off") /\ UNCHANGED ident
       \/ Fault /\ Goto("off") /\ UNCHANGED <<account, ident>>
    /\ UNCHANGED <<file, license, starts>>

\* CreateIdentity's own change of the license.
CreateLicense ==
    IF license # NoLicense THEN ChangeLicense("create", "save1")
    ELSE idAt = "create" /\ Goto("save1") /\ UNCHANGED <<file, account, ident, license, faults, starts>>

\* saveIdentity: os.Create leaves an empty file ...
SaveCreates(at) ==
    /\ idAt = at
    /\ file' = Torn
    /\ Goto(IF at = "save1" THEN "write1" ELSE "write2")
    /\ UNCHANGED <<account, ident, license, faults, starts>>

\* ... and the encoder fills it, or fails.
SaveWrites(at) ==
    /\ idAt = at
    /\ \/ file' = ident /\ Goto(IF at = "write1" THEN "license" ELSE "ready") /\ UNCHANGED faults
       \/ Fault /\ Goto("off") /\ UNCHANGED file
    /\ UNCHANGED <<account, ident, license, starts>>

\* Mutant: the changed license is not written to the file.
CheckLicense_NoSave ==
    IF license # NoLicense /\ ident.license # license THEN ChangeLicense("license", "ready")
    ELSE idAt = "license" /\ Goto("ready") /\ UNCHANGED <<file, account, ident, license, faults, starts>>

\* The license of the identity is compared with the wanted one.
CheckLicense ==
    IF license # NoLicense /\ ident.license # license THEN ChangeLicense("license", "save2")
    ELSE idAt = "license" /\ Goto("ready") /\ UNCHANGED <<file, account, ident, license, faults, starts>>

\* The program ends, or crashes where it is.
Ends ==
    /\ \/ idAt = "ready" /\ UNCHANGED faults
       \/ idAt \notin {"ready", "off"} /\ Fault
    /\ Goto("off")
    /\ UNCHANGED <<file, account, ident, license, starts>>

Next ==
    \/ Start \/ LoadIdentity \/ RemoveAll \/ Register \/ CreateLicense
    \/ \E at \in {"save1", "save2"} : SaveCreates(at)
    \/ \E at \in {"write1", "write2"} : SaveWrites(at)
    \/ CheckLicense \/ Ends

\* Values of the file, the service and the program.
TypeOK ==
    /\ file \in {NoFile, Torn} \cup Identities
    /\ ident \in Identities \cup {NoIdentity}
    /\ DOMAIN account \subseteq Devices

(***************************************************************************)
(* A program that runs with an identity has it in its file, with the       *)
(* license the service knows: the next start finds the same device.        *)
(***************************************************************************)
ReadyIsSaved ==
    idAt = "ready" =>
        /\ file = ident /\ ident.device \in DOMAIN account
        /\ license # NoLicense => ident.license = license /\ account[ident.device] = license

Known == (IF idAt = "off" THEN {} ELSE {ident.device}) \cup (IF file \in Identities THEN {file.device} ELSE {})

(***************************************************************************)
(* A device registered at the service is lost only by a fault: every one   *)
(* that neither the file nor the running program knows was paid for with a *)
(* crash or a failed call.  Starts alone never register a second device.   *)
(***************************************************************************)
DevicesLostByFaultsOnly == Cardinality(DOMAIN account \ Known) <= faults
=============================================================================
