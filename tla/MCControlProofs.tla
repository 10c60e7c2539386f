--------------------------- MODULE MCControlProofs ---------------------------
(***************************************************************************)
(* Proofs about what happens before packets flow.  The parts of MCControl  *)
(* share no variable and one of them moves, so each has an inductive       *)
(* invariant of its own, which holds while it is that part that moves.     *)
(***************************************************************************)
EXTENDS MCControl, DataLemmas, FiniteSetTheorems, SequenceTheorems, TLAPS

-----------------------------------------------------------------------------
\* Identity (warp/account.go).

IdPlaces ==
    {"off", "load", "remove", "register", "create", "save1", "write1", "license", "save2", "write2", "ready"}

\* The places at which the program has an identity of its own.
HasIdent == {"create", "save1", "write1", "license", "save2", "write2", "ready"}

IdTypes ==
    /\ Id!TypeOK
    /\ account \in [DOMAIN account -> {"free", "plus"}]
    /\ IsFiniteSet(DOMAIN account)
    /\ license \in {"unset", "plus"} /\ faults \in Nat /\ idAt \in IdPlaces

\* What is in memory or in the file is a device of the service, and a license
\* that either knows of is the service's.
IdIsRegistered ==
    /\ idAt \in HasIdent =>
          /\ ident \in Id!Identities /\ ident.device \in DOMAIN account
          /\ ident.license = "plus" => account[ident.device] = "plus"
    /\ file \in Id!Identities =>
          /\ file.device \in DOMAIN account
          /\ file.license = "plus" => account[file.device] = "plus"

\* How the file and the identity in memory are related.
FileFollows ==
    /\ idAt \in {"register", "create", "save1", "write1"} => file \in {Id!NoFile, Id!Torn}
    /\ idAt \in {"license", "ready"} => file = ident
    /\ idAt = "save2" => file \in Id!Identities /\ file.device = ident.device
    /\ idAt = "write2" => file = Id!Torn
    /\ idAt \in {"save2", "write2", "ready"} => (license # "unset" => ident.license = license)
    /\ idAt = "save2" => license # "unset"

\* The devices nothing will know of once the directory is removed.
Forgotten ==
    DOMAIN account \ ((IF idAt \in HasIdent THEN {ident.device} ELSE {}) \cup
                      (IF file \in Id!Identities /\ idAt # "remove" THEN {file.device} ELSE {}))

IdInv == IdTypes /\ IdIsRegistered /\ FileFollows /\ Cardinality(Forgotten) <= faults

\* A set with at most one new element has at most one element more.
LEMMA OneMore ==
    ASSUME NEW S, NEW T, IsFiniteSet(S), NEW x, T \subseteq S \cup {x}
    PROVE  IsFiniteSet(T) /\ Cardinality(T) \in Nat /\ Cardinality(S) \in Nat /\ Cardinality(T) <= Cardinality(S) + 1
<1>1. IsFiniteSet(S \cup {x}) /\ (Cardinality(S \cup {x}) = Cardinality(S) \/ Cardinality(S \cup {x}) = Cardinality(S) + 1)
  BY FS_AddElement
<1>2. IsFiniteSet(T) /\ Cardinality(T) <= Cardinality(S \cup {x})
  BY <1>1, FS_Subset
<1>3. Cardinality(S) \in Nat /\ Cardinality(T) \in Nat /\ Cardinality(S \cup {x}) \in Nat
  BY <1>1, <1>2, FS_CardinalityType
<1> QED BY <1>1, <1>2, <1>3

\* A set with no new element has no more elements than before.
LEMMA NotMore ==
    ASSUME NEW S, NEW T, IsFiniteSet(S), T \subseteq S
    PROVE  IsFiniteSet(T) /\ Cardinality(T) \in Nat /\ Cardinality(S) \in Nat /\ Cardinality(T) <= Cardinality(S)
  BY FS_Subset, FS_CardinalityType

\* What each action must show: nothing more is forgotten, or one device and a fault
\* pays for it.
Paid ==
    \/ Forgotten' \subseteq Forgotten /\ faults' \in {faults, faults + 1}
    \/ faults' = faults + 1 /\ \E x : Forgotten' \subseteq Forgotten \cup {x}

\* If every device newly forgotten costs a fault, faults still bound the forgotten.
LEMMA PaidIsEnough ==
    ASSUME IdTypes, Cardinality(Forgotten) <= faults, Paid, faults' \in Nat
    PROVE  Cardinality(Forgotten') <= faults'
<1>1. IsFiniteSet(Forgotten)
  BY FS_Subset, Forgotten \subseteq DOMAIN account DEF Forgotten, IdTypes
<1>2. faults \in Nat
  BY DEF IdTypes
<1>3. CASE Forgotten' \subseteq Forgotten /\ faults' \in {faults, faults + 1}
  <2>1. Cardinality(Forgotten') <= Cardinality(Forgotten) /\ Cardinality(Forgotten') \in Nat /\ Cardinality(Forgotten) \in Nat
    BY <1>1, <1>3, NotMore
  <2> QED BY <2>1, <1>2, <1>3
<1>4. CASE faults' = faults + 1 /\ \E x : Forgotten' \subseteq Forgotten \cup {x}
  <2>1. PICK x : Forgotten' \subseteq Forgotten \cup {x}
    BY <1>4
  <2>2. Cardinality(Forgotten') <= Cardinality(Forgotten) + 1 /\ Cardinality(Forgotten') \in Nat /\ Cardinality(Forgotten) \in Nat
    BY <1>1, <2>1, OneMore
  <2> QED BY <2>2, <1>2, <1>4
<1> QED BY <1>3, <1>4 DEF Paid

\* The account is in order when the program starts (account.go).
LEMMA IdInit == Id!Init => IdInv
<1> SUFFICES ASSUME Id!Init PROVE IdInv
  OBVIOUS
<1>1. DOMAIN account = {}
  BY DEF Id!Init
<1>2. Forgotten = {}
  BY <1>1 DEF Forgotten
<1>3. Cardinality(Forgotten) = 0 /\ IsFiniteSet(DOMAIN account)
  BY <1>1, <1>2, FS_EmptySet
<1> QED
  BY <1>1, <1>3 DEF Id!Init, IdInv, IdTypes, Id!TypeOK, IdIsRegistered, FileFollows, HasIdent, IdPlaces,
     Id!NoFile, Id!Torn, Id!Identities, Id!NoIdentity, Id!Free, Id!Plus, Id!NoLicense, Id!Devices

\* Loading, registering, licensing and saving an identity keep it in order.
LEMMA IdStep == IdInv /\ Id!Next => IdInv'
<1> SUFFICES ASSUME IdInv, Id!Next PROVE IdInv'
  OBVIOUS
<1> USE DEF HasIdent, Id!Goto, Id!Fault, Id!NoFile, Id!Torn, Id!Identities, Id!NoIdentity, Id!Free, Id!Plus, Id!NoLicense, Id!Devices
<1>t. IdTypes /\ IdIsRegistered /\ FileFollows /\ Cardinality(Forgotten) <= faults /\ faults \in Nat
  BY DEF IdInv, IdTypes
<1>q. ASSUME IdTypes', IdIsRegistered', FileFollows', Paid PROVE IdInv'
  BY <1>t, <1>q, PaidIsEnough DEF IdInv, IdTypes
<1>1. CASE Id!Start
  <2> USE <1>1, <1>t DEF Id!Start
  <2>1. IdTypes'
    BY DEF IdTypes, Id!TypeOK, IdPlaces, IdIsRegistered, FileFollows
  <2>2. IdIsRegistered'
    BY DEF IdTypes, Id!TypeOK, IdIsRegistered, FileFollows
  <2>3. FileFollows'
    BY DEF IdTypes, Id!TypeOK, IdIsRegistered, FileFollows
  <2>4. Paid
    BY DEF IdTypes, Id!TypeOK, IdIsRegistered, FileFollows, Paid, Forgotten
  <2> QED BY <1>q, <2>1, <2>2, <2>3, <2>4
<1>2. CASE Id!LoadIdentity
  <2> USE <1>2, <1>t DEF Id!LoadIdentity
  <2>1. IdTypes'
    BY DEF IdTypes, Id!TypeOK, IdPlaces, IdIsRegistered, FileFollows
  <2>2. IdIsRegistered'
    BY DEF IdTypes, Id!TypeOK, IdIsRegistered, FileFollows
  <2>3. FileFollows'
    BY DEF IdTypes, Id!TypeOK, IdIsRegistered, FileFollows
  <2>4. Paid
    BY DEF IdTypes, Id!TypeOK, IdIsRegistered, FileFollows, Paid, Forgotten
  <2> QED BY <1>q, <2>1, <2>2, <2>3, <2>4
<1>3. CASE Id!RemoveAll
  <2> USE <1>3, <1>t DEF Id!RemoveAll
  <2>1. IdTypes'
    BY DEF IdTypes, Id!TypeOK, IdPlaces, IdIsRegistered, FileFollows
  <2>2. IdIsRegistered'
    BY DEF IdTypes, Id!TypeOK, IdIsRegistered, FileFollows
  <2>3. FileFollows'
    BY DEF IdTypes, Id!TypeOK, IdIsRegistered, FileFollows
  <2>4. Paid
    BY DEF IdTypes, Id!TypeOK, IdIsRegistered, FileFollows, Paid, Forgotten
  <2> QED BY <1>q, <2>1, <2>2, <2>3, <2>4
<1>4. CASE Id!Register
  <2> USE <1>t
  <2>1. CASE idAt = "register" /\ idAt' = "off" /\ faults' = faults + 1 /\ UNCHANGED <<account, ident, file, license, starts>>
    <3>1. IdTypes' /\ IdIsRegistered' /\ FileFollows' /\ Paid
      BY <2>1 DEF IdTypes, Id!TypeOK, IdPlaces, IdIsRegistered, FileFollows, Paid, Forgotten
    <3> QED BY <1>q, <3>1
  <2>2. ASSUME NEW d \in Id!Devices \ DOMAIN account, idAt = "register", UNCHANGED <<file, license, starts>>,
               account' = [e \in DOMAIN account \cup {d} |-> IF e = d THEN "free" ELSE account[e]],
               \/ ident' = [device |-> d, license |-> "free"] /\ idAt' = "create" /\ UNCHANGED faults
               \/ faults' = faults + 1 /\ idAt' = "off" /\ UNCHANGED ident
        PROVE  IdInv'
    <3>1. DOMAIN account' = DOMAIN account \cup {d} /\ account'[d] = "free" /\ \A e \in DOMAIN account : account'[e] = account[e]
      BY <2>2
    <3>2. IsFiniteSet(DOMAIN account')
      BY <3>1, FS_AddElement DEF IdTypes
    <3>3. IdTypes'
      BY <2>2, <3>1, <3>2 DEF IdTypes, Id!TypeOK, IdPlaces
    <3>4. file' \notin Id!Identities
      BY <2>2 DEF FileFollows
    <3>5. IdIsRegistered'
      BY <2>2, <3>1, <3>4 DEF IdIsRegistered
    <3>6. FileFollows'
      BY <2>2 DEF FileFollows
    <3>7. Paid
      BY <2>2, <3>1, <3>4 DEF Paid, Forgotten
    <3> QED BY <1>q, <3>3, <3>5, <3>6, <3>7
  <2> QED BY <1>4, <2>1, <2>2 DEF Id!Register
<1>5. CASE Id!CreateLicense
  <2> USE <1>5, <1>t DEF Id!CreateLicense, Id!ChangeLicense
  <2>1. IdTypes'
    BY DEF IdTypes, Id!TypeOK, IdPlaces, IdIsRegistered, FileFollows
  <2>2. IdIsRegistered'
    BY DEF IdTypes, Id!TypeOK, IdIsRegistered, FileFollows
  <2>3. FileFollows'
    BY DEF IdTypes, Id!TypeOK, IdIsRegistered, FileFollows
  <2>4. Paid
    BY DEF IdTypes, Id!TypeOK, IdIsRegistered, FileFollows, Paid, Forgotten
  <2> QED BY <1>q, <2>1, <2>2, <2>3, <2>4
<1>6. CASE Id!CheckLicense
  <2> USE <1>6, <1>t DEF Id!CheckLicense, Id!ChangeLicense
  <2>1. IdTypes'
    BY DEF IdTypes, Id!TypeOK, IdPlaces, IdIsRegistered, FileFollows
  <2>2. IdIsRegistered'
    BY DEF IdTypes, Id!TypeOK, IdIsRegistered, FileFollows
  <2>3. FileFollows'
    BY DEF IdTypes, Id!TypeOK, IdIsRegistered, FileFollows
  <2>4. Paid
    BY DEF IdTypes, Id!TypeOK, IdIsRegistered, FileFollows, Paid, Forgotten
  <2> QED BY <1>q, <2>1, <2>2, <2>3, <2>4
<1>7. CASE Id!Ends
  <2> USE <1>7, <1>t DEF Id!Ends
  <2>1. IdTypes'
    BY DEF IdTypes, Id!TypeOK, IdPlaces, IdIsRegistered, FileFollows
  <2>2. IdIsRegistered'
    BY DEF IdTypes, Id!TypeOK, IdIsRegistered, FileFollows
  <2>3. FileFollows'
    BY DEF IdTypes, Id!TypeOK, IdIsRegistered, FileFollows
  <2>4. Paid
    BY DEF IdTypes, Id!TypeOK, IdIsRegistered, FileFollows, Paid, Forgotten
  <2> QED BY <1>q, <2>1, <2>2, <2>3, <2>4
<1>8. ASSUME NEW at \in {"save1", "save2"}, Id!SaveCreates(at) PROVE IdInv'
  <2> USE <1>8, <1>t DEF Id!SaveCreates
  <2>1. IdTypes'
    BY DEF IdTypes, Id!TypeOK, IdPlaces, IdIsRegistered, FileFollows
  <2>2. IdIsRegistered'
    BY DEF IdTypes, Id!TypeOK, IdIsRegistered, FileFollows
  <2>3. FileFollows'
    BY DEF IdTypes, Id!TypeOK, IdIsRegistered, FileFollows
  <2>4. Paid
    BY DEF IdTypes, Id!TypeOK, IdIsRegistered, FileFollows, Paid, Forgotten
  <2> QED BY <1>q, <2>1, <2>2, <2>3, <2>4
<1>9. ASSUME NEW at \in {"write1", "write2"}, Id!SaveWrites(at) PROVE IdInv'
  <2> USE <1>9, <1>t DEF Id!SaveWrites
  <2>1. IdTypes'
    BY DEF IdTypes, Id!TypeOK, IdPlaces, IdIsRegistered, FileFollows
  <2>2. IdIsRegistered'
    BY DEF IdTypes, Id!TypeOK, IdIsRegistered, FileFollows
  <2>3. FileFollows'
    BY DEF IdTypes, Id!TypeOK, IdIsRegistered, FileFollows
  <2>4. Paid
    BY DEF IdTypes, Id!TypeOK, IdIsRegistered, FileFollows, Paid, Forgotten
  <2> QED BY <1>q, <2>1, <2>2, <2>3, <2>4
<1> QED BY <1>1, <1>2, <1>3, <1>4, <1>5, <1>6, <1>7, <1>8, <1>9 DEF Id!Next

\* Steps of the other parts leave the identity alone.
LEMMA IdStutter == IdInv /\ UNCHANGED idVars => IdInv'
  BY DEF IdInv, IdTypes, Id!TypeOK, IdIsRegistered, FileFollows, Forgotten, idVars

\* The invariant yields the three properties of the identity.
LEMMA IdMeans == IdInv => Id!TypeOK /\ Id!ReadyIsSaved /\ Id!DevicesLostByFaultsOnly
<1> SUFFICES ASSUME IdInv PROVE Id!TypeOK /\ Id!ReadyIsSaved /\ Id!DevicesLostByFaultsOnly
  OBVIOUS
<1>t. IdTypes /\ IdIsRegistered /\ FileFollows /\ Cardinality(Forgotten) <= faults /\ faults \in Nat
  BY DEF IdInv, IdTypes
<1>1. Id!ReadyIsSaved
  BY <1>t DEF IdTypes, IdIsRegistered, FileFollows, HasIdent, Id!ReadyIsSaved, Id!NoLicense
<1>2. DOMAIN account \ Id!Known \subseteq Forgotten
  BY <1>t DEF Forgotten, Id!Known, HasIdent, FileFollows
<1>3. IsFiniteSet(Forgotten)
  BY <1>t, FS_Subset, Forgotten \subseteq DOMAIN account DEF Forgotten, IdTypes
<1>4. Cardinality(DOMAIN account \ Id!Known) <= Cardinality(Forgotten)
      /\ Cardinality(DOMAIN account \ Id!Known) \in Nat /\ Cardinality(Forgotten) \in Nat
  BY <1>2, <1>3, NotMore
<1>5. Id!DevicesLostByFaultsOnly
  <2> DEFINE lost == Cardinality(DOMAIN account \ Id!Known)
             forgotten == Cardinality(Forgotten)
  <2>1. lost <= forgotten /\ forgotten <= faults /\ lost \in Nat /\ forgotten \in Nat /\ faults \in Nat
    BY <1>t, <1>4
  <2>2. lost <= faults
    <3> HIDE DEF lost, forgotten
    <3> QED BY <2>1
  <2>3. \A S : Id!Cardinality(S) = Cardinality(S)
    BY DEF Cardinality, Id!Cardinality
  <2> QED BY <2>2, <2>3 DEF Id!DevicesLostByFaultsOnly
<1> QED BY <1>t, <1>1, <1>5 DEF IdTypes

-----------------------------------------------------------------------------
\* MasqueAdapter (masque/adapter.go).

AdapterPlaces ==
    {"off", "retry", "load", "register", "enroll", "create", "write", "verify", "endpoint", "socket", "dial",
     "status", "open", "gaveup"}

AdapterTypes ==
    /\ adapterAt \in AdapterPlaces
    /\ configFile \in {"none", "torn", "whole"}
    /\ registered \in 0 .. MaxRegistered /\ enrolled \in 0 .. registered
    /\ saved \in 0 .. registered /\ inUse \in 0 .. registered
    /\ attempt \in 0 .. Attempts /\ (adapterAt = "retry" => attempt < Attempts)
    /\ udp \in Nat /\ dialFails \in Nat /\ noizeOn \in BOOLEAN /\ withNoize \in BOOLEAN

\* The device of the config in memory is the registered one, then the saved one, and
\* nothing is registered or enrolled beside a whole file.
DeviceFollows ==
    /\ configFile = "whole" => saved > 0 /\ saved = enrolled
    /\ adapterAt \in {"register", "enroll", "create", "write"} => configFile # "whole"
    /\ adapterAt = "enroll" => registered > 0
    /\ adapterAt \in {"create", "write"} => inUse > 0 /\ inUse = enrolled
    /\ adapterAt \in {"verify", "endpoint", "socket", "dial", "status", "open"} =>
          configFile = "whole" /\ inUse = saved
    /\ adapterAt \in {"status", "open"} => ~noizeOn

AdapterInv == AdapterTypes /\ DeviceFollows /\ Adapter!OnlyFailedDialsLeak

\* The adapter starts with nothing registered and nothing dialled.
LEMMA AdapterInit == Adapter!Init => AdapterInv
<1> SUFFICES ASSUME Adapter!Init PROVE AdapterInv
  OBVIOUS
<1>1. noizeOn \in BOOLEAN /\ withNoize \in BOOLEAN
  BY Zenon DEF Adapter!Init
<1>2. AdapterTypes
  BY <1>1, ControlAssumption DEF Adapter!Init, AdapterTypes, AdapterPlaces
<1>3. DeviceFollows /\ Adapter!OnlyFailedDialsLeak
  BY DEF Adapter!Init, DeviceFollows, Adapter!OnlyFailedDialsLeak
<1> QED BY <1>2, <1>3 DEF AdapterInv

\* Enrolling, saving, dialling and failing keep the adapter in order.
LEMMA AdapterStep == AdapterInv /\ Adapter!Next => AdapterInv'
<1> SUFFICES ASSUME AdapterInv, Adapter!Next PROVE AdapterInv'
  OBVIOUS
<1> USE ControlAssumption DEF AdapterInv, Adapter!regVars, Adapter!netVars, Adapter!At, Adapter!Fails
<1>1. CASE Adapter!Begin
  <2>1. AdapterTypes'
    BY <1>1 DEF Adapter!Begin, AdapterTypes, AdapterPlaces, DeviceFollows, Adapter!OnlyFailedDialsLeak
  <2>2. DeviceFollows'
    BY <1>1 DEF Adapter!Begin, AdapterTypes, DeviceFollows
  <2>3. Adapter!OnlyFailedDialsLeak'
    BY <1>1 DEF Adapter!Begin, AdapterTypes, Adapter!OnlyFailedDialsLeak
  <2> QED BY <2>1, <2>2, <2>3
<1>2. CASE Adapter!LoadConfig
  <2>1. AdapterTypes'
    BY <1>2 DEF Adapter!LoadConfig, AdapterTypes, AdapterPlaces, DeviceFollows, Adapter!OnlyFailedDialsLeak
  <2>2. DeviceFollows'
    BY <1>2 DEF Adapter!LoadConfig, AdapterTypes, DeviceFollows
  <2>3. Adapter!OnlyFailedDialsLeak'
    BY <1>2 DEF Adapter!LoadConfig, AdapterTypes, Adapter!OnlyFailedDialsLeak
  <2> QED BY <2>1, <2>2, <2>3
<1>3. CASE Adapter!Register
  <2>1. AdapterTypes'
    BY <1>3 DEF Adapter!Register, AdapterTypes, AdapterPlaces, DeviceFollows, Adapter!OnlyFailedDialsLeak
  <2>2. DeviceFollows'
    BY <1>3 DEF Adapter!Register, AdapterTypes, DeviceFollows
  <2>3. Adapter!OnlyFailedDialsLeak'
    BY <1>3 DEF Adapter!Register, AdapterTypes, Adapter!OnlyFailedDialsLeak
  <2> QED BY <2>1, <2>2, <2>3
<1>4. CASE Adapter!EnrollKey
  <2>1. AdapterTypes'
    BY <1>4 DEF Adapter!EnrollKey, AdapterTypes, AdapterPlaces, DeviceFollows, Adapter!OnlyFailedDialsLeak
  <2>2. DeviceFollows'
    BY <1>4 DEF Adapter!EnrollKey, AdapterTypes, DeviceFollows
  <2>3. Adapter!OnlyFailedDialsLeak'
    BY <1>4 DEF Adapter!EnrollKey, AdapterTypes, Adapter!OnlyFailedDialsLeak
  <2> QED BY <2>1, <2>2, <2>3
<1>5. CASE Adapter!SaveCreates
  <2>1. AdapterTypes'
    BY <1>5 DEF Adapter!SaveCreates, AdapterTypes, AdapterPlaces, DeviceFollows, Adapter!OnlyFailedDialsLeak
  <2>2. DeviceFollows'
    BY <1>5 DEF Adapter!SaveCreates, AdapterTypes, DeviceFollows
  <2>3. Adapter!OnlyFailedDialsLeak'
    BY <1>5 DEF Adapter!SaveCreates, AdapterTypes, Adapter!OnlyFailedDialsLeak
  <2> QED BY <2>1, <2>2, <2>3
<1>6. CASE Adapter!SaveWrites
  <2>1. AdapterTypes'
    BY <1>6 DEF Adapter!SaveWrites, AdapterTypes, AdapterPlaces, DeviceFollows, Adapter!OnlyFailedDialsLeak
  <2>2. DeviceFollows'
    BY <1>6 DEF Adapter!SaveWrites, AdapterTypes, DeviceFollows
  <2>3. Adapter!OnlyFailedDialsLeak'
    BY <1>6 DEF Adapter!SaveWrites, AdapterTypes, Adapter!OnlyFailedDialsLeak
  <2> QED BY <2>1, <2>2, <2>3
<1>7. CASE Adapter!Verify
  <2>1. AdapterTypes'
    BY <1>7 DEF Adapter!Verify, AdapterTypes, AdapterPlaces, DeviceFollows, Adapter!OnlyFailedDialsLeak
  <2>2. DeviceFollows'
    BY <1>7 DEF Adapter!Verify, AdapterTypes, DeviceFollows
  <2>3. Adapter!OnlyFailedDialsLeak'
    BY <1>7 DEF Adapter!Verify, AdapterTypes, Adapter!OnlyFailedDialsLeak
  <2> QED BY <2>1, <2>2, <2>3
<1>8. CASE Adapter!Prepare
  <2>1. AdapterTypes'
    BY <1>8 DEF Adapter!Prepare, AdapterTypes, AdapterPlaces, DeviceFollows, Adapter!OnlyFailedDialsLeak
  <2>2. DeviceFollows'
    BY <1>8 DEF Adapter!Prepare, AdapterTypes, DeviceFollows
  <2>3. Adapter!OnlyFailedDialsLeak'
    BY <1>8 DEF Adapter!Prepare, AdapterTypes, Adapter!OnlyFailedDialsLeak
  <2> QED BY <2>1, <2>2, <2>3
<1>9. CASE Adapter!ListenUDP
  <2>1. AdapterTypes'
    BY <1>9 DEF Adapter!ListenUDP, AdapterTypes, AdapterPlaces, DeviceFollows, Adapter!OnlyFailedDialsLeak
  <2>2. DeviceFollows'
    BY <1>9 DEF Adapter!ListenUDP, AdapterTypes, DeviceFollows
  <2>3. Adapter!OnlyFailedDialsLeak'
    BY <1>9 DEF Adapter!ListenUDP, AdapterTypes, Adapter!OnlyFailedDialsLeak
  <2> QED BY <2>1, <2>2, <2>3
<1>10. CASE Adapter!Dial
  <2>1. AdapterTypes'
    BY <1>10 DEF Adapter!Dial, AdapterTypes, AdapterPlaces, DeviceFollows, Adapter!OnlyFailedDialsLeak
  <2>2. DeviceFollows'
    BY <1>10 DEF Adapter!Dial, AdapterTypes, DeviceFollows
  <2>3. Adapter!OnlyFailedDialsLeak'
    BY <1>10 DEF Adapter!Dial, AdapterTypes, Adapter!OnlyFailedDialsLeak
  <2> QED BY <2>1, <2>2, <2>3
<1>11. CASE Adapter!CheckStatus
  <2>1. AdapterTypes'
    BY <1>11 DEF Adapter!CheckStatus, AdapterTypes, AdapterPlaces, DeviceFollows, Adapter!OnlyFailedDialsLeak
  <2>2. DeviceFollows'
    BY <1>11 DEF Adapter!CheckStatus, AdapterTypes, DeviceFollows
  <2>3. Adapter!OnlyFailedDialsLeak'
    BY <1>11 DEF Adapter!CheckStatus, AdapterTypes, Adapter!OnlyFailedDialsLeak
  <2> QED BY <2>1, <2>2, <2>3
<1>12. CASE Adapter!Close
  <2>1. AdapterTypes'
    BY <1>12 DEF Adapter!Close, AdapterTypes, AdapterPlaces, DeviceFollows, Adapter!OnlyFailedDialsLeak
  <2>2. DeviceFollows'
    BY <1>12 DEF Adapter!Close, AdapterTypes, DeviceFollows
  <2>3. Adapter!OnlyFailedDialsLeak'
    BY <1>12 DEF Adapter!Close, AdapterTypes, Adapter!OnlyFailedDialsLeak
  <2> QED BY <2>1, <2>2, <2>3
<1>13. CASE Adapter!Crash
  <2>0. noizeOn' \in BOOLEAN /\ withNoize' \in BOOLEAN
    BY <1>13, Zenon DEF Adapter!Crash, AdapterTypes
  <2>1. AdapterTypes'
    BY <1>13, <2>0 DEF Adapter!Crash, AdapterTypes, AdapterPlaces, DeviceFollows, Adapter!OnlyFailedDialsLeak
  <2>2. DeviceFollows'
    BY <1>13 DEF Adapter!Crash, AdapterTypes, DeviceFollows
  <2>3. Adapter!OnlyFailedDialsLeak'
    BY <1>13 DEF Adapter!Crash, AdapterTypes, Adapter!OnlyFailedDialsLeak
  <2> QED BY <2>1, <2>2, <2>3
<1> QED BY <1>1, <1>2, <1>3, <1>4, <1>5, <1>6, <1>7, <1>8, <1>9, <1>10, <1>11, <1>12, <1>13 DEF Adapter!Next

\* Steps of the other parts leave the adapter alone.
LEMMA AdapterStutter == AdapterInv /\ UNCHANGED adapterVars => AdapterInv'
  BY DEF AdapterInv, AdapterTypes, DeviceFollows, Adapter!OnlyFailedDialsLeak, adapterVars

\* The invariant yields the three properties of the adapter.
LEMMA AdapterMeans == AdapterInv => Adapter!TypeOK /\ Adapter!TunnelUsesSavedDevice /\ Adapter!OnlyFailedDialsLeak
  BY DEF AdapterInv, AdapterTypes, DeviceFollows, Adapter!TypeOK, Adapter!TunnelUsesSavedDevice

-----------------------------------------------------------------------------
\* Startup (app/app.go, app/wg.go, psiphon/p.go).

\* Before a device is made, while one is, and when a proxy runs over one.
Opening  == {"dispatch", "scan", "masque", "masqueTest"}
Building == {"identity", "try", "handshake", "test", "forward"}
Running  == {"serve", "psiphon", "beforeSelect", "select", "serving"}
WgModes  == {"wireguard", "warp", "gool", "psiphon"}

DeviceSet ==
    [key : {"primary", "secondary"}, noize : BOOLEAN, trick : {"t0", "t1", "t2"},
     state : {"made", "up", "closed"}, failed : {"none", "setup", "timeout", "test"}, shook : BOOLEAN]

StartTypes ==
    /\ startPc \in Opening \cup Building \cup Running \cup {"fatal", "stopped"}
    /\ mode \in WgModes \cup {"masque", "none"}
    /\ layer \in {"outer", "inner"} /\ try \in 1 .. 2
    /\ devices \in Seq(DeviceSet) /\ forward \in Nat /\ tested \subseteq Nat
    /\ adapter \in {"none", "open", "closed"} /\ reported \in 0 .. MaxNotices
    /\ maintain \in BOOLEAN /\ proxyFailed \in BOOLEAN

\* The mode at each place, and that MASQUE makes no device.
ModeFits ==
    /\ startPc = "dispatch" => mode = "none"
    /\ startPc = "scan" => mode # "none"
    /\ startPc \in {"masque", "masqueTest"} => mode = "masque"
    /\ startPc \in Building \cup (Running \ {"serving"}) => mode \in WgModes
    /\ startPc = "serving" => mode # "none"
    /\ startPc \in Opening \/ mode \in {"none", "masque"} =>
          devices = <<>> /\ tested = {} /\ forward = 0 /\ layer = "outer" /\ try = 1
    /\ layer = "inner" => mode = "gool"
    /\ startPc = "forward" => layer = "outer" /\ mode = "gool"
    /\ startPc \in Running /\ mode = "gool" => layer = "inner"

\* How many devices there are: two tries for the outer one, one for the inner.
DeviceCount ==
    LET n == Len(devices) IN
    /\ layer = "outer" =>
          /\ forward = 0 /\ n <= 2
          /\ startPc = "identity" => n = 0 /\ try = 1
          /\ startPc = "try" => n <= try - 1
          /\ startPc \in {"handshake", "test"} => n \in 1 .. try
          /\ startPc = "forward" => n > 0
    /\ layer = "inner" =>
          /\ forward \in 1 .. 2 /\ n \in forward .. forward + 1
          /\ startPc \in {"identity", "try"} => n = forward
          /\ startPc \in {"handshake", "test"} \cup Running => n = forward + 1

\* Which devices passed their test.
TestedFits ==
    /\ tested \subseteq 1 .. Len(devices)
    /\ tested \subseteq {forward, Len(devices)}
    /\ startPc \in Building \ {"forward"} => tested = (IF layer = "inner" THEN {forward} ELSE {})
    /\ layer = "inner" => forward \in tested
    /\ startPc \in {"forward"} \cup Running /\ mode # "masque" => Len(devices) > 0 /\ Len(devices) \in tested

\* The state of the devices: the one that is being tried is up and has not failed, a
\* tested one has shaken hands, one that is not up failed in its set-up or is closed,
\* and those above the forwarder have the second key.
DeviceFits(i) ==
    /\ i \in tested => devices[i].state = "up" /\ devices[i].shook
    /\ devices[i].failed = "timeout" => devices[i].state = "closed"
    /\ devices[i].failed = "none" => devices[i].state = "up" /\ (i = Len(devices) \/ i \in tested)
    /\ devices[i].key = (IF layer = "inner" /\ i > forward THEN "secondary" ELSE "primary")

DevicesFit ==
    /\ startPc \in {"handshake", "test"} => devices[Len(devices)].failed = "none"
    /\ startPc = "test" => devices[Len(devices)].shook
    /\ startPc \in {"identity", "try"} => \A i \in 1 .. Len(devices) : devices[i].failed = "none" => i \in tested
    /\ \A i \in 1 .. Len(devices) : DeviceFits(i)

\* The MASQUE adapter is open only while it is maintained, which goes on after the
\* fall back only if it was the proxy that failed.
AdapterFits ==
    /\ startPc \in {"dispatch", "scan", "masque"} => adapter = "none" /\ ~maintain
    /\ adapter = "open" => maintain
    /\ maintain /\ mode = "warp" => proxyFailed

StartInv == StartTypes /\ ModeFits /\ DeviceCount /\ TestedFits /\ DevicesFit /\ AdapterFits

\* Proofs of Startup.

\* RunWarp starts with no device and no proxy (app.go).
LEMMA StartInit == Start!Init => StartInv
<1> SUFFICES ASSUME Start!Init PROVE StartInv
  OBVIOUS
<1>1. maintain \in BOOLEAN /\ proxyFailed \in BOOLEAN
  BY Zenon DEF Start!Init
<1>2. devices \in Seq(DeviceSet) /\ Len(devices) = 0 /\ devices = <<>>
  BY DEF Start!Init
<1>3. StartTypes
  BY <1>1, <1>2, ControlAssumption DEF Start!Init, StartTypes, Opening, WgModes
<1>4. ModeFits /\ DeviceCount /\ TestedFits
  BY <1>2 DEF Start!Init, ModeFits, DeviceCount, TestedFits, Opening, Building, Running, WgModes
<1>5. DevicesFit /\ AdapterFits
  BY <1>2 DEF Start!Init, DevicesFit, DeviceFits, AdapterFits
<1> QED BY <1>3, <1>4, <1>5 DEF StartInv

\* A new device at the end leaves the others where they are.
LEMMA Appended ==
    ASSUME NEW S, NEW s \in Seq(S), NEW e \in S
    PROVE  /\ Append(s, e) \in Seq(S) /\ Len(Append(s, e)) = Len(s) + 1 /\ Len(s) \in Nat
           /\ \A i \in 1 .. Len(s) : Append(s, e)[i] = s[i]
           /\ Append(s, e)[Len(s) + 1] = e
  OBVIOUS

\* What follows a try that failed: the next try, or the end.
LEMMA AfterATry ==
    ASSUME Start!NextTry, mode \in WgModes, layer \in {"outer", "inner"}, try \in 1 .. 2
    PROVE  /\ mode' = mode
           /\ \/ layer = "outer" /\ try = 1 /\ try' = 2 /\ startPc' = "try"
              \/ try' = try /\ startPc' = "fatal"
  BY DEF Start!NextTry, Start!Failed, WgModes

\* What follows a MASQUE tunnel that failed.
LEMMA AfterMasque ==
    ASSUME Start!Failed, mode = "masque"
    PROVE  (startPc' = "identity" /\ mode' = "warp") \/ (startPc' = "fatal" /\ mode' = "masque")
  BY DEF Start!Failed

\* The device a try makes has the key of its layer.
LEMMA NewDevice ==
    ASSUME StartTypes, NEW st \in {"made", "up", "closed"}, NEW why \in {"none", "setup", "timeout", "test"}
    PROVE  /\ Start!Device(st, why) \in DeviceSet
           /\ Start!Device(st, why).key = (IF layer = "inner" THEN "secondary" ELSE "primary")
           /\ Start!Device(st, why).state = st
           /\ Start!Device(st, why).failed = why
<1>1. (opts.noize /\ layer = "outer") \in BOOLEAN
  BY Zenon
<1>2. (IF opts.noize \/ layer = "inner" THEN "t0" ELSE Start!Tricks[try]) \in {"t0", "t1", "t2"}
  BY DEF StartTypes, Start!Tricks
<1>3. FALSE \in BOOLEAN
  OBVIOUS
<1> QED BY <1>1, <1>2, <1>3, Zenon DEF Start!Device, DeviceSet

\* Another value for one of them leaves the others where they are.
LEMMA OneChanged ==
    ASSUME NEW S, NEW s \in Seq(S), NEW e \in S, NEW k \in 1 .. Len(s)
    PROVE  LET t == [s EXCEPT ![k] = e] IN
           /\ t \in Seq(S) /\ Len(t) = Len(s) /\ Len(s) \in Nat
           /\ \A i \in 1 .. Len(s) : i # k => t[i] = s[i]
           /\ t[k] = e
  OBVIOUS

\* Every try, failure, fallback and cancellation of RunWarp keeps its order.
LEMMA StartStep == StartInv /\ Start!Next => StartInv'
<1> SUFFICES ASSUME StartInv, Start!Next PROVE StartInv'
  OBVIOUS
<1> USE DEF Opening, Building, Running, WgModes
<1>t. StartTypes /\ ModeFits /\ DeviceCount /\ TestedFits /\ DevicesFit /\ AdapterFits /\ Len(devices) \in Nat
  BY DEF StartInv, StartTypes
<1>1. CASE Start!RunWarp
  <2>0. startPc = "dispatch" /\ UNCHANGED <<opts, layer, try, devices, tested, forward, adapter, maintain, proxyFailed, reported>>
           /\ \/ startPc' = "fatal" /\ mode' = mode
              \/ /\ mode' \in WgModes \cup {"masque"}
                 /\ startPc' = "scan" \/ startPc' = (IF mode' = "masque" THEN "masque" ELSE "identity")
    BY <1>1, <1>t DEF Start!RunWarp, Start!Keep, StartTypes, ModeFits, Start!Chosen, Start!FirstStep
  <2>1. StartTypes'
    BY <1>t, <2>0 DEF StartTypes, DeviceCount, ModeFits
  <2>2. ModeFits'
    BY <1>t, <2>0 DEF StartTypes, ModeFits, DeviceCount
  <2>3. DeviceCount'
    BY <1>t, <2>0 DEF StartTypes, ModeFits, DeviceCount
  <2>4. TestedFits'
    BY <1>t, <2>0 DEF StartTypes, ModeFits, DeviceCount, TestedFits
  <2>5. DevicesFit'
    BY <1>t, <2>0 DEF StartTypes, ModeFits, DeviceCount, TestedFits, DevicesFit, DeviceFits
  <2>6. AdapterFits'
    BY <1>t, <2>0 DEF StartTypes, ModeFits, AdapterFits
  <2> QED BY <2>1, <2>2, <2>3, <2>4, <2>5, <2>6 DEF StartInv
<1>2. CASE Start!Scan
  <2>0. startPc = "scan" /\ UNCHANGED <<mode, opts, layer, try, devices, tested, forward, adapter, maintain, proxyFailed, reported>>
           /\ startPc' \in {"fatal", IF mode = "masque" THEN "masque" ELSE "identity"}
    BY <1>2, <1>t DEF Start!Scan, Start!Keep, StartTypes, ModeFits, Start!FirstStep
  <2>1. StartTypes'
    BY <1>t, <2>0 DEF StartTypes, DeviceCount, ModeFits
  <2>2. ModeFits'
    BY <1>t, <2>0 DEF StartTypes, ModeFits, DeviceCount
  <2>3. DeviceCount'
    BY <1>t, <2>0 DEF StartTypes, ModeFits, DeviceCount
  <2>4. TestedFits'
    BY <1>t, <2>0 DEF StartTypes, ModeFits, DeviceCount, TestedFits
  <2>5. DevicesFit'
    BY <1>t, <2>0 DEF StartTypes, ModeFits, DeviceCount, TestedFits, DevicesFit, DeviceFits
  <2>6. AdapterFits'
    BY <1>t, <2>0 DEF StartTypes, ModeFits, AdapterFits
  <2> QED BY <2>1, <2>2, <2>3, <2>4, <2>5, <2>6 DEF StartInv
<1>3. CASE Start!LoadIdentity
  <2> USE <1>3 DEF Start!LoadIdentity, Start!Keep
  <2>1. StartTypes'
    BY <1>t DEF StartTypes, DeviceCount, ModeFits
  <2>2. ModeFits'
    BY <1>t DEF StartTypes, ModeFits, DeviceCount
  <2>3. DeviceCount'
    BY <1>t DEF StartTypes, ModeFits, DeviceCount
  <2>4. TestedFits'
    BY <1>t DEF StartTypes, ModeFits, DeviceCount, TestedFits
  <2>5. DevicesFit'
    BY <1>t DEF StartTypes, ModeFits, DeviceCount, TestedFits, DevicesFit, DeviceFits
  <2>6. AdapterFits'
    BY <1>t DEF StartTypes, ModeFits, AdapterFits
  <2> QED BY <2>1, <2>2, <2>3, <2>4, <2>5, <2>6 DEF StartInv
<1>4. CASE Start!Forward
  <2>a. Len(devices) > 0 /\ Len(devices) <= 2 /\ forward = 0 /\ layer = "outer" /\ mode # "masque" /\ startPc = "forward"
    BY <1>t, <1>4 DEF Start!Forward, StartTypes, ModeFits, DeviceCount
  <2>c. tested \subseteq {forward, Len(devices)} /\ tested \subseteq 1 .. Len(devices) /\ Len(devices) \in tested
    BY <1>t, <2>a DEF TestedFits
  <2>d. \A x \in tested : x = Len(devices)
    BY <1>t, <2>a, <2>c
  <2>b. tested = {Len(devices)}
    BY <2>c, <2>d
  <2>0. tested = {Len(devices)} /\ Len(devices) > 0 /\ Len(devices) <= 2 /\ forward = 0 /\ layer = "outer"
    BY <2>a, <2>b
  <2> USE <1>4 DEF Start!Forward, Start!Keep
  <2>1. StartTypes'
    BY <1>t, <2>0 DEF StartTypes, DeviceCount, ModeFits
  <2>2. ModeFits'
    BY <1>t, <2>0 DEF StartTypes, ModeFits, DeviceCount
  <2>3. DeviceCount'
    BY <1>t, <2>0 DEF StartTypes, ModeFits, DeviceCount
  <2>4. TestedFits'
    BY <1>t, <2>0 DEF StartTypes, ModeFits, DeviceCount, TestedFits
  <2>5. DevicesFit'
    BY <1>t, <2>0 DEF StartTypes, ModeFits, DeviceCount, TestedFits, DevicesFit, DeviceFits
  <2>6. AdapterFits'
    BY <1>t, <2>0 DEF StartTypes, ModeFits, AdapterFits
  <2> QED BY <2>1, <2>2, <2>3, <2>4, <2>5, <2>6 DEF StartInv
<1>5. CASE Start!Serve
  <2> USE <1>5 DEF Start!Serve, Start!Keep
  <2>1. StartTypes'
    BY <1>t DEF StartTypes, DeviceCount, ModeFits
  <2>2. ModeFits'
    BY <1>t DEF StartTypes, ModeFits, DeviceCount
  <2>3. DeviceCount'
    BY <1>t DEF StartTypes, ModeFits, DeviceCount
  <2>4. TestedFits'
    BY <1>t DEF StartTypes, ModeFits, DeviceCount, TestedFits
  <2>5. DevicesFit'
    BY <1>t DEF StartTypes, ModeFits, DeviceCount, TestedFits, DevicesFit, DeviceFits
  <2>6. AdapterFits'
    BY <1>t DEF StartTypes, ModeFits, AdapterFits
  <2> QED BY <2>1, <2>2, <2>3, <2>4, <2>5, <2>6 DEF StartInv
<1>6. CASE Start!StartTunnel
  <2> USE <1>6 DEF Start!StartTunnel, Start!Keep
  <2>1. StartTypes'
    BY <1>t DEF StartTypes, DeviceCount, ModeFits
  <2>2. ModeFits'
    BY <1>t DEF StartTypes, ModeFits, DeviceCount
  <2>3. DeviceCount'
    BY <1>t DEF StartTypes, ModeFits, DeviceCount
  <2>4. TestedFits'
    BY <1>t DEF StartTypes, ModeFits, DeviceCount, TestedFits
  <2>5. DevicesFit'
    BY <1>t DEF StartTypes, ModeFits, DeviceCount, TestedFits, DevicesFit, DeviceFits
  <2>6. AdapterFits'
    BY <1>t DEF StartTypes, ModeFits, AdapterFits
  <2> QED BY <2>1, <2>2, <2>3, <2>4, <2>5, <2>6 DEF StartInv
<1>7. CASE Start!Select
  <2> USE <1>7 DEF Start!Select, Start!Keep
  <2>1. StartTypes'
    BY <1>t DEF StartTypes, DeviceCount, ModeFits
  <2>2. ModeFits'
    BY <1>t DEF StartTypes, ModeFits, DeviceCount
  <2>3. DeviceCount'
    BY <1>t DEF StartTypes, ModeFits, DeviceCount
  <2>4. TestedFits'
    BY <1>t DEF StartTypes, ModeFits, DeviceCount, TestedFits
  <2>5. DevicesFit'
    BY <1>t DEF StartTypes, ModeFits, DeviceCount, TestedFits, DevicesFit, DeviceFits
  <2>6. AdapterFits'
    BY <1>t DEF StartTypes, ModeFits, AdapterFits
  <2> QED BY <2>1, <2>2, <2>3, <2>4, <2>5, <2>6 DEF StartInv
<1>8. CASE Start!Notice
  <2> USE <1>8 DEF Start!Notice, Start!Keep
  <2>1. StartTypes'
    BY <1>t, ControlAssumption DEF StartTypes, DeviceCount, ModeFits
  <2>2. ModeFits'
    BY <1>t, ControlAssumption DEF StartTypes, ModeFits, DeviceCount
  <2>3. DeviceCount'
    BY <1>t, ControlAssumption DEF StartTypes, ModeFits, DeviceCount
  <2>4. TestedFits'
    BY <1>t, ControlAssumption DEF StartTypes, ModeFits, DeviceCount, TestedFits
  <2>5. DevicesFit'
    BY <1>t, ControlAssumption DEF StartTypes, ModeFits, DeviceCount, TestedFits, DevicesFit, DeviceFits
  <2>6. AdapterFits'
    BY <1>t, ControlAssumption DEF StartTypes, ModeFits, AdapterFits
  <2> QED BY <2>1, <2>2, <2>3, <2>4, <2>5, <2>6 DEF StartInv
<1>9. CASE Start!ControllerExits
  <2> USE <1>9 DEF Start!ControllerExits, Start!Keep
  <2>1. StartTypes'
    BY <1>t DEF StartTypes, DeviceCount, ModeFits
  <2>2. ModeFits'
    BY <1>t DEF StartTypes, ModeFits, DeviceCount
  <2>3. DeviceCount'
    BY <1>t DEF StartTypes, ModeFits, DeviceCount
  <2>4. TestedFits'
    BY <1>t DEF StartTypes, ModeFits, DeviceCount, TestedFits
  <2>5. DevicesFit'
    BY <1>t DEF StartTypes, ModeFits, DeviceCount, TestedFits, DevicesFit, DeviceFits
  <2>6. AdapterFits'
    BY <1>t DEF StartTypes, ModeFits, AdapterFits
  <2> QED BY <2>1, <2>2, <2>3, <2>4, <2>5, <2>6 DEF StartInv
<1>10. CASE Start!Maintain
  <2> USE <1>10 DEF Start!Maintain, Start!Keep
  <2>1. StartTypes'
    BY <1>t DEF StartTypes, DeviceCount, ModeFits
  <2>2. ModeFits'
    BY <1>t DEF StartTypes, ModeFits, DeviceCount
  <2>3. DeviceCount'
    BY <1>t DEF StartTypes, ModeFits, DeviceCount
  <2>4. TestedFits'
    BY <1>t DEF StartTypes, ModeFits, DeviceCount, TestedFits
  <2>5. DevicesFit'
    BY <1>t DEF StartTypes, ModeFits, DeviceCount, TestedFits, DevicesFit, DeviceFits
  <2>6. AdapterFits'
    BY <1>t DEF StartTypes, ModeFits, AdapterFits
  <2> QED BY <2>1, <2>2, <2>3, <2>4, <2>5, <2>6 DEF StartInv
<1>11. CASE Start!Interrupt
  <2> USE <1>11 DEF Start!Interrupt, Start!Keep
  <2>1. StartTypes'
    BY <1>t DEF StartTypes, DeviceCount, ModeFits
  <2>2. ModeFits'
    BY <1>t DEF StartTypes, ModeFits, DeviceCount
  <2>3. DeviceCount'
    BY <1>t DEF StartTypes, ModeFits, DeviceCount
  <2>4. TestedFits'
    BY <1>t DEF StartTypes, ModeFits, DeviceCount, TestedFits
  <2>5. DevicesFit'
    BY <1>t DEF StartTypes, ModeFits, DeviceCount, TestedFits, DevicesFit, DeviceFits
  <2>6. AdapterFits'
    BY <1>t DEF StartTypes, ModeFits, AdapterFits
  <2> QED BY <2>1, <2>2, <2>3, <2>4, <2>5, <2>6 DEF StartInv
<1>12. ASSUME NEW m \in notices, Start!Offer(m) PROVE StartInv'
  <2>0. /\ UNCHANGED <<mode, opts, layer, try, devices, tested, forward, adapter, maintain, proxyFailed, reported>>
        /\ startPc' = startPc \/ (startPc = "select" /\ startPc' \in {"serving", "fatal"})
    BY <1>12 DEF Start!Offer
  <2>1. StartTypes'
    BY <1>t, <2>0 DEF StartTypes, DeviceCount, ModeFits
  <2>2. ModeFits'
    BY <1>t, <2>0 DEF StartTypes, ModeFits, DeviceCount
  <2>3. DeviceCount'
    BY <1>t, <2>0 DEF StartTypes, ModeFits, DeviceCount
  <2>4. TestedFits'
    BY <1>t, <2>0 DEF StartTypes, ModeFits, DeviceCount, TestedFits
  <2>5. DevicesFit'
    BY <1>t, <2>0 DEF StartTypes, ModeFits, DeviceCount, TestedFits, DevicesFit, DeviceFits
  <2>6. AdapterFits'
    BY <1>t, <2>0 DEF StartTypes, ModeFits, AdapterFits
  <2> QED BY <2>1, <2>2, <2>3, <2>4, <2>5, <2>6 DEF StartInv
<1>13. CASE Start!MakeDevice
  <2>0. /\ startPc = "try" /\ mode \in WgModes /\ mode' = mode
        /\ UNCHANGED <<opts, layer, tested, forward, adapter, maintain, proxyFailed, reported>>
    BY <1>13, <1>t, AfterATry DEF Start!MakeDevice, ModeFits, StartTypes
  <2>a. CASE Start!NextTry /\ UNCHANGED devices
    <3>0. \/ layer = "outer" /\ try = 1 /\ try' = 2 /\ startPc' = "try"
          \/ try' = try /\ startPc' = "fatal"
      BY <2>a, <2>0, <1>t, AfterATry DEF StartTypes
    <3>1. StartTypes'
      BY <1>t, <2>0, <2>a, <3>0 DEF StartTypes, DeviceCount, ModeFits
    <3>2. ModeFits'
      BY <1>t, <2>0, <2>a, <3>0 DEF StartTypes, ModeFits, DeviceCount
    <3>3. DeviceCount'
      BY <1>t, <2>0, <2>a, <3>0 DEF StartTypes, ModeFits, DeviceCount
    <3>4. TestedFits'
      BY <1>t, <2>0, <2>a, <3>0 DEF StartTypes, ModeFits, DeviceCount, TestedFits
    <3>5. DevicesFit'
      BY <1>t, <2>0, <2>a, <3>0 DEF StartTypes, ModeFits, DeviceCount, TestedFits, DevicesFit, DeviceFits
    <3>6. AdapterFits'
      BY <1>t, <2>0, <2>a, <3>0 DEF StartTypes, ModeFits, AdapterFits
    <3> QED BY <3>1, <3>2, <3>3, <3>4, <3>5, <3>6 DEF StartInv
  <2>b. ASSUME NEW st \in {"made", "up"}, NEW why \in {"none", "setup"}, devices' = Append(devices, Start!Device(st, why)),
               \/ /\ st = "made" /\ why = "setup"
                  /\ \/ layer = "outer" /\ try = 1 /\ try' = 2 /\ startPc' = "try"
                     \/ try' = try /\ startPc' = "fatal"
               \/ st = "up" /\ why = "none" /\ try' = try /\ startPc' = "handshake"
        PROVE  StartInv'
    <3>0. \/ /\ st = "made" /\ why = "setup"
             /\ \/ layer = "outer" /\ try = 1 /\ try' = 2 /\ startPc' = "try"
                \/ try' = try /\ startPc' = "fatal"
          \/ st = "up" /\ why = "none" /\ try' = try /\ startPc' = "handshake"
      BY <2>b
    <3>a. /\ devices' \in Seq(DeviceSet) /\ Len(devices') = Len(devices) + 1
          /\ \A i \in 1 .. Len(devices) : devices'[i] = devices[i]
          /\ devices'[Len(devices) + 1] = Start!Device(st, why)
      BY <2>b, <1>t, NewDevice, Appended DEF StartTypes
    <3>b. /\ devices'[Len(devices) + 1].state = st /\ devices'[Len(devices) + 1].failed = why
          /\ devices'[Len(devices) + 1].key = (IF layer = "inner" THEN "secondary" ELSE "primary")
      BY <3>a, <1>t, NewDevice
    <3>1. StartTypes'
      BY <1>t, <2>0, <3>0, <3>a, <3>b DEF StartTypes, DeviceCount, ModeFits
    <3>2. ModeFits'
      BY <1>t, <2>0, <3>0, <3>a, <3>b DEF StartTypes, ModeFits, DeviceCount
    <3>3. DeviceCount'
      BY <1>t, <2>0, <3>0, <3>a, <3>b DEF StartTypes, ModeFits, DeviceCount
    <3>4. TestedFits'
      BY <1>t, <2>0, <3>0, <3>a, <3>b DEF StartTypes, ModeFits, DeviceCount, TestedFits
    <3>5. DevicesFit'
      <4>1. \A i \in 1 .. Len(devices) : DeviceFits(i) /\ (devices[i].failed = "none" => i \in tested)
        BY <1>t, <2>0 DEF DevicesFit
      <4>2. tested \subseteq 1 .. Len(devices) /\ (layer = "inner" => forward = Len(devices))
        BY <1>t, <2>0 DEF TestedFits, DeviceCount, StartTypes
      <4>3. \A i \in 1 .. Len(devices) : DeviceFits(i)' /\ (devices'[i].failed = "none" => i \in tested')
        BY <1>t, <2>0, <3>a, <4>1 DEF DeviceFits
      <4>4. ASSUME NEW i, i = Len(devices) + 1 PROVE DeviceFits(i)'
        <5>1. i \notin tested' /\ i = Len(devices')
          BY <1>t, <2>0, <3>a, <4>2, <4>4
        <5>2. layer' = "inner" => i > forward'
          BY <1>t, <2>0, <4>2, <4>4 DEF StartTypes
        <5>3. /\ devices'[i].state = st /\ devices'[i].failed = why
              /\ devices'[i].key = (IF layer' = "inner" THEN "secondary" ELSE "primary")
          BY <2>0, <3>b, <4>4
        <5> QED BY <3>0, <5>1, <5>2, <5>3 DEF DeviceFits
      <4>5. \A i \in 1 .. Len(devices') : i \in 1 .. Len(devices) \/ i = Len(devices) + 1
        BY <1>t, <3>a
      <4>6. \A i \in 1 .. Len(devices') : DeviceFits(i)'
        <5> SUFFICES ASSUME NEW i \in 1 .. Len(devices') PROVE DeviceFits(i)'
          OBVIOUS
        <5>1. CASE i \in 1 .. Len(devices)
          BY <4>3, <5>1
        <5>2. CASE i = Len(devices) + 1
          BY <4>4, <5>2
        <5> QED BY <4>5, <5>1, <5>2
      <4> QED BY <3>0, <3>a, <3>b, <4>3, <4>5, <4>6 DEF DevicesFit
    <3>6. AdapterFits'
      BY <1>t, <2>0, <3>0, <3>a, <3>b DEF StartTypes, ModeFits, AdapterFits
    <3> QED BY <3>1, <3>2, <3>3, <3>4, <3>5, <3>6 DEF StartInv
  <2>c. CASE Start!NextTry /\ devices' = Append(devices, Start!Device("made", "setup"))
    <3>1. \/ layer = "outer" /\ try = 1 /\ try' = 2 /\ startPc' = "try"
          \/ try' = try /\ startPc' = "fatal"
      BY <2>c, <2>0, <1>t, AfterATry DEF StartTypes
    <3> QED BY <2>b, <2>c, <3>1
  <2>d. CASE devices' = Append(devices, Start!Device("up", "none")) /\ startPc' = "handshake" /\ UNCHANGED <<mode, try>>
    BY <2>b, <2>d
  <2> QED BY <1>13, <2>a, <2>c, <2>d DEF Start!MakeDevice
<1>14. ASSUME NEW k \in 1 .. Len(devices), NEW d \in DeviceSet, devices' = [devices EXCEPT ![k] = d],
              d.key = devices[k].key, mode' = mode,
              UNCHANGED <<opts, layer, tested, forward, adapter, maintain, proxyFailed, reported>>,
              k \in tested => d.state = "up" /\ d.shook,
              d.failed = "timeout" => d.state = "closed",
              d.failed = "none" => d.state = "up" /\ (k = Len(devices) \/ k \in tested),
              \/ startPc' = startPc /\ try' = try /\ d.failed = devices[k].failed /\ (devices[k].shook => d.shook)
              \/ /\ startPc = "handshake" /\ startPc' = "test" /\ try' = try /\ k = Len(devices)
                 /\ d.failed = "none" /\ d.shook
              \/ /\ startPc \in {"handshake", "test"} /\ k = Len(devices) /\ d.failed # "none"
                 /\ \/ layer = "outer" /\ try = 1 /\ try' = 2 /\ startPc' = "try"
                    \/ try' = try /\ startPc' = "fatal"
       PROVE  StartInv'
  <2>0. /\ mode' = mode
        /\ UNCHANGED <<opts, layer, tested, forward, adapter, maintain, proxyFailed, reported>>
        /\ \/ startPc' = startPc /\ try' = try
           \/ startPc = "handshake" /\ startPc' = "test" /\ try' = try
           \/ /\ startPc \in {"handshake", "test"}
              /\ \/ layer = "outer" /\ try = 1 /\ try' = 2 /\ startPc' = "try"
                 \/ try' = try /\ startPc' = "fatal"
    BY <1>14
  <2>a. /\ devices' \in Seq(DeviceSet) /\ Len(devices') = Len(devices)
        /\ \A i \in 1 .. Len(devices) : i # k => devices'[i] = devices[i]
        /\ devices'[k] = d
    BY <1>14, <1>t, OneChanged DEF StartTypes
  <2>e. devices' = <<>> <=> devices = <<>>
    BY <2>a, <1>t DEF StartTypes
  <2>1. StartTypes'
    BY <1>t, <2>0, <2>a DEF StartTypes
  <2>2. ModeFits'
    BY <1>t, <2>0, <2>e DEF StartTypes, ModeFits
  <2>3. DeviceCount'
    BY <1>t, <2>0, <2>a DEF StartTypes, ModeFits, DeviceCount
  <2>4. TestedFits'
    BY <1>t, <2>0, <2>a DEF StartTypes, ModeFits, DeviceCount, TestedFits
  <2>5. DevicesFit'
    <3>1. \A i \in 1 .. Len(devices) : DeviceFits(i)'
      <4> SUFFICES ASSUME NEW i \in 1 .. Len(devices) PROVE DeviceFits(i)'
        OBVIOUS
      <4>1. DeviceFits(i)
        BY <1>t DEF DevicesFit
      <4> QED BY <1>14, <2>0, <2>a, <4>1 DEF DeviceFits
    <3>2. Len(devices) \in 1 .. Len(devices)
      BY <1>t
    <3>3. CASE startPc' = startPc /\ d.failed = devices[k].failed /\ (devices[k].shook => d.shook)
      BY <1>t, <2>0, <2>a, <3>1, <3>2, <3>3 DEF DevicesFit
    <3>4. CASE startPc' = "test" /\ k = Len(devices) /\ d.failed = "none" /\ d.shook
      BY <2>0, <2>a, <3>1, <3>4 DEF DevicesFit
    <3>5. CASE startPc \in {"handshake", "test"} /\ k = Len(devices) /\ d.failed # "none" /\ startPc' \in {"try", "fatal"}
      <4>1. \A i \in 1 .. Len(devices) : devices'[i].failed = "none" => i \in tested
        <5> SUFFICES ASSUME NEW i \in 1 .. Len(devices), devices'[i].failed = "none" PROVE i \in tested
          OBVIOUS
        <5>1. i # k /\ devices'[i] = devices[i]
          BY <2>a, <3>5
        <5>2. DeviceFits(i)
          BY <1>t DEF DevicesFit
        <5> QED BY <3>5, <5>1, <5>2 DEF DeviceFits
      <4> QED BY <2>0, <2>a, <3>1, <3>5, <4>1 DEF DevicesFit
    <3> QED BY <1>14, <3>3, <3>4, <3>5
  <2>6. AdapterFits'
    BY <1>t, <2>0 DEF StartTypes, ModeFits, AdapterFits
  <2> QED BY <2>1, <2>2, <2>3, <2>4, <2>5, <2>6 DEF StartInv
<1>15. CASE Start!WaitHandshake
  <2>0. /\ startPc = "handshake" /\ mode \in WgModes /\ mode' = mode /\ Len(devices) \in 1 .. Len(devices)
        /\ UNCHANGED <<opts, layer, tested, forward, adapter, maintain, proxyFailed, reported>>
    BY <1>15, <1>t, AfterATry DEF Start!WaitHandshake, ModeFits, StartTypes, DeviceCount
  <2> DEFINE last == devices[Len(devices)]
  <2>l. last \in DeviceSet /\ last.failed = "none" /\ last.state = "up"
    BY <1>t, <2>0 DEF StartTypes, DevicesFit, DeviceFits
  <2>n. Len(devices) \notin tested
    BY <1>t, <2>0 DEF TestedFits, DeviceCount, StartTypes
  <2>b. CASE /\ devices' = [devices EXCEPT ![Len(devices)].shook = TRUE]
             /\ startPc' = "test" /\ UNCHANGED <<mode, try>>
    <3> DEFINE d == [last EXCEPT !.shook = TRUE]
    <3>1. d \in DeviceSet /\ d.key = last.key /\ d.state = "up" /\ d.failed = "none" /\ d.shook
      BY <2>l DEF DeviceSet
    <3>2. devices' = [devices EXCEPT ![Len(devices)] = d]
      BY <2>b, <1>t, <2>0 DEF StartTypes
    <3> HIDE DEF d
    <3> QED BY <1>14, <2>0, <2>b, <3>1, <3>2
  <2>c. CASE /\ devices' = [devices EXCEPT ![Len(devices)].state = "closed", ![Len(devices)].failed = "timeout"]
             /\ Start!NextTry
    <3> DEFINE d == [last EXCEPT !.state = "closed", !.failed = "timeout"]
    <3>1. d \in DeviceSet /\ d.key = last.key /\ d.state = "closed" /\ d.failed = "timeout"
      BY <2>l DEF DeviceSet
    <3>2. devices' = [devices EXCEPT ![Len(devices)] = d]
      BY <2>c, <1>t, <2>0 DEF StartTypes
    <3>3. \/ layer = "outer" /\ try = 1 /\ try' = 2 /\ startPc' = "try"
          \/ try' = try /\ startPc' = "fatal"
      BY <2>c, <2>0, <1>t, AfterATry DEF StartTypes
    <3> HIDE DEF d
    <3> QED BY <1>14, <2>0, <2>n, <3>1, <3>2, <3>3
  <2> QED BY <1>15, <2>b, <2>c DEF Start!WaitHandshake
<1>18. CASE Start!Test
  <2>0. /\ startPc = "test" /\ mode \in WgModes /\ mode' = mode /\ Len(devices) \in 1 .. Len(devices)
        /\ UNCHANGED <<opts, layer, forward, adapter, maintain, proxyFailed, reported>>
    BY <1>18, <1>t, AfterATry DEF Start!Test, ModeFits, StartTypes, DeviceCount
  <2>n. Len(devices) \notin tested
    BY <1>t, <2>0 DEF TestedFits, DeviceCount, StartTypes
  <2> DEFINE last == devices[Len(devices)]
  <2>l. last \in DeviceSet /\ last.failed = "none" /\ last.state = "up" /\ last.shook
    BY <1>t, <2>0 DEF StartTypes, DevicesFit, DeviceFits
  <2>a. CASE devices' = [devices EXCEPT ![Len(devices)].failed = "test"] /\ Start!NextTry /\ UNCHANGED tested
    <3> DEFINE d == [last EXCEPT !.failed = "test"]
    <3>1. d \in DeviceSet /\ d.key = last.key /\ d.failed = "test"
      BY <2>l DEF DeviceSet
    <3>2. devices' = [devices EXCEPT ![Len(devices)] = d]
      BY <2>a, <1>t, <2>0 DEF StartTypes
    <3>3. \/ layer = "outer" /\ try = 1 /\ try' = 2 /\ startPc' = "try"
          \/ try' = try /\ startPc' = "fatal"
      BY <2>a, <2>0, <1>t, AfterATry DEF StartTypes
    <3> HIDE DEF d
    <3> QED BY <1>14, <2>0, <2>a, <2>n, <3>1, <3>2, <3>3
  <2>b. CASE /\ tested' = tested \cup {Len(devices)} /\ UNCHANGED <<mode, try, devices>>
             /\ startPc' = (IF mode = "gool" /\ layer = "outer" THEN "forward" ELSE "serve")
    <3>1. 1 <= Len(devices) /\ Len(devices) <= 3 /\ forward \in 0 .. Len(devices) /\ (layer = "inner" => forward \in 1 .. Len(devices))
      <4>1. startPc = "test" /\ layer \in {"outer", "inner"} /\ try \in 1 .. 2 /\ DeviceCount /\ devices \in Seq(DeviceSet)
        BY <1>t, <2>0 DEF StartTypes
      <4>2. CASE layer = "outer"
        BY <4>1, <4>2 DEF DeviceCount
      <4>3. CASE layer = "inner"
        BY <4>1, <4>3 DEF DeviceCount
      <4> QED BY <4>1, <4>2, <4>3
    <3>2. tested = (IF layer = "inner" THEN {forward} ELSE {})
      BY <1>t, <2>0 DEF TestedFits
    <3>3. tested' \subseteq Nat /\ tested' \subseteq 1 .. Len(devices) /\ tested' \subseteq {forward, Len(devices)}
      BY <2>b, <3>1, <3>2
    <3>4. StartTypes'
      BY <1>t, <2>0, <2>b, <3>3 DEF StartTypes
    <3>5. ModeFits'
      BY <1>t, <2>0, <2>b, <3>1 DEF StartTypes, ModeFits
    <3>6. DeviceCount'
      BY <1>t, <2>0, <2>b, <3>1 DEF StartTypes, ModeFits, DeviceCount
    <3>7. TestedFits'
      BY <1>t, <2>0, <2>b, <3>1, <3>2, <3>3 DEF StartTypes, ModeFits, DeviceCount, TestedFits
    <3>8. DevicesFit'
      <4>1. \A i \in 1 .. Len(devices) : DeviceFits(i)'
        <5> SUFFICES ASSUME NEW i \in 1 .. Len(devices) PROVE DeviceFits(i)'
          OBVIOUS
        <5>1. DeviceFits(i)
          BY <1>t DEF DevicesFit
        <5> QED BY <2>0, <2>b, <2>l, <5>1 DEF DeviceFits
      <4> QED BY <2>b, <4>1 DEF DevicesFit
    <3>9. AdapterFits'
      BY <1>t, <2>0, <2>b DEF StartTypes, ModeFits, AdapterFits
    <3> QED BY <3>4, <3>5, <3>6, <3>7, <3>8, <3>9 DEF StartInv
  <2> QED BY <1>18, <2>a, <2>b DEF Start!Test
<1>19. ASSUME NEW i \in DOMAIN devices, Start!EventUp(i) PROVE StartInv'
  <2>0. /\ i \in 1 .. Len(devices) /\ devices[i].state = "made" /\ devices[i] \in DeviceSet
        /\ UNCHANGED <<startPc, mode, opts, layer, try, tested, forward, adapter, maintain, proxyFailed, reported>>
    BY <1>19, <1>t DEF Start!EventUp, StartTypes
  <2>1. DeviceFits(i)
    BY <1>t, <2>0 DEF DevicesFit
  <2> DEFINE d == [devices[i] EXCEPT !.state = "up"]
  <2>2. d \in DeviceSet /\ d.key = devices[i].key /\ d.state = "up" /\ d.failed = devices[i].failed /\ d.shook = devices[i].shook
    BY <2>0 DEF DeviceSet
  <2>3. devices' = [devices EXCEPT ![i] = d]
    BY <1>19, <1>t, <2>0 DEF Start!EventUp, StartTypes
  <2> HIDE DEF d
  <2> QED BY <1>14, <2>0, <2>1, <2>2, <2>3 DEF DeviceFits
<1>16. CASE Start!Masque
  <2>0. /\ startPc = "masque" /\ mode = "masque"
        /\ UNCHANGED <<opts, layer, try, devices, tested, forward, proxyFailed, reported>>
        /\ \/ /\ (startPc' = "identity" /\ mode' = "warp") \/ (startPc' = "fatal" /\ mode' = "masque")
              /\ adapter' \in {adapter, "closed"} /\ maintain' = maintain
           \/ startPc' = "masqueTest" /\ mode' = mode /\ adapter' = "open" /\ maintain' = TRUE
    BY <1>16, <1>t, AfterMasque DEF Start!Masque, Start!MasqueGivesUp, ModeFits
  <2>a. maintain' \in BOOLEAN
    BY <1>t, <2>0, Zenon DEF StartTypes
  <2>b. devices = <<>> /\ Len(devices) = 0 /\ tested = {} /\ forward = 0 /\ layer = "outer"
    BY <1>t, <2>0 DEF ModeFits
  <2>1. StartTypes'
    BY <1>t, <2>0, <2>a, <2>b DEF StartTypes, DeviceCount, ModeFits
  <2>2. ModeFits'
    BY <1>t, <2>0, <2>a, <2>b DEF StartTypes, ModeFits, DeviceCount
  <2>3. DeviceCount'
    BY <1>t, <2>0, <2>a, <2>b DEF StartTypes, ModeFits, DeviceCount
  <2>4. TestedFits'
    BY <1>t, <2>0, <2>a, <2>b DEF StartTypes, ModeFits, DeviceCount, TestedFits
  <2>5. DevicesFit'
    BY <1>t, <2>0, <2>a, <2>b DEF StartTypes, ModeFits, DeviceCount, TestedFits, DevicesFit, DeviceFits
  <2>6. AdapterFits'
    BY <1>t, <2>0, <2>a, <2>b DEF StartTypes, ModeFits, AdapterFits
  <2> QED BY <2>1, <2>2, <2>3, <2>4, <2>5, <2>6 DEF StartInv
<1>17. CASE Start!MasqueServe
  <2>0. /\ startPc = "masqueTest" /\ mode = "masque"
        /\ UNCHANGED <<opts, layer, try, devices, tested, forward, maintain, reported>>
        /\ \/ startPc' = "serving" /\ mode' = mode /\ UNCHANGED <<adapter, proxyFailed>>
           \/ /\ (startPc' = "identity" /\ mode' = "warp") \/ (startPc' = "fatal" /\ mode' = "masque")
              /\ adapter' = "closed" /\ proxyFailed' = TRUE
    BY <1>17, <1>t, AfterMasque DEF Start!MasqueServe, Start!MasqueGivesUp, ModeFits
  <2>1. StartTypes'
    BY <1>t, <2>0 DEF StartTypes, DeviceCount, ModeFits
  <2>2. ModeFits'
    BY <1>t, <2>0 DEF StartTypes, ModeFits, DeviceCount
  <2>3. DeviceCount'
    BY <1>t, <2>0 DEF StartTypes, ModeFits, DeviceCount
  <2>4. TestedFits'
    BY <1>t, <2>0 DEF StartTypes, ModeFits, DeviceCount, TestedFits
  <2>5. DevicesFit'
    BY <1>t, <2>0 DEF StartTypes, ModeFits, DeviceCount, TestedFits, DevicesFit, DeviceFits
  <2>6. AdapterFits'
    BY <1>t, <2>0 DEF StartTypes, ModeFits, AdapterFits
  <2> QED BY <2>1, <2>2, <2>3, <2>4, <2>5, <2>6 DEF StartInv
<1> QED
  BY <1>1, <1>2, <1>3, <1>4, <1>5, <1>6, <1>7, <1>8, <1>9, <1>10, <1>11, <1>12, <1>13, <1>15, <1>16, <1>17, <1>18, <1>19
  DEF Start!Next, Start!Steps, Start!Psiphon

\* Steps of the other parts leave the start-up alone.
LEMMA StartStutter == StartInv /\ UNCHANGED startVars => StartInv'
<1> SUFFICES ASSUME StartInv, UNCHANGED startVars PROVE StartInv'
  OBVIOUS
<1>1. UNCHANGED <<startPc, mode, layer, try, devices, tested, forward, adapter, maintain, proxyFailed, reported>>
  BY DEF startVars
<1> QED BY <1>1 DEF StartInv, StartTypes, ModeFits, DeviceCount, TestedFits, DevicesFit, DeviceFits, AdapterFits

\* The invariant yields the properties of the start-up.
LEMMA StartMeans ==
    StartInv => Start!TypeOK /\ Start!ServedTunnelWorks /\ Start!OnlySetupAndTestStrand /\ Start!FallbackLeavesNoTunnel
<1> SUFFICES ASSUME StartInv
             PROVE  Start!TypeOK /\ Start!ServedTunnelWorks /\ Start!OnlySetupAndTestStrand /\ Start!FallbackLeavesNoTunnel
  OBVIOUS
<1>t. StartTypes /\ ModeFits /\ DeviceCount /\ TestedFits /\ DevicesFit /\ AdapterFits /\ Len(devices) \in Nat
  BY DEF StartInv, StartTypes
<1>1. Start!TypeOK
  <2>1. DOMAIN Start!FirstStep = WgModes \cup {"masque"}
    BY DEF Start!FirstStep, WgModes
  <2>2. Len(devices) <= 3 /\ forward \in 0 .. Len(devices)
    BY <1>t DEF StartTypes, DeviceCount
  <2> QED BY <1>t, <2>1, <2>2 DEF StartTypes, TestedFits, DeviceSet, Start!TypeOK
<1>2. Start!ServedTunnelWorks
  BY <1>t DEF Start!ServedTunnelWorks, Start!Works, StartTypes, ModeFits, DeviceCount, TestedFits, DevicesFit, DeviceFits, Running
<1>3. Start!OnlySetupAndTestStrand
  <2> SUFFICES ASSUME NEW i \in 1 .. Len(devices), NEW j \in 1 .. Len(devices), i < j,
                      devices[i].key = devices[j].key, devices[i].state = "up"
               PROVE  devices[i].failed \in {"setup", "test"}
    BY <1>t DEF Start!OnlySetupAndTestStrand, StartTypes
  <2>1. DeviceFits(i) /\ DeviceFits(j) /\ devices[i].failed \in {"none", "setup", "timeout", "test"}
    <3>1. devices[i] \in DeviceSet
      BY <1>t DEF StartTypes
    <3>2. devices[i].failed \in {"none", "setup", "timeout", "test"}
      BY <3>1 DEF DeviceSet
    <3> QED BY <1>t, <3>2 DEF DevicesFit
  <2>2. ASSUME i \in tested PROVE FALSE
    <3>1. i = forward
      BY <1>t, <2>2 DEF TestedFits
    <3>2. layer = "inner"
      BY <1>t, <3>1 DEF DeviceCount, StartTypes
    <3>3. i \in Nat /\ j \in Nat /\ ~(i > forward) /\ j > forward
      BY <1>t, <3>1 DEF StartTypes
    <3>4. devices[i].key = "primary"
      BY <2>1, <3>3 DEF DeviceFits
    <3>5. devices[j].key = "secondary"
      BY <2>1, <3>2, <3>3 DEF DeviceFits
    <3> QED BY <3>4, <3>5
  <2>3. devices[i].failed = "none" => i \in tested
    BY <1>t, <2>1 DEF DeviceFits
  <2> QED BY <2>1, <2>2, <2>3 DEF DeviceFits
<1>4. Start!FallbackLeavesNoTunnel
  BY <1>t DEF Start!FallbackLeavesNoTunnel, AdapterFits
<1> QED BY <1>1, <1>2, <1>3, <1>4

-----------------------------------------------------------------------------
\* Settings (cmd/vwarp/rootcmd.go, config/noize).

\* How a run of the program ended and the modes it gave RunWarp.
ResultFits ==
    /\ result.outcome \in {"none", "run", "fatal", "panic", "exported"}
    /\ result.modes \subseteq Set!Modes

\* What a merge was made of.
MixedFits ==
    mixed.done =>
        /\ mixed.preset \in DOMAIN Set!Presets /\ mixed.file \in Overrides
        /\ mixed.merged = Set!Merge(Set!GetPreset(mixed.preset).wg, mixed.file.junk)

SettingsInv == ResultFits /\ MixedFits

\* An idle result with another outcome still has no modes.
LEMMA IdleFits ==
    /\ Set!Idle.modes = {} /\ Set!Idle.outcome = "none"
    /\ \A o : [Set!Idle EXCEPT !.outcome = o].modes = {} /\ [Set!Idle EXCEPT !.outcome = o].outcome = o
  BY DEF Set!Idle

\* The settings are empty before the flags are parsed.
LEMMA SettingsInit == Set!Init => SettingsInv
  BY IdleFits DEF Set!Init, SettingsInv, ResultFits, MixedFits

\* Parsing, merging and choosing the mode keep the settings in order.
LEMMA SettingsStep == SettingsInv /\ Set!Next => SettingsInv'
<1> SUFFICES ASSUME SettingsInv, Set!Next PROVE SettingsInv'
  OBVIOUS
<1>1. ASSUME NEW c \in Flags, Set!exec(c) PROVE SettingsInv'
  <2> DEFINE f == IF c.config THEN disk ELSE Set!NoFile
             modes == c.modes \cup Set!FileModes(f)
  <2>1. UNCHANGED <<disk, mixed>>
    BY <1>1 DEF Set!exec
  <2>2. c.modes \subseteq Set!Modes /\ Set!FileModes(f) \subseteq Set!Modes
    BY ControlAssumption DEF Set!FileModes, Set!Modes
  <2>3. \/ result' = [Set!Idle EXCEPT !.outcome = "fatal"]
        \/ result' = Set!OptionsOf(c, f, modes)
    BY <1>1 DEF Set!exec
  <2>4. LET r == Set!OptionsOf(c, f, modes) IN r.outcome = "run" /\ r.modes = modes
    BY DEF Set!OptionsOf
  <2> HIDE DEF f
  <2>5. ResultFits'
    <3>1. CASE result' = [Set!Idle EXCEPT !.outcome = "fatal"]
      BY <3>1, IdleFits DEF ResultFits
    <3>2. CASE result' = Set!OptionsOf(c, f, modes)
      <4>1. result'.outcome = "run" /\ result'.modes = modes
        BY <3>2, <2>4
      <4> QED BY <4>1, <2>2 DEF ResultFits
    <3> QED BY <2>3, <3>1, <3>2
  <2> QED BY <2>1, <2>5 DEF SettingsInv, MixedFits
<1>2. ASSUME NEW p, NEW bare \in BOOLEAN, Set!Export(p, bare) PROVE SettingsInv'
  <2>1. UNCHANGED mixed /\ \E o \in {"panic", "exported"} : result' = [Set!Idle EXCEPT !.outcome = o]
    BY <1>2 DEF Set!Export
  <2> QED BY <2>1, IdleFits DEF SettingsInv, ResultFits, MixedFits
<1>3. ASSUME NEW f \in Files, Set!WriteFile(f) PROVE SettingsInv'
  BY <1>3, IdleFits DEF Set!WriteFile, SettingsInv, ResultFits, MixedFits
<1>4. ASSUME NEW p \in DOMAIN Set!Presets, NEW o \in Overrides, Set!LoadMixed(p, o) PROVE SettingsInv'
  <2>1. UNCHANGED <<disk, result>> /\ mixed' = [done |-> TRUE, preset |-> p, file |-> o, merged |-> Set!Merge(Set!GetPreset(p).wg, o.junk)]
    BY <1>4 DEF Set!LoadMixed
  <2>2. mixed'.preset = p /\ mixed'.file = o /\ mixed'.merged = Set!Merge(Set!GetPreset(p).wg, o.junk)
    BY <2>1
  <2>3. MixedFits'
    BY <1>4, <2>2 DEF MixedFits
  <2> QED BY <2>1, <2>3 DEF SettingsInv, ResultFits
<1> QED BY <1>1, <1>2, <1>3, <1>4 DEF Set!Next

\* Steps of the other parts leave the settings alone.
LEMMA SettingsStutter == SettingsInv /\ UNCHANGED settingsVars => SettingsInv'
  BY DEF SettingsInv, ResultFits, MixedFits, settingsVars

-----------------------------------------------------------------------------
\* The presets.

\* Junk keeps to the range of any two numbers.
LEMMA JunkInRange ==
    ASSUME NEW c, c.jmin \in Nat, c.jmax \in Nat
    PROVE  Set!JunkKeepsToRange(c) /\ Set!MasqueJunkKeepsToRange(c)
<1>1. Set!JunkKeepsToRange(c)
  BY DEF Set!JunkKeepsToRange, Set!JunkSizes, Set!Top
<1>2. Set!MasqueJunkKeepsToRange(c)
  BY DEF Set!MasqueJunkKeepsToRange, Set!MasqueJunkSizes, Set!Top
<1> QED BY <1>1, <1>2

\* The numbers of a preset.
LEMMA PresetNames == DOMAIN Set!Presets = {"minimal", "light", "medium", "heavy", "stealth", "gfw", "firewall"}
  BY DEF Set!Presets

\* Each of the seven presets has natural numbers, no junk during the handshake, and passes its validators.
LEMMA EveryPreset ==
    ASSUME NEW p \in DOMAIN Set!Presets
    PROVE  LET w == Set!GetPreset(p).wg
               m == Set!GetPreset(p).masque
           IN  /\ w \in [Set!JunkFields -> Nat] /\ w.duringHS = 0
               /\ m.jmin \in Nat /\ m.jmax \in Nat
               /\ Set!ValidateAtomicNoizeConfig(w) /\ Set!ValidateNoizeConfig(m)
<1> USE DEF Set!GetPreset, Set!Junk, Set!InPhases, Set!validateAtomicNoizeConfig, Set!validateMASQUEConfig,
            Set!ValidateAtomicNoizeConfig, Set!ValidateNoizeConfig, Set!JunkFields
<1>1. CASE p = "minimal"
  BY <1>1, SMTT(30) DEF Set!Presets
<1>2. CASE p = "light"
  BY <1>2, SMTT(30) DEF Set!Presets
<1>3. CASE p = "medium"
  BY <1>3, SMTT(30) DEF Set!Presets
<1>4. CASE p = "heavy"
  BY <1>4, SMTT(30) DEF Set!Presets
<1>5. CASE p = "stealth"
  BY <1>5, SMTT(30) DEF Set!Presets
<1>6. CASE p = "gfw"
  BY <1>6, SMTT(30) DEF Set!Presets
<1>7. CASE p = "firewall"
  BY <1>7, SMTT(30) DEF Set!Presets
<1> QED BY <1>1, <1>2, <1>3, <1>4, <1>5, <1>6, <1>7, PresetNames

\* The numbers of every preset pass the validators.
LEMMA PresetsSound == Set!PresetsAreSound
<1> SUFFICES ASSUME NEW p \in DOMAIN Set!Presets
             PROVE  /\ Set!ValidateAtomicNoizeConfig(Set!GetPreset(p).wg) /\ Set!JunkKeepsToRange(Set!GetPreset(p).wg)
                    /\ Set!ValidateNoizeConfig(Set!GetPreset(p).masque) /\ Set!MasqueJunkKeepsToRange(Set!GetPreset(p).masque)
  BY DEF Set!PresetsAreSound
<1> DEFINE w == Set!GetPreset(p).wg
           m == Set!GetPreset(p).masque
<1>1. /\ w \in [Set!JunkFields -> Nat] /\ m.jmin \in Nat /\ m.jmax \in Nat
      /\ Set!ValidateAtomicNoizeConfig(w) /\ Set!ValidateNoizeConfig(m)
  BY EveryPreset
<1> HIDE DEF w, m
<1>2. w.jmin \in Nat /\ w.jmax \in Nat
  BY <1>1 DEF Set!JunkFields
<1>3. Set!JunkKeepsToRange(w) /\ Set!MasqueJunkKeepsToRange(m)
  BY <1>1, <1>2, JunkInRange
<1> QED BY <1>1, <1>3 DEF w, m

\* A sound file over a sound preset is unsound only by mixture.
LEMMA MergeIsSound ==
    ASSUME NEW w \in [Set!JunkFields -> Nat], w.duringHS = 0, Set!ValidateAtomicNoizeConfig(w),
           NEW o \in [Set!JunkFields -> Nat]
    PROVE  Set!UnsoundOnlyByMixture(w, o)
<1> SUFFICES ASSUME Set!ValidateAtomicNoizeConfig(o),
                    ~(Set!FromFile(o, "jc") /\ \E f \in {"afterI1", "beforeHS", "afterHS"} : ~Set!FromFile(o, f) /\ w[f] > 0),
                    Set!FromFile(o, "jmin") = Set!FromFile(o, "jmax")
             PROVE  Set!ValidateAtomicNoizeConfig(Set!Merge(w, o))
  BY DEF Set!UnsoundOnlyByMixture
<1> DEFINE m == Set!Merge(w, o)
<1>1. \A f \in Set!JunkFields : m[f] = (IF o[f] # 0 THEN o[f] ELSE w[f]) /\ o[f] \in Nat /\ w[f] \in Nat /\ m[f] \in Nat
  BY DEF Set!Merge
<1> HIDE DEF m
<1>2. m.jc <= 128
  BY <1>1 DEF Set!JunkFields, Set!ValidateAtomicNoizeConfig, Set!validateAtomicNoizeConfig
<1>3. m.jmin <= m.jmax /\ m.jmax <= 1400
  BY <1>1 DEF Set!JunkFields, Set!ValidateAtomicNoizeConfig, Set!validateAtomicNoizeConfig, Set!FromFile
<1>4. Set!InPhases(m) <= m.jc
  <2>1. /\ o.afterI1 \in Nat /\ o.beforeHS \in Nat /\ o.duringHS \in Nat /\ o.afterHS \in Nat /\ o.jc \in Nat
        /\ o.afterI1 + o.beforeHS + o.duringHS + o.afterHS <= o.jc
    BY <1>1 DEF Set!JunkFields, Set!ValidateAtomicNoizeConfig, Set!validateAtomicNoizeConfig, Set!InPhases
  <2>2. CASE o.jc = 0
    <3>1. o.afterI1 = 0 /\ o.beforeHS = 0 /\ o.duringHS = 0 /\ o.afterHS = 0
      BY <2>1, <2>2
    <3>2. m.afterI1 = w.afterI1 /\ m.beforeHS = w.beforeHS /\ m.duringHS = w.duringHS /\ m.afterHS = w.afterHS /\ m.jc = w.jc
      BY <1>1, <2>2, <3>1 DEF Set!JunkFields
    <3>3. Set!InPhases(w) <= w.jc
      BY DEF Set!ValidateAtomicNoizeConfig, Set!validateAtomicNoizeConfig
    <3> QED BY <3>2, <3>3 DEF Set!InPhases
  <2>3. CASE o.jc # 0
    <3>1. \A f \in {"afterI1", "beforeHS", "afterHS"} : m[f] = o[f]
      <4> SUFFICES ASSUME NEW f \in {"afterI1", "beforeHS", "afterHS"} PROVE m[f] = o[f]
        OBVIOUS
      <4>1. o[f] # 0 \/ ~(w[f] > 0)
        BY <2>3 DEF Set!FromFile
      <4>2. m[f] = (IF o[f] # 0 THEN o[f] ELSE w[f]) /\ w[f] \in Nat /\ o[f] \in Nat
        BY <1>1 DEF Set!JunkFields
      <4> QED BY <4>1, <4>2
    <3>2. m.duringHS = o.duringHS /\ m.jc = o.jc
      BY <1>1, <2>3 DEF Set!JunkFields
    <3> QED BY <2>1, <3>1, <3>2 DEF Set!InPhases
  <2> QED BY <2>2, <2>3
<1>5. Set!ValidateAtomicNoizeConfig(m)
  BY <1>2, <1>3, <1>4 DEF Set!ValidateAtomicNoizeConfig, Set!validateAtomicNoizeConfig
<1> QED BY <1>5 DEF m

\* The invariant yields the properties of the settings.
LEMMA SettingsMean == SettingsInv => Set!TypeOK /\ Set!PresetsStaySound
<1> SUFFICES ASSUME SettingsInv PROVE Set!TypeOK /\ Set!PresetsStaySound
  OBVIOUS
<1>1. Set!TypeOK
  BY DEF Set!TypeOK, SettingsInv, ResultFits, MixedFits, Set!Merge
<1>2. ASSUME mixed.done
      PROVE  /\ Set!UnsoundOnlyByMixture(Set!GetPreset(mixed.preset).wg, mixed.file.junk)
             /\ Set!JunkKeepsToRange(mixed.merged)
  <2> DEFINE w == Set!GetPreset(mixed.preset).wg
             o == mixed.file.junk
  <2>1. /\ mixed.preset \in DOMAIN Set!Presets /\ mixed.merged = Set!Merge(w, o)
        /\ mixed.file \in [enabled : BOOLEAN, named : BOOLEAN, junk : [Noize!JunkFields -> Nat]]
    BY <1>2, ControlAssumption DEF SettingsInv, MixedFits
  <2>2. o \in [Set!JunkFields -> Nat]
    BY <2>1 DEF Set!JunkFields, Noize!JunkFields
  <2>3. w \in [Set!JunkFields -> Nat] /\ w.duringHS = 0 /\ Set!ValidateAtomicNoizeConfig(w)
    BY <2>1, EveryPreset
  <2> HIDE DEF w, o
  <2>4. Set!UnsoundOnlyByMixture(w, o)
    BY <2>2, <2>3, MergeIsSound
  <2>5. Set!Merge(w, o).jmin \in Nat /\ Set!Merge(w, o).jmax \in Nat
    BY <2>2, <2>3 DEF Set!Merge, Set!JunkFields
  <2>6. Set!JunkKeepsToRange(mixed.merged)
    BY <2>1, <2>5, JunkInRange
  <2> QED BY <2>4, <2>6 DEF w, o
<1>3. Set!PresetsStaySound
  BY <1>2, PresetsSound DEF Set!PresetsStaySound
<1> QED BY <1>1, <1>3

-----------------------------------------------------------------------------
\* The scan pipeline (ipscanner/engine).

\* The candidates in one of the places of a set.
InPlaces(pl, Q) == {c \in Candidates : pl[c] \in Q}
Amount(pl, Q) == Cardinality(InPlaces(pl, Q))

\* The places in which a worker of a stage holds a candidate.
HeldPlaces(s) == IF s < 3 THEN {Scan!Test(s), Scan!Out(s)} ELSE {Scan!Junk, Scan!Await, Scan!Kept}

\* The stream's places are different from one another.
LEMMA PlacesDiffer ==
    /\ Scan!New \notin {Scan!Junk, Scan!Await, Scan!Kept, Scan!Gone}
    /\ Scan!Junk \notin {Scan!Await, Scan!Kept, Scan!Gone}
    /\ Scan!Await \notin {Scan!Kept, Scan!Gone} /\ Scan!Kept # Scan!Gone
    /\ \A s : {Scan!In(s), Scan!Test(s), Scan!Out(s)} \cap
                 {Scan!New, Scan!Junk, Scan!Await, Scan!Kept, Scan!Gone} = {}
    /\ \A s, t : Scan!In(s) # Scan!Test(t) /\ Scan!In(s) # Scan!Out(t) /\ Scan!Test(s) # Scan!Out(t)
    /\ \A s, t : s # t => Scan!In(s) # Scan!In(t) /\ Scan!Test(s) # Scan!Test(t) /\ Scan!Out(s) # Scan!Out(t)
BY DEF Scan!New, Scan!Junk, Scan!Await, Scan!Kept, Scan!Gone, Scan!In, Scan!Test, Scan!Out

\* Which places are a worker's.
LEMMA WhoHolds ==
    ASSUME NEW s \in 1 .. 3
    PROVE  /\ Scan!New \notin HeldPlaces(s) /\ Scan!Gone \notin HeldPlaces(s)
           /\ \A t : Scan!In(t) \notin HeldPlaces(s)
           /\ \A t \in 1 .. 2 : (Scan!Test(t) \in HeldPlaces(s) <=> s = t) /\ (Scan!Out(t) \in HeldPlaces(s) <=> s = t)
           /\ \A p \in {Scan!Junk, Scan!Await, Scan!Kept} : p \in HeldPlaces(s) <=> s = 3
<1>1. CASE s = 3
  <2>1. HeldPlaces(s) = {Scan!Junk, Scan!Await, Scan!Kept}
    BY <1>1 DEF HeldPlaces
  <2>2. \A t : Scan!In(t) \notin HeldPlaces(s) /\ Scan!Test(t) \notin HeldPlaces(s) /\ Scan!Out(t) \notin HeldPlaces(s)
    BY <2>1, PlacesDiffer
  <2>3. Scan!New \notin HeldPlaces(s) /\ Scan!Gone \notin HeldPlaces(s)
    BY <2>1, PlacesDiffer
  <2>4. \A t \in 1 .. 2 : s # t
    BY <1>1
  <2> QED BY <1>1, <2>1, <2>2, <2>3, <2>4
<1>2. CASE s # 3
  <2>1. HeldPlaces(s) = {Scan!Test(s), Scan!Out(s)}
    BY <1>2 DEF HeldPlaces
  <2>2. Scan!New \notin HeldPlaces(s) /\ Scan!Gone \notin HeldPlaces(s) /\ \A t : Scan!In(t) \notin HeldPlaces(s)
    BY <2>1, PlacesDiffer
  <2>3. \A p \in {Scan!Junk, Scan!Await, Scan!Kept} : p \notin HeldPlaces(s)
    BY <2>1, PlacesDiffer
  <2>4. \A t : (Scan!Test(t) \in HeldPlaces(s) <=> s = t) /\ (Scan!Out(t) \in HeldPlaces(s) <=> s = t)
    BY <2>1, PlacesDiffer
  <2> QED BY <1>2, <2>2, <2>3, <2>4
<1> QED BY <1>1, <1>2

\* A candidate's move changes an amount by what it leaves and what it enters.
LEMMA AmountMoved ==
    ASSUME NEW pl, NEW c \in Candidates, NEW p, NEW new, NEW Q,
           pl = [x \in Candidates |-> pl[x]], new = [pl EXCEPT ![c] = p]
    PROVE  /\ Amount(pl, Q) \in Nat /\ Amount(new, Q) \in Nat
           /\ p \in Q /\ pl[c] \in Q => Amount(new, Q) = Amount(pl, Q)
           /\ p \in Q /\ pl[c] \notin Q => Amount(new, Q) = Amount(pl, Q) + 1
           /\ p \notin Q /\ pl[c] \in Q => Amount(new, Q) = Amount(pl, Q) - 1 /\ Amount(pl, Q) > 0
           /\ p \notin Q /\ pl[c] \notin Q => Amount(new, Q) = Amount(pl, Q)
<1> DEFINE A == InPlaces(pl, Q)  B == InPlaces(new, Q)
<1>1. IsFiniteSet(A) /\ IsFiniteSet(B)
  BY FS_Subset, ScanAssumption DEF InPlaces
<1>2. Cardinality(A) \in Nat /\ Cardinality(B) \in Nat
  BY <1>1, FS_CardinalityType
<1>3. new[c] = p /\ \A x \in Candidates : x # c => new[x] = pl[x]
  OBVIOUS
<1>4. p \in Q /\ pl[c] \in Q => A = B
  BY <1>3 DEF InPlaces
<1>5. p \in Q /\ pl[c] \notin Q => B = A \cup {c} /\ c \notin A
  BY <1>3 DEF InPlaces
<1>6. p \notin Q /\ pl[c] \in Q => A = B \cup {c} /\ c \notin B
  BY <1>3 DEF InPlaces
<1>7. p \notin Q /\ pl[c] \notin Q => A = B
  BY <1>3 DEF InPlaces
<1> HIDE DEF A, B
<1>8. c \notin A => Cardinality(A \cup {c}) = Cardinality(A) + 1
  BY <1>1, FS_AddElement
<1>9. c \notin B => Cardinality(B \cup {c}) = Cardinality(B) + 1
  BY <1>1, FS_AddElement
<1> DEFINE a == Cardinality(A)  b == Cardinality(B)
<1>10. Amount(pl, Q) = a /\ Amount(new, Q) = b
  BY DEF Amount, A, B
<1>11. p \in Q /\ pl[c] \in Q => b = a
  BY <1>4
<1>12. p \in Q /\ pl[c] \notin Q => b = a + 1
  BY <1>5, <1>8
<1>13. p \notin Q /\ pl[c] \in Q => a = b + 1
  BY <1>6, <1>9
<1>14. p \notin Q /\ pl[c] \notin Q => b = a
  BY <1>7
<1> HIDE DEF a, b
<1>15. a \in Nat /\ b \in Nat
  BY <1>2 DEF a, b
<1> QED BY <1>10, <1>11, <1>12, <1>13, <1>14, <1>15

\* The pipeline's own amounts are these.
LEMMA HeldIsAmount ==
    ASSUME NEW s \in 1 .. 3
    PROVE  Scan!Held(s) = InPlaces(place, HeldPlaces(s)) /\ Scan!Cardinality(Scan!Held(s)) = Amount(place, HeldPlaces(s))
<1>1. Scan!Held(s) = InPlaces(place, HeldPlaces(s))
  BY DEF Scan!Held, Scan!At, InPlaces, HeldPlaces
<1> QED BY <1>1 DEF Amount, Scan!Cardinality, Cardinality

\* A set of positions with everything below it is an initial interval.
LEMMA InitialPositions ==
    ASSUME NEW n \in Nat, NEW D \in SUBSET (1 .. n), \A i \in D, j \in 1 .. n : j < i => j \in D
    PROVE  Cardinality(D) \in 0 .. n /\ D = 1 .. Cardinality(D)
<1>1. \E m \in 0 .. n : D = 1 .. m
  <2>1. CASE D = 1 .. n
    BY <2>1
  <2>2. CASE D # 1 .. n
    <3> DEFINE T == (1 .. n) \ D
    <3>1. T \in SUBSET Nat /\ T # {}
      <4>1. T # {}
        BY <2>2
      <4>2. T \in SUBSET Nat
        OBVIOUS
      <4> QED BY <4>1, <4>2
    <3>2. PICK m \in T : \A j \in T : m <= j
      BY <3>1, LeastNat
    <3>3. m \in 1 .. n /\ m \notin D
      OBVIOUS
    <3>4. \A j \in 1 .. n : j < m => j \in D
      BY <3>2, <3>3
    <3>5. \A j \in D : j < m
      BY <3>3
    <3>6. m - 1 \in 0 .. n /\ \A j : j \in 1 .. (m - 1) <=> j \in 1 .. n /\ j < m
      BY <3>3
    <3>7. \A j : j \in D <=> j \in 1 .. (m - 1)
      BY <3>4, <3>5, <3>6
    <3>8. D = 1 .. (m - 1)
      BY <3>7
    <3> QED BY <3>6, <3>8
  <2> QED BY <2>1, <2>2
<1>2. PICK m \in 0 .. n : D = 1 .. m
  BY <1>1
<1>3. Cardinality(1 .. m) = IF 1 > m THEN 0 ELSE m - 1 + 1
  BY FS_Interval, 1 \in Int, m \in Int
<1> QED BY <1>2, <1>3

\* r is q with c put in after its first k elements.
IsSpliced(r, q, n, k, c, S) ==
    /\ r \in Seq(S) /\ Len(r) = n + 1 /\ r[k + 1] = c
    /\ \A j \in 1 .. k : r[j] = q[j]
    /\ \A j \in (k + 1) .. n : r[j + 1] = q[j]

\* What is put in after the first k elements of a sequence.
LEMMA Spliced ==
    ASSUME NEW S, NEW q \in Seq(S), NEW n \in Nat, n = Len(q), NEW k \in 0 .. n, NEW c \in S
    PROVE  IsSpliced(SubSeq(q, 1, k) \o <<c>> \o SubSeq(q, k + 1, n), q, n, k, c, S)
<1> DEFINE a == SubSeq(q, 1, k)  b == SubSeq(q, k + 1, n)
<1>1. a \in Seq(S) /\ Len(a) = k /\ \A j \in 1 .. k : a[j] = q[j]
  OBVIOUS
<1>2. b \in Seq(S) /\ Len(b) = n - k /\ \A j \in 1 .. (n - k) : b[j] = q[k + j]
  <2>1. \A i \in (k + 1) .. n : q[i] \in S
    OBVIOUS
  <2>2. b \in Seq(S) /\ Len(b) = IF k + 1 <= n THEN n - (k + 1) + 1 ELSE 0
    BY <2>1
  <2>3. \A j \in 1 .. (n - k) : b[j] = q[k + 1 + j - 1]
    OBVIOUS
  <2>4. \A j \in 1 .. (n - k) : k + 1 + j - 1 = k + j
    OBVIOUS
  <2>5. (IF k + 1 <= n THEN n - (k + 1) + 1 ELSE 0) = n - k
    OBVIOUS
  <2> QED BY <2>2, <2>3, <2>4, <2>5
<1> DEFINE ac == a \o <<c>>
<1> HIDE DEF a, b
<1>3. ac \in Seq(S) /\ Len(ac) = k + 1 /\ ac[k + 1] = c /\ \A j \in 1 .. k : ac[j] = a[j]
  BY <1>1
<1> HIDE DEF ac
<1> DEFINE r == ac \o b
<1>4. r \in Seq(S) /\ Len(r) = (k + 1) + (n - k)
  <2>1. r \in Seq(S) /\ Len(r) = Len(ac) + Len(b)
    BY <1>2, <1>3, ConcatProperties
  <2> QED BY <2>1, <1>2, <1>3
<1>5. \A j \in 1 .. (k + 1) : r[j] = ac[j]
  BY <1>2, <1>3
<1>6. \A j \in 1 .. (n - k) : r[k + 1 + j] = b[j]
  <2> SUFFICES ASSUME NEW j \in 1 .. (n - k) PROVE r[k + 1 + j] = b[j]
    OBVIOUS
  <2>1. k + 1 + j \in 1 .. (Len(ac) + Len(b)) /\ ~(k + 1 + j <= Len(ac)) /\ k + 1 + j - Len(ac) = j
    BY <1>2, <1>3
  <2> QED BY <2>1, <1>2, <1>3
<1> HIDE DEF r
<1>7. \A j \in (k + 1) .. n : r[j + 1] = q[j]
  <2> SUFFICES ASSUME NEW j \in (k + 1) .. n PROVE r[j + 1] = q[j]
    OBVIOUS
  <2>1. j - k \in 1 .. (n - k) /\ k + 1 + (j - k) = j + 1 /\ k + (j - k) = j
    OBVIOUS
  <2> QED BY <2>1, <1>6, <1>2
<1>8. k + 1 + (n - k) = n + 1 /\ k + 1 \in 1 .. (k + 1) /\ \A j \in 1 .. k : j \in 1 .. (k + 1)
  OBVIOUS
<1>9. r = SubSeq(q, 1, k) \o <<c>> \o SubSeq(q, k + 1, n)
  BY DEF r, ac, a, b
<1>10. IsSpliced(r, q, n, k, c, S)
  BY <1>1, <1>3, <1>4, <1>5, <1>7, <1>8 DEF IsSpliced
<1> QED BY <1>9, <1>10

\* Where an answer is put in a queue in order.
LEMMA Placed ==
    ASSUME NEW q \in Seq(Nat), NEW c \in Nat, NEW n \in Nat, n = Len(q),
           \A i, j \in 1 .. n : i < j => q[i] < q[j], \A i \in 1 .. n : q[i] # c
    PROVE  \E k \in 0 .. n :
              /\ k = Cardinality({j \in DOMAIN q : q[j] <= c})
              /\ \A j \in 1 .. k : q[j] < c
              /\ \A j \in (k + 1) .. n : c < q[j]
<1> DEFINE D == {j \in DOMAIN q : q[j] <= c}
<1>1. DOMAIN q = 1 .. n /\ \A i \in 1 .. n : q[i] \in Nat
  OBVIOUS
<1>2. D \in SUBSET (1 .. n) /\ \A i \in D, j \in 1 .. n : j < i => j \in D
  BY <1>1
<1>3. \A i \in 1 .. n : i \in D <=> q[i] <= c
  BY <1>1
<1> DEFINE k == Cardinality(D)
<1> HIDE DEF D
<1>4. k \in 0 .. n /\ D = 1 .. k
  BY <1>2, InitialPositions
<1> HIDE DEF k
<1>5. \A j : (j \in 1 .. k => j \in 1 .. n) /\ (j \in (k + 1) .. n => j \in 1 .. n /\ j \notin 1 .. k)
  BY <1>4
<1>6. \A j \in 1 .. k : q[j] < c
  <2> SUFFICES ASSUME NEW j \in 1 .. k PROVE q[j] < c
    OBVIOUS
  <2>1. q[j] <= c /\ q[j] # c /\ q[j] \in Nat
    BY <1>5, <1>4, <1>3, <1>1
  <2> QED BY <2>1
<1>7. \A j \in (k + 1) .. n : c < q[j]
  <2> SUFFICES ASSUME NEW j \in (k + 1) .. n PROVE c < q[j]
    OBVIOUS
  <2>1. ~(q[j] <= c) /\ q[j] \in Nat
    BY <1>5, <1>4, <1>3, <1>1
  <2> QED BY <2>1
<1>8. k = Cardinality({j \in DOMAIN q : q[j] <= c})
  BY DEF k, D
<1> QED BY <1>4, <1>6, <1>7, <1>8

\* A queue is the best of what answered, in order; it has everything while it fits.
QueueIsBest(q, ans, max) ==
    /\ q \in Seq(ans) /\ ans \subseteq Candidates
    /\ \A i, j \in 1 .. Len(q) : i < j => q[i] < q[j]
    /\ \A c \in ans : (\E i \in 1 .. Len(q) : q[i] = c) \/ (\A i \in 1 .. Len(q) : q[i] < c)
    /\ Len(q) = (IF max > 0 /\ Cardinality(ans) > max THEN max ELSE Cardinality(ans))
    /\ max = 0 \/ Cardinality(ans) <= max => \A c \in ans : \E i \in 1 .. Len(q) : q[i] = c

ScanTypes ==
    /\ ports \in BOOLEAN /\ filter \in [1 .. 2 -> BOOLEAN] /\ stop \in Nat /\ maxQueue \in Nat
    /\ place = [c \in Candidates |-> place[c]]
    /\ live \in [1 .. 3 -> Nat] /\ closed \in [1 .. 3 -> BOOLEAN] /\ cancelled \in BOOLEAN

\* Candidates that workers hold are as many as the workers at most, and a stream is
\* closed when nobody sends on it any more.  A port scan uses neither.
StagesHold ==
    /\ \A s \in 1 .. 3 : live[s] <= Concurrency
    /\ ~ports => \A s \in 1 .. 3 : Amount(place, HeldPlaces(s)) <= live[s]
    /\ \A s \in 1 .. 2 : closed[s + 1] => live[s] = 0
    /\ ports => /\ \A s \in 1 .. 3 : live[s] = 0 /\ ~closed[s]
                /\ \A c \in Candidates : place[c] \in {Scan!New, Scan!Junk, Scan!Await, Scan!Gone}

\* Until the context is done the answers that were counted are fewer than asked for;
\* afterwards those that are waited for are all that may still come.
StopHolds ==
    ~ports /\ stop > 0 /\ (maxQueue = 0 \/ maxQueue >= stop) =>
        /\ ~cancelled => Cardinality(answered) <= stop - 1 + Amount(place, {Scan!Kept})
        /\ cancelled => Cardinality(answered) + Amount(place, {Scan!Await}) <= stop + Concurrency - 1

ScanInv ==
    /\ ScanTypes /\ StagesHold /\ QueueIsBest(ipQueue, answered, maxQueue)
    /\ \A c \in answered : place[c] \in {Scan!Kept, Scan!Gone}
    /\ StopHolds

\* Enqueue keeps the queue the best of what answered.
LEMMA QueueTakes ==
    ASSUME NEW q, NEW ans, NEW c \in Candidates, QueueIsBest(q, ans, maxQueue), c \notin ans, maxQueue \in Nat
    PROVE  QueueIsBest(Scan!Enqueued(q, c), ans \cup {c}, maxQueue)
<1> DEFINE n == Len(q)  A == Cardinality(ans)  more == ans \cup {c}
<1>1. ans \subseteq Nat /\ c \in Nat /\ IsFiniteSet(ans)
  BY ScanAssumption, FS_Subset DEF QueueIsBest
<1>2. A \in Nat /\ Cardinality(more) = A + 1
  BY <1>1, FS_CardinalityType, FS_AddElement
<1>3. q \in Seq(Nat) /\ q \in Seq(more) /\ n \in Nat /\ DOMAIN q = 1 .. n /\ \A i \in 1 .. n : q[i] \in ans
  <2>1. q \in Seq(ans)
    BY DEF QueueIsBest
  <2>2. q \in Seq(Nat) /\ q \in Seq(more)
    BY <2>1, <1>1, SeqMonotonic
  <2> QED BY <2>1, <2>2
<1>4. \A i \in 1 .. n : q[i] \in Nat /\ q[i] # c
  BY <1>3, <1>1
<1>5. \A i, j \in 1 .. n : i < j => q[i] < q[j]
  BY DEF QueueIsBest
<1>6. n = (IF maxQueue > 0 /\ A > maxQueue THEN maxQueue ELSE A)
  BY DEF QueueIsBest
<1>7. \A x \in ans : (\E i \in 1 .. n : q[i] = x) \/ (\A i \in 1 .. n : q[i] < x)
  BY DEF QueueIsBest
<1>8. maxQueue = 0 \/ A <= maxQueue => \A x \in ans : \E i \in 1 .. n : q[i] = x
  BY DEF QueueIsBest
<1>9. Scan!Cardinality({j \in DOMAIN q : q[j] <= c}) = Cardinality({j \in DOMAIN q : q[j] <= c})
  BY DEF Scan!Cardinality, Cardinality
<1> HIDE DEF n
<1>10. PICK k \in 0 .. n : /\ k = Cardinality({j \in DOMAIN q : q[j] <= c})
                           /\ \A j \in 1 .. k : q[j] < c
                           /\ \A j \in (k + 1) .. n : c < q[j]
  BY <1>1, <1>3, <1>4, <1>5, Placed DEF n
<1> DEFINE r == SubSeq(q, 1, k) \o <<c>> \o SubSeq(q, k + 1, n)
<1>11. /\ r \in Seq(more) /\ Len(r) = n + 1 /\ r[k + 1] = c
       /\ \A j \in 1 .. k : r[j] = q[j]
       /\ \A j \in (k + 1) .. n : r[j + 1] = q[j]
  <2>1. c \in more /\ q \in Seq(more) /\ n \in Nat /\ n = Len(q) /\ k \in 0 .. n
    BY <1>3 DEF n
  <2>2. IsSpliced(r, q, n, k, c, more)
    BY <2>1, Spliced
  <2> HIDE DEF more, r
  <2> QED BY <2>2 DEF IsSpliced
<1>12. Scan!Enqueued(q, c) = IF maxQueue > 0 /\ Len(r) > maxQueue THEN SubSeq(r, 1, Len(r) - 1) ELSE r
  <2>1. (k + 1) - 1 = k
    OBVIOUS
  <2>2. Scan!InsertAt(q, k + 1, c) = r
    <3>1. Scan!InsertAt(q, k + 1, c) = SubSeq(q, 1, (k + 1) - 1) \o <<c>> \o SubSeq(q, k + 1, Len(q))
      BY DEF Scan!InsertAt
    <3> QED BY <2>1, <3>1 DEF n
  <2> HIDE DEF r
  <2> QED BY <1>9, <1>10, <2>2 DEF Scan!Enqueued
<1> HIDE DEF r
<1>13. \A j \in 1 .. (n + 1) :
          \/ j \in 1 .. k /\ j \in 1 .. n /\ r[j] = q[j] /\ r[j] < c
          \/ j = k + 1 /\ r[j] = c
          \/ j \in (k + 2) .. (n + 1) /\ j - 1 \in (k + 1) .. n /\ j - 1 \in 1 .. n /\ r[j] = q[j - 1] /\ c < r[j]
  <2> SUFFICES ASSUME NEW j \in 1 .. (n + 1), j \notin 1 .. k, j # k + 1
               PROVE  j \in (k + 2) .. (n + 1) /\ j - 1 \in (k + 1) .. n /\ j - 1 \in 1 .. n /\ r[j] = q[j - 1] /\ c < r[j]
    BY <1>10, <1>11, <1>3
  <2>1. j \in (k + 2) .. (n + 1) /\ j - 1 \in (k + 1) .. n /\ j - 1 \in 1 .. n /\ (j - 1) + 1 = j
    BY <1>3
  <2> QED BY <2>1, <1>10, <1>11
<1>14. \A j \in 1 .. (n + 1) : r[j] \in more /\ r[j] \in Nat
  BY <1>13, <1>4, <1>3, <1>1
<1>15. \A i, j \in 1 .. (n + 1) : i < j => r[i] < r[j]
  <2> SUFFICES ASSUME NEW i \in 1 .. (n + 1), NEW j \in 1 .. (n + 1), i < j PROVE r[i] < r[j]
    OBVIOUS
  <2>1. r[i] \in Nat /\ r[j] \in Nat
    BY <1>14
  <2>2. CASE i \in 1 .. k /\ j \in 1 .. k
    <3>1. i \in 1 .. n /\ j \in 1 .. n /\ r[i] = q[i] /\ r[j] = q[j]
      BY <2>2, <1>11, <1>3
    <3> QED BY <3>1, <1>5
  <2>3. CASE i \in 1 .. k /\ j \notin 1 .. k
    BY <2>1, <2>3, <1>13, <1>1
  <2>4. CASE i = k + 1
    <3>1. j \notin 1 .. k /\ j # k + 1
      BY <2>4
    <3> QED BY <3>1, <2>4, <1>13
  <2>5. CASE i \notin 1 .. k /\ i # k + 1
    <3>1. i - 1 \in 1 .. n /\ r[i] = q[i - 1] /\ i \in (k + 2) .. (n + 1)
      BY <2>5, <1>13
    <3>2. j \notin 1 .. k /\ j # k + 1
      BY <3>1
    <3>3. j - 1 \in 1 .. n /\ r[j] = q[j - 1] /\ i - 1 < j - 1
      BY <3>2, <1>13
    <3> QED BY <3>1, <3>3, <1>5
  <2> QED BY <2>2, <2>3, <2>4, <2>5
<1>16. \A x \in more : (\E i \in 1 .. n : q[i] = x) \/ x = c => \E j \in 1 .. (n + 1) : r[j] = x
  <2> SUFFICES ASSUME NEW i \in 1 .. n PROVE \E j \in 1 .. (n + 1) : r[j] = q[i]
    <3>1. k + 1 \in 1 .. (n + 1) /\ r[k + 1] = c
      BY <1>11, <1>3
    <3> QED BY <3>1
  <2>1. CASE i \in 1 .. k
    <3>1. i \in 1 .. (n + 1) /\ r[i] = q[i]
      BY <2>1, <1>11, <1>3
    <3> QED BY <3>1
  <2>2. CASE i \notin 1 .. k
    <3>1. i + 1 \in 1 .. (n + 1) /\ r[i + 1] = q[i]
      <4>1. i \in (k + 1) .. n /\ i + 1 \in 1 .. (n + 1)
        BY <2>2, <1>3
      <4> QED BY <4>1, <1>11
    <3> QED BY <3>1
  <2> QED BY <2>1, <2>2
<1>17. CASE ~(maxQueue > 0 /\ Len(r) > maxQueue)
  <2>1. Scan!Enqueued(q, c) = r
    BY <1>12, <1>17
  <2>2. maxQueue = 0 \/ n + 1 <= maxQueue
    BY <1>17, <1>11, <1>3
  <2>3. n = A /\ (maxQueue = 0 \/ A + 1 <= maxQueue)
    BY <2>2, <1>6, <1>2
  <2>4. \A x \in more : \E j \in 1 .. (n + 1) : r[j] = x
    BY <2>3, <1>8, <1>16, <1>2
  <2>5. Len(r) = (IF maxQueue > 0 /\ Cardinality(more) > maxQueue THEN maxQueue ELSE Cardinality(more))
    BY <2>3, <1>2, <1>11
  <2>6. more \subseteq Candidates
    BY DEF QueueIsBest
  <2> HIDE DEF more
  <2>7. QueueIsBest(r, more, maxQueue)
    BY <2>4, <2>5, <2>6, <1>11, <1>15 DEF QueueIsBest
  <2> QED BY <2>1, <2>7 DEF more
<1>18. CASE maxQueue > 0 /\ Len(r) > maxQueue
  <2> DEFINE e == SubSeq(r, 1, n)
  <2>1. Scan!Enqueued(q, c) = e
    <3>1. Len(r) - 1 = n
      BY <1>11, <1>3
    <3> QED BY <3>1, <1>12, <1>18
  <2>2. n = maxQueue /\ A + 1 > maxQueue /\ n \in 1 .. (n + 1) /\ n + 1 \in 1 .. (n + 1)
    BY <1>18, <1>11, <1>6, <1>2, <1>3
  <2>3. e \in Seq(more) /\ Len(e) = n /\ \A j \in 1 .. n : e[j] = r[j]
    BY <1>11, <1>3
  <2> HIDE DEF e
  <2>4. \A j \in 1 .. n : j \in 1 .. (n + 1) /\ j < n + 1
    BY <1>3
  <2>5. \A i, j \in 1 .. Len(e) : i < j => e[i] < e[j]
    BY <2>3, <2>4, <1>15
  <2>6. \A x \in more : (\E i \in 1 .. n : e[i] = x) \/ (\A i \in 1 .. n : e[i] < x)
    <3> SUFFICES ASSUME NEW x \in more PROVE (\E i \in 1 .. n : e[i] = x) \/ (\A i \in 1 .. n : e[i] < x)
      OBVIOUS
    <3>1. CASE (\E i \in 1 .. n : q[i] = x) \/ x = c
      <4>1. PICK j \in 1 .. (n + 1) : r[j] = x
        BY <3>1, <1>16
      <4>2. CASE j = n + 1
        BY <4>1, <4>2, <2>2, <2>3, <2>4, <1>15
      <4>3. CASE j # n + 1
        <5>1. j \in 1 .. n
          BY <4>3, <1>3
        <5> QED BY <5>1, <4>1, <2>3
      <4> QED BY <4>2, <4>3
    <3>2. CASE x \in ans /\ \A i \in 1 .. n : q[i] < x
      <4>1. x \in Nat
        BY <3>2, <1>1
      <4>2. ASSUME k = n PROVE \A i \in 1 .. n : e[i] < x
        BY <4>2, <2>3, <1>11, <3>2
      <4>3. ASSUME k # n, NEW i \in 1 .. n PROVE e[i] < x
        <5>1. n + 1 \notin 1 .. k /\ n + 1 # k + 1 /\ (n + 1) - 1 = n
          BY <4>3, <1>3
        <5>2. r[n + 1] = q[n] /\ n \in 1 .. n
          BY <5>1, <2>2, <1>13, <1>3
        <5>3. r[i] < r[n + 1] /\ r[i] \in Nat /\ r[n + 1] \in Nat
          BY <2>2, <2>4, <1>14, <1>15
        <5>4. q[n] < x
          BY <5>2, <3>2
        <5> QED BY <4>1, <5>2, <5>3, <5>4, <2>3
      <4> QED BY <4>2, <4>3
    <3> QED BY <3>1, <3>2, <1>7
  <2>7. more \subseteq Candidates
    BY DEF QueueIsBest
  <2>8. /\ Len(e) = (IF maxQueue > 0 /\ Cardinality(more) > maxQueue THEN maxQueue ELSE Cardinality(more))
        /\ ~(maxQueue = 0 \/ Cardinality(more) <= maxQueue)
    BY <2>2, <2>3, <1>2, <1>18
  <2> HIDE DEF more
  <2>9. QueueIsBest(e, more, maxQueue)
    BY <2>3, <2>5, <2>6, <2>7, <2>8 DEF QueueIsBest
  <2> QED BY <2>1, <2>9 DEF more
<1> QED BY <1>17, <1>18

\* A worker that holds an answer or waits for one is a worker of the last stage.
LEMMA AnswersAreHeld ==
    ASSUME NEW pl
    PROVE  /\ \A Q : Amount(pl, Q) \in Nat
           /\ Amount(pl, {Scan!Kept}) + Amount(pl, {Scan!Await}) <= Amount(pl, HeldPlaces(3))
<1> DEFINE K == InPlaces(pl, {Scan!Kept})  W == InPlaces(pl, {Scan!Await})  H == InPlaces(pl, HeldPlaces(3))
<1>1. \A Q : IsFiniteSet(InPlaces(pl, Q))
  BY FS_Subset, ScanAssumption DEF InPlaces
<1>2. \A Q : Amount(pl, Q) \in Nat
  BY <1>1, FS_CardinalityType DEF Amount
<1>3. K \cap W = {} /\ K \cup W \subseteq H
  BY PlacesDiffer DEF InPlaces, HeldPlaces
<1>4. IsFiniteSet(K) /\ IsFiniteSet(W) /\ IsFiniteSet(H)
  BY <1>1
<1> HIDE DEF K, W, H
<1>5. Cardinality(K \cup W) = Cardinality(K) + Cardinality(W) - Cardinality(K \cap W)
  BY <1>4, FS_Union
<1>6. Cardinality(K \cap W) = 0
  BY <1>3, FS_EmptySet
<1>7. Cardinality(K \cup W) <= Cardinality(H)
  BY <1>3, <1>4, FS_Subset
<1>8. Cardinality(K) \in Nat /\ Cardinality(W) \in Nat
  BY <1>4, FS_CardinalityType
<1>9. Cardinality(K) + Cardinality(W) <= Cardinality(H)
  BY <1>5, <1>6, <1>7, <1>8
<1> QED BY <1>2, <1>9 DEF Amount, K, W, H

\* What is left to show of a step that moves one candidate.
LEMMA ScanMoves ==
    ASSUME ScanInv, NEW c \in Candidates, NEW p, place' = [place EXCEPT ![c] = p],
           UNCHANGED <<ports, filter, stop, maxQueue, closed, ipQueue, answered>>,
           c \notin answered \/ p = Scan!Gone, cancelled' \in BOOLEAN,
           live' \in [1 .. 3 -> Nat], \A s \in 1 .. 3 : live'[s] <= live[s],
           ~ports => \A s \in 1 .. 3 : Amount(place', HeldPlaces(s)) <= live'[s],
           ports => p \in {Scan!New, Scan!Junk, Scan!Await, Scan!Gone},
           StopHolds'
    PROVE  ScanInv'
<1>0. ScanTypes /\ StagesHold /\ QueueIsBest(ipQueue, answered, maxQueue)
      /\ \A x \in answered : place[x] \in {Scan!Kept, Scan!Gone}
  BY DEF ScanInv
<1>1. place'[c] = p /\ \A x \in Candidates : x # c => place'[x] = place[x]
  BY <1>0 DEF ScanTypes
<1>2. ScanTypes'
  BY <1>0 DEF ScanTypes
<1>3. QueueIsBest(ipQueue, answered, maxQueue)'
  BY <1>0
<1>4. \A x \in answered' : place'[x] \in {Scan!Kept, Scan!Gone}
  <2>1. answered \subseteq Candidates
    BY <1>0 DEF QueueIsBest
  <2> QED BY <1>0, <1>1, <2>1
<1>5. StagesHold'
  <2>1. Concurrency \in Nat /\ live \in [1 .. 3 -> Nat]
    BY ScanAssumption, <1>0 DEF ScanTypes
  <2>2. \A s \in 1 .. 3 : live[s] \in Nat /\ live'[s] \in Nat /\ live[s] <= Concurrency
    BY <1>0, <2>1 DEF StagesHold
  <2>3. \A s \in 1 .. 3 : live'[s] <= Concurrency /\ (live[s] = 0 => live'[s] = 0)
    BY <2>1, <2>2
  <2>4. \A s \in 1 .. 2 : s \in 1 .. 3 /\ (closed'[s + 1] => live'[s] = 0)
    BY <1>0, <2>3 DEF StagesHold
  <2>5. ports' => /\ \A s \in 1 .. 3 : live'[s] = 0 /\ ~closed'[s]
                  /\ \A x \in Candidates : place'[x] \in {Scan!New, Scan!Junk, Scan!Await, Scan!Gone}
    BY <1>0, <1>1, <2>3 DEF StagesHold
  <2> QED BY <2>3, <2>4, <2>5 DEF StagesHold
<1> QED BY <1>2, <1>3, <1>4, <1>5 DEF ScanInv

\* A move that neither counts an answer nor waits for one once the context is done
\* leaves what is known of the answers.
LEMMA StopStays ==
    ASSUME ScanInv, NEW c \in Candidates, NEW p, place' = [place EXCEPT ![c] = p],
           UNCHANGED <<ports, stop, maxQueue, cancelled, answered>>,
           place[c] # Scan!Kept, p # Scan!Kept, cancelled => p # Scan!Await
    PROVE  StopHolds'
<1>0. place = [x \in Candidates |-> place[x]] /\ StopHolds
  BY DEF ScanInv, ScanTypes
<1>1. Amount(place', {Scan!Kept}) = Amount(place, {Scan!Kept})
  BY <1>0, AmountMoved
<1>2. Amount(place, {Scan!Await}) \in Nat /\ Amount(place', {Scan!Await}) \in Nat
      /\ (p # Scan!Await => Amount(place', {Scan!Await}) <= Amount(place, {Scan!Await}))
  <2>1. p \notin {Scan!Await} =>
           Amount(place', {Scan!Await}) = Amount(place, {Scan!Await}) - 1
           \/ Amount(place', {Scan!Await}) = Amount(place, {Scan!Await})
    BY <1>0, AmountMoved
  <2>2. Amount(place, {Scan!Await}) \in Nat /\ Amount(place', {Scan!Await}) \in Nat
    BY AnswersAreHeld
  <2> QED BY <2>1, <2>2
<1>3. answered \subseteq Candidates /\ stop \in Nat
  BY DEF ScanInv, ScanTypes, QueueIsBest
<1>4. Cardinality(answered) \in Nat /\ Concurrency \in Nat
  BY <1>3, ScanAssumption, FS_Subset, FS_CardinalityType
<1> QED BY <1>0, <1>1, <1>2, <1>3, <1>4 DEF StopHolds

LEMMA ScanInit == Scan!Init => ScanInv
<1> SUFFICES ASSUME Scan!Init PROVE ScanInv
  OBVIOUS
<1>1. ScanTypes
  BY ScanAssumption DEF Scan!Init, ScanTypes, Scan!Stages
<1>2. \A c \in Candidates : place[c] = Scan!New
  BY DEF Scan!Init
<1>3. \A s \in 1 .. 3 : live[s] = (IF ports THEN 0 ELSE IF s < 3 /\ ~filter[s] THEN 1 ELSE Concurrency) /\ ~closed[s]
  BY DEF Scan!Init, Scan!Stages
<1>4. \A s \in 1 .. 3 : Amount(place, HeldPlaces(s)) = 0
  <2> SUFFICES ASSUME NEW s \in 1 .. 3 PROVE Amount(place, HeldPlaces(s)) = 0
    OBVIOUS
  <2>1. InPlaces(place, HeldPlaces(s)) = {}
    BY <1>2, WhoHolds DEF InPlaces
  <2> QED BY <2>1, FS_EmptySet DEF Amount
<1>5. StagesHold
  <2>1. Concurrency \in Nat \ {0}
    BY ScanAssumption
  <2>2. \A s \in 1 .. 3 : live[s] <= Concurrency /\ 0 <= live[s] /\ (ports => live[s] = 0)
    BY <1>3, <2>1
  <2>3. \A s \in 1 .. 2 : ~closed[s + 1]
    BY <1>3
  <2> QED BY <1>2, <1>3, <1>4, <2>2, <2>3 DEF StagesHold
<1>6. ipQueue = <<>> /\ answered = {} /\ cancelled = FALSE /\ stop \in Nat /\ maxQueue \in Nat
  BY ScanAssumption DEF Scan!Init
<1>7. Cardinality({}) = 0
  BY FS_EmptySet
<1>8. QueueIsBest(<<>>, {}, maxQueue)
  BY <1>6, <1>7 DEF QueueIsBest
<1>9. StopHolds
  <2>1. Amount(place, {Scan!Kept}) \in Nat
    BY AnswersAreHeld
  <2> QED BY <1>6, <1>7, <2>1 DEF StopHolds
<1> QED BY <1>1, <1>5, <1>6, <1>8, <1>9 DEF ScanInv

\* A move by which no worker comes to hold a candidate it did not hold.
LEMMA PlainMove ==
    ASSUME ScanInv, NEW c \in Candidates, NEW p, place' = [place EXCEPT ![c] = p],
           UNCHANGED <<ports, filter, stop, maxQueue, live, closed, cancelled, ipQueue, answered>>,
           place[c] \notin {Scan!Kept, Scan!Gone}, p # Scan!Kept, cancelled => p # Scan!Await,
           ports => p \in {Scan!New, Scan!Junk, Scan!Await, Scan!Gone},
           \A s \in 1 .. 3 : p \in HeldPlaces(s) => place[c] \in HeldPlaces(s)
    PROVE  ScanInv'
<1>0. /\ place = [x \in Candidates |-> place[x]] /\ live \in [1 .. 3 -> Nat] /\ cancelled \in BOOLEAN
      /\ \A x \in answered : place[x] \in {Scan!Kept, Scan!Gone}
  BY DEF ScanInv, ScanTypes
<1>1. ~ports => \A s \in 1 .. 3 : Amount(place, HeldPlaces(s)) <= live[s]
  BY DEF ScanInv, StagesHold
<1>2. \A s \in 1 .. 3 : live[s] \in Nat /\ live'[s] = live[s]
  BY <1>0
<1>3. ASSUME ~ports, NEW s \in 1 .. 3 PROVE Amount(place', HeldPlaces(s)) <= live'[s]
  <2>1. Amount(place, HeldPlaces(s)) \in Nat /\ Amount(place', HeldPlaces(s)) \in Nat
    BY AnswersAreHeld
  <2>2. Amount(place', HeldPlaces(s)) \in {Amount(place, HeldPlaces(s)), Amount(place, HeldPlaces(s)) - 1}
    BY <1>0, AmountMoved
  <2>3. Amount(place, HeldPlaces(s)) <= live[s]
    BY <1>1, <1>3
  <2> QED BY <2>1, <2>2, <2>3, <1>2
<1>4. StopHolds'
  BY StopStays
<1>5. \A s \in 1 .. 3 : live'[s] <= live[s]
  BY <1>2
<1> QED BY <1>0, <1>3, <1>4, <1>5, ScanMoves

LEMMA ScanStep == ScanInv /\ Scan!Next => ScanInv'
<1> SUFFICES ASSUME ScanInv, Scan!Next PROVE ScanInv'
  OBVIOUS
<1>0. ScanTypes /\ StagesHold /\ QueueIsBest(ipQueue, answered, maxQueue) /\ StopHolds
      /\ \A x \in answered : place[x] \in {Scan!Kept, Scan!Gone}
  BY DEF ScanInv
<1>t. /\ place = [x \in Candidates |-> place[x]] /\ live \in [1 .. 3 -> Nat] /\ closed \in [1 .. 3 -> BOOLEAN]
      /\ stop \in Nat /\ maxQueue \in Nat /\ cancelled \in BOOLEAN /\ answered \subseteq Candidates
  BY <1>0 DEF ScanTypes, QueueIsBest
<1>n. Cardinality(answered) \in Nat /\ Concurrency \in Nat /\ IsFiniteSet(answered)
  BY <1>t, ScanAssumption, FS_Subset, FS_CardinalityType
<1>h. \A s \in 1 .. 3 : live[s] \in Nat /\ Amount(place, HeldPlaces(s)) \in Nat /\ live[s] <= Concurrency
                        /\ (~ports => Amount(place, HeldPlaces(s)) <= live[s])
  BY <1>0, <1>t, AnswersAreHeld DEF StagesHold
<1>p. ports => /\ \A c \in Candidates : place[c] \in {Scan!New, Scan!Junk, Scan!Await, Scan!Gone}
               /\ \A s \in 1 .. 3 : live[s] = 0
  BY <1>0 DEF StagesHold
<1>i. ASSUME NEW s \in 1 .. 3, Scan!Idle(s) > 0
      PROVE  ~ports /\ Amount(place, HeldPlaces(s)) + 1 <= live[s]
  <2>1. Scan!Idle(s) = live[s] - Amount(place, HeldPlaces(s))
    BY HeldIsAmount DEF Scan!Idle
  <2> QED BY <1>i, <1>h, <1>p, <2>1
<1>l. ASSUME NEW s \in 1 .. 3, live[s] > 0, Scan!Leaves(s)
      PROVE  /\ live' \in [1 .. 3 -> Nat] /\ \A t \in 1 .. 3 : live'[t] <= live[t]
             /\ live'[s] = live[s] - 1 /\ \A t \in 1 .. 3 : t # s => live'[t] = live[t]
  <2>1. live' = [live EXCEPT ![s] = live[s] - 1] /\ live[s] - 1 \in Nat
    BY <1>l, <1>h DEF Scan!Leaves
  <2>2. live'[s] = live[s] - 1 /\ \A t \in 1 .. 3 : t # s => live'[t] = live[t]
    BY <2>1, <1>t
  <2> QED BY <2>1, <2>2, <1>t, <1>h
<1>m. ASSUME NEW c \in Candidates, NEW p, Scan!Move(c, p)
      PROVE  place' = [place EXCEPT ![c] = p]
  BY <1>m DEF Scan!Move
<1>1. ASSUME Scan!Cancel PROVE ScanInv'
  <2>1. /\ cancelled' = TRUE /\ ~cancelled
        /\ UNCHANGED <<ports, filter, stop, maxQueue, place, live, closed, ipQueue, answered>>
    BY <1>1 DEF Scan!Cancel, Scan!settings, Scan!results
  <2>2. StopHolds'
    <3> SUFFICES ASSUME ~ports /\ stop > 0 /\ (maxQueue = 0 \/ maxQueue >= stop)
                 PROVE  Cardinality(answered) + Amount(place, {Scan!Await}) <= stop + Concurrency - 1
      BY <2>1 DEF StopHolds
    <3>1. Cardinality(answered) <= stop - 1 + Amount(place, {Scan!Kept})
      BY <1>0, <2>1 DEF StopHolds
    <3>2. Amount(place, {Scan!Kept}) + Amount(place, {Scan!Await}) <= Concurrency
          /\ Amount(place, {Scan!Kept}) \in Nat /\ Amount(place, {Scan!Await}) \in Nat
      <4>1. Amount(place, HeldPlaces(3)) <= live[3] /\ live[3] <= Concurrency /\ live[3] \in Nat
            /\ Amount(place, HeldPlaces(3)) \in Nat
        BY <1>h
      <4>2. Amount(place, {Scan!Kept}) + Amount(place, {Scan!Await}) <= Amount(place, HeldPlaces(3))
            /\ Amount(place, {Scan!Kept}) \in Nat /\ Amount(place, {Scan!Await}) \in Nat
        BY AnswersAreHeld
      <4> QED BY <4>1, <4>2, <1>n
    <3> QED BY <3>1, <3>2, <1>t, <1>n
  <2>3. ScanTypes' /\ StagesHold' /\ QueueIsBest(ipQueue, answered, maxQueue)'
    BY <1>0, <2>1 DEF ScanTypes, StagesHold
  <2> QED BY <1>0, <2>1, <2>2, <2>3 DEF ScanInv
<1>2. ASSUME NEW c \in Candidates, Scan!Generate(c) PROVE ScanInv'
  <2>1. /\ ~ports /\ place[c] = Scan!New /\ place' = [place EXCEPT ![c] = Scan!In(1)]
        /\ UNCHANGED <<ports, filter, stop, maxQueue, live, closed, cancelled, ipQueue, answered>>
    BY <1>2, <1>m DEF Scan!Generate, Scan!settings, Scan!results, Scan!context
  <2>2. place[c] \notin {Scan!Kept, Scan!Gone} /\ Scan!In(1) # Scan!Kept /\ Scan!In(1) # Scan!Await
    BY <2>1, PlacesDiffer
  <2>3. \A s \in 1 .. 3 : Scan!In(1) \notin HeldPlaces(s)
    BY WhoHolds
  <2> QED BY <2>1, <2>2, <2>3, PlainMove
<1>3. ASSUME Scan!GenerateEnds PROVE ScanInv'
  <2>1. /\ ~ports /\ closed' = [closed EXCEPT ![1] = TRUE]
        /\ place' = [c \in Candidates |-> IF place[c] = Scan!New THEN Scan!Gone ELSE place[c]]
        /\ UNCHANGED <<ports, filter, stop, maxQueue, live, cancelled, ipQueue, answered>>
    BY <1>3 DEF Scan!GenerateEnds, Scan!settings, Scan!results, Scan!context
  <2>2. ASSUME NEW Q, Scan!New \notin Q, Scan!Gone \notin Q PROVE Amount(place', Q) = Amount(place, Q)
    <3>1. InPlaces(place', Q) = InPlaces(place, Q)
      BY <2>1, <2>2 DEF InPlaces
    <3> QED BY <3>1 DEF Amount
  <2>3. \A s \in 1 .. 3 : Amount(place', HeldPlaces(s)) = Amount(place, HeldPlaces(s))
    BY <2>2, WhoHolds
  <2>4. Amount(place', {Scan!Kept}) = Amount(place, {Scan!Kept}) /\ Amount(place', {Scan!Await}) = Amount(place, {Scan!Await})
    BY <2>2, PlacesDiffer
  <2>5. ScanTypes'
    BY <2>1, <1>0 DEF ScanTypes
  <2>6. \A s \in 1 .. 2 : closed'[s + 1] = closed[s + 1]
    <3>1. \A s \in 1 .. 2 : s + 1 \in 1 .. 3 /\ s + 1 # 1
      OBVIOUS
    <3> QED BY <2>1, <3>1, <1>t
  <2>7. StagesHold'
    BY <2>1, <2>3, <2>6, <1>0 DEF StagesHold
  <2>8. StopHolds'
    BY <2>1, <2>4, <1>0 DEF StopHolds
  <2>9. \A x \in answered' : place'[x] \in {Scan!Kept, Scan!Gone}
    BY <2>1, <1>0, <1>t
  <2> QED BY <2>1, <2>5, <2>7, <2>8, <2>9, <1>0 DEF ScanInv
<1>4. ASSUME NEW s \in 1 .. 3, NEW c \in Candidates, Scan!Take(s, c) PROVE ScanInv'
  <2> DEFINE p == IF s = 3 THEN Scan!Junk ELSE IF filter[s] THEN Scan!Test(s) ELSE Scan!Out(s)
  <2>1. /\ place[c] = Scan!In(s) /\ Scan!Idle(s) > 0
        /\ UNCHANGED <<ports, filter, stop, maxQueue, closed, cancelled, ipQueue, answered>>
        /\ \/ place' = [place EXCEPT ![c] = Scan!Gone] /\ Scan!Leaves(s)
           \/ place' = [place EXCEPT ![c] = p] /\ UNCHANGED live
    BY <1>4 DEF Scan!Take, Scan!Move, Scan!settings, Scan!results, Scan!context
  <2>2. ~ports /\ Amount(place, HeldPlaces(s)) + 1 <= live[s] /\ live[s] > 0
    BY <2>1, <1>i, <1>h
  <2>3. c \notin answered /\ place[c] # Scan!Kept /\ Scan!Gone # Scan!Kept /\ Scan!Gone # Scan!Await
    BY <2>1, <1>0, PlacesDiffer
  <2>4. \A t \in 1 .. 3 : place[c] \notin HeldPlaces(t) /\ Scan!Gone \notin HeldPlaces(t)
    BY <2>1, WhoHolds
  <2>5. CASE place' = [place EXCEPT ![c] = Scan!Gone] /\ Scan!Leaves(s)
    <3>1. StopHolds'
      BY <2>1, <2>3, <2>5, StopStays
    <3>2. /\ live' \in [1 .. 3 -> Nat] /\ \A t \in 1 .. 3 : live'[t] <= live[t]
          /\ live'[s] = live[s] - 1 /\ \A t \in 1 .. 3 : t # s => live'[t] = live[t]
      BY <2>2, <2>5, <1>l
    <3>3. \A t \in 1 .. 3 : Amount(place', HeldPlaces(t)) = Amount(place, HeldPlaces(t))
      BY <2>4, <2>5, <1>t, AmountMoved
    <3>4. \A t \in 1 .. 3 : Amount(place', HeldPlaces(t)) <= live'[t]
      BY <3>2, <3>3, <2>2, <1>h
    <3> QED BY <2>1, <2>2, <2>3, <2>5, <3>1, <3>2, <3>4, <1>t, ScanMoves
  <2>6. CASE place' = [place EXCEPT ![c] = p] /\ UNCHANGED live
    <3>1. p \in {Scan!Junk, Scan!Test(s), Scan!Out(s)} /\ (s # 3 => p # Scan!Junk) /\ (s = 3 => p = Scan!Junk)
      <4>1. s = 3 => p = Scan!Junk
        OBVIOUS
      <4>2. s # 3 => p \in {Scan!Test(s), Scan!Out(s)}
        <5>1. s # 3 => filter[s] \in BOOLEAN
          BY <1>0 DEF ScanTypes
        <5> DEFINE f == filter[s]
        <5>2. s # 3 /\ f = TRUE => p = Scan!Test(s)
          OBVIOUS
        <5>3. s # 3 /\ f = FALSE => p = Scan!Out(s)
          OBVIOUS
        <5> HIDE DEF p, f
        <5>4. s # 3 => f = TRUE \/ f = FALSE
          BY <5>1 DEF f
        <5> QED BY <5>2, <5>3, <5>4
      <4> HIDE DEF p
      <4> QED BY <4>1, <4>2, PlacesDiffer
    <3> HIDE DEF p
    <3>2. p # Scan!Kept /\ p # Scan!Await
      BY <3>1, PlacesDiffer
    <3>3. StopHolds'
      BY <2>1, <2>3, <2>6, <3>2, StopStays
    <3>4. \A t \in 1 .. 3 : t # s => p \notin HeldPlaces(t)
      <4>1. CASE s = 3
        BY <4>1, <3>1, WhoHolds
      <4>2. CASE s # 3
        <5>1. s \in 1 .. 2 /\ p \in {Scan!Test(s), Scan!Out(s)}
          BY <4>2, <3>1
        <5> QED BY <5>1, WhoHolds
      <4> QED BY <4>1, <4>2
    <3>5. ASSUME NEW t \in 1 .. 3 PROVE Amount(place', HeldPlaces(t)) <= live'[t]
      <4>1. live'[t] = live[t] /\ live[t] \in Nat /\ Amount(place, HeldPlaces(t)) \in Nat
            /\ Amount(place, HeldPlaces(t)) <= live[t]
        BY <2>2, <2>6, <1>h
      <4>2. CASE t = s
        <5>1. Amount(place', HeldPlaces(t)) \in {Amount(place, HeldPlaces(t)), Amount(place, HeldPlaces(t)) + 1}
          BY <2>4, <2>6, <1>t, AmountMoved
        <5> QED BY <5>1, <4>1, <4>2, <2>2
      <4>3. CASE t # s
        <5>1. Amount(place', HeldPlaces(t)) = Amount(place, HeldPlaces(t))
          BY <4>3, <3>4, <2>4, <2>6, <1>t, AmountMoved
        <5> QED BY <5>1, <4>1
      <4> QED BY <4>2, <4>3
    <3>6. live' \in [1 .. 3 -> Nat] /\ \A t \in 1 .. 3 : live'[t] <= live[t]
      BY <2>6, <1>t, <1>h
    <3> QED BY <2>1, <2>2, <2>3, <2>6, <3>3, <3>5, <3>6, <1>t, ScanMoves
  <2> QED BY <2>1, <2>5, <2>6
<1>5. ASSUME NEW s \in 1 .. 3, Scan!WorkerEnds(s) PROVE ScanInv'
  <2>1. /\ Scan!Idle(s) > 0 /\ Scan!Leaves(s)
        /\ UNCHANGED <<ports, filter, stop, maxQueue, place, closed, cancelled, ipQueue, answered>>
    BY <1>5 DEF Scan!WorkerEnds, Scan!settings, Scan!results, Scan!context
  <2>2. ~ports /\ Amount(place, HeldPlaces(s)) + 1 <= live[s] /\ live[s] > 0
    BY <2>1, <1>i, <1>h
  <2>3. /\ live' \in [1 .. 3 -> Nat] /\ \A t \in 1 .. 3 : live'[t] <= live[t]
        /\ live'[s] = live[s] - 1 /\ \A t \in 1 .. 3 : t # s => live'[t] = live[t]
    BY <2>1, <2>2, <1>l
  <2>4. \A t \in 1 .. 3 : live'[t] \in Nat /\ Amount(place, HeldPlaces(t)) <= live'[t] /\ live'[t] <= Concurrency
    BY <2>2, <2>3, <1>h, <1>n
  <2>5. \A t \in 1 .. 2 : closed[t + 1] => live'[t] = 0
    <3>1. \A t \in 1 .. 2 : t \in 1 .. 3 /\ (closed[t + 1] => live[t] = 0)
      BY <1>0 DEF StagesHold
    <3> QED BY <3>1, <2>3, <2>4
  <2>6. StagesHold'
    BY <2>1, <2>2, <2>4, <2>5 DEF StagesHold
  <2>7. ScanTypes' /\ StopHolds'
    BY <2>1, <2>3, <1>0 DEF ScanTypes, StopHolds
  <2> QED BY <2>1, <2>6, <2>7, <1>0 DEF ScanInv
<1>6. ASSUME NEW s \in 1 .. 2, NEW c \in Candidates, Scan!Filter(s, c) PROVE ScanInv'
  <2>1. PICK p \in {Scan!Out(s), Scan!Gone} :
           /\ place[c] = Scan!Test(s) /\ place' = [place EXCEPT ![c] = p]
           /\ UNCHANGED <<ports, filter, stop, maxQueue, live, closed, cancelled, ipQueue, answered>>
    BY <1>6 DEF Scan!Filter, Scan!Move, Scan!settings, Scan!results, Scan!context
  <2>2. place[c] \notin {Scan!Kept, Scan!Gone} /\ p # Scan!Kept /\ p # Scan!Await
        /\ place[c] \notin {Scan!New, Scan!Junk, Scan!Await, Scan!Gone}
    BY <2>1, PlacesDiffer
  <2>3. ~ports
    BY <2>2, <1>p
  <2>4. \A t \in 1 .. 3 : p \in HeldPlaces(t) => place[c] \in HeldPlaces(t)
    BY <2>1, WhoHolds
  <2> QED BY <2>1, <2>2, <2>3, <2>4, PlainMove
<1>7. ASSUME NEW s \in 1 .. 2, NEW c \in Candidates, Scan!SendOn(s, c) PROVE ScanInv'
  <2>1. /\ place[c] = Scan!Out(s)
        /\ UNCHANGED <<ports, filter, stop, maxQueue, closed, cancelled, ipQueue, answered>>
        /\ \/ place' = [place EXCEPT ![c] = Scan!In(s + 1)] /\ UNCHANGED live
           \/ place' = [place EXCEPT ![c] = Scan!Gone] /\ Scan!Leaves(s)
    BY <1>7 DEF Scan!SendOn, Scan!Move, Scan!settings, Scan!results, Scan!context
  <2>2. place[c] \notin {Scan!Kept, Scan!Gone} /\ Scan!Gone # Scan!Kept /\ Scan!Gone # Scan!Await
        /\ place[c] \notin {Scan!New, Scan!Junk, Scan!Await, Scan!Gone}
        /\ Scan!In(s + 1) # Scan!Kept /\ Scan!In(s + 1) # Scan!Await
    BY <2>1, PlacesDiffer
  <2>3. ~ports /\ c \notin answered
    BY <2>2, <1>p, <1>0
  <2>4. s \in 1 .. 3
    OBVIOUS
  <2>5. CASE place' = [place EXCEPT ![c] = Scan!In(s + 1)] /\ UNCHANGED live
    <3>1. \A t \in 1 .. 3 : Scan!In(s + 1) \notin HeldPlaces(t)
      BY WhoHolds
    <3> QED BY <2>1, <2>2, <2>3, <2>5, <3>1, PlainMove
  <2>6. CASE place' = [place EXCEPT ![c] = Scan!Gone] /\ Scan!Leaves(s)
    <3>1. \A t \in 1 .. 3 : Scan!Gone \notin HeldPlaces(t) /\ (place[c] \in HeldPlaces(t) <=> t = s)
      BY <2>1, WhoHolds
    <3>2. \A t \in 1 .. 3 : /\ t = s => Amount(place', HeldPlaces(t)) = Amount(place, HeldPlaces(t)) - 1
                                        /\ Amount(place, HeldPlaces(t)) > 0
                            /\ t # s => Amount(place', HeldPlaces(t)) = Amount(place, HeldPlaces(t))
      BY <3>1, <2>6, <1>t, AmountMoved
    <3>3. live[s] > 0
      BY <3>2, <2>3, <2>4, <1>h
    <3>4. /\ live' \in [1 .. 3 -> Nat] /\ \A t \in 1 .. 3 : live'[t] <= live[t]
          /\ live'[s] = live[s] - 1 /\ \A t \in 1 .. 3 : t # s => live'[t] = live[t]
      BY <3>3, <2>4, <2>6, <1>l
    <3>5. \A t \in 1 .. 3 : Amount(place', HeldPlaces(t)) <= live'[t]
      BY <3>2, <3>4, <2>3, <1>h
    <3>6. StopHolds'
      BY <2>1, <2>2, <2>6, StopStays
    <3> QED BY <2>1, <2>3, <2>6, <3>4, <3>5, <3>6, <1>t, ScanMoves
  <2> QED BY <2>1, <2>5, <2>6
<1>8. ASSUME NEW s \in 1 .. 2, Scan!CloseNext(s) PROVE ScanInv'
  <2>1. /\ ~ports /\ live[s] = 0 /\ closed' = [closed EXCEPT ![s + 1] = TRUE]
        /\ UNCHANGED <<ports, filter, stop, maxQueue, place, live, cancelled, ipQueue, answered>>
    BY <1>8 DEF Scan!CloseNext, Scan!settings, Scan!results, Scan!context
  <2>2. closed' \in [1 .. 3 -> BOOLEAN]
    BY <2>1, <1>t
  <2>3. \A t \in 1 .. 2 : closed'[t + 1] => live'[t] = 0
    <3>1. \A t \in 1 .. 2 : t + 1 \in 1 .. 3 /\ (t # s => t + 1 # s + 1) /\ (closed[t + 1] => live[t] = 0)
      BY <1>0 DEF StagesHold
    <3> QED BY <2>1, <3>1, <1>t
  <2>4. ScanTypes' /\ StagesHold' /\ StopHolds'
    BY <2>1, <2>2, <2>3, <1>0 DEF ScanTypes, StagesHold, StopHolds
  <2> QED BY <2>1, <2>4, <1>0 DEF ScanInv
<1>9. ASSUME NEW c \in Candidates, Scan!StartPort(c) PROVE ScanInv'
  <2>1. PICK p \in {Scan!Junk, Scan!Gone} :
           /\ ports /\ place[c] = Scan!New /\ place' = [place EXCEPT ![c] = p]
           /\ UNCHANGED <<ports, filter, stop, maxQueue, live, closed, cancelled, ipQueue, answered>>
    BY <1>9 DEF Scan!StartPort, Scan!Move, Scan!settings, Scan!results, Scan!context
  <2>2. place[c] \notin {Scan!Kept, Scan!Gone} /\ p # Scan!Kept /\ p # Scan!Await /\ c \notin answered
    BY <2>1, <1>0, PlacesDiffer
  <2>3. StopHolds'
    BY <2>1 DEF StopHolds
  <2>4. \A t \in 1 .. 3 : live'[t] <= live[t]
    BY <2>1, <1>h
  <2> QED BY <2>1, <2>2, <2>3, <2>4, <1>t, ScanMoves
<1>10. ASSUME NEW c \in Candidates, Scan!SendJunk(c) PROVE ScanInv'
  <2>1. PICK p \in {Scan!Gone, Scan!Await} :
           /\ place[c] = Scan!Junk /\ place' = [place EXCEPT ![c] = p] /\ (cancelled => p # Scan!Await)
           /\ UNCHANGED <<ports, filter, stop, maxQueue, live, closed, cancelled, ipQueue, answered>>
    <3>1. Scan!Gone # Scan!Await
      BY PlacesDiffer
    <3> QED BY <1>10, <3>1 DEF Scan!SendJunk, Scan!Move, Scan!settings, Scan!results, Scan!context
  <2>2. place[c] \notin {Scan!Kept, Scan!Gone} /\ p # Scan!Kept
    BY <2>1, PlacesDiffer
  <2>3. \A t \in 1 .. 3 : p \in HeldPlaces(t) => place[c] \in HeldPlaces(t)
    BY <2>1, WhoHolds
  <2> QED BY <2>1, <2>2, <2>3, PlainMove
<1>11. ASSUME NEW c \in Candidates, Scan!NoAnswer(c) PROVE ScanInv'
  <2>1. /\ place[c] \in {Scan!Junk, Scan!Await} /\ place' = [place EXCEPT ![c] = Scan!Gone]
        /\ UNCHANGED <<ports, filter, stop, maxQueue, live, closed, cancelled, ipQueue, answered>>
    BY <1>11 DEF Scan!NoAnswer, Scan!Move, Scan!settings, Scan!results, Scan!context
  <2>2. place[c] \notin {Scan!Kept, Scan!Gone} /\ Scan!Gone # Scan!Kept /\ Scan!Gone # Scan!Await
    BY <2>1, PlacesDiffer
  <2>3. \A t \in 1 .. 3 : Scan!Gone \notin HeldPlaces(t)
    BY WhoHolds
  <2> QED BY <2>1, <2>2, <2>3, PlainMove
<1>12. ASSUME NEW c \in Candidates, Scan!Answer(c) PROVE ScanInv'
  <2> DEFINE p == IF ports THEN Scan!Gone ELSE Scan!Kept
  <2>1. /\ place[c] = Scan!Await /\ place' = [place EXCEPT ![c] = p]
        /\ ipQueue' = Scan!Enqueued(ipQueue, c) /\ answered' = answered \cup {c}
        /\ UNCHANGED <<ports, filter, stop, maxQueue, live, closed, cancelled>>
    BY <1>12 DEF Scan!Answer, Scan!Move, Scan!settings, Scan!context
  <2>2. c \notin answered
    BY <2>1, <1>0, PlacesDiffer
  <2>3. p \in {Scan!Kept, Scan!Gone} /\ (ports => p = Scan!Gone) /\ (~ports => p = Scan!Kept)
    OBVIOUS
  <2> HIDE DEF p
  <2>4. QueueIsBest(ipQueue', answered', maxQueue')
    BY <2>1, <2>2, <1>0, <1>t, QueueTakes
  <2>5. place'[c] = p /\ \A x \in Candidates : x # c => place'[x] = place[x]
    BY <2>1, <1>t
  <2>6. \A x \in answered' : place'[x] \in {Scan!Kept, Scan!Gone}
    BY <2>1, <2>3, <2>5, <1>0, <1>t
  <2>7. Cardinality(answered') = Cardinality(answered) + 1
    BY <2>1, <2>2, <1>n, FS_AddElement
  <2>8. ScanTypes'
    BY <2>1, <1>0 DEF ScanTypes
  <2>9. StagesHold'
    <3>1. ASSUME ~ports, NEW s \in 1 .. 3 PROVE Amount(place', HeldPlaces(s)) <= live'[s]
      <4>1. p \in HeldPlaces(s) => place[c] \in HeldPlaces(s)
        BY <3>1, <2>1, <2>3, WhoHolds
      <4>2. Amount(place', HeldPlaces(s)) \in {Amount(place, HeldPlaces(s)), Amount(place, HeldPlaces(s)) - 1}
        BY <4>1, <2>1, <1>t, AmountMoved
      <4>3. Amount(place, HeldPlaces(s)) <= live[s] /\ Amount(place, HeldPlaces(s)) \in Nat /\ live[s] \in Nat /\ live'[s] = live[s]
        BY <3>1, <2>1, <1>h
      <4> QED BY <4>2, <4>3
    <3>2. ports => \A x \in Candidates : place'[x] \in {Scan!New, Scan!Junk, Scan!Await, Scan!Gone}
      BY <2>3, <2>5, <1>p
    <3> QED BY <2>1, <3>1, <3>2, <1>0 DEF StagesHold
  <2>10. StopHolds'
    <3> SUFFICES ASSUME ~ports /\ stop > 0 /\ (maxQueue = 0 \/ maxQueue >= stop)
                 PROVE  /\ ~cancelled => Cardinality(answered') <= stop - 1 + Amount(place', {Scan!Kept})
                        /\ cancelled => Cardinality(answered') + Amount(place', {Scan!Await}) <= stop + Concurrency - 1
      BY <2>1 DEF StopHolds
    <3>1. p = Scan!Kept /\ Scan!Kept # Scan!Await
      BY <2>3, PlacesDiffer
    <3>2. Amount(place', {Scan!Kept}) = Amount(place, {Scan!Kept}) + 1 /\ Amount(place, {Scan!Kept}) \in Nat
      BY <2>1, <3>1, <1>t, AmountMoved
    <3>3. Amount(place', {Scan!Await}) = Amount(place, {Scan!Await}) - 1 /\ Amount(place, {Scan!Await}) \in Nat
      BY <2>1, <3>1, <1>t, AmountMoved
    <3>4. /\ ~cancelled => Cardinality(answered) <= stop - 1 + Amount(place, {Scan!Kept})
          /\ cancelled => Cardinality(answered) + Amount(place, {Scan!Await}) <= stop + Concurrency - 1
      BY <1>0 DEF StopHolds
    <3> QED BY <3>2, <3>3, <3>4, <2>7, <1>n, <1>t
  <2> QED BY <2>4, <2>6, <2>8, <2>9, <2>10 DEF ScanInv
<1>13. ASSUME NEW c \in Candidates, Scan!Count(c) PROVE ScanInv'
  <2>1. /\ place[c] = Scan!Kept /\ place' = [place EXCEPT ![c] = Scan!Gone]
        /\ cancelled' = (cancelled \/ (stop > 0 /\ Len(ipQueue) >= stop))
        /\ UNCHANGED <<ports, filter, stop, maxQueue, live, closed, ipQueue, answered>>
    BY <1>13 DEF Scan!Count, Scan!Move, Scan!settings, Scan!results
  <2>2. ~ports
    BY <2>1, <1>p, PlacesDiffer
  <2>3. cancelled' \in BOOLEAN
    BY <2>1, <1>t
  <2>4. ASSUME NEW s \in 1 .. 3 PROVE Amount(place', HeldPlaces(s)) <= live'[s]
    <3>1. Scan!Gone \notin HeldPlaces(s)
      BY WhoHolds
    <3>2. Amount(place', HeldPlaces(s)) \in {Amount(place, HeldPlaces(s)), Amount(place, HeldPlaces(s)) - 1}
      BY <3>1, <2>1, <1>t, AmountMoved
    <3>3. Amount(place, HeldPlaces(s)) <= live[s] /\ Amount(place, HeldPlaces(s)) \in Nat /\ live[s] \in Nat /\ live'[s] = live[s]
      BY <2>1, <2>2, <1>h
    <3> QED BY <3>2, <3>3
  <2>5. StopHolds'
    <3> SUFFICES ASSUME stop > 0, maxQueue = 0 \/ maxQueue >= stop
                 PROVE  /\ ~cancelled' => Cardinality(answered) <= stop - 1 + Amount(place', {Scan!Kept})
                        /\ cancelled' => Cardinality(answered) + Amount(place', {Scan!Await}) <= stop + Concurrency - 1
      BY <2>1 DEF StopHolds
    <3>1. Amount(place', {Scan!Kept}) \in Nat /\ Amount(place, {Scan!Kept}) \in Nat /\ Amount(place, {Scan!Await}) \in Nat
          /\ Amount(place, HeldPlaces(3)) \in Nat /\ live[3] \in Nat
      BY AnswersAreHeld, <1>h
    <3>2. Amount(place', {Scan!Await}) = Amount(place, {Scan!Await})
      <4>1. Scan!Gone \notin {Scan!Await} /\ place[c] \notin {Scan!Await}
        BY <2>1, PlacesDiffer
      <4> DEFINE Q == {Scan!Await}
      <4>2. Scan!Gone \notin Q /\ place[c] \notin Q
        BY <4>1
      <4>3. place' = [place EXCEPT ![c] = Scan!Gone]
        BY <2>1
      <4> HIDE DEF Q
      <4>4. Amount(place', Q) = Amount(place, Q)
        BY <4>2, <4>3, <1>t, AmountMoved
      <4> QED BY <4>4 DEF Q
    <3>3. /\ ~cancelled => Cardinality(answered) <= stop - 1 + Amount(place, {Scan!Kept})
          /\ cancelled => Cardinality(answered) + Amount(place, {Scan!Await}) <= stop + Concurrency - 1
      BY <1>0, <2>2 DEF StopHolds
    <3>4. Amount(place, {Scan!Kept}) + Amount(place, {Scan!Await}) <= Concurrency
      <4>1. Amount(place, {Scan!Kept}) + Amount(place, {Scan!Await}) <= Amount(place, HeldPlaces(3))
        BY AnswersAreHeld
      <4>2. Amount(place, HeldPlaces(3)) <= live[3] /\ live[3] <= Concurrency
        BY <2>2, <1>h
      <4> QED BY <3>1, <4>1, <4>2, <1>n
    <3>5. CASE cancelled
      BY <3>5, <3>2, <3>3, <2>1
    <3>6. CASE ~cancelled /\ cancelled'
      BY <3>6, <3>1, <3>2, <3>3, <3>4, <1>n, <1>t
    <3>7. CASE ~cancelled /\ ~cancelled'
      <4>1. ~(Len(ipQueue) >= stop)
        BY <3>7, <2>1
      <4>2. Len(ipQueue) = (IF maxQueue > 0 /\ Cardinality(answered) > maxQueue THEN maxQueue ELSE Cardinality(answered))
        BY <1>0 DEF QueueIsBest
      <4>3. Cardinality(answered) < stop
        BY <4>1, <4>2, <1>n, <1>t
      <4> QED BY <4>3, <3>1, <3>7, <1>n, <1>t
    <3> QED BY <3>5, <3>6, <3>7, <2>3, <1>t
  <2>6. live' \in [1 .. 3 -> Nat] /\ \A t \in 1 .. 3 : live'[t] <= live[t]
    BY <2>1, <1>t, <1>h
  <2> QED BY <2>1, <2>2, <2>3, <2>4, <2>5, <2>6, ScanMoves
<1>14. ASSUME Scan!RunEnds PROVE ScanInv'
  <2>1. UNCHANGED <<ports, filter, stop, maxQueue, place, live, closed, cancelled, ipQueue, answered>>
    BY <1>14 DEF Scan!RunEnds, Scan!settings, Scan!results, Scan!context
  <2> QED BY <2>1, <1>0 DEF ScanInv, ScanTypes, StagesHold, StopHolds
<1> QED BY <1>1, <1>2, <1>3, <1>4, <1>5, <1>6, <1>7, <1>8, <1>9, <1>10, <1>11, <1>12, <1>13, <1>14
        DEF Scan!Next, Scan!ScanSystem, Scan!Stages

LEMMA ScanStutter == ScanInv /\ UNCHANGED scanVars => ScanInv'
  BY DEF scanVars, ScanInv, ScanTypes, StagesHold, StopHolds

\* What the invariant says in the pipeline's own words.
LEMMA ScanMeans ==
    ScanInv => Scan!TypeOK /\ Scan!NoSendOnClosedStream /\ Scan!QueueHoldsTheBest /\ Scan!StopIsHeeded
<1> SUFFICES ASSUME ScanInv
             PROVE  Scan!TypeOK /\ Scan!NoSendOnClosedStream /\ Scan!QueueHoldsTheBest /\ Scan!StopIsHeeded
  OBVIOUS
<1>0. ScanTypes /\ StagesHold /\ QueueIsBest(ipQueue, answered, maxQueue) /\ StopHolds
  BY DEF ScanInv
<1>1. /\ live \in [1 .. 3 -> Nat] /\ answered \subseteq Candidates /\ Concurrency \in Nat /\ stop \in Nat
      /\ \A s \in 1 .. 3 : live[s] \in Nat /\ live[s] <= Concurrency /\ Amount(place, HeldPlaces(s)) \in Nat
                           /\ (~ports => Amount(place, HeldPlaces(s)) <= live[s])
  BY <1>0, ScanAssumption, AnswersAreHeld DEF ScanTypes, StagesHold, QueueIsBest
<1>q. /\ ipQueue \in Seq(answered) /\ DOMAIN ipQueue = 1 .. Len(ipQueue) /\ Len(ipQueue) \in Nat
      /\ \A i \in 1 .. Len(ipQueue) : ipQueue[i] \in answered
      /\ Scan!Range(ipQueue) = {ipQueue[i] : i \in 1 .. Len(ipQueue)}
  <2>1. ipQueue \in Seq(answered)
    BY <1>0 DEF QueueIsBest
  <2> QED BY <2>1 DEF Scan!Range
<1>2. Scan!TypeOK
  <2>1. live \in [Scan!Stages -> 0 .. Concurrency]
    BY <1>1 DEF Scan!Stages
  <2>2. \A s \in Scan!Stages : Scan!Idle(s) >= 0 \/ ports
    <3> SUFFICES ASSUME NEW s \in 1 .. 3, ~ports PROVE Scan!Idle(s) >= 0
      BY DEF Scan!Stages
    <3>1. Scan!Idle(s) = live[s] - Amount(place, HeldPlaces(s))
      BY HeldIsAmount DEF Scan!Idle
    <3> QED BY <3>1, <1>1
  <2> QED BY <1>1, <1>q, <2>1, <2>2 DEF Scan!TypeOK
<1>3. Scan!NoSendOnClosedStream
  <2> SUFFICES ASSUME NEW s \in 1 .. 2, closed[s + 1] PROVE Scan!At(Scan!Out(s)) \cup Scan!At(Scan!Test(s)) = {}
    BY DEF Scan!NoSendOnClosedStream
  <2>1. s \in 1 .. 3 /\ s + 1 \in 1 .. 3 /\ s < 3
    OBVIOUS
  <2>2. live[s] = 0 /\ ~ports
    BY <2>1, <1>0 DEF StagesHold
  <2>3. Amount(place, HeldPlaces(s)) = 0
    BY <2>1, <2>2, <1>1
  <2>4. IsFiniteSet(InPlaces(place, HeldPlaces(s)))
    BY FS_Subset, ScanAssumption DEF InPlaces
  <2>5. InPlaces(place, HeldPlaces(s)) = {}
    BY <2>3, <2>4, FS_EmptySet DEF Amount
  <2>6. Scan!Held(s) = {}
    BY <2>1, <2>5, HeldIsAmount
  <2> QED BY <2>1, <2>6 DEF Scan!Held
<1>4. Scan!QueueHoldsTheBest
  <2>1. \A X : Scan!Cardinality(X) = Cardinality(X)
    BY DEF Scan!Cardinality, Cardinality
  <2>2. \A j, k \in DOMAIN ipQueue : j < k => ipQueue[j] < ipQueue[k]
    BY <1>0, <1>q DEF QueueIsBest
  <2>3. \A c \in answered \ Scan!Range(ipQueue) : \A d \in Scan!Range(ipQueue) : d < c
    BY <1>0, <1>q DEF QueueIsBest
  <2>4. Len(ipQueue) = (IF maxQueue > 0 /\ Cardinality(answered) > maxQueue THEN maxQueue ELSE Cardinality(answered))
    BY <1>0 DEF QueueIsBest
  <2> QED BY <2>1, <2>2, <2>3, <2>4 DEF Scan!QueueHoldsTheBest
<1>5. Scan!StopIsHeeded
  <2>1. \A X : Scan!Cardinality(X) = Cardinality(X)
    BY DEF Scan!Cardinality, Cardinality
  <2> SUFFICES ASSUME ~ports, stop > 0, maxQueue = 0 \/ maxQueue >= stop
               PROVE  Cardinality(answered) <= stop + Concurrency - 1
    BY <2>1 DEF Scan!StopIsHeeded
  <2>2. /\ ~cancelled => Cardinality(answered) <= stop - 1 + Amount(place, {Scan!Kept})
        /\ cancelled => Cardinality(answered) + Amount(place, {Scan!Await}) <= stop + Concurrency - 1
    BY <1>0 DEF StopHolds
  <2>3. /\ Amount(place, {Scan!Kept}) + Amount(place, {Scan!Await}) <= Amount(place, HeldPlaces(3))
        /\ Amount(place, {Scan!Kept}) \in Nat /\ Amount(place, {Scan!Await}) \in Nat
    BY AnswersAreHeld
  <2>4. Amount(place, HeldPlaces(3)) <= Concurrency
    BY <1>1
  <2>5. Cardinality(answered) \in Nat
    BY <1>1, ScanAssumption, FS_Subset, FS_CardinalityType
  <2> QED BY <2>2, <2>3, <2>4, <2>5, <1>1
<1> QED BY <1>2, <1>3, <1>4, <1>5

-----------------------------------------------------------------------------
\* The MASQUE endpoint scanner (masque/scanner.go).

Endpoint == Nat \X Nat

\* What a worker holds while it tests an endpoint and while it sends the result, and
\* the result: a failure.
Testing(e) == [at |-> "testing", endpoint |-> e]
Sending(e) == [at |-> "sending", endpoint |-> e, success |-> FALSE]
ResultOf(e) == [endpoint |-> e, success |-> FALSE]
WorkerStates == {Masque!Idle, Masque!Done} \cup {Testing(e) : e \in Endpoint} \cup {Sending(e) : e \in Endpoint}
Results == {ResultOf(e) : e \in Endpoint}

\* How often a value is in a sequence, and how many workers hold an endpoint.
Occurs(s, x) == Cardinality({k \in 1 .. Len(s) : s[k] = x})
HoldersOf(f, Q) == Cardinality({w \in MasqueWorkers : f[w] \in Q})

\* The endpoint's jobs, tests and results, and how often it was to be tested so far.
Accounted(js, f, rs, rec, e) ==
    Occurs(js, e) + HoldersOf(f, {Testing(e), Sending(e)}) + Occurs(rs, ResultOf(e)) + Occurs(rec, ResultOf(e))
Sent(cs, n, e) == Cardinality({k \in 1 .. n - 1 : cs[k] = e})

\* Custom endpoints that fit come first.
CustomsFirst(have, cs) == \A k \in 1 .. Len(have) : k <= MaxEndpoints => k <= Len(cs) /\ cs[k] = have[k]

MasqueTypes ==
    /\ custom \in Seq(Endpoint) /\ candidates \in Seq(Endpoint) /\ Len(candidates) <= MaxEndpoints
    /\ CustomsFirst(custom, candidates)
    /\ jobs \in Seq(Endpoint) /\ nextJob \in 1 .. Len(candidates) + 1 /\ Len(jobs) <= nextJob - 1
    /\ worker \in [MasqueWorkers -> WorkerStates]
    /\ resultChan \in Seq(Results) /\ recorded \in Seq(Results) /\ Len(resultChan) <= Cardinality(MasqueWorkers)
    /\ jobsClosed \in BOOLEAN /\ resultsClosed \in BOOLEAN /\ scanned \in BOOLEAN

\* The flag lets one caller of Stop in, and nobody else closes the channel.
StopIsOnce ==
    /\ stopClosed \in {0, 1} /\ stopFlag \in BOOLEAN /\ ctxDone \in BOOLEAN
    /\ stopper \in [Stoppers -> {"out", "in", "back"}]
    /\ ~stopFlag => stopClosed = 0 /\ \A t \in Stoppers : stopper[t] # "in"
    /\ \A t \in Stoppers : stopper[t] = "in" => stopClosed = 0 /\ \A u \in Stoppers : stopper[u] = "in" => u = t

\* Until the scan is stopped every endpoint that was sent is somewhere, a worker leaves
\* only when there is nothing left to take, and Scan returns when all have left.
NoneIsLost ==
    /\ ~Masque!Stopped => \A e \in Endpoint : Accounted(jobs, worker, resultChan, recorded, e) = Sent(candidates, nextJob, e)
    /\ ~Masque!Stopped /\ (\E w \in MasqueWorkers : worker[w] = Masque!Done) => jobsClosed /\ jobs = <<>>
    /\ jobsClosed => nextJob = Len(candidates) + 1
    /\ resultsClosed => \A w \in MasqueWorkers : worker[w] = Masque!Done
    /\ scanned /\ candidates # <<>> => resultsClosed /\ resultChan = <<>>

MasqueInv == MasqueTypes /\ StopIsOnce /\ NoneIsLost

\* A sequence has finitely many occurrences of a value; one more of it when it is
\* appended.
LEMMA OccursAppend ==
    ASSUME NEW S, NEW s \in Seq(S), NEW x \in S, NEW y
    PROVE  /\ Occurs(s, y) \in Nat
           /\ Occurs(Append(s, x), y) = Occurs(s, y) + (IF x = y THEN 1 ELSE 0)
<1> DEFINE t == Append(s, x)
           A == {k \in 1 .. Len(s) : s[k] = y}
           B == {k \in 1 .. Len(t) : t[k] = y}
<1>1. Len(s) \in Nat
  OBVIOUS
<1>2. Len(t) = Len(s) + 1 /\ t[Len(s) + 1] = x /\ \A k \in 1 .. Len(s) : t[k] = s[k]
  BY AppendProperties
<1>3. IsFiniteSet(1 .. Len(s))
  BY <1>1, FS_Interval
<1>4. IsFiniteSet(A) /\ A \subseteq 1 .. Len(s)
  BY <1>3, FS_Subset
<1>5. Cardinality(A) \in Nat
  BY <1>4, FS_CardinalityType
<1>6. Len(s) + 1 \notin A
  BY <1>1, <1>4
<1>7. x = y => B = A \cup {Len(s) + 1}
  BY <1>1, <1>2
<1>8. x # y => B = A
  BY <1>1, <1>2
<1>9. Cardinality(A \cup {Len(s) + 1}) = Cardinality(A) + 1
  BY <1>4, <1>6, FS_AddElement
<1>10. Occurs(s, y) = Cardinality(A) /\ Occurs(t, y) = Cardinality(B)
  BY DEF Occurs
<1> HIDE DEF A, B, t
<1>11. CASE x = y
  BY <1>5, <1>7, <1>9, <1>10, <1>11 DEF t
<1>12. CASE x # y
  BY <1>5, <1>8, <1>10, <1>12 DEF t
<1> QED BY <1>11, <1>12

\* One fewer of the value that was taken from its head.
LEMMA OccursTail ==
    ASSUME NEW S, NEW s \in Seq(S), NEW y, s # <<>>
    PROVE  /\ Tail(s) \in Seq(S) /\ Head(s) \in S /\ Len(Tail(s)) = Len(s) - 1
           /\ Occurs(Tail(s), y) \in Nat
           /\ Occurs(s, y) = Occurs(Tail(s), y) + (IF Head(s) = y THEN 1 ELSE 0)
<1> DEFINE t == Tail(s)
           A == {k \in 1 .. Len(s) : s[k] = y}
           C == {k \in 2 .. Len(s) : s[k] = y}
           B == {k \in 1 .. Len(t) : t[k] = y}
<1>1. Len(s) \in Nat /\ Len(s) >= 1
  BY EmptySeq
<1>2. t \in Seq(S) /\ Head(s) \in S /\ Head(s) = s[1] /\ Len(t) = Len(s) - 1 /\ \A k \in 1 .. Len(t) : t[k] = s[k + 1]
  BY <1>1, HeadTailProperties
<1>3. IsFiniteSet(1 .. Len(s)) /\ IsFiniteSet(1 .. Len(t))
  BY <1>1, <1>2, FS_Interval
<1>4. IsFiniteSet(B) /\ IsFiniteSet(C)
  BY <1>3, <1>1, FS_Subset
<1>5. Cardinality(B) \in Nat
  BY <1>4, FS_CardinalityType
<1>6. ExistsBijection(B, C)
  <2> DEFINE f == [k \in B |-> k + 1]
  <2>1. \A k \in B : k \in Nat /\ k + 1 \in C
    BY <1>1, <1>2
  <2>2. \A j \in C : j - 1 \in B /\ (j - 1) + 1 = j
    BY <1>1, <1>2
  <2>3. f \in [B -> C]
    BY <2>1
  <2>4. \A a, b \in B : f[a] = f[b] => a = b
    BY <2>1
  <2>5. \A j \in C : \E a \in B : f[a] = j
    BY <2>2
  <2> HIDE DEF f
  <2>6. f \in Bijection(B, C)
    BY <2>3, <2>4, <2>5 DEF Bijection, Injection, Surjection, IsInjective
  <2> QED BY <2>6 DEF ExistsBijection
<1>7. Cardinality(C) = Cardinality(B)
  BY <1>4, <1>6, FS_Bijection
<1>8. 1 \notin C /\ (Head(s) = y => A = C \cup {1}) /\ (Head(s) # y => A = C)
  BY <1>1, <1>2
<1>9. Cardinality(C \cup {1}) = Cardinality(C) + 1
  BY <1>4, <1>8, FS_AddElement
<1>10. Occurs(s, y) = Cardinality(A) /\ Occurs(t, y) = Cardinality(B)
  BY DEF Occurs
<1> HIDE DEF A, B, C, t
<1>11. CASE Head(s) = y
  BY <1>2, <1>5, <1>7, <1>8, <1>9, <1>10, <1>11 DEF t
<1>12. CASE Head(s) # y
  BY <1>2, <1>5, <1>7, <1>8, <1>10, <1>12 DEF t
<1> QED BY <1>11, <1>12

\* A worker's change of state changes the number of those in a set of states by what
\* it leaves and what it enters.
LEMMA HoldersMoved ==
    ASSUME NEW f, NEW w \in MasqueWorkers, NEW v, NEW Q, f = [x \in MasqueWorkers |-> f[x]]
    PROVE  /\ HoldersOf(f, Q) \in Nat
           /\ HoldersOf([f EXCEPT ![w] = v], Q)
                = HoldersOf(f, Q) + (IF v \in Q THEN 1 ELSE 0) - (IF f[w] \in Q THEN 1 ELSE 0)
<1> DEFINE g == [f EXCEPT ![w] = v]
           A == {x \in MasqueWorkers : f[x] \in Q}
           B == {x \in MasqueWorkers : g[x] \in Q}
<1>1. IsFiniteSet(A) /\ IsFiniteSet(B)
  BY FS_Subset, ScanAssumption
<1>2. Cardinality(A) \in Nat /\ Cardinality(B) \in Nat
  BY <1>1, FS_CardinalityType
<1>3. g[w] = v /\ \A x \in MasqueWorkers : x # w => g[x] = f[x]
  OBVIOUS
<1>4. (v \in Q) = (f[w] \in Q) => A = B
  BY <1>3
<1>5. v \in Q /\ f[w] \notin Q => B = A \cup {w} /\ w \notin A
  BY <1>3
<1>6. v \notin Q /\ f[w] \in Q => A = B \cup {w} /\ w \notin B
  BY <1>3
<1>7. HoldersOf(f, Q) = Cardinality(A) /\ HoldersOf(g, Q) = Cardinality(B)
  BY DEF HoldersOf
<1> HIDE DEF A, B, g
<1>8. w \notin A => Cardinality(A \cup {w}) = Cardinality(A) + 1
  BY <1>1, FS_AddElement
<1>9. w \notin B => Cardinality(B \cup {w}) = Cardinality(B) + 1
  BY <1>1, FS_AddElement
<1> DEFINE a == Cardinality(A)  b == Cardinality(B)
<1>10. v \in Q /\ f[w] \in Q => b = a
  BY <1>4
<1>11. v \in Q /\ f[w] \notin Q => b = a + 1
  BY <1>5, <1>8
<1>12. v \notin Q /\ f[w] \in Q => a = b + 1
  BY <1>6, <1>9
<1>13. v \notin Q /\ f[w] \notin Q => b = a
  BY <1>4
<1>14. a \in Nat /\ b \in Nat /\ HoldersOf(f, Q) = a /\ HoldersOf(g, Q) = b
  BY <1>2, <1>7
<1> HIDE DEF a, b
<1>15. HoldersOf(g, Q) = HoldersOf(f, Q) + (IF v \in Q THEN 1 ELSE 0) - (IF f[w] \in Q THEN 1 ELSE 0)
  BY <1>10, <1>11, <1>12, <1>13, <1>14
<1> QED BY <1>14, <1>15 DEF g

\* The next candidate is sent.
LEMMA SentNext ==
    ASSUME NEW cs, NEW n \in Nat \ {0}, NEW e
    PROVE  Sent(cs, n, e) \in Nat /\ Sent(cs, n + 1, e) = Sent(cs, n, e) + (IF cs[n] = e THEN 1 ELSE 0)
<1> DEFINE A == {k \in 1 .. n - 1 : cs[k] = e}
           B == {k \in 1 .. (n + 1) - 1 : cs[k] = e}
<1>1. IsFiniteSet(1 .. n - 1)
  BY FS_Interval
<1>2. IsFiniteSet(A) /\ n \notin A
  BY <1>1, FS_Subset
<1>3. Cardinality(A) \in Nat
  BY <1>2, FS_CardinalityType
<1>4. (cs[n] = e => B = A \cup {n}) /\ (cs[n] # e => B = A)
  OBVIOUS
<1>5. Cardinality(A \cup {n}) = Cardinality(A) + 1
  BY <1>2, FS_AddElement
<1>6. Sent(cs, n, e) = Cardinality(A) /\ Sent(cs, n + 1, e) = Cardinality(B)
  BY DEF Sent
<1> HIDE DEF A, B
<1> QED BY <1>3, <1>4, <1>5, <1>6

\* The quotient of a number below a product is below the factor.
LEMMA QuotientBelow ==
    ASSUME NEW a \in Nat, NEW b \in Nat \ {0}, NEW x \in Nat, x < a * b
    PROVE  x \div b \in 0 .. a - 1 /\ x % b \in 0 .. b - 1
<1> DEFINE q == x \div b
<1>1. q \in Nat /\ x % b \in 0 .. b - 1
  BY Z3
<1>2. b * q <= x
  BY Z3
<1> HIDE DEF q
<1>3. b * q \in Nat /\ a * b \in Nat
  BY <1>1
<1>4. ~(a <= q)
  <2> SUFFICES ASSUME a <= q PROVE FALSE
    OBVIOUS
  <2>1. PICK d \in Nat : q = a + d
    BY <1>1
  <2>2. b * q = a * b + b * d /\ b * d \in Nat
    BY <2>1
  <2> QED BY <2>2, <1>2, <1>3
<1>5. q \in 0 .. a - 1
  BY <1>1, <1>4
<1> QED BY <1>1, <1>5 DEF q

\* The addresses of a range are numbers.
LEMMA AddressesTyped ==
    ASSUME NEW r \in [first : Nat, size : Nat, v4 : BOOLEAN], NEW max \in Int
    PROVE  Masque!expandCIDR(r, max) \in Seq(Nat)
<1> DEFINE usable == {ip \in r.first .. r.first + r.size - 1 : ~Masque!isNetworkOrBroadcast(ip, r)}
           n == IF max < 1 THEN 1 ELSE max
           m == IF Cardinality(usable) > n THEN n ELSE Cardinality(usable)
<1>1. r.first \in Nat /\ r.first + r.size - 1 \in Int
  OBVIOUS
<1>2. IsFiniteSet(r.first .. r.first + r.size - 1)
  BY <1>1, FS_Interval
<1>3. IsFiniteSet(usable)
  BY <1>2, FS_Subset
<1>4. Cardinality(usable) \in Nat
  BY <1>3, FS_CardinalityType
<1>5. Masque!Cardinality(usable) = Cardinality(usable)
  BY DEF Masque!Cardinality, Cardinality
<1>6. Masque!expandCIDR(r, max) = [k \in 1 .. m |-> r.first + k]
  BY <1>5 DEF Masque!expandCIDR
<1> HIDE DEF usable
<1>7. m \in Nat
  BY <1>4
<1> HIDE DEF m
<1>8. [k \in 1 .. m |-> r.first + k] \in Seq(Nat)
  BY <1>1, <1>7
<1> QED BY <1>6, <1>8

\* Addresses times ports are endpoints.
LEMMA EndpointsTyped ==
    ASSUME NEW adr \in Seq(Nat)
    PROVE  Masque!Endpoints(adr) \in Seq(Endpoint)
<1>1. Ports \in Seq(Nat)
  BY ScanAssumption
<1> DEFINE a == Len(adr)  b == Len(Ports)
<1>2. a \in Nat /\ b \in Nat
  BY <1>1
<1>3. \A k \in 1 .. a : adr[k] \in Nat
  OBVIOUS
<1>4. \A k \in 1 .. b : Ports[k] \in Nat
  BY <1>1
<1>5. Masque!Endpoints(adr) = [k \in 1 .. a * b |-> <<adr[((k - 1) \div b) + 1], Ports[((k - 1) % b) + 1]>>]
  BY DEF Masque!Endpoints
<1> HIDE DEF a, b
<1>6. a * b \in Nat
  BY <1>2
<1>7. ASSUME NEW k \in 1 .. a * b PROVE <<adr[((k - 1) \div b) + 1], Ports[((k - 1) % b) + 1]>> \in Endpoint
  <2>1. b # 0
    <3> SUFFICES ASSUME b = 0 PROVE FALSE
      OBVIOUS
    <3>1. a * b = 0
      BY <1>2
    <3> QED BY <3>1
  <2>2. k - 1 \in Nat /\ k - 1 < a * b
    BY <1>6
  <2>3. (k - 1) \div b \in 0 .. a - 1 /\ (k - 1) % b \in 0 .. b - 1
    BY <2>1, <2>2, <1>2, QuotientBelow
  <2>4. ((k - 1) \div b) + 1 \in 1 .. a /\ ((k - 1) % b) + 1 \in 1 .. b
    BY <2>3, <1>2
  <2> QED BY <2>4, <1>3, <1>4 DEF Endpoint
<1> DEFINE F(k) == <<adr[((k - 1) \div b) + 1], Ports[((k - 1) % b) + 1]>>
<1>8. \A k \in 1 .. a * b : F(k) \in Endpoint
  BY <1>7
<1> HIDE DEF F
<1>9. [k \in 1 .. a * b |-> F(k)] \in Seq(Endpoint)
  BY <1>6, <1>8
<1> QED BY <1>5, <1>9 DEF F

\* What one range adds (the operator expanded folds).
Added(have, acc, r) ==
    IF Len(acc) > Len(have) /\ Len(acc) >= MaxEndpoints THEN acc
    ELSE LET more == Masque!Endpoints(Masque!expandCIDR(r, MaxEndpoints - Len(acc)))
             room == IF MaxEndpoints > Len(acc) THEN MaxEndpoints - Len(acc) ELSE 1
         IN  acc \o (IF Len(more) > room THEN SubSeq(more, 1, room) ELSE more)

RangeRecords == [first : Nat, size : Nat, v4 : BOOLEAN]

\* t begins with s.
Begins(s, t) == Len(s) <= Len(t) /\ \A k \in 1 .. Len(s) : t[k] = s[k]

\* A range's endpoints come after what there is.
LEMMA AddedTyped ==
    ASSUME NEW have \in Seq(Endpoint), NEW acc \in Seq(Endpoint), NEW r \in RangeRecords
    PROVE  Added(have, acc, r) \in Seq(Endpoint) /\ Begins(acc, Added(have, acc, r))
<1> DEFINE more == Masque!Endpoints(Masque!expandCIDR(r, MaxEndpoints - Len(acc)))
           room == IF MaxEndpoints > Len(acc) THEN MaxEndpoints - Len(acc) ELSE 1
           plus == IF Len(more) > room THEN SubSeq(more, 1, room) ELSE more
<1>1. MaxEndpoints \in Nat /\ Len(acc) \in Nat
  BY ScanAssumption
<1>2. MaxEndpoints - Len(acc) \in Int /\ room \in Nat /\ room >= 1
  BY <1>1
<1>3. Masque!expandCIDR(r, MaxEndpoints - Len(acc)) \in Seq(Nat)
  BY <1>2, AddressesTyped DEF RangeRecords
<1>4. more \in Seq(Endpoint)
  BY <1>3, EndpointsTyped
<1>5. Added(have, acc, r) = acc \/ Added(have, acc, r) = acc \o plus
  BY DEF Added
<1> HIDE DEF more, room
<1>6. plus \in Seq(Endpoint)
  <2>1. CASE Len(more) > room
    BY <2>1, <1>2, <1>4, SubSeqProperties
  <2>2. CASE ~(Len(more) > room)
    BY <2>2, <1>4
  <2> QED BY <2>1, <2>2
<1> HIDE DEF plus
<1>7. acc \o plus \in Seq(Endpoint) /\ Len(acc \o plus) = Len(acc) + Len(plus) /\ \A k \in 1 .. Len(acc) : (acc \o plus)[k] = acc[k]
  BY <1>6, ConcatProperties
<1>8. Len(plus) \in Nat
  BY <1>6
<1>9. Begins(acc, acc \o plus)
  BY <1>1, <1>7, <1>8 DEF Begins
<1>10. Begins(acc, acc)
  BY <1>1 DEF Begins
<1> QED BY <1>5, <1>7, <1>9, <1>10

\* The candidates of the ranges come after those that were there.
LEMMA ExpandedTyped ==
    ASSUME NEW have \in Seq(Endpoint), NEW rs \in Seq(RangeRecords)
    PROVE  Masque!expanded(have, rs) \in Seq(Endpoint) /\ Begins(have, Masque!expanded(have, rs))
<1> DEFINE A == Seq(Endpoint)
           n == Len(rs)
           G == [p \in A \X (1 .. n) |-> Added(have, p[1], rs[p[2]])]
           F(f) == [s \in SUBSET (1 .. n) |-> IF s = {} THEN have ELSE Added(have, f[s \ {Largest(s)}], rs[Largest(s)])]
           iter == CHOOSE f : f = F(f)
<1>1. n \in Nat /\ DOMAIN rs = 1 .. n /\ \A k \in 1 .. n : rs[k] \in RangeRecords
  OBVIOUS
<1>2. Masque!expanded(have, rs) = iter[1 .. n]
  BY <1>1 DEF Masque!expanded, Masque!FoldLeft, Masque!MapThenFoldSet, Masque!Max, Largest, Added
<1>3. \A p \in A \X (1 .. n) : Added(have, p[1], rs[p[2]]) \in A
  BY <1>1, AddedTyped
<1>4. G \in [A \X (1 .. n) -> A]
  BY <1>3
<1>5. \A a \in A, k \in 1 .. n : G[<<a, k>>] = Added(have, a, rs[k])
  OBVIOUS
<1> HIDE DEF G, A
<1>6. have \in A
  BY DEF A
<1>7. PICK f : IsFold(f, A, have, G, n)
  BY <1>1, <1>4, <1>6, FoldExists
<1>8. ASSUME NEW s \in SUBSET (1 .. n), s # {}
      PROVE  Largest(s) \in 1 .. n /\ s \ {Largest(s)} \in SUBSET (1 .. n)
  BY <1>1, <1>8, LargestIn
<1>9. f = F(f)
  <2>1. \A s \in SUBSET (1 .. n) : s # {} => f[s \ {Largest(s)}] \in A
    BY <1>7, <1>8 DEF IsFold
  <2>2. \A s \in SUBSET (1 .. n) : s # {} => f[s] = Added(have, f[s \ {Largest(s)}], rs[Largest(s)])
    BY <2>1, <1>5, <1>7, <1>8 DEF IsFold
  <2>3. \A s \in SUBSET (1 .. n) : f[s] = F(f)[s]
    BY <2>2, <1>7 DEF IsFold
  <2>4. f = [s \in SUBSET (1 .. n) |-> f[s]]
    BY <1>7 DEF IsFold
  <2> QED BY <2>3, <2>4
<1>10. iter = F(iter)
  BY <1>9
<1> HIDE DEF iter
<1> DEFINE S == {k \in Nat : k <= n => iter[1 .. k] \in Seq(Endpoint) /\ Begins(have, iter[1 .. k])}
<1>11. 0 \in S
  <2>1. 1 .. 0 = {} /\ {} \in SUBSET (1 .. n)
    OBVIOUS
  <2>2. iter[{}] = have
    BY <2>1, <1>10
  <2>3. Begins(have, have)
    BY DEF Begins
  <2>4. iter[1 .. 0] = have
    BY <2>1, <2>2
  <2> HIDE DEF iter
  <2> QED BY <2>3, <2>4
<1>12. ASSUME NEW k \in S PROVE k + 1 \in S
  <2> SUFFICES ASSUME k + 1 <= n PROVE iter[1 .. k + 1] \in Seq(Endpoint) /\ Begins(have, iter[1 .. k + 1])
    BY <1>12
  <2>1. k \in Nat /\ k <= n /\ iter[1 .. k] \in Seq(Endpoint) /\ Begins(have, iter[1 .. k])
    BY <1>1, <1>12
  <2>2. 1 .. k + 1 \in SUBSET (1 .. n) /\ Largest(1 .. k + 1) = k + 1 /\ (1 .. k + 1) \ {k + 1} = 1 .. k /\ 1 .. k + 1 # {}
    BY <1>1, <2>1, LargestOf
  <2>3. iter[1 .. k + 1] = Added(have, iter[1 .. k], rs[k + 1])
    BY <1>10, <2>2
  <2> DEFINE a == iter[1 .. k]  b == iter[1 .. k + 1]
  <2>4. rs[k + 1] \in RangeRecords
    BY <1>1, <2>1
  <2>5. b \in Seq(Endpoint) /\ Begins(a, b) /\ a \in Seq(Endpoint) /\ Begins(have, a)
    BY <2>1, <2>3, <2>4, AddedTyped
  <2> HIDE DEF a, b
  <2>6. Begins(have, b)
    BY <2>5 DEF Begins
  <2> QED BY <2>5, <2>6 DEF a, b
<1> HIDE DEF S
<1>13. S = Nat
  <2>1. S \in SUBSET Nat
    BY DEF S
  <2> QED BY <1>11, <1>12, <2>1, NatInd
<1>14. iter[1 .. n] \in Seq(Endpoint) /\ Begins(have, iter[1 .. n])
  BY <1>1, <1>13 DEF S
<1> QED BY <1>2, <1>14

\* Candidates are endpoints, no more than allowed, and the custom ones come first.
LEMMA CandidatesTyped ==
    ASSUME NEW have \in Customs, NEW rs \in RangeLists
    PROVE  /\ Masque!generateCandidates(have, rs) \in Seq(Endpoint)
           /\ Len(Masque!generateCandidates(have, rs)) <= MaxEndpoints
           /\ CustomsFirst(have, Masque!generateCandidates(have, rs))
<1> DEFINE use == IF rs = <<>> /\ have = <<>> THEN CHOOSE d \in RangeLists : d # <<>> ELSE rs
           all == Masque!expanded(have, use)
           cs == IF Len(all) > MaxEndpoints THEN SubSeq(all, 1, MaxEndpoints) ELSE all
<1>1. MaxEndpoints \in Nat /\ have \in Seq(Endpoint)
  BY ScanAssumption DEF Endpoint
<1>2. use \in Seq(RangeRecords)
  <2>1. (CHOOSE d \in RangeLists : d # <<>>) \in RangeLists
    BY ScanAssumption
  <2>2. use \in RangeLists
    BY <2>1
  <2> HIDE DEF use
  <2> QED BY <2>2, ScanAssumption DEF RangeRecords
<1>3. Masque!generateCandidates(have, rs) = cs
  BY DEF Masque!generateCandidates
<1> HIDE DEF use
<1>4. all \in Seq(Endpoint) /\ Begins(have, all)
  BY <1>1, <1>2, ExpandedTyped
<1> HIDE DEF all
<1>5. Len(all) \in Nat /\ Len(have) \in Nat
  BY <1>1, <1>4
<1>6. CASE Len(all) > MaxEndpoints
  <2>1. cs = SubSeq(all, 1, MaxEndpoints)
    BY <1>6
  <2>2. cs \in Seq(Endpoint) /\ Len(cs) = MaxEndpoints /\ \A k \in 1 .. MaxEndpoints : cs[k] = all[k]
    BY <2>1, <1>1, <1>4, <1>5, <1>6, SubSeqProperties
  <2> HIDE DEF cs
  <2>3. CustomsFirst(have, cs)
    BY <2>2, <1>1, <1>4, <1>5 DEF CustomsFirst, Begins
  <2> QED BY <2>2, <2>3, <1>1, <1>3
<1>7. CASE ~(Len(all) > MaxEndpoints)
  <2>1. cs = all /\ Len(all) <= MaxEndpoints
    BY <1>7, <1>5, <1>1
  <2>2. CustomsFirst(have, all)
    BY <1>4, <1>5 DEF CustomsFirst, Begins
  <2> HIDE DEF cs
  <2> QED BY <2>1, <2>2, <1>3, <1>4
<1> QED BY <1>6, <1>7

\* A worker's states differ, and say what it holds.
LEMMA WorkerStatesDiffer ==
    /\ Masque!Idle # Masque!Done /\ Masque!Idle.at = "idle" /\ Masque!Done.at = "done"
    /\ \A e : /\ Testing(e) \notin {Masque!Idle, Masque!Done} /\ Sending(e) \notin {Masque!Idle, Masque!Done}
              /\ Testing(e).at = "testing" /\ Sending(e).at = "sending"
    /\ \A e, d : /\ Testing(e) # Sending(d) /\ (Testing(e) = Testing(d) <=> e = d)
                 /\ (Sending(e) = Sending(d) <=> e = d) /\ (ResultOf(e) = ResultOf(d) <=> e = d)
<1>1. Masque!Idle # Masque!Done /\ Masque!Idle.at = "idle" /\ Masque!Done.at = "done"
  BY DEF Masque!Idle, Masque!Done
<1>2. ASSUME NEW e
      PROVE  /\ Testing(e) \notin {Masque!Idle, Masque!Done} /\ Sending(e) \notin {Masque!Idle, Masque!Done}
             /\ Testing(e).at = "testing" /\ Sending(e).at = "sending"
  <2>1. Testing(e).at = "testing" /\ Sending(e).at = "sending"
    BY DEF Testing, Sending
  <2> QED BY <2>1, <1>1
<1>3. ASSUME NEW e, NEW d
      PROVE  /\ Testing(e) # Sending(d) /\ (Testing(e) = Testing(d) <=> e = d)
             /\ (Sending(e) = Sending(d) <=> e = d) /\ (ResultOf(e) = ResultOf(d) <=> e = d)
  <2>1. Testing(e).endpoint = e /\ Testing(d).endpoint = d /\ Sending(e).endpoint = e /\ Sending(d).endpoint = d
        /\ ResultOf(e).endpoint = e /\ ResultOf(d).endpoint = d
    BY DEF Testing, Sending, ResultOf
  <2>2. Testing(e) # Sending(d)
    BY <1>2
  <2> QED BY <2>1, <2>2
<1> QED BY <1>1, <1>2, <1>3

\* Which state a worker is in, by its place.
LEMMA WorkerIs ==
    ASSUME NEW v \in WorkerStates
    PROVE  /\ v.at = "testing" => \E e \in Endpoint : v = Testing(e)
           /\ v.at = "sending" => \E e \in Endpoint : v = Sending(e)
           /\ v.at = "idle" => v = Masque!Idle
  BY WorkerStatesDiffer DEF WorkerStates

\* Amounts are numbers.
LEMMA AmountsTyped ==
    ASSUME MasqueTypes, NEW e
    PROVE  /\ Occurs(jobs, e) \in Nat /\ HoldersOf(worker, {Testing(e), Sending(e)}) \in Nat
           /\ Occurs(resultChan, ResultOf(e)) \in Nat /\ Occurs(recorded, ResultOf(e)) \in Nat
           /\ Sent(candidates, nextJob, e) \in Nat
<1>1. \A S : \A s \in Seq(S) : \A y : Occurs(s, y) \in Nat
  <2> SUFFICES ASSUME NEW S, NEW s \in Seq(S), NEW y PROVE Occurs(s, y) \in Nat
    OBVIOUS
  <2>1. IsFiniteSet(1 .. Len(s))
    BY FS_Interval
  <2>2. IsFiniteSet({k \in 1 .. Len(s) : s[k] = y})
    BY <2>1, FS_Subset
  <2> QED BY <2>2, FS_CardinalityType DEF Occurs
<1>2. IsFiniteSet({w \in MasqueWorkers : worker[w] \in {Testing(e), Sending(e)}})
  BY ScanAssumption, FS_Subset
<1>3. HoldersOf(worker, {Testing(e), Sending(e)}) \in Nat
  BY <1>2, FS_CardinalityType DEF HoldersOf
<1>4. nextJob \in Nat \ {0}
  BY DEF MasqueTypes
<1>5. Sent(candidates, nextJob, e) \in Nat
  BY <1>4, SentNext
<1> QED BY <1>1, <1>3, <1>5 DEF MasqueTypes

\* The start: nothing was sent and nothing is held.
LEMMA MasqueInit == Masque!Init => MasqueInv
<1> SUFFICES ASSUME Masque!Init PROVE MasqueInv
  OBVIOUS
<1>1. PICK ranges \in RangeLists : candidates = Masque!generateCandidates(custom, ranges)
  BY DEF Masque!Init
<1>2. /\ custom \in Customs /\ jobs = <<>> /\ jobsClosed = FALSE /\ nextJob = 1
      /\ worker = [w \in MasqueWorkers |-> Masque!Idle]
      /\ resultChan = <<>> /\ resultsClosed = FALSE /\ recorded = <<>>
      /\ stopClosed = 0 /\ stopFlag = FALSE /\ ctxDone = FALSE
      /\ stopper = [t \in Stoppers |-> "out"] /\ scanned = (candidates = <<>>)
  BY DEF Masque!Init
<1>3. candidates \in Seq(Endpoint) /\ Len(candidates) <= MaxEndpoints /\ CustomsFirst(custom, candidates)
  BY <1>1, <1>2, CandidatesTyped
<1>4. custom \in Seq(Endpoint)
  BY <1>2, ScanAssumption DEF Endpoint
<1>5. Cardinality(MasqueWorkers) \in Nat
  BY ScanAssumption, FS_CardinalityType
<1>6. worker \in [MasqueWorkers -> WorkerStates]
  BY <1>2 DEF WorkerStates
<1>7. Len(jobs) = 0 /\ Len(resultChan) = 0 /\ jobs \in Seq(Endpoint) /\ resultChan \in Seq(Results) /\ recorded \in Seq(Results)
  BY <1>2
<1>8. nextJob \in 1 .. Len(candidates) + 1 /\ Len(jobs) <= nextJob - 1 /\ Len(resultChan) <= Cardinality(MasqueWorkers)
  BY <1>2, <1>3, <1>5, <1>7
<1>9. jobsClosed \in BOOLEAN /\ resultsClosed \in BOOLEAN /\ scanned \in BOOLEAN
  BY <1>2
<1>10. MasqueTypes
  BY <1>3, <1>4, <1>6, <1>7, <1>8, <1>9 DEF MasqueTypes
<1>11. StopIsOnce
  BY <1>2 DEF StopIsOnce
<1>12. ASSUME NEW e \in Endpoint PROVE Accounted(jobs, worker, resultChan, recorded, e) = Sent(candidates, nextJob, e)
  <2>1. {k \in 1 .. Len(jobs) : jobs[k] = e} = {} /\ {k \in 1 .. Len(resultChan) : resultChan[k] = ResultOf(e)} = {}
        /\ {k \in 1 .. Len(recorded) : recorded[k] = ResultOf(e)} = {} /\ {k \in 1 .. nextJob - 1 : candidates[k] = e} = {}
    BY <1>2
  <2>2. {w \in MasqueWorkers : worker[w] \in {Testing(e), Sending(e)}} = {}
    BY <1>2, WorkerStatesDiffer
  <2>3. Cardinality({}) = 0
    BY FS_EmptySet
  <2>4. Occurs(jobs, e) = 0 /\ Occurs(resultChan, ResultOf(e)) = 0 /\ Occurs(recorded, ResultOf(e)) = 0
        /\ HoldersOf(worker, {Testing(e), Sending(e)}) = 0 /\ Sent(candidates, nextJob, e) = 0
    BY <2>1, <2>2, <2>3 DEF Occurs, HoldersOf, Sent
  <2> QED BY <2>4 DEF Accounted
<1>13. ~\E w \in MasqueWorkers : worker[w] = Masque!Done
  BY <1>2, WorkerStatesDiffer
<1>14. NoneIsLost
  BY <1>2, <1>12, <1>13 DEF NoneIsLost
<1> QED BY <1>10, <1>11, <1>14 DEF MasqueInv

\* Steps that touch neither a channel nor a worker's candidate only have to keep the stop.
LEMMA MasqueStutter == MasqueInv /\ UNCHANGED masqueVars => MasqueInv'
  BY DEF MasqueInv, MasqueTypes, StopIsOnce, NoneIsLost, masqueVars, Masque!Stopped

\* Every step of the scanner keeps its invariant.
LEMMA MasqueStep == MasqueInv /\ Masque!Next => MasqueInv'
<1> SUFFICES ASSUME MasqueInv, Masque!Next PROVE MasqueInv'
  OBVIOUS
<1>0. MasqueTypes /\ StopIsOnce /\ NoneIsLost
  BY DEF MasqueInv
<1>1. ASSUME UNCHANGED <<stopClosed, stopFlag, stopper, ctxDone>> PROVE StopIsOnce' /\ (Masque!Stopped' <=> Masque!Stopped)
  BY <1>0, <1>1 DEF StopIsOnce, Masque!Stopped
<1>2. \A e : /\ Occurs(jobs, e) \in Nat /\ HoldersOf(worker, {Testing(e), Sending(e)}) \in Nat
             /\ Occurs(resultChan, ResultOf(e)) \in Nat /\ Occurs(recorded, ResultOf(e)) \in Nat
             /\ Sent(candidates, nextJob, e) \in Nat
  BY <1>0, AmountsTyped
<1>3. worker = [x \in MasqueWorkers |-> worker[x]] /\ \A x \in MasqueWorkers : worker[x] \in WorkerStates
  BY <1>0 DEF MasqueTypes
<1>4. Len(candidates) \in Nat /\ nextJob \in Nat \ {0} /\ Len(jobs) \in Nat /\ Len(resultChan) \in Nat
      /\ Cardinality(MasqueWorkers) \in Nat
  <2>1. Cardinality(MasqueWorkers) \in Nat
    BY ScanAssumption, FS_CardinalityType
  <2> QED BY <2>1, <1>0 DEF MasqueTypes
<1>5. ASSUME Masque!SendJob PROVE MasqueInv'
  <2>1. /\ ~scanned /\ ~jobsClosed /\ nextJob <= Len(candidates)
        /\ jobs' = Append(jobs, candidates[nextJob]) \/ (Masque!Stopped /\ jobs' = jobs)
        /\ nextJob' = nextJob + 1
        /\ UNCHANGED <<custom, early, candidates, jobsClosed, worker, resultChan, resultsClosed, recorded, stopClosed,
                       stopFlag, stopper, ctxDone, scanned>>
    BY <1>5 DEF Masque!SendJob, Masque!config, Masque!stops
  <2>2. StopIsOnce' /\ (Masque!Stopped' <=> Masque!Stopped)
    BY <1>1, <2>1
  <2>3. candidates[nextJob] \in Endpoint
    BY <2>1, <1>0, <1>4 DEF MasqueTypes
  <2>4. jobs' \in Seq(Endpoint) /\ Len(jobs') <= Len(jobs) + 1 /\ Len(jobs') \in Nat
    <3>1. CASE jobs' = Append(jobs, candidates[nextJob])
      BY <3>1, <2>3, <1>0, AppendProperties DEF MasqueTypes
    <3>2. CASE jobs' = jobs
      BY <3>2, <1>0, <1>4 DEF MasqueTypes
    <3> QED BY <2>1, <3>1, <3>2
  <2>5. Len(jobs) <= nextJob - 1
    BY <1>0 DEF MasqueTypes
  <2>6. nextJob' \in 1 .. Len(candidates') + 1 /\ Len(jobs') <= nextJob' - 1
    BY <2>1, <2>4, <2>5, <1>4
  <2>7. MasqueTypes'
    BY <2>1, <2>4, <2>6, <1>0 DEF MasqueTypes
  <2>8. ASSUME ~Masque!Stopped, NEW e \in Endpoint
        PROVE  Accounted(jobs', worker, resultChan, recorded, e) = Sent(candidates, nextJob', e)
    <3> DEFINE d == IF candidates[nextJob] = e THEN 1 ELSE 0
    <3>1. jobs' = Append(jobs, candidates[nextJob]) /\ jobs \in Seq(Endpoint)
      BY <2>1, <2>8, <1>0 DEF MasqueTypes
    <3>2. Occurs(jobs', e) = Occurs(jobs, e) + d
      BY <3>1, <2>3, OccursAppend
    <3>3. Sent(candidates, nextJob', e) = Sent(candidates, nextJob, e) + d
      BY <2>1, <1>4, SentNext
    <3>4. Accounted(jobs, worker, resultChan, recorded, e) = Sent(candidates, nextJob, e)
      BY <2>8, <1>0 DEF NoneIsLost
    <3>5. d \in Nat
      OBVIOUS
    <3> HIDE DEF d
    <3> QED BY <3>2, <3>3, <3>4, <3>5, <1>2 DEF Accounted
  <2>9. NoneIsLost'
    BY <2>1, <2>2, <2>8, <1>0 DEF NoneIsLost
  <2> QED BY <2>2, <2>7, <2>9 DEF MasqueInv
<1>6. ASSUME Masque!CloseJobs PROVE MasqueInv'
  <2>1. /\ nextJob > Len(candidates) /\ jobsClosed' = TRUE
        /\ UNCHANGED <<custom, early, candidates, jobs, nextJob, worker, resultChan, resultsClosed, recorded, stopClosed,
                       stopFlag, stopper, ctxDone, scanned>>
    BY <1>6 DEF Masque!CloseJobs, Masque!config, Masque!stops
  <2>2. StopIsOnce' /\ (Masque!Stopped' <=> Masque!Stopped)
    BY <1>1, <2>1
  <2>3. nextJob = Len(candidates) + 1
    <3>1. nextJob \in 1 .. Len(candidates) + 1
      BY <1>0 DEF MasqueTypes
    <3> QED BY <3>1, <2>1, <1>4
  <2>4. MasqueTypes'
    BY <2>1, <1>0 DEF MasqueTypes
  <2>5. NoneIsLost'
    BY <2>1, <2>2, <2>3, <1>0 DEF NoneIsLost
  <2> QED BY <2>2, <2>4, <2>5 DEF MasqueInv
<1>7. ASSUME NEW w \in MasqueWorkers, Masque!TakeJob(w) PROVE MasqueInv'
  <2>1. /\ worker[w] = Masque!Idle /\ jobs # <<>> /\ jobs' = Tail(jobs)
        /\ worker' = [worker EXCEPT ![w] = Testing(Head(jobs))]
        /\ UNCHANGED <<custom, early, candidates, jobsClosed, nextJob, resultChan, resultsClosed, recorded, stopClosed,
                       stopFlag, stopper, ctxDone, scanned>>
    BY <1>7 DEF Masque!TakeJob, Masque!config, Masque!stops, Testing
  <2>2. StopIsOnce' /\ (Masque!Stopped' <=> Masque!Stopped)
    BY <1>1, <2>1
  <2>3. jobs \in Seq(Endpoint)
    BY <1>0 DEF MasqueTypes
  <2>4. jobs' \in Seq(Endpoint) /\ Head(jobs) \in Endpoint /\ Len(jobs') = Len(jobs) - 1
    BY <2>1, <2>3, OccursTail
  <2>5. Testing(Head(jobs)) \in WorkerStates
    BY <2>4 DEF WorkerStates
  <2>6. worker' \in [MasqueWorkers -> WorkerStates]
    BY <2>1, <2>5, <1>3
  <2>7. Len(jobs') <= nextJob' - 1
    BY <2>1, <2>4, <1>0, <1>4 DEF MasqueTypes
  <2>8. MasqueTypes'
    BY <2>1, <2>4, <2>6, <2>7, <1>0 DEF MasqueTypes
  <2>9. ASSUME NEW e \in Endpoint
        PROVE  Accounted(jobs', worker', resultChan, recorded, e) = Accounted(jobs, worker, resultChan, recorded, e)
    <3> DEFINE d == IF Head(jobs) = e THEN 1 ELSE 0
               Q == {Testing(e), Sending(e)}
    <3>1. Occurs(jobs, e) = Occurs(jobs', e) + d /\ Occurs(jobs', e) \in Nat
      BY <2>1, <2>3, OccursTail
    <3>2. (Testing(Head(jobs)) \in Q <=> Head(jobs) = e) /\ worker[w] \notin Q
      BY <2>1, WorkerStatesDiffer
    <3> DEFINE v == Testing(Head(jobs))
    <3>3. HoldersOf(worker', Q) = HoldersOf(worker, Q) + (IF v \in Q THEN 1 ELSE 0) - (IF worker[w] \in Q THEN 1 ELSE 0)
      <4> HIDE DEF Q, v
      <4>1. worker' = [worker EXCEPT ![w] = v]
        BY <2>1 DEF v
      <4> QED BY <4>1, <1>3, HoldersMoved
    <3>4. HoldersOf(worker, Q) \in Nat
      BY <1>2
    <3>5. Accounted(jobs', worker', resultChan, recorded, e) = Occurs(jobs', e) + HoldersOf(worker', Q) + Occurs(resultChan, ResultOf(e)) + Occurs(recorded, ResultOf(e))
          /\ Accounted(jobs, worker, resultChan, recorded, e) = Occurs(jobs, e) + HoldersOf(worker, Q) + Occurs(resultChan, ResultOf(e)) + Occurs(recorded, ResultOf(e))
      BY DEF Accounted
    <3>6. d \in Nat
      OBVIOUS
    <3> HIDE DEF Q
    <3>7. HoldersOf(worker', Q) = HoldersOf(worker, Q) + d
      BY <3>2, <3>3, <3>4
    <3> HIDE DEF d
    <3> QED BY <3>1, <3>4, <3>5, <3>6, <3>7, <1>2
  <2>10. worker[w] # Masque!Done
    BY <2>1, WorkerStatesDiffer
  <2>11. (\E x \in MasqueWorkers : worker'[x] = Masque!Done) => \E x \in MasqueWorkers : worker[x] = Masque!Done
    BY <2>1, <1>3, WorkerStatesDiffer
  <2>12. NoneIsLost'
    BY <2>1, <2>2, <2>9, <2>10, <2>11, <1>0 DEF NoneIsLost
  <2> QED BY <2>2, <2>8, <2>12 DEF MasqueInv
<1>8. ASSUME NEW w \in MasqueWorkers, Masque!Tested(w) PROVE MasqueInv'
  <2>1. /\ worker[w].at = "testing"
        /\ worker' = [worker EXCEPT ![w] = Sending(worker[w].endpoint)]
        /\ UNCHANGED <<custom, early, candidates, jobs, jobsClosed, nextJob, resultChan, resultsClosed, recorded, stopClosed,
                       stopFlag, stopper, ctxDone, scanned>>
    BY <1>8 DEF Masque!Tested, Masque!testEndpoint, Masque!config, Masque!chans, Masque!stops, Sending
  <2>2. StopIsOnce' /\ (Masque!Stopped' <=> Masque!Stopped)
    BY <1>1, <2>1
  <2>3. PICK c \in Endpoint : worker[w] = Testing(c)
    BY <2>1, <1>3, WorkerIs
  <2>4. worker' = [worker EXCEPT ![w] = Sending(c)] /\ Sending(c) \in WorkerStates
    BY <2>1, <2>3 DEF Testing, WorkerStates
  <2>5. worker' \in [MasqueWorkers -> WorkerStates]
    BY <2>4, <1>3
  <2>6. MasqueTypes'
    BY <2>1, <2>5, <1>0 DEF MasqueTypes
  <2>7. ASSUME NEW e \in Endpoint
        PROVE  Accounted(jobs, worker', resultChan, recorded, e) = Accounted(jobs, worker, resultChan, recorded, e)
    <3> DEFINE Q == {Testing(e), Sending(e)}
    <3>1. (Sending(c) \in Q <=> c = e) /\ (worker[w] \in Q <=> c = e)
      BY <2>3, WorkerStatesDiffer
    <3> HIDE DEF Q
    <3>2. HoldersOf(worker', Q) = HoldersOf(worker, Q) + (IF Sending(c) \in Q THEN 1 ELSE 0) - (IF worker[w] \in Q THEN 1 ELSE 0)
      BY <2>4, <1>3, HoldersMoved
    <3>3. HoldersOf(worker, Q) \in Nat
      BY <1>2 DEF Q
    <3>4. HoldersOf(worker', Q) = HoldersOf(worker, Q)
      BY <3>1, <3>2, <3>3
    <3> QED BY <3>4 DEF Accounted, Q
  <2>8. worker[w] # Masque!Done
    BY <2>3, WorkerStatesDiffer
  <2>9. (\E x \in MasqueWorkers : worker'[x] = Masque!Done) => \E x \in MasqueWorkers : worker[x] = Masque!Done
    BY <2>4, <1>3, WorkerStatesDiffer
  <2>10. NoneIsLost'
    BY <2>1, <2>2, <2>7, <2>8, <2>9, <1>0 DEF NoneIsLost
  <2> QED BY <2>2, <2>6, <2>10 DEF MasqueInv
<1>9. ASSUME NEW w \in MasqueWorkers, Masque!SendResult(w) PROVE MasqueInv'
  <2>0. \A X : Masque!Cardinality(X) = Cardinality(X)
    BY DEF Masque!Cardinality, Cardinality
  <2>1. /\ worker[w].at = "sending" /\ Len(resultChan) < Cardinality(MasqueWorkers)
        /\ resultChan' = Append(resultChan, [endpoint |-> worker[w].endpoint, success |-> worker[w].success])
        /\ worker' = [worker EXCEPT ![w] = Masque!Idle]
        /\ UNCHANGED <<custom, early, candidates, jobs, jobsClosed, nextJob, resultsClosed, recorded, stopClosed,
                       stopFlag, stopper, ctxDone, scanned>>
    BY <1>9, <2>0 DEF Masque!SendResult, Masque!config, Masque!stops
  <2>2. StopIsOnce' /\ (Masque!Stopped' <=> Masque!Stopped)
    BY <1>1, <2>1
  <2>3. PICK c \in Endpoint : worker[w] = Sending(c)
    BY <2>1, <1>3, WorkerIs
  <2>4. resultChan' = Append(resultChan, ResultOf(c)) /\ ResultOf(c) \in Results
    <3>1. worker[w].endpoint = c /\ worker[w].success = FALSE
      BY <2>3 DEF Sending
    <3>2. resultChan' = Append(resultChan, [endpoint |-> c, success |-> FALSE])
      BY <2>1, <3>1
    <3> QED BY <3>2 DEF ResultOf, Results
  <2>5. resultChan \in Seq(Results)
    BY <1>0 DEF MasqueTypes
  <2>6. resultChan' \in Seq(Results) /\ Len(resultChan') = Len(resultChan) + 1
    BY <2>4, <2>5, AppendProperties
  <2>7. worker' \in [MasqueWorkers -> WorkerStates]
    BY <2>1, <1>3 DEF WorkerStates
  <2>8. Len(resultChan') <= Cardinality(MasqueWorkers)
    BY <2>1, <2>6, <1>4
  <2>9. MasqueTypes'
    BY <2>1, <2>6, <2>7, <2>8, <1>0 DEF MasqueTypes
  <2>10. ASSUME NEW e \in Endpoint
        PROVE  Accounted(jobs, worker', resultChan', recorded, e) = Accounted(jobs, worker, resultChan, recorded, e)
    <3> DEFINE Q == {Testing(e), Sending(e)}
               d == IF c = e THEN 1 ELSE 0
    <3>1. Masque!Idle \notin Q /\ (worker[w] \in Q <=> c = e) /\ (ResultOf(c) = ResultOf(e) <=> c = e)
      BY <2>3, WorkerStatesDiffer
    <3> HIDE DEF Q
    <3>2. HoldersOf(worker', Q) = HoldersOf(worker, Q) + (IF Masque!Idle \in Q THEN 1 ELSE 0) - (IF worker[w] \in Q THEN 1 ELSE 0)
      <4>1. worker' = [worker EXCEPT ![w] = Masque!Idle]
        BY <2>1
      <4> QED BY <4>1, <1>3, HoldersMoved
    <3>3. HoldersOf(worker, Q) \in Nat
      BY <1>2 DEF Q
    <3>4. HoldersOf(worker', Q) = HoldersOf(worker, Q) - d
      BY <3>1, <3>2, <3>3
    <3>5. Occurs(resultChan', ResultOf(e)) = Occurs(resultChan, ResultOf(e)) + (IF ResultOf(c) = ResultOf(e) THEN 1 ELSE 0)
      BY <2>4, <2>5, OccursAppend
    <3>6. Occurs(resultChan', ResultOf(e)) = Occurs(resultChan, ResultOf(e)) + d
      BY <3>1, <3>5
    <3>7. d \in Nat
      OBVIOUS
    <3> HIDE DEF d
    <3>8. Accounted(jobs, worker', resultChan', recorded, e) = Occurs(jobs, e) + HoldersOf(worker', Q) + Occurs(resultChan', ResultOf(e)) + Occurs(recorded, ResultOf(e))
          /\ Accounted(jobs, worker, resultChan, recorded, e) = Occurs(jobs, e) + HoldersOf(worker, Q) + Occurs(resultChan, ResultOf(e)) + Occurs(recorded, ResultOf(e))
      BY DEF Accounted, Q
    <3> DEFINE a == Occurs(jobs, e)  h == HoldersOf(worker, Q)  h2 == HoldersOf(worker', Q)
               r == Occurs(resultChan, ResultOf(e))  r2 == Occurs(resultChan', ResultOf(e))
               z == Occurs(recorded, ResultOf(e))
    <3>9. a \in Nat /\ h \in Nat /\ r \in Nat /\ z \in Nat /\ h2 = h - d /\ r2 = r + d
      BY <3>3, <3>4, <3>6, <1>2
    <3>10. Accounted(jobs, worker', resultChan', recorded, e) = a + h2 + r2 + z /\ Accounted(jobs, worker, resultChan, recorded, e) = a + h + r + z
      BY <3>8
    <3> HIDE DEF a, h, h2, r, r2, z
    <3>11. a + h2 + r2 + z = a + h + r + z
      BY <3>7, <3>9
    <3> QED BY <3>10, <3>11
  <2>11. worker[w] # Masque!Done
    BY <2>3, WorkerStatesDiffer
  <2>12. (\E x \in MasqueWorkers : worker'[x] = Masque!Done) => \E x \in MasqueWorkers : worker[x] = Masque!Done
    BY <2>1, <1>3, WorkerStatesDiffer
  <2>13. ~(scanned /\ candidates # <<>>)
    BY <2>11, <1>0 DEF NoneIsLost
  <2>14. NoneIsLost'
    BY <2>1, <2>2, <2>10, <2>11, <2>12, <2>13, <1>0 DEF NoneIsLost
  <2> QED BY <2>2, <2>9, <2>14 DEF MasqueInv
<1>10. ASSUME NEW w \in MasqueWorkers, Masque!WorkerLeaves(w) PROVE MasqueInv'
  <2>1. /\ \/ worker[w] = Masque!Idle /\ jobsClosed /\ jobs = <<>>
           \/ worker[w].at \in {"idle", "sending"} /\ Masque!Stopped
        /\ worker' = [worker EXCEPT ![w] = Masque!Done]
        /\ UNCHANGED <<custom, early, candidates, jobs, jobsClosed, nextJob, resultChan, resultsClosed, recorded, stopClosed,
                       stopFlag, stopper, ctxDone, scanned>>
    BY <1>10 DEF Masque!WorkerLeaves, Masque!config, Masque!chans, Masque!stops
  <2>2. StopIsOnce' /\ (Masque!Stopped' <=> Masque!Stopped)
    BY <1>1, <2>1
  <2>3. worker' \in [MasqueWorkers -> WorkerStates]
    BY <2>1, <1>3 DEF WorkerStates
  <2>4. MasqueTypes'
    BY <2>1, <2>3, <1>0 DEF MasqueTypes
  <2>5. ASSUME ~Masque!Stopped, NEW e \in Endpoint
        PROVE  Accounted(jobs, worker', resultChan, recorded, e) = Accounted(jobs, worker, resultChan, recorded, e)
    <3> DEFINE Q == {Testing(e), Sending(e)}
    <3>1. Masque!Done \notin Q /\ worker[w] \notin Q
      BY <2>1, <2>5, WorkerStatesDiffer
    <3> HIDE DEF Q
    <3>2. HoldersOf(worker', Q) = HoldersOf(worker, Q) + (IF Masque!Done \in Q THEN 1 ELSE 0) - (IF worker[w] \in Q THEN 1 ELSE 0)
      BY <2>1, <1>3, HoldersMoved
    <3>3. HoldersOf(worker, Q) \in Nat
      BY <1>2 DEF Q
    <3>4. HoldersOf(worker', Q) = HoldersOf(worker, Q)
      BY <3>1, <3>2, <3>3
    <3> QED BY <3>4 DEF Accounted, Q
  <2>6. ~Masque!Stopped => jobsClosed /\ jobs = <<>>
    BY <2>1
  <2>7. resultsClosed => \A x \in MasqueWorkers : worker'[x] = Masque!Done
    BY <2>1, <1>3, <1>0 DEF NoneIsLost
  <2>8. NoneIsLost'
    BY <2>1, <2>2, <2>5, <2>6, <2>7, <1>0 DEF NoneIsLost
  <2> QED BY <2>2, <2>4, <2>8 DEF MasqueInv
<1>11. ASSUME Masque!CloseResults PROVE MasqueInv'
  <2>1. /\ resultsClosed' = TRUE /\ \A w \in MasqueWorkers : worker[w] = Masque!Done
        /\ UNCHANGED <<custom, early, candidates, jobs, jobsClosed, nextJob, worker, resultChan, recorded, stopClosed,
                       stopFlag, stopper, ctxDone, scanned>>
    BY <1>11 DEF Masque!CloseResults, Masque!config, Masque!stops
  <2>2. StopIsOnce' /\ (Masque!Stopped' <=> Masque!Stopped)
    BY <1>1, <2>1
  <2>3. MasqueTypes'
    BY <2>1, <1>0 DEF MasqueTypes
  <2>4. NoneIsLost'
    BY <2>1, <2>2, <1>0 DEF NoneIsLost
  <2> QED BY <2>2, <2>3, <2>4 DEF MasqueInv
<1>12. ASSUME Masque!Collect PROVE MasqueInv'
  <2>1. /\ ~scanned /\ resultChan # <<>> /\ recorded' = Append(recorded, Head(resultChan))
        /\ Head(resultChan).success \/ stopClosed' = stopClosed
        /\ resultChan' = Tail(resultChan)
        /\ UNCHANGED <<custom, early, candidates, jobs, jobsClosed, nextJob, worker, resultsClosed, stopFlag, stopper,
                       ctxDone, scanned>>
    BY <1>12 DEF Masque!Collect, Masque!config
  <2>2. resultChan \in Seq(Results) /\ recorded \in Seq(Results)
    BY <1>0 DEF MasqueTypes
  <2>3. resultChan' \in Seq(Results) /\ Head(resultChan) \in Results /\ Len(resultChan') = Len(resultChan) - 1
    BY <2>1, <2>2, OccursTail
  <2>4. PICK c \in Endpoint : Head(resultChan) = ResultOf(c)
    BY <2>3 DEF Results
  <2>5. ~Head(resultChan).success
    BY <2>4 DEF ResultOf
  <2>6. StopIsOnce' /\ (Masque!Stopped' <=> Masque!Stopped)
    BY <1>1, <2>1, <2>5
  <2>7. recorded' \in Seq(Results)
    BY <2>1, <2>2, <2>3, AppendProperties
  <2>8. Len(resultChan') <= Cardinality(MasqueWorkers)
    BY <2>3, <1>4, <1>0 DEF MasqueTypes
  <2>9. MasqueTypes'
    BY <2>1, <2>3, <2>7, <2>8, <1>0 DEF MasqueTypes
  <2>10. ASSUME NEW e \in Endpoint
        PROVE  Accounted(jobs, worker, resultChan', recorded', e) = Accounted(jobs, worker, resultChan, recorded, e)
    <3> DEFINE r == ResultOf(e)
               d == IF Head(resultChan) = r THEN 1 ELSE 0
    <3> HIDE DEF r
    <3>1. Occurs(resultChan, r) = Occurs(resultChan', r) + d /\ Occurs(resultChan', r) \in Nat
      BY <2>1, <2>2, OccursTail
    <3>2. Occurs(recorded', r) = Occurs(recorded, r) + d
      BY <2>1, <2>2, <2>3, OccursAppend
    <3>3. d \in Nat
      OBVIOUS
    <3> HIDE DEF d
    <3>4. Occurs(recorded, r) \in Nat
      BY <1>2 DEF r
    <3>5. Occurs(resultChan', r) + Occurs(recorded', r) = Occurs(resultChan, r) + Occurs(recorded, r)
          /\ Occurs(recorded', r) \in Nat /\ Occurs(resultChan, r) \in Nat
      BY <3>1, <3>2, <3>3, <3>4
    <3>6. Accounted(jobs, worker, resultChan', recorded', e) = Occurs(jobs, e) + HoldersOf(worker, {Testing(e), Sending(e)}) + Occurs(resultChan', r) + Occurs(recorded', r)
          /\ Accounted(jobs, worker, resultChan, recorded, e) = Occurs(jobs, e) + HoldersOf(worker, {Testing(e), Sending(e)}) + Occurs(resultChan, r) + Occurs(recorded, r)
      BY DEF Accounted, r
    <3> QED BY <3>1, <3>4, <3>5, <3>6, <1>2
  <2>11. NoneIsLost'
    BY <2>1, <2>6, <2>10, <1>0 DEF NoneIsLost
  <2> QED BY <2>6, <2>9, <2>11 DEF MasqueInv
<1>13. ASSUME Masque!ScanReturns PROVE MasqueInv'
  <2>1. /\ resultsClosed /\ resultChan = <<>> /\ scanned' = TRUE
        /\ UNCHANGED <<custom, early, candidates, jobs, jobsClosed, nextJob, worker, resultChan, resultsClosed, recorded,
                       stopClosed, stopFlag, stopper, ctxDone>>
    BY <1>13 DEF Masque!ScanReturns, Masque!config, Masque!chans, Masque!stops
  <2>2. StopIsOnce' /\ (Masque!Stopped' <=> Masque!Stopped)
    BY <1>1, <2>1
  <2>3. MasqueTypes'
    BY <2>1, <1>0 DEF MasqueTypes
  <2>4. NoneIsLost'
    BY <2>1, <2>2, <1>0 DEF NoneIsLost
  <2> QED BY <2>2, <2>3, <2>4 DEF MasqueInv
<1>14. ASSUME UNCHANGED <<custom, early, candidates, jobs, jobsClosed, nextJob, worker, resultChan, resultsClosed, recorded,
                          scanned>>, StopIsOnce', Masque!Stopped => Masque!Stopped'
       PROVE  MasqueInv'
  <2>1. MasqueTypes'
    BY <1>14, <1>0 DEF MasqueTypes
  <2>2. NoneIsLost'
    BY <1>14, <1>0 DEF NoneIsLost
  <2> QED BY <1>14, <2>1, <2>2 DEF MasqueInv
<1>15. ASSUME NEW t \in Stoppers, Masque!Stop(t) PROVE MasqueInv'
  <2>1. /\ stopper[t] = "out" /\ stopFlag' = TRUE
        /\ stopper' = [stopper EXCEPT ![t] = IF stopFlag THEN "back" ELSE "in"]
        /\ UNCHANGED <<custom, early, candidates, jobs, jobsClosed, nextJob, worker, resultChan, resultsClosed, recorded,
                       stopClosed, ctxDone, scanned>>
    BY <1>15 DEF Masque!Stop, Masque!config, Masque!chans
  <2>2. StopIsOnce'
    BY <2>1, <1>0 DEF StopIsOnce
  <2>3. Masque!Stopped => Masque!Stopped'
    BY <2>1 DEF Masque!Stopped
  <2> QED BY <2>1, <2>2, <2>3, <1>14
<1>16. ASSUME NEW t \in Stoppers, Masque!StopCloses(t) PROVE MasqueInv'
  <2>1. /\ stopper[t] = "in" /\ stopClosed' = stopClosed + 1 /\ stopper' = [stopper EXCEPT ![t] = "back"]
        /\ UNCHANGED <<custom, early, candidates, jobs, jobsClosed, nextJob, worker, resultChan, resultsClosed, recorded,
                       stopFlag, ctxDone, scanned>>
    BY <1>16 DEF Masque!StopCloses, Masque!config, Masque!chans
  <2>2. stopClosed = 0 /\ stopClosed' = 1 /\ stopFlag
    BY <2>1, <1>0 DEF StopIsOnce
  <2>3. StopIsOnce'
    BY <2>1, <2>2, <1>0 DEF StopIsOnce
  <2>4. Masque!Stopped => Masque!Stopped'
    BY <2>2 DEF Masque!Stopped
  <2> QED BY <2>1, <2>3, <2>4, <1>14
<1>17. ASSUME Masque!CancelScan PROVE MasqueInv'
  <2>1. /\ ctxDone' = TRUE
        /\ UNCHANGED <<custom, early, candidates, jobs, jobsClosed, nextJob, worker, resultChan, resultsClosed, recorded,
                       stopClosed, stopFlag, stopper, scanned>>
    BY <1>17 DEF Masque!CancelScan, Masque!config, Masque!chans
  <2>2. StopIsOnce'
    BY <2>1, <1>0 DEF StopIsOnce
  <2>3. Masque!Stopped'
    BY <2>1 DEF Masque!Stopped
  <2> QED BY <2>1, <2>2, <2>3, <1>14
<1> QED BY <1>5, <1>6, <1>7, <1>8, <1>9, <1>10, <1>11, <1>12, <1>13, <1>15, <1>16, <1>17
        DEF Masque!Next, Masque!MasqueSystem

\* The invariant yields the properties of the scanner.
LEMMA MasqueMeans ==
    MasqueInv => Masque!TypeOK /\ Masque!StopClosesOnce /\ Masque!EveryCandidateHasAResult
<1> SUFFICES ASSUME MasqueInv PROVE Masque!TypeOK /\ Masque!StopClosesOnce /\ Masque!EveryCandidateHasAResult
  OBVIOUS
<1>0. MasqueTypes /\ StopIsOnce /\ NoneIsLost
  BY DEF MasqueInv
<1>1. \A X : Masque!Cardinality(X) = Cardinality(X)
  BY DEF Masque!Cardinality, Cardinality
<1>2. Len(candidates) \in Nat /\ Len(jobs) \in Nat /\ nextJob \in 1 .. Len(candidates) + 1 /\ Len(jobs) <= nextJob - 1
      /\ Len(custom) \in Nat
  BY <1>0 DEF MasqueTypes
<1>3. Masque!TypeOK
  <2>1. Len(jobs) <= Len(candidates)
    BY <1>2
  <2>2. stopClosed \in Nat
    BY <1>0 DEF StopIsOnce
  <2> QED BY <2>1, <2>2, <1>0, <1>1 DEF Masque!TypeOK, MasqueTypes
<1>4. Masque!StopClosesOnce
  BY <1>0 DEF StopIsOnce, Masque!StopClosesOnce
<1>5. ASSUME scanned, ~Masque!Stopped, NEW c \in Masque!Range(candidates)
      PROVE  Cardinality({k \in DOMAIN recorded : recorded[k].endpoint = c}) = Cardinality({k \in DOMAIN candidates : candidates[k] = c})
  <2>1. candidates # <<>> /\ c \in Endpoint
    BY <1>5, <1>0 DEF Masque!Range, MasqueTypes
  <2>2. resultsClosed /\ resultChan = <<>>
    BY <2>1, <1>5, <1>0 DEF NoneIsLost
  <2>3. \A w \in MasqueWorkers : worker[w] = Masque!Done
    BY <2>2, <1>0 DEF NoneIsLost
  <2>4. jobsClosed /\ jobs = <<>>
    BY <2>3, <1>5, <1>0, ScanAssumption DEF NoneIsLost
  <2>5. nextJob = Len(candidates) + 1
    BY <2>4, <1>0 DEF NoneIsLost
  <2>6. Cardinality({}) = 0
    BY FS_EmptySet
  <2>7. Occurs(jobs, c) = 0 /\ Occurs(resultChan, ResultOf(c)) = 0
    <3>1. {k \in 1 .. Len(jobs) : jobs[k] = c} = {} /\ {k \in 1 .. Len(resultChan) : resultChan[k] = ResultOf(c)} = {}
      BY <2>2, <2>4
    <3> QED BY <3>1, <2>6 DEF Occurs
  <2>8. HoldersOf(worker, {Testing(c), Sending(c)}) = 0
    <3>1. {w \in MasqueWorkers : worker[w] \in {Testing(c), Sending(c)}} = {}
      BY <2>3, WorkerStatesDiffer
    <3> QED BY <3>1, <2>6 DEF HoldersOf
  <2>9. Occurs(recorded, ResultOf(c)) \in Nat
    BY <1>0, AmountsTyped
  <2>10. Occurs(recorded, ResultOf(c)) = Sent(candidates, nextJob, c)
    <3>1. Accounted(jobs, worker, resultChan, recorded, c) = Sent(candidates, nextJob, c)
      BY <2>1, <1>5, <1>0 DEF NoneIsLost
    <3>2. Accounted(jobs, worker, resultChan, recorded, c) = Occurs(recorded, ResultOf(c))
      BY <2>7, <2>8, <2>9 DEF Accounted
    <3> QED BY <3>1, <3>2
  <2>11. {k \in DOMAIN recorded : recorded[k].endpoint = c} = {k \in 1 .. Len(recorded) : recorded[k] = ResultOf(c)}
    <3>1. recorded \in Seq(Results)
      BY <1>0 DEF MasqueTypes
    <3>2. \A r \in Results : r.endpoint = c <=> r = ResultOf(c)
      BY DEF Results, ResultOf
    <3> QED BY <3>1, <3>2
  <2>12. {k \in DOMAIN candidates : candidates[k] = c} = {k \in 1 .. nextJob - 1 : candidates[k] = c}
    <3>1. nextJob - 1 = Len(candidates)
      BY <2>5, <1>2
    <3>2. DOMAIN candidates = 1 .. Len(candidates)
      BY <1>0 DEF MasqueTypes
    <3> QED BY <3>1, <3>2
  <2> QED BY <2>10, <2>11, <2>12 DEF Occurs, Sent
<1>6. ASSUME NEW k \in DOMAIN custom, k <= MaxEndpoints PROVE custom[k] \in Masque!Range(candidates)
  <2>1. k \in 1 .. Len(custom)
    BY <1>6, <1>0 DEF MasqueTypes
  <2>2. k <= Len(candidates) /\ candidates[k] = custom[k]
    BY <2>1, <1>6, <1>0 DEF MasqueTypes, CustomsFirst
  <2>3. k \in DOMAIN candidates
    BY <2>1, <2>2, <1>2, <1>0 DEF MasqueTypes
  <2> QED BY <2>2, <2>3 DEF Masque!Range
<1>7. Masque!EveryCandidateHasAResult
  BY <1>1, <1>5, <1>6 DEF Masque!EveryCandidateHasAResult
<1> QED BY <1>3, <1>4, <1>7

-----------------------------------------------------------------------------
\* The generator of addresses (ipscanner/iterator/iterator.go).

\* Powers of two.
LEMMA PowerIs ==
    /\ Gen!Power \in [0 .. Width -> Nat \ {0}] /\ Gen!Power[0] = 1
    /\ \A k \in 1 .. Width : Gen!Power[k] = 2 * Gen!Power[k - 1]
<1> DEFINE A == Nat \ {0}
           G == [x \in A \X (1 .. Width) |-> 2 * x[1]]
           F(f) == [k \in 0 .. Width |-> IF k = 0 THEN 1 ELSE 2 * f[k - 1]]
           P == CHOOSE f : f = F(f)
<1>0. Width \in Nat /\ 1 \in A
  BY AddressAssumption
<1>1. G \in [A \X (1 .. Width) -> A] /\ \A n \in A, k \in 1 .. Width : G[<<n, k>>] = 2 * n
  OBVIOUS
<1>2. Gen!Power = P
  BY DEF Gen!Power
<1> HIDE DEF G, A
<1>3. PICK h : IsRecursion(h, A, 1, G, Width)
  BY <1>0, <1>1, RecursionExists
<1>4. h \in [0 .. Width -> A] /\ h[0] = 1
  BY <1>3 DEF IsRecursion
<1>5. ASSUME NEW k \in 1 .. Width PROVE h[k] = 2 * h[k - 1]
  <2>1. k - 1 \in 0 .. Width
    BY <1>0
  <2>2. h[k - 1] \in A /\ h[k] = G[<<h[k - 1], k>>]
    BY <1>3, <1>4, <2>1 DEF IsRecursion
  <2> QED BY <1>1, <2>2
<1>6. h = F(h)
  <2>1. ASSUME NEW k \in 0 .. Width PROVE h[k] = F(h)[k]
    <3>1. CASE k = 0
      BY <1>4, <3>1
    <3>2. CASE k # 0
      <4>1. k \in 1 .. Width
        BY <1>0, <3>2
      <4> QED BY <1>5, <3>2, <4>1
    <3> QED BY <3>1, <3>2
  <2>2. h = [k \in 0 .. Width |-> h[k]]
    BY <1>4
  <2> QED BY <2>1, <2>2
<1> HIDE DEF F
<1>7. P = F(P)
  BY <1>6
<1> HIDE DEF P
<1>8. /\ DOMAIN P = 0 .. Width /\ P = [k \in 0 .. Width |-> P[k]] /\ P[0] = 1
      /\ \A k \in 1 .. Width : P[k] = 2 * P[k - 1]
  BY <1>0, <1>7 DEF F
<1> DEFINE S == {k \in Nat : k <= Width => P[k] \in Nat \ {0}}
<1>9. 0 \in S
  BY <1>8
<1>10. ASSUME NEW k \in S PROVE k + 1 \in S
  <2> SUFFICES ASSUME k + 1 <= Width PROVE P[k + 1] \in Nat \ {0}
    BY <1>10
  <2>1. k + 1 \in 1 .. Width /\ (k + 1) - 1 = k /\ P[k] \in Nat \ {0}
    BY <1>0, <1>10
  <2>2. P[k + 1] = 2 * P[k]
    BY <1>8, <2>1
  <2> QED BY <2>1, <2>2
<1>11. S = Nat
  <2>1. S \in SUBSET Nat
    OBVIOUS
  <2> HIDE DEF S
  <2> QED BY <1>9, <1>10, <2>1, NatInd
<1>12. \A k \in 0 .. Width : P[k] \in Nat \ {0}
  BY <1>0, <1>11
<1> QED BY <1>2, <1>8, <1>12

Lcg == [modulus : Nat, multiplier : Nat, increment : Nat, current : Nat, seen : SUBSET Nat, steps : Nat]

\* The remainders of y are the numbers the generator l has been at.
Follows(l, y) ==
    /\ y \in [0 .. l.steps -> Nat]
    /\ l.seen = {y[i] % l.modulus : i \in 0 .. l.steps}
    /\ l.current = y[l.steps] % l.modulus

\* The sequence of a generator whose parameters passed the check.
HasSequence(l) ==
    \E b, e \in Nat : /\ l.multiplier = 4 * b + 1 /\ l.increment = 2 * e + 1
                      /\ \E y : Congruential(y, l.steps, b, e) /\ Follows(l, y)

SeenAll(l) ==
    l.modulus # 2 => Cardinality(l.seen) = (IF l.steps = l.modulus THEN l.modulus ELSE l.steps + 1)

IsLcg(l) ==
    /\ l \in Lcg /\ l.steps <= l.modulus /\ l.current \in l.seen /\ l.seen \subseteq 0 .. l.modulus - 1
    /\ \E k \in 0 .. Width : l.modulus = Gen!Power[k]
    /\ l.modulus \notin {1, 2} => HasSequence(l)
    /\ SeenAll(l)

\* A power of two that is not 1 or 2 is a multiple of four.
LEMMA FourDivides ==
    ASSUME NEW k \in 0 .. Width, Gen!Power[k] \notin {1, 2}
    PROVE  Gen!Power[k] % 4 = 0 /\ Gen!Power[k] % 2 = 0 /\ Gen!Power[k] >= 4
<1>0. Width \in Nat
  BY AddressAssumption
<1> DEFINE P == Gen!Power
<1>1. /\ P \in [0 .. Width -> Nat \ {0}] /\ P[0] = 1
      /\ \A n \in 1 .. Width : P[n] = 2 * P[n - 1]
  BY PowerIs
<1> HIDE DEF P
<1>2. k # 0 /\ k \in 1 .. Width /\ P[k] = 2 * P[k - 1]
  BY <1>0, <1>1 DEF P
<1>3. k - 1 # 0 /\ k - 1 \in 1 .. Width
  <2>1. k - 1 = 0 => P[k] = 2
    BY <1>1, <1>2
  <2> QED BY <1>0, <1>2, <2>1 DEF P
<1>4. P[k - 1] = 2 * P[(k - 1) - 1] /\ P[(k - 1) - 1] \in Nat \ {0}
  <2>1. (k - 1) - 1 \in 0 .. Width
    BY <1>0, <1>3
  <2> QED BY <1>1, <1>3, <2>1
<1> DEFINE x == P[(k - 1) - 1]
<1>5. x \in Nat \ {0} /\ P[k] = 4 * x
  BY <1>2, <1>4
<1> HIDE DEF x
<1>6. (4 * x) % 4 = 0 /\ (4 * x) % 2 = 0 /\ 4 * x >= 4
  BY <1>5
<1> QED BY <1>5, <1>6 DEF P

\* The check gives parameters of that form.
LEMMA LcgInit ==
    ASSUME NEW k \in 0 .. Width, NEW l \in Gen!NewLCG(Gen!Power[k])
    PROVE  IsLcg(l)
<1> DEFINE m == Gen!Power[k]
<1>0. m \in Nat \ {0}
  BY PowerIs
<1>1. m \notin {1, 2} => m % 4 = 0 /\ m % 2 = 0 /\ m >= 4
  BY FourDivides
<1>2. \E n \in 0 .. Width : m = Gen!Power[n]
  OBVIOUS
<1>3. l \in Gen!NewLCG(m)
  OBVIOUS
<1> HIDE DEF m
<1>4. PICK q \in (0 .. m - 1) \X (0 .. m - 1) :
        /\ Gen!checkHullDobell(m, q[1], q[2])
        /\ l = [modulus |-> m, multiplier |-> q[1], increment |-> q[2], current |-> 0, seen |-> {0}, steps |-> 0]
  BY <1>3 DEF Gen!NewLCG
<1> DEFINE a == q[1]  c == q[2]
<1>5. a \in 0 .. m - 1 /\ c \in 0 .. m - 1 /\ Gen!checkHullDobell(m, a, c)
      /\ l = [modulus |-> m, multiplier |-> a, increment |-> c, current |-> 0, seen |-> {0}, steps |-> 0]
  BY <1>4
<1> HIDE DEF a, c
<1>6. a \in Nat /\ c \in Nat
  BY <1>0, <1>5
<1>7. /\ l.modulus = m /\ l.multiplier = a /\ l.increment = c /\ l.current = 0 /\ l.seen = {0} /\ l.steps = 0
      /\ l \in Lcg
  BY <1>0, <1>5, <1>6 DEF Lcg
<1>8. ASSUME m \notin {1, 2} PROVE HasSequence(l)
  <2>1. (a - 1) % 4 = 0 /\ (c % 2 # 0 \/ m % 2 # 0)
    BY <1>0, <1>1, <1>5, <1>8 DEF Gen!checkHullDobell, Gen!RelativelyPrime
  <2>2. PICK b \in Nat : a = 4 * b + 1
    <3>1. a - 1 = 4 * ((a - 1) \div 4) /\ (a - 1) \div 4 \in Int
      BY <1>6, <2>1
    <3>2. (a - 1) \div 4 \in Nat
      BY <1>6, <3>1
    <3>3. a = 4 * ((a - 1) \div 4) + 1
      BY <1>6, <3>1
    <3> QED BY <3>2, <3>3
  <2>3. PICK e \in Nat : c = 2 * e + 1
    <3>1. c % 2 # 0
      BY <1>1, <1>8, <2>1
    <3>2. c \div 2 \in Nat /\ c = 2 * (c \div 2) + 1
      BY <1>6, <3>1
    <3> QED BY <3>2
  <2> DEFINE y == [i \in 0 .. 0 |-> 0]
  <2>4. y \in [0 .. 0 -> Nat] /\ y[0] = 0
    OBVIOUS
  <2> HIDE DEF y
  <2>5. Congruential(y, 0, b, e)
    BY <2>4 DEF Congruential
  <2>6. Follows(l, y)
    <3>1. 0 % m = 0
      BY <1>0
    <3>2. {y[i] % m : i \in 0 .. 0} = {0}
      BY <2>4, <3>1
    <3> QED BY <1>7, <2>4, <3>1, <3>2 DEF Follows
  <2> QED BY <1>7, <2>2, <2>3, <2>5, <2>6 DEF HasSequence
<1>9. SeenAll(l)
  <2>1. Cardinality({0}) = 1
    BY FS_Singleton
  <2> QED BY <1>0, <1>7, <2>1 DEF SeenAll
<1> QED BY <1>0, <1>2, <1>7, <1>8, <1>9 DEF IsLcg

\* One more element, or all of them.
LEMMA SeesOneMore ==
    ASSUME NEW m \in Nat \ {0}, NEW T \in SUBSET (0 .. m - 1), NEW x \in 0 .. m - 1, NEW n \in Nat, n < m,
           Cardinality(T) = n + 1, n + 1 # m => x \notin T
    PROVE  Cardinality(T \cup {x}) = (IF n + 1 = m THEN m ELSE n + 2)
<1> DEFINE W == 0 .. m - 1
<1>1. IsFiniteSet(W) /\ Cardinality(W) = m
  <2>1. m - 1 \in Int /\ 0 \in Int
    OBVIOUS
  <2> QED BY <2>1, FS_Interval
<1>2. IsFiniteSet(T)
  BY <1>1, FS_Subset
<1>3. CASE n + 1 = m
  <2>1. T = W
    BY <1>1, <1>3, FS_Subset
  <2>2. T \cup {x} = W
    BY <2>1
  <2> QED BY <1>1, <1>3, <2>2
<1>4. CASE n + 1 # m
  BY <1>2, <1>4, FS_AddElement
<1> QED BY <1>3, <1>4

\* The sequence goes on, with a new number until it was at all of them.
LEMMA SequenceGoesOn ==
    ASSUME NEW l \in Lcg, NEW g \in Lcg, NEW k \in 0 .. Width, l.modulus = Gen!Power[k], HasSequence(l),
           g.modulus = l.modulus, g.multiplier = l.multiplier, g.increment = l.increment,
           g.current = (l.multiplier * l.current + l.increment) % l.modulus,
           g.seen = l.seen \cup {g.current}, g.steps = l.steps + 1
    PROVE  HasSequence(g) /\ (g.steps < g.modulus => g.current \notin l.seen)
<1> DEFINE m == l.modulus  n == l.steps
<1>1. m \in Nat \ {0} /\ n \in Nat /\ g.modulus = m /\ g.steps = n + 1 /\ m = Gen!Power[k]
  BY PowerIs DEF Lcg
<1>2. PICK b \in Nat, e \in Nat :
        /\ l.multiplier = 4 * b + 1 /\ l.increment = 2 * e + 1
        /\ \E y : Congruential(y, n, b, e) /\ Follows(l, y)
  BY DEF HasSequence
<1>3. PICK y : Congruential(y, n, b, e) /\ Follows(l, y)
  BY <1>2
<1>4. y \in [0 .. n -> Nat] /\ l.seen = {y[i] % m : i \in 0 .. n} /\ l.current = y[n] % m
  BY <1>3 DEF Follows
<1> HIDE DEF m, n
<1>5. y[n] \in Nat
  BY <1>1, <1>4
<1> DEFINE v == y[n] + 4 * (b * y[n]) + 2 * e + 1
           z == [i \in 0 .. n + 1 |-> IF i = n + 1 THEN v ELSE y[i]]
<1>6. v \in Nat
  <2>1. b * y[n] \in Nat
    BY <1>5
  <2> QED BY <1>5, <2>1
<1>7. (l.multiplier * l.current + l.increment) % m = v % m
  <2>1. 2 * e + 1 \in Nat
    OBVIOUS
  <2>2. ((4 * b + 1) * (y[n] % m) + (2 * e + 1)) % m = (y[n] + 4 * (b * y[n]) + (2 * e + 1)) % m
    <3> DEFINE t == y[n]  c == 2 * e + 1
    <3>1. t \in Nat /\ c \in Nat
      BY <1>5, <2>1
    <3> HIDE DEF t, c
    <3>2. ((4 * b + 1) * (t % m) + c) % m = (t + 4 * (b * t) + c) % m
      BY <1>1, <3>1, RemainderSteps
    <3> QED BY <3>2 DEF t, c
  <2>3. y[n] + 4 * (b * y[n]) + (2 * e + 1) = v
    <3>1. b * y[n] \in Nat
      BY <1>5
    <3> QED BY <1>5, <3>1
  <2> HIDE DEF v
  <2> QED BY <1>2, <1>4, <2>2, <2>3
<1> HIDE DEF v
<1>8. z \in [0 .. n + 1 -> Nat] /\ z[n + 1] = v /\ \A i \in 0 .. n : z[i] = y[i]
  BY <1>1, <1>4, <1>6
<1> HIDE DEF z
<1>9. Congruential(z, n + 1, b, e)
  <2> SUFFICES ASSUME NEW i \in 0 .. n PROVE z[i + 1] = z[i] + 4 * (b * z[i]) + 2 * e + 1
    <3>1. 0 .. (n + 1) - 1 = 0 .. n /\ z \in [0 .. n + 1 -> Int]
      BY <1>1, <1>8
    <3> QED BY <3>1 DEF Congruential
  <2>1. CASE i = n
    BY <1>1, <1>8, <2>1 DEF v
  <2>2. CASE i # n
    <3>1. i \in 0 .. n - 1 /\ i + 1 \in 0 .. n
      BY <1>1, <2>2
    <3> QED BY <1>3, <1>8, <3>1 DEF Congruential
  <2> QED BY <2>1, <2>2
<1>10. Follows(g, z)
  <2>1. g.current = z[n + 1] % m
    BY <1>7, <1>8 DEF m
  <2>2. g.seen = {z[i] % m : i \in 0 .. n + 1}
    <3>1. \A i \in 0 .. n : i \in 0 .. n + 1
      BY <1>1
    <3>2. \A i \in 0 .. n + 1 : i \in 0 .. n \/ i = n + 1
      BY <1>1
    <3>3. n + 1 \in 0 .. n + 1
      BY <1>1
    <3>4. g.seen = {y[i] % m : i \in 0 .. n} \cup {z[n + 1] % m}
      BY <1>4, <2>1
    <3> QED BY <1>8, <3>1, <3>2, <3>3, <3>4
  <2> QED BY <1>1, <1>8, <2>1, <2>2 DEF Follows
<1>11. Congruential(z, g.steps, b, e)
  BY <1>1, <1>9
<1>12. \E w : Congruential(w, g.steps, b, e) /\ Follows(g, w)
  BY <1>10, <1>11
<1>13. HasSequence(g)
  BY <1>2, <1>12 DEF HasSequence
<1>14. ASSUME n + 1 < m, g.current \in l.seen PROVE FALSE
  <2>1. PICK i \in 0 .. n : g.current = z[i] % m
    BY <1>4, <1>8, <1>14
  <2>2. g.current = z[n + 1] % m
    BY <1>1, <1>10 DEF Follows
  <2>3. ReturnsBy(z, n + 1, m)
    <3>1. k \in Nat /\ Gen!Power[0] = 1 /\ \A x \in 1 .. k : Gen!Power[x] = 2 * Gen!Power[x - 1]
      BY PowerIs, AddressAssumption
    <3>2. n + 1 \in Nat /\ b \in Int /\ e \in Int
      BY <1>1
    <3> DEFINE P == Gen!Power  N == n + 1
    <3>3. P[0] = 1 /\ (\A x \in 1 .. k : P[x] = 2 * P[x - 1]) /\ N \in Nat /\ Congruential(z, N, b, e)
      BY <1>9, <3>1, <3>2
    <3> HIDE DEF P, N
    <3>4. ReturnsBy(z, N, P[k])
      BY <3>1, <3>2, <3>3, PowersReturn
    <3>5. ReturnsBy(z, n + 1, Gen!Power[k])
      BY <3>4 DEF P, N
    <3> QED BY <1>1, <3>5
  <2>4. i \in 0 .. n + 1 /\ n + 1 \in 0 .. n + 1 /\ n + 1 \in Nat /\ i < n + 1 /\ (n + 1) - i < m
    BY <1>1, <1>14
  <2>5. z[i] % m # z[n + 1] % m
    <3> DEFINE N == n + 1
    <3>1. z \in [0 .. N -> Nat] /\ ReturnsBy(z, N, m) /\ i \in 0 .. N /\ N \in 0 .. N /\ N \in Nat /\ i < N /\ N - i < m
      BY <1>8, <2>3, <2>4
    <3> HIDE DEF N
    <3>2. PeriodIs(z, N, m)
      BY <1>1, <3>1, RemaindersAreApart
    <3>3. z[i] % m # z[N] % m
      BY <3>1, <3>2 DEF PeriodIs
    <3> QED BY <3>3 DEF N
  <2> QED BY <2>1, <2>2, <2>5
<1> QED BY <1>1, <1>13, <1>14

\* A step of the generator.
LEMMA LcgStep == IsLcg(lcg) /\ Gen!LcgNext => IsLcg(lcg')
<1> SUFFICES ASSUME IsLcg(lcg), Gen!LcgNext PROVE IsLcg(lcg')
  OBVIOUS
<1> DEFINE l == lcg  m == lcg.modulus  n == lcg.steps
           x == (lcg.multiplier * lcg.current + lcg.increment) % lcg.modulus
           g == [lcg EXCEPT !.current = x, !.seen = @ \cup {x}, !.steps = @ + 1]
<1>1. l \in Lcg /\ n < m /\ l.seen \subseteq 0 .. m - 1
      /\ (m \notin {1, 2} => HasSequence(l)) /\ SeenAll(l) /\ l.current \in l.seen
  BY DEF IsLcg, Gen!LcgNext, Lcg
<1>2. PICK k \in 0 .. Width : m = Gen!Power[k]
  BY DEF IsLcg
<1>3. m \in Nat \ {0} /\ n \in Nat
  BY <1>1, <1>2, PowerIs DEF Lcg
<1>4. x \in 0 .. m - 1
  <2>1. l.multiplier \in Nat /\ l.current \in Nat /\ l.increment \in Nat
    BY <1>1 DEF Lcg
  <2>2. l.multiplier * l.current \in Nat
    BY <2>1
  <2> DEFINE t == l.multiplier * l.current + l.increment
  <2>3. t \in Nat
    BY <2>1, <2>2
  <2>4. x = t % m
    OBVIOUS
  <2> HIDE DEF l, m, t, x
  <2> QED BY <1>3, <2>3, <2>4, Division
<1>5. lcg' = g
  BY DEF Gen!LcgNext
<1> HIDE DEF x
<1>6. x \in Nat
  BY <1>3, <1>4
<1>7. /\ g \in Lcg /\ g.modulus = m /\ g.multiplier = l.multiplier /\ g.increment = l.increment
      /\ g.current = x /\ g.seen = l.seen \cup {x} /\ g.steps = n + 1
  <2>1. l.seen \cup {x} \in SUBSET Nat /\ n + 1 \in Nat
    BY <1>1, <1>3, <1>6 DEF Lcg
  <2>2. lcg \in Lcg
    BY <1>1
  <2> QED BY <1>6, <2>1, <2>2 DEF Lcg
<1> HIDE DEF g
<1>8. ASSUME m \notin {1, 2} PROVE HasSequence(g) /\ (n + 1 < m => x \notin l.seen)
  <2> HIDE DEF m, n, l
  <2>1. l.modulus = Gen!Power[k] /\ g.modulus = l.modulus /\ g.steps = l.steps + 1
        /\ g.current = (l.multiplier * l.current + l.increment) % l.modulus /\ g.seen = l.seen \cup {g.current}
    BY <1>2, <1>7 DEF m, n, l, x
  <2>2. l \in Lcg /\ HasSequence(l)
    BY <1>1, <1>8
  <2> QED BY <1>7, <2>1, <2>2, SequenceGoesOn
<1>9. SeenAll(g)
  <2> SUFFICES ASSUME m # 2 PROVE Cardinality(g.seen) = (IF n + 1 = m THEN m ELSE n + 2)
    BY <1>3, <1>7 DEF SeenAll
  <2>1. Cardinality(l.seen) = n + 1
    BY <1>1, <1>3 DEF SeenAll
  <2>2. n + 1 # m => x \notin l.seen
    BY <1>1, <1>3, <1>8
  <2>3. l.seen \in SUBSET (0 .. m - 1)
    BY <1>1
  <2> DEFINE T == l.seen
  <2> HIDE DEF T, m, n
  <2> QED BY <1>1, <1>3, <1>4, <1>7, <2>1, <2>2, <2>3, SeesOneMore DEF T
<1>10. g.steps <= g.modulus /\ g.current \in g.seen /\ g.seen \subseteq 0 .. g.modulus - 1
  BY <1>1, <1>3, <1>4, <1>7
<1>11. IsLcg(g)
  BY <1>2, <1>7, <1>8, <1>9, <1>10 DEF IsLcg
<1> QED BY <1>5, <1>11

-----------------------------------------------------------------------------
\* The walk over a range.

\* A power is the product of two whose exponents make its own.
LEMMA PowerOfSum ==
    ASSUME NEW i \in Nat, NEW j \in Nat, i + j <= Width
    PROVE  Gen!Power[i + j] = Gen!Power[i] * Gen!Power[j]
<1> DEFINE P == Gen!Power
           S == {k \in Nat : i + k <= Width => P[i + k] = P[i] * P[k]}
<1>0. Width \in Nat
  BY AddressAssumption
<1>1. P \in [0 .. Width -> Nat \ {0}] /\ P[0] = 1 /\ \A k \in 1 .. Width : P[k] = 2 * P[k - 1]
  BY PowerIs
<1> HIDE DEF P
<1>2. i \in 0 .. Width /\ P[i] \in Nat
  BY <1>0, <1>1
<1>3. 0 \in S
  <2>1. i + 0 = i
    OBVIOUS
  <2> QED BY <1>1, <1>2, <2>1
<1>4. ASSUME NEW k \in S PROVE k + 1 \in S
  <2> SUFFICES ASSUME i + (k + 1) <= Width PROVE P[i + (k + 1)] = P[i] * P[k + 1]
    BY <1>4
  <2>1. /\ k \in Nat /\ i + (k + 1) \in 1 .. Width /\ k + 1 \in 1 .. Width /\ k \in 0 .. Width
        /\ (i + (k + 1)) - 1 = i + k /\ (k + 1) - 1 = k /\ i + k <= Width
    BY <1>0, <1>4
  <2>2. P[i + (k + 1)] = 2 * P[i + k] /\ P[k + 1] = 2 * P[k] /\ P[k] \in Nat /\ P[i + k] = P[i] * P[k]
    BY <1>1, <1>4, <2>1
  <2> DEFINE a == P[i]  b == P[k]
  <2>3. a \in Nat /\ b \in Nat
    BY <1>2, <2>2
  <2>4. P[i + (k + 1)] = 2 * (a * b) /\ P[k + 1] = 2 * b
    BY <2>2
  <2> HIDE DEF a, b
  <2>5. 2 * (a * b) = a * (2 * b)
    BY <2>3
  <2> QED BY <2>4, <2>5 DEF a
<1> HIDE DEF S
<1>5. S = Nat
  <2>1. S \in SUBSET Nat
    BY DEF S
  <2> QED BY <1>3, <1>4, <2>1, NatInd
<1>6. j \in S
  BY <1>5
<1> QED BY <1>6 DEF S, P

Ranges == [family : {"v4", "v6"}, start : 0 .. Gen!Space - 1, bits : 0 .. Width]

\* A range is made of subnets of one size.
RangeSize == Gen!ipRangeSize(range.bits)
SubnetSize == IF Gen!Whole THEN RangeSize ELSE Gen!Block
Subnets == IF Gen!Whole THEN 1 ELSE Gen!Power[Gen!SubnetBits - range.bits]

LEMMA RangeIs ==
    ASSUME range \in Ranges
    PROVE  /\ RangeSize \in Nat \ {0} /\ SubnetSize \in Nat \ {0} /\ Subnets \in Nat \ {0} /\ Gen!Block \in Nat \ {0}
           /\ RangeSize = SubnetSize * Subnets /\ SubnetSize <= Gen!Block
           /\ SubnetSize = (IF RangeSize < Gen!Block THEN RangeSize ELSE Gen!Block)
           /\ RangeSize \div SubnetSize = Subnets
<1> DEFINE P == Gen!Power  B == Gen!Block  bits == range.bits  R == RangeSize
<1>0. Width \in Nat /\ Host \in 0 .. Width /\ Host \in Nat /\ bits \in 0 .. Width /\ bits \in Nat
  BY AddressAssumption DEF Ranges
<1>1. P \in [0 .. Width -> Nat \ {0}] /\ P[0] = 1
  BY PowerIs
<1>2. \A i, j \in Nat : i + j <= Width => P[i + j] = P[i] * P[j]
  BY PowerOfSum
<1>3. B = P[Host] /\ R = P[Width - bits] /\ (Gen!Whole <=> bits >= Width - Host)
  BY DEF Gen!Block, RangeSize, Gen!ipRangeSize, Gen!Whole, Gen!SubnetBits
<1> HIDE DEF P
<1>4. Width - bits \in 0 .. Width /\ B \in Nat \ {0} /\ R \in Nat \ {0}
  BY <1>0, <1>1, <1>3
<1>5. CASE Gen!Whole
  <2> DEFINE q == P[Host - (Width - bits)]
  <2>1. Host - (Width - bits) \in 0 .. Width
    BY <1>0, <1>3, <1>5
  <2>2. q \in Nat \ {0} /\ B = R * q
    <3>1. Width - bits \in Nat /\ Host - (Width - bits) \in Nat /\ (Width - bits) + (Host - (Width - bits)) = Host /\ Host <= Width
      BY <1>0, <1>4, <2>1
    <3> QED BY <1>1, <1>2, <1>3, <2>1, <3>1
  <2> HIDE DEF q, B, R
  <2>3. R <= B
    BY <1>4, <2>2
  <2>4. SubnetSize = R /\ Subnets = 1
    BY <1>5 DEF SubnetSize, Subnets, R
  <2>5. R = R * 1 /\ R \div R = 1
    BY <1>4
  <2> QED BY <1>4, <2>3, <2>4, <2>5 DEF R, B
<1>6. CASE ~Gen!Whole
  <2> DEFINE q == P[Gen!SubnetBits - bits]
  <2>1. Gen!SubnetBits - bits \in 0 .. Width /\ Gen!SubnetBits - bits = (Width - bits) - Host
    BY <1>0, <1>3, <1>6 DEF Gen!SubnetBits
  <2>2. q \in Nat \ {0} /\ R = B * q
    <3>1. Gen!SubnetBits - bits \in Nat /\ Host + (Gen!SubnetBits - bits) = Width - bits /\ Width - bits <= Width
      BY <1>0, <2>1
    <3> QED BY <1>0, <1>1, <1>2, <1>3, <2>1, <3>1
  <2>3. SubnetSize = B /\ Subnets = q
    BY <1>6 DEF SubnetSize, Subnets, P
  <2> HIDE DEF q, B, R
  <2>4. R >= B
    BY <1>4, <2>2
  <2>5. R \div B = q
    <3>1. 0 \in 0 .. (B - 1) /\ q \in Nat /\ B * q + 0 = B * q
      BY <1>4, <2>2
    <3>2. (B * q + 0) \div B = q
      BY <1>4, <3>1, PartsOfSum
    <3> QED BY <2>2, <3>1, <3>2
  <2> QED BY <1>4, <2>2, <2>3, <2>4, <2>5 DEF R, B
<1> QED BY <1>5, <1>6

\* A range that is written with its first address starts there and ends in the space.
LEMMA PrefixIs ==
    ASSUME range \in Ranges, Gen!Masked(range)
    PROVE  /\ Gen!Prefix(range) = range.start .. range.start + RangeSize - 1
           /\ range.start + RangeSize <= Gen!Space /\ Gen!Space \in Nat
<1> DEFINE P == Gen!Power  bits == range.bits  R == RangeSize  s == range.start  q == range.start \div RangeSize
<1>0. Width \in Nat /\ bits \in Nat /\ bits <= Width /\ R \in Nat \ {0} /\ Width - bits \in Nat /\ (Width - bits) + bits = Width
  BY AddressAssumption, RangeIs DEF Ranges
<1>1. P[Width] = R * P[bits] /\ Gen!Space = P[Width]
  BY <1>0, PowerOfSum DEF RangeSize, Gen!ipRangeSize, Gen!Space
<1>2. P[bits] \in Nat /\ Gen!Space \in Nat
  BY <1>0, PowerIs, AddressAssumption DEF Gen!Space
<1>3. s \in Nat /\ s < Gen!Space
  BY <1>2 DEF Ranges
<1>4. s % R = 0 /\ Gen!Prefix(range) = q * R .. q * R + R - 1
  BY DEF Gen!Masked, Gen!Prefix, RangeSize
<1> HIDE DEF R, s, P
<1>5. s = R * q /\ q \in Nat
  <2>1. s \div R \in Nat /\ s = R * (s \div R) + (s % R) /\ R * (s \div R) \in Nat
    BY <1>0, <1>3, Division
  <2> QED BY <1>4, <2>1 DEF R, s
<1> HIDE DEF q
<1>6. q * R = R * q
  BY <1>0, <1>5
<1>7. R * q + R <= R * P[bits]
  <2>1. ~(P[bits] <= q)
    <3> SUFFICES ASSUME P[bits] <= q PROVE FALSE
      OBVIOUS
    <3> DEFINE b == P[bits]
    <3>1. R * b <= R * q /\ R * b \in Nat /\ R * q \in Nat
      <4> HIDE DEF b
      <4>1. b \in Nat /\ b <= q
        BY <1>2 DEF b
      <4> QED BY <1>0, <1>5, <4>1
    <3> QED BY <1>1, <1>3, <1>5, <3>1
  <2>2. q < P[bits] /\ q \in Int /\ P[bits] \in Int
    BY <1>2, <1>5, <2>1
  <2> QED BY <1>0, <2>2, Multiples
<1>8. s + R <= Gen!Space
  BY <1>1, <1>5, <1>7
<1> QED BY <1>2, <1>4, <1>5, <1>6, <1>8 DEF R, s

Sample == [ip : Nat, subnet : Nat]

GenTypes ==
    /\ range \in Ranges /\ bucket \in Nat /\ current \in [start : Nat, size : {0, SubnetSize}]
    /\ seg \in Nat /\ drawn \in Nat /\ misses \in Nat /\ ips \in Seq(Sample)
    /\ genAt \in {"subnet", "segment", "done", "panicked"}
    /\ seg <= Gen!Count

\* The walk has a subnet in hand from the first it draws.
HasSubnet == genAt = "segment" \/ drawn > 0 => drawn > 0 /\ current.size = SubnetSize

\* Where the first n of c segments end.
EndOf(size, c, n) == IF n = c THEN size ELSE n * (size \div c)

\* The current subnet is in the range, and so is what was drawn.
InRange ==
    /\ genAt # "panicked"
    /\ drawn > 0 => current.start >= range.start /\ current.start + SubnetSize <= range.start + RangeSize
    /\ \A k \in 1 .. Len(ips) : ips[k].ip \in range.start .. range.start + RangeSize - 1

\* An IPv4 range is walked upwards: samples come in order, below the segment the walk
\* is at, and each segment so far has given a sample or was given up.
Ascending == \A j, k \in 1 .. Len(ips) : j < k => ips[j].ip < ips[k].ip

Upwards ==
    /\ drawn = 0 => ips = <<>> /\ misses = 0
    /\ genAt \in {"subnet", "segment"} /\ drawn > 0 =>
          /\ current.start = range.start + (drawn - 1) * SubnetSize /\ drawn <= Subnets
          /\ \A k \in 1 .. Len(ips) : ips[k].ip < current.start + EndOf(current.size, Gen!Count, seg)
          /\ Len(ips) + misses = (drawn - 1) * Gen!Count + seg
    /\ genAt = "subnet" /\ drawn > 0 => seg = Gen!Count
    /\ genAt = "done" => Len(ips) + misses = Subnets * (IF SubnetSize < bucket THEN SubnetSize ELSE bucket)

RangeInv ==
    /\ GenTypes /\ HasSubnet
    /\ Gen!Masked(range) => InRange /\ (range.family = "v4" => Ascending /\ Upwards)

GenInv == RangeInv /\ IsLcg(lcg)

LEMMA GenInit == Gen!Init => GenInv
<1> SUFFICES ASSUME Gen!Init PROVE GenInv
  OBVIOUS
<1>1. PICK f \in {"v4", "v6"}, s \in Starts, b \in 0 .. Width : range = Gen!newIPRange(f, s, b)
  BY DEF Gen!Init
<1>2. range \in Ranges
  BY <1>1, AddressAssumption DEF Ranges, Gen!newIPRange
<1>3. /\ bucket \in Nat /\ current = [start |-> range.start, size |-> 0] /\ seg = 0 /\ drawn = 0 /\ ips = <<>>
      /\ misses = 0 /\ genAt = "subnet"
  BY AddressAssumption DEF Gen!Init
<1>4. range.start \in Nat
  BY <1>2, PowerIs, AddressAssumption DEF Ranges, Gen!Space
<1>5. Gen!Count = 0
  BY <1>3 DEF Gen!Count
<1>6. GenTypes
  <2>1. ips \in Seq(Sample)
    BY <1>3
  <2> QED BY <1>2, <1>3, <1>4, <1>5, <2>1 DEF GenTypes
<1>7. HasSubnet /\ InRange /\ Ascending /\ Upwards
  <2>1. Len(ips) = 0
    BY <1>3
  <2> QED BY <1>3, <2>1 DEF HasSubnet, InRange, Ascending, Upwards
<1>8. IsLcg(lcg)
  <2>1. lcg \in Gen!NewLCG(IF Gen!ipRangeSize(range.bits) \in Moduli THEN Gen!ipRangeSize(range.bits) ELSE 1)
    BY DEF Gen!Init
  <2>2. Width - range.bits \in 0 .. Width /\ 0 \in 0 .. Width /\ Gen!Power[0] = 1
    BY <1>2, AddressAssumption, PowerIs DEF Ranges
  <2>3. lcg \in Gen!NewLCG(Gen!Power[Width - range.bits]) \/ lcg \in Gen!NewLCG(Gen!Power[0])
    BY <2>1, <2>2 DEF Gen!ipRangeSize
  <2> QED BY <2>2, <2>3, LcgInit
<1> QED BY <1>6, <1>7, <1>8 DEF GenInv, RangeInv

\* What does not change during the walk.
LEMMA RangeStays ==
    ASSUME UNCHANGED <<range, bucket>>
    PROVE  /\ RangeSize' = RangeSize /\ SubnetSize' = SubnetSize /\ Subnets' = Subnets
           /\ Gen!Masked(range)' = Gen!Masked(range)
  BY DEF RangeSize, SubnetSize, Subnets, Gen!Masked, Gen!Whole, Gen!ipRangeSize, Gen!SubnetBits, Gen!Block, Gen!Power

LEMMA RangeStutter == RangeInv /\ UNCHANGED <<range, bucket, current, seg, drawn, ips, misses, genAt>> => RangeInv'
<1> SUFFICES ASSUME RangeInv, UNCHANGED <<range, bucket, current, seg, drawn, ips, misses, genAt>> PROVE RangeInv'
  OBVIOUS
<1>1. /\ RangeSize' = RangeSize /\ SubnetSize' = SubnetSize /\ Subnets' = Subnets
      /\ Gen!Masked(range)' = Gen!Masked(range)
  BY RangeStays
<1>2. Gen!Count' = Gen!Count
  BY DEF Gen!Count
<1>3. GenTypes' /\ HasSubnet'
  BY <1>1, <1>2 DEF RangeInv, GenTypes, HasSubnet
<1>4. (InRange => InRange') /\ (Ascending => Ascending')
  BY <1>1 DEF InRange, Ascending
<1>5. Upwards => Upwards'
  BY <1>1, <1>2 DEF Upwards, EndOf
<1> QED BY <1>1, <1>3, <1>4, <1>5 DEF RangeInv

\* A subnet is taken in hand.
LEMMA TakesSubnet ==
    ASSUME RangeInv, genAt = "subnet", NEW s \in Nat, Gen!Sampling(s, SubnetSize), drawn' = drawn + 1,
           UNCHANGED <<range, bucket, ips, misses>>,
           Gen!Masked(range) => s >= range.start /\ s + SubnetSize <= range.start + RangeSize,
           Gen!Masked(range) /\ range.family = "v4" => s = range.start + drawn * SubnetSize /\ drawn < Subnets
    PROVE  RangeInv'
<1>0. /\ GenTypes /\ range \in Ranges /\ current' = [start |-> s, size |-> SubnetSize] /\ seg' = 0 /\ genAt' = "segment"
      /\ drawn \in Nat /\ bucket \in Nat
  BY DEF RangeInv, GenTypes, Gen!Sampling
<1>1. /\ RangeSize' = RangeSize /\ SubnetSize' = SubnetSize /\ Subnets' = Subnets
      /\ Gen!Masked(range)' = Gen!Masked(range)
  BY RangeStays
<1>2. SubnetSize \in Nat \ {0} /\ Subnets \in Nat \ {0} /\ RangeSize \in Nat
  BY <1>0, RangeIs
<1>3. Gen!Count' = (IF SubnetSize < bucket THEN SubnetSize ELSE bucket) /\ Gen!Count' \in Nat
  BY <1>0, <1>2 DEF Gen!Count
<1>4. GenTypes' /\ HasSubnet'
  BY <1>0, <1>1, <1>2, <1>3 DEF GenTypes, HasSubnet
<1>5. ASSUME Gen!Masked(range) PROVE InRange'
  BY <1>0, <1>1, <1>5 DEF RangeInv, InRange
<1>6. ASSUME Gen!Masked(range), range.family = "v4" PROVE Ascending' /\ Upwards'
  <2>1. Ascending' /\ Upwards
    BY <1>6 DEF RangeInv, Ascending
  <2>2. current'.start = range'.start + (drawn' - 1) * SubnetSize' /\ drawn' <= Subnets' /\ drawn' > 0
    <3>1. (drawn + 1) - 1 = drawn
      BY <1>0
    <3> QED BY <1>0, <1>1, <1>2, <1>6, <3>1
  <2>3. EndOf(current.size, Gen!Count, seg)' >= 0 /\ EndOf(current.size, Gen!Count, seg)' \in Int
    <3>1. 0 * (SubnetSize \div Gen!Count') = 0 \/ Gen!Count' = 0
      <4> DEFINE c == Gen!Count'  z == SubnetSize
      <4>1. c \in Nat /\ z \in Nat
        BY <1>2, <1>3
      <4> HIDE DEF c, z
      <4>2. c # 0 => z \div c \in Nat
        BY <4>1, Division
      <4>3. c # 0 => 0 * (z \div c) = 0
        BY <4>2
      <4> QED BY <4>3 DEF c, z
    <3> QED BY <1>0, <1>2, <1>3, <3>1 DEF EndOf
  <2>4. range.start \in Nat /\ drawn * SubnetSize \in Nat /\ (drawn > 0 => (drawn - 1) * SubnetSize \in Int /\ drawn * SubnetSize = (drawn - 1) * SubnetSize + SubnetSize)
    <3>1. range.start \in Nat
      BY <1>0, PowerIs, AddressAssumption DEF Ranges, Gen!Space
    <3> QED BY <1>0, <1>2, <3>1, Product
  <2>5. ASSUME NEW k \in 1 .. Len(ips) PROVE ips[k].ip < s
    <3>1. drawn > 0
      BY <1>0, <2>1, <2>5 DEF Upwards
    <3>2. current.size = SubnetSize /\ seg = Gen!Count /\ current.start = range.start + (drawn - 1) * SubnetSize
      BY <1>0, <2>1, <3>1 DEF Upwards, RangeInv, HasSubnet
    <3>3. ips[k].ip < current.start + SubnetSize
      BY <2>1, <3>1, <3>2 DEF Upwards, EndOf
    <3>4. s = current.start + SubnetSize
      BY <1>2, <1>6, <2>4, <3>1, <3>2
    <3> QED BY <3>3, <3>4
  <2>6. \A k \in 1 .. Len(ips) : ips[k].ip \in Nat
    <3>1. ips \in Seq(Sample)
      BY <1>0 DEF GenTypes
    <3>2. \A k \in 1 .. Len(ips) : ips[k] \in Sample
      BY <3>1, ElementOfSeq
    <3> QED BY <3>2 DEF Sample
  <2>7. \A k \in 1 .. Len(ips') : ips'[k].ip < current'.start + EndOf(current.size, Gen!Count, seg)'
    BY <1>0, <2>3, <2>5, <2>6
  <2>8. Len(ips') + misses' = (drawn' - 1) * Gen!Count' + seg'
    <3>1. CASE drawn = 0
      <4>1. 0 * Gen!Count' = 0 /\ drawn' - 1 = 0
        BY <1>0, <1>3, <3>1
      <4> QED BY <1>0, <2>1, <3>1, <4>1 DEF Upwards
    <3>2. CASE drawn > 0
      <4> DEFINE C == Gen!Count
      <4>1. C = Gen!Count' /\ C \in Nat
        BY <1>0, <1>3, <3>2 DEF Gen!Count, RangeInv, HasSubnet
      <4>2. Len(ips) + misses = (drawn - 1) * C + C
        BY <1>0, <2>1, <3>2 DEF Upwards
      <4> HIDE DEF C
      <4>3. (drawn - 1) * C + C = drawn * C /\ (drawn + 1) - 1 = drawn /\ drawn * C \in Int
        BY <1>0, <4>1, Product
      <4> QED BY <1>0, <4>1, <4>2, <4>3
    <3> QED BY <1>0, <3>1, <3>2
  <2>9. Upwards'
    BY <1>0, <2>2, <2>7, <2>8 DEF Upwards
  <2> QED BY <2>1, <2>9
<1> QED BY <1>1, <1>4, <1>5, <1>6 DEF RangeInv

\* The walk is over: every subnet has had its segments.
LEMMA WalkEnds ==
    ASSUME RangeInv, genAt = "subnet", genAt' = "done", drawn' >= drawn, drawn' \in Nat,
           UNCHANGED <<range, bucket, current, seg, ips, misses>>, drawn' > 0 => drawn > 0,
           Gen!Masked(range) /\ range.family = "v4" => drawn = Subnets
    PROVE  RangeInv'
<1>0. /\ GenTypes /\ range \in Ranges /\ drawn \in Nat /\ bucket \in Nat
  BY DEF RangeInv, GenTypes
<1>1. /\ RangeSize' = RangeSize /\ SubnetSize' = SubnetSize /\ Subnets' = Subnets
      /\ Gen!Masked(range)' = Gen!Masked(range)
  BY RangeStays
<1>2. SubnetSize \in Nat \ {0} /\ Subnets \in Nat \ {0} /\ RangeSize \in Nat
  BY <1>0, RangeIs
<1>3. Gen!Count' = Gen!Count
  BY DEF Gen!Count
<1>4. GenTypes' /\ HasSubnet'
  BY <1>0, <1>1, <1>3 DEF RangeInv, GenTypes, HasSubnet
<1>5. ASSUME Gen!Masked(range) PROVE InRange'
  BY <1>0, <1>1, <1>5 DEF RangeInv, InRange
<1>6. ASSUME Gen!Masked(range), range.family = "v4" PROVE Ascending' /\ Upwards'
  <2>1. Ascending' /\ Upwards /\ drawn = Subnets /\ drawn > 0 /\ current.size = SubnetSize
    BY <1>0, <1>2, <1>6 DEF RangeInv, Ascending, HasSubnet
  <2> DEFINE C == Gen!Count
  <2>2. C = (IF SubnetSize < bucket THEN SubnetSize ELSE bucket) /\ C \in Nat
    BY <1>0, <1>2, <2>1 DEF Gen!Count
  <2>3. Len(ips) + misses = (drawn - 1) * C + C
    BY <2>1 DEF Upwards
  <2> HIDE DEF C
  <2>4. (drawn - 1) * C + C = drawn * C
    BY <1>0, <2>2, Product
  <2>5. Len(ips) + misses = Subnets * (IF SubnetSize < bucket THEN SubnetSize ELSE bucket)
    BY <2>1, <2>2, <2>3, <2>4
  <2>6. Upwards'
    BY <1>0, <1>1, <2>1, <2>5 DEF Upwards
  <2> QED BY <2>1, <2>6
<1> QED BY <1>1, <1>4, <1>5, <1>6 DEF RangeInv

\* The three ways to the next subnet.
LEMMA SubnetStep == RangeInv /\ (Gen!SmallRange \/ Gen!Subnet4 \/ Gen!Subnet6) => RangeInv'
<1> SUFFICES ASSUME RangeInv, Gen!SmallRange \/ Gen!Subnet4 \/ Gen!Subnet6 PROVE RangeInv'
  OBVIOUS
<1> DEFINE S == SubnetSize  Q == Subnets  R == RangeSize  s0 == range.start
<1>0. /\ GenTypes /\ range \in Ranges /\ drawn \in Nat /\ bucket \in Nat /\ current.start \in Nat /\ genAt = "subnet"
  BY DEF RangeInv, GenTypes, Gen!SmallRange, Gen!Subnet4, Gen!Subnet6
<1>1. S \in Nat \ {0} /\ Q \in Nat \ {0} /\ R \in Nat \ {0} /\ R = S * Q
  BY <1>0, RangeIs
<1>2. s0 \in Nat
  BY <1>0, PowerIs, AddressAssumption DEF Ranges, Gen!Space
<1>3. Gen!Masked(range) => Gen!Prefix(range) = s0 .. s0 + R - 1
  BY <1>0, PrefixIs
<1>4. CASE Gen!SmallRange
  <2>1. S = R /\ Q = 1 /\ UNCHANGED <<range, bucket, ips, misses>>
    BY <1>4 DEF Gen!SmallRange, SubnetSize, Subnets
  <2>2. CASE drawn = 0
    <3>1. Gen!Sampling(s0, S) /\ drawn' = drawn + 1 /\ s0 = s0 + drawn * S
      BY <1>1, <1>2, <1>4, <2>1, <2>2 DEF Gen!SmallRange, RangeSize
    <3>2. s0 >= range.start /\ s0 + SubnetSize <= range.start + RangeSize /\ drawn < Subnets
      BY <1>1, <1>2, <2>1, <2>2
    <3> DEFINE t == s0
    <3>3. t \in Nat /\ Gen!Sampling(t, SubnetSize) /\ t = range.start + drawn * SubnetSize /\ t >= range.start /\ t + SubnetSize <= range.start + RangeSize
      BY <1>2, <3>1, <3>2
    <3> HIDE DEF t
    <3> QED BY <1>0, <2>1, <3>1, <3>2, <3>3, TakesSubnet
  <2>3. CASE drawn # 0
    <3>1. genAt' = "done" /\ UNCHANGED <<current, seg, drawn>>
      BY <1>4, <2>3 DEF Gen!SmallRange
    <3>2. Gen!Masked(range) /\ range.family = "v4" => drawn = Subnets
      BY <1>0, <1>1, <2>1, <2>3 DEF RangeInv, Upwards
    <3> QED BY <1>0, <2>1, <3>1, <3>2, WalkEnds
  <2> QED BY <2>2, <2>3
<1>5. CASE Gen!Subnet4
  <2> DEFINE t == IF drawn = 0 THEN s0 ELSE current.start + Gen!Block
  <2>1. S = Gen!Block /\ UNCHANGED <<range, bucket, ips, misses>> /\ drawn' = drawn + 1 /\ range.family = "v4" /\ t \in Nat
    BY <1>0, <1>1, <1>2, <1>5 DEF Gen!Subnet4, SubnetSize
  <2>2. ASSUME Gen!Masked(range) PROVE t = s0 + drawn * S /\ drawn * S \in Nat /\ drawn <= Q
    <3>1. CASE drawn = 0
      BY <1>1, <1>2, <3>1
    <3>2. CASE drawn > 0
      <4>1. current.start = s0 + (drawn - 1) * S /\ drawn <= Q
        BY <1>0, <2>1, <2>2, <3>2 DEF RangeInv, Upwards
      <4>2. drawn * S = (drawn - 1) * S + S /\ (drawn - 1) * S \in Int /\ drawn * S \in Nat
        BY <1>0, <1>1, Product
      <4> QED BY <1>1, <1>2, <2>1, <3>2, <4>1, <4>2
    <3> QED BY <1>0, <3>1, <3>2
  <2>3. CASE t \in Gen!Prefix(range)
    <3>1. Gen!Sampling(t, SubnetSize)
      BY <1>5, <2>1, <2>3 DEF Gen!Subnet4
    <3>2. ASSUME Gen!Masked(range) PROVE drawn < Q /\ t >= s0 /\ t + S <= s0 + R
      <4>1. drawn * S < R
        BY <1>1, <1>2, <1>3, <2>2, <2>3, <3>2
      <4>2. drawn < Q
        <5> SUFFICES ASSUME drawn = Q PROVE FALSE
          BY <1>0, <1>1, <2>2, <3>2
        <5>1. Q * S = S * Q
          BY <1>1
        <5> QED BY <1>1, <4>1, <5>1
      <4>3. S * Q >= S * drawn + S /\ S * drawn = drawn * S
        <5>1. S \in Nat \ {0} /\ drawn \in Int /\ Q \in Int
          BY <1>0, <1>1
        <5> HIDE DEF S, Q
        <5> QED BY <4>2, <5>1, Multiples
      <4> QED BY <1>1, <1>2, <2>2, <3>2, <4>2, <4>3
    <3> HIDE DEF t
    <3> QED BY <1>0, <2>1, <2>2, <3>1, <3>2, TakesSubnet
  <2>4. CASE t \notin Gen!Prefix(range)
    <3>1. genAt' = "done" /\ UNCHANGED <<current, seg>>
      BY <1>5, <2>4 DEF Gen!Subnet4
    <3>2. Gen!Masked(range) => drawn = Subnets
      <4> SUFFICES ASSUME Gen!Masked(range), drawn < Q PROVE FALSE
        BY <1>0, <1>1, <2>2
      <4>1. drawn * S >= R
        BY <1>1, <1>2, <1>3, <2>2, <2>4
      <4>2. S * Q >= S * drawn + S /\ S * drawn = drawn * S
        <5>1. S \in Nat \ {0} /\ drawn \in Int /\ Q \in Int
          BY <1>0, <1>1
        <5> HIDE DEF S, Q
        <5> QED BY <5>1, Multiples
      <4> QED BY <1>1, <2>2, <4>1, <4>2
    <3>3. drawn > 0
      <4>1. drawn = 0 => s0 \notin Gen!Prefix(range)
        BY <2>4
      <4>2. s0 \in Gen!Prefix(range)
        <5> DEFINE q == s0 \div R
        <5>1. Gen!Prefix(range) = q * R .. q * R + R - 1
          BY DEF Gen!Prefix, RangeSize
        <5> HIDE DEF s0, R
        <5>2. q \in Nat /\ s0 % R \in 0 .. (R - 1) /\ R * q \in Nat /\ s0 = R * q + (s0 % R)
          BY <1>1, <1>2, Division
        <5>3. q * R = R * q
          BY <1>1, <5>2
        <5> QED BY <1>1, <1>2, <5>1, <5>2, <5>3
      <4> QED BY <1>0, <4>1, <4>2
    <3> QED BY <1>0, <2>1, <3>1, <3>2, <3>3, WalkEnds
  <2> QED BY <2>3, <2>4
<1>6. CASE Gen!Subnet6
  <2>1. S = Gen!Block /\ UNCHANGED <<range, bucket, ips, misses>> /\ range.family = "v6"
        /\ Q = Gen!Power[Gen!SubnetBits - range.bits]
    BY <1>6 DEF Gen!Subnet6, SubnetSize, Subnets
  <2>2. CASE drawn = Samples6
    <3>1. genAt' = "done" /\ UNCHANGED <<current, seg, drawn>>
      BY <1>6, <2>2 DEF Gen!Subnet6
    <3> QED BY <1>0, <2>1, <3>1, WalkEnds
  <2>3. CASE drawn # Samples6
    <3>1. PICK k \in 0 .. Q - 1 : Gen!Sampling(s0 + k * S, S) /\ drawn' = drawn + 1
      BY <1>6, <2>1, <2>3 DEF Gen!Subnet6
    <3>2. k \in Nat /\ k * S \in Nat /\ k * S + S <= R
      <4>1. k \in Nat /\ k < Q /\ Q \in Int /\ k \in Int
        BY <1>1
      <4>2. S * Q >= S * k + S /\ S * k = k * S /\ k * S \in Nat
        <5> HIDE DEF S, Q
        <5> QED BY <1>1, <4>1, Multiples
      <4> QED BY <1>1, <4>1, <4>2
    <3> DEFINE t == s0 + k * S
    <3>3. t \in Nat /\ Gen!Sampling(t, SubnetSize) /\ t >= range.start /\ t + SubnetSize <= range.start + RangeSize
      BY <1>1, <1>2, <3>1, <3>2
    <3> HIDE DEF t
    <3> QED BY <1>0, <2>1, <3>1, <3>3, TakesSubnet
  <2> QED BY <2>2, <2>3
<1> QED BY <1>4, <1>5, <1>6

\* A segment lies between its ends, in the subnet.
LEMMA SegmentIs ==
    ASSUME GenTypes, current.size \in Nat \ {0}, seg < Gen!Count, NEW offset \in Gen!Segment(seg)
    PROVE  /\ offset \in Nat /\ offset < current.size
           /\ EndOf(current.size, Gen!Count, seg) \in Nat /\ EndOf(current.size, Gen!Count, seg) <= offset
           /\ EndOf(current.size, Gen!Count, seg + 1) \in Nat /\ offset < EndOf(current.size, Gen!Count, seg + 1)
<1> DEFINE n == current.size  c == Gen!Count  i == seg  z == current.size \div Gen!Count
<1>1. n \in Nat \ {0} /\ i \in Nat /\ c \in Nat /\ i < c /\ c <= n
  BY DEF GenTypes, Gen!Count
<1>2. offset \in i * z .. (IF i = c - 1 THEN n ELSE (i + 1) * z) - 1
  BY DEF Gen!Segment
<1>3. EndOf(n, c, i) = i * z /\ EndOf(n, c, i + 1) = (IF i + 1 = c THEN n ELSE (i + 1) * z)
  BY <1>1 DEF EndOf
<1> HIDE DEF n, c, i
<1>4. z \in Nat /\ c * z <= n /\ c * z \in Nat
  <2>1. c \in Nat \ {0} /\ n \in Nat
    BY <1>1
  <2>2. n \div c \in Nat /\ n % c \in 0 .. (c - 1) /\ c * (n \div c) \in Nat /\ n = c * (n \div c) + (n % c)
    BY <2>1, Division
  <2>3. z = n \div c
    BY DEF n, c
  <2> HIDE DEF z
  <2> QED BY <1>1, <2>2, <2>3
<1> HIDE DEF z
<1>5. i * z \in Nat /\ (i + 1) * z \in Nat /\ (i + 1) * z <= c * z
  <2>1. i + 1 \in Int /\ c \in Int /\ i + 1 <= c /\ i + 1 \in Nat
    BY <1>1
  <2>2. i * z \in Nat /\ (i + 1) * z \in Nat
    BY <1>1, <1>4, <2>1, ProductNat
  <2>3. (i + 1) * z <= c * z
    <3> DEFINE j == i + 1
    <3>1. j \in Int /\ j <= c
      BY <2>1
    <3> HIDE DEF j
    <3>2. j * z <= c * z
      BY <1>4, <2>1, <3>1, ProductGrows
    <3> QED BY <3>2 DEF j
  <2> QED BY <2>2, <2>3
<1>6. i = c - 1 <=> i + 1 = c
  BY <1>1
<1>7. offset \in Nat /\ i * z <= offset /\ offset < (IF i + 1 = c THEN n ELSE (i + 1) * z) /\ offset < n
  BY <1>1, <1>2, <1>4, <1>5, <1>6
<1>8. EndOf(n, c, i) \in Nat /\ EndOf(n, c, i) <= offset /\ EndOf(n, c, i + 1) \in Nat /\ offset < EndOf(n, c, i + 1)
  BY <1>1, <1>3, <1>5, <1>7
<1> QED BY <1>7, <1>8 DEF n, c, i

LEMMA DrawStep == RangeInv /\ Gen!DrawFromSegment => RangeInv'
<1> SUFFICES ASSUME RangeInv, Gen!DrawFromSegment PROVE RangeInv'
  OBVIOUS
<1> DEFINE C == Gen!Count  n == current.size
<1>0. /\ GenTypes /\ range \in Ranges /\ HasSubnet /\ genAt = "segment" /\ seg < C /\ seg' = seg + 1 /\ drawn > 0
      /\ n = SubnetSize /\ UNCHANGED <<range, bucket, current, drawn>> /\ seg \in Nat /\ misses \in Nat /\ drawn \in Nat
      /\ ips \in Seq(Sample) /\ current.start \in Nat
  BY DEF RangeInv, GenTypes, HasSubnet, Gen!DrawFromSegment
<1>1. /\ RangeSize' = RangeSize /\ SubnetSize' = SubnetSize /\ Subnets' = Subnets
      /\ Gen!Masked(range)' = Gen!Masked(range) /\ Gen!Count' = C
  BY <1>0, RangeStays DEF Gen!Count
<1>2. SubnetSize \in Nat \ {0} /\ Subnets \in Nat \ {0} /\ RangeSize \in Nat
  BY <1>0, RangeIs
<1>3. C \in Nat /\ bucket \in Nat
  BY <1>0, <1>2 DEF Gen!Count, GenTypes
<1>4. PICK offset \in Gen!Segment(seg) :
        LET ip == current.start + offset
            past == range.family = "v6" /\ ip >= Gen!Space
        IN \/ past /\ genAt' = "panicked" /\ UNCHANGED <<ips, misses>>
           \/ /\ ~past /\ Gen!Usable(ip)
              /\ ips' = Append(ips, [ip |-> ip, subnet |-> current.start]) /\ UNCHANGED <<misses, genAt>>
           \/ ~past /\ ~Gen!Usable(ip) /\ misses' = misses + 1 /\ UNCHANGED <<ips, genAt>>
  BY DEF Gen!DrawFromSegment
<1> DEFINE ip == current.start + offset  new == [ip |-> ip, subnet |-> current.start]
           end == EndOf(n, C, seg)  after == EndOf(n, C, seg + 1)
<1>5. offset \in Nat /\ offset < n /\ end \in Nat /\ end <= offset /\ after \in Nat /\ offset < after
  BY <1>0, <1>2, SegmentIs
<1>6. ip \in Nat /\ new \in Sample /\ new.ip = ip
  BY <1>0, <1>5 DEF Sample
<1>7. \/ range.family = "v6" /\ ip >= Gen!Space /\ genAt' = "panicked" /\ UNCHANGED <<ips, misses>>
      \/ ips' = Append(ips, new) /\ UNCHANGED <<misses, genAt>>
      \/ misses' = misses + 1 /\ UNCHANGED <<ips, genAt>>
  BY <1>4
<1> HIDE DEF ip, new, end, after
<1>8. Append(ips, new) \in Seq(Sample) /\ Len(ips) \in Nat /\ Len(Append(ips, new)) = Len(ips) + 1
      /\ Append(ips, new)[Len(ips) + 1] = new /\ \A k \in 1 .. Len(ips) : Append(ips, new)[k] = ips[k]
  BY <1>0, <1>6, AppendProperties
<1>9. \A k \in 1 .. Len(ips) : ips[k].ip \in Nat
  <2>1. \A k \in 1 .. Len(ips) : ips[k] \in Sample
    BY <1>0, ElementOfSeq
  <2> QED BY <2>1 DEF Sample
<1>10. GenTypes' /\ HasSubnet'
  <2>1. seg' <= Gen!Count'
    BY <1>0, <1>1, <1>3
  <2> QED BY <1>0, <1>1, <1>3, <1>7, <1>8, <2>1 DEF GenTypes, HasSubnet
<1>11. \A k \in 1 .. Len(ips') : \/ k \in 1 .. Len(ips) /\ ips'[k] = ips[k]
                                 \/ k = Len(ips) + 1 /\ ips'[k].ip = ip
  <2> DEFINE longer == Append(ips, new)  len == Len(ips)
  <2>0. len \in Nat /\ Len(longer) = len + 1 /\ longer[len + 1] = new /\ \A k \in 1 .. len : longer[k] = ips[k]
    BY <1>8
  <2>1. ips' = longer \/ ips' = ips
    BY <1>7
  <2> HIDE DEF longer, len
  <2>2. ASSUME ips' = longer
        PROVE  Len(ips') = len + 1 /\ ips'[len + 1].ip = ip /\ \A k \in 1 .. len : ips'[k] = ips[k]
    BY <1>6, <2>0, <2>2
  <2>3. \A k \in 1 .. len + 1 : k \in 1 .. len \/ k = len + 1
    BY <2>0
  <2>4. CASE ips' = longer
    BY <2>0, <2>2, <2>3, <2>4 DEF len
  <2>5. CASE ips' = ips
    BY <2>5
  <2> QED BY <2>1, <2>4, <2>5
<1>12. ASSUME Gen!Masked(range) PROVE InRange'
  <2>1. InRange /\ current.start >= range.start /\ current.start + SubnetSize <= range.start + RangeSize
    BY <1>0, <1>12 DEF RangeInv, InRange
  <2>2. range.start \in Nat
    BY <1>0, PowerIs, AddressAssumption DEF Ranges, Gen!Space
  <2>3. ip \in range.start .. range.start + RangeSize - 1
    BY <1>0, <1>2, <1>5, <2>1, <2>2 DEF ip
  <2>4. range.start + RangeSize <= Gen!Space /\ Gen!Space \in Nat
    BY <1>0, <1>12, PrefixIs
  <2>5. genAt' # "panicked"
    BY <1>0, <1>2, <1>7, <2>2, <2>3, <2>4
  <2>6. \A k \in 1 .. Len(ips') : ips'[k].ip \in range.start .. range.start + RangeSize - 1
    BY <1>11, <2>1, <2>3 DEF InRange
  <2> QED BY <1>0, <1>1, <2>1, <2>5, <2>6 DEF InRange
<1>13. ASSUME Gen!Masked(range), range.family = "v4" PROVE Ascending' /\ Upwards'
  <2>1. Ascending /\ Upwards
    BY <1>13 DEF RangeInv
  <2>2. /\ current.start = range.start + (drawn - 1) * SubnetSize /\ drawn <= Subnets
        /\ \A k \in 1 .. Len(ips) : ips[k].ip < current.start + end
        /\ Len(ips) + misses = (drawn - 1) * C + seg
    BY <1>0, <2>1 DEF Upwards, end
  <2>3. ASSUME NEW k \in 1 .. Len(ips) PROVE ips[k].ip < ip /\ ips[k].ip < current.start + after
    <3>1. ips[k].ip \in Nat /\ ips[k].ip < current.start + end /\ current.start \in Nat
      BY <1>0, <1>9, <2>2
    <3> QED BY <3>1, <1>5 DEF ip
  <2>4. ip < current.start + after
    BY <1>0, <1>5 DEF ip
  <2>5. Ascending'
    <3> SUFFICES ASSUME NEW j \in 1 .. Len(ips'), NEW k \in 1 .. Len(ips'), j < k PROVE ips'[j].ip < ips'[k].ip
      BY DEF Ascending
    <3>1. j \in 1 .. Len(ips) /\ ips'[j] = ips[j]
      BY <1>8, <1>11
    <3>2. CASE k \in 1 .. Len(ips) /\ ips'[k] = ips[k]
      BY <2>1, <3>1, <3>2 DEF Ascending
    <3>3. CASE ips'[k].ip = ip
      BY <2>3, <3>1, <3>3
    <3> QED BY <1>11, <3>2, <3>3
  <2>6. \A k \in 1 .. Len(ips') : ips'[k].ip < current.start + after
    BY <1>11, <2>3, <2>4
  <2>7. Len(ips') + misses' = (Len(ips) + misses) + 1 /\ genAt' = "segment"
    BY <1>0, <1>7, <1>8, <1>13
  <2>8. (drawn - 1) * C \in Int
    BY <1>0, <1>3
  <2>9. Len(ips') + misses' = (drawn - 1) * C + (seg + 1)
    <3> DEFINE d == (drawn - 1) * C
    <3>1. d \in Int
      BY <2>8
    <3> HIDE DEF d
    <3>2. Len(ips) + misses = d + seg
      BY <2>2 DEF d
    <3>3. Len(ips') + misses' = d + (seg + 1)
      BY <1>0, <1>8, <2>7, <3>1, <3>2
    <3> QED BY <3>3 DEF d
  <2>10. Upwards'
    BY <1>0, <1>1, <2>2, <2>6, <2>7, <2>9 DEF Upwards, after
  <2> QED BY <2>5, <2>10
<1> QED BY <1>1, <1>0, <1>10, <1>12, <1>13 DEF RangeInv

LEMMA SubnetDoneStep == RangeInv /\ Gen!SubnetDone => RangeInv'
<1> SUFFICES ASSUME RangeInv, Gen!SubnetDone PROVE RangeInv'
  OBVIOUS
<1>0. /\ GenTypes /\ range \in Ranges /\ HasSubnet /\ genAt = "segment" /\ genAt' = "subnet" /\ seg = Gen!Count /\ drawn > 0
      /\ UNCHANGED <<range, bucket, current, seg, drawn, ips, misses>>
  BY DEF RangeInv, GenTypes, HasSubnet, Gen!SubnetDone
<1>1. /\ RangeSize' = RangeSize /\ SubnetSize' = SubnetSize /\ Subnets' = Subnets
      /\ Gen!Masked(range)' = Gen!Masked(range)
  BY <1>0, RangeStays
<1>2. Gen!Count' = Gen!Count
  BY <1>0 DEF Gen!Count
<1>3. GenTypes' /\ HasSubnet'
  BY <1>0, <1>1, <1>2 DEF GenTypes, HasSubnet
<1>4. (InRange => InRange') /\ (Ascending => Ascending')
  BY <1>0, <1>1 DEF InRange, Ascending
<1>5. Upwards => Upwards'
  BY <1>0, <1>1, <1>2 DEF Upwards, EndOf
<1> QED BY <1>0, <1>1, <1>3, <1>4, <1>5 DEF RangeInv

LEMMA GenStep == GenInv /\ Gen!Next => GenInv'
<1> SUFFICES ASSUME GenInv, Gen!Next PROVE GenInv'
  OBVIOUS
<1>0. RangeInv /\ IsLcg(lcg)
  BY DEF GenInv
<1>1. CASE Gen!LcgNext
  <2>1. UNCHANGED <<range, bucket, current, seg, drawn, ips, misses, genAt>>
    BY <1>1 DEF Gen!LcgNext
  <2> QED BY <1>0, <1>1, <2>1, LcgStep, RangeStutter DEF GenInv
<1>2. ASSUME UNCHANGED lcg PROVE IsLcg(lcg)'
  BY <1>0, <1>2
<1>3. CASE Gen!SmallRange \/ Gen!Subnet4 \/ Gen!Subnet6
  <2>1. UNCHANGED lcg
    BY <1>3 DEF Gen!SmallRange, Gen!Subnet4, Gen!Subnet6
  <2> QED BY <1>0, <1>2, <1>3, <2>1, SubnetStep DEF GenInv
<1>4. CASE Gen!DrawFromSegment
  <2>1. UNCHANGED lcg
    BY <1>4 DEF Gen!DrawFromSegment
  <2> QED BY <1>0, <1>2, <1>4, <2>1, DrawStep DEF GenInv
<1>5. CASE Gen!SubnetDone
  <2>1. UNCHANGED lcg
    BY <1>5 DEF Gen!SubnetDone
  <2> QED BY <1>0, <1>2, <1>5, <2>1, SubnetDoneStep DEF GenInv
<1> QED BY <1>1, <1>3, <1>4, <1>5 DEF Gen!Next

LEMMA GenStutter == GenInv /\ UNCHANGED genVars => GenInv'
<1> SUFFICES ASSUME GenInv, UNCHANGED genVars PROVE GenInv'
  OBVIOUS
<1>1. RangeInv'
  BY RangeStutter DEF GenInv, genVars
<1>2. IsLcg(lcg)'
  BY DEF GenInv, genVars
<1> QED BY <1>1, <1>2 DEF GenInv

\* What the invariant says of the samples and of the generator.
LEMMA GenMeans ==
    ASSUME GenInv
    PROVE  Gen!TypeOK /\ Gen!RangeIsCovered /\ Gen!LcgHasFullPeriod
<1>0. RangeInv /\ GenTypes /\ range \in Ranges /\ IsLcg(lcg)
  BY DEF GenInv, RangeInv, GenTypes
<1>1. /\ RangeSize \in Nat \ {0} /\ SubnetSize \in Nat \ {0} /\ Subnets \in Nat \ {0} /\ Gen!Block \in Nat \ {0}
      /\ SubnetSize <= Gen!Block /\ SubnetSize = (IF RangeSize < Gen!Block THEN RangeSize ELSE Gen!Block)
      /\ RangeSize \div SubnetSize = Subnets
  BY <1>0, RangeIs
<1>2. Gen!TypeOK
  <2>1. Gen!Count \in Nat /\ Gen!Count <= current.size /\ current.size \in 0 .. Gen!Block
    BY <1>0, <1>1 DEF GenTypes, Gen!Count
  <2>2. seg \in 0 .. Gen!Block
    BY <1>0, <1>1, <2>1 DEF GenTypes
  <2>3. lcg.current \in lcg.seen /\ lcg.steps \in 0 .. lcg.modulus
    BY <1>0 DEF IsLcg, Lcg
  <2> QED BY <1>0, <2>1, <2>2, <2>3 DEF GenTypes, Gen!TypeOK
<1>3. Gen!LcgHasFullPeriod
  <2>1. SeenAll(lcg)
    BY <1>0 DEF IsLcg
  <2>2. \A S : Gen!Cardinality(S) = Cardinality(S)
    BY DEF Cardinality, Gen!Cardinality
  <2> QED BY <2>1, <2>2 DEF SeenAll, Gen!LcgHasFullPeriod
<1>4. Gen!RangeIsCovered
  <2> SUFFICES ASSUME Gen!Masked(range)
               PROVE  /\ genAt # "panicked"
                      /\ \A k \in DOMAIN ips : ips[k].ip \in Gen!Prefix(range)
                      /\ range.family = "v4" => \A j, k \in DOMAIN ips : j # k => ips[j].ip # ips[k].ip
                      /\ genAt = "done" /\ range.family = "v4" =>
                           Len(ips) + misses = (RangeSize \div SubnetSize) * (IF SubnetSize < bucket THEN SubnetSize ELSE bucket)
    BY <1>1 DEF Gen!RangeIsCovered, RangeSize
  <2>1. DOMAIN ips = 1 .. Len(ips) /\ Len(ips) \in Nat /\ \A k \in 1 .. Len(ips) : ips[k] \in Sample
    BY <1>0, ElementOfSeq DEF GenTypes
  <2>2. InRange /\ (range.family = "v4" => Ascending /\ Upwards)
    BY <1>0 DEF RangeInv
  <2>3. Gen!Prefix(range) = range.start .. range.start + RangeSize - 1
    BY <1>0, PrefixIs
  <2>4. \A k \in DOMAIN ips : ips[k].ip \in Gen!Prefix(range)
    BY <2>1, <2>2, <2>3 DEF InRange
  <2>5. ASSUME range.family = "v4", NEW j \in DOMAIN ips, NEW k \in DOMAIN ips, j # k PROVE ips[j].ip # ips[k].ip
    <3>1. ips[j].ip \in Nat /\ ips[k].ip \in Nat
      BY <2>1 DEF Sample
    <3>2. ips[j].ip < ips[k].ip \/ ips[k].ip < ips[j].ip
      BY <2>1, <2>2, <2>5 DEF Ascending
    <3> QED BY <3>1, <3>2
  <2> QED BY <1>1, <2>2, <2>4, <2>5 DEF InRange, Upwards
<1> QED BY <1>2, <1>3, <1>4

-----------------------------------------------------------------------------
\* From the user's list to the endpoints that are pinged (ipscanner/scanner.go).

TargetTypes ==
    /\ Target!TypeOK /\ caller \in {"RunScan", "buildScanner"} /\ next \in Nat \ {0}
    /\ parts \in Seq(Target!Part)

\* What each place of the way from the list to the scan starts from.
PlaceFits ==
    /\ targetAt = "families" => next = 1 /\ endpoints = {} /\ cidrs = {}
    /\ targetAt \notin {"run", "over"} => pinged = {}
    /\ targetAt \in {"new", "run", "over"} => next > Len(parts)
    /\ caller = "buildScanner" /\ targetAt \notin {"families", "error"} => families # {}
    /\ caller = "buildScanner" /\ ~flagged /\ parts # <<>> /\ targetAt # "families" => families = Target!Inferred

\* An entry of the list that needs no name resolved is among the options.
Kept(k) ==
    /\ parts[k].kind = "cidr" => \E c \in cidrs : c.family = parts[k].family /\ c.from = "user"
    /\ parts[k].kind \in Target!Literal => \E e \in endpoints : e.family = parts[k].family /\ e.kind = parts[k].kind

ListIsKept == \A k \in 1 .. Len(parts) : k < next => Kept(k)

FamiliesKept == \A e \in endpoints : Target!Is(e.family) \in families \/ e.kind \in Target!Literal

\* All of Cloudflare is an option only when there is no other.
LastResort ==
    (\E c \in cidrs : c.from = "cloudflare") =>
        /\ targetAt \in {"run", "over"} /\ endpoints = {}
        /\ \A k \in 1 .. Len(parts) : parts[k].kind \notin Target!Literal \cup {"cidr"}

\* The ping p stands for the target c, whose port may have been chosen.
StandsFor(p, c) == p.family = c.family /\ p.from = c.from

OnlyPingable == \A p \in pinged : \E c \in Target!Pingable : StandsFor(p, c)

AllPinged == targetAt = "over" /\ families # {} => \A c \in Target!Pingable : \E p \in pinged : StandsFor(p, c)

TargetInv ==
    TargetTypes /\ PlaceFits /\ ListIsKept /\ FamiliesKept /\ LastResort /\ OnlyPingable /\ AllPinged

LEMMA TargetInit == Target!Init => TargetInv
<1> SUFFICES ASSUME Target!Init PROVE TargetInv
  OBVIOUS
<1> USE DEF Target!Init
<1>1. TargetTypes
  <2>1. parts \in Seq(Target!Part)
    <3>1. PICK n \in 0 .. MaxParts : parts \in [1 .. n -> Target!Part]
      OBVIOUS
    <3>2. n \in Nat
      OBVIOUS
    <3> QED BY <3>1, <3>2, SeqDef
  <2> QED BY <2>1 DEF TargetTypes, Target!TypeOK
<1>2. Len(parts) \in Nat
  BY <1>1 DEF TargetTypes
<1>3. PlaceFits /\ FamiliesKept /\ LastResort /\ OnlyPingable /\ AllPinged
  BY DEF PlaceFits, FamiliesKept, LastResort, OnlyPingable, AllPinged
<1>4. ListIsKept
  BY <1>2 DEF ListIsKept
<1> QED BY <1>1, <1>3, <1>4 DEF TargetInv

\* An entry as the code sees it.
LEMMA EntryIs ==
    ASSUME TargetTypes
    PROVE  /\ Len(parts) \in Nat /\ DOMAIN parts = 1 .. Len(parts)
           /\ \A k \in 1 .. Len(parts) : parts[k].kind \in Target!Kinds /\ parts[k].family \in Target!Families
<1>1. parts \in Seq(Target!Part)
  BY DEF TargetTypes
<1>2. \A k \in 1 .. Len(parts) : parts[k] \in Target!Part
  BY <1>1, ElementOfSeq
<1> QED BY <1>1, <1>2 DEF Target!Part

LEMMA InferStep == TargetInv /\ Target!InferFamilies => TargetInv'
<1> SUFFICES ASSUME TargetInv, Target!InferFamilies PROVE TargetInv'
  OBVIOUS
<1>0. /\ TargetTypes /\ PlaceFits /\ targetAt = "families" /\ next = 1 /\ endpoints = {} /\ cidrs = {} /\ pinged = {}
      /\ UNCHANGED <<caller, flagged, parts, next, cidrs, endpoints, pinged>>
      /\ targetAt' \in {"parse", "error"}
      /\ (caller = "buildScanner" /\ targetAt' # "error" => families' # {})
  BY DEF TargetInv, PlaceFits, Target!InferFamilies
<1>1. /\ Len(parts) \in Nat /\ DOMAIN parts = 1 .. Len(parts)
      /\ \A k \in 1 .. Len(parts) : parts[k].kind \in Target!Kinds /\ parts[k].family \in Target!Families
  BY <1>0, EntryIs
<1>2. Target!Inferred \subseteq Target!Families
  BY <1>1 DEF Target!Inferred
<1>3. TargetTypes'
  <2>1. families' \subseteq Target!Families
    BY <1>0, <1>2 DEF Target!InferFamilies, TargetTypes, Target!TypeOK
  <2> QED BY <1>0, <2>1 DEF TargetTypes, Target!TypeOK
<1>4. Target!Inferred' = Target!Inferred
  BY <1>0 DEF Target!Inferred
<1>5. PlaceFits'
  <2>1. caller = "buildScanner" /\ ~flagged /\ parts # <<>> => families' = Target!Inferred
    BY <1>0 DEF Target!InferFamilies
  <2> QED BY <1>0, <1>4, <2>1 DEF PlaceFits
<1>6. ListIsKept'
  BY <1>0, <1>1 DEF ListIsKept
<1>7. FamiliesKept' /\ LastResort' /\ OnlyPingable' /\ AllPinged'
  BY <1>0 DEF FamiliesKept, LastResort, OnlyPingable, AllPinged
<1> QED BY <1>3, <1>5, <1>6, <1>7 DEF TargetInv

LEMMA ParseStep == TargetInv /\ Target!ParsePart => TargetInv'
<1> SUFFICES ASSUME TargetInv, Target!ParsePart PROVE TargetInv'
  OBVIOUS
<1> DEFINE p == parts[next]
<1>0. /\ TargetTypes /\ PlaceFits /\ targetAt = "parse" /\ next <= Len(parts) /\ pinged = {} /\ next' = next + 1
      /\ UNCHANGED <<caller, families, flagged, parts, pinged>>
      /\ targetAt' \in {"parse", "error"}
      /\ ~ \E c \in cidrs : c.from = "cloudflare"
  BY DEF TargetInv, PlaceFits, Target!ParsePart, LastResort
<1>1. /\ Len(parts) \in Nat /\ DOMAIN parts = 1 .. Len(parts)
      /\ \A k \in 1 .. Len(parts) : parts[k].kind \in Target!Kinds /\ parts[k].family \in Target!Families
  BY <1>0, EntryIs
<1>2. next \in Nat \ {0} /\ next \in 1 .. Len(parts) /\ families \subseteq Target!Families
  BY <1>0, <1>1 DEF TargetTypes, Target!TypeOK
<1>3. p.kind \in Target!Kinds /\ p.family \in Target!Families
  BY <1>1, <1>2
<1> HIDE DEF p
<1> DEFINE entry == [family |-> p.family, from |-> "user"]
           literal == [family |-> p.family, port |-> Target!PortOf(p), kind |-> p.kind]
<1>4. Target!PortOf(p) \in {0, DefaultPort, UserPort}
  BY DEF Target!PortOf
<1>5. /\ cidrs' = cidrs \/ (p.kind = "cidr" /\ cidrs' = cidrs \cup {entry})
      /\ p.kind = "cidr" => entry \in cidrs'
  BY <1>3 DEF Target!ParsePart, Target!Literal, Target!Named, p
<1>6. /\ endpoints \subseteq endpoints'
      /\ p.kind \in Target!Literal => literal \in endpoints'
      /\ \A e \in endpoints' : \/ e \in endpoints
                               \/ p.kind \in Target!Literal /\ e = literal
                               \/ p.kind \in Target!Named /\ \E f \in Target!Forms :
                                       Target!Is(f) \in families /\ e = [family |-> f, port |-> Target!PortOf(p), kind |-> p.kind]
  BY <1>3 DEF Target!ParsePart, Target!Literal, Target!Named, Target!Resolved, p
<1>7. TargetTypes'
  <2>1. cidrs' \subseteq [family : Target!Families, from : {"user", "warp", "cloudflare"}]
    BY <1>0, <1>3, <1>5 DEF TargetTypes, Target!TypeOK
  <2>2. endpoints' \subseteq [family : Target!Forms, port : {0, DefaultPort, UserPort}, kind : Target!Literal \cup Target!Named]
    <3>1. p.family \in Target!Forms
      BY <1>3 DEF Target!Forms
    <3> QED BY <1>0, <1>4, <1>6, <3>1 DEF TargetTypes, Target!TypeOK
  <2> QED BY <1>0, <1>2, <2>1, <2>2 DEF TargetTypes, Target!TypeOK
<1>8. PlaceFits'
  <2>1. Target!Inferred' = Target!Inferred
    BY <1>0 DEF Target!Inferred
  <2> QED BY <1>0, <2>1 DEF PlaceFits
<1>9. ListIsKept'
  <2> SUFFICES ASSUME NEW k \in 1 .. Len(parts), k < next + 1 PROVE Kept(k)'
    BY <1>0 DEF ListIsKept
  <2>1. CASE k < next
    <3>1. Kept(k)
      BY <2>1 DEF TargetInv, ListIsKept
    <3>2. cidrs \subseteq cidrs' /\ endpoints \subseteq endpoints' /\ parts' = parts
      BY <1>0, <1>5, <1>6
    <3> QED BY <3>1, <3>2 DEF Kept
  <2>2. CASE k = next
    <3>1. parts'[k] = p
      BY <1>0, <2>2 DEF p
    <3>2. entry.family = p.family /\ entry.from = "user" /\ literal.family = p.family /\ literal.kind = p.kind
      OBVIOUS
    <3> HIDE DEF entry, literal
    <3> QED BY <1>5, <1>6, <3>1, <3>2 DEF Kept
  <2> QED BY <1>2, <2>1, <2>2
<1>10. FamiliesKept'
  <2>1. \A e \in endpoints : Target!Is(e.family) \in families \/ e.kind \in Target!Literal
    BY DEF TargetInv, FamiliesKept
  <2>2. \A e \in endpoints' : Target!Is(e.family) \in families \/ e.kind \in Target!Literal
    BY <1>6, <2>1
  <2> QED BY <1>0, <2>2 DEF FamiliesKept
<1>11. LastResort'
  <2>1. ~ \E c \in cidrs' : c.from = "cloudflare"
    BY <1>0, <1>5
  <2> QED BY <2>1 DEF LastResort
<1>12. OnlyPingable' /\ AllPinged'
  BY <1>0 DEF OnlyPingable, AllPinged
<1> QED BY <1>7, <1>8, <1>9, <1>10, <1>11, <1>12 DEF TargetInv

LEMMA ListStep == TargetInv /\ Target!ListRead => TargetInv'
<1> SUFFICES ASSUME TargetInv, Target!ListRead PROVE TargetInv'
  OBVIOUS
<1>0. /\ TargetTypes /\ PlaceFits /\ targetAt = "parse" /\ targetAt' = "new" /\ next > Len(parts) /\ pinged = {}
      /\ UNCHANGED <<caller, families, flagged, parts, next, endpoints, pinged>>
      /\ ~ \E c \in cidrs : c.from = "cloudflare"
      /\ cidrs' = cidrs \/ (parts = <<>> /\ cidrs' = {[family |-> f, from |-> "warp"] : f \in Target!Families})
  BY DEF TargetInv, PlaceFits, Target!ListRead, LastResort
<1>1. Len(parts) \in Nat
  BY <1>0, EntryIs
<1>2. TargetTypes'
  <2>1. cidrs' \subseteq [family : Target!Families, from : {"user", "warp", "cloudflare"}]
    BY <1>0 DEF TargetTypes, Target!TypeOK
  <2> QED BY <1>0, <2>1 DEF TargetTypes, Target!TypeOK
<1>3. PlaceFits'
  <2>1. Target!Inferred' = Target!Inferred
    BY <1>0 DEF Target!Inferred
  <2> QED BY <1>0, <2>1 DEF PlaceFits
<1>4. ListIsKept'
  <2>1. CASE cidrs' = cidrs
    BY <1>0, <2>1 DEF TargetInv, ListIsKept, Kept
  <2>2. CASE parts = <<>>
    BY <1>0, <2>2 DEF ListIsKept
  <2> QED BY <1>0, <2>1, <2>2
<1>5. FamiliesKept' /\ OnlyPingable' /\ AllPinged'
  BY <1>0 DEF TargetInv, FamiliesKept, OnlyPingable, AllPinged
<1>6. LastResort'
  <2>1. ~ \E c \in cidrs' : c.from = "cloudflare"
    BY <1>0
  <2> QED BY <2>1 DEF LastResort
<1> QED BY <1>2, <1>3, <1>4, <1>5, <1>6 DEF TargetInv

LEMMA NewScannerStep == TargetInv /\ Target!NewScanner => TargetInv'
<1> SUFFICES ASSUME TargetInv, Target!NewScanner PROVE TargetInv'
  OBVIOUS
<1> DEFINE all == {[family |-> f, from |-> "cloudflare"] : f \in Target!Families}
<1>0. /\ TargetTypes /\ PlaceFits /\ targetAt = "new" /\ next > Len(parts) /\ pinged = {}
      /\ targetAt' = (IF families = {} THEN "over" ELSE "run")
      /\ UNCHANGED <<caller, families, flagged, parts, next, endpoints, pinged>>
      /\ ~ \E c \in cidrs : c.from = "cloudflare"
      /\ cidrs' = (IF cidrs = {} /\ endpoints = {} THEN all ELSE cidrs)
  BY DEF TargetInv, PlaceFits, Target!NewScanner, LastResort
<1>1. /\ Len(parts) \in Nat /\ DOMAIN parts = 1 .. Len(parts) /\ next \in Nat
  BY <1>0, EntryIs DEF TargetTypes
<1>2. TargetTypes'
  <2>1. cidrs' \subseteq [family : Target!Families, from : {"user", "warp", "cloudflare"}]
    BY <1>0 DEF TargetTypes, Target!TypeOK
  <2> QED BY <1>0, <2>1 DEF TargetTypes, Target!TypeOK
<1>3. PlaceFits'
  <2>1. Target!Inferred' = Target!Inferred
    BY <1>0 DEF Target!Inferred
  <2> QED BY <1>0, <2>1 DEF PlaceFits
<1>4. \A k \in 1 .. Len(parts) : Kept(k)
  BY <1>0, <1>1 DEF TargetInv, ListIsKept
<1>5. ListIsKept'
  <2>1. cidrs \subseteq cidrs'
    BY <1>0
  <2> QED BY <1>0, <1>4, <2>1 DEF ListIsKept, Kept
<1>6. FamiliesKept' /\ OnlyPingable' /\ AllPinged'
  BY <1>0 DEF TargetInv, FamiliesKept, OnlyPingable, AllPinged
<1>7. LastResort'
  <2>1. CASE cidrs = {} /\ endpoints = {}
    <3>1. \A k \in 1 .. Len(parts) : parts[k].kind \notin Target!Literal \cup {"cidr"}
      BY <1>4, <2>1 DEF Kept
    <3> QED BY <1>0, <2>1, <3>1 DEF LastResort
  <2>2. CASE ~(cidrs = {} /\ endpoints = {})
    BY <1>0, <2>2 DEF LastResort
  <2> QED BY <2>1, <2>2
<1> QED BY <1>2, <1>3, <1>5, <1>6, <1>7 DEF TargetInv

LEMMA PingStep == TargetInv /\ (Target!RunOver \/ \E c \in Target!Pingable : Target!Ping(c)) => TargetInv'
<1> SUFFICES ASSUME TargetInv, Target!RunOver \/ \E c \in Target!Pingable : Target!Ping(c) PROVE TargetInv'
  OBVIOUS
<1>0. /\ targetAt = "run" /\ targetAt' \in {"run", "over"}
      /\ UNCHANGED <<caller, families, flagged, parts, next, cidrs, endpoints>>
  BY DEF Target!RunOver, Target!Ping
<1>1. TargetTypes' /\ FamiliesKept' /\ LastResort' /\ ListIsKept'
  BY <1>0 DEF TargetInv, TargetTypes, Target!TypeOK, FamiliesKept, LastResort, ListIsKept, Kept
<1>2. PlaceFits'
  <2>1. Target!Inferred' = Target!Inferred
    BY <1>0 DEF Target!Inferred
  <2> QED BY <1>0, <2>1 DEF TargetInv, PlaceFits
<1>3. Target!Pingable' = Target!Pingable
  BY <1>0 DEF Target!Pingable
<1>4. CASE Target!RunOver
  <2>1. UNCHANGED pinged /\ \A c \in Target!Pingable : \E p \in pinged : StandsFor(p, c)
    BY <1>4 DEF Target!RunOver, StandsFor
  <2>2. OnlyPingable' /\ AllPinged'
    BY <1>3, <2>1 DEF TargetInv, OnlyPingable, AllPinged, StandsFor
  <2> QED BY <1>1, <1>2, <2>2 DEF TargetInv
<1>5. CASE \E c \in Target!Pingable : Target!Ping(c)
  <2>1. PICK c \in Target!Pingable : Target!Ping(c)
    BY <1>5
  <2>2. PICK port \in Target!PingPorts(c) : pinged' = pinged \cup {[c EXCEPT !.port = port]}
    BY <2>1 DEF Target!Ping
  <2>3. \E f, w, q : c = [family |-> f, from |-> w, port |-> q]
    BY DEF Target!Pingable
  <2>4. StandsFor([c EXCEPT !.port = port], c)
    BY <2>3 DEF StandsFor
  <2> DEFINE x == [c EXCEPT !.port = port]
  <2> HIDE DEF x
  <2>5. \A p \in pinged' : \E d \in Target!Pingable : StandsFor(p, d)
    BY <2>2, <2>4 DEF TargetInv, OnlyPingable, x
  <2>6. OnlyPingable'
    BY <1>3, <2>5 DEF OnlyPingable, StandsFor
  <2>7. AllPinged'
    BY <2>1 DEF Target!Ping, AllPinged
  <2> QED BY <1>1, <1>2, <2>6, <2>7 DEF TargetInv
<1> QED BY <1>4, <1>5

LEMMA TargetStep == TargetInv /\ Target!Next => TargetInv'
  BY InferStep, ParseStep, ListStep, NewScannerStep, PingStep DEF Target!Next

LEMMA TargetStutter == TargetInv /\ UNCHANGED targetVars => TargetInv'
  BY DEF TargetInv, targetVars, TargetTypes, Target!TypeOK, PlaceFits, Target!Inferred, ListIsKept, Kept, FamiliesKept,
         LastResort, OnlyPingable, AllPinged, StandsFor, Target!Pingable

\* What the invariant says of what is pinged.
LEMMA TargetMeans ==
    ASSUME TargetInv
    PROVE  /\ Target!TypeOK /\ Target!FewEscapeFamilies
           /\ Target!InferredListIsScanned /\ Target!FallbackIsLastResort
<1>0. TargetTypes /\ Target!TypeOK
  BY DEF TargetInv, TargetTypes
<1>1. /\ Len(parts) \in Nat /\ DOMAIN parts = 1 .. Len(parts)
      /\ \A k \in 1 .. Len(parts) : parts[k].kind \in Target!Kinds /\ parts[k].family \in Target!Families
  BY <1>0, EntryIs
<1> DEFINE ranges == {[family |-> c.family, from |-> c.from, port |-> 0] : c \in {d \in cidrs : d.family \in families}}
           others == {[family |-> e.family, from |-> e.kind, port |-> e.port] : e \in endpoints}
<1>2. Target!Pingable = ranges \cup others
  BY DEF Target!Pingable
<1>3. \A x \in ranges : \E c \in cidrs : c.family \in families /\ x.family = c.family /\ x.from = c.from
  OBVIOUS
<1>4. \A x \in others : \E e \in endpoints : x.family = e.family /\ x.from = e.kind
  OBVIOUS
<1>5. \A c \in cidrs : c.family \in families => \E x \in ranges : x.family = c.family /\ x.from = c.from
  <2> SUFFICES ASSUME NEW c \in cidrs, c.family \in families PROVE \E x \in ranges : x.family = c.family /\ x.from = c.from
    OBVIOUS
  <2> DEFINE x == [family |-> c.family, from |-> c.from, port |-> 0]
  <2>1. x \in ranges /\ x.family = c.family /\ x.from = c.from
    OBVIOUS
  <2> HIDE DEF x
  <2> QED BY <2>1
<1>6. \A e \in endpoints : \E x \in others : x.family = e.family /\ x.from = e.kind
  <2> SUFFICES ASSUME NEW e \in endpoints PROVE \E x \in others : x.family = e.family /\ x.from = e.kind
    OBVIOUS
  <2> DEFINE x == [family |-> e.family, from |-> e.kind, port |-> e.port]
  <2>1. x \in others /\ x.family = e.family /\ x.from = e.kind
    OBVIOUS
  <2> HIDE DEF x
  <2> QED BY <2>1
<1> HIDE DEF ranges, others
<1>7. Target!FewEscapeFamilies
  <2> SUFFICES ASSUME NEW p \in pinged
               PROVE  \/ Target!Wire(p.family) \in families
                      \/ p.from \in Target!Literal
                      \/ p.from \in Target!Named /\ p.family = "v4in6" /\ families = {"v6"}
    BY DEF Target!FewEscapeFamilies
  <2>1. PICK c \in Target!Pingable : p.family = c.family /\ p.from = c.from
    BY DEF TargetInv, OnlyPingable, StandsFor
  <2>2. families \subseteq {"v4", "v6"}
    BY <1>0 DEF Target!TypeOK, Target!Families
  <2>3. CASE c \in ranges
    <3>1. p.family \in families
      BY <1>3, <2>1, <2>3
    <3> QED BY <2>2, <3>1 DEF Target!Wire
  <2>4. CASE c \in others
    <3>1. PICK e \in endpoints : p.family = e.family /\ p.from = e.kind
      BY <1>4, <2>1, <2>4
    <3>2. e.family \in {"v4", "v6", "v4in6"} /\ e.kind \in Target!Literal \cup Target!Named
      BY <1>0 DEF Target!TypeOK, Target!Forms, Target!Families
    <3>3. Target!Is(e.family) \in families \/ e.kind \in Target!Literal
      BY DEF TargetInv, FamiliesKept
    <3> QED BY <2>2, <3>1, <3>2, <3>3 DEF Target!Is, Target!Wire
  <2> QED BY <1>2, <2>3, <2>4
<1>8. Target!FallbackIsLastResort
  <2> SUFFICES ASSUME NEW p \in pinged, p.from = "cloudflare" PROVE \E c \in cidrs : c.from = "cloudflare"
    BY <1>1 DEF Target!FallbackIsLastResort, TargetInv, LastResort
  <2>1. PICK c \in Target!Pingable : p.family = c.family /\ p.from = c.from
    BY DEF TargetInv, OnlyPingable, StandsFor
  <2>2. \A e \in endpoints : e.kind # "cloudflare"
    BY <1>0 DEF Target!TypeOK, Target!Literal, Target!Named
  <2> QED BY <1>2, <1>3, <1>4, <2>1, <2>2
<1>9. Target!InferredListIsScanned
  <2> SUFFICES ASSUME caller = "buildScanner", ~flagged, targetAt = "over", NEW k \in DOMAIN parts
               PROVE  /\ parts[k].kind = "cidr" => \E p \in pinged : p.from = "user" /\ p.family = parts[k].family
                      /\ parts[k].kind \in Target!Literal => \E p \in pinged : p.from = parts[k].kind /\ p.family = parts[k].family
    BY DEF Target!InferredListIsScanned
  <2>1. next > Len(parts) /\ families # {} /\ parts # <<>> /\ families = Target!Inferred /\ next \in Nat
    BY <1>0, <1>1 DEF TargetInv, PlaceFits, TargetTypes
  <2>2. Kept(k)
    BY <1>1, <2>1 DEF TargetInv, ListIsKept
  <2>3. \A c \in Target!Pingable : \E p \in pinged : p.family = c.family /\ p.from = c.from
    BY <2>1 DEF TargetInv, AllPinged, StandsFor
  <2>4. parts[k].kind = "cidr" => parts[k].family \in families
    BY <2>1 DEF Target!Inferred
  <2>5. ASSUME parts[k].kind = "cidr" PROVE \E p \in pinged : p.from = "user" /\ p.family = parts[k].family
    <3>1. PICK c \in cidrs : c.family = parts[k].family /\ c.from = "user"
      BY <2>2, <2>5 DEF Kept
    <3>2. PICK x \in ranges : x.family = c.family /\ x.from = c.from
      BY <1>5, <2>4, <2>5, <3>1
    <3> QED BY <1>2, <2>3, <3>1, <3>2
  <2>6. ASSUME parts[k].kind \in Target!Literal PROVE \E p \in pinged : p.from = parts[k].kind /\ p.family = parts[k].family
    <3>1. PICK e \in endpoints : e.family = parts[k].family /\ e.kind = parts[k].kind
      BY <2>2, <2>6 DEF Kept
    <3>2. PICK x \in others : x.family = e.family /\ x.from = e.kind
      BY <1>6, <3>1
    <3> QED BY <1>2, <2>3, <3>1, <3>2
  <2> QED BY <2>5, <2>6
<1> QED BY <1>0, <1>7, <1>8, <1>9

-----------------------------------------------------------------------------
\* The parts together.

\* The invariant of the part that moves.
ControlInv ==
    /\ part = "generator" => GenInv
    /\ part = "targets" => TargetInv
    /\ part = "scan" => ScanInv
    /\ part = "masqueScan" => MasqueInv
    /\ part = "identity" => IdInv
    /\ part = "adapter" => AdapterInv
    /\ part = "start" => StartInv
    /\ part = "settings" => SettingsInv

controlVars == <<part, scannerVars, registrationVars, programVars>>

\* The part a run is about starts in its invariant.
LEMMA ControlInit == MCInit => ControlInv
  BY GenInit, TargetInit, ScanInit, MasqueInit, IdInit, AdapterInit, StartInit, SettingsInit DEF MCInit, ControlInv

\* A step of one part keeps the invariant of the part the run is about.
LEMMA ControlStep == ControlInv /\ [MCNext]_controlVars => ControlInv'
<1> SUFFICES ASSUME ControlInv, [MCNext]_controlVars PROVE ControlInv'
  OBVIOUS
<1>1. UNCHANGED part
  BY DEF MCNext, controlVars
<1>2. ASSUME part = "identity" PROVE IdInv'
  <2>1. IdInv
    BY <1>2 DEF ControlInv
  <2>2. Id!Next \/ UNCHANGED idVars
    BY <1>2 DEF MCNext, controlVars, registrationVars
  <2> QED BY <2>1, <2>2, IdStep, IdStutter
<1>3. ASSUME part = "adapter" PROVE AdapterInv'
  <2>1. AdapterInv
    BY <1>3 DEF ControlInv
  <2>2. Adapter!Next \/ UNCHANGED adapterVars
    BY <1>3 DEF MCNext, controlVars, registrationVars
  <2> QED BY <2>1, <2>2, AdapterStep, AdapterStutter
<1>4. ASSUME part = "start" PROVE StartInv'
  <2>1. StartInv
    BY <1>4 DEF ControlInv
  <2>2. Start!Next \/ UNCHANGED startVars
    BY <1>4 DEF MCNext, controlVars, programVars
  <2> QED BY <2>1, <2>2, StartStep, StartStutter
<1>5. ASSUME part = "settings" PROVE SettingsInv'
  <2>1. SettingsInv
    BY <1>5 DEF ControlInv
  <2>2. Set!Next \/ UNCHANGED settingsVars
    BY <1>5 DEF MCNext, controlVars, programVars
  <2> QED BY <2>1, <2>2, SettingsStep, SettingsStutter
<1>6. ASSUME part = "scan" PROVE ScanInv'
  <2>1. ScanInv
    BY <1>6 DEF ControlInv
  <2>2. Scan!Next \/ UNCHANGED scanVars
    BY <1>6 DEF MCNext, controlVars, scannerVars
  <2> QED BY <2>1, <2>2, ScanStep, ScanStutter
<1>7. ASSUME part = "masqueScan" PROVE MasqueInv'
  <2>1. MasqueInv
    BY <1>7 DEF ControlInv
  <2>2. Masque!Next \/ UNCHANGED masqueVars
    BY <1>7 DEF MCNext, controlVars, scannerVars
  <2> QED BY <2>1, <2>2, MasqueStep, MasqueStutter
<1>8. ASSUME part = "generator" PROVE GenInv'
  <2>1. GenInv
    BY <1>8 DEF ControlInv
  <2>2. Gen!Next \/ UNCHANGED genVars
    BY <1>8 DEF MCNext, controlVars, scannerVars
  <2> QED BY <2>1, <2>2, GenStep, GenStutter
<1>9. ASSUME part = "targets" PROVE TargetInv'
  <2>1. TargetInv
    BY <1>9 DEF ControlInv
  <2>2. Target!Next \/ UNCHANGED targetVars
    BY <1>9 DEF MCNext, controlVars, scannerVars
  <2> QED BY <2>1, <2>2, TargetStep, TargetStutter
<1> QED BY <1>1, <1>2, <1>3, <1>4, <1>5, <1>6, <1>7, <1>8, <1>9 DEF ControlInv

\* Whatever part a run is about, its inductive invariant always holds.
THEOREM ControlInvariant == MCSpec => []ControlInv
<1>1. MCInit => ControlInv
  BY ControlInit
<1>2. ControlInv /\ [MCNext]_controlVars => ControlInv'
  BY ControlStep
<1> QED BY <1>1, <1>2, PTL DEF MCSpec, controlVars

(***************************************************************************)
(* A program that runs with an identity has it in its file, with the       *)
(* license the service knows, and a device registered at the service is    *)
(* lost only by a crash or a failed call; a MASQUE tunnel runs with an     *)
(* enrolled device that is saved, and only a failed dial leaves its socket *)
(* (warp/account.go, masque/adapter.go).                                   *)
(***************************************************************************)
THEOREM RegistrationSurvives == MCSpec => []RegistrationIsKept
<1>1. ControlInv => RegistrationIsKept
  BY IdMeans, AdapterMeans DEF ControlInv, RegistrationIsKept
<1> QED BY <1>1, ControlInvariant, PTL

(***************************************************************************)
(* A proxy is served only over devices that have shaken hands and were     *)
(* tested, two devices of one key run only when the first one's test       *)
(* failed, and the fall back to WireGuard leaves a MASQUE tunnel only when *)
(* it was the proxy that failed (app.go, wg.go).                           *)
(***************************************************************************)
THEOREM StartLeavesNothing == MCSpec => []StartIsClean
<1>1. ControlInv => StartIsClean
  BY StartMeans DEF ControlInv, StartIsClean
<1> QED BY <1>1, ControlInvariant, PTL

(***************************************************************************)
(* The samples of a range lie in it, no two of an IPv4 range are the same  *)
(* and each of its subnets has its share of them or of misses; the         *)
(* congruential generator visits a whole range before it repeats an        *)
(* address (iterator.go).  A disabled family is pinged only through an     *)
(* address the user wrote down, an inferred list is scanned whole, and all *)
(* of Cloudflare only as a last resort (ipscanner/scanner.go, warp-scan).  *)
(***************************************************************************)
THEOREM CandidatesStayRight == MCSpec => []CandidatesAreRight
<1>1. ControlInv => CandidatesAreRight
  BY GenMeans, TargetMeans DEF ControlInv, CandidatesAreRight
<1> QED BY <1>1, ControlInvariant, PTL

(***************************************************************************)
(* However its workers and answers interleave, a scan never sends on a     *)
(* closed stream, its queue is the best of all that answered, and it finds *)
(* at most one endpoint more per other worker than it was to stop at       *)
(* (engine.go, queue.go).  A MASQUE scan closes its stop channel once, and *)
(* unless stopped has exactly one result for each time an endpoint is      *)
(* among its candidates, the custom ones included (masque/scanner.go).     *)
(***************************************************************************)
THEOREM ScansKeepCount == MCSpec => []ScansAreExact
<1>1. ControlInv => ScansAreExact
  BY ScanMeans, MasqueMeans DEF ControlInv, ScansAreExact
<1> QED BY <1>1, ControlInvariant, PTL

(***************************************************************************)
(* Whatever sections a noize file has, with whatever numbers: merged over  *)
(* a preset they are sound if they were, but for mixtures, and the junk of *)
(* a mixture too has sizes that can be sent (config/noize,                 *)
(* preflight_bind.go).                                                     *)
(***************************************************************************)
THEOREM NoizeStaysSoundAlways == MCSpec => []NoizeStaysSound
<1>1. ControlInv => NoizeStaysSound
  BY SettingsMean DEF ControlInv, NoizeStaysSound
<1> QED BY <1>1, ControlInvariant, PTL

=============================================================================
