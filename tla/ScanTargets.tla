----------------------------- MODULE ScanTargets -----------------------------
(***************************************************************************)
(* From what the user asks for to the endpoints that are pinged.           *)
(* wiresocks/scanner.go RunScan and cmd/warp-scan buildScanner turn a list *)
(* of endpoints and ranges into scanner options, ipscanner/scanner.go      *)
(* resolves names and falls back to default ranges, and the engine's Run   *)
(* makes candidates of them and gives each the port it is pinged at.       *)
(***************************************************************************)
EXTENDS Integers, Sequences, FiniteSets

CONSTANTS
    MaxParts,    \* bound: entries of the user's list
    DefaultPort, \* NewScanner's Port (2408)
    UserPort,    \* a port the user writes with an address
    WarpPorts,   \* warp.GetWarpPorts
    CustomPorts  \* the ports of --scanner-ports

VARIABLES
    caller,    \* "RunScan" or "buildScanner"
    families,  \* enabled families
    flagged,   \* the families were given, not inferred
    noDefault, \* --no-default-cidrs
    scanPorts, \* options.DefaultScanPorts
    parts,     \* the user's list
    next,      \* entry that is looked at next
    cidrs,     \* options.CidrList: family and where it comes from
    endpoints, \* options.CustomEndpoints: form of the address, port, kind of entry
    pinged,    \* endpoints that WarpPing was called for
    targetAt   \* "families", "parse", "new", "run", "error" or "over"

targetVars == <<caller, families, flagged, noDefault, scanPorts, parts, next, cidrs, endpoints, pinged, targetAt>>

Families == {"v4", "v6"}
Kinds    == {"cidr", "ip", "ipport", "host", "hostport", "bad"}
Literal  == {"ip", "ipport"}
Named    == {"host", "hostport"}
Part     == [kind : Kinds, family : Families]

\* The resolver gives the IPv4 address of a name in four bytes, or in sixteen when it
\* comes from the hosts file; netip takes the second form for IPv6.
Forms   == Families \cup {"v4in6"}
Is(f)   == IF f = "v4in6" THEN "v6" ELSE f
Wire(f) == IF f = "v4in6" THEN "v4" ELSE f

Init ==
    /\ caller \in {"RunScan", "buildScanner"}
    /\ families \in SUBSET Families
    /\ flagged = (families # {})
    /\ noDefault \in BOOLEAN /\ (caller = "RunScan" => ~noDefault)
    /\ scanPorts \in {WarpPorts, CustomPorts} /\ (caller = "buildScanner" => scanPorts = WarpPorts)
    /\ parts \in UNION {[1 .. n -> Part] : n \in 0 .. MaxParts}
    /\ next = 1 /\ cidrs = {} /\ endpoints = {} /\ pinged = {}
    /\ targetAt = "families"

\* Mutant: ranges are not looked at.
Inferred_EndpointsOnly == {parts[k].family : k \in {j \in DOMAIN parts : parts[j].kind \in Literal}}

\* The families of the ranges and literal addresses in the list; a name infers none.
Inferred == {parts[k].family : k \in {j \in DOMAIN parts : parts[j].kind \in Literal \cup {"cidr"}}}

\* buildScanner: without -4 and -6 the families come from the list, or are both.
InferFamilies ==
    /\ targetAt = "families"
    /\ families' = IF caller = "RunScan" \/ flagged THEN families
                   ELSE IF parts = <<>> THEN Families ELSE Inferred
    /\ targetAt' = IF caller = "buildScanner" /\ families' = {} THEN "error" ELSE "parse"
    /\ UNCHANGED <<caller, flagged, noDefault, scanPorts, parts, next, cidrs, endpoints, pinged>>

\* The port an entry is written with: 0 stands for "any WARP port" in RunScan's ip:0,
\* an entry without a port gets the scanner's own port in addEndpoint.
PortOf(p) ==
    IF p.kind \in {"ipport", "hostport"} THEN UserPort
    ELSE IF caller = "RunScan" THEN 0 ELSE DefaultPort

\* Mutant: the families of the resolved addresses are not looked at.
Resolved_Any(p, answers) == {[family |-> f, port |-> PortOf(p), kind |-> p.kind] : f \in answers}

\* addEndpoint: of a name's addresses those are kept whose form netip takes for an
\* enabled family.
Resolved(p, answers) ==
    {[family |-> f, port |-> PortOf(p), kind |-> p.kind] : f \in {a \in answers : Is(a) \in families}}

\* One entry: a range, a literal address (whatever its family), a name that is
\* resolved, possibly to nothing; RunScan refuses what it cannot read.
ParsePart ==
    /\ targetAt = "parse" /\ next <= Len(parts)
    /\ next' = next + 1
    /\ LET p == parts[next]
       IN  \/ /\ p.kind = "cidr"
              /\ cidrs' = cidrs \cup {[family |-> p.family, from |-> "user"]}
              /\ UNCHANGED <<endpoints, targetAt>>
           \/ /\ p.kind \in Literal
              /\ endpoints' = endpoints \cup {[family |-> p.family, port |-> PortOf(p), kind |-> p.kind]}
              /\ UNCHANGED <<cidrs, targetAt>>
           \/ /\ p.kind \in Named
              /\ \E answers \in SUBSET Forms : endpoints' = endpoints \cup Resolved(p, answers)
              /\ UNCHANGED <<cidrs, targetAt>>
           \/ /\ p.kind = "bad"
              /\ targetAt' = IF caller = "RunScan" THEN "error" ELSE targetAt
              /\ UNCHANGED <<cidrs, endpoints>>
    /\ UNCHANGED <<caller, families, flagged, noDefault, scanPorts, parts, pinged>>

\* The WARP ranges are scanned when the list is empty.
ListRead ==
    /\ targetAt = "parse" /\ next > Len(parts)
    /\ cidrs' = IF parts = <<>> /\ ~noDefault
                THEN {[family |-> f, from |-> "warp"] : f \in Families} ELSE cidrs
    /\ targetAt' = "new"
    /\ UNCHANGED <<caller, families, flagged, noDefault, scanPorts, parts, next, endpoints, pinged>>

\* Mutant: the ranges alone decide.
NewScanner_Ranges ==
    /\ targetAt = "new"
    /\ cidrs' = IF cidrs = {} THEN {[family |-> f, from |-> "cloudflare"] : f \in Families} ELSE cidrs
    /\ targetAt' = IF families = {} THEN "over" ELSE "run"
    /\ UNCHANGED <<caller, families, flagged, noDefault, scanPorts, parts, next, endpoints, pinged>>

\* With neither range nor endpoint left the scanner takes all ranges of Cloudflare;
\* Run does nothing when both families are off.
NewScanner ==
    /\ targetAt = "new"
    /\ cidrs' = IF cidrs = {} /\ endpoints = {}
                THEN {[family |-> f, from |-> "cloudflare"] : f \in Families} ELSE cidrs
    /\ targetAt' = IF families = {} THEN "over" ELSE "run"
    /\ UNCHANGED <<caller, families, flagged, noDefault, scanPorts, parts, next, endpoints, pinged>>

\* NewIterator leaves out ranges of a disabled family; the endpoints are taken as they are.
Pingable ==
    {[family |-> c.family, from |-> c.from, port |-> 0] : c \in {d \in cidrs : d.family \in families}}
    \cup {[family |-> e.family, from |-> e.kind, port |-> e.port] : e \in endpoints}

\* The port of a ping: the candidate's own, else the scanner's, else any of the scan ports.
PingPorts(c) ==
    IF c.port # 0 THEN {c.port}
    ELSE IF DefaultPort # 0 THEN {DefaultPort} ELSE scanPorts

Ping(c) ==
    /\ targetAt = "run"
    /\ \E port \in PingPorts(c) : pinged' = pinged \cup {[c EXCEPT !.port = port]}
    /\ UNCHANGED <<caller, families, flagged, noDefault, scanPorts, parts, next, cidrs, endpoints, targetAt>>

RunOver ==
    /\ targetAt = "run"
    /\ \A c \in Pingable : \E p \in pinged : p.family = c.family /\ p.from = c.from
    /\ targetAt' = "over"
    /\ UNCHANGED <<caller, families, flagged, noDefault, scanPorts, parts, next, cidrs, endpoints, pinged>>

Next ==
    \/ InferFamilies
    \/ ParsePart
    \/ ListRead
    \/ NewScanner
    \/ \E c \in Pingable : Ping(c)
    \/ RunOver

\* Values of the options and of the endpoints.
TypeOK ==
    /\ families \subseteq Families
    /\ cidrs \subseteq [family : Families, from : {"user", "warp", "cloudflare"}]
    /\ endpoints \subseteq [family : Forms, port : {0, DefaultPort, UserPort}, kind : Literal \cup Named]
    /\ targetAt \in {"families", "parse", "new", "run", "error", "over"}

(***************************************************************************)
(* A disabled family is pinged only through an address the user wrote down *)
(* or, where IPv4 is disabled, an IPv4 address that a name has in the      *)
(* hosts file: ranges, fallbacks and all other answers keep to the enabled *)
(* families (a comment at ipscanner/scanner.go:491 promises it of every    *)
(* answer).                                                                *)
(***************************************************************************)
FewEscapeFamilies ==
    \A p \in pinged :
        \/ Wire(p.family) \in families
        \/ p.from \in Literal
        \/ p.from \in Named /\ p.family = "v4in6" /\ families = {"v6"}

(***************************************************************************)
(* Without -4 and -6 the warp-scan tool infers the families from the list, *)
(* and then no range or address of the list is left out of the scan.       *)
(***************************************************************************)
InferredListIsScanned ==
    caller = "buildScanner" /\ ~flagged /\ targetAt = "over" =>
        \A k \in DOMAIN parts :
            /\ parts[k].kind = "cidr" => \E p \in pinged : p.from = "user" /\ p.family = parts[k].family
            /\ parts[k].kind \in Literal => \E p \in pinged : p.from = parts[k].kind /\ p.family = parts[k].family

(***************************************************************************)
(* The whole of Cloudflare is scanned only when nothing of the user's list *)
(* is left: it has no range and no address, and none of its names gave an  *)
(* endpoint.  So names that do not resolve are replaced by everything,     *)
(* where cmd/warp-scan/main.go:350 says that only endpoints are scanned.   *)
(***************************************************************************)
FallbackIsLastResort ==
    (\E p \in pinged : p.from = "cloudflare") => endpoints = {} /\ \A k \in DOMAIN parts : parts[k].kind \notin Literal \cup {"cidr"}
=============================================================================
