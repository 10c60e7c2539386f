------------------------------ MODULE Cookies ------------------------------
(***************************************************************************)
(* wireguard/device/cookie.go: the checker of a responder under load and   *)
(* the generator of an initiator that retries its handshake.               *)
(*                                                                         *)
(* A MAC is what went into it: mac1 is the number of the message, a cookie *)
(* is the pair of a secret and an address, mac2 is the cookie used.  Times *)
(* are ages in a unit of which RefreshAge makes CookieRefreshTime; a round *)
(* trip is shorter than the unit.                                          *)
(***************************************************************************)
EXTENDS Integers

CONSTANTS
    Addrs,      \* source addresses the initiator is seen with
    RefreshAge, \* CookieRefreshTime
    MaxFaults   \* bound: changes of address, losses and late replies

VARIABLES
    secret,     \* the checker's secret
    secretAge,
    replier,    \* worker -> "idle", "check", "refresh" or "derive"
    cookie,     \* the generator's cookie, or None
    cookieAge,
    lastMAC1,   \* number of its last message, 0 before the first
    addr,       \* where it is
    faults,
    sent,       \* a message was sent in this unit of time
    message,    \* initiation under way, or None
    cookieReply,\* cookie reply under way, or None
    accepted    \* the last message, when the checker let it through, or None

cookieVars == <<secret, secretAge, replier, cookie, cookieAge, lastMAC1, addr, faults, sent, message, cookieReply, accepted>>

None == [none |-> TRUE]

\* Numbers are used again when nothing refers to the old one.
Secrets == 0..3
Numbers == 1..3

\* The worker with the initiator's message, and one with other people's.
Repliers == {"ours", "other"}

Expired == RefreshAge + 1 \* Zero time, and everything older than RefreshAge.

Older(age) == IF age = Expired THEN age ELSE age + 1

\* Init of both: no secret, no cookie.
Init ==
    /\ secret = 0 /\ secretAge = Expired
    /\ replier = [r \in Repliers |-> "idle"]
    /\ cookie = None /\ cookieAge = Expired
    /\ lastMAC1 = 0
    /\ addr \in Addrs /\ faults = 0 /\ sent = FALSE
    /\ message = None /\ cookieReply = None /\ accepted = None

-----------------------------------------------------------------------------
Fault == faults < MaxFaults /\ faults' = faults + 1

\* The initiator sends, first or again: mac2 only with a fresh cookie.  A reply that
\* is still under way is late.
AddMacs ==
    /\ message = None
    /\ IF cookieReply = None THEN UNCHANGED faults ELSE Fault
    /\ lastMAC1' = CHOOSE n \in Numbers : n # lastMAC1 /\ (cookieReply # None => n # cookieReply.mac1)
    /\ message' = [mac1 |-> lastMAC1', src |-> addr, mac2 |-> IF cookieAge > RefreshAge THEN None ELSE cookie]
    /\ sent' = TRUE
    /\ accepted' = None
    /\ UNCHANGED <<secret, secretAge, replier, cookie, cookieAge, addr, cookieReply>>

\* Mutant: the cookie is the secret's alone.
CookieFor_Anyone(src) == [of |-> secret, src |-> CHOOSE a \in Addrs : TRUE]

CookieFor(src) == [of |-> secret, src |-> src]

CheckMAC2(m) == secretAge <= RefreshAge /\ m.mac2 = CookieFor(m.src)

\* The loaded responder takes the message: through, or on to CreateReply.
Receives ==
    /\ message # None /\ replier["ours"] = "idle"
    /\ IF CheckMAC2(message)
       THEN accepted' = message /\ message' = None /\ UNCHANGED replier
       ELSE replier' = [replier EXCEPT !["ours"] = "check"] /\ UNCHANGED <<accepted, message>>
    /\ UNCHANGED <<secret, secretAge, cookie, cookieAge, lastMAC1, addr, faults, sent, cookieReply>>

\* Another source's message reaches CreateReply.
OtherReceived ==
    /\ replier["other"] = "idle"
    /\ replier' = [replier EXCEPT !["other"] = "check"]
    /\ UNCHANGED <<secret, secretAge, cookie, cookieAge, lastMAC1, addr, faults, sent, message, cookieReply, accepted>>

\* CreateReply tests the age under the read lock ...
TestSecret(r) ==
    /\ replier[r] = "check"
    /\ replier' = [replier EXCEPT ![r] = IF secretAge > RefreshAge THEN "refresh" ELSE "derive"]
    /\ UNCHANGED <<secret, secretAge, cookie, cookieAge, lastMAC1, addr, faults, sent, message, cookieReply, accepted>>

\* Secrets something was made of.
Used ==
    {secret} \cup (IF cookie = None THEN {} ELSE {cookie.of})
             \cup (IF cookieReply = None THEN {} ELSE {cookieReply.cookie.of})

\* ... and makes a new one under the write lock, without testing again.
Refresh(r) ==
    /\ replier[r] = "refresh"
    /\ secret' = CHOOSE x \in Secrets : x \notin Used
    /\ secretAge' = 0
    /\ replier' = [replier EXCEPT ![r] = "derive"]
    /\ UNCHANGED <<cookie, cookieAge, lastMAC1, addr, faults, sent, message, cookieReply, accepted>>

\* The rest of CreateReply, under the read lock: sealed with the message's mac1.
CreateReply(r) ==
    /\ replier[r] = "derive"
    /\ replier' = [replier EXCEPT ![r] = "idle"]
    /\ IF r = "ours"
       THEN /\ cookieReply' = [cookie |-> CookieFor(message.src), mac1 |-> message.mac1]
            /\ message' = None
       ELSE UNCHANGED <<cookieReply, message>>
    /\ UNCHANGED <<secret, secretAge, cookie, cookieAge, lastMAC1, addr, faults, sent, accepted>>

\* Mutant: the cookie is taken and its time is not.
ConsumeReply_KeepsTime ==
    /\ cookieReply # None
    /\ cookie' = cookieReply.cookie
    /\ cookieReply' = None
    /\ UNCHANGED <<secret, secretAge, replier, cookieAge, lastMAC1, addr, faults, sent, message, accepted>>

\* Opens only with the mac1 of the last message sent.
ConsumeReply ==
    /\ cookieReply # None
    /\ IF lastMAC1 # 0 /\ cookieReply.mac1 = lastMAC1
       THEN cookie' = cookieReply.cookie /\ cookieAge' = 0
       ELSE UNCHANGED <<cookie, cookieAge>>
    /\ cookieReply' = None
    /\ UNCHANGED <<secret, secretAge, replier, lastMAC1, addr, faults, sent, message, accepted>>

-----------------------------------------------------------------------------
\* The network loses a message or a reply.
Lost ==
    /\ Fault
    /\ \/ message # None /\ replier["ours"] = "idle" /\ message' = None /\ UNCHANGED cookieReply
       \/ cookieReply # None /\ cookieReply' = None /\ UNCHANGED message
    /\ UNCHANGED <<secret, secretAge, replier, cookie, cookieAge, lastMAC1, addr, sent, accepted>>

Roams ==
    /\ Fault
    /\ addr' \in Addrs \ {addr}
    /\ UNCHANGED <<secret, secretAge, replier, cookie, cookieAge, lastMAC1, sent, message, cookieReply, accepted>>

\* A unit of time: the initiator retries several times in one.
TimePasses ==
    /\ sent /\ message = None /\ cookieReply = None
    /\ \A r \in Repliers : replier[r] = "idle"
    /\ secretAge' = Older(secretAge) /\ cookieAge' = Older(cookieAge)
    /\ sent' = FALSE
    /\ UNCHANGED <<secret, replier, cookie, lastMAC1, addr, faults, message, cookieReply, accepted>>

Work(r) == TestSecret(r) \/ Refresh(r) \/ CreateReply(r)

Next ==
    \/ AddMacs \/ Receives \/ OtherReceived \/ ConsumeReply \/ Lost \/ Roams \/ TimePasses
    \/ \E r \in Repliers : Work(r)

\* The handshake is retried, and what is not lost arrives and is handled.
System == AddMacs \/ Receives \/ ConsumeReply \/ Work("ours")
Fairness == WF_cookieVars(System) /\ WF_cookieVars(Work("other"))

-----------------------------------------------------------------------------
Cookie == [of : Secrets, src : Addrs]
Message == [mac1 : Numbers, src : Addrs, mac2 : Cookie \cup {None}]

\* Shapes of the state.
TypeOK ==
    /\ secret \in Secrets /\ {secretAge, cookieAge} \subseteq 0..Expired
    /\ replier \in [Repliers -> {"idle", "check", "refresh", "derive"}]
    /\ cookie \in Cookie \cup {None} /\ lastMAC1 \in 0..3
    /\ addr \in Addrs /\ faults \in 0..MaxFaults /\ sent \in BOOLEAN
    /\ {message, accepted} \subseteq Message \cup {None}
    /\ cookieReply \in [cookie : Cookie, mac1 : Numbers] \cup {None}

\* What gets through a responder under load came from where a cookie had reached
\* its sender: an initiator that moved is let through only once it has one for
\* its new address.
ThroughMeansReachable == accepted # None => accepted.mac2.src = accepted.src

\* A retrying initiator gets through a responder that stays under load, although
\* its replies are lost or come late, its secret and its cookie expire separately,
\* and another worker may replace the secret its cookie was made of.
GetsThrough == []<>(accepted # None)

=============================================================================
