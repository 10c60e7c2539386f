--------------------------- MODULE PreflightBind ---------------------------
(* AtomicNoize (wireguard/preflightbind/preflight_bind.go): the packets a device
   sends around its handshake initiations to look like another protocol.

   Several goroutines of the device send through the bind at once (the timers,
   the sequential sender, the keepalives).  Only the two tables are guarded: the
   clock is read before the lock is taken, and the preflight itself, the handshake
   and the junk after it go to the inner bind as they come.  Time is counted in
   fractions of the minimum interval.                                         *)
EXTENDS Naturals, Sequences, FiniteSets

CONSTANTS Senders,        \* goroutines in Send
          Dests,          \* addresses they send to
          Interval,       \* the minimum interval between preflights
          Signature,      \* I1..I5: each a sequence of tags [bad, len]
          Jc, JcAfterI1, JcBeforeHS,
          MaxTime, MaxSends   \* bounds

VARIABLES clock,
          lastSent,       \* per address: the time its last preflight was given, 0 never
          postSent,       \* addresses whose trailing junk was started
          sender,         \* per sender: what it does and what is left to send
          trailing,       \* per address: junk packets its goroutine has left to send
          begun,          \* per address: preflights begun, each the time it was given
                          \* and the time it began
          sent,           \* per address: packets that reached the inner bind, by kind
          prepared,       \* addresses to which a whole preflight has been sent
          naked           \* addresses whose initiation left with no preflight before
                          \* it and none on its way

preflightVars == <<clock, lastSent, postSent, sender, trailing, begun, sent, prepared, naked>>

-----------------------------------------------------------------------------
\* parseCPSPacket: the bytes of the tags, nothing at all if one of them is bad;
\* a run of random bytes is cut at a thousand.
Parsed(sig) == IF \E i \in DOMAIN sig : sig[i].bad THEN 0
               ELSE LET len[i \in 0..Len(sig)] ==
                          IF i = 0 THEN 0
                          ELSE len[i - 1] + (IF sig[i].len > 1000 THEN 1000 ELSE sig[i].len)
                    IN len[Len(sig)]

\* NewWithAtomicNoize refuses a first signature it cannot parse.
Usable == \A i \in DOMAIN Signature[1] : ~Signature[1][i].bad

\* executeAtomicNoizePreflight: I1 in an IKE frame, junk, then I2 to I5.
Sequence == (IF Parsed(Signature[1]) > 0 THEN <<"sig">> ELSE <<>>)
            \o [i \in 1..(JcAfterI1 + JcBeforeHS) |-> "junk"]
            \o [i \in 1..Cardinality({s \in 2..5 : Parsed(Signature[s]) > 0}) |-> "sig"]

Trailing == IF Jc > JcBeforeHS THEN Jc - JcBeforeHS ELSE 0

Idle == [at |-> "idle", to |-> CHOOSE d \in Dests : TRUE, init |-> FALSE, left |-> <<>>,
         now |-> 0, sends |-> 0]

Init == /\ clock = Interval
        /\ lastSent = [d \in Dests |-> 0] /\ postSent = {}
        /\ sender = [s \in Senders |-> Idle]
        /\ trailing = [d \in Dests |-> 0]
        /\ begun = [d \in Dests |-> {}]
        /\ sent = [d \in Dests |-> [sig |-> 0, junk |-> 0, init |-> 0]]
        /\ prepared = {} /\ naked = {}

-----------------------------------------------------------------------------
\* Send is called with a batch that holds a handshake initiation or does not.
Send(s, d, init) ==
  /\ sender[s].at = "idle" /\ sender[s].sends < MaxSends
  /\ sender' = [sender EXCEPT ![s] = [Idle EXCEPT !.at = IF init THEN "gate" ELSE "inner",
                                                  !.to = d, !.init = init,
                                                  !.sends = sender[s].sends + 1]]
  /\ UNCHANGED <<clock, lastSent, postSent, trailing, begun, sent, prepared, naked>>

\* maybePreflight begins: the clock is read, and the mutex may be a while in coming.
ReadClock(s) ==
  /\ sender[s].at = "gate"
  /\ sender' = [sender EXCEPT ![s].at = "lock", ![s].now = clock]
  /\ UNCHANGED <<clock, lastSent, postSent, trailing, begun, sent, prepared, naked>>

\* A bug: any newer time will do.
Due_Newer(s) == sender[s].now > lastSent[sender[s].to]

\* now.Sub(last) < b.interval is the test to skip; it is also met by a time older
\* than the last one.
Due(s) == sender[s].now >= lastSent[sender[s].to] + Interval

\* A bug: the preflight is left to a goroutine and not waited for.
Gate_Async(s) ==
  /\ sender[s].at = "lock"
  /\ LET d == sender[s].to
     IN IF Due(s)
          THEN /\ lastSent' = [lastSent EXCEPT ![d] = sender[s].now]
               /\ begun' = [begun EXCEPT ![d] = @ \cup {<<sender[s].now, clock>>}]
          ELSE UNCHANGED <<lastSent, begun>>
  /\ sender' = [sender EXCEPT ![s].at = "post"]
  /\ UNCHANGED <<clock, postSent, trailing, sent, prepared, naked>>

\* The test and the note of the time, under the mutex.
Gate(s) ==
  /\ sender[s].at = "lock"
  /\ LET d == sender[s].to
     IN IF Due(s)
          THEN /\ lastSent' = [lastSent EXCEPT ![d] = sender[s].now]
               /\ begun' = [begun EXCEPT ![d] = @ \cup {<<sender[s].now, clock>>}]
               /\ sender' = [sender EXCEPT ![s].at = "preflight", ![s].left = Sequence]
          ELSE sender' = [sender EXCEPT ![s].at = "post"] /\ UNCHANGED <<lastSent, begun>>
  /\ UNCHANGED <<clock, postSent, trailing, sent, prepared, naked>>

\* One packet of the sequence; the delay before the handshake ends it.
Preflight(s) ==
  /\ sender[s].at = "preflight"
  /\ IF sender[s].left = <<>>
       THEN /\ sender' = [sender EXCEPT ![s].at = "post"]
            /\ prepared' = prepared \cup {sender[s].to}
            /\ UNCHANGED sent
       ELSE /\ sent' = [sent EXCEPT ![sender[s].to][Head(sender[s].left)] = @ + 1]
            /\ sender' = [sender EXCEPT ![s].left = Tail(@)]
            /\ UNCHANGED prepared
  /\ UNCHANGED <<clock, lastSent, postSent, trailing, begun, naked>>

\* A bug: the address is not remembered.
Remember_Nothing(d) == UNCHANGED postSent

Remember(d) == postSent' = postSent \cup {d}

\* maybeSendPostHandshakeJunk: once per address, in a goroutine that starts
\* before the initiation itself is sent.
Post(s) ==
  /\ sender[s].at = "post"
  /\ LET d == sender[s].to
     IN IF Trailing > 0 /\ d \notin postSent
          THEN Remember(d) /\ trailing' = [trailing EXCEPT ![d] = @ + Trailing]
          ELSE UNCHANGED <<postSent, trailing>>
  /\ sender' = [sender EXCEPT ![s].at = "inner"]
  /\ UNCHANGED <<clock, lastSent, begun, sent, prepared, naked>>

TrailingJunk(d) == /\ trailing[d] > 0
                   /\ trailing' = [trailing EXCEPT ![d] = @ - 1]
                   /\ sent' = [sent EXCEPT ![d].junk = @ + 1]
                   /\ UNCHANGED <<clock, lastSent, postSent, sender, begun, prepared, naked>>

\* The batch itself.
Inner(s) ==
  /\ sender[s].at = "inner"
  /\ LET d == sender[s].to
     IN IF sender[s].init
          THEN /\ sent' = [sent EXCEPT ![d].init = @ + 1]
               /\ naked' = IF d \in prepared \/ \E t \in Senders : sender[t].at = "preflight"
                                                                 /\ sender[t].to = d
                             THEN naked ELSE naked \cup {d}
          ELSE UNCHANGED <<sent, naked>>
  /\ sender' = [sender EXCEPT ![s] = [Idle EXCEPT !.sends = sender[s].sends]]
  /\ UNCHANGED <<clock, lastSent, postSent, trailing, begun, prepared>>

Tick == /\ clock < MaxTime /\ clock' = clock + 1
        /\ UNCHANGED <<lastSent, postSent, sender, trailing, begun, sent, prepared, naked>>

Next == /\ Usable
        /\ \/ \E s \in Senders : \/ ReadClock(s) \/ Gate(s) \/ Preflight(s) \/ Post(s) \/ Inner(s)
                                 \/ \E d \in Dests, i \in BOOLEAN : Send(s, d, i)
           \/ \E d \in Dests : TrailingJunk(d)
           \/ Tick

-----------------------------------------------------------------------------
\* Shapes of the state.
TypeOK == /\ \A d \in Dests : lastSent[d] <= clock /\ trailing[d] \in 0..Jc
          /\ postSent \subseteq Dests
          /\ \A s \in Senders :
                sender[s].at \in {"idle", "gate", "lock", "preflight", "post", "inner"} /\ sender[s].now <= clock

\* However many goroutines start handshakes at once, and however long one waits
\* for the mutex with its reading of the clock, the times given to two preflights of
\* one address are an interval apart.
PreflightsAreApart == \A d \in Dests : \A a \in begun[d], b \in begun[d] :
                        a # b => a[1] >= b[1] + Interval \/ b[1] >= a[1] + Interval

\* So that in the long run there is no more than one in an interval: a preflight that
\* began late leaves its time to the next.
RateIsKept == \A d \in Dests : Cardinality(begun[d]) * Interval <= clock

\* By the times at which they begin, two preflights to an address come within the
\* interval only when one of them had waited for the mutex after it read the clock.
CrowdedOnlyByALateOne == \A d \in Dests : \A a \in begun[d], b \in begun[d] :
                           a # b => \/ a[2] >= b[2] + Interval \/ b[2] >= a[2] + Interval
                                    \/ a[1] < a[2] \/ b[1] < b[2]

\* The junk an address gets is that of its preflights and, once in the life of
\* the bind, the trailing junk.
JunkIsBounded ==
  \A d \in Dests : sent[d].junk <= Cardinality(begun[d]) * (JcAfterI1 + JcBeforeHS) + Trailing

\* No initiation goes to an address before a whole preflight to it, except one
\* that overtakes the preflight another goroutine is still sending.
NoNakedInit == naked = {}
=============================================================================
