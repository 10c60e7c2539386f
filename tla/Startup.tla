------------------------------ MODULE Startup ------------------------------
(* How the program brings a tunnel up (app/app.go, app/wg.go, psiphon/p.go):
   RunWarp picks a working mode, makes the devices of that mode with at most two
   tries each, tests them, and serves a proxy over the last one.

   A device is what device.NewDevice returned to establishWireguard; nothing but
   a handshake that timed out ever closes one, so the sequence of devices also
   says what an earlier try left running.  The tries of one run share one private key.
   Each device has a reader of its TUN's events, and the TUN is made with an event
   that brings the device up, whenever the reader gets to it.
   What the parts do inside (the handshake, the MASQUE adapter and its
   maintenance, the scan, the identity) is modelled in modules of their own;
   here each is its outcome.                                                  *)
EXTENDS Naturals, Sequences, FiniteSets

CONSTANTS Options,      \* the options RunWarp may be called with
          MaxNotices    \* bound on the connections psiphon's controller reports

VARIABLES startPc,      \* where RunWarp is
          mode,         \* the function the switch of RunWarp called
          opts,
          layer,        \* "outer" or "inner": which device of warp-in-warp is made
          try,          \* 1 for trick t1, 2 for t2
          devices,      \* every device made so far
          tested,       \* indices of the devices whose connectivity test passed
          forward,      \* index of the device the UDP forwarder runs over, or 0
          adapter,      \* the MASQUE adapter: "none", "open" or "closed"
          maintain,     \* maintainMasqueTunnel has been started
          proxyFailed,  \* StartProxy of the MASQUE tunnel failed
          controller,   \* psiphon's controller: "none", "running", "exited"
          notices,      \* notices in a goroutine of their own, not offered yet
          reported,     \* connections reported so far
          missed        \* an offered notice found nobody waiting

startVars == <<startPc, mode, opts, layer, try, devices, tested, forward, adapter,
               maintain, proxyFailed, controller, notices, reported, missed>>

Tricks == <<"t1", "t2">>
Ended == startPc \in {"serving", "fatal", "stopped"}

Keep == UNCHANGED <<mode, opts, layer, try, devices, tested, forward, adapter, maintain,
                    proxyFailed, controller, notices, reported, missed>>

Init == /\ startPc = "dispatch" /\ mode = "none" /\ opts \in Options
        /\ layer = "outer" /\ try = 1 /\ devices = <<>> /\ tested = {} /\ forward = 0
        /\ adapter = "none" /\ maintain = FALSE /\ proxyFailed = FALSE
        /\ controller = "none" /\ notices = {} /\ reported = 0 /\ missed = FALSE

\* The first step of a mode.
FirstStep == [wireguard |-> "identity", warp |-> "identity", gool |-> "identity",
              psiphon |-> "identity", masque |-> "masque"]

\* A step that failed for good: only a preferred MASQUE tunnel has a second way.
Failed == IF opts.preferred /\ ~opts.masque /\ mode = "masque"
             THEN startPc' = "identity" /\ mode' = "warp"
             ELSE startPc' = "fatal" /\ mode' = mode

-----------------------------------------------------------------------------
\* A configuration file of WireGuard's own rules out everything else; modes
\* that cannot be combined are refused; the rest is one switch.
Clash == \/ opts.psiphon /\ (opts.gool \/ opts.masque \/ ~opts.country)
         \/ opts.masque /\ opts.gool

Chosen == CASE opts.wgconf                     -> "wireguard"
            [] opts.masque \/ opts.preferred   -> "masque"
            [] opts.psiphon                    -> "psiphon"
            [] opts.gool                       -> "gool"
            [] OTHER                           -> "warp"

RunWarp == /\ startPc = "dispatch"
           /\ \/ /\ ~opts.wgconf /\ Clash
                 /\ startPc' = "fatal" /\ mode' = mode
              \/ /\ opts.wgconf \/ ~Clash
                 /\ mode' = Chosen
                 /\ startPc' = IF opts.scan /\ ~opts.wgconf THEN "scan" ELSE FirstStep[Chosen]
           /\ UNCHANGED <<opts, layer, try, devices, tested, forward, adapter, maintain,
                          proxyFailed, controller, notices, reported, missed>>

\* The scan needs the primary identity, and its result replaces the endpoint.
Scan == /\ startPc = "scan"
        /\ startPc' \in {"fatal", FirstStep[mode]}
        /\ Keep

\* LoadOrCreateIdentity, primary for the outer device and secondary for the inner,
\* or ParseConfig of WireGuard's own file; ParseReserved may refuse as well.
LoadIdentity == /\ startPc = "identity"
                /\ startPc' \in {"try", "fatal"}
                /\ Keep

-----------------------------------------------------------------------------
\* The device a try makes: the old trick and AtomicNoize exclude each other, and
\* the inner device of warp-in-warp gets neither.
Device(state, failed) ==
  [key   |-> IF layer = "inner" THEN "secondary" ELSE "primary",
   noize |-> opts.noize /\ layer = "outer",
   trick |-> IF opts.noize \/ layer = "inner" THEN "t0" ELSE Tricks[try],
   state |-> state, failed |-> failed, shook |-> FALSE]

\* A bug: one more try after the last.
NextTry_Again == /\ startPc' = "try" /\ try' = IF try < 2 THEN try + 1 ELSE 1
                 /\ mode' = mode

\* A bug: whatever the tries gave is served.
NextTry_Serves == IF layer = "outer" /\ try < 2
                     THEN startPc' = "try" /\ try' = try + 1 /\ mode' = mode
                     ELSE startPc' = "serve" /\ UNCHANGED <<mode, try>>

\* What follows a try that failed.
NextTry == IF layer = "outer" /\ try < 2
              THEN startPc' = "try" /\ try' = try + 1 /\ mode' = mode
              ELSE Failed /\ UNCHANGED try

\* CreateNetTUN and the AtomicNoize bind: a failure of either makes no device.
\* Otherwise the device is there, and IpcSet and Up may still fail and leave it.
MakeDevice == /\ startPc = "try"
              /\ \/ NextTry /\ UNCHANGED devices
                 \/ NextTry /\ devices' = Append(devices, Device("made", "setup"))
                 \/ /\ devices' = Append(devices, Device("up", "none"))
                    /\ startPc' = "handshake" /\ UNCHANGED <<mode, try>>
              /\ UNCHANGED <<opts, layer, tested, forward, adapter, maintain, proxyFailed,
                             controller, notices, reported, missed>>

\* RoutineTUNEventReader finds the EventUp of CreateNetTUN: it brings a device up that
\* was left behind, and does nothing to one that is up or closed.
EventUp(i) == /\ startPc \notin {"fatal", "stopped"}
              /\ devices[i].state = "made"
              /\ devices' = [devices EXCEPT ![i].state = "up"]
              /\ UNCHANGED <<startPc, mode, opts, layer, try, tested, forward, adapter, maintain,
                             proxyFailed, controller, notices, reported, missed>>

\* A bug: a handshake that timed out leaves the device running.
WaitHandshake_KeepsDevice ==
  /\ startPc = "handshake"
  /\ \/ /\ devices' = [devices EXCEPT ![Len(devices)].shook = TRUE]
        /\ startPc' = "test" /\ UNCHANGED <<mode, try>>
     \/ /\ devices' = [devices EXCEPT ![Len(devices)].failed = "timeout"]
        /\ NextTry
  /\ UNCHANGED <<opts, layer, tested, forward, adapter, maintain, proxyFailed, controller,
                 notices, reported, missed>>

\* waitHandshake polls the device for at most fifteen seconds.
WaitHandshake ==
  /\ startPc = "handshake"
  /\ \/ /\ devices' = [devices EXCEPT ![Len(devices)].shook = TRUE]
        /\ startPc' = "test" /\ UNCHANGED <<mode, try>>
     \/ /\ devices' = [devices EXCEPT ![Len(devices)].state = "closed", ![Len(devices)].failed = "timeout"]
        /\ NextTry
  /\ UNCHANGED <<opts, layer, tested, forward, adapter, maintain, proxyFailed, controller,
                 notices, reported, missed>>

\* usermodeTunTest: one request through the new device.
Test == /\ startPc = "test"
        /\ \/ /\ devices' = [devices EXCEPT ![Len(devices)].failed = "test"]
              /\ NextTry /\ UNCHANGED tested
           \/ /\ tested' = tested \cup {Len(devices)}
              /\ startPc' = IF mode = "gool" /\ layer = "outer" THEN "forward" ELSE "serve"
              /\ UNCHANGED <<mode, try, devices>>
        /\ UNCHANGED <<opts, layer, forward, adapter, maintain, proxyFailed,
                       controller, notices, reported, missed>>

\* Warp in warp: a forwarder over the outer device carries the inner one, which
\* is made once, with the secondary identity.
Forward == /\ startPc = "forward"
           /\ \/ startPc' = "fatal" /\ UNCHANGED <<forward, layer>>
              \/ startPc' = "identity" /\ forward' = Len(devices) /\ layer' = "inner"
           /\ UNCHANGED <<mode, opts, try, devices, tested, adapter, maintain, proxyFailed,
                          controller, notices, reported, missed>>

\* StartProxy; with psiphon the proxy is a local one that psiphon goes through.
Serve == /\ startPc = "serve"
         /\ startPc' \in {"fatal", IF mode = "psiphon" THEN "psiphon" ELSE "serving"}
         /\ Keep

-----------------------------------------------------------------------------
\* A bug: an attempt that failed after the adapter was made does not close it.
MasqueGivesUp_KeepsAdapter == adapter' = "open"

\* The deferred adapter.Close.
MasqueGivesUp == adapter' = "closed"

\* Three attempts to make the adapter; then the tunnel's addresses and a netstack.
Masque == /\ startPc = "masque"
          /\ \/ Failed /\ UNCHANGED <<adapter, maintain>>
             \/ Failed /\ MasqueGivesUp /\ UNCHANGED maintain
             \/ /\ startPc' = "masqueTest" /\ adapter' = "open" /\ maintain' = TRUE
                /\ mode' = mode
          /\ UNCHANGED <<opts, layer, try, devices, tested, forward, proxyFailed, controller,
                         notices, reported, missed>>

\* The connectivity test of the MASQUE tunnel only warns; a proxy that cannot be
\* bound fails the mode while the maintenance goroutine goes on.
MasqueServe ==
  /\ startPc = "masqueTest"
  /\ \/ startPc' = "serving" /\ mode' = mode /\ UNCHANGED <<adapter, proxyFailed>>
     \/ Failed /\ MasqueGivesUp /\ proxyFailed' = TRUE
  /\ UNCHANGED <<opts, layer, try, devices, tested, forward, maintain, controller, notices,
                 reported, missed>>

\* maintainMasqueTunnel finds the adapter closed and makes a new one.
Maintain == /\ maintain /\ adapter = "closed" /\ startPc \notin {"fatal", "stopped"}
            /\ adapter' = "open"
            /\ UNCHANGED <<startPc, mode, opts, layer, try, devices, tested, forward, maintain,
                           proxyFailed, controller, notices, reported, missed>>

-----------------------------------------------------------------------------
\* StartTunnel up to the goroutine that runs the controller.
StartTunnel == /\ startPc = "psiphon"
               /\ \/ startPc' = "fatal" /\ UNCHANGED controller
                  \/ startPc' = "beforeSelect" /\ controller' = "running"
               /\ UNCHANGED <<mode, opts, layer, try, devices, tested, forward, adapter,
                              maintain, proxyFailed, notices, reported, missed>>

\* Only now does anybody wait on the two unbuffered channels.
Select == /\ startPc = "beforeSelect"
          /\ startPc' = "select"
          /\ Keep

\* The controller reports a tunnel, or that none could be made in a minute; each
\* notice is handled in a goroutine of its own.
Notice == /\ controller = "running" /\ reported < MaxNotices /\ startPc # "stopped"
          /\ \E n \in {"connected", "timeout"} : notices' = notices \cup {n}
          /\ reported' = reported + 1
          /\ UNCHANGED <<startPc, mode, opts, layer, try, devices, tested, forward, adapter,
                         maintain, proxyFailed, controller, missed>>

\* controller.Run returns; that too is only offered.
ControllerExits == /\ controller = "running" /\ startPc # "stopped"
                   /\ controller' = "exited"
                   /\ notices' = notices \cup {"exited"}
                   /\ UNCHANGED <<startPc, mode, opts, layer, try, devices, tested, forward,
                                  adapter, maintain, proxyFailed, reported, missed>>

\* A bug: the waiting goroutine has no case for errors.
Offer_NoError(n) ==
  /\ n \in notices
  /\ notices' = notices \ {n}
  /\ IF startPc = "select" /\ n = "connected"
        THEN startPc' = "serving" /\ UNCHANGED missed
        ELSE UNCHANGED startPc /\ missed' = (missed \/ startPc = "beforeSelect")
  /\ UNCHANGED <<mode, opts, layer, try, devices, tested, forward, adapter, maintain,
                 proxyFailed, controller, reported>>

\* The send of a notice, with a default branch: without a receiver it is dropped.
Offer(n) ==
  /\ n \in notices
  /\ notices' = notices \ {n}
  /\ IF startPc = "select"
        THEN /\ startPc' = IF n = "connected" THEN "serving" ELSE "fatal"
             /\ UNCHANGED missed
        ELSE UNCHANGED startPc /\ missed' = (missed \/ startPc = "beforeSelect")
  /\ UNCHANGED <<mode, opts, layer, try, devices, tested, forward, adapter, maintain,
                 proxyFailed, controller, reported>>

\* The user stops the program: exec returns and the process ends.
Interrupt == /\ startPc \notin {"fatal", "stopped"}
             /\ startPc' = "stopped"
             /\ Keep

-----------------------------------------------------------------------------
Steps == \/ RunWarp \/ Scan \/ LoadIdentity \/ MakeDevice \/ WaitHandshake \/ Test
         \/ Forward \/ Serve \/ Masque \/ MasqueServe \/ StartTunnel \/ Select

Psiphon == Notice \/ ControllerExits \/ (\E n \in notices : Offer(n))

Next == Steps \/ Psiphon \/ Maintain \/ Interrupt \/ (\E i \in DOMAIN devices : EventUp(i))

\* What happens without being asked: the program's own goroutines, and a first
\* notice, since the controller gives up establishing a tunnel after a minute.
StartSystem == Steps \/ (\E n \in notices : Offer(n)) \/ (reported = 0 /\ Notice)

-----------------------------------------------------------------------------
\* Shapes of the state.
TypeOK ==
  /\ mode \in DOMAIN FirstStep \cup {"none"} /\ layer \in {"outer", "inner"} /\ try \in 1..2
  /\ devices \in Seq([key : {"primary", "secondary"}, noize : BOOLEAN,
                      trick : {"t0", "t1", "t2"}, state : {"made", "up", "closed"},
                      failed : {"none", "setup", "timeout", "test"}, shook : BOOLEAN])
  /\ Len(devices) <= 3 /\ tested \subseteq 1..Len(devices) /\ forward \in 0..Len(devices)
  /\ adapter \in {"none", "open", "closed"} /\ reported \in 0..MaxNotices

\* A proxy is only served over a device that is up, has shaken hands and has
\* carried the test request; for warp in warp the device below it too, and the
\* two are of different identities.
Works(i) == i \in tested /\ devices[i].state = "up" /\ devices[i].shook

ServedTunnelWorks ==
  startPc = "serving" /\ mode # "masque" =>
    /\ Len(devices) > 0 /\ Works(Len(devices))
    /\ mode = "gool" => /\ forward \in 1..(Len(devices) - 1) /\ Works(forward)
                        /\ devices[forward].key # devices[Len(devices)].key

\* Two devices run on one private key only when the first one's set-up or its test
\* failed: a try that got no handshake leaves nothing running, and neither does a
\* device that is in use get a second one beside it.
OnlySetupAndTestStrand ==
  \A i \in DOMAIN devices : \A j \in DOMAIN devices :
    i < j /\ devices[i].key = devices[j].key /\ devices[i].state = "up" =>
      devices[i].failed \in {"setup", "test"}

\* After the fall back to WireGuard a MASQUE tunnel is open besides it only if
\* it was the proxy that failed, because the maintenance cannot be called off.
FallbackLeavesNoTunnel == mode = "warp" /\ adapter = "open" => proxyFailed

\* Bringing the tunnel up ends, in a served proxy or in an error, unless a notice
\* of psiphon's was offered before StartTunnel waited for it.
StartEnds == startPc = "dispatch" ~> (Ended \/ missed)
=============================================================================
