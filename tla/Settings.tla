------------------------------ MODULE Settings ------------------------------
(* From the command line and the configuration file to the options RunWarp is
   called with (cmd/vwarp/rootcmd.go exec, config/config.go), and the export of a
   preset to a file (config/noize/loader.go).  The user runs the program several
   times; the file on disk is what one run leaves for the next.               *)
EXTENDS NoizeConfig, FiniteSets

CONSTANTS Flags,        \* the command lines the user may give
          Files,        \* the configuration files the user may write by hand
          Overrides     \* the WireGuard sections a hand-written noize file may hold:
                        \* on or off, with a preset's name or not, and its numbers

VARIABLES disk,         \* the configuration file, NoFile when there is none
          result,       \* how the last run of the program ended or what it started
          mixed         \* the last merge: preset, file and outcome

settingsVars == <<disk, result, mixed>>

Unset == "unset"  \* a setting that was not given

\* A configuration file: which sections are there and on, and the values that
\* only the file or the flags give.  A noize part is "none", "good", or "bad" when it
\* is JSON of the wrong shape, which is noticed only when it is used.
NoFile == [there |-> FALSE, wg |-> "absent", wgConfig |-> FALSE, wgNoize |-> "none",
           masque |-> "absent", preferred |-> FALSE, masqueNoize |-> "none",
           psiphon |-> FALSE, endpoint |-> Unset, testUrl |-> Unset]

\* The modes, by flag or by file.  A command line is a record of the modes asked for, of
\* config, wgconf and noize, and of the preset, endpoint and testUrl, Unset if not given.
Modes == {"masque", "preferred", "gool", "cfon"}

\* Where the noize settings of a run come from: "none", "file" or "preset".
Idle == [outcome |-> "none", modes |-> {}, wgconf |-> FALSE,
         wgNoize |-> "none", masqueNoize |-> "none", endpoint |-> Unset, testUrl |-> Unset]

Init == disk = NoFile /\ result = Idle /\ mixed = [done |-> FALSE]

-----------------------------------------------------------------------------
\* UnifiedConfig.Validate.
Validate(f) == /\ f.wg # "absent" \/ f.masque # "absent"
               /\ f.wg = "on" => f.wgConfig \/ f.endpoint # Unset

\* A value is taken from the file where the flag still has what the code takes
\* for its default; for the test URL that is not the flag's default.
Fill(flag, placeholder, value) == IF value # Unset /\ flag = placeholder THEN value ELSE flag

\* The modes a file switches on.
FileModes(f) == (IF f.masque = "on" THEN {"masque"} \cup (IF f.preferred THEN {"preferred"} ELSE {})
                                    ELSE {}) \cup
                (IF f.psiphon THEN {"cfon"} ELSE {})

\* exec's six tests: no two modes together.
Clashes(modes) == \E a \in modes, b \in modes : a # b

\* GetNoizeConfig fails on a part of the wrong shape in a section that is on.
Readable(f) == /\ ~(f.wg = "on" /\ f.wgNoize = "bad")
               /\ ~(f.masque = "on" /\ f.masqueNoize = "bad")

\* The file's settings if there is a file that can be read, even where it holds none;
\* otherwise the preset of the flags, whose default is a preset: without a file noize
\* is on unasked.  Both sections of every preset are on; the mode only switches on
\* what is on.
buildUnifiedNoizeConfig(c, f, modes) ==
  LET Part(on) == IF on THEN "file" ELSE "none"
      Preset   == {"wg", "masque"} \cup
                  (IF modes \cap {"masque", "preferred"} # {} THEN {"wg", "masque"} ELSE {"wg"})
      Has(sec) == IF sec \in Preset THEN "preset" ELSE "none"
  IN IF f.there /\ Readable(f)
       THEN [wg     |-> Part(f.wg = "on" /\ f.wgNoize = "good"),
             masque |-> Part(f.masque = "on" /\ f.masqueNoize = "good")]
     ELSE IF (~c.noize /\ c.preset = Unset) \/ c.preset \notin DOMAIN Presets
       THEN [wg |-> "none", masque |-> "none"]
       ELSE [wg |-> Has("wg"), masque |-> Has("masque")]

\* The options of a run with these flags and this file; MASQUE falls back to the
\* flags where the unified settings have nothing for it.
OptionsOf(c, f, modes) ==
  LET n == buildUnifiedNoizeConfig(c, f, modes)
  IN [outcome |-> "run", modes |-> modes,
      wgconf |-> c.wgconf \/ (f.there /\ f.wg = "on" /\ f.wgConfig),
      wgNoize |-> n.wg,
      masqueNoize |-> IF n.masque = "none" /\ c.noize /\ modes \cap {"masque", "preferred"} # {}
                        THEN "preset" ELSE n.masque,
      endpoint |-> Fill(c.endpoint, Unset, f.endpoint),
      testUrl |-> Fill(c.testUrl, "https://cp.cloudflare.com/", f.testUrl)]

\* One run of the program: a file that does not load or validate, and modes that
\* clash, end it; otherwise RunWarp is started.
exec(c) ==
  LET f     == IF c.config THEN disk ELSE NoFile
      modes == c.modes \cup FileModes(f)
  IN /\ result' = IF (c.config /\ (~disk.there \/ ~Validate(disk))) \/ Clashes(modes)
                    THEN [Idle EXCEPT !.outcome = "fatal"]
                    ELSE OptionsOf(c, f, modes)
     /\ UNCHANGED <<disk, mixed>>

-----------------------------------------------------------------------------
\* The file of a preset: both sections, and no endpoint.
Exported(p) == [NoFile EXCEPT !.there = TRUE, !.wg = "on", !.wgNoize = "good",
                              !.masque = "on", !.masqueNoize = "good"]

\* handleNoizeExport of a built-in preset, to a path with or without a directory:
\* SaveToFile cuts the path at its last separator, and a bare name has none.
Export(p, bare) == /\ IF bare THEN disk' = disk /\ result' = [Idle EXCEPT !.outcome = "panic"]
                              ELSE disk' = Exported(p) /\ result' = [Idle EXCEPT !.outcome = "exported"]
                   /\ UNCHANGED mixed

\* The user writes or edits the file.
WriteFile(f) == /\ disk' = f /\ disk # f
                /\ result' = Idle
                /\ UNCHANGED mixed

\* UnifiedNoizeConfig.Validate of one section: nothing is asked of one that is off,
\* and a name does not go with numbers.
ValidSection(o) == o.enabled => ~o.named /\ validateAtomicNoizeConfig(o.junk)

\* LoadMixed: the loader validates the file, then merges it over the preset.
LoadMixed(p, override) ==
  /\ ~mixed.done
  /\ ValidSection(override)
  /\ mixed' = [done |-> TRUE, preset |-> p, file |-> override,
               merged |-> Merge(GetPreset(p).wg, override.junk)]
  /\ UNCHANGED <<disk, result>>

\* A merge stands by itself, and a run that changes no file ends a behaviour: what a
\* run or an edit does depends on the file alone, so an edit is taken from the first
\* file or an exported one, and no run need follow another.
Next == \/ /\ ~mixed.done /\ result.outcome \in {"none", "exported"}
           /\ \E c \in Flags : exec(c)
        \/ /\ ~mixed.done /\ result.outcome = "none"
           /\ \E p \in DOMAIN Presets, bare \in BOOLEAN : Export(p, bare)
        \/ /\ ~mixed.done /\ ((disk = NoFile /\ result = Idle) \/ result.outcome = "exported")
           /\ \E f \in Files : WriteFile(f)
        \/ disk = NoFile /\ result = Idle
           /\ \E p \in DOMAIN Presets, o \in Overrides : LoadMixed(p, o)

Spec == Init /\ [][Next]_settingsVars

-----------------------------------------------------------------------------
\* Shapes of the state.
TypeOK == /\ result.outcome \in {"none", "run", "fatal", "panic", "exported"}
          /\ result.modes \subseteq Modes
          /\ mixed.done => DOMAIN mixed.merged = JunkFields

\* The numbers of the presets are sound, a file whose numbers are sound merged over
\* a preset stays sound but for mixtures, and even a mixture makes packets of a size
\* that can be sent.
PresetsStaySound ==
  /\ PresetsAreSound
  /\ mixed.done => /\ UnsoundOnlyByMixture(GetPreset(mixed.preset).wg, mixed.file.junk)
                   /\ JunkKeepsToRange(mixed.merged)

=============================================================================
