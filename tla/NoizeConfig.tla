---------------------------- MODULE NoizeConfig ----------------------------
(* The obfuscation settings (config/noize): the built-in presets, what the
   loader accepts, what the validator asks for, and the merge of a custom file
   over a preset.

   A junk record holds the numbers that constrain each other: how many junk
   packets in all and how many in each phase, their sizes, the fragment size and
   the padding.  0 is what Go leaves in a field the file does not set.  Delays,
   signature packets, flags and names are left out: nothing relates them.      *)
EXTENDS Naturals

Junk(jc, jmin, jmax, afterI1, beforeHS, duringHS, afterHS, frag, padMin, padMax) ==
  [jc |-> jc, jmin |-> jmin, jmax |-> jmax, afterI1 |-> afterI1, beforeHS |-> beforeHS,
   duringHS |-> duringHS, afterHS |-> afterHS, frag |-> frag, padMin |-> padMin,
   padMax |-> padMax]

JunkFields == {"jc", "jmin", "jmax", "afterI1", "beforeHS", "duringHS", "afterHS", "frag",
               "padMin", "padMax"}

-----------------------------------------------------------------------------
\* The seven built-in presets, as their create functions fill them in.
Presets ==
  [minimal  |-> [wg     |-> Junk( 0,  0,   0, 0, 0, 0, 0,   0,  0,   0),
                 masque |-> Junk( 0,  0,   0, 0, 0, 0, 0,   0,  0,   0)],
   light    |-> [wg     |-> Junk( 2, 20,  50, 1, 1, 0, 0,   0,  0,   0),
                 masque |-> Junk( 2, 20,  50, 0, 2, 0, 0,   0,  0,   0)],
   medium   |-> [wg     |-> Junk( 4, 40,  70, 1, 2, 0, 1,   0,  0,   0),
                 masque |-> Junk( 3, 40,  80, 1, 2, 0, 0, 512, 16,  32)],
   heavy    |-> [wg     |-> Junk( 8, 60, 120, 2, 3, 0, 3,   0,  0,   0),
                 masque |-> Junk( 6, 64, 128, 1, 3, 1, 1, 256, 32, 128)],
   stealth  |-> [wg     |-> Junk(12, 80, 200, 3, 4, 0, 5,   0,  0,   0),
                 masque |-> Junk( 8, 100, 256, 1, 4, 2, 1, 200, 64, 200)],
   gfw      |-> [wg     |-> Junk( 6, 50, 100, 1, 3, 0, 2,   0,  0,   0),
                 masque |-> Junk( 5, 64, 120, 1, 3, 1, 0, 300, 32,  80)],
   firewall |-> [wg     |-> Junk( 3, 30,  60, 1, 1, 0, 1,   0,  0,   0),
                 masque |-> Junk( 4, 32,  64, 1, 2, 1, 0,   0, 16,  48)]]

\* GetPreset knows no other name.
GetPreset(name) == Presets[name]

-----------------------------------------------------------------------------
InPhases(c) == c.afterI1 + c.beforeHS + c.duringHS + c.afterHS

\* The loader's own checks, made before a file is merged.
validateAtomicNoizeConfig(c) == c.jc <= 128 /\ c.jmin <= c.jmax /\ InPhases(c) <= c.jc

validateMASQUEConfig(c) == c.jc <= 20 /\ c.jmin <= c.jmax

\* The stricter checks of the validator.
ValidateAtomicNoizeConfig(c) == validateAtomicNoizeConfig(c) /\ c.jmax <= 1400

ValidateNoizeConfig(c) == /\ validateMASQUEConfig(c) /\ c.jmax <= 1400
                          /\ InPhases(c) <= c.jc
                          /\ c.frag = 0 \/ c.frag >= 64
                          /\ c.padMin <= c.padMax /\ c.padMax <= 500

-----------------------------------------------------------------------------
\* A bug: a field forgotten in the merge keeps the preset's value.
Merge_ForgetsTotal(base, override) ==
  [f \in JunkFields |-> IF override[f] # 0 /\ f # "jc" THEN override[f] ELSE base[f]]

\* mergeAtomicNoizeConfig and mergeNoizeConfig: a field the file sets wins.
Merge(base, override) ==
  [f \in JunkFields |-> IF override[f] # 0 THEN override[f] ELSE base[f]]

-----------------------------------------------------------------------------
\* A bug: the byte UDP wants is forgotten.
JunkSizes_NoFloor(c, allowZero) == IF c.jmax > c.jmin THEN c.jmin..c.jmax ELSE {c.jmin}

\* generateJunkPacket: the sizes a junk packet may have.  UDP wants a byte unless
\* empty packets are allowed.
JunkSizes(c, allowZero) ==
  LET lo == IF c.jmin = 0 /\ ~allowZero THEN 1 ELSE c.jmin
      hi == IF c.jmax < lo /\ ~allowZero THEN lo ELSE c.jmax
  IN IF hi > lo THEN lo..hi ELSE {lo}

\* The same in masque/noize, which has sizes of its own where none are set.
MasqueJunkSizes(c, allowZero) ==
  IF c.jmin = 0 /\ c.jmax = 0 THEN (IF allowZero THEN {0} ELSE 40..90)
  ELSE LET lo == IF c.jmin = 0 /\ ~allowZero THEN 1 ELSE c.jmin
       IN IF c.jmax > lo THEN lo..c.jmax ELSE {lo}

-----------------------------------------------------------------------------
Top(c) == IF c.jmax > c.jmin THEN c.jmax ELSE c.jmin

\* Junk packets keep to the range of the settings, also where its ends are swapped,
\* but for the byte UDP wants, and are empty only where that is allowed.
JunkKeepsToRange(c) ==
  \A zero \in BOOLEAN : /\ JunkSizes(c, zero) \subseteq (c.jmin..Top(c)) \cup {1}
                        /\ 0 \in JunkSizes(c, zero) => zero

MasqueJunkKeepsToRange(c) ==
  \A zero \in BOOLEAN :
    /\ Top(c) > 0 => MasqueJunkSizes(c, zero) \subseteq (c.jmin..Top(c)) \cup {1}
    /\ 0 \in MasqueJunkSizes(c, zero) => zero

\* The numbers of every preset pass the checks made of the numbers of a file.  As a
\* whole the checks refuse every preset, for it has a name beside its numbers; they
\* are made of files only.
PresetsAreSound == \A p \in DOMAIN Presets : /\ ValidateAtomicNoizeConfig(GetPreset(p).wg)
                                             /\ JunkKeepsToRange(GetPreset(p).wg)
                                             /\ ValidateNoizeConfig(GetPreset(p).masque)
                                             /\ MasqueJunkKeepsToRange(GetPreset(p).masque)

\* Where a number of the merged settings comes from.
FromFile(override, f) == override[f] # 0

\* A sound file merged over a sound preset is unsound only by mixture: the file
\* sets a total and leaves phases to the preset, or only one end of a size range.
UnsoundOnlyByMixture(base, override) ==
  ValidateAtomicNoizeConfig(override) =>
    \/ ValidateAtomicNoizeConfig(Merge(base, override))
    \/ /\ FromFile(override, "jc")
       /\ \E f \in {"afterI1", "beforeHS", "afterHS"} : ~FromFile(override, f) /\ base[f] > 0
    \/ FromFile(override, "jmin") # FromFile(override, "jmax")
=============================================================================
