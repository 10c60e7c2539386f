-------------------------- MODULE MCNoiseHandshake --------------------------
EXTENDS NoiseHandshake, TLC

Interchangeable ==
    Permutations(Devices) \cup Permutations(Indices \ {ZeroIndex}) \cup Permutations(Workers)

=============================================================================
