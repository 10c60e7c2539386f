-------------------------- MODULE MCDeviceLifecycle --------------------------
(***************************************************************************)
(* DeviceLifecycle with interchangeable callers and peers.                 *)
(***************************************************************************)
EXTENDS DeviceLifecycle, TLC

Interchangeable == Permutations(Callers) \cup Permutations(Peers)

=============================================================================
