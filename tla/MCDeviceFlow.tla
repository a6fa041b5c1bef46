---------------------------- MODULE MCDeviceFlow ----------------------------
(* DeviceFlow on small instances, with the symmetry of its identities.     *)
EXTENDS DeviceFlow, TLC

Symmetry == Permutations(Users) \cup Permutations(Links) \cup Permutations(Requests)
=============================================================================
