---------------------------- MODULE MCSyncDevices ----------------------------
(* Two devices of one project and one record.                              *)
EXTENDS SyncDevices

Symmetry == Permutations(Devices)
=============================================================================
