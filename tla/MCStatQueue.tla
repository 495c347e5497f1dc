---------------------------- MODULE MCStatQueue ----------------------------
(***************************************************************************)
(* Instance of StatQueue for TLC: the devices are interchangeable.         *)
(***************************************************************************)
EXTENDS StatQueue, TLC

SameDevices == Permutations(Devices)
=============================================================================
