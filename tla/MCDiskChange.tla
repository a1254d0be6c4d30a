---------------------------- MODULE MCDiskChange ----------------------------
(***************************************************************************)
(* Instances of DiskChange for TLC.  Only whether two disks are equal      *)
(* matters, so two disks and their symmetry are enough.                    *)
(***************************************************************************)
EXTENDS DiskChange, TLC

CONSTANTS D1, D2

Disks == Permutations(Disk)
=============================================================================
