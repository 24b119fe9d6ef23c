--------------------------- MODULE MCTrackedFile ---------------------------
(***************************************************************************)
(* TrackedFile for TLC.  Inode numbers are interchangeable, so a run that  *)
(* checks only safety properties may use their symmetry.                   *)
(***************************************************************************)
EXTENDS TrackedFile, TLC

InodeSymmetry == Permutations(Inodes)
=============================================================================
