-------------------------- MODULE MCDeviceLockFile --------------------------
(* Processes on one device.  Two are enough for a sweep to misfire and for  *)
(* two holders; the third is there to probe, sweep and queue meanwhile.     *)
(* Inodes and processes are interchangeable and no property is a liveness   *)
(* property, so both are symmetry sets.                                     *)
EXTENDS DeviceLockFile, TLC

Symmetry == Permutations(Inodes) \cup Permutations(Procs)
=============================================================================
