---------------------------- MODULE MCVmLifecycle ----------------------------
(* VmLifecycle for TLC: processes are interchangeable. *)
EXTENDS VmLifecycle, TLC

ProcSymmetry == Permutations(Proc)
=============================================================================
