------------------------------ MODULE MCFirewall ------------------------------
(* Model values and symmetry for checking Firewall with TLC. *)
EXTENDS Firewall, TLC

RunSymmetry == Permutations(Run)
=============================================================================
