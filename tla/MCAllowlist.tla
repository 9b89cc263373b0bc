----------------------------- MODULE MCAllowlist -----------------------------
(* Allowlist for TLC: domains are interchangeable. *)
EXTENDS Allowlist, TLC

DomainSymmetry == Permutations(Domain)
=============================================================================
