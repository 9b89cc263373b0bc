------------------------------ MODULE MCAgentKey ------------------------------
(* Model values and symmetry for checking AgentKey with TLC. *)
EXTENDS AgentKey, TLC

ProcSymmetry == Permutations(Proc)
=============================================================================
