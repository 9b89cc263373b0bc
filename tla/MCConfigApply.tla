---------------------------- MODULE MCConfigApply ----------------------------
(* ConfigApply for TLC: two processes, of an older and a newer code-vm. *)
EXTENDS ConfigApply

CONSTANTS p1, p2
OldAndNew == [p \in {p1, p2} |-> IF p = p1 THEN 1 ELSE 2]
\* The newer version has dropped a file.
OneDropped == [v \in {1, 2} |-> IF v = 1 THEN File ELSE {"settings"}]
=============================================================================
