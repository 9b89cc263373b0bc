------------------------------ MODULE MCProfiles ------------------------------
(* Profiles for TLC: plans over two profiles and two paths. *)
EXTENDS Profiles, TLC

CONSTANTS fish, team, rc, md

Version(name, edition, files, templates, hook, sh) ==
  [name |-> name, edition |-> edition, files |-> files, templates |-> templates,
   hook |-> hook, shell |-> sh]

\* Both ship rc and team wins; fish has dropped its files and ships md as a
\* template; the two kinds collide on rc; nothing is active.
Both == <<Version(fish, 1, {rc, md}, {}, TRUE, 1), Version(team, 1, {rc}, {}, TRUE, 2)>>
Dropped == <<Version(team, 1, {rc}, {}, TRUE, 0), Version(fish, 2, {}, {md}, FALSE, 1)>>
Collide == <<Version(team, 1, {rc}, {}, FALSE, 0), Version(fish, 3, {}, {rc}, FALSE, 0)>>
AllPlans == {Both, Dropped, Collide, <<>>}

ProcSymmetry == Permutations(Proc)
=============================================================================
