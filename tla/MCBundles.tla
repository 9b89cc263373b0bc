------------------------------ MODULE MCBundles ------------------------------
(* Bundles for TLC: two profiles, one of them in three editions. *)
EXTENDS Bundles, TLC

CONSTANTS team, fish, token

Secret == [kind |-> "secret", name |-> token]
Var == [kind |-> "var", name |-> token]

Bundle(declares, hook, files, templates, blank) ==
  [manifest |-> [declares |-> declares, hook |-> hook, other |-> FALSE,
                 sane |-> TRUE],
   files |-> files, templates |-> templates, blank |-> blank]
Insane(bundle) == [bundle EXCEPT !.manifest.sane = FALSE]
Template(rel, refs) == [rel |-> rel, refs |-> refs]

\* The token is a secret, then a variable, then undeclared, the hook blank and
\* the manifest refused.
MCEdition ==
  (team :> <<Bundle({Secret}, TRUE, {"md"}, {Template("rc", {Secret})}, FALSE),
             Bundle({Var}, FALSE, {"rc"}, {Template("md", {Var})}, FALSE),
             Insane(Bundle({}, TRUE, {}, {Template("rc", {Secret})}, TRUE))>>) @@
  (fish :> <<Bundle({}, FALSE, {"rc"}, {}, FALSE)>>)

MCActives == {<<team>>, <<fish, team>>}
ProcSymmetry == Permutations(Proc)
=============================================================================
