---------------------------- MODULE MCHostConfig ----------------------------
(* HostConfig for TLC: a home directory with three links in it. *)
EXTENDS HostConfig, TLC

\* ~/work leads to ~/.config, the profiles directory to ~/store, and ~/new to
\* where the keys will be.
MCName == {"home", "projects", "a", "config", "code-vm", "store", "fish", "data",
           "work", "new", "profiles", "ssh", "config.yaml"}
MCDir == {<<>>, <<"home">>, <<"home", "projects">>, <<"home", "projects", "a">>,
          <<"home", "config">>, <<"home", "config", "code-vm">>,
          <<"home", "store">>, <<"home", "store", "fish">>, <<"home", "data">>}
MCLink == (<<"home", "work">> :> <<"home", "config">>) @@
          (<<"home", "config", "code-vm", "profiles">> :> <<"home", "store">>) @@
          (<<"home", "new">> :> <<"home", "config", "code-vm", "ssh">>)
MCConfigArg == <<"home", "work", "code-vm", "config.yaml">>
MCRoot == <<"home", "projects">>
MCMountArg == {<<"home">>, <<"home", "work">>, <<"home", "store", "fish">>,
               <<"home", "projects", "a">>, <<"home", "data">>,
               <<"home", "config", "code-vm", "ssh">>}
MCEditedMounts == {{MCRoot, <<"home", "store">>}, {MCRoot, <<"home", "data">>},
                   {<<>>, <<"home", "new">>}}

MCHost == {<<"org", "a">>, <<"org", "a", "c">>, <<"org", "b">>}
MCBase == {[sub |-> TRUE, host |-> <<"org", "b">>]}
MCEditedDomains == {{[sub |-> FALSE, host |-> <<"org", "a">>]}}

\* Integers of 6 bits; 5 and 17 units of 4 and 16 are where they wrap.
MCUnit == {1, 4, 16}
Sized(swap, swapUnit, disk, diskUnit) ==
  [swap |-> [n |-> swap, unit |-> swapUnit],
   disk |-> [n |-> disk, unit |-> diskUnit]]
MCEditedSizes ==
  {Sized(0, 1, 1, 1), Sized(1, 1, 2, 1), Sized(17, 4, 63, 1), Sized(5, 16, 63, 1),
   Sized(10, 4, 63, 1), Sized(1, 16, 17, 4), Sized(63, 1, 64, 1)}

ProcSymmetry == Permutations(Proc)
=============================================================================
