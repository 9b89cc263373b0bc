------------------------------- MODULE KeyTrust -------------------------------
(***************************************************************************)
(* What package agentssh promises of an instance's key: the host gets one  *)
(* keypair, the guest trusts no key or that one, and neither changes until *)
(* the user rotates the key.  After that nothing is promised here.         *)
(***************************************************************************)
EXTENDS Naturals

VARIABLES
  host,    \* the keypair on the host, 0 while there is none to use
  guest,   \* the key the guest trusts, 0 when none
  rotated  \* the user has deleted the keypair

trust == <<host, guest, rotated>>

Init == host = 0 /\ guest = 0 /\ rotated = FALSE

Generate ==
  /\ ~rotated /\ host = 0
  /\ host' \in Nat /\ host' # 0
  /\ UNCHANGED <<guest, rotated>>

Deliver ==
  /\ ~rotated /\ host # 0
  /\ guest' = host
  /\ UNCHANGED <<host, rotated>>

Rotate == rotated' = TRUE

Next == Generate \/ Deliver \/ Rotate

Spec == Init /\ [][Next]_trust
=============================================================================
