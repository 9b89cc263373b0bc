------------------------------ MODULE MCHostSsh ------------------------------
(* HostSsh for TLC: three ports, of which 0 and 4 are none. *)
EXTENDS SshCommands

MCRequests == {<<<<1>>, <<2, 3>>>>, <<<<2>>>>, <<<<1>>, <<1, 2>>>>, <<<<4>>>>,
               <<<<1, 0>>>>}
=============================================================================
