------------------------------ MODULE SshCommands ------------------------------
(***************************************************************************)
(* What `forward` and `ssh-target` promise: the assumptions and properties *)
(* of HostSsh, whose processes are called Command and session here, so     *)
(* that they and AgentKey's can be spoken of in one module.                *)
(***************************************************************************)
EXTENDS Naturals, Sequences

CONSTANTS
  Command, MaxPort, Requests, SshPort, MaxCommands, MaxSignals, MaxChanges

ASSUME CommandBounds ==
  MaxCommands \in Nat /\ MaxSignals \in Nat /\ MaxChanges \in Nat
ASSUME PortAssumption == 0 \notin SshPort /\ MaxPort \in Nat
\* strings.Split gives at least one part.
ASSUME RequestAssumption == Requests \subseteq Seq(Seq(Nat) \ {<<>>})

VARIABLES pin, sshd, file, taken, session, commands, signals, changes

Ssh == INSTANCE HostSsh WITH Proc <- Command, cli <- session

SshSpec == Ssh!Spec

-----------------------------------------------------------------------------
(* Properties *)

\* forwardSSHArgs and runSSH: a host port is listened on only while the command
\* that asked for it runs: no listener outlives it, whatever signals, a taken
\* port or a stopped VM ended it, so the same forward can be asked for again.
NothingOutlives ==
  \A t \in taken : Ssh!Alive(t.by) /\ Ssh!Busy(t.by) /\ t.port \in session[t.by].want

\* runSSH: a signal that code-vm has caught ends the command, and as a normal
\* stop, even when ssh exits on it, or on its own, at the same moment.
SignalStops ==
  \A p \in Command :
    session[p].caught > 0 /\ Ssh!At(p, "select") ~> Ssh!At(p, "stopped")

\* ssh-target: a port printed for a running VM without a warning is one at
\* which its sshd could be reached while the command ran, although the VM may
\* be restarted with another port between the command's reads.
ShownIsHeard ==
  \A p \in Command : Ssh!At(p, "printed") =>
    session[p].shown \in session[p].heard \union {Ssh!Unknown}
=============================================================================
