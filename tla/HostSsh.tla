------------------------------- MODULE HostSsh -------------------------------
(***************************************************************************)
(* The two commands that use the VM's sshd from the host.  `forward` runs  *)
(* an ssh of its own that listens on host ports until a signal reaches it; *)
(* `ssh-target` prints the port at which a client finds the sshd.  Both    *)
(* look at the VM first and act on it later.                               *)
(***************************************************************************)
EXTENDS Naturals, FiniteSets, SequencesExt

CONSTANTS
  Proc,         \* concurrent code-vm processes
  MaxPort,      \* the largest port number
  Requests,     \* argument lists of `forward`, each argument one or two numbers
  SshPort,      \* host ports that Lima may forward to the sshd
  MaxCommands,  \* bound on commands
  MaxSignals,   \* bound on signals
  MaxChanges    \* bound on starts and stops of the VM and edits of the config

\* SshCommands has the assumptions about them.

Unknown == 0

VARIABLES
  pin,      \* sshPort of config.yaml
  sshd,     \* the port of the running VM's sshd
  file,     \* the port in Lima's ssh config for the instance
  taken,    \* host ports that are listened on, with the process whose ssh does
  cli,      \* the code-vm processes, each with its ssh
  commands, signals, changes

vars == <<pin, sshd, file, taken, cli, commands, signals, changes>>
bounds == <<commands, signals, changes>>

-----------------------------------------------------------------------------
(* Arguments *)

\* parseForward: PORT or HOST_PORT:GUEST_PORT.
WellFormed(arg) == Len(arg) \in 1 .. 2 /\ Range(arg) \subseteq 1 .. MaxPort
HostPort(arg) == Head(arg)
Distinct(args) == IsInjective([i \in DOMAIN args |-> HostPort(args[i])])
Accepted(args) == (\A i \in DOMAIN args : WellFormed(args[i])) /\ Distinct(args)

-----------------------------------------------------------------------------
(* Processes *)

\* want: host ports to forward; sent, caught: signals under way to it, and in
\* its channel; pinned, running, live: what ssh-target has read; heard
\* (history): the sshd's ports since the command began; shown: the port
\* printed without a warning for a running VM.
Idle == [pc |-> "idle", cmd |-> "none", want |-> {}, ssh |-> "none",
         sent |-> 0, caught |-> 0, pinned |-> Unknown, running |-> FALSE,
         live |-> Unknown, heard |-> {}, shown |-> Unknown]

SomePort == SshPort \union {Unknown}
Process ==
  [pc : {"idle", "status", "lookup", "start", "select", "relayed", "exited",
         "key", "push", "print", "stopped", "failed", "printed"},
   cmd : {"none", "forward", "target"}, want : SUBSET Nat,
   ssh : {"none", "opening", "forwarding", "leaving", "gone"},
   sent : Nat, caught : Nat, pinned : SomePort, running : BOOLEAN,
   live : SomePort, heard : SUBSET SomePort, shown : SomePort]

At(p, pc) == cli[p].pc = pc
Busy(p) == cli[p].pc \notin {"idle", "stopped", "failed", "printed"}
Alive(p) == cli[p].ssh \in {"opening", "forwarding", "leaving"}
\* signal.Notify has been called.
Catches(p) == cli[p].pc \in {"start", "select", "relayed", "exited"}

Goes(p, pc) == cli' = [cli EXCEPT ![p].pc = pc]
\* ssh has a reason to exit.
Leaving(r) == IF r.ssh \in {"opening", "forwarding"}
              THEN [r EXCEPT !.ssh = "leaving"] ELSE r

Init ==
  /\ pin \in SomePort /\ file \in SomePort /\ sshd = Unknown
  /\ taken = {} /\ cli = [p \in Proc |-> Idle]
  /\ commands = 0 /\ signals = 0 /\ changes = 0

Begins(p, r) ==
  /\ commands < MaxCommands /\ commands' = commands + 1
  /\ ~Busy(p) /\ cli' = [cli EXCEPT ![p] = r]
  /\ UNCHANGED <<pin, sshd, file, taken, signals, changes>>

\* parseForwards comes first and refuses the whole command.
BeginForward(p, args) ==
  Begins(p, [Idle EXCEPT !.pc = IF Accepted(args) THEN "status" ELSE "failed",
               !.cmd = "forward",
               !.want = {HostPort(args[i]) : i \in DOMAIN args}])

BeginTarget(p) ==
  Begins(p, [Idle EXCEPT !.pc = "status", !.cmd = "target", !.pinned = pin,
               !.heard = {sshd}])

\* A failed query ends `forward`; `ssh-target` takes it for a stopped VM.
QueryStatus(p) ==
  /\ At(p, "status")
  /\ \E running \in {sshd # Unknown, FALSE} :
       cli' = [cli EXCEPT ![p] = [@ EXCEPT
                !.running = running,
                !.pc = CASE cli[p].cmd = "target" -> "key"
                           [] cli[p].cmd = "forward" /\ running -> "lookup"
                           [] OTHER -> "failed"]]
  /\ UNCHANGED <<pin, sshd, file, taken, bounds>>

-----------------------------------------------------------------------------
(* forward *)

\* SSHConfigFile, then runSSH: Notify comes before ssh starts.
LookUp(p) ==
  /\ At(p, "lookup")
  /\ Goes(p, "start") \/ Goes(p, "failed")
  /\ UNCHANGED <<pin, sshd, file, taken, bounds>>

Start(p) ==
  /\ At(p, "start")
  /\ \/ cli' = [cli EXCEPT ![p] = [@ EXCEPT !.pc = "select", !.ssh = "opening"]]
     \/ Goes(p, "failed")
  /\ UNCHANGED <<pin, sshd, file, taken, bounds>>

\* ssh listens on one port after the other, and exits when one is taken.
Listen(p) ==
  /\ cli[p].ssh = "opening"
  /\ LET mine == {t.port : t \in {u \in taken : u.by = p}}
     IN  \/ /\ sshd # Unknown
            /\ \E port \in cli[p].want \ mine :
                 IF \E t \in taken : t.port = port
                 THEN cli' = [cli EXCEPT ![p] = Leaving(@)] /\ UNCHANGED taken
                 ELSE /\ taken' = taken \union {[port |-> port, by |-> p]}
                      /\ UNCHANGED cli
         \/ /\ cli[p].want = mine
            /\ cli' = [cli EXCEPT ![p].ssh = "forwarding"] /\ UNCHANGED taken
         \/ /\ sshd = Unknown
            /\ cli' = [cli EXCEPT ![p] = Leaving(@)] /\ UNCHANGED taken
  /\ UNCHANGED <<pin, sshd, file, bounds>>

\* Mutant: Lima's master connection owns the listeners and keeps them.
LeftToMaster(p) == taken

Closed(p) == {t \in taken : t.by # p}

\* ssh exits and Wait returns.
SshExits(p) ==
  /\ cli[p].ssh = "leaving"
  /\ cli' = [cli EXCEPT ![p].ssh = "gone"]
  /\ taken' = Closed(p)
  /\ UNCHANGED <<pin, sshd, file, bounds>>

\* A signal to the process group reaches ssh as well, one to code-vm does not.
Signal(p, group) ==
  /\ Busy(p) /\ cli[p].cmd = "forward"
  /\ signals < MaxSignals /\ signals' = signals + 1
  /\ LET r == IF group THEN Leaving(cli[p]) ELSE cli[p]
     IN  cli' = [cli EXCEPT ![p] = IF Catches(p) THEN [r EXCEPT !.sent = @ + 1]
                                   ELSE [r EXCEPT !.pc = "stopped"]]
  /\ UNCHANGED <<pin, sshd, file, taken, commands, changes>>

Deliver(p) ==
  /\ Catches(p) /\ cli[p].sent > 0
  /\ cli' = [cli EXCEPT ![p] = [@ EXCEPT
              !.sent = cli[p].sent - 1, !.caught = cli[p].caught + 1]]
  /\ UNCHANGED <<pin, sshd, file, taken, bounds>>

\* The first select: either case when both are ready.
Select(p) ==
  /\ At(p, "select")
  /\ \/ /\ cli[p].caught > 0
        /\ cli' = [cli EXCEPT ![p] = [Leaving(@) EXCEPT !.pc = "relayed"]]
     \/ cli[p].ssh = "gone" /\ Goes(p, "exited")
  /\ UNCHANGED <<pin, sshd, file, taken, bounds>>

\* <-done
Drain(p) ==
  /\ At(p, "relayed") /\ cli[p].ssh = "gone"
  /\ Goes(p, "stopped")
  /\ UNCHANGED <<pin, sshd, file, taken, bounds>>

\* Mutant: the status is reported without a second look at the channel.
ReportsStatus(p) ==
  /\ At(p, "exited")
  /\ Goes(p, "failed")
  /\ UNCHANGED <<pin, sshd, file, taken, bounds>>

SecondSelect(p) ==
  /\ At(p, "exited")
  /\ Goes(p, IF cli[p].caught > 0 THEN "stopped" ELSE "failed")
  /\ UNCHANGED <<pin, sshd, file, taken, bounds>>

-----------------------------------------------------------------------------
(* ssh-target *)

\* agentKey, which is fatal here; then, for a running VM, liveSSHPort, which
\* is not: a file it cannot read leaves the port unknown.
ReadLivePort(p) ==
  /\ At(p, "key")
  /\ \/ Goes(p, "failed")
     \/ cli[p].running /\ \E port \in {file, Unknown} :
          cli' = [cli EXCEPT ![p] = [@ EXCEPT !.live = port, !.pc = "push"]]
     \/ ~cli[p].running /\ Goes(p, "print")
  /\ UNCHANGED <<pin, sshd, file, taken, bounds>>

\* PushAuthorizedKey
PushKey(p) ==
  /\ At(p, "push")
  /\ \/ sshd # Unknown /\ Goes(p, "print")
     \/ Goes(p, "failed")
  /\ UNCHANGED <<pin, sshd, file, taken, bounds>>

Port(r) == IF r.pinned # Unknown THEN r.pinned ELSE r.live

\* Mutant: a pinned port is taken for the running VM's.
TrustsPin(r) == r.pinned = Unknown

\* renderSSHTarget: what it says besides the port.
Warned(r) == r.pinned = Unknown \/ r.live = Unknown \/ r.live # r.pinned

RenderSSHTarget(p) ==
  /\ At(p, "print")
  /\ LET r == cli[p]
     IN  cli' = [cli EXCEPT ![p] = [@ EXCEPT
                  !.pc = "printed",
                  !.shown = IF r.running /\ ~Warned(r) THEN Port(r) ELSE Unknown]]
  /\ UNCHANGED <<pin, sshd, file, taken, bounds>>

-----------------------------------------------------------------------------
(* The VM and the config *)

Changes == changes < MaxChanges /\ changes' = changes + 1

\* Lima forwards the pinned port or one it picks, and writes its ssh config,
\* which stays when the VM stops.
StartVm ==
  /\ Changes /\ sshd = Unknown
  /\ sshd' \in IF pin # Unknown THEN {pin} ELSE SshPort
  /\ file' = sshd'
  /\ cli' = [p \in Proc |-> [cli[p] EXCEPT !.heard =
               IF Busy(p) /\ cli[p].cmd = "target" THEN @ \union {sshd'} ELSE @]]
  /\ UNCHANGED <<pin, taken, commands, signals>>

StopVm ==
  /\ Changes /\ sshd # Unknown
  /\ sshd' = Unknown
  /\ cli' = [p \in Proc |-> Leaving(cli[p])]
  /\ UNCHANGED <<pin, file, taken, commands, signals>>

EditPin ==
  /\ Changes /\ pin' \in SomePort
  /\ UNCHANGED <<sshd, file, taken, cli, commands, signals>>

Step(p) ==
  \/ QueryStatus(p) \/ LookUp(p) \/ Start(p) \/ Select(p) \/ Drain(p)
  \/ SecondSelect(p) \/ ReadLivePort(p) \/ PushKey(p) \/ RenderSSHTarget(p)

Next ==
  \/ StartVm \/ StopVm \/ EditPin
  \/ \E p \in Proc :
       \/ BeginTarget(p) \/ \E args \in Requests : BeginForward(p, args)
       \/ Step(p) \/ Deliver(p) \/ Listen(p) \/ SshExits(p)
       \/ \E group \in BOOLEAN : Signal(p, group)

\* The kernel delivers signals, and an ssh with a reason to exit does.
Fairness ==
  \A p \in Proc : WF_vars(Step(p)) /\ WF_vars(Deliver(p)) /\ WF_vars(SshExits(p))

Spec == Init /\ [][Next]_vars /\ Fairness

-----------------------------------------------------------------------------
(* The inductive invariant (SshProofs); the properties are SshCommands' *)

TypeOK ==
  /\ pin \in SomePort /\ sshd \in SomePort /\ file \in SomePort
  /\ taken \in SUBSET [port : Nat, by : Proc]
  /\ cli \in [Proc -> Process]
  /\ commands \in Nat /\ signals \in Nat /\ changes \in Nat

\* runSSH waits for its ssh, and only a living one listens.
WaitsForSsh ==
  /\ \A p \in Proc : Alive(p) => cli[p].pc \in {"select", "relayed"}
  /\ \A t \in taken : Alive(t.by) /\ t.port \in cli[t.by].want

\* What ssh-target has read, and may still read, the VM had while it ran.
ReadsAreHeard ==
  /\ sshd # Unknown => file = sshd
  /\ \A p \in Proc :
       LET heard == cli[p].heard \union {Unknown}
       IN  /\ Busy(p) /\ cli[p].cmd = "target" => sshd \in heard
           /\ cli[p].pc \in {"key", "push", "print"} => cli[p].cmd = "target"
           /\ At(p, "key") /\ cli[p].running => file \in heard
           /\ At(p, "push") => cli[p].running
           /\ (At(p, "push") \/ At(p, "print")) /\ cli[p].running
                => cli[p].live \in heard
           /\ At(p, "printed") => cli[p].shown \in heard

SshInv == TypeOK /\ WaitsForSsh /\ ReadsAreHeard
=============================================================================
