----------------------------- MODULE VmLifecycle -----------------------------
(***************************************************************************)
(* code-vm processes that start, enter, stop, rebuild and remount the one  *)
(* VM.  Each command is the sequence of steps its RunE makes; nothing      *)
(* locks the instance, so the steps of several processes interleave.       *)
(* Secrets must resolve before anything is changed, the templates rendered *)
(* from them must reach the guest on every boot, and the stored instance   *)
(* config decides what the next boot mounts.                               *)
(***************************************************************************)
EXTENDS Naturals, Sequences

CONSTANTS
  Proc,          \* concurrent code-vm processes
  Mount,         \* directories `code-vm mount` may add
  MaxRequests,   \* bound on commands
  MaxEdits,      \* bound on edits of secrets.yaml
  MaxFaults      \* bound on interruptions and failing steps

ASSUME BoundsAssumption ==
  MaxRequests \in Nat /\ MaxEdits \in Nat /\ MaxFaults \in Nat

VARIABLES
  config,     \* extraMounts in config.yaml
  mapped,     \* secrets.yaml maps every secret the profiles declare
  vm,         \* the instance
  boot,       \* boots so far
  stored,     \* mounts in the stored instance config
  live,       \* mounts of the running instance
  locked,     \* lock-settings.sh ran on this boot
  rendered,   \* the boot in which templates last reached the guest's disk
  gitconfig,  \* who wrote ~/.gitconfig last; "missing" before provisioning
  cli,        \* the processes
  missed,     \* history: since the VM booted a process was interrupted, or its
              \* readiness probe gave up
  requests, edits, faults

guest == <<vm, boot, stored, live, locked, rendered, gitconfig>>
bounds == <<requests, edits, faults>>
vars == <<config, mapped, guest, cli, missed, bounds>>

-----------------------------------------------------------------------------
(* Commands and their steps *)

Command == {"run", "start", "stop", "recreate", "mount"}

\* Mutants: the stored config is replaced only after the VM has started from
\* it; recreate deletes before it resolves; run asks for the status again
\* after that status decided whether to resolve.
StoreLate == <<"status", "launch", "wait", "store">>
\* ensureRunning
Ensure == <<"status", "store", "launch", "wait">>
\* prepareAgentAccess and pushRendered
Access == <<"identity", "push">>

DeleteFirst == <<"delete", "resolve">> \o Ensure \o Access
RecreateSteps == <<"resolve", "delete">> \o Ensure \o Access
StatusTwice == <<"status", "resolve">> \o Ensure \o Access \o <<"agent">>
RunSteps == <<"status", "resolve">> \o Tail(Ensure) \o Access \o <<"agent">>
StartSteps == <<"resolve">> \o Ensure \o Access
MountSteps == <<"save", "running", "resolve", "stop">> \o Ensure \o Access
StopSteps == <<"stop">>

Plan(c) ==
  CASE c = "run" -> RunSteps
    [] c = "start" -> StartSteps
    [] c = "recreate" -> RecreateSteps
    [] c = "mount" -> MountSteps
    [] c = "stop" -> StopSteps

Step == {"status", "running", "resolve", "save", "stop", "delete", "store",
         "launch", "wait", "identity", "push", "agent"}

\* seen: the status last observed; snap: the mounts of the config it loaded;
\* content: it holds rendered templates; started: it booted the VM; alone
\* (history): no other process was under way during it; mine: the boot it waits
\* for, or whose guest it has entered; touched: it has changed the VM; end: how
\* it ended.
Process == [cmd : Command, todo : Seq(Step), mount : Mount, snap : SUBSET Mount,
            seen : {"absent", "stopped", "running"}, content : BOOLEAN,
            started : BOOLEAN, alone : BOOLEAN, mine : Nat, touched : BOOLEAN,
            end : {"none", "done", "unmapped", "error"}]

Running == vm \in {"booting", "up", "failed"}
\* Mutant: the status is handed on as the instance's internal state.
RawStatus == vm
Status == IF Running THEN "running" ELSE vm
\* `limactl shell` works as soon as the guest answers, well before it is up;
\* the relay into the agent's home needs the agent user.
Entered == Running /\ gitconfig # "missing"
Ended(p) == cli[p].todo = <<>>
NotNeeded(p, step) ==
  \/ step = "resolve" /\ cli[p].cmd = "run" /\ cli[p].seen = "running"
  \/ step \in {"store", "launch", "wait"} /\ cli[p].seen = "running"
  \/ step = "store" /\ cli[p].seen = "absent"
  \/ step = "push" /\ cli[p].cmd = "run" /\ ~cli[p].started
Next1(p) == Head(cli[p].todo)
At(p, step) == ~Ended(p) /\ Next1(p) = step /\ ~NotNeeded(p, step)

\* What a process held is gone when it returns.
Returned(q, how) ==
  [q EXCEPT !.todo = <<>>, !.end = how, !.snap = {}, !.seen = "absent",
            !.content = FALSE, !.started = FALSE, !.mine = 0]
\* The process goes on to its next step, or returns from the last one.
Went(p, q) ==
  cli' = [cli EXCEPT ![p] = IF Len(q.todo) = 1 THEN Returned(q, "done")
                            ELSE [q EXCEPT !.todo = Tail(q.todo)]]
Ends(p, how) == cli' = [cli EXCEPT ![p] = Returned(cli[p], how)]

TypeOK ==
  /\ config \subseteq Mount /\ stored \subseteq Mount /\ live \subseteq Mount
  /\ mapped \in BOOLEAN /\ locked \in BOOLEAN /\ missed \in BOOLEAN
  /\ vm \in {"absent", "stopped", "booting", "up", "failed"}
  /\ boot \in Nat /\ rendered \in 0 .. boot
  /\ gitconfig \in {"missing", "none", "identity", "template"}
  /\ cli \in [Proc -> Process]
  /\ requests \in 0 .. MaxRequests /\ edits \in 0 .. MaxEdits
  /\ faults \in 0 .. MaxFaults

Init ==
  /\ config = {} /\ mapped \in BOOLEAN
  /\ vm = "absent" /\ boot = 0
  /\ stored = {} /\ live = {}
  /\ locked = FALSE /\ rendered = 0 /\ gitconfig = "missing"
  /\ cli \in [Proc -> {[cmd |-> "stop", todo |-> <<>>, mount |-> m,
                        snap |-> {}, seen |-> "absent", content |-> FALSE,
                        started |-> FALSE, alone |-> TRUE, mine |-> 0,
                        touched |-> FALSE, end |-> "none"] : m \in Mount}]
  /\ missed = FALSE
  /\ requests = 0 /\ edits = 0 /\ faults = 0

-----------------------------------------------------------------------------
(* The user *)

Begin(p, c, m) ==
  /\ Ended(p) /\ requests < MaxRequests
  /\ requests' = requests + 1
  /\ cli' = [q \in Proc |->
       IF q = p
       THEN [cmd |-> c, todo |-> Plan(c), mount |-> m, snap |-> config,
             seen |-> "absent", content |-> FALSE, started |-> FALSE,
             alone |-> \A o \in Proc \ {p} : Ended(o), mine |-> 0,
             touched |-> FALSE, end |-> "none"]
       ELSE [cli[q] EXCEPT !.alone = @ /\ Ended(q)]]
  /\ UNCHANGED <<config, mapped, guest, missed, edits, faults>>

EditSecrets ==
  /\ edits < MaxEdits
  /\ edits' = edits + 1
  /\ mapped' = ~mapped
  /\ UNCHANGED <<config, guest, cli, missed, requests, faults>>

-----------------------------------------------------------------------------
(* Steps of a command *)

\* A branch of runDefault or ensureRunningWithStatus that is not taken.
Skip(p) ==
  /\ ~Ended(p) /\ NotNeeded(p, Next1(p))
  /\ Went(p, cli[p])
  /\ UNCHANGED <<config, mapped, guest, missed, bounds>>

\* addMount and Save: the whole config as loaded, plus the mount.
SaveMount(p) ==
  /\ At(p, "save")
  /\ \/ /\ cli[p].mount \in cli[p].snap
        /\ Ends(p, "done")
        /\ UNCHANGED config
     \/ /\ cli[p].mount \notin cli[p].snap
        /\ config' = cli[p].snap \union {cli[p].mount}
        /\ Went(p, [cli[p] EXCEPT !.snap = @ \union {cli[p].mount}])
  /\ UNCHANGED <<mapped, guest, missed, bounds>>

\* `mount` leaves alone a VM that is not running.
QueryRunning(p) ==
  /\ At(p, "running")
  /\ IF Running THEN Went(p, cli[p]) ELSE Ends(p, "done")
  /\ UNCHANGED <<config, mapped, guest, missed, bounds>>

QueryStatus(p) ==
  /\ At(p, "status")
  /\ Went(p, [cli[p] EXCEPT !.seen = Status])
  /\ UNCHANGED <<config, mapped, guest, missed, bounds>>

\* A `limactl list` that fails reads as a missing instance.
QueryStatusFails(p) ==
  /\ faults < MaxFaults
  /\ faults' = faults + 1
  /\ \/ At(p, "status") /\ Went(p, [cli[p] EXCEPT !.seen = "absent"])
     \/ At(p, "running") /\ Ends(p, "done")
  /\ UNCHANGED <<config, mapped, guest, missed, requests, edits>>

ResolveRendered(p) ==
  /\ At(p, "resolve")
  /\ IF mapped THEN Went(p, [cli[p] EXCEPT !.content = TRUE])
               ELSE Ends(p, "unmapped")
  /\ UNCHANGED <<config, mapped, guest, missed, bounds>>

\* The guest's disk goes with the instance.
Delete(p) ==
  /\ At(p, "delete")
  /\ vm' = "absent" /\ stored' = {} /\ live' = {}
  /\ locked' = FALSE /\ rendered' = 0 /\ gitconfig' = "missing"
  /\ Went(p, [cli[p] EXCEPT !.touched = TRUE])
  /\ UNCHANGED <<config, mapped, boot, missed, bounds>>

\* limactl refuses to stop what does not run.
Stop(p) ==
  /\ At(p, "stop")
  /\ \/ /\ Running
        /\ vm' = "stopped" /\ live' = {} /\ locked' = FALSE
        /\ Went(p, [cli[p] EXCEPT !.touched = TRUE])
     \/ /\ ~Running
        /\ Ends(p, "error")
        /\ UNCHANGED <<vm, live, locked>>
  /\ UNCHANGED <<config, mapped, boot, stored, rendered, gitconfig, missed,
                 bounds>>

ResolveConfigInto(p) ==
  /\ At(p, "store")
  /\ \/ /\ vm # "absent"
        /\ stored' = cli[p].snap
        /\ Went(p, [cli[p] EXCEPT !.touched = TRUE])
     \/ /\ vm = "absent"
        /\ Ends(p, "error")
        /\ UNCHANGED stored
  /\ UNCHANGED <<config, mapped, vm, boot, live, locked, rendered, gitconfig,
                 missed, bounds>>

\* `limactl start` with a template creates, without one boots what there is;
\* each refuses the other's case, and a running instance is left as it is.
Launches(p) == vm = cli[p].seen
Launch(p) ==
  /\ At(p, "launch")
  /\ \/ /\ Launches(p)
        /\ vm' = "booting" /\ boot' = boot + 1
        /\ stored' = IF vm = "absent" THEN cli[p].snap ELSE stored
        /\ live' = stored'
        /\ missed' = FALSE
        /\ Went(p, [cli[p] EXCEPT !.started = TRUE, !.mine = boot + 1,
                                  !.touched = TRUE])
     \/ /\ cli[p].seen = "stopped" /\ Running
        /\ Went(p, [cli[p] EXCEPT !.started = TRUE])
        /\ UNCHANGED <<vm, boot, stored, live, missed>>
     \/ /\ ~Launches(p) /\ ~(cli[p].seen = "stopped" /\ Running)
        /\ Ends(p, "error")
        /\ UNCHANGED <<vm, boot, stored, live, missed>>
  /\ UNCHANGED <<config, mapped, locked, rendered, gitconfig, bounds>>

\* Mutant: nobody notices that the instance went away while it booted.
WaitIgnoresStop(p) ==
  /\ At(p, "wait")
  /\ \/ (vm = "up" \/ cli[p].mine = 0) /\ Went(p, cli[p])
     \/ vm = "failed" /\ Ends(p, "error")
  /\ UNCHANGED <<config, mapped, guest, missed, bounds>>

\* The readiness probe of the boot it launched, if it launched one.
AwaitReady(p) ==
  /\ At(p, "wait")
  /\ \/ /\ cli[p].mine = 0 \/ (vm = "up" /\ boot = cli[p].mine)
        /\ Went(p, cli[p])
     \/ /\ cli[p].mine # 0
        /\ vm \in {"failed", "stopped", "absent"} \/ boot # cli[p].mine
        /\ Ends(p, "error")
  /\ UNCHANGED <<config, mapped, guest, missed, bounds>>

\* The probe's `timeout 300s`: limactl start fails while the boot goes on.
ProbeTimesOut(p) ==
  /\ At(p, "wait")
  /\ cli[p].mine # 0 /\ vm = "booting" /\ boot = cli[p].mine
  /\ Ends(p, "error")
  /\ missed' = TRUE
  /\ UNCHANGED <<config, mapped, guest, bounds>>

\* session.Setup or prepareAgentAccess, as far as the agent's home goes.
ApplyGitIdentity(p) ==
  /\ At(p, "identity")
  /\ \/ /\ Entered
        /\ gitconfig' = "identity"
        /\ Went(p, [cli[p] EXCEPT !.mine = boot])
     \/ /\ ~Entered
        /\ Ends(p, "error")
        /\ UNCHANGED gitconfig
  /\ UNCHANGED <<config, mapped, vm, boot, stored, live, locked, rendered,
                 missed, bounds>>

PushRendered(p) ==
  /\ At(p, "push")
  /\ \/ /\ Entered /\ cli[p].content
        /\ rendered' = boot /\ gitconfig' = "template"
        /\ Went(p, cli[p])
     \/ /\ ~cli[p].content
        /\ Went(p, cli[p])
        /\ UNCHANGED <<rendered, gitconfig>>
     \/ /\ ~Entered /\ cli[p].content
        /\ Ends(p, "error")
        /\ UNCHANGED <<rendered, gitconfig>>
  /\ UNCHANGED <<config, mapped, vm, boot, stored, live, locked, missed, bounds>>

\* The agent's session ends.
AgentExits(p) ==
  /\ At(p, "agent")
  /\ Went(p, cli[p])
  /\ UNCHANGED <<config, mapped, guest, missed, bounds>>

\* Ctrl-C; a boot under way goes on without the process (RunDetached).
Interrupt(p) ==
  /\ ~Ended(p) /\ faults < MaxFaults
  /\ faults' = faults + 1
  /\ Ends(p, "error")
  /\ missed' = TRUE
  /\ UNCHANGED <<config, mapped, guest, requests, edits>>

-----------------------------------------------------------------------------
(* The guest boots (Firewall has its script in detail) *)

\* provision-system.sh on a fresh disk.
Provision ==
  /\ vm = "booting" /\ gitconfig = "missing"
  /\ gitconfig' = "none"
  /\ UNCHANGED <<config, mapped, vm, boot, stored, live, locked, rendered,
                 cli, missed, bounds>>

LockSettings ==
  /\ vm = "booting" /\ ~locked /\ gitconfig # "missing"
  /\ locked' = TRUE
  /\ UNCHANGED <<config, mapped, vm, boot, stored, live, rendered, gitconfig,
                 cli, missed, bounds>>

BootCompletes ==
  /\ vm = "booting" /\ locked
  /\ vm' = "up"
  /\ UNCHANGED <<config, mapped, boot, stored, live, locked, rendered,
                 gitconfig, cli, missed, bounds>>

BootFails ==
  /\ vm = "booting" /\ faults < MaxFaults
  /\ faults' = faults + 1
  /\ vm' = "failed"
  /\ UNCHANGED <<config, mapped, boot, stored, live, locked, rendered,
                 gitconfig, cli, missed, requests, edits>>

CliStep(p) ==
  \/ Skip(p) \/ SaveMount(p) \/ QueryRunning(p) \/ QueryStatus(p)
  \/ ResolveRendered(p) \/ Delete(p) \/ Stop(p) \/ ResolveConfigInto(p)
  \/ Launch(p) \/ AwaitReady(p) \/ ApplyGitIdentity(p) \/ PushRendered(p)

GuestStep == Provision \/ LockSettings \/ BootCompletes

Next ==
  \/ EditSecrets \/ GuestStep \/ BootFails
  \/ \E p \in Proc :
       \/ \E c \in Command, m \in Mount : Begin(p, c, m)
       \/ CliStep(p) \/ QueryStatusFails(p) \/ ProbeTimesOut(p)
       \/ AgentExits(p) \/ Interrupt(p)

Spec == Init /\ [][Next]_vars
\* A process goes on, and limactl answers it: but not while it resolves its
\* secrets, where the user's command may wait for a pinentry that never comes.
\* Nothing is assumed of the guest, whose boot may hang, of the user or of the
\* agent.
Bounded(p) == (CliStep(p) /\ ~At(p, "resolve")) \/ ProbeTimesOut(p)
FairSpec == Spec /\ \A p \in Proc : WF_vars(Bounded(p))

-----------------------------------------------------------------------------
(* Properties *)

\* "An unmapped-secret failure must never destroy the user's VM": a command
\* that ends because a secret is not mapped has not stopped, deleted, stored
\* or booted anything, whoever edits secrets.yaml meanwhile.
UnmappedTouchesNothing ==
  \A p \in Proc : cli[p].end = "unmapped" => ~cli[p].touched

\* No boot skips its templates (the TOCTOU runDefault guards against): once
\* every command has come to its end, a VM that booted holds templates
\* rendered for this boot, whatever commands raced, unless one was interrupted
\* or its readiness probe gave up on the boot.
EveryBootRenders ==
  (vm = "up" /\ ~missed /\ \A p \in Proc : Ended(p) \/ At(p, "agent"))
    => rendered = boot

\* "The VM is restarted to apply the change": when a `mount` that restarted
\* the VM, with no other command under way, has returned without an error and
\* the VM runs, the VM has the mount, whatever boots it after that.
RestartApplies ==
  \A p \in Proc :
    (/\ cli[p].cmd = "mount" /\ cli[p].touched /\ cli[p].alone
     /\ cli[p].end = "done" /\ Running)
      => cli[p].mount \in live

\* mount.go: "Lima declares mounts in the instance configuration, so the VM is
\* restarted to apply the change": whether or not `mount` found something to
\* do, when it has returned without an error and the VM runs, the VM has the
\* mount.
MountApplied ==
  \A p \in Proc :
    cli[p].cmd = "mount" /\ cli[p].end = "done" /\ Running
      => cli[p].mount \in live

\* No command waits for the VM for ever, whether it hangs in its boot, fails,
\* is stopped, deleted or booted by somebody else: it returns or hands over to
\* the agent.  The one place where a command may stay is hostCommand, where
\* "a command that needs interactive pinentry [...] will hang or fail".
EveryCommandEnds ==
  \A p \in Proc : ~Ended(p) ~> (Ended(p) \/ At(p, "agent") \/ At(p, "resolve"))

\* sandbox-boot.sh: the settings lock "must precede any agent process".
AgentAfterLock ==
  \A p \in Proc :
    At(p, "agent") /\ Running /\ cli[p].mine = boot => locked

\* prepareAgentAccess: "a profile that ships its own .gitconfig template must
\* land after [the identity] and win": with the templates of this boot
\* delivered and no command under way, ~/.gitconfig is the template's.
TemplateWins ==
  (vm = "up" /\ rendered = boot /\ \A p \in Proc : Ended(p))
    => gitconfig = "template"
=============================================================================
