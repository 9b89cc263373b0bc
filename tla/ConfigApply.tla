------------------------------ MODULE ConfigApply ------------------------------
(***************************************************************************)
(* The canonical config tree and the agent's locked copy of it.  Lima's    *)
(* data provisioning rewrites the tree file by file on every boot;         *)
(* `code-vm config apply` builds a new tree beside it, exchanges the two   *)
(* and runs lock-settings.sh, which places every file of the tree in the   *)
(* agent's ~/.claude.  A lock in /run serialises the exchanges and the     *)
(* runs of lock-settings.sh.  The agent owns its home meanwhile.           *)
(***************************************************************************)
EXTENDS Naturals

CONSTANTS
  Proc,             \* processes running `code-vm config apply`
  Boot,             \* sandbox-boot.sh, as a holder of the lock
  NoOne,            \* the lock is free
  Version,          \* code-vm versions, each with its own tree
  VersionOf,        \* the version each process is of
  Ships,            \* the files each version has
  MaxBoots,         \* bound on boots
  MaxReplacements,  \* bound on the agent replacing a file or ~/.claude
  MaxFaults         \* bound on interruptions and failing steps

\* The tree, delivered in the order of its paths, and what lock-settings.sh
\* places: settings.local.json is its own.
File == {"extra", "settings"}
Entry == File \union {"local"}
First(entries) == CASE "extra" \in entries -> "extra"
                    [] "settings" \in entries -> "settings"
                    [] OTHER -> "local"

ASSUME ConfigAssumption ==
  /\ Boot \notin Proc /\ NoOne \notin Proc /\ Boot # NoOne
  /\ Version \subseteq Nat \ {0} /\ VersionOf \in [Proc -> Version]
  /\ Ships \in [Version -> (SUBSET File) \ {{}}]
  /\ MaxBoots \in Nat /\ MaxReplacements \in Nat /\ MaxFaults \in Nat

VARIABLES
  vm,       \* "off", "provision" (Lima writes data), "boot", "up" (marker) or
            \* "failed" (the boot script ended early, no marker)
  shipped,  \* the version of the data Lima writes on this boot, 0 otherwise
  unwritten, \* the files of it that it has still to write
  tree,     \* version of each file in the live canonical tree, 0 when absent
  cli,      \* the processes
  run,      \* the holder of the lock and how far it is
  dir,      \* which ~/.claude there is
  home,     \* version of each file in it, 0 when it is not root's
  plugins,  \* the agent has plugins enabled in its settings.json
  edited,   \* history: files the agent replaced since the last run took its
            \* snapshot, and that run has not placed again
  locked,   \* history: the last run succeeded, and locked the ~/.claude there is
  exchanged, \* history: the tree is an apply's, not what a boot wrote into it
  collided, \* history: an apply that began on an earlier boot met provisioning,
            \* or its cleanup met its own exchange
  boots, replacements, faults

guest == <<vm, shipped, unwritten, tree, exchanged>>
agent == <<dir, home, plugins, edited>>
bounds == <<boots, replacements, faults>>
vars == <<guest, cli, run, agent, locked, collided, bounds>>

-----------------------------------------------------------------------------
\* failed: it returned an error or was killed.
\* boot: the boot in which the process found the marker; staged: the files in
\* its staging tree, which exists when made is TRUE; sent: its swap command is
\* in the guest, waiting for the lock or holding it.
CliPc == {"idle", "marker", "make", "upload", "swap", "cleanup",
          "removing", "done", "failed"}
Ended == {"done", "failed"}
Process == [pc : CliPc, boot : 0 .. MaxBoots,
            made : BOOLEAN, staged : SUBSET File, sent : BOOLEAN]
Idle == [pc |-> "idle", boot |-> 0, made |-> FALSE, staged |-> {}, sent |-> FALSE]

\* todo: what is still to be placed; cwd: the directory entered last; kept:
\* plugins in the snapshot; missed: the snapshot does not have them all;
\* disturbed: ~/.claude was replaced meanwhile.
RunPc == {"free", "exchange", "remove", "snapshot", "enter", "move", "check"}
Run == [by : Proc \union {Boot, NoOne}, pc : RunPc, todo : SUBSET Entry,
        cwd : Nat, kept : BOOLEAN, missed : BOOLEAN, disturbed : BOOLEAN]
Free == [by |-> NoOne, pc |-> "free", todo |-> {}, cwd |-> 0,
         kept |-> FALSE, missed |-> FALSE, disturbed |-> FALSE]

TypeOK ==
  /\ vm \in {"off", "provision", "boot", "up", "failed"}
  /\ shipped \in Version \union {0} /\ unwritten \subseteq File
  /\ tree \in [File -> Version \union {0}]
  /\ cli \in [Proc -> Process]
  /\ run \in Run
  /\ dir \in Nat /\ home \in [File -> Version \union {0}]
  /\ plugins \in BOOLEAN /\ edited \subseteq File
  /\ locked \in BOOLEAN /\ exchanged \in BOOLEAN /\ collided \in BOOLEAN
  /\ boots \in 0 .. MaxBoots /\ replacements \in 0 .. MaxReplacements
  /\ faults \in 0 .. MaxFaults

Init ==
  /\ vm = "off" /\ shipped = 0 /\ unwritten = {}
  /\ tree = [f \in File |-> 0]
  /\ cli = [p \in Proc |-> Idle]
  /\ run = Free
  /\ dir = 1 /\ home = [f \in File |-> 0] /\ plugins = FALSE /\ edited = {}
  /\ locked = FALSE /\ exchanged = FALSE /\ collided = FALSE
  /\ boots = 0 /\ replacements = 0 /\ faults = 0

At(p, pc) == cli[p].pc = pc
Goto(p, pc) == cli' = [cli EXCEPT ![p].pc = pc]
\* Nothing reads what a process that is over leaves in the guest: its staging
\* tree has a name of its own.
Left(q) == IF q.pc \in Ended /\ ~q.sent THEN [Idle EXCEPT !.pc = q.pc] ELSE q
Becomes(p, q) == cli' = [cli EXCEPT ![p] = Left(q)]
Goes(p, pc) == Becomes(p, [cli[p] EXCEPT !.pc = pc])

-----------------------------------------------------------------------------
(* The VM *)

\* A process of some version starts the VM: /run is fresh, Lima writes data.
BootVm(v) ==
  /\ vm = "off" /\ boots < MaxBoots
  /\ vm' = "provision" /\ boots' = boots + 1
  /\ shipped' = v /\ unwritten' = Ships[v]
  /\ locked' = FALSE
  /\ UNCHANGED <<tree, exchanged, cli, run, agent, collided, replacements, faults>>

\* Whatever runs in the guest ends with it; /run with the lock is gone.
StopVm ==
  /\ vm # "off"
  /\ vm' = "off" /\ shipped' = 0 /\ unwritten' = {}
  /\ run' = Free
  /\ cli' = [p \in Proc |->
       Left([cli[p] EXCEPT !.sent = FALSE,
                           !.pc = IF cli[p].sent THEN "failed" ELSE @])]
  /\ UNCHANGED <<tree, exchanged, agent, locked, collided, bounds>>

\* mode: data with overwrite: one file after the other.  A file that only
\* another version has stays as it is.
WriteData ==
  /\ vm = "provision" /\ unwritten # {}
  /\ tree' = [tree EXCEPT ![First(unwritten)] = shipped]
  /\ unwritten' = unwritten \ {First(unwritten)}
  /\ exchanged' = FALSE
  /\ UNCHANGED <<vm, shipped, cli, run, agent, locked, collided, bounds>>

\* provision-system.sh starts sandbox-boot.sh.
EndProvision ==
  /\ vm = "provision" /\ unwritten = {}
  /\ vm' = "boot" /\ shipped' = 0
  /\ UNCHANGED <<unwritten, tree, exchanged, cli, run, agent, locked,
                 collided, bounds>>

-----------------------------------------------------------------------------
(* `code-vm config apply` *)

Begin(p) ==
  /\ At(p, "idle")
  /\ IF vm = "off" THEN Goes(p, "failed") ELSE Goto(p, "marker")
  /\ UNCHANGED <<guest, run, agent, locked, collided, bounds>>

\* Every command for the guest fails when the VM is off.
Down(p) ==
  /\ vm = "off" /\ cli[p].pc \in {"marker", "make", "upload"}
  /\ Goes(p, "failed")
  /\ UNCHANGED <<guest, run, agent, locked, collided, bounds>>

\* Mutant: an apply does not wait for the boot.
NoMarker(p) ==
  /\ At(p, "marker") /\ vm # "off"
  /\ cli' = [cli EXCEPT ![p] = [@ EXCEPT !.pc = "make", !.boot = boots]]
  /\ UNCHANGED <<guest, run, agent, locked, collided, bounds>>

\* verifyGuestScript comes first: the versions here ship the same
\* lock-settings.sh, a guest with an older one is refused.
BootCompleteMarker(p) ==
  /\ At(p, "marker") /\ vm # "off"
  /\ IF vm = "up"
     THEN cli' = [cli EXCEPT ![p] = [@ EXCEPT !.pc = "make", !.boot = boots]]
     ELSE Goes(p, "failed")
  /\ UNCHANGED <<guest, run, agent, locked, collided, bounds>>

MakeStage(p) ==
  /\ At(p, "make") /\ vm # "off"
  /\ cli' = [cli EXCEPT ![p] = [@ EXCEPT !.pc = "upload", !.made = TRUE]]
  /\ UNCHANGED <<guest, run, agent, locked, collided, bounds>>

Source(p) == Ships[VersionOf[p]]
Uploaded(p) == cli[p].staged = Source(p)
Upload(p) ==
  /\ At(p, "upload") /\ vm # "off" /\ ~Uploaded(p)
  /\ cli' = [cli EXCEPT ![p].staged = @ \union {First(Source(p) \ @)}]
  /\ UNCHANGED <<guest, run, agent, locked, collided, bounds>>

\* The one command that does the rest.
SendSwap(p) ==
  /\ At(p, "upload") /\ vm # "off" /\ Uploaded(p)
  /\ cli' = [cli EXCEPT ![p] = [@ EXCEPT !.pc = "swap", !.sent = TRUE]]
  /\ UNCHANGED <<guest, run, agent, locked, collided, bounds>>

\* cleanupStagingTree matters, and is a step here, while the swap command is
\* alive in the guest because only its connection broke.  `rm -rf` takes time.
CleanupStagingTree(p) ==
  /\ \/ At(p, "cleanup") /\ Goto(p, "removing")
     \/ /\ At(p, "removing")
        /\ cli' = [cli EXCEPT ![p] =
                     [@ EXCEPT !.pc = "failed", !.made = FALSE, !.staged = {}]]
  /\ UNCHANGED <<guest, run, agent, locked, collided, bounds>>

\* The swap command goes on in the guest without its process, or ends here.
Outlives(p, pc) == cli[p].sent /\ Goto(p, pc) /\ UNCHANGED run
EndsHere(p) ==
  /\ Becomes(p, [cli[p] EXCEPT !.pc = "failed", !.sent = FALSE])
  /\ run' = IF run.by = p THEN Free ELSE run

Active(p) == cli[p].pc \notin {"idle"} \union Ended

\* A command fails or its connection breaks; that of the cleanup, which is best
\* effort, leaves the staging tree.
CommandFails(p) ==
  /\ vm # "off" /\ Active(p) /\ faults < MaxFaults
  /\ faults' = faults + 1
  /\ Outlives(p, IF At(p, "swap") THEN "cleanup" ELSE "failed") \/ EndsHere(p)
  /\ UNCHANGED <<guest, agent, locked, collided, boots, replacements>>

\* code-vm is killed and cleans up nothing.
Interrupt(p) ==
  /\ Active(p) /\ faults < MaxFaults
  /\ faults' = faults + 1
  /\ Outlives(p, "failed") \/ EndsHere(p)
  /\ UNCHANGED <<guest, agent, locked, collided, boots, replacements>>

-----------------------------------------------------------------------------
(* Under the lock: the swap script and lock-settings.sh *)

LockFree == run.by = NoOne

TakeLock(p) ==
  /\ cli[p].sent /\ vm # "off" /\ LockFree
  /\ run' = [Free EXCEPT !.by = p, !.pc = "exchange"]
  /\ UNCHANGED <<guest, cli, agent, locked, collided, bounds>>

LockAtBoot ==
  /\ vm = "boot" /\ LockFree
  /\ run' = [Free EXCEPT !.by = Boot, !.pc = "snapshot"]
  /\ UNCHANGED <<guest, cli, agent, locked, collided, bounds>>

\* The tree becomes that of p, a file of which a cleanup may have removed.
Replaces(p, left) ==
  /\ left \subseteq cli[p].staged
  /\ left # cli[p].staged => At(p, "removing")
  /\ tree' = [f \in File |-> IF f \in left THEN VersionOf[p] ELSE 0]
  /\ exchanged' = TRUE
  /\ collided' = \/ collided \/ At(p, "removing")
                 \/ vm # "up" /\ cli[p].boot # boots
  /\ locked' = FALSE
  /\ UNCHANGED <<vm, shipped, unwritten, cli, agent, bounds>>

\* Mutant: the exchange does not wait for the lock, only the lock step does.
UnlockedExchange ==
  \E p \in Proc, left \in SUBSET File :
    /\ cli[p].made /\ Replaces(p, left)
    /\ \/ run.by = p /\ run.pc = "exchange" /\ run' = [run EXCEPT !.pc = "remove"]
       \/ run.by # p /\ cli[p].sent /\ run' = run

\* `mv --exchange`: the live tree becomes what was staged, and the previous
\* tree takes the staging name.
Exchange ==
  \E p \in Proc, left \in SUBSET File :
    /\ run.by = p /\ run.pc = "exchange" /\ cli[p].made
    /\ Replaces(p, left)
    /\ run' = [run EXCEPT !.pc = "remove"]

RemovePrevious ==
  \E p \in Proc :
    /\ run.by = p /\ run.pc = "remove"
    /\ cli' = [cli EXCEPT ![p] = [@ EXCEPT !.made = FALSE, !.staged = {}]]
    /\ run' = [run EXCEPT !.pc = "snapshot"]
    /\ UNCHANGED <<guest, agent, locked, collided, bounds>>

\* Mutant: the merge's temporary file is listed with the files to place.
ListedWithMerged == {f \in File : tree[f] # 0} \union {"merged", "local"}
Listed == {f \in File : tree[f] # 0} \union {"local"}

\* The plugins of the settings.json that is about to be replaced; none when
\* `dd` or `jq` fails, which the run does not notice.
Snapshot ==
  /\ run.pc = "snapshot"
  /\ \/ /\ run' = [run EXCEPT !.pc = "enter", !.todo = Listed, !.kept = plugins]
        /\ UNCHANGED faults
     \/ /\ plugins /\ faults < MaxFaults
        /\ run' = [run EXCEPT !.pc = "enter", !.todo = Listed, !.missed = TRUE]
        /\ faults' = faults + 1
  /\ edited' = {}
  /\ UNCHANGED <<guest, cli, dir, home, plugins, locked, collided, boots,
                 replacements>>

\* ensure_dir: enter what is ~/.claude now.
EnsureDir ==
  /\ run.pc = "enter"
  /\ run' = [run EXCEPT !.pc = "move", !.cwd = dir]
  /\ UNCHANGED <<guest, cli, agent, locked, collided, bounds>>

\* Mutant: settings.json without the plugins the agent had enabled.
Forgets(f) == IF f = "settings" THEN FALSE ELSE plugins
Merged(f) == IF f = "settings" THEN run.kept ELSE plugins

\* place: the file lands in the directory entered, wherever that is by now.
Place ==
  /\ run.pc = "move"
  /\ LET f == First(run.todo) IN
     /\ \/ /\ run.cwd = dir
           /\ home' = [g \in File |-> IF g = f THEN tree[f] ELSE home[g]]
           /\ edited' = edited \ {f}
           /\ plugins' = Merged(f)
        \/ /\ run.cwd # dir
           /\ UNCHANGED <<home, edited, plugins>>
     /\ run' = [run EXCEPT !.todo = @ \ {f},
                           !.pc = IF run.todo = {f} THEN "check" ELSE "enter"]
  /\ UNCHANGED <<guest, cli, dir, locked, collided, bounds>>

\* Mutant: the lock is a file that a failing run does not remove.
StaleLockFile(ok) == IF ok THEN Free ELSE [Free EXCEPT !.by = run.by]
\* flock's lock ends with its holder, however that ends.
AfterRun(ok) == Free

\* The run ends and with it the command, and whoever waited for it.
Release(ok) ==
  /\ run' = AfterRun(ok)
  /\ cli' = [p \in Proc |->
       IF run.by # p THEN cli[p]
       ELSE Left([cli[p] EXCEPT !.sent = FALSE,
                    !.pc = IF ok /\ At(p, "swap") THEN "done" ELSE "failed"])]
  /\ vm' = IF run.by # Boot THEN vm ELSE IF ok THEN "up" ELSE "failed"
  /\ UNCHANGED <<shipped, unwritten, tree, exchanged, agent, collided, boots,
                 replacements>>

\* The staging tree is gone: the process has given the command up.
ExchangeFails ==
  /\ run.pc = "exchange"
  /\ \A p \in Proc : run.by = p => ~cli[p].made
  /\ Release(FALSE)
  /\ UNCHANGED <<locked, faults>>

\* The postcondition: the directory entered last is the one at the path.
Check ==
  /\ run.pc = "check"
  /\ \/ /\ run.cwd = dir
        /\ Release(TRUE)
        /\ locked' = ~run.disturbed
     \/ /\ run.cwd # dir
        /\ Release(FALSE)
        /\ UNCHANGED locked
  /\ UNCHANGED faults

\* Any command under the lock fails, and `set -e` ends the run; a failed
\* `mv --exchange` finds both trees in place.
RunFails ==
  /\ run.pc # "free" /\ faults < MaxFaults
  /\ faults' = faults + 1
  /\ Release(FALSE)
  /\ locked' = FALSE

-----------------------------------------------------------------------------
(* The agent, live while an apply runs and, on a later boot, before it is     *)
(* over.  It owns the directory, not the files a run has placed there: what   *)
(* it changes is an entry it replaces.                                        *)

AgentRuns == vm \in {"boot", "up", "failed"}
\* The entries become the agent's own.
Takes(files) == home' = [f \in File |-> IF f \in files THEN 0 ELSE home[f]]

\* Recorded in settings.json; too late for a snapshot that was taken before.
EnablePlugins ==
  /\ AgentRuns /\ ~plugins /\ replacements < MaxReplacements
  /\ replacements' = replacements + 1
  /\ plugins' = TRUE /\ Takes({"settings"}) /\ edited' = edited \union {"settings"}
  /\ run' = [run EXCEPT !.missed = @ \/ run.pc \in {"enter", "move"}]
  /\ UNCHANGED <<guest, cli, dir, locked, collided, boots, faults>>

\* Any other change to a file.
ReplaceFile(f) ==
  /\ AgentRuns /\ home[f] # 0 /\ replacements < MaxReplacements
  /\ replacements' = replacements + 1
  /\ Takes({f}) /\ edited' = edited \union {f}
  /\ UNCHANGED <<guest, cli, run, dir, plugins, locked, collided, boots, faults>>

ReplaceDir ==
  /\ AgentRuns /\ replacements < MaxReplacements
  /\ replacements' = replacements + 1
  /\ dir' = dir + 1 /\ Takes(File) /\ edited' = {} /\ plugins' = FALSE
  /\ run' = [run EXCEPT !.disturbed = run.pc # "free"]
  /\ locked' = FALSE
  /\ UNCHANGED <<guest, cli, collided, boots, faults>>

CliStep(p) ==
  \/ Begin(p) \/ Down(p) \/ BootCompleteMarker(p)
  \/ MakeStage(p) \/ Upload(p) \/ SendSwap(p) \/ CleanupStagingTree(p)

RunStep ==
  \/ Exchange \/ ExchangeFails \/ RemovePrevious \/ Snapshot \/ EnsureDir
  \/ Place \/ Check

GuestStep ==
  WriteData \/ EndProvision \/ LockAtBoot \/ RunStep

Next ==
  \/ StopVm \/ GuestStep \/ RunFails \/ EnablePlugins \/ ReplaceDir
  \/ \E v \in Version : BootVm(v)
  \/ \E f \in File : ReplaceFile(f)
  \/ \E p \in Proc : CliStep(p) \/ TakeLock(p) \/ CommandFails(p) \/ Interrupt(p)

Spec == Init /\ [][Next]_vars
\* Processes that have begun and the guest run.  Waiting for the lock is fair:
\* its holders end, and the kernel hands it on.
FairSpec ==
  /\ Spec /\ WF_vars(GuestStep)
  /\ \A p \in Proc :
       WF_vars(~At(p, "idle") /\ CliStep(p)) /\ SF_vars(TakeLock(p))

-----------------------------------------------------------------------------
(* Properties *)

\* configSwapScript: "an interruption at any point leaves either the old tree
\* or the new one, never neither": outside of Lima's own provisioning the live
\* tree is one version's, complete, whatever is interrupted, failing or racing,
\* and after an exchange it holds nothing else: "a file dropped from the binary
\* must not survive" (unless an apply that saw the marker of an earlier boot met
\* a boot, or one whose connection broke cleaned up while its own command was
\* exchanging the tree).
TreeWhole ==
  vm \in {"boot", "up", "failed"} /\ ~collided
    => \E v \in Version : \A f \in File :
         IF f \in Ships[v] THEN tree[f] = v ELSE exchanged => tree[f] = 0

\* What the lock is for: after a run that succeeded the agent's files are the
\* canonical tree's, all from one exchange, but for those the agent has replaced
\* since they were placed, as the owner of the directory can (and unless it
\* replaced ~/.claude during the run, or an apply met a later boot or
\* its own cleanup).
LockedIsCanonical ==
  (run.by = NoOne /\ locked /\ vm # "off" /\ ~collided)
    => \A f \in File \ edited : tree[f] # 0 => home[f] = tree[f]

\* Exchange and lock step are one critical section: an apply that reports
\* success has put its own version in the agent's home, and not that of another
\* one that ran meanwhile (with the same exceptions).
AppliesItsOwn ==
  [][\A p \in Proc :
       At(p, "swap") /\ cli'[p].pc = "done" /\ ~collided /\ ~run.disturbed
         => \A f \in Source(p) \ edited : home[f] = VersionOf[p]]_vars

\* Plugins the agent had enabled survive boots and applies, failed ones too,
\* when the snapshot has them.
PluginsSurvive == [][plugins => plugins' \/ dir' # dir \/ run.missed]_vars

\* Every apply returns, however long it waited for the lock.
ApplyEnds == \A p \in Proc : At(p, "marker") ~> cli[p].pc \in Ended
=============================================================================
