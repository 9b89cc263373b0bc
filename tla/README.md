# TLA+ models of code-vm

code-vm runs coding agents in a Lima VM: the host binary (Go, `internal/`)
boots the VM, delivers files and settings to it and starts the agent; root
scripts inside the guest (`internal/guest/files/scripts/`) build the firewall,
lock the agent's settings and apply profiles.  There is no daemon and no lock
on the host around a command, so what is hard is what happens *between* the
steps: several `code-vm` processes at once, a command interrupted half way, a
boot still going on, a script that fails in the middle.  These modules model
those steps; paths below are relative to `src/` (most to `src/internal/`).

## Inventory

| Component | State | Operations | Hard part |
|---|---|---|---|
| Allowlist delivery (`session/allowlist.go`, `session/stage.go`, `cli/allow.go`, `init-firewall.sh`) | config's `extraDomains`, domains in the stored instance config and in `provision.env`, the tmpfs fragment `10-host-config.conf`, `squid.conf`, Squid's memory | `ApplyAllowlist`, `allow`, `profile apply`, start, seed, mode switch | six copies of one list, three kinds of writers, no lock, any step may fail |
| Guest firewall (`early-egress.sh`, `init-firewall.sh`, `set-firewall-mode.sh`, `sandbox-boot.sh`, `cli/firewall.go`) | OUTPUT chains, conntrack, mode file, verify file, `squid.conf` on disk, markers | boot, guard, one `iptables` command after another, verify, switch | rules are live while the chain is being rebuilt; scripts can fail, run twice, or follow a reboot |
| Agent SSH key (`agentssh/`, `cli/agentkey.go`, `session/authorizedkey.go`) | key directory, `.lock`, two key files, the guest's `authorized_keys` | `Ensure`, push, rotation by deletion | races on the first run, half a keypair, a lock whose directory goes away |
| VM lifecycle commands (`cli/shell.go`, `start.go`, `stop.go`, `recreate.go`, `mount.go`, `lima/limactl.go`) | instance status, stored `lima.yaml`, the config a process loaded, resolved secrets | run, start, stop, recreate, mount | status is read once and acted on later; steps of two commands interleave |
| Sandbox boot (`sandbox-boot.sh`, its unit) | two markers | ordered steps with a failure trap | must end with a marker, agent must not run before the first steps |
| Agent session entry (`sandbox-exec`, `agent-login-gate.sh`, `cli/sshtarget.go`, `lima/sshconfig.go`) | none of its own | enter by `code-vm`, by SSH, through the user manager; `ssh-target` | three doors, one guard; a port read at three moments |
| Config store (`config/config.go`, `config/paths.go`, `cli/root.go`, `cli/allow.go`, `cli/mount.go`) | `config.yaml` | Load, Save, Validate, mount guards, sizes, `allow`, `mount` | whole-file, unlocked, not atomic; paths reached through links; products that wrap |
| Secrets and templates (`config/secrets.go`, `profile/template.go`, `profile/render.go`) | `secrets.yaml`, rendered content | resolve, render, push | must fail before anything changes, must be delivered once a boot |
| Home files relay (`session/userfiles.go`, `install-user-file.sh`, `session/gitidentity.go`) | staged copies, files in the agent's home | stage, relay, clean up | secrets left behind on interruption; who wrote a file last |
| Profiles (`profile/profile.go`, `cli/profile.go`, `session/profiles.go`, `apply-profiles.sh`) | profile tree on host and guest, what was applied | add, update, remove, apply | remove-then-copy, hooks that fail, loads of a bundle git is writing |
| Live config apply (`session/config.go`, `lock-settings.sh`) | staging and live tree | stage, swap under `flock` | races the boot's own lock step |
| Port forwarding (`cli/forward.go`) | an ssh child, the ports it listens on | parse, run, relay signals | exit and signal at once; listeners left behind |
| Provisioning and swap (`provision-system.sh`) | swapfile, fstab, active swap | reconcile | four commands that may each fail |
| Guest image and instance template (`guest/embed.go`, `lima/template.go`) | none | render | bytes that YAML, limactl and Go templates each read differently |
| Diagnostics (`cli/doctor.go`, `status.go`, `proxylog.go`, `admin.go`) | none | read-only | nothing |

How they interact: a host process loads config, profiles and secrets (snapshot),
asks Lima for the status, possibly writes the stored instance config and boots;
Lima's boot runs provisioning, which writes `provision.env` and starts
`sandbox-boot.service`; that runs `lock-settings.sh`, `init-firewall.sh`, the
profile applier and the updates, and leaves a marker the readiness probe waits
for.  The host then pushes the fragment, the git identity, the templates and the
key through `limactl shell`, and hands over to the agent.

PROJECT.json's hazards list where, line by line, this can go wrong.

## Modules

`X.tla` is a component, `MCX.tla` the instance TLC checks, `X_<run>.cfg` a run,
`XProofs.tla` its theorems.

**Allowlist.**  One variable for each place the list lives (`config`,
`limaYaml`, `provisioned`, `fragment`, `squidConf`, `squid`), `hup` for a
reconfigure signal not yet acted on, `cli` for the code-vm processes (`pc` is
where in `ApplyAllowlist` and its callers), `fw` for runs of
`init-firewall.sh`.  `Load` is `loadConfigWithProfiles`; `ReadFragment`,
`InstallFragment` and `ReloadSquid` are the three remote steps of
`ApplyAllowlist`; `CheckFragment` and `SeedFragment` are the shell's test and
its write, deliberately two steps.  `Abort`, `Drop`, `Interrupt`,
`FirewallFails` and `ReadFragmentFails` are the error paths.

**Firewall.**  `chain` is the OUTPUT chain of each table as a sequence of rules
(each rule the set of packet classes it hits, and a verdict); `Accepted` is
netfilter's first match, else policy; `Ruleset(mode)` is the script's list of
commands in its order, executed one at a time by `Iptables`, with the agent
connecting at any moment (`Connect`; `flows` is what ESTABLISHED keeps alive).
A fresh boot has the chain of `early-egress.sh` or, when that unit failed, an
empty one.  `CheckRules` is the self-verify, `RecordVerified` the verify file,
`StepFails` is `set -e`, `DieUntrapped` a boot that ends before its trap is set and
leaves no marker, `FinishBoot` the profiles and the CLI update (`AtProfiles`: a boot
that is still there); `Boot`/`PowerOff` reset what is on tmpfs and keep what
is on disk.

**AgentKey.**  `dir`, `priv`, `pub` say which incarnation exists; a process
holds the `.lock` of the incarnation it opened, so a rotation can leave two
holders.  One action per system call that another process can observe.  A process
that dies while `ssh-keygen` runs takes it along, perhaps between creating the
public file and writing it (`Torn`, refused by `ReadPublic`), or leaves it at work
(`orphans`); `ssh-keygen` does not inherit the lock.

**VmLifecycle.**  A command is the sequence of steps its `RunE` makes
(`RunSteps`, `MountSteps`, ...); a process executes the head of the sequence,
skips it where the code has an early return (`NotNeeded`) or ends in an error.
`vm`, `stored`, `live`, `boot` are the instance, its stored mounts, the mounts of
the running VM and the boot count; `rendered` is the boot in which templates
last reached the disk and `gitconfig` who last wrote `~/.gitconfig`.
`ResolveRendered` may take for ever, since a secrets command has no time limit, and
so may a guest's boot, which `ProbeTimesOut` ends for the process that waits.
`limactl`'s refusals (create over an existing instance, stop of a stopped one)
are modelled by what code-vm sees: an error.

**ConfigApply.**  `tree` is the canonical tree (the version of each file), which
Lima rewrites file by file on a boot (`WriteData`; a file only another version has
stays) and `Exchange` replaces; `cli` holds the processes at the steps of
`PushConfig`, with the staging tree each has built; `run` is the holder of
`sandbox-config.lock`, be it an apply or the boot, and how far its
`lock-settings.sh` is.  `dir`, `home`, `plugins` are the agent's `~/.claude`: which
directory, the files in it that are root's, and whether its settings.json enables
plugins.  The agent owns that directory: it records plugins (`EnablePlugins`) or edits
a file (`ReplaceFile`) by replacing an entry, which then is no longer root's
(`edited`), and can replace the whole directory (`ReplaceDir`).  `Check` is the
script's last test and `Release` what the host learns from it.  When the connection
of the swap command breaks (`CommandFails`) or code-vm is killed (`Interrupt`), the
command ends with it or goes on in the guest (`Outlives`), and `CleanupStagingTree`,
two steps because `rm -rf` takes time, may meet it.  A cleanup that fails leaves a
staging tree that nothing reads again (`Left`).

**Profiles.**  A plan is the sequence of bundles the config activates, and
`host` the one on the host now; `Begin` is `loadConfigWithProfiles`, with
`LoadAll`'s refusal of a path shipped both as a file and as a template.
`GuestFiles` is what both delivery paths share, a set gone through in the order of
`place` (`Foremost`), `Put` the installing of one file of it: by `WriteData` on a
boot, by `PushFile` after `ClearTree` in `profile apply`.  The lists in the manifest
are functions from the places their elements have in the plan (`Listed`), gone
through from the lowest on (`First`, `Without`), so that an element keeps its place
when those before it are done.  `tree` is the guest's profile tree, `run` the runs of
`apply-profiles.sh` (the boot's and each process's), `home` and `shell` what they
change; a hook may write any path of the home (`RunHook`, `hooked`).  The allowlist
step between push and applier is Allowlist's; the secrets of the templates are
VmLifecycle's.

**KeyTrust.**  What package `agentssh` promises: one keypair generated, delivered,
never changed until the user rotates it; three actions, no processes, no files.
`AgentKey!ImplementsTrust` is its specification under the mapping "there is a
keypair when both halves are of one", a `PROPERTY` of `agentkey_safety` and a
theorem.

**HostConfig.**  `file` is what `config.yaml` holds (`Empty` is no file, an empty
one, or one just truncated); `cli` the processes, each with the whole config it
loaded and the change it is to save; `rendered` what the VM was last rendered
from; `promised` what commands reported as added or already there.  `Begin` is
`loadConfig` with its guards, `Allow` and `Mount` the two commands up to `Save`,
which is `Truncate` and `Write`, or fails before or between them (`SaveFails`).
`Reports` is what is printed as already there, before anything is saved.  Paths are
sequences of names (`Name`); `Trail` walks one over the links name by name, `Real` is
where the operating system ends up, `CanonicalizeExisting` where the code believes it
does: the longest prefix that exists, and the rest as written.  Sizes are numbers of
units modulo `Word`; `Validate` is in the same integers, `SizesFit` in Nat.  Domains are sequences of labels, so that a suffix
in the code is a prefix here.

**Bundles.**  `disk` is the edition each part of a profile's directory is from.
git writes the parts one by one (`WritePart`), `Load` reads them one by one
(`ReadPart`) in its order and checks what it got (`Valid`), so a load can see a mix.  `Resolve` is
`LoadAll`'s collision check, `ResolveSecrets`, `ResolveVars` and
`RenderTemplates`; `holes` collects placeholders rendered as nothing.  `add`
(`BeginAdd`, `Clone`, `AfterFailure`), `update` and `remove` share `WritePart`,
`RemovePart` and `RemoveDir`.  Where Profiles treats the host's plan as one
value, Bundles is how that value comes about.

**Embed.**  Pure: `Booted(s)` is what a boot makes of a file `s`, through
`GuestBlockContent`, `Chomp` and `Indent` as the code has them, then a YAML
parser, limactl's re-serialisation and Lima's template pass as the code's
comments observe them.  `profile apply` copies the bytes, so `Booted(s) = s` is
the whole property, for what `IsPlain`: a YAML parser refuses control characters
(`Unreadable`) and turns every line break into a line feed (`ReadByte`).  What goes
through a file byte by byte is a `Scan`, whose step is a function (`EscapeByte`, `SplitByte`, `AddLine`, `ReadByte`, `ExpandByte`).  Its only action,
`TypeByte`, types one more byte.

**HostSsh.**  `forward` at the steps of `newForwardCmd` and `runSSH`, each process
with its ssh child (`opening`, `forwarding`, `leaving`, `gone`) and the host ports
that one listens on (`taken`); `sent` and `caught` are signals under way and in
the channel.  `ssh-target` at its three reads: `pinned` with the config,
`running` by the status query, `live` from Lima's ssh config (`file`), while
`StartVm`, `StopVm` and `EditPin` go on.  **SshCommands** states HostSsh's
assumptions and promises, with its processes as `Command` and `session`: names that
can stand beside AgentKey's `Proc` and `cli`, so that `SshProofs` is about both.  The
run `host_ssh` checks that module.

`XProofs.tla` holds the theorems of `X`: `AllowlistProofs`, `HostConfigProofs`,
`VmLifecycleProofs`, `ConfigApplyProofs`, `FirewallProofs`, `BundlesProofs`,
`ProfilesProofs`.  `SshProofs` has those of AgentKey and of HostSsh, and
`ProfilesProofs` Embed's too, which is how a profile's file gets to a boot.

Firewall and VmLifecycle overlap in the boot on purpose: Firewall has the
scripts in detail with a single instance, VmLifecycle has the instance's life
with a boot of four steps.

## Runs

| Run | Shows | Bounds |
|---|---|---|
| `allowlist_pair` | `ProxyTracksFiles`: Squid's memory differs from its files only while a reload is owed or after a writer ended early; `ProxyCatchesUp`: an owed reload happens; `NoResurrection`: a domain only ever comes back through a process that loaded it from the config | 2 processes, 1 script, 4 user actions, 1 fault, reads may fail |
| `allowlist_lost_reload` | violated: README's revocation "on the next invocation" | 1 process, 6 actions, 1 fault |
| `firewall_boots` | `RulesMeanMode`: a finished ruleset accepts exactly what its mode promises, class by class; `NoHostServices`, `NeverUnfiltered` at every command of every script; `RestartReverts`: after a reboot the agent never meets a Squid running an earlier boot's loose configuration; `BootReachesProfiles`: a boot whose trap is set leaves a marker or gets to the profiles | 2 boots, 2 switches, 1 fault, a guard that may fail, an agent that may enter at any time |
| `agentkey_safety` | `NoFalseAlarm`: racing first runs never report half a keypair; `GuestTrustsHostKey`; `EveryoneEnds`; `ImplementsTrust`: the refinement of KeyTrust | 3 processes, 3 commands, 1 interruption, 1 rotation |
| `config_apply` | `TreeWhole`: the live tree is one complete version whatever is interrupted; `LockedIsCanonical`: what the agent has is that tree, or its own edit since; `AppliesItsOwn`: an apply that succeeds has put its own version there; `PluginsSurvive`, `ApplyEnds` | an older and a newer process, the newer without one of 2 files, 2 boots, 1 fault, 1 edit of a file, of the plugins or of `~/.claude` |
| `profiles` | `HomeIsPlan`: after a boot or an apply with nobody else active, the home is what the plan says but for what hooks wrote, whatever was left half done before; `StaleIsInert`; `HooksFailWhereTheyMay`: never for a boot, always for an apply that reports success | 2 processes, 2 racing commands and one more, 4 plans over 2 profiles and 2 paths, 1 edit, 1 fault |
| `vm_race` | `UnmappedTouchesNothing`, `EveryBootRenders`, `RestartApplies`, `EveryCommandEnds`: it returns, hands over to the agent or waits for a secrets command | 2 processes, 3 commands, 1 edit of the secrets, 1 fault: every pair of commands on a VM a third one made |
| `vm_early_agent` | violated: settings lock "must precede any agent process" | 2 processes, 4 commands |
| `host_config` | `NothingExposed`: nothing saved or rendered shares the config, the profiles or the keys; `SizesFit`: sizes mean in the guest what they say; `PromisesKept`: what was reported as added or already there is in the file | 2 processes, 3 commands, 1 edit, 1 interruption or failing write; 9 directories, 2 links, 6-bit integers with units 1, 4 and 16, 3 hosts |
| `bundles` | `RenderedComplete`: no placeholder becomes nothing; `NoBrokenBundle`: a clone that does not load does not stay | 2 processes, 2 commands, 1 edit, 1 fault; 2 profiles, one with 3 editions |
| `embed` | `BootEqualsApply`: a boot delivers a plain text's own bytes | every file of up to 6 of 8 kinds of bytes |
| `host_ssh` | `NothingOutlives`: no listener outlives its command; `SignalStops`: a caught signal ends it, as a stop; `ShownIsHeard`: a port shown without a warning was the running VM's | 2 processes, 2 commands, 2 signals, 3 starts, stops or edits, 3 ports |

Deadlock is not checked: all these systems may stop (commands end, the user's
actions are bounded).

**Bounds.**  `MaxRequests`, `MaxSwitches`, `MaxBoots`, `MaxEdits` bound what the
user does, `MaxFaults`, `MaxCrashes` how many steps fail; `MaxRacing`
how many of the commands may begin while something else is at work.  The hazards need at
most two actors overlapping in one window after a set-up command, and one fault;
each bound leaves room for that.  Two
processes and two commands are what a race needs in HostSsh, HostConfig and
Bundles as well; a third command (HostConfig) is the one whose promise is broken.
Six bits are enough for sizes because `Parses` compares with `MaxUint \div unit`,
whose rounding three units exercise; the theorem is for any width.  Six bytes hold
a brace pair, a leading tab, an inner blank line and two trailing newlines at once.  For the properties with a theorem the bounds
are irrelevant: the theorem has none.

**Fairness.**  Weak fairness on the steps of processes and scripts that have
begun, on systemd starting the boot service and on Squid acting on a signal, as far
as each step is a local command or a call of `limactl`, which is assumed to answer.
None on the user, on the agent, on failures, and none where the code waits without
a limit: the profile hooks, apt-get and CLI installers at the end of a boot
(`AtProfiles`: neither `sandbox-boot.sh` nor its oneshot unit has a timeout), a
secrets command on the host (`start.go:254-256`: it "will hang or fail"), and, in
VmLifecycle, the guest's boot as a whole.  A process that waits for that boot is
released by the readiness probe, which counts to 300 seconds (`ProbeTimesOut`), or,
when the instance stops, with an error (`AwaitReady`).  `flock` is weakly fair in
AgentKey: it is retried by the kernel and a holder releases it when it dies.
Waiting for `flock` in ConfigApply is strongly fair (`TakeLock`): its holders run
local commands and end, the boot's among them, and the kernel hands the lock on.
In HostSsh the kernel delivers a signal and an ssh that has a reason to exit does
so (`Deliver`, `SshExits`); an ssh without one may run forever.

## Where the code and its documentation disagree

Two violation runs are listed as findings in PROJECT.json with the quoted lines:

- *Lost reload*: a fragment installed without the reload that follows satisfies
  the next invocation's "unchanged" check, so the reload is never made up for.
- *Early agent*: `Running` is not "booted"; a second command's fast path enters.

Known limits, stated in the modules but without a run of their own:

- `MountApplied`: `mount` saves the config before the secrets resolve; when that
  fails, run again it finds the mount in the config and reports "already shared;
  nothing to do" although the running VM lacks it, while mount.go:39-40 has "the VM
  is restarted to apply the change".
- `TemplateWins`: the git identity is written on every invocation and templates
  only on a boot, so a profile's `.gitconfig` does not stay last, although
  agentkey.go:23-25 says it "must land after it and win".
- `VerifyIsSuccess`: a mode switch that fails its self-verify leaves the verify
  file of the run before it, although `init-firewall.sh:378` calls the file's
  presence "a real success signal".
- `HooksFailWhereTheyMay` excepts a boot whose tree was rewritten under it (`met`):
  `profile apply` checks for `Running`, not for the boot marker, and the
  applier's `install` of a file just removed fails the boot, while
  `apply-profiles.sh:18` has file failures "local and deterministic".
- `HomeIsPlan` is about a command with nobody else active: two applies share one
  tree without a lock and may mix two plans in it.
- `NoHostServices` is for one script at a time: nothing serialises
  `set-firewall-mode.sh`, and two runs of it interleave their commands (`Run` of
  two elements shows it): one flushes the REJECT that the other has already put
  before its ACCEPT.  `RulesMeanMode` is for one script at a time as well, since two
  may add every rule twice.  What any number of overlapping runs keeps is
  `NeverUnfiltered` and `RestartReverts` (theorems `AlwaysFiltered`, `RestartsRevert`).
- `TreeWhole` and `LockedIsCanonical` except an apply that read the boot marker
  before a reboot and swaps during the next boot's provisioning (`collided`):
  the marker is read once, several guest commands before the swap.  They except
  as well an apply whose connection broke and whose cleanup removes the staging
  tree while its own swap command, still alive in the guest, exchanges it.
- `PluginsSurvive` excepts plugins that are not in the run's snapshot (`missed`):
  the agent recorded them after it was taken, or `dd` or `jq` failed on them, which
  `lock-settings.sh:123` and `:128` let pass.
- `LockedIsCanonical` is about entries the agent has not replaced since they were
  placed: as `lock-settings.sh:12-14` says, the owner of a directory can replace a
  root-owned read-only file in it.
- `LockedIsCanonical` excepts a `~/.claude` replaced while a run was under way:
  each `place` enters the directory anew, and the final inode check is about the
  directory entered last.
- `NeverUnfiltered` and `NoHostServices` except an agent that a command let in
  before a boot without a guard was over (`ungated`): `limactl shell` and
  `sandbox-exec` do not pass the login gate.
- `SeedNeverOverwrites` does not hold with two actors in the window: a fragment
  written between the seed's test and its write is overwritten.  Neither is a key
  read before a rotation and pushed after it the current one, which is why
  KeyTrust promises nothing after a rotation.
- `RevokedOnNextInvocation` also fails with `BlindReads`: `ReadFile` cannot tell
  a failed read from an absent fragment.
- `RestartApplies` is about a `mount` with no other command under way.  With one,
  a `start` holding the config from before the mount may boot the VM between
  mount's stop and its status query, and mount reports success.
- `PromisesKept` excepts a command that met another writer of `config.yaml`, died
  while writing it or could not write it (`raced`): Save has neither a lock nor an
  atomic replacement, so the later save drops the earlier change, and a file just
  truncated reads as the defaults.  A write that fails half way is modelled as
  having written nothing.
- `addMount` asks whether a mount covers the new one by spelling, the guards by
  where paths lead: a link below a shared directory that leads out of it counts
  as already shared, although the guest does not see behind it.
- `NothingExposed` excepts what the guards do not see (`Unseen`).  `CoveringMount`
  compares with the mount and a separator (paths.go:49), so a mount of the root
  directory covers nothing.  `CanonicalizeExisting` leaves a link to what does not
  exist yet as it is written (`Dangles`), and the directory that is made there later
  is elsewhere.  On every other path it is where the operating system goes:
  theorem `CanonicalIsReal`.
- `profilesDir` (cli/profile.go:19-30) does not canonicalise the config path while
  `loadConfig` does: with `config.yaml` itself a link, `profile add` and the loads
  look into two directories.  Bundles has one.
- A load while git pulls may mix two editions of a bundle and report it as
  invalid or, when the mix happens to be valid, use it (`RenderedComplete` is
  what holds for such a mix).  An update that fails leaves a bundle that does not
  load, and so does an interrupted `add` (`spoiled`).
- `BootEqualsApply` is about plain text (`IsPlain`).  `profile.Load`
  (profile.go:393-399) refuses a file only when it is blank; a control character, a
  byte order mark or what is not UTF-8 reaches the guest with `profile apply` and
  makes an instance template that no YAML parser reads, and a carriage return, NEL,
  LS or PS is read back as a line feed or ends a line that has no indentation.
  `indent`'s comment (template.go:134-139) has the block safe for "arbitrary file
  content".  It also excepts two or more trailing newlines, which limactl collapses
  to one, as `chomp`'s comment says.
- `HomeIsPlan` and `StaleIsInert` except the paths a hook wrote itself: a hook runs
  as the agent, in its home, after the files are installed.
- `SignalStops` is about a signal `code-vm` has caught while it waits: one that
  arrives after `runSSH`'s second look at the channel is still reported as a
  failure of ssh.  A `code-vm` killed outright leaves its ssh behind; that is
  not modelled.

## Theorems

TLAPS proves them for any sets of domains, processes, profiles and runs and any
bounds; the assumptions are those the modules name: that bounds are numbers
(`BoundsAssumption` and the like), the types of constants (`ActivesAssumption`,
`DomainAssumption`, `PortAssumption`, ...), and, for HostConfig, that a link is given
with where it leads in the end (`PathAssumption`).  Two theorems of Firewall and one of Allowlist also
assume a single run of the script; each says why.

An invariant named `XInv` is the inductive one: `Invariance` (or the theorem itself)
shows that `Init` implies it and that every action keeps it, one lemma per
action.  TLC checked each of them on the component's run before it was proved.

`AllowlistProofs`
- `TypeCorrect`: `TypeOK` is inductive, one step per action.
- `ProxyTracks`: `[]ProxyTracksFiles` from `ProxyInv == TypeOK /\ OffMeansQuiet /\
  ProxyTracksFiles`.  `OffMeansQuiet` is needed because a VM that is off loses the
  fragment: Squid must not be running then.  Steps that change neither Squid nor
  its files are dispatched by the lemmas `QuietCliStep` and `QuietFwStep`.
- `RevokedStaysRevoked`: `NoResurrection` with at most one firewall run, from
  `SeedInv`: once the boot's script is past its seed there is nothing left to
  seed (`Settled`), because the fragment exists or `provision.env` is empty.  With
  two runs it does not hold, which is why the theorem assumes one.

`SshProofs`
- `TypeCorrect`; `RaceIsHarmless` (`NoFalseAlarm`) and `TrustIsStable`
  (`GuestTrustsHostKey`) from `KeyInv`: until a rotation all processes lock the
  one directory, so at most one is in its critical section, every copy of a
  key is a copy of the one pair, and at most one `ssh-keygen`, be it an orphan, has
  yet to write the public half; until the first interruption what that process
  saw is still so, and only it can leave half a pair.
- `RefinesTrust` (`ImplementsTrust`): AgentKey implements KeyTrust.  `TrustStep` maps
  every action to `Generate` (the second file of a pair), `Deliver` (the push),
  `Rotate` or a stutter; `KeyInv` is what makes the pushed key the host's one.
- `NoListenerOutlives` (`NothingOutlives`) and `ShownPortIsReal` (`ShownIsHeard`) from
  `SshInv == TypeOK /\ WaitsForSsh /\ ReadsAreHeard`: a process waits as long as its
  ssh lives, and each value it has read, or may still read, is one the VM had
  since it began.  Assumes `PortAssumption` and `RequestAssumption`.

`HostConfigProofs`
- `CanonicalIsReal`: `CanonicalizeExisting(path) = Real(path)` for every path on which
  no link leads nowhere.  `Physical` says when a path goes over no link: what a walk
  reaches is such a path (`RealIsPhysical`), and the walk of such a path is the path
  itself (`PhysicalIsReal`).  `Greatest` picks the longest prefix that exists; behind
  it every step arrives at what does not exist, so none of them was over a link.
- `TypeCorrect`; `NothingIsExposed` from `GuardInv`: a config on its way to `Save` or
  to the VM has passed `Guarded`, and `GuardedIsHidden`, which takes a path the guards
  compare for the real one by `CanonicalIsReal`: what passed them leads nowhere it
  should not, but for what is `Unseen`.
- `SizesAreReal` from `NoWrap`: a product that `parseSize` lets through is the product
  over Nat, for any word size and any units.  Assumes `SizeAssumption`.
- `PromisesAreKept` (`PromisesKept`) from `HostAll`: what a process is to write grows
  what it loaded and does what it will report (`Working`); until two writers meet
  there is one, and what it is to write, or else the file, keeps every promise so
  far (`Promising`).  `PromisesKept` alone is not inductive: while the file is
  truncated, it is the writer that still has the promises.

`VmLifecycleProofs`
- `LifeInv` says of each process that what is left of its plan is a suffix of it
  (`OnPlan`: every step is followed by the step that follows it in the plan, so a
  proof about one step need not unfold the plans); that before the step that
  resolves the secrets it has touched nothing and after it holds what it rendered
  (`ResolveFirst`); and that while the VM runs without the templates of its boot,
  the process that launched that boot is on its way to push them (`SomeonePushes`).
- `TypeCorrect`, `UnmappedSafe` (`UnmappedTouchesNothing`) and `BootsRender`
  (`EveryBootRenders`) follow from it.  `RestartsApply` (`RestartApplies`) needs
  `MountInv` on top: how far a mount on its own has carried the new mount, from the
  config to the stored and the running instance, and that it then stays in all
  of them and in what every later command loads.

`ConfigApplyProofs`
- `ApplyInv` says who may hold the lock and how far that run is (`Holder`,
  `Progress`), that a command is sent only with a complete staging tree, which only a
  cleanup takes from (`Staging`), and that the files a run has placed are the live
  tree's or the agent's own since (`Placed`), since nobody else writes the tree while
  an apply that met no boot is past its exchange (`Alone`).
- `TypeCorrect`, `TreeIsWhole` (`TreeWhole`) and `LockedCanonical` (`LockedIsCanonical`)
  follow.  `OwnApplied` (`AppliesItsOwn`) is an action property: only a run that passes
  its last test reports success (`DoneByRelease`), it is still the one of that apply,
  and by `Alone` and `Placed` what it placed is that apply's tree.
  `PluginsAreKept` (`PluginsSurvive`) is one too, proved of each step from `Kept`: the
  run's snapshot has the plugins that placing settings.json would lose.

`FirewallProofs`
- First the script as a table: `ScriptTable`, `RulesetTable` and `ScriptPlaces` say
  which command is at which place, with offsets for the three things a script
  depends on (`Gate`, `Opens`, `Locks`); `TameRefuses` and `ShieldRefuses` say what the
  first match in a chain of such rules can accept.
- `FirewallInv`, for any number of runs at once: a table drops by policy before
  anything in it is flushed, and until then the guard's rule is all there is
  (`PolicyFirst`); who was let in found one or the other (`Admitted`); until a looser
  mode is asked for no rule and no Squid behind it is loose (`Strict`), so no
  connection is (`Filtered`).  `TypeCorrect`, `AlwaysFiltered` (`NeverUnfiltered`) and
  `RestartsRevert` (`RestartReverts`) follow.
- `HostKeptAway` (`NoHostServices`), for runs that do not overlap: a rule of
  mode=open is only ever behind the two that keep the agent from foreign
  resolvers and from the host (`Shielded`).
- `RulesFollowMode` (`RulesMeanMode`), for runs that do not overlap.  `DecidedAt(mode, p)`
  is the place in the script whose rule decides packet class `p`; `RulesetDecides`
  is that no rule before it matches `p` and that it accepts exactly what the mode
  promises.  `LaidInv` relates chain and run: before that place no rule in the
  chain matches `p`, after it the first that does gives that answer, so that a run
  which is through means its mode, and stays so until the next one begins.

`BundlesProofs`
- `BundlesInv`: a bundle that was loaded has passed the checks, though it may be a
  mix of editions (`Sound`); and of a directory whose bundle does not load, that an
  update or an interruption went through it or that a command will notice
  (`Watched`): it has yet to load it, or every part it has read is still what is
  on the disk.
- `TemplatesComplete` (`RenderedComplete`): after `Sound`, resolving and rendering see
  one set of placeholders, whatever changed on the disk since.
- `NothingBrokenLingers` (`NoBrokenBundle`) from `Watched`.

`ProfilesProofs`
- `TypeCorrect`, `HomeFollowsPlan` (`HomeIsPlan`), `StaleStaysInert` (`StaleIsInert`) and
  `HooksFailOnlyThere` (`HooksFailWhereTheyMay`), for any plans over any profiles and
  paths, from `ProfilesInv`; none of them is inductive by itself.  Its parts:
  `Typed`; `Roles`, what a process at each of its steps may still have to deliver
  and whose run of the applier it may wait for; `BootInv`, that a boot whose tree
  nobody else wrote to (not `met`) has delivered its own plan before its applier
  starts, and that only a boot that was met fails by the applier; `AloneInv`, for a command that
  nobody has disturbed, that all others are at rest (`AtRest`), the boot is its own
  (`BootOf`), the tree has what it has pushed (`Delivered`) and, but for what hooks wrote, the home is as
  it was where the plan ships nothing and has what was installed where it does (`HomeOf`,
  `ApplyOf`, `StartOf`).
- How far a run is with a plan is said by `OnPlan` (what its lists still hold is
  what remains of the plan's), `Reached` (a path has the file of the last bundle the
  run has been through that ships it) and `Applied`; that each step of the applier
  keeps the three is shown once, for an `apply` and for a boot (`RunKeeps`).
  That a non-empty set of places has a least and, within a plan, a greatest element
  comes from the well-foundedness of `<`, not from an induction theorem.
- `BootsDeliver` (`BootEqualsApply`), for plain text files of any length.  The induction is over
  sets, since the library's induction theorems cannot be instantiated: a set that
  has the empty sequence and is closed under `Append` has every sequence
  (`AllSequences`, from a shortest one it lacks).  `ScanOfOneMore` is what a recursive
  definition gives: a scan's function exists, and a scan of one element more is one
  step more.  Then each conversion is undone by what reads it: `EscapeIsUndone` (no
  action opens early, and evaluating gives the bytes back), `SplitIsUndone`,
  `PadIsUndone`, and of plain text a YAML parser reads every byte as it is (`ReadIs`);
  `Ends` takes a text apart into its body and the newlines behind it,
  which escaping keeps (`EscapeKeepsEnds`), so that `chomp`, computed from the file,
  fits the block, made from the escaped text (`ParsedIs`).

What stays with TLC:

- Liveness (`ProxyCatchesUp`, `BootReachesProfiles`, `EveryoneEnds`, `EveryCommandEnds`,
  `ApplyEnds`, `SignalStops`): the prover has neither fairness nor ENABLED.

Every other property of a passing run has a theorem: the invariants, the action
properties and the refinement.

## Abstractions

Domains, keys, mounts are values of small sets; a packet is a class (who sends,
where to).  A command sent into the guest is one step that happens or fails.  The
content of templates is whether it was rendered for this boot; the profile set is
assumed to have a `.gitconfig` template, and the host a git identity, since the
properties about them are vacuous otherwise.  Lima, systemd, netfilter, conntrack
and Squid are modelled from how the code uses them, and marked external.

## Not modelled

- `provision-system.sh`: apt, curl and the swap reconcile.  Nothing runs beside it,
  and its states are the kernel's and the disk's.
- The staged copy of a home file and its cleanup: a copy left behind is never read
  again, so it is a leftover and not a wrong state of another part.
- `doctor`, `status`, `proxy-log`, `secrets`, `admin`, `version`: reports that change
  nothing; `update-agent-clis.sh` is best effort, and what depends on it is that it ends.
- limactl's own locking, systemd's cgroups (`lima/detach.go`), gpg and the commands
  that print a secret.
- In Bundles, `profile update` of a directory another git is writing: git refuses it
  by its own lock.

## Plan

An egress policy that Firewall implements, and a single authority that Allowlist
implements with one writer.

The number of runs is kept at a dozen: a new component takes the place of a
violation run, which the list of known limits then describes.
