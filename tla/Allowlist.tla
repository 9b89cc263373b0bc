------------------------------ MODULE Allowlist ------------------------------
(***************************************************************************)
(* How a domain travels from the host config to the running Squid: config  *)
(* file, the snapshot each code-vm process loads, the instance config and  *)
(* the guest's provision.env at boot, the tmpfs fragment                   *)
(* 10-host-config.conf, and the rules Squid has in memory.  code-vm        *)
(* processes run concurrently without a lock, init-firewall.sh runs at     *)
(* boot and again on every firewall mode switch, and any step may fail.    *)
(***************************************************************************)
EXTENDS Naturals

CONSTANTS
  Domain,       \* domains that config and profiles may add to the base list
  Proc,         \* concurrent code-vm processes
  FwRun,        \* concurrent runs of init-firewall.sh in the guest
  MaxRequests,  \* bound on user actions: edits, commands, switches, stops
  MaxFaults,    \* bound on failed or interrupted steps
  BlindReads    \* may reading a guest file fail and look like absence?

ASSUME BoundsAssumption ==
  MaxRequests \in Nat /\ MaxFaults \in Nat /\ BlindReads \in BOOLEAN

VARIABLES
  config,       \* extraDomains in config.yaml merged with profile domains
  vm,           \* the instance and how far its boot sequence has come
  limaYaml,     \* domains in the stored instance config
  provisioned,  \* EXTRA_ALLOWED_DOMAINS in /etc/sandbox/provision.env
  fragment,     \* /run/sandbox/squid-allow.d/10-host-config.conf
  modeFile,     \* /run/sandbox/firewall-mode, "allowlist" when absent
  squidConf,    \* the mode /etc/squid/squid.conf was generated for (on disk)
  squid,        \* what the running Squid enforces beyond the base list
  hup,          \* `squid -k reconfigure` was sent and not yet acted on
  cli,          \* the code-vm processes
  fw,           \* the init-firewall.sh runs
  lost,         \* history: a writer of Squid's files ended before telling it
  requests, faults

hostVars  == <<config, limaYaml>>
guestVars == <<provisioned, fragment, modeFile, squidConf, squid, hup>>
vars == <<hostVars, vm, guestVars, cli, fw, lost, requests, faults>>

-----------------------------------------------------------------------------
(* Types and helpers *)

Mode == {"allowlist", "loose"}       \* loose: audit and open, no domain ACL
Absent == [present |-> FALSE, domains |-> {}]
Down == [state |-> "down", domains |-> {}]
Idle == [pc |-> "idle", cmd |-> "run", snap |-> {}, seen |-> "off"]
NoRun == [pc |-> "idle", kind |-> "switch", mode |-> "allowlist", seed |-> FALSE]

Command == {"run", "start", "allow", "apply"}
VmState == {"off", "booting", "up", "failed"}
CliPc == {"idle", "loaded", "save", "resolve", "boot", "waiting",
          "read", "install", "reload", "ready"}
FwPc == {"idle", "mode", "check", "seed", "conf", "restart"}

SquidState == [state : {"down", "open", "filtering"}, domains : SUBSET Domain]
CliProcess == [pc : CliPc, cmd : Command, snap : SUBSET Domain, seen : VmState]
FirewallRun == [pc : FwPc, kind : {"boot", "switch"}, mode : Mode,
                seed : BOOLEAN]

TypeOK ==
  /\ config \in SUBSET Domain
  /\ vm \in VmState
  /\ limaYaml \in SUBSET Domain
  /\ provisioned \in SUBSET Domain
  /\ fragment \in [present : BOOLEAN, domains : SUBSET Domain]
  /\ modeFile \in Mode
  /\ squidConf \in Mode
  /\ squid \in SquidState
  /\ hup \in BOOLEAN
  /\ cli \in [Proc -> CliProcess]
  /\ fw \in [FwRun -> FirewallRun]
  /\ lost \in BOOLEAN
  /\ requests \in 0 .. MaxRequests
  /\ faults \in 0 .. MaxFaults

Running == vm # "off"   \* Lima says Running as soon as ssh answers

\* What Squid enforces after reading the files as they are now.
Parsed(conf, frag) ==
  IF conf = "allowlist" THEN [state |-> "filtering", domains |-> frag.domains]
                        ELSE [state |-> "open", domains |-> {}]
OnDisk == Parsed(squidConf, fragment)

Init ==
  /\ config \in SUBSET Domain
  /\ vm = "off"
  /\ limaYaml = {} /\ provisioned = {}
  /\ fragment = Absent
  /\ modeFile = "allowlist" /\ squidConf = "allowlist"
  /\ squid = Down /\ hup = FALSE
  /\ cli = [p \in Proc |-> Idle]
  /\ fw = [r \in FwRun |-> NoRun]
  /\ lost = FALSE
  /\ requests = 0 /\ faults = 0

Request == requests < MaxRequests /\ requests' = requests + 1
At(p, pc) == cli[p].pc = pc
Goto(p, pc) == cli' = [cli EXCEPT ![p].pc = pc]
FwAt(r, pc) == fw[r].pc = pc

-----------------------------------------------------------------------------
(* The user and the VM's power *)

\* The user rewrites the domains in config.yaml or a profile manifest.
EditConfig ==
  /\ Request
  /\ config' \in (SUBSET Domain) \ {config}
  /\ UNCHANGED <<limaYaml, vm, guestVars, cli, fw, lost, faults>>

\* `code-vm stop`, or the VM dies: tmpfs, Squid and guest processes go.
StopVm ==
  /\ Request
  /\ Running
  /\ vm' = "off"
  /\ fragment' = Absent /\ modeFile' = "allowlist"
  /\ squid' = Down /\ hup' = FALSE /\ lost' = FALSE
  /\ fw' = [r \in FwRun |-> NoRun]
  /\ UNCHANGED <<hostVars, provisioned, squidConf, cli, faults>>

-----------------------------------------------------------------------------
(* A code-vm process *)

\* loadConfigWithProfiles: everything later works on this snapshot.
Load(p, c) ==
  /\ Request
  /\ At(p, "idle")
  /\ cli' = [cli EXCEPT ![p] = [pc |-> "loaded", cmd |-> c, snap |-> config,
                                seen |-> "off"]]
  /\ UNCHANGED <<hostVars, vm, guestVars, fw, lost, faults>>

\* cl.Status, asked once; what each command does with the answer.
AfterStatus(c) ==
  CASE c = "allow" -> "save"
    [] c = "apply" -> IF Running THEN "read" ELSE "idle"
    [] c = "run"   -> IF Running THEN "read" ELSE "resolve"
    [] c = "start" -> IF Running THEN "idle" ELSE "resolve"

QueryStatus(p) ==
  /\ At(p, "loaded")
  /\ cli' = [cli EXCEPT ![p] = [@ EXCEPT !.pc = AfterStatus(cli[p].cmd), !.seen = vm]]
  /\ UNCHANGED <<hostVars, vm, guestVars, fw, lost, requests, faults>>

\* `allow`: merge the accepted domains into the snapshot and save all of it.
Save(p) ==
  /\ At(p, "save")
  /\ \E new \in (SUBSET (Domain \ cli[p].snap)) \ {{}} :
       /\ config' = cli[p].snap \union new
       /\ cli' = [cli EXCEPT ![p] = [@ EXCEPT
                   !.snap = config',
                   !.pc = IF cli[p].seen = "off" THEN "idle" ELSE "read"]]
  /\ UNCHANGED <<limaYaml, vm, guestVars, fw, lost, requests, faults>>

\* `allow` with every candidate already covered: "Nothing to add."
NothingToAdd(p) ==
  /\ At(p, "save")
  /\ Goto(p, "idle")
  /\ UNCHANGED <<hostVars, vm, guestVars, fw, lost, requests, faults>>

\* Render the snapshot into the stored instance config.
ResolveConfigInto(p) ==
  /\ At(p, "resolve")
  /\ limaYaml' = cli[p].snap
  /\ Goto(p, "boot")
  /\ UNCHANGED <<config, vm, guestVars, fw, lost, requests, faults>>

AfterBoot(p) == IF cli[p].cmd = "run" THEN "read" ELSE "idle"

\* `limactl start`: a no-op on an instance another process has started.  The
\* enabled Squid comes up with the squid.conf left on disk, if it can parse
\* it while the fragment directory is still missing.
StartExisting(p) ==
  /\ At(p, "boot")
  /\ \/ /\ vm = "off"
        /\ vm' = "booting"
        /\ provisioned' = limaYaml
        /\ squid' \in {Down, OnDisk}
        /\ Goto(p, "waiting")
     \/ /\ Running
        /\ Goto(p, AfterBoot(p))
        /\ UNCHANGED <<vm, provisioned, squid>>
  /\ UNCHANGED <<hostVars, fragment, modeFile, squidConf, hup, fw, lost,
                 requests, faults>>

\* The readiness probe saw the boot-complete marker.
StartReturns(p) ==
  /\ At(p, "waiting")
  /\ vm = "up"
  /\ Goto(p, AfterBoot(p))
  /\ UNCHANGED <<hostVars, vm, guestVars, fw, lost, requests, faults>>

\* ApplyAllowlist up to its early returns.
AfterRead(want, current) ==
  IF \/ want = {} /\ ~current.present
     \/ current.present /\ current.domains = want
  THEN "ready" ELSE "install"

ReadFragment(p) ==
  /\ At(p, "read")
  /\ Goto(p, AfterRead(cli[p].snap, fragment))
  /\ UNCHANGED <<hostVars, vm, guestVars, fw, lost, requests, faults>>

\* ReadFile turns a failed read into empty content.
ReadFragmentFails(p) ==
  /\ At(p, "read")
  /\ BlindReads /\ faults < MaxFaults
  /\ faults' = faults + 1
  /\ Goto(p, AfterRead(cli[p].snap, Absent))
  /\ UNCHANGED <<hostVars, vm, guestVars, fw, lost, requests>>

\* Mutant: the fragment is installed, the reload forgotten.
InstallWithoutReload(p) ==
  /\ At(p, "install") /\ Running
  /\ fragment' = [present |-> TRUE, domains |-> cli[p].snap]
  /\ Goto(p, "ready")
  /\ UNCHANGED <<hostVars, vm, provisioned, modeFile, squidConf, squid, hup,
                 fw, lost, requests, faults>>

InstallFragment(p) ==
  /\ At(p, "install")
  /\ Running
  /\ fragment' = [present |-> TRUE, domains |-> cli[p].snap]
  /\ Goto(p, "reload")
  /\ UNCHANGED <<hostVars, vm, provisioned, modeFile, squidConf, squid, hup,
                 fw, lost, requests, faults>>

\* Mutant: the reload's error is swallowed and no signal reaches Squid.
ReloadDropped(p) ==
  /\ At(p, "reload")
  /\ Running /\ squid.state # "down"
  /\ Goto(p, "ready")
  /\ UNCHANGED <<hostVars, vm, guestVars, fw, lost, requests, faults>>

ReloadSquid(p) ==
  /\ At(p, "reload")
  /\ Running /\ squid.state # "down"
  /\ hup' = TRUE
  /\ Goto(p, "ready")
  /\ UNCHANGED <<hostVars, vm, provisioned, fragment, modeFile, squidConf,
                 squid, fw, lost, requests, faults>>

\* The agent command, or the message `allow` and `apply` end with.
Finish(p) ==
  /\ At(p, "ready")
  /\ Goto(p, "idle")
  /\ UNCHANGED <<hostVars, vm, guestVars, fw, lost, requests, faults>>

Drop(p) ==
  /\ Goto(p, "idle")
  /\ lost' = (lost \/ (Running /\ At(p, "reload")))
  /\ UNCHANGED <<hostVars, vm, guestVars, fw, requests>>

\* A guest command that cannot work: no VM, no Squid, or a failed boot.
Abort(p) ==
  /\ \/ At(p, "install") /\ ~Running
     \/ At(p, "reload") /\ (~Running \/ squid.state = "down")
     \/ At(p, "waiting") /\ vm \in {"off", "failed"}
  /\ Drop(p)
  /\ UNCHANGED faults

\* A step fails on its own, or the user interrupts the process.
Interrupt(p) ==
  /\ ~At(p, "idle") /\ ~At(p, "ready")
  /\ faults < MaxFaults /\ faults' = faults + 1
  /\ Drop(p)

-----------------------------------------------------------------------------
(* init-firewall.sh, as far as Squid's files go *)

\* sandbox-boot.sh reaches init-firewall.sh.
BootFirewall(r) ==
  /\ vm = "booting"
  /\ FwAt(r, "idle")
  /\ \A q \in FwRun : FwAt(q, "idle") \/ fw[q].kind = "switch"
  /\ fw' = [fw EXCEPT ![r] = [NoRun EXCEPT !.pc = "mode", !.kind = "boot"]]
  /\ UNCHANGED <<hostVars, vm, guestVars, cli, lost, requests, faults>>

\* `code-vm firewall m`: set-firewall-mode.sh writes the mode, then execs.
SwitchMode(r, m) ==
  /\ Request
  /\ Running
  /\ FwAt(r, "idle")
  /\ modeFile' = m
  /\ fw' = [fw EXCEPT ![r] = [NoRun EXCEPT !.pc = "mode"]]
  /\ UNCHANGED <<hostVars, vm, provisioned, fragment, squidConf, squid, hup,
                 cli, lost, faults>>

\* Mutant: no default for an absent mode file, as every boot finds it.
ReadModeNoDefault(r) ==
  /\ FwAt(r, "mode")
  /\ fw' = [fw EXCEPT ![r] = [@ EXCEPT
             !.pc = "check", !.mode = IF fw[r].kind = "boot" THEN "" ELSE modeFile]]
  /\ UNCHANGED <<hostVars, vm, guestVars, cli, lost, requests, faults>>

ReadMode(r) ==
  /\ FwAt(r, "mode")
  /\ fw' = [fw EXCEPT ![r] = [@ EXCEPT !.pc = "check", !.mode = modeFile]]
  /\ UNCHANGED <<hostVars, vm, guestVars, cli, lost, requests, faults>>

\* Mutant: the guard on an existing fragment is dropped.
AlwaysSeed == provisioned # {}

\* [ ! -f fragment ] && [ -n EXTRA_ALLOWED_DOMAINS ]
MustSeed == ~fragment.present /\ provisioned # {}

CheckFragment(r) ==
  /\ FwAt(r, "check")
  /\ fw' = [fw EXCEPT ![r].pc = IF MustSeed THEN "seed" ELSE "conf"]
  /\ UNCHANGED <<hostVars, vm, guestVars, cli, lost, requests, faults>>

SeedFragment(r) ==
  /\ FwAt(r, "seed")
  /\ fragment' = [present |-> TRUE, domains |-> provisioned]
  /\ fw' = [fw EXCEPT ![r] = [@ EXCEPT !.pc = "conf", !.seed = TRUE]]
  /\ UNCHANGED <<hostVars, vm, provisioned, modeFile, squidConf, squid, hup,
                 cli, lost, requests, faults>>

WriteSquidConf(r) ==
  /\ FwAt(r, "conf")
  /\ squidConf' = fw[r].mode
  /\ fw' = [fw EXCEPT ![r].pc = "restart"]
  /\ UNCHANGED <<hostVars, vm, provisioned, fragment, modeFile, squid, hup,
                 cli, lost, requests, faults>>

\* systemctl restart; a boot's run also lets the boot sequence complete.
RestartSquid(r) ==
  /\ FwAt(r, "restart")
  /\ squid' = OnDisk
  /\ hup' = FALSE /\ lost' = FALSE
  /\ vm' = IF fw[r].kind = "boot" THEN "up" ELSE vm
  /\ fw' = [fw EXCEPT ![r] = NoRun]
  /\ UNCHANGED <<hostVars, provisioned, fragment, modeFile, squidConf, cli,
                 requests, faults>>

\* `set -e`: any failing step ends the run; a failed boot stays failed.
FirewallFails(r) ==
  /\ ~FwAt(r, "idle")
  /\ faults < MaxFaults /\ faults' = faults + 1
  /\ squid' \in {squid} \union (IF FwAt(r, "restart") THEN {Down} ELSE {})
  /\ lost' = (lost \/ FwAt(r, "restart") \/ (FwAt(r, "conf") /\ fw[r].seed))
  /\ vm' = IF fw[r].kind = "boot" THEN "failed" ELSE vm
  /\ fw' = [fw EXCEPT ![r] = NoRun]
  /\ UNCHANGED <<hostVars, provisioned, fragment, modeFile, squidConf, hup,
                 cli, requests>>

\* Squid acts on the signal and re-reads squid.conf and its includes.
SquidReconfigures ==
  /\ hup /\ squid.state # "down"
  /\ squid' = OnDisk
  /\ hup' = FALSE /\ lost' = FALSE
  /\ UNCHANGED <<hostVars, vm, provisioned, fragment, modeFile, squidConf,
                 cli, fw, requests, faults>>

-----------------------------------------------------------------------------
CliStep(p) ==
  \/ QueryStatus(p) \/ Save(p) \/ NothingToAdd(p)
  \/ ResolveConfigInto(p) \/ StartExisting(p) \/ StartReturns(p)
  \/ ReadFragment(p) \/ InstallFragment(p) \/ ReloadSquid(p)
  \/ Finish(p) \/ Abort(p)

FwStep(r) ==
  \/ BootFirewall(r) \/ ReadMode(r) \/ CheckFragment(r) \/ SeedFragment(r)
  \/ WriteSquidConf(r) \/ RestartSquid(r)

Next ==
  \/ EditConfig \/ StopVm \/ SquidReconfigures
  \/ \E p \in Proc : \/ \E c \in Command : Load(p, c)
                     \/ CliStep(p) \/ ReadFragmentFails(p) \/ Interrupt(p)
  \/ \E r \in FwRun : \/ \E m \in Mode : SwitchMode(r, m)
                      \/ FwStep(r) \/ FirewallFails(r)

\* Processes and scripts run to their end and Squid handles its signals;
\* nothing obliges the user to act or a step to fail.
Fairness ==
  /\ \A p \in Proc : WF_vars(CliStep(p))
  /\ \A r \in FwRun : WF_vars(FwStep(r))
  /\ WF_vars(SquidReconfigures)

Spec == Init /\ [][Next]_vars
FairSpec == Spec /\ Fairness

-----------------------------------------------------------------------------
(* Properties *)

\* Someone has still to tell Squid about the files as they now are.
TellingSquid ==
  \/ hup
  \/ \E p \in Proc : At(p, "reload")
  \/ \E r \in FwRun : FwAt(r, "restart") \/ (FwAt(r, "conf") /\ fw[r].seed)

\* Squid never drifts silently from its files: whenever a running Squid
\* enforces something else than squid.conf and the fragment say, a reload is
\* under way, or a writer ended between its write and its reload.
ProxyTracksFiles ==
  squid.state # "down" /\ squid # OnDisk => TellingSquid \/ lost

\* A booted VM has one authority over its allowlist: the fragment changes only
\* to an allowlist some code-vm process loaded from the host config.  Whatever
\* mode switches and restarts of Squid happen, what an invocation applied
\* stays applied, and no revoked domain comes back from provision.env.
NoResurrection ==
  [][vm = "up" /\ vm' = "up" /\ fragment' # fragment
       => \E p \in Proc : At(p, "install") /\ fragment'.domains = cli[p].snap
    ]_vars

\* Once a reload is owed it happens: a running Squid catches up with its
\* files, unless the one who owed it failed or the VM went down.
ProxyCatchesUp ==
  (squid.state # "down" /\ squid # OnDisk)
    ~> (squid = OnDisk \/ squid.state = "down" \/ lost)

\* README: "Removing a domain from the config revokes it on the next
\* invocation": when a command starts after ApplyAllowlist returned without
\* an error, Squid enforces nothing beyond the allowlist it loaded.
RevokedOnNextInvocation ==
  \A p \in Proc :
    At(p, "ready") /\ cli[p].seen = "up" /\ vm = "up" /\ ~hup
    /\ squid.state = "filtering"
      => squid.domains \subseteq cli[p].snap

\* init-firewall.sh: a fragment code-vm has written is authoritative "and
\* this script must not overwrite it".
SeedNeverOverwrites ==
  [][\A r \in FwRun : FwAt(r, "seed") /\ fw'[r].pc = "conf" /\ fragment.present
       => UNCHANGED fragment]_vars

-----------------------------------------------------------------------------
(* Inductive strengthenings, used by AllowlistProofs *)

\* A VM that is off has no Squid and runs no script.
OffMeansQuiet ==
  vm = "off" => squid.state = "down" /\ \A r \in FwRun : FwAt(r, "idle")

ProxyInv == TypeOK /\ OffMeansQuiet /\ ProxyTracksFiles

\* The seed is settled: nothing is left for init-firewall.sh to seed.
Settled == fragment.present \/ provisioned = {}

SeedInv ==
  /\ TypeOK /\ OffMeansQuiet
  /\ \A r \in FwRun : fw[r].kind = "boot" =>
       /\ vm = "booting" /\ ~FwAt(r, "idle")
       /\ fw[r].pc \in {"conf", "restart"} => Settled
  /\ vm = "up" => Settled /\ \A r \in FwRun : ~FwAt(r, "seed")
=============================================================================
