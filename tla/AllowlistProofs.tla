--------------------------- MODULE AllowlistProofs ---------------------------
(***************************************************************************)
(* Theorems about Allowlist, for any number of domains, code-vm processes  *)
(* and init-firewall.sh runs, and any bounds.                              *)
(***************************************************************************)
EXTENDS Allowlist, TLAPS

(* Squid's state after it reads its files is a state Squid can be in. *)
LEMMA OnDiskType == TypeOK => OnDisk \in SquidState
  BY DEF TypeOK, OnDisk, Parsed, SquidState

(* The records processes and runs are set to, and where the branches of    *)
(* QueryStatus, AfterBoot and AfterRead send a process.                    *)
LEMMA RecordTypes ==
  /\ Down \in SquidState
  /\ Idle \in CliProcess
  /\ NoRun \in FirewallRun
  /\ [NoRun EXCEPT !.pc = "mode"] \in FirewallRun
  /\ [NoRun EXCEPT !.pc = "mode", !.kind = "boot"] \in FirewallRun
  BY DEF Down, Idle, NoRun, SquidState, CliProcess, FirewallRun, CliPc,
     Command, VmState, FwPc, Mode

LEMMA BranchType ==
  ASSUME TypeOK, NEW p \in Proc
  PROVE  /\ AfterStatus(cli[p].cmd) \in CliPc
         /\ AfterBoot(p) \in CliPc
         /\ \A current : AfterRead(cli[p].snap, current) \in CliPc
<1>1. cli[p].cmd \in Command
  BY DEF TypeOK, CliProcess
<1> QED
  BY <1>1 DEF AfterStatus, AfterBoot, AfterRead, CliPc, Command

(* Moving a process or a run to another of its pcs keeps the type. *)
LEMMA GotoType ==
  ASSUME TypeOK, NEW p \in Proc, NEW pc \in CliPc, Goto(p, pc)
  PROVE  cli' \in [Proc -> CliProcess]
  BY DEF TypeOK, Goto, CliProcess

LEMMA FwGotoType ==
  ASSUME TypeOK, NEW r \in FwRun, NEW run \in FirewallRun,
         fw' = [fw EXCEPT ![r] = run]
  PROVE  fw' \in [FwRun -> FirewallRun]
  BY DEF TypeOK

LEMMA TypeInit == Init => TypeOK
<1> SUFFICES ASSUME Init PROVE TypeOK
  OBVIOUS
<1>1. Absent \in [present : BOOLEAN, domains : SUBSET Domain]
  BY DEF Absent
<1>2. cli \in [Proc -> CliProcess] /\ fw \in [FwRun -> FirewallRun]
  BY RecordTypes DEF Init
<1>3. requests \in 0 .. MaxRequests /\ faults \in 0 .. MaxFaults
  BY BoundsAssumption DEF Init
<1>4. /\ vm \in VmState /\ modeFile \in Mode /\ squidConf \in Mode
      /\ hup \in BOOLEAN /\ lost \in BOOLEAN
  BY DEF Init, VmState, Mode
<1>5. /\ config \in SUBSET Domain /\ limaYaml \in SUBSET Domain
      /\ provisioned \in SUBSET Domain /\ squid \in SquidState
      /\ fragment \in [present : BOOLEAN, domains : SUBSET Domain]
  BY <1>1, RecordTypes DEF Init
<1> QED
  BY <1>2, <1>3, <1>4, <1>5 DEF TypeOK

LEMMA TypeStep == TypeOK /\ [Next]_vars => TypeOK'
<1> SUFFICES ASSUME TypeOK, [Next]_vars PROVE TypeOK'
  OBVIOUS
<1> USE BoundsAssumption DEF hostVars, guestVars
<1>1. CASE EditConfig
  BY <1>1 DEF EditConfig, Request, TypeOK
<1>2. CASE StopVm
  <2>1. fw' \in [FwRun -> FirewallRun]
    BY <1>2, RecordTypes DEF StopVm
  <2>2. fragment' \in [present : BOOLEAN, domains : SUBSET Domain]
    BY <1>2 DEF StopVm, Absent
  <2>3. requests' \in 0 .. MaxRequests
    BY <1>2 DEF StopVm, Request, TypeOK
  <2>4. vm' \in VmState /\ modeFile' \in Mode
    BY <1>2 DEF StopVm, VmState, Mode
  <2>5. squid' \in SquidState /\ hup' \in BOOLEAN /\ lost' \in BOOLEAN
    BY <1>2, RecordTypes DEF StopVm
  <2> QED
    BY <1>2, <2>1, <2>2, <2>3, <2>4, <2>5 DEF StopVm, TypeOK
<1>3. CASE SquidReconfigures
  BY <1>3, OnDiskType DEF SquidReconfigures, TypeOK
<1>4. ASSUME NEW p \in Proc, NEW c \in Command, Load(p, c) PROVE TypeOK'
  <2>1. [pc |-> "loaded", cmd |-> c, snap |-> config, seen |-> "off"]
          \in CliProcess
    BY DEF CliProcess, CliPc, VmState, TypeOK
  <2>2. cli' \in [Proc -> CliProcess]
    BY <1>4, <2>1 DEF Load, TypeOK
  <2> QED
    BY <1>4, <2>2 DEF Load, Request, TypeOK
<1>5. ASSUME NEW p \in Proc, CliStep(p) PROVE TypeOK'
  <2> USE DEF CliPc
  <2>1. CASE QueryStatus(p)
    <3>1. cli' \in [Proc -> CliProcess]
      BY <2>1, BranchType DEF QueryStatus, CliProcess, TypeOK
    <3> QED
      BY <2>1, <3>1 DEF QueryStatus, TypeOK
  <2>2. CASE Save(p)
    <3>1. PICK new \in (SUBSET (Domain \ cli[p].snap)) \ {{}} :
            /\ config' = cli[p].snap \union new
            /\ cli' = [cli EXCEPT ![p] = [@ EXCEPT
                        !.snap = config',
                        !.pc = IF cli[p].seen = "off" THEN "idle" ELSE "read"]]
      BY <2>2 DEF Save
    <3>2. config' \in SUBSET Domain
      BY <3>1 DEF TypeOK, CliProcess
    <3> DEFINE next == IF cli[p].seen = "off" THEN "idle" ELSE "read"
    <3>3. next \in CliPc
      OBVIOUS
    <3>4. [cli[p] EXCEPT !.snap = config', !.pc = next] \in CliProcess
      BY <3>2, <3>3 DEF TypeOK, CliProcess
    <3>5. cli' = [cli EXCEPT ![p] = [cli[p] EXCEPT !.snap = config',
                                                   !.pc = next]]
      BY <3>1
    <3>6. cli' \in [Proc -> CliProcess]
      BY <3>4, <3>5 DEF TypeOK
    <3> QED
      BY <2>2, <3>2, <3>6 DEF Save, TypeOK
  <2>3. CASE NothingToAdd(p)
    BY <2>3, GotoType DEF NothingToAdd, TypeOK
  <2>4. CASE ResolveConfigInto(p)
    <3>1. limaYaml' \in SUBSET Domain
      BY <2>4 DEF ResolveConfigInto, TypeOK, CliProcess
    <3> QED
      BY <2>4, <3>1, GotoType DEF ResolveConfigInto, TypeOK
  <2>5. CASE StartExisting(p)
    <3>1. squid' \in SquidState
      BY <2>5, OnDiskType, RecordTypes DEF StartExisting, TypeOK
    <3>2. cli' \in [Proc -> CliProcess]
      BY <2>5, BranchType, GotoType DEF StartExisting
    <3> QED
      BY <2>5, <3>1, <3>2 DEF StartExisting, VmState, TypeOK
  <2>6. CASE StartReturns(p)
    BY <2>6, BranchType, GotoType DEF StartReturns, TypeOK
  <2>7. CASE ReadFragment(p)
    BY <2>7, BranchType, GotoType DEF ReadFragment, TypeOK
  <2>8. CASE InstallFragment(p)
    <3>1. fragment' \in [present : BOOLEAN, domains : SUBSET Domain]
      BY <2>8 DEF InstallFragment, TypeOK, CliProcess
    <3> QED
      BY <2>8, <3>1, GotoType DEF InstallFragment, TypeOK
  <2>9. CASE ReloadSquid(p)
    BY <2>9, GotoType DEF ReloadSquid, TypeOK
  <2>10. CASE Finish(p)
    BY <2>10, GotoType DEF Finish, TypeOK
  <2>11. CASE Abort(p)
    BY <2>11, GotoType DEF Abort, Drop, TypeOK
  <2> QED
    BY <1>5, <2>1, <2>2, <2>3, <2>4, <2>5, <2>6, <2>7, <2>8, <2>9, <2>10,
       <2>11 DEF CliStep
<1>6. ASSUME NEW p \in Proc, ReadFragmentFails(p) PROVE TypeOK'
  BY <1>6, BranchType, GotoType DEF ReadFragmentFails, TypeOK
<1>7. ASSUME NEW p \in Proc, Interrupt(p) PROVE TypeOK'
  BY <1>7, GotoType DEF Interrupt, Drop, TypeOK, CliPc
<1>8. ASSUME NEW r \in FwRun, NEW m \in Mode, SwitchMode(r, m) PROVE TypeOK'
  BY <1>8, RecordTypes, FwGotoType DEF SwitchMode, Request, TypeOK
<1>9. ASSUME NEW r \in FwRun, FwStep(r) PROVE TypeOK'
  <2>0. fw[r] \in FirewallRun
    BY DEF TypeOK
  <2>1. CASE BootFirewall(r)
    BY <2>1, RecordTypes, FwGotoType DEF BootFirewall, TypeOK
  <2>2. CASE ReadMode(r)
    <3>1. [fw[r] EXCEPT !.pc = "check", !.mode = modeFile] \in FirewallRun
      BY <2>0 DEF FirewallRun, FwPc, TypeOK
    <3>2. fw' \in [FwRun -> FirewallRun]
      BY <2>2, <3>1, FwGotoType DEF ReadMode, TypeOK
    <3> QED
      BY <2>2, <3>2 DEF ReadMode, TypeOK
  <2>3. CASE CheckFragment(r)
    <3>1. fw' \in [FwRun -> FirewallRun]
      BY <2>3 DEF CheckFragment, FirewallRun, FwPc, TypeOK
    <3> QED
      BY <2>3, <3>1 DEF CheckFragment, TypeOK
  <2>4. CASE SeedFragment(r)
    <3>1. fw' \in [FwRun -> FirewallRun]
      BY <2>4 DEF SeedFragment, FirewallRun, FwPc, TypeOK
    <3> QED
      BY <2>4, <3>1 DEF SeedFragment, TypeOK
  <2>5. CASE WriteSquidConf(r)
    <3>1. fw' \in [FwRun -> FirewallRun] /\ squidConf' \in Mode
      BY <2>5 DEF WriteSquidConf, FirewallRun, FwPc, TypeOK
    <3> QED
      BY <2>5, <3>1 DEF WriteSquidConf, TypeOK
  <2>6. CASE RestartSquid(r)
    BY <2>6, OnDiskType, RecordTypes, FwGotoType
    DEF RestartSquid, VmState, TypeOK
  <2> QED
    BY <1>9, <2>1, <2>2, <2>3, <2>4, <2>5, <2>6 DEF FwStep
<1>10. ASSUME NEW r \in FwRun, FirewallFails(r) PROVE TypeOK'
  BY <1>10, RecordTypes, FwGotoType DEF FirewallFails, VmState, TypeOK
<1>11. CASE UNCHANGED vars
  BY <1>11 DEF vars, TypeOK
<1> QED
  BY <1>1, <1>2, <1>3, <1>4, <1>5, <1>6, <1>7, <1>8, <1>9, <1>10, <1>11
  DEF Next

(* Every variable keeps its type: in particular a process only ever holds  *)
(* a snapshot over the known domains, and the bounds are respected.        *)
THEOREM TypeCorrect == Spec => []TypeOK
  BY TypeInit, TypeStep, PTL DEF Spec

-----------------------------------------------------------------------------
(* Squid tracks its files *)

(* A step of a process that owes no reload, and touches nothing Squid      *)
(* reads, changes neither what is owed nor whether Squid is behind.        *)
LEMMA QuietCliStep ==
  ASSUME ProxyInv, NEW p \in Proc, ~At(p, "reload"),
         \A q \in Proc : q # p => cli'[q] = cli[q],
         UNCHANGED <<vm, fragment, squidConf, squid, hup, fw, lost>>
  PROVE  OffMeansQuiet' /\ ProxyTracksFiles'
<1>1. OffMeansQuiet'
  BY DEF ProxyInv, OffMeansQuiet, FwAt
<1>2. ASSUME NEW q \in Proc, At(q, "reload") PROVE At(q, "reload")'
  BY <1>2 DEF At
<1>3. TellingSquid => TellingSquid'
  BY <1>2 DEF TellingSquid, FwAt
<1>4. OnDisk' = OnDisk
  BY DEF OnDisk, Parsed
<1> QED
  BY <1>1, <1>3, <1>4 DEF ProxyInv, ProxyTracksFiles

(* A Squid that has just read its files, or is not running, is not behind. *)
LEMMA UpToDate ==
  ASSUME squid'.state = "down" \/ squid' = OnDisk'
  PROVE  ProxyTracksFiles'
  BY DEF ProxyTracksFiles

(* A step of one init-firewall.sh run that leaves Squid and the fragment   *)
(* alone, and after which the run owes whatever it owed.                   *)
LEMMA QuietFwStep ==
  ASSUME ProxyInv, NEW r \in FwRun, Running,
         \A q \in FwRun : q # r => fw'[q] = fw[q],
         ~FwAt(r, "conf"), ~FwAt(r, "restart"),
         UNCHANGED <<vm, fragment, squidConf, squid, hup, cli, lost>>
  PROVE  OffMeansQuiet' /\ ProxyTracksFiles'
<1>1. OffMeansQuiet'
  BY DEF OffMeansQuiet, Running
<1>2. TellingSquid => TellingSquid'
  BY DEF TellingSquid, FwAt, At
<1>3. OnDisk' = OnDisk
  BY DEF OnDisk, Parsed
<1> QED
  BY <1>1, <1>2, <1>3 DEF ProxyInv, ProxyTracksFiles

LEMMA ProxyInvInit == Init => ProxyInv
<1> SUFFICES ASSUME Init PROVE ProxyInv
  OBVIOUS
<1>1. squid.state = "down"
  BY DEF Init, Down
<1>2. \A r \in FwRun : FwAt(r, "idle")
  BY DEF Init, NoRun, FwAt
<1> QED
  BY <1>1, <1>2, TypeInit DEF ProxyInv, OffMeansQuiet, ProxyTracksFiles

LEMMA ProxyInvStep == ProxyInv /\ [Next]_vars => ProxyInv'
<1> SUFFICES ASSUME ProxyInv, [Next]_vars
             PROVE  OffMeansQuiet' /\ ProxyTracksFiles'
  BY TypeStep DEF ProxyInv
<1> USE DEF hostVars, guestVars
<1>0. TypeOK /\ OffMeansQuiet /\ ProxyTracksFiles
  BY DEF ProxyInv
<1>1. CASE EditConfig \/ UNCHANGED vars
  <2>1. UNCHANGED <<vm, fragment, squidConf, squid, hup, cli, fw, lost>>
    BY <1>1 DEF EditConfig, vars
  <2> QED
    BY <1>0, <2>1 DEF OffMeansQuiet, ProxyTracksFiles, TellingSquid, OnDisk,
       Parsed, At, FwAt
<1>2. CASE StopVm
  <2>1. squid'.state = "down" /\ fw' = [r \in FwRun |-> NoRun]
    BY <1>2 DEF StopVm, Down
  <2>2. \A r \in FwRun : FwAt(r, "idle")'
    BY <2>1 DEF FwAt, NoRun
  <2> QED
    BY <2>1, <2>2, UpToDate DEF OffMeansQuiet
<1>3. CASE SquidReconfigures
  <2>1. squid' = OnDisk' /\ vm' = vm /\ fw' = fw
    BY <1>3 DEF SquidReconfigures, OnDisk, Parsed
  <2>2. vm # "off"
    BY <1>0, <1>3 DEF SquidReconfigures, OffMeansQuiet
  <2> QED
    BY <2>1, <2>2, UpToDate DEF OffMeansQuiet
<1>4. ASSUME NEW p \in Proc, NEW c \in Command, Load(p, c)
      PROVE  OffMeansQuiet' /\ ProxyTracksFiles'
  <2>1. ~At(p, "reload")
    BY <1>4 DEF Load, At
  <2>2. \A q \in Proc : q # p => cli'[q] = cli[q]
    BY <1>0, <1>4 DEF Load, TypeOK
  <2> QED
    BY <1>4, <2>1, <2>2, QuietCliStep DEF Load
<1>5. ASSUME NEW p \in Proc, CliStep(p) \/ ReadFragmentFails(p) \/ Interrupt(p)
      PROVE  OffMeansQuiet' /\ ProxyTracksFiles'
  <2>0. \A q \in Proc : q # p => cli'[q] = cli[q]
    BY <1>0, <1>5 DEF CliStep, QueryStatus, Save, NothingToAdd,
       ResolveConfigInto, StartExisting, StartReturns, ReadFragment,
       InstallFragment, ReloadSquid, Finish, Abort, ReadFragmentFails,
       Interrupt, Drop, Goto, TypeOK
  <2>1. CASE \/ QueryStatus(p) \/ Save(p) \/ NothingToAdd(p)
             \/ ResolveConfigInto(p) \/ StartReturns(p) \/ ReadFragment(p)
             \/ Finish(p) \/ ReadFragmentFails(p)
    <3>1. ~At(p, "reload")
      BY <2>1 DEF QueryStatus, Save, NothingToAdd, ResolveConfigInto,
         StartReturns, ReadFragment, Finish, ReadFragmentFails, At
    <3>2. UNCHANGED <<vm, fragment, squidConf, squid, hup, fw, lost>>
      BY <2>1 DEF QueryStatus, Save, NothingToAdd, ResolveConfigInto,
         StartReturns, ReadFragment, Finish, ReadFragmentFails
    <3> QED
      BY <2>0, <3>1, <3>2, QuietCliStep
  <2>2. CASE StartExisting(p)
    <3>1. CASE vm = "off"
      <4>1. squid' \in {Down, OnDisk} /\ vm' = "booting"
        BY <2>2, <3>1 DEF StartExisting, Running
      <4>2. OnDisk' = OnDisk
        BY <2>2 DEF StartExisting, OnDisk, Parsed
      <4> QED
        BY <4>1, <4>2, UpToDate DEF Down, OffMeansQuiet
    <3>2. CASE vm # "off"
      <4>1. UNCHANGED <<vm, fragment, squidConf, squid, hup, fw, lost>>
        BY <2>2, <3>2 DEF StartExisting
      <4>2. ~At(p, "reload")
        BY <2>2 DEF StartExisting, At
      <4> QED
        BY <2>0, <4>1, <4>2, QuietCliStep
    <3> QED
      BY <3>1, <3>2
  <2>3. CASE InstallFragment(p)
    <3>1. At(p, "reload")'
      BY <1>0, <2>3 DEF InstallFragment, Goto, At, TypeOK, CliProcess
    <3>2. TellingSquid'
      BY <3>1 DEF TellingSquid
    <3>3. vm' # "off"
      BY <2>3 DEF InstallFragment, Running
    <3> QED
      BY <3>2, <3>3 DEF ProxyTracksFiles, OffMeansQuiet
  <2>4. CASE ReloadSquid(p)
    <3>1. hup' /\ vm' # "off"
      BY <2>4 DEF ReloadSquid, Running
    <3> QED
      BY <3>1 DEF ProxyTracksFiles, OffMeansQuiet, TellingSquid
  <2>5. CASE Abort(p) \/ Interrupt(p)
    <3>1. /\ UNCHANGED <<vm, fragment, squidConf, squid, hup, fw>>
          /\ lost' = (lost \/ (Running /\ At(p, "reload")))
      BY <2>5 DEF Abort, Interrupt, Drop
    <3>2. OffMeansQuiet'
      BY <1>0, <3>1 DEF OffMeansQuiet, FwAt
    <3>3. CASE vm = "off"
      BY <1>0, <3>1, <3>2, <3>3, UpToDate DEF OffMeansQuiet
    <3>4. CASE vm # "off" /\ At(p, "reload")
      BY <3>1, <3>2, <3>4 DEF ProxyTracksFiles, Running
    <3>5. CASE vm # "off" /\ ~At(p, "reload")
      <4>1. UNCHANGED lost
        BY <1>0, <3>1, <3>5 DEF TypeOK
      <4> QED
        BY <2>0, <3>1, <3>5, <4>1, QuietCliStep
    <3> QED
      BY <3>3, <3>4, <3>5
  <2> QED
    BY <1>5, <2>1, <2>2, <2>3, <2>4, <2>5 DEF CliStep
<1>6. ASSUME NEW r \in FwRun, NEW m \in Mode, SwitchMode(r, m)
      PROVE  OffMeansQuiet' /\ ProxyTracksFiles'
  <2>1. \A q \in FwRun : q # r => fw'[q] = fw[q]
    BY <1>0, <1>6 DEF SwitchMode, TypeOK
  <2>2. ~FwAt(r, "conf") /\ ~FwAt(r, "restart")
    BY <1>6 DEF SwitchMode, FwAt
  <2> QED
    BY <1>6, <2>1, <2>2, QuietFwStep DEF SwitchMode
<1>7. ASSUME NEW r \in FwRun, FwStep(r) \/ FirewallFails(r)
      PROVE  OffMeansQuiet' /\ ProxyTracksFiles'
  <2>0. \A q \in FwRun : q # r => fw'[q] = fw[q]
    BY <1>0, <1>7 DEF FwStep, BootFirewall, ReadMode, CheckFragment,
       SeedFragment, WriteSquidConf, RestartSquid, FirewallFails, TypeOK
  <2>1. Running
    <3>1. vm = "booting" \/ ~FwAt(r, "idle")
      BY <1>7 DEF FwStep, BootFirewall, ReadMode, CheckFragment,
         SeedFragment, WriteSquidConf, RestartSquid, FirewallFails, FwAt
    <3> QED
      BY <1>0, <3>1 DEF OffMeansQuiet, Running
  <2>2. vm' # "off" /\ OffMeansQuiet'
    <3>1. vm' \in {vm, "up", "failed"}
      BY <1>7 DEF FwStep, BootFirewall, ReadMode, CheckFragment,
         SeedFragment, WriteSquidConf, RestartSquid, FirewallFails
    <3> QED
      BY <2>1, <3>1 DEF Running, OffMeansQuiet
  <2>3. CASE BootFirewall(r) \/ ReadMode(r) \/ CheckFragment(r)
    <3>1. ~FwAt(r, "conf") /\ ~FwAt(r, "restart")
      BY <2>3 DEF BootFirewall, ReadMode, CheckFragment, FwAt
    <3>2. UNCHANGED <<vm, fragment, squidConf, squid, hup, cli, lost>>
      BY <2>3 DEF BootFirewall, ReadMode, CheckFragment
    <3> QED
      BY <2>0, <2>1, <3>1, <3>2, QuietFwStep
  <2>4. CASE SeedFragment(r)
    <3>1. FwAt(r, "conf")' /\ fw'[r].seed
      BY <1>0, <2>4 DEF SeedFragment, FwAt, TypeOK, FirewallRun
    <3> QED
      BY <2>2, <3>1 DEF ProxyTracksFiles, TellingSquid
  <2>5. CASE WriteSquidConf(r)
    <3>1. FwAt(r, "restart")'
      BY <1>0, <2>5 DEF WriteSquidConf, FwAt, TypeOK, FirewallRun
    <3> QED
      BY <2>2, <3>1 DEF ProxyTracksFiles, TellingSquid
  <2>6. CASE RestartSquid(r)
    <3>1. squid' = OnDisk'
      BY <2>6 DEF RestartSquid, OnDisk, Parsed
    <3> QED
      BY <2>2, <3>1, UpToDate
  <2>7. CASE FirewallFails(r)
    <3>1. CASE lost'
      BY <2>2, <3>1 DEF ProxyTracksFiles
    <3>2. CASE ~lost'
      <4>1. /\ ~lost /\ ~FwAt(r, "restart")
            /\ ~(FwAt(r, "conf") /\ fw[r].seed)
        BY <2>7, <3>2 DEF FirewallFails
      <4>2. UNCHANGED <<squid, squidConf, fragment, hup, cli>>
        BY <2>7, <4>1 DEF FirewallFails
      <4>3. TellingSquid => TellingSquid'
        BY <2>0, <4>1, <4>2 DEF TellingSquid, FwAt, At
      <4> QED
        BY <1>0, <2>2, <4>1, <4>2, <4>3 DEF ProxyTracksFiles, OnDisk, Parsed
    <3> QED
      BY <3>1, <3>2
  <2> QED
    BY <1>7, <2>3, <2>4, <2>5, <2>6, <2>7 DEF FwStep
<1> QED
  BY <1>1, <1>2, <1>3, <1>4, <1>5, <1>6, <1>7 DEF Next

(* Squid never drifts silently: any number of concurrent code-vm processes *)
(* and firewall runs, interrupted anywhere, leave a running Squid either   *)
(* in line with its files, or with a reload under way, or with a writer    *)
(* that ended between its write and its reload.                            *)
THEOREM ProxyTracks == Spec => []ProxyTracksFiles
<1>1. ProxyInv => ProxyTracksFiles
  BY DEF ProxyInv
<1> QED
  BY ProxyInvInit, ProxyInvStep, <1>1, PTL DEF Spec

-----------------------------------------------------------------------------
(* Revoked domains stay revoked *)

(* What SeedInv adds to the type invariant about the runs of               *)
(* init-firewall.sh and the VM's boot.                                     *)
BootRunsSeed ==
  \A r \in FwRun : fw[r].kind = "boot" =>
    /\ vm = "booting" /\ ~FwAt(r, "idle")
    /\ fw[r].pc \in {"conf", "restart"} => Settled
UpIsSettled == vm = "up" => Settled /\ \A r \in FwRun : ~FwAt(r, "seed")

LEMMA SeedInvParts ==
  SeedInv <=> TypeOK /\ OffMeansQuiet /\ BootRunsSeed /\ UpIsSettled
  BY DEF SeedInv, BootRunsSeed, UpIsSettled

LEMMA SeedInvInit == Init => SeedInv
<1> SUFFICES ASSUME Init PROVE SeedInv
  OBVIOUS
<1>1. TypeOK /\ OffMeansQuiet
  BY ProxyInvInit DEF ProxyInv
<1>2. vm = "off" /\ \A r \in FwRun : fw[r].kind = "switch"
  BY DEF Init, NoRun
<1> QED
  BY <1>1, <1>2, SeedInvParts DEF BootRunsSeed, UpIsSettled

(* Steps that leave the VM, the scripts and provision.env alone, and the   *)
(* fragment in place if it was there.                                      *)
LEMMA SeedQuietStep ==
  ASSUME SeedInv, UNCHANGED <<vm, fw, provisioned>>,
         fragment.present => fragment'.present
  PROVE  BootRunsSeed' /\ UpIsSettled'
<1>1. Settled => Settled'
  BY DEF Settled
<1> QED
  BY <1>1, SeedInvParts DEF BootRunsSeed, UpIsSettled, FwAt

(* OffMeansQuiet does not depend on what Squid's files say, so every step  *)
(* keeps it.                                                               *)
LEMMA OffStep ==
  ASSUME TypeOK, OffMeansQuiet, [Next]_vars
  PROVE  OffMeansQuiet'
<1> USE DEF hostVars, guestVars, OffMeansQuiet, FwAt
<1>1. CASE EditConfig \/ UNCHANGED vars
  BY <1>1 DEF EditConfig, vars
<1>2. CASE StopVm
  BY <1>2 DEF StopVm, Down, NoRun
<1>3. CASE SquidReconfigures
  BY <1>3 DEF SquidReconfigures
<1>4. ASSUME NEW p \in Proc, NEW c \in Command, Load(p, c)
      PROVE  OffMeansQuiet'
  BY <1>4 DEF Load
<1>5. ASSUME NEW p \in Proc, CliStep(p) \/ ReadFragmentFails(p) \/ Interrupt(p)
      PROVE  OffMeansQuiet'
  <2>1. CASE StartExisting(p)
    BY <2>1 DEF StartExisting, Running
  <2>2. CASE ~StartExisting(p)
    <3>1. UNCHANGED <<vm, fw, squid>>
      BY <1>5, <2>2 DEF CliStep, QueryStatus, Save, NothingToAdd,
         ResolveConfigInto, StartReturns, ReadFragment, InstallFragment,
         ReloadSquid, Finish, Abort, Drop, ReadFragmentFails, Interrupt
    <3> QED
      BY <3>1
  <2> QED
    BY <2>1, <2>2
<1>6. ASSUME NEW r \in FwRun, NEW m \in Mode, SwitchMode(r, m)
      PROVE  OffMeansQuiet'
  BY <1>6 DEF SwitchMode, Running
<1>7. ASSUME NEW r \in FwRun, FwStep(r) \/ FirewallFails(r)
      PROVE  OffMeansQuiet'
  <2>1. vm # "off"
    BY <1>7 DEF FwStep, BootFirewall, ReadMode, CheckFragment, SeedFragment,
       WriteSquidConf, RestartSquid, FirewallFails
  <2>2. vm' # "off"
    BY <1>7, <2>1 DEF FwStep, BootFirewall, ReadMode, CheckFragment,
       SeedFragment, WriteSquidConf, RestartSquid, FirewallFails
  <2> QED
    BY <2>2
<1> QED
  BY <1>1, <1>2, <1>3, <1>4, <1>5, <1>6, <1>7 DEF Next

LEMMA SeedInvStep ==
  ASSUME \A r, q \in FwRun : r = q,
         SeedInv, [Next]_vars
  PROVE  SeedInv'
<1> SUFFICES BootRunsSeed' /\ UpIsSettled'
  <2>1. TypeOK' /\ OffMeansQuiet'
    BY TypeStep, OffStep, SeedInvParts
  <2> QED
    BY <2>1 DEF SeedInv, BootRunsSeed, UpIsSettled
<1> USE DEF hostVars, guestVars
<1>0. TypeOK /\ OffMeansQuiet /\ BootRunsSeed /\ UpIsSettled
  BY SeedInvParts
<1>1. CASE EditConfig \/ SquidReconfigures \/ UNCHANGED vars
  BY <1>1, SeedQuietStep DEF EditConfig, SquidReconfigures, vars
<1>2. CASE StopVm
  BY <1>2 DEF StopVm, NoRun, BootRunsSeed, UpIsSettled
<1>3. ASSUME NEW p \in Proc, NEW c \in Command, Load(p, c)
      PROVE  BootRunsSeed' /\ UpIsSettled'
  BY <1>3, SeedQuietStep DEF Load
<1>4. ASSUME NEW p \in Proc, CliStep(p) \/ ReadFragmentFails(p) \/ Interrupt(p)
      PROVE  BootRunsSeed' /\ UpIsSettled'
  <2>1. CASE StartExisting(p) /\ vm = "off"
    <3>1. vm' = "booting" /\ fw' = fw
      BY <2>1 DEF StartExisting, Running
    <3>2. \A r \in FwRun : fw[r].kind # "boot"
      BY <1>0, <2>1 DEF BootRunsSeed
    <3> QED
      BY <3>1, <3>2 DEF BootRunsSeed, UpIsSettled
  <2>2. CASE ~(StartExisting(p) /\ vm = "off")
    <3>1. UNCHANGED <<vm, fw, provisioned>>
      BY <1>4, <2>2 DEF CliStep, QueryStatus, Save, NothingToAdd,
         ResolveConfigInto, StartExisting, StartReturns, ReadFragment,
         InstallFragment, ReloadSquid, Finish, Abort, Drop,
         ReadFragmentFails, Interrupt
    <3>2. fragment.present => fragment'.present
      BY <1>4 DEF CliStep, QueryStatus, Save, NothingToAdd,
         ResolveConfigInto, StartExisting, StartReturns, ReadFragment,
         InstallFragment, ReloadSquid, Finish, Abort, Drop,
         ReadFragmentFails, Interrupt
    <3> QED
      BY <3>1, <3>2, SeedQuietStep
  <2> QED
    BY <2>1, <2>2
<1>5. ASSUME NEW r \in FwRun, NEW m \in Mode, SwitchMode(r, m)
      PROVE  BootRunsSeed' /\ UpIsSettled'
  <2>1. fw'[r] = [NoRun EXCEPT !.pc = "mode"]
    BY <1>0, <1>5 DEF SwitchMode, TypeOK
  <2>2. \A q \in FwRun : fw'[q].kind = "switch" /\ fw'[q].pc = "mode"
    BY <2>1 DEF NoRun
  <2>3. Settled' = Settled /\ vm' = vm
    BY <1>5 DEF SwitchMode, Settled
  <2> QED
    BY <1>0, <2>2, <2>3 DEF BootRunsSeed, UpIsSettled, FwAt
<1>6. ASSUME NEW r \in FwRun, FwStep(r) \/ FirewallFails(r)
      PROVE  BootRunsSeed' /\ UpIsSettled'
  <2>0. fw[r] \in FirewallRun /\ \A q \in FwRun : q = r
    BY <1>0 DEF TypeOK
  <2>1. CASE BootFirewall(r)
    <3>1. fw'[r] = [NoRun EXCEPT !.pc = "mode", !.kind = "boot"]
      BY <1>0, <2>1 DEF BootFirewall, TypeOK
    <3>2. fw'[r].pc = "mode" /\ vm' = "booting"
      BY <2>1, <3>1 DEF BootFirewall, NoRun
    <3> QED
      BY <2>0, <3>2 DEF BootRunsSeed, UpIsSettled, FwAt
  <2>2. CASE ReadMode(r)
    <3>1. fw'[r].pc = "check" /\ fw'[r].kind = fw[r].kind
      BY <1>0, <2>0, <2>2 DEF ReadMode, TypeOK, FirewallRun
    <3>2. Settled' = Settled /\ vm' = vm /\ ~FwAt(r, "idle")
      BY <2>2 DEF ReadMode, Settled, FwAt
    <3> QED
      BY <1>0, <2>0, <3>1, <3>2 DEF BootRunsSeed, UpIsSettled, FwAt
  <2>3. CASE CheckFragment(r)
    <3>1. /\ fw'[r].kind = fw[r].kind
          /\ fw'[r].pc = IF MustSeed THEN "seed" ELSE "conf"
      BY <1>0, <2>0, <2>3 DEF CheckFragment, TypeOK, FirewallRun
    <3>2. Settled' = Settled /\ vm' = vm
      BY <2>3 DEF CheckFragment, Settled
    <3>3. MustSeed <=> ~Settled
      BY <1>0 DEF MustSeed, Settled, TypeOK
    <3> QED
      BY <1>0, <2>0, <3>1, <3>2, <3>3 DEF BootRunsSeed, UpIsSettled, FwAt
  <2>4. CASE SeedFragment(r)
    <3>1. fw'[r].kind = fw[r].kind /\ fw'[r].pc = "conf"
      BY <1>0, <2>0, <2>4 DEF SeedFragment, TypeOK, FirewallRun
    <3>2. Settled' /\ vm' = vm
      BY <2>4 DEF SeedFragment, Settled
    <3> QED
      BY <1>0, <2>0, <3>1, <3>2 DEF BootRunsSeed, UpIsSettled, FwAt
  <2>5. CASE WriteSquidConf(r)
    <3>1. fw'[r].kind = fw[r].kind /\ fw'[r].pc = "restart"
      BY <1>0, <2>0, <2>5 DEF WriteSquidConf, TypeOK, FirewallRun
    <3>2. fw[r].pc = "conf" /\ Settled' = Settled /\ vm' = vm
      BY <2>5 DEF WriteSquidConf, Settled, FwAt
    <3> QED
      BY <1>0, <2>0, <3>1, <3>2 DEF BootRunsSeed, UpIsSettled, FwAt
  <2>6. CASE RestartSquid(r)
    <3>1. fw'[r].kind = "switch" /\ fw'[r].pc = "idle"
      BY <1>0, <2>6 DEF RestartSquid, TypeOK, NoRun
    <3>2. fw[r].pc = "restart" /\ Settled' = Settled
      BY <2>6 DEF RestartSquid, Settled, FwAt
    <3>3. vm' = "up" => Settled
      BY <1>0, <2>6, <3>2 DEF RestartSquid, BootRunsSeed, UpIsSettled
    <3> QED
      BY <2>0, <3>1, <3>2, <3>3 DEF BootRunsSeed, UpIsSettled, FwAt
  <2>7. CASE FirewallFails(r)
    <3>1. fw'[r].kind = "switch" /\ fw'[r].pc = "idle"
      BY <1>0, <2>7 DEF FirewallFails, TypeOK, NoRun
    <3>2. Settled' = Settled /\ (vm' = "up" => vm = "up")
      BY <2>7 DEF FirewallFails, Settled
    <3> QED
      BY <1>0, <2>0, <3>1, <3>2 DEF BootRunsSeed, UpIsSettled, FwAt
  <2> QED
    BY <1>6, <2>1, <2>2, <2>3, <2>4, <2>5, <2>6, <2>7 DEF FwStep
<1> QED
  BY <1>1, <1>2, <1>3, <1>4, <1>5, <1>6 DEF Next

(* On a settled VM only InstallFragment changes the fragment.              *)
LEMMA ChangedByInstall ==
  ASSUME SeedInv, [Next]_vars, vm = "up", vm' = "up", fragment' # fragment
  PROVE  \E p \in Proc : At(p, "install") /\ fragment'.domains = cli[p].snap
<1> USE DEF hostVars, guestVars
<1>0. UpIsSettled
  BY SeedInvParts
<1>1. CASE \E p \in Proc : InstallFragment(p)
  BY <1>1 DEF InstallFragment
<1>2. CASE \E r \in FwRun : SeedFragment(r)
  BY <1>0, <1>2 DEF SeedFragment, UpIsSettled
<1>3. CASE StopVm
  BY <1>3 DEF StopVm
<1>4. CASE /\ ~StopVm
           /\ ~\E p \in Proc : InstallFragment(p)
           /\ ~\E r \in FwRun : SeedFragment(r)
  <2>1. fragment' = fragment
    BY <1>4 DEF Next, vars, EditConfig, SquidReconfigures, Load, CliStep,
       QueryStatus, Save, NothingToAdd, ResolveConfigInto, StartExisting,
       StartReturns, ReadFragment, ReloadSquid, Finish, Abort, Drop,
       ReadFragmentFails, Interrupt, SwitchMode, FwStep, BootFirewall,
       ReadMode, CheckFragment, WriteSquidConf, RestartSquid, FirewallFails
  <2> QED
    BY <2>1
<1> QED
  BY <1>1, <1>2, <1>3, <1>4

(* A booted VM has one authority over its allowlist: with at most one run  *)
(* of init-firewall.sh at a time, and any number of code-vm processes, the *)
(* fragment changes only to an allowlist a process loaded from the host    *)
(* config, so a mode switch never brings a revoked domain back.            *)
THEOREM RevokedStaysRevoked ==
  ASSUME \A r, q \in FwRun : r = q
  PROVE  Spec => NoResurrection
<1> DEFINE OneAuthority ==
      vm = "up" /\ vm' = "up" /\ fragment' # fragment
        => \E p \in Proc : At(p, "install") /\ fragment'.domains = cli[p].snap
<1>1. Init => SeedInv
  BY SeedInvInit
<1>2. SeedInv /\ [Next]_vars => SeedInv'
  BY SeedInvStep
<1>3. SeedInv /\ [Next]_vars => [OneAuthority]_vars
  BY ChangedByInstall
<1> QED
  BY <1>1, <1>2, <1>3, PTL DEF Spec, NoResurrection
=============================================================================
