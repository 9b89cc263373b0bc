----------------------------- MODULE HostConfig -----------------------------
(***************************************************************************)
(* The host config file and the commands that read and change it.  Each    *)
(* process loads all of it, checks that no shared directory exposes it,    *)
(* and `allow` and `mount` write all of it back: truncated first, without  *)
(* a lock, while other processes and the user's editor are at work.        *)
(***************************************************************************)
EXTENDS Naturals, FiniteSets, SequencesExt

CONSTANTS
  Proc,        \* concurrent code-vm processes
  Name,        \* what files and directories can be called
  Dir,         \* directories that exist, as sequences of names from the root
  Link,        \* symbolic links: their location and the location they lead to
  ConfigArg,   \* the path given with --config, or the default
  MountArg,    \* directories a user may ask to share
  DefaultRoot, \* ~/projects
  Host,        \* host names, as sequences of labels from the top-level one
  BaseEntry,   \* the allowlist shipped in the guest
  Word,        \* how many values an unsigned integer has: 2^64 in the code
  Unit,        \* what a size suffix stands for
  MinSwap,
  EditedMounts, EditedDomains, EditedSizes,   \* what the user's editor leaves
  MaxCommands, \* bound on commands
  MaxEdits,    \* bound on the user's edits
  MaxFaults    \* bound on interrupted commands

ASSUME SizeAssumption ==
  /\ Word \in Nat \ {0} /\ MinSwap \in Nat /\ Unit \subseteq Nat \ {0}
  /\ 4 \in Unit   \* GiB, of the default sizes
  /\ EditedSizes \subseteq [swap : [n : Nat, unit : Unit],
                             disk : [n : Nat, unit : Unit]]
ASSUME CountAssumption ==
  MaxCommands \in Nat /\ MaxEdits \in Nat /\ MaxFaults \in Nat

VARIABLES
  file,      \* what config.yaml holds: one config, or nothing (Empty)
  cli,       \* the code-vm processes
  rendered,  \* what the VM was last rendered from: one config, or nothing
  promised,  \* history: the changes reported as made since the last edit
  raced,     \* history: a command met another writer, or its write did not end
  commands, edits, faults

vars == <<file, cli, rendered, promised, raced, commands, edits, faults>>

-----------------------------------------------------------------------------
(* Paths *)

Below(p, d) == IsPrefix(d, p)

\* CoveringMount's comparison, with d and a separator: the root, spelt with
\* one already, covers nothing but itself.
Under(p, d) == p = d \/ (d # <<>> /\ Below(p, d))

\* Where the operating system is after i of a path's names: every link on the
\* way is followed, be there something at its end or not.
Follow(p) == IF p \in DOMAIN Link THEN Link[p] ELSE p
Trail(path) ==
  LET at[i \in 0 .. Len(path)] ==
        IF i = 0 THEN <<>> ELSE Follow(Append(at[i - 1], path[i]))
  IN  at
Real(path) == Trail(path)[Len(path)]

\* Mutant: the lexical spelling is compared.
Lexical(path) == path

\* The longest prefix that exists is resolved; the rest is left as written.
CanonicalizeExisting(path) ==
  LET existing == {i \in 0 .. Len(path) : Trail(path)[i] \in Dir}
      k == CHOOSE i \in existing : \A j \in existing : j <= i
  IN  Trail(path)[k] \o SubSeq(path, k + 1, Len(path))

Path == CanonicalizeExisting(ConfigArg)
ProfilesDir == Append(Front(Path), "profiles")
SSHDir == Append(Front(Path), "ssh")

Covered(mounts, path) == \E m \in mounts : Under(path, m)
Canonical(mounts) == {CanonicalizeExisting(m) : m \in mounts}

MountsExclude(mounts, path) ==
  ~Covered(Canonical(mounts), CanonicalizeExisting(path))

\* Mutant: only mounts above the directory are refused.
OnlyAbove(mounts, dir) == MountsExclude(mounts, dir)

MountsExcludeTree(mounts, dir) ==
  /\ MountsExclude(mounts, dir)
  /\ ~\E m \in Canonical(mounts) : Under(m, CanonicalizeExisting(dir))

Shared == {DefaultRoot} \union MountArg \union UNION EditedMounts

ASSUME PathAssumption ==
  /\ <<>> \in Dir /\ {"profiles", "ssh"} \subseteq Name
  /\ ConfigArg \in Seq(Name) /\ Shared \subseteq Seq(Name)
  \* Link has for each link where it leads in the end: on no further link.
  /\ \A p \in DOMAIN Link :
       /\ Link[p] \in Seq(Name)
       /\ \A i \in 1 .. Len(Link[p]) : SubSeq(Link[p], 1, i) \notin DOMAIN Link
  /\ Path # <<>>   \* config.yaml is not the root

Guarded(c) ==
  /\ MountsExclude(c.mounts, Path)
  /\ MountsExcludeTree(c.mounts, ProfilesDir)
  /\ MountsExcludeTree(c.mounts, SSHDir)

-----------------------------------------------------------------------------
(* Sizes: a number of units, in integers of Word values *)

MaxUint == Word - 1
MaxInt == Word \div 2 - 1

\* Mutant: the product is not checked.
Unchecked(s) == s.n <= MaxUint

\* parseSize accepts it; Bytes is then the product it returns.
Parses(s) == s.n <= MaxUint /\ s.n <= MaxUint \div s.unit
Bytes(s) == (s.n * s.unit) % Word

\* Validate: the sizes, and everything it checks of single fields (`sane`).
Validate(c) ==
  /\ c.sane
  /\ Parses(c.swap) /\ Parses(c.disk)
  /\ Bytes(c.swap) < Bytes(c.disk)
  /\ Bytes(c.swap) <= MaxInt
  /\ Bytes(c.swap) # 0 => Bytes(c.swap) >= MinSwap

-----------------------------------------------------------------------------
(* Domains: an entry is one host, or with sub a domain and all below it *)

Entry == [sub : BOOLEAN, host : Host]

\* Squid's dstdomain.
Matched(entries, h) ==
  \E e \in entries : IF e.sub THEN Below(h, e.host) ELSE h = e.host

\* Mutant: an entry for one host is taken to cover the hosts below it.
CoveredByAny(existing, d) == \E e \in existing : Below(d.host, e.host)

AlreadyCovered(existing, d) ==
  \E e \in existing : e = d \/ (e.sub /\ Below(d.host, e.host))

\* normalizeDomain: whatever was asked for is a domain and all below it.
NormalizeDomain(h) == [sub |-> TRUE, host |-> h]

ASSUME DomainAssumption ==
  /\ Host \subseteq Seq(STRING)
  /\ EditedDomains \subseteq SUBSET Entry /\ BaseEntry \subseteq Entry

-----------------------------------------------------------------------------
(* The file and the processes *)

Size == [n : Nat, unit : Unit]
Config == [mounts : SUBSET Shared, domains : SUBSET Entry, sane : BOOLEAN,
           swap : Size, disk : Size]
Default == [mounts |-> {DefaultRoot}, domains |-> {}, sane |-> TRUE,
            swap |-> [n |-> 1, unit |-> 4], disk |-> [n |-> 2, unit |-> 4]]
Empty == {}   \* no file, or an empty one

\* Mutant: a missing file gives the zero Config.
LoadedBare ==
  LET zero == [n |-> 0, unit |-> 0]
  IN  IF file = Empty THEN [Default EXCEPT !.swap = zero, !.disk = zero]
                      ELSE CHOOSE c \in file : TRUE

\* Load: a missing file and an empty one are the defaults.
Loaded == IF file = Empty THEN Default ELSE CHOOSE c \in file : TRUE

Command == {"run", "allow", "mount"}
Changed == [mounts : SUBSET MountArg, hosts : SUBSET Host]
Nothing == [mounts |-> {}, hosts |-> {}]

\* cfg: the config it works with; seen: the file it read; wants: the change it
\* is to save.
Process == [pc : {"idle", "save", "write"} \union Command, cmd : Command,
            cfg : Config, seen : SUBSET Config, wants : Changed]
Idle == [pc |-> "idle", cmd |-> "run", cfg |-> Default, seen |-> Empty,
         wants |-> Nothing]

At(p, pc) == cli[p].pc = pc
Busy(p) == ~At(p, "idle")

\* Someone else has changed, or is just changing, the file p has read.
Stale(p) ==
  file # cli[p].seen \/ \E q \in Proc \ {p} : At(q, "write")

Init ==
  /\ file = Empty
  /\ cli = [p \in Proc |-> Idle]
  /\ rendered = {}
  /\ promised = Nothing /\ raced = FALSE
  /\ commands = 0 /\ edits = 0 /\ faults = 0

\* The user's editor replaces the file; what was reported before is moot.
EditConfig ==
  /\ edits < MaxEdits /\ edits' = edits + 1
  /\ \/ \E m \in EditedMounts : file' = {[Loaded EXCEPT !.mounts = m]}
     \/ \E d \in EditedDomains : file' = {[Loaded EXCEPT !.domains = d]}
     \/ \E s \in EditedSizes :
          file' = {[Loaded EXCEPT !.swap = s.swap, !.disk = s.disk]}
     \/ file' = {[Loaded EXCEPT !.sane = FALSE]}
  /\ promised' = Nothing
  /\ raced' = (raced \/ \E p \in Proc : At(p, "write"))
  /\ UNCHANGED <<cli, rendered, commands, faults>>

\* loadConfig, on every invocation: load, then all three guards.
Begin(p, c) ==
  /\ commands < MaxCommands /\ commands' = commands + 1
  /\ At(p, "idle")
  /\ IF Guarded(Loaded)
     THEN cli' = [cli EXCEPT ![p] = [Idle EXCEPT !.pc = c, !.cmd = c,
                                                 !.cfg = Loaded, !.seen = file]]
     ELSE UNCHANGED cli
  /\ UNCHANGED <<file, rendered, promised, raced, edits, faults>>

\* Render refuses an invalid config; then the VM has it.
Render(p) ==
  /\ At(p, "run")
  /\ rendered' = IF Validate(cli[p].cfg) THEN {cli[p].cfg} ELSE rendered
  /\ cli' = [cli EXCEPT ![p] = Idle]
  /\ UNCHANGED <<file, promised, raced, commands, edits, faults>>

Promise(w) == [mounts |-> promised.mounts \union w.mounts,
               hosts |-> promised.hosts \union w.hosts]

\* "already allowed", "already shared": printed at once, however it ends.
Reports(p, w) ==
  /\ promised' = Promise(w)
  /\ raced' = (raced \/ (w # Nothing /\ Stale(p)))

\* A change that passed its checks, on its way to Save.
Change(p, c, w) ==
  cli' = [cli EXCEPT ![p] = [@ EXCEPT !.pc = "save", !.cfg = c, !.wants = w]]

GiveUp(p) == cli' = [cli EXCEPT ![p] = Idle]

\* What the arguments name, or the proxy log has as denied.
Candidates == (SUBSET Host) \ {{}}

\* Squid's own list, which can be read only of a running VM in allowlist mode.
GuestAllowed == {{}, BaseEntry}

\* The user is asked about each of them.
Confirmed(pending) == SUBSET pending

\* `allow`: those that config or guest already cover are left out, the user
\* chooses among the rest.
Allow(p) ==
  /\ At(p, "allow")
  /\ \E asked \in Candidates, guest \in GuestAllowed :
       LET known == cli[p].cfg.domains \union guest
           pending == {h \in asked : ~AlreadyCovered(known, NormalizeDomain(h))}
       IN  /\ Reports(p, [Nothing EXCEPT !.hosts = asked \ pending])
           /\ \E chosen \in Confirmed(pending) :
                LET c == [cli[p].cfg EXCEPT !.domains = @ \union
                            {NormalizeDomain(h) : h \in chosen}]
                IN  IF chosen # {} /\ Validate(c)
                    THEN Change(p, c, [Nothing EXCEPT !.hosts = chosen])
                    ELSE GiveUp(p)
  /\ UNCHANGED <<file, rendered, commands, edits, faults>>

\* Mutant: the guards are not repeated on the updated config.
MountUnguarded(p) ==
  /\ At(p, "mount")
  /\ \E m \in MountArg :
       LET c == [cli[p].cfg EXCEPT !.mounts = @ \union {m}]
       IN  Change(p, c, [Nothing EXCEPT !.mounts = {m}]) /\ Reports(p, Nothing)
  /\ UNCHANGED <<file, rendered, commands, edits, faults>>

\* `mount`: addMount, and the guards once more on the updated config.
Mount(p) ==
  /\ At(p, "mount")
  /\ \E m \in MountArg :
       LET c == [cli[p].cfg EXCEPT !.mounts = @ \union {m}]
           w == [Nothing EXCEPT !.mounts = {m}]
       IN  \/ Real(m) \notin Dir /\ GiveUp(p) /\ Reports(p, Nothing)
           \/ /\ Real(m) \in Dir /\ Covered(cli[p].cfg.mounts, m)
              /\ GiveUp(p) /\ Reports(p, w)
           \/ /\ Real(m) \in Dir /\ ~Covered(cli[p].cfg.mounts, m)
              /\ IF Guarded(c) THEN Change(p, c, w) ELSE GiveUp(p)
              /\ Reports(p, Nothing)
  /\ UNCHANGED <<file, rendered, commands, edits, faults>>

\* os.WriteFile opens the file with O_TRUNC ...
Truncate(p) ==
  /\ At(p, "save")
  /\ file' = Empty
  /\ raced' = (raced \/ Stale(p))
  /\ cli' = [cli EXCEPT ![p].pc = "write"]
  /\ UNCHANGED <<rendered, promised, commands, edits, faults>>

\* Mutant: only this command's change is written, over the defaults.
WriteOverDefaults(p) ==
  /\ At(p, "write")
  /\ file' = {[Default EXCEPT !.mounts = @ \union cli[p].wants.mounts,
                !.domains = {NormalizeDomain(h) : h \in cli[p].wants.hosts}]}
  /\ promised' = Promise(cli[p].wants)
  /\ cli' = [cli EXCEPT ![p] = Idle]
  /\ UNCHANGED <<rendered, raced, commands, edits, faults>>

\* ... and then writes it; the command reports what it added.  `mount` goes
\* on to restart a running VM (VmLifecycle), which renders this config.
Write(p) ==
  /\ At(p, "write")
  /\ file' = {cli[p].cfg}
  /\ promised' = Promise(cli[p].wants)
  /\ cli' = [cli EXCEPT ![p] = IF @.cmd = "mount" THEN [@ EXCEPT !.pc = "run"]
                                                  ELSE Idle]
  /\ UNCHANGED <<rendered, raced, commands, edits, faults>>

\* os.WriteFile returns an error and the command with it: before it opened the
\* file, or after, and then nothing of what it held is left (nor, here, of what
\* it was to hold: as much as was written would be a config of less).
SaveFails(p) ==
  /\ At(p, "save") \/ At(p, "write")
  /\ faults < MaxFaults /\ faults' = faults + 1
  /\ raced' = (raced \/ At(p, "write"))
  /\ GiveUp(p)
  /\ UNCHANGED <<file, rendered, promised, commands, edits>>

\* A process dies; between Truncate and Write it leaves the file empty.
Interrupt(p) ==
  /\ Busy(p)
  /\ faults < MaxFaults /\ faults' = faults + 1
  /\ raced' = (raced \/ At(p, "write"))
  /\ GiveUp(p)
  /\ UNCHANGED <<file, rendered, promised, commands, edits>>

Step(p) == Render(p) \/ Allow(p) \/ Mount(p) \/ Truncate(p) \/ Write(p) \/ SaveFails(p)

Next ==
  \/ EditConfig
  \/ \E p \in Proc : (\E c \in Command : Begin(p, c)) \/ Step(p) \/ Interrupt(p)

Spec == Init /\ [][Next]_vars

-----------------------------------------------------------------------------
(* Properties *)

TypeOK ==
  /\ file \in SUBSET Config /\ \A c, d \in file : c = d
  /\ cli \in [Proc -> Process]
  /\ rendered \in SUBSET Config
  /\ promised \in Changed
  /\ raced \in BOOLEAN
  /\ commands \in 0 .. MaxCommands /\ edits \in 0 .. MaxEdits
  /\ faults \in 0 .. MaxFaults

\* Sharing m exposes the config, or directory d of bundles or keys, wherever
\* the paths really lead.
ExposesConfig(m) == Below(Real(ConfigArg), Real(m))
ExposesTree(m, d) == Below(Real(d), Real(m)) \/ Below(Real(m), Real(d))

\* A link on the path leads to what does not exist: CanonicalizeExisting keeps
\* such a link as it is written.
Dangles(path) ==
  \E i \in 1 .. Len(path) :
    /\ Append(Trail(path)[i - 1], path[i]) \in DOMAIN Link
    /\ Trail(path)[i] \notin Dir

\* What the guards do not see: the root, under which CoveringMount finds
\* nothing, and what lies behind a dangling link.
Unseen(m, path) ==
  Real(m) = <<>> \/ Real(path) = <<>> \/ Dangles(m) \/ Dangles(path)

Hides(c) ==
  \A m \in c.mounts :
    /\ ExposesConfig(m) => Unseen(m, ConfigArg)
    /\ \A d \in {ProfilesDir, SSHDir} : ExposesTree(m, d) => Unseen(m, d)

\* loadConfig and newMountCmd: no config that a command is about to write,
\* or that the VM was rendered from, shares a directory that leads to the
\* config, the profiles or the keys, by whatever links, from above or from
\* inside, although the user may put such a mount into the file at any time;
\* but for the root itself and for links that lead to nothing yet.
NothingExposed ==
  /\ \A p \in Proc : At(p, "save") \/ At(p, "write") => Hides(cli[p].cfg)
  /\ \A c \in rendered : Hides(c)

\* parseSize and Validate: what the guest's numfmt, which does not wrap, and
\* its signed comparison make of the sizes the VM was rendered from: swap
\* fits the disk and 63 bits, and is none or large enough for mkswap.
SizesFit ==
  \A c \in rendered :
    LET swap == c.swap.n * c.swap.unit
        disk == c.disk.n * c.disk.unit
    IN  swap < disk /\ swap <= MaxInt /\ (swap = 0 \/ swap >= MinSwap)

\* "Added ...", "already allowed", "already shared": what the commands have
\* reported since the user's last edit is in the file (or in the guest's own
\* list), over any number of them, unless a command met another writer of the
\* file, died while writing it, or could not write it after opening it.  Without
\* a lock or an atomic replacement the exception is real: the later save drops
\* the earlier one's change, and a truncated file reads as the defaults.
PromisesKept ==
  ~raced /\ ~(\E p \in Proc : At(p, "write")) =>
    /\ \A m \in promised.mounts : Covered(Loaded.mounts, m)
    /\ \A h \in promised.hosts : \A below \in Host :
         Below(below, h) => Matched(Loaded.domains \union BaseEntry, below)
=============================================================================
