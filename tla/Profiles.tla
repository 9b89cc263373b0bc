-------------------------------- MODULE Profiles --------------------------------
(***************************************************************************)
(* Customization profiles on their way to the agent's home.  A process     *)
(* loads the active bundles once; they reach the guest's profile tree by   *)
(* Lima's data provisioning on a boot, or by `profile apply`, which        *)
(* removes the tree and pushes it again.  apply-profiles.sh installs what  *)
(* the tree's manifest names, at boot and, strictly, for `profile apply`.  *)
(* Templates are pushed by the process itself.  There is no lock.          *)
(***************************************************************************)
EXTENDS Naturals, Sequences, FiniteSets

CONSTANTS
  Proc,        \* processes running `code-vm start` or `code-vm profile apply`
  Boot,        \* sandbox-boot.sh, as a runner of apply-profiles.sh
  Name,        \* profiles
  Rel,         \* paths in the agent's home
  Plans,       \* what the config's `profiles:` and the bundles may be
  MaxCommands, \* bound on commands
  MaxRacing,   \* bound on the commands before one that must find all quiet
  MaxEdits,    \* bound on edits, by the user of the host or the agent
  MaxFaults    \* bound on interruptions and failing commands

\* A bundle: a content version of a profile.  Shells: 0 is none.
Bundle == [name : Name, edition : Nat \ {0}, files : SUBSET Rel,
           templates : SUBSET Rel, hook : BOOLEAN, shell : Nat]

ASSUME ProfilesAssumption ==
  /\ Boot \notin Proc
  /\ Plans # {} /\ Plans \subseteq Seq(Bundle)
  /\ \A plan \in Plans : \A i, j \in DOMAIN plan :
       plan[i].name = plan[j].name => i = j
  /\ MaxCommands \in Nat /\ MaxRacing \in Nat /\ MaxEdits \in Nat /\ MaxFaults \in Nat

VARIABLES
  host,   \* the plan on the host
  vm,     \* "off", "data" (Lima writes files), "boot", "up" or "failed"
  boot,   \* the plan in the stored instance config and what is left to write of it
  tree,   \* the guest's profile tree
  cli,    \* the processes
  run,    \* runs of apply-profiles.sh, by their callers
  home,   \* what each path of the agent's home holds
  shell,  \* the agent's login shell
  hooked, \* history: the paths a hook wrote to since a command began, and
          \* that nothing was delivered to afterwards
  met,    \* history: in this boot a process wrote to the tree, or a step failed
  commands, edits, faults

bounds == <<commands, edits, faults>>
guest == <<vm, boot, tree, run, home, shell, hooked, met>>
vars == <<host, guest, cli, bounds>>

-----------------------------------------------------------------------------
(* Bundles, and what is rendered of them *)

Runner == Proc \union {Boot}
\* Paths are delivered in one order everywhere.
FirstOf(rels) == CHOOSE r \in rels : TRUE
None == <<>>
Edited == <<"agent">>
HookWrote == <<"hook">>
FileOf(b) == <<"file", b.name, b.edition>>
TemplateOf(b) == <<"template", b.name, b.edition>>

\* A list is a function from the places of its elements in the plan, and is
\* gone through from the lowest place on.
Listed(plan, I) == [i \in I |-> plan[i].name]
First(list) == {i \in DOMAIN list : \A j \in DOMAIN list : i <= j}
Without(list, i) == [j \in DOMAIN list \ {i} |-> list[j]]
Nobody == [i \in {} |-> Boot]

\* The last of the bundles at I.
LastOf(plan, I) == plan[CHOOSE i \in I : \A j \in I : j <= i]
Ships(plan, r) ==
  \E i \in DOMAIN plan : r \in plan[i].files \union plan[i].templates

\* Mutant: a path may come from files/ of one profile, templates/ of another.
AnyCollision(plan) == TRUE
\* LoadAll: a path is shipped as a file or as a template, not both.
LoadAll(plan) ==
  \A i, j \in DOMAIN plan : plan[i].files \cap plan[j].templates = {}

\* RenderTemplates: the last profile that has a template for r.
Templates(plan) == UNION {plan[i].templates : i \in DOMAIN plan}
Rendered(plan, r) ==
  TemplateOf(LastOf(plan, {i \in DOMAIN plan : r \in plan[i].templates}))

ManifestEnv(plan) ==
  LET shells == {i \in DOMAIN plan : plan[i].shell # 0} IN
  [files |-> Listed(plan, {i \in DOMAIN plan : plan[i].files # {}}),
   hooks |-> Listed(plan, {i \in DOMAIN plan : plan[i].hook}),
   shell |-> IF shells = {} THEN 0 ELSE LastOf(plan, shells).shell]
NoManifest == [files |-> Nobody, hooks |-> Nobody, shell |-> 0]

\* The guest files: the manifest is the first, the others follow by bundle.
GuestFiles(plan) ==
  {[place |-> 0, kind |-> "manifest", env |-> ManifestEnv(plan)]}
  \union (UNION {{[place |-> 3 * i, kind |-> "file", name |-> plan[i].name,
                   rel |-> r, edition |-> plan[i].edition] : r \in plan[i].files}
                 : i \in DOMAIN plan})
  \union {[place |-> 3 * i + 1, kind |-> "list", name |-> plan[i].name,
           rels |-> plan[i].files] : i \in {k \in DOMAIN plan : plan[k].files # {}}}
  \union {[place |-> 3 * i + 2, kind |-> "hook", name |-> plan[i].name]
         : i \in {k \in DOMAIN plan : plan[k].hook}}
Foremost(left) == {f \in left : \A g \in left : f.place <= g.place}

\* Installing one of them; nothing of an older version goes away with it.
Put(t, f) ==
  CASE f.kind = "manifest" -> [t EXCEPT !.env = f.env]
    [] f.kind = "file" -> [t EXCEPT !.file[f.name][f.rel] = f.edition]
    [] f.kind = "list" -> [t EXCEPT !.list[f.name] = f.rels]
    [] f.kind = "hook" -> [t EXCEPT !.hook[f.name] = TRUE]
EmptyTree ==
  [env |-> NoManifest, file |-> [n \in Name |-> [r \in Rel |-> 0]],
   list |-> [n \in Name |-> {}], hook |-> [n \in Name |-> FALSE]]

-----------------------------------------------------------------------------
Content == {None, Edited, HookWrote} \union ({"file", "template"} \X Name \X (Nat \ {0}))
CliPc == {"idle", "status", "launch", "await", "clear", "push", "templates",
          "applier", "applying", "done", "error", "killed"}
\* todo, left: guest files and templates still to push; booted: this
\* command's own boot; alone: nobody else was active since the command began,
\* when the home was `before`.
Process == [pc : CliPc, cmd : {"start", "apply"}, plan : Plans \union {<<>>},
            todo : SUBSET UNION {GuestFiles(plan) : plan \in Plans},
            left : SUBSET Rel, booted : BOOLEAN, alone : BOOLEAN,
            before : [Rel -> Content]]
\* names, hooks: profiles still to come; rels: paths left of the current one;
\* failed: HOOK_FAILED; ran: history, the hooks that succeeded.
RunPc == {"idle", "files", "install", "shell", "hooks"}

TypeOK ==
  /\ host \in Plans
  /\ vm \in {"off", "data", "boot", "up", "failed"}
  /\ boot.plan \in Plans /\ boot.left \subseteq GuestFiles(boot.plan)
  /\ \A n \in Name : tree.list[n] \subseteq Rel /\ tree.hook[n] \in BOOLEAN
  /\ cli \in [Proc -> Process]
  /\ \A q \in Runner :
       /\ run[q].pc \in RunPc /\ run[q].rels \subseteq Rel
       /\ run[q].failed \in BOOLEAN /\ run[q].ran \subseteq Name
       /\ run[q].pc = "install" => run[q].now \in Name
  /\ home \in [Rel -> Content] /\ shell \in Nat
  /\ hooked \subseteq Rel /\ met \in BOOLEAN
  /\ commands \in 0 .. MaxCommands /\ edits \in 0 .. MaxEdits
  /\ faults \in 0 .. MaxFaults

Blank == [r \in Rel |-> None]
Rest == [pc |-> "idle", names |-> Nobody, rels |-> {}, hooks |-> Nobody, now |-> Boot,
         shell |-> 0, failed |-> FALSE, ran |-> {}]

Fresh == [pc |-> "idle", cmd |-> "start", plan |-> <<>>, todo |-> {}, left |-> {},
          booted |-> FALSE, alone |-> FALSE, before |-> Blank]

Init ==
  /\ host \in Plans
  /\ vm = "off" /\ boot = [plan |-> host, left |-> GuestFiles(host)]
  /\ tree = EmptyTree
  /\ cli = [p \in Proc |-> Fresh]
  /\ run = [q \in Runner |-> Rest]
  /\ home = Blank /\ shell = 0 /\ hooked = {} /\ met = FALSE
  /\ commands = 0 /\ edits = 0 /\ faults = 0

At(p, pc) == cli[p].pc = pc
Goto(p, pc) == cli' = [cli EXCEPT ![p].pc = pc]
AllReturned == {"idle", "done", "error", "killed"}
Returned(p) == cli[p].pc \in AllReturned
Quiet == vm \notin {"data", "boot"} /\ \A q \in Runner : run[q].pc = "idle"
\* Somebody else became active; a process that has returned is forgotten.
Disturbed(c) == IF c.pc \in AllReturned THEN Fresh
                ELSE [c EXCEPT !.alone = FALSE, !.before = Blank]

\* A process wrote to the tree: the boot, if one is going on, met it.
Meets == met' = (met \/ vm \in {"data", "boot"})

-----------------------------------------------------------------------------
(* Commands on the host *)

\* Both commands load the config with its profiles before anything else.
Begin(p, cmd) ==
  /\ Returned(p) /\ run[p].pc = "idle" /\ commands < MaxCommands
  /\ commands' = commands + 1
  /\ LET alone == Quiet /\ \A q \in Proc \ {p} : Returned(q) IN
     /\ alone \/ commands < MaxRacing
     /\ cli' = [q \in Proc |->
       IF q # p THEN Disturbed(cli[q])
       ELSE [pc |-> IF LoadAll(host) THEN "status" ELSE "error", cmd |-> cmd,
             plan |-> host, todo |-> GuestFiles(host), left |-> Templates(host),
             booted |-> FALSE, alone |-> alone,
             before |-> IF alone THEN home ELSE Blank]]
  /\ hooked' = {}
  /\ UNCHANGED <<host, vm, boot, tree, run, home, shell, met, edits, faults>>

Status(p) ==
  /\ At(p, "status")
  /\ Goto(p, CASE cli[p].cmd = "apply" /\ vm = "off" -> "error"
               [] cli[p].cmd = "apply" /\ vm # "off" -> "clear"
               [] cli[p].cmd = "start" /\ vm = "off" -> "launch"
               [] cli[p].cmd = "start" /\ vm # "off" -> "templates")
  /\ UNCHANGED <<host, guest, bounds>>

\* The stored config is replaced by this process's render and booted; an
\* instance somebody else started meanwhile counts as started.
Launch(p) ==
  /\ At(p, "launch")
  /\ IF vm = "off"
     THEN /\ boot' = [plan |-> cli[p].plan, left |-> GuestFiles(cli[p].plan)]
          /\ vm' = "data" /\ met' = FALSE
          /\ cli' = [cli EXCEPT ![p] = [@ EXCEPT !.pc = "await", !.booted = TRUE]]
     ELSE Goto(p, "await") /\ UNCHANGED <<vm, boot, met>>
  /\ UNCHANGED <<host, tree, run, home, shell, hooked, bounds>>

\* The readiness probe waits for a marker of sandbox-boot.sh.
AwaitReady(p) ==
  /\ At(p, "await") /\ vm \in {"off", "up", "failed"}
  /\ Goto(p, IF vm = "up" THEN "templates" ELSE "error")
  /\ UNCHANGED <<host, guest, bounds>>

\* Every step in the guest fails when the VM is off.
Down(p) ==
  /\ cli[p].pc \in {"clear", "push", "templates", "applier"} /\ vm = "off"
  /\ Goto(p, "error")
  /\ UNCHANGED <<host, guest, bounds>>

\* PushProfiles: the old tree is removed, so what is not pushed is gone.
ClearTree(p) ==
  /\ At(p, "clear") /\ vm # "off"
  /\ tree' = EmptyTree
  /\ Meets /\ Goto(p, "push")
  /\ UNCHANGED <<host, vm, boot, run, home, shell, hooked, bounds>>

PushFile(p) ==
  /\ At(p, "push") /\ vm # "off"
  /\ \/ \E f \in Foremost(cli[p].todo) :
          /\ tree' = Put(tree, f)
          /\ Meets
          /\ cli' = [cli EXCEPT ![p].todo = @ \ {f}]
     \/ cli[p].todo = {} /\ Goto(p, "templates") /\ UNCHANGED <<tree, met>>
  /\ UNCHANGED <<host, vm, boot, run, home, shell, hooked, bounds>>

\* pushRendered, the last step of start; an apply goes on to its applier.
PushTemplate(p) ==
  /\ At(p, "templates") /\ vm # "off"
  /\ \/ /\ cli[p].left # {}
        /\ LET r == FirstOf(cli[p].left) IN
           /\ home' = [home EXCEPT ![r] = Rendered(cli[p].plan, r)]
           /\ hooked' = hooked \ {r}
           /\ cli' = [cli EXCEPT ![p].left = @ \ {r}]
     \/ /\ cli[p].left = {}
        /\ Goto(p, IF cli[p].cmd = "apply" THEN "applier" ELSE "done")
        /\ UNCHANGED <<home, hooked>>
  /\ UNCHANGED <<host, vm, boot, tree, run, shell, met, bounds>>

PushFails(p) ==
  /\ cli[p].pc \in {"clear", "push", "templates"} /\ faults < MaxFaults
  /\ faults' = faults + 1
  /\ Goto(p, "error")
  /\ UNCHANGED <<host, guest, commands, edits>>

\* code-vm dies; the applier it had started goes on or ends with it.
Interrupt(p) ==
  /\ ~Returned(p) /\ faults < MaxFaults
  /\ faults' = faults + 1
  /\ Goto(p, "killed")
  /\ \/ UNCHANGED run
     \/ run[p].pc # "idle" /\ run' = [run EXCEPT ![p].pc = "idle"]
  /\ UNCHANGED <<host, vm, boot, tree, home, shell, hooked, met, commands, edits>>

-----------------------------------------------------------------------------
(* Lima and the boot *)

WriteData ==
  /\ vm = "data"
  /\ \/ \E f \in Foremost(boot.left) :
          /\ tree' = Put(tree, f)
          /\ boot' = [boot EXCEPT !.left = @ \ {f}]
          /\ UNCHANGED vm
     \/ boot.left = {} /\ vm' = "boot" /\ UNCHANGED <<tree, boot>>
  /\ UNCHANGED <<host, cli, run, home, shell, hooked, met, bounds>>

StopVm ==
  /\ vm # "off"
  /\ vm' = "off"
  /\ run' = [q \in Runner |-> Rest]
  /\ cli' = [p \in Proc |->
       [Disturbed(cli[p]) EXCEPT !.pc = IF @ = "applying" THEN "error" ELSE @]]
  /\ UNCHANGED <<host, boot, tree, home, shell, hooked, met, bounds>>

-----------------------------------------------------------------------------
(* apply-profiles.sh *)

\* Mutant: every files.list on the disk is read, whoever the manifest names.
EveryList ==
  LET All == {n \in Name : tree.list[n] # {}} IN
  CHOOSE l \in [1 .. Cardinality(All) -> All] : \A n \in All : \E i \in DOMAIN l : l[i] = n
\* PROFILE_FILES: whose files.list the applier reads.
ProfileFiles == tree.env.files

\* A run begins by sourcing the manifest.
StartApplier(q) ==
  /\ run[q].pc = "idle"
  /\ \/ q = Boot /\ vm = "boot" /\ UNCHANGED cli
     \/ q # Boot /\ vm # "off" /\ At(q, "applier") /\ Goto(q, "applying")
  /\ run' = [run EXCEPT ![q] =
       [Rest EXCEPT !.pc = "files", !.names = ProfileFiles,
                    !.hooks = tree.env.hooks, !.shell = tree.env.shell]]
  /\ UNCHANGED <<host, vm, boot, tree, home, shell, hooked, met, bounds>>

\* The next profile that ships files; its list, when it is there, is opened.
NextProfile(q) ==
  /\ run[q].pc = "files"
  /\ \/ \E i \in First(run[q].names) :
          LET n == run[q].names[i] IN
          run' = [run EXCEPT ![q] = [@ EXCEPT
                   !.now = n,
                   !.names = Without(run[q].names, i),
                   !.rels = tree.list[n],
                   !.pc = "install"]]
     \/ run[q].names = Nobody /\ run' = [run EXCEPT ![q].pc = "shell"]
  /\ UNCHANGED <<host, vm, boot, tree, cli, home, shell, hooked, met, bounds>>

\* The run is over, and with it the command or the boot that waited for it.
Finish(q, ok) ==
  /\ run' = [run EXCEPT ![q] =
       [Rest EXCEPT !.ran = IF q = Boot THEN {} ELSE run[q].ran]]
  /\ cli' = [p \in Proc |->
       IF p = q /\ At(p, "applying")
       THEN [cli[p] EXCEPT !.pc = IF ok THEN "done" ELSE "error"] ELSE cli[p]]
  /\ vm' = IF q # Boot THEN vm ELSE IF ok THEN "up" ELSE "failed"
  /\ UNCHANGED <<host, boot, tree, commands, edits>>

\* Mutant: whatever the source is, something is written.
InstalledAnyway(n, r) == <<"file", n, tree.file[n][r]>>
\* `rm -f`, then `install`: a source that is not there costs the file.
Installed(n, r) == IF tree.file[n][r] = 0 THEN None ELSE <<"file", n, tree.file[n][r]>>

\* One install as the agent; `set -e` ends the run when it fails.
InstallFile(q) ==
  /\ run[q].pc = "install"
  /\ \/ /\ run[q].rels # {}
        /\ LET r == FirstOf(run[q].rels) IN
           /\ home' = [home EXCEPT ![r] = Installed(run[q].now, r)]
           /\ hooked' = hooked \ {r}
           /\ IF tree.file[run[q].now][r] = 0 THEN Finish(q, FALSE)
              ELSE /\ run' = [run EXCEPT ![q].rels = @ \ {r}]
                   /\ UNCHANGED <<host, vm, boot, tree, cli, commands, edits>>
     \/ /\ run[q].rels = {}
        /\ run' = [run EXCEPT ![q].pc = "files"]
        /\ UNCHANGED <<host, vm, boot, tree, cli, home, hooked, commands, edits>>
  /\ UNCHANGED <<shell, met, faults>>

\* Never reverted when nothing declares a shell.
SetShell(q) ==
  /\ run[q].pc = "shell"
  /\ shell' = IF run[q].shell = 0 THEN shell ELSE run[q].shell
  /\ run' = [run EXCEPT ![q].pc = "hooks"]
  /\ UNCHANGED <<host, vm, boot, tree, cli, home, hooked, met, bounds>>

\* Mutant: the last hook decides.
LastHookDecides(q, ok) == ~ok
\* HOOK_FAILED once one of them failed.
HookFailed(q, ok) == run[q].failed \/ ~ok

\* A hook runs as the agent in its home: however it ends, it may have written
\* to any path there.  One that is not there only counts as failed.
RunHook(q) ==
  /\ run[q].pc = "hooks"
  /\ \E i \in First(run[q].hooks), ok \in {TRUE, FALSE}, w \in SUBSET Rel :
     LET n == run[q].hooks[i] IN
       /\ tree.hook[n] \/ (~ok /\ w = {})
       /\ run' = [run EXCEPT ![q] = [@ EXCEPT
                   !.hooks = Without(run[q].hooks, i),
                   !.failed = HookFailed(q, ok),
                   !.ran = IF ok THEN run[q].ran \union {n} ELSE run[q].ran]]
       /\ home' = [r \in Rel |-> IF r \in w THEN HookWrote ELSE home[r]]
       /\ hooked' = hooked \union w
  /\ UNCHANGED <<host, vm, boot, tree, cli, shell, met, bounds>>

\* Mutant: hooks are fatal for every caller.
AlwaysStrict(q) == TRUE
\* SANDBOX_PROFILES_STRICT=1, by ApplyProfiles.
Strict(q) == q \in Proc

EndRun(q) ==
  /\ run[q].pc = "hooks" /\ run[q].hooks = Nobody
  /\ Finish(q, ~(Strict(q) /\ run[q].failed))
  /\ UNCHANGED <<home, shell, hooked, met, faults>>

\* apt, chsh, a bad shell, an install: any command fails and `set -e` acts.
RunFails(q) ==
  /\ run[q].pc # "idle" /\ faults < MaxFaults
  /\ faults' = faults + 1
  /\ met' = (met \/ q = Boot)
  /\ Finish(q, FALSE)
  /\ UNCHANGED <<home, shell, hooked>>

-----------------------------------------------------------------------------
(* The users *)

\* config.yaml, `profile add`, `update`, `remove`.
EditHost ==
  /\ edits < MaxEdits /\ edits' = edits + 1
  /\ \E plan \in Plans \ {host} : host' = plan
  /\ UNCHANGED <<guest, cli, commands, faults>>

\* The agent edits or creates a file between commands.
AgentEdits(r) ==
  /\ vm = "up" /\ edits < MaxEdits /\ edits' = edits + 1
  /\ Quiet /\ \A p \in Proc : Returned(p)
  /\ home' = [home EXCEPT ![r] = Edited]
  /\ cli' = [p \in Proc |-> Disturbed(cli[p])]
  /\ UNCHANGED <<host, vm, boot, tree, run, shell, hooked, met, commands, faults>>

CliStep(p) ==
  \/ \E cmd \in {"start", "apply"} : Begin(p, cmd)
  \/ Status(p) \/ Launch(p) \/ AwaitReady(p) \/ Down(p)
  \/ ClearTree(p) \/ PushFile(p) \/ PushTemplate(p)
  \/ PushFails(p) \/ Interrupt(p)
RunStep(q) ==
  \/ StartApplier(q) \/ NextProfile(q) \/ InstallFile(q) \/ SetShell(q)
  \/ RunHook(q) \/ EndRun(q) \/ RunFails(q)
Next ==
  \/ WriteData \/ StopVm \/ EditHost
  \/ \E r \in Rel : AgentEdits(r)
  \/ \E p \in Proc : CliStep(p)
  \/ \E q \in Runner : RunStep(q)

Spec == Init /\ [][Next]_vars

-----------------------------------------------------------------------------
(* Properties *)

\* A command that went through the guest's applier from its start to its end,
\* by its own boot or by `profile apply`, with nobody else active.
Undisturbed(p, pcs) ==
  cli[p].pc \in pcs /\ cli[p].alone /\ (cli[p].booted \/ cli[p].cmd = "apply")

Declared(plan, r) ==
  LET b == LastOf(plan, {i \in DOMAIN plan :
                           r \in plan[i].files \union plan[i].templates})
  IN  IF r \in b.files THEN FileOf(b) ELSE TemplateOf(b)

\* README.md: "later profiles win file collisions; the last declared shell
\* wins", "re-installed on every boot and every apply": whichever of the two
\* paths delivered it, and whatever an earlier command left half done in the
\* guest, what a plan ships is what the home has when the command succeeds,
\* but where one of the command's own hooks wrote after the delivery.
HomeIsPlan ==
  \A p \in Proc : Undisturbed(p, {"done"}) =>
    LET plan == cli[p].plan IN
    /\ \A r \in Rel : Ships(plan, r) => home[r] = Declared(plan, r) \/ r \in hooked
    /\ ManifestEnv(plan).shell \in {0, shell}

\* PROFILE_FILES and files.list: a file that no active profile ships stays as
\* it is, successful or not, though an older version of it is still in the
\* tree; only the command's own hooks may have written to it.
StaleIsInert ==
  \A p \in Proc : Undisturbed(p, {"done", "error"}) =>
    \A r \in Rel : ~Ships(cli[p].plan, r) => home[r] = cli[p].before[r] \/ r \in hooked

\* HOOK_FAILED and Strict: a hook "must not brick an otherwise safe VM", so a
\* boot fails only by another step or by a process that rewrote the tree
\* meanwhile; and an apply that reports success has run each hook of its plan,
\* and each succeeded.
HooksFailWhereTheyMay ==
  /\ vm = "failed" => met
  /\ \A p \in Proc : Undisturbed(p, {"done"}) /\ cli[p].cmd = "apply" =>
       \A i \in DOMAIN cli[p].plan :
         cli[p].plan[i].hook => cli[p].plan[i].name \in run[p].ran
=============================================================================
