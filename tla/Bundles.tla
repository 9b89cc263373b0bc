------------------------------- MODULE Bundles -------------------------------
(***************************************************************************)
(* The profile bundles on the host: git clones that `profile add`, update  *)
(* and remove write file by file, while other commands load them part by   *)
(* part, check what they loaded, resolve the secrets and variables it      *)
(* declares and render its templates.                                      *)
(***************************************************************************)
EXTENDS Naturals, FiniteSets, SequencesExt

CONSTANTS
  Proc,         \* concurrent code-vm processes
  Name,         \* profile names
  Key,          \* names of secrets and variables
  Edition,      \* per profile, the contents its author publishes, in order
  Actives,      \* the lists of profiles a user may activate
  MaxCommands,  \* bound on commands
  MaxEdits,     \* bound on the user's edits of config.yaml and secrets.yaml
  MaxFaults     \* bound on interrupted commands and failed cleanups

ASSUME BoundsAssumption ==
  MaxCommands \in Nat /\ MaxEdits \in Nat /\ MaxFaults \in Nat
ASSUME ActivesAssumption == Actives \subseteq Seq(Name)

VARIABLES
  head,      \* per profile, the edition its remote is at
  dir,       \* profiles with a directory on the host
  disk,      \* the edition each part of a directory is from, 0 when missing
  active,    \* profiles: of config.yaml
  mapped,    \* placeholders that secrets.yaml and config.yaml have a value for
  cli,       \* the code-vm processes
  holes,     \* history: placeholders that were rendered as nothing
  spoiled,   \* history: directories an update or an interruption went through
  commands, edits, faults

hostVars == <<head, dir, disk, active, mapped>>
vars == <<hostVars, cli, holes, spoiled, commands, edits, faults>>

-----------------------------------------------------------------------------
(* Bundles *)

\* In the order in which Load reads them.
Parts == <<"manifest", "files", "templates", "hook">>
Part == Range(Parts)
Nothing == [x \in Part |-> 0]
Ref == [kind : {"secret", "var"}, name : Key]

\* What a mix of editions holds; a missing tree is an empty one.
Manifest(n, mix) == Edition[n][mix["manifest"]].manifest
Files(n, mix) ==
  IF mix["files"] = 0 THEN {} ELSE Edition[n][mix["files"]].files
Templates(n, mix) ==
  IF mix["templates"] = 0 THEN {} ELSE Edition[n][mix["templates"]].templates
Shipped(trees) == {t.rel : t \in trees}

\* Mutant: a secret may be declared as a variable and the reverse.
DeclaredAsAny(n, mix, ref) ==
  \E k \in {"secret", "var"} : [ref EXCEPT !.kind = k] \in Manifest(n, mix).declares

Declared(n, mix, ref) == ref \in Manifest(n, mix).declares

\* validateManifest: the form of every single value in it.
Sane(n, mix) == Manifest(n, mix).sane

\* Load's checks.  What is refused of a single file, its path, its kind or its
\* blank content, is told by the hook's alone.
Valid(n, mix) ==
  /\ mix["manifest"] # 0
  /\ Sane(n, mix)
  /\ \A t \in Templates(n, mix) : \A r \in t.refs : Declared(n, mix, r)
  /\ Files(n, mix) \intersect Shipped(Templates(n, mix)) = {}
  /\ Manifest(n, mix).hook =>
       mix["hook"] # 0 /\ ~Edition[n][mix["hook"]].blank
  /\ \/ Files(n, mix) # {} \/ Templates(n, mix) # {} \/ Manifest(n, mix).hook
     \/ Manifest(n, mix).declares # {} \/ Manifest(n, mix).other

-----------------------------------------------------------------------------
(* Processes *)

\* rest: the profiles still to load, the first one part by part into got.
\* todo: the parts git has still to write, of the edition want.
Idle == [pc |-> "idle", cmd |-> "run", rest |-> <<>>, got |-> Nothing,
         read |-> 0, loaded |-> {}, vars |-> {}, todo |-> {}, want |-> 0]

At(p, pc) == cli[p].pc = pc
Busy(p) == ~At(p, "idle")
Target(p) == Head(cli[p].rest)
Ends(p) == cli' = [cli EXCEPT ![p] = Idle]

VarsOf(refs) == {r \in refs : r.kind = "var"}

\* The profiles that are there were added once, in an edition that loads.
Init ==
  /\ head = [n \in Name |-> 1]
  /\ dir \in SUBSET {n \in Name : Valid(n, [x \in Part |-> 1])}
  /\ disk = [n \in Name |-> [x \in Part |-> IF n \in dir THEN 1 ELSE 0]]
  /\ active \in Actives /\ mapped \in {{}, Ref}
  /\ cli = [p \in Proc |-> Idle]
  /\ holes = {} /\ spoiled = {}
  /\ commands = 0 /\ edits = 0 /\ faults = 0

\* The author pushes the next edition.
Publish(n) ==
  /\ head[n] < Len(Edition[n])
  /\ head' = [head EXCEPT ![n] = @ + 1]
  /\ UNCHANGED <<dir, disk, active, mapped, cli, holes, spoiled, commands,
                 edits, faults>>

\* The user edits config.yaml or secrets.yaml (all values or none).
EditHost ==
  /\ edits < MaxEdits /\ edits' = edits + 1
  /\ \/ active' \in Actives /\ UNCHANGED mapped
     \/ mapped' = Ref \ mapped /\ UNCHANGED active
  /\ UNCHANGED <<head, dir, disk, cli, holes, spoiled, commands, faults>>

Begins(p, process) ==
  /\ commands < MaxCommands /\ commands' = commands + 1
  /\ At(p, "idle")
  /\ cli' = [cli EXCEPT ![p] = process]

\* loadConfigWithProfiles: the config and its variables, then each bundle.
BeginRun(p) ==
  /\ active # <<>>
  /\ Begins(p, [Idle EXCEPT !.pc = "load", !.rest = active,
                            !.vars = VarsOf(mapped)])
  /\ UNCHANGED <<hostVars, holes, spoiled, edits, faults>>

\* `profile add`: the name must not be taken.
BeginAdd(p, n) ==
  /\ n \notin dir
  /\ Begins(p, [Idle EXCEPT !.pc = "clone", !.cmd = "add", !.rest = <<n>>])
  /\ UNCHANGED <<hostVars, holes, spoiled, edits, faults>>

Working(p, n) == Busy(p) /\ cli[p].cmd # "run" /\ Target(p) = n
Writing(n) == \E q \in Proc : At(q, "write") /\ Target(q) = n
Updating(n) == \E q \in Proc : Working(q, n) /\ cli[q].cmd = "update"

\* `profile update` of a clone nobody else's git is writing: pull replaces
\* the parts that are there.
BeginUpdate(p, n) ==
  /\ n \in dir /\ ~Writing(n) /\ disk[n] # Nothing
  /\ Begins(p, [Idle EXCEPT !.pc = "write", !.cmd = "update", !.rest = <<n>>,
                  !.todo = {x \in Part : disk[n][x] # 0}, !.want = head[n]])
  /\ spoiled' = spoiled \union {n}
  /\ UNCHANGED <<hostVars, holes, edits, faults>>

\* `profile remove`: refused while the config lists the profile.
BeginRemove(p, n) ==
  /\ n \in dir /\ n \notin Range(active)
  /\ Begins(p, [Idle EXCEPT !.pc = "remove", !.cmd = "remove", !.rest = <<n>>])
  /\ UNCHANGED <<hostVars, holes, spoiled, edits, faults>>

\* git clone makes the directory, or refuses one with contents that has come
\* to be there.
Clone(p) ==
  /\ At(p, "clone")
  /\ LET n == Target(p)
     IN  IF disk[n] # Nothing THEN Ends(p) /\ UNCHANGED dir
         ELSE /\ dir' = dir \union {n}
              /\ cli' = [cli EXCEPT ![p] = [@ EXCEPT
                          !.pc = "write", !.todo = Part, !.want = head[n]]]
  /\ UNCHANGED <<head, disk, active, mapped, holes, spoiled, commands, edits,
                 faults>>

\* git writes its files one by one, and fails when the directory goes away;
\* the command loads the result.
WritePart(p) ==
  /\ At(p, "write")
  /\ LET n == Target(p)
     IN  \/ n \notin dir /\ Ends(p) /\ UNCHANGED disk
         \/ \E x \in cli[p].todo :
              /\ n \in dir
              /\ disk' = [disk EXCEPT ![n][x] = cli[p].want]
              /\ cli' = [cli EXCEPT ![p] = [@ EXCEPT
                          !.todo = cli[p].todo \ {x},
                          !.pc = IF cli[p].todo = {x} THEN "load" ELSE cli[p].pc,
                          !.want = IF cli[p].todo = {x} THEN 0 ELSE cli[p].want]]
  /\ UNCHANGED <<head, dir, active, mapped, holes, spoiled, commands, edits,
                 faults>>

\* Load reads the next part.
ReadPart(p) ==
  /\ At(p, "load") /\ cli[p].read < Len(Parts)
  /\ LET x == Parts[cli[p].read + 1]
     IN  cli' = [cli EXCEPT ![p] = [@ EXCEPT
                  !.read = cli[p].read + 1, !.got[x] = disk[Target(p)][x]]]
  /\ UNCHANGED <<hostVars, holes, spoiled, commands, edits, faults>>

\* What follows a bundle that loaded, and one that did not: only `add`
\* removes it.
AfterLoad(p) ==
  LET rest == Tail(cli[p].rest)
      more == [cli[p] EXCEPT !.read = 0, !.got = Nothing,
                 !.loaded = @ \union {[name |-> Target(p), mix |-> cli[p].got]}]
  IN  CASE rest # <<>> -> [more EXCEPT !.rest = rest]
        [] rest = <<>> /\ cli[p].cmd = "run" -> [more EXCEPT !.pc = "resolve"]
        [] OTHER -> Idle

\* Mutant: a broken clone stays.
KeepsBroken(p) == Idle

AfterFailure(p) ==
  IF cli[p].cmd = "add"
  THEN [Idle EXCEPT !.pc = "remove", !.cmd = "add", !.rest = cli[p].rest]
  ELSE Idle

FinishLoad(p) ==
  /\ At(p, "load") /\ cli[p].read = Len(Parts)
  /\ cli' = [cli EXCEPT ![p] = IF Valid(Target(p), cli[p].got)
                               THEN AfterLoad(p) ELSE AfterFailure(p)]
  /\ UNCHANGED <<hostVars, holes, spoiled, commands, edits, faults>>

-----------------------------------------------------------------------------
(* Secrets, variables and templates *)

AllDeclared(loaded) == UNION {Manifest(b.name, b.mix).declares : b \in loaded}
AllTemplates(loaded) == UNION {Templates(b.name, b.mix) : b \in loaded}
AllFiles(loaded) == UNION {Files(b.name, b.mix) : b \in loaded}

\* LoadAll: no path is a file of one profile and a template of another.
Collides(loaded) == AllFiles(loaded) \intersect Shipped(AllTemplates(loaded)) # {}

\* ResolveSecrets and ResolveVars: secrets.yaml as it is now, the variables
\* as they were loaded; one that is missing fails the command.
Values(p) == (mapped \ VarsOf(mapped)) \union cli[p].vars

\* RenderTemplates: a placeholder without a value becomes nothing.
Resolve(p) ==
  /\ At(p, "resolve")
  /\ LET loaded == cli[p].loaded
         declared == AllDeclared(loaded)
     IN  holes' = IF ~Collides(loaded) /\ declared \subseteq Values(p)
                  THEN holes \union ((UNION {t.refs : t \in AllTemplates(loaded)})
                                       \ declared)
                  ELSE holes
  /\ Ends(p)
  /\ UNCHANGED <<hostVars, spoiled, commands, edits, faults>>

-----------------------------------------------------------------------------
\* RemoveAll, of `remove` and of an `add` that failed.
RemovePart(p) ==
  /\ At(p, "remove")
  /\ \E x \in Part : /\ disk[Target(p)][x] # 0
                     /\ disk' = [disk EXCEPT ![Target(p)][x] = 0]
  /\ UNCHANGED <<head, dir, active, mapped, cli, holes, spoiled, commands,
                 edits, faults>>

RemoveDir(p) ==
  /\ At(p, "remove") /\ disk[Target(p)] = Nothing
  /\ dir' = dir \ {Target(p)}
  /\ spoiled' = IF Updating(Target(p)) THEN spoiled ELSE spoiled \ {Target(p)}
  /\ Ends(p)
  /\ UNCHANGED <<head, disk, active, mapped, holes, commands, edits, faults>>

\* The user interrupts a command, or its cleanup fails.
Interrupt(p) ==
  /\ Busy(p)
  /\ faults < MaxFaults /\ faults' = faults + 1
  /\ spoiled' = spoiled \union (IF cli[p].cmd = "run" THEN {} ELSE {Target(p)})
  /\ Ends(p)
  /\ UNCHANGED <<hostVars, holes, commands, edits>>

Step(p) ==
  \/ Clone(p) \/ WritePart(p) \/ ReadPart(p) \/ FinishLoad(p)
  \/ Resolve(p) \/ RemovePart(p) \/ RemoveDir(p)

Next ==
  \/ EditHost \/ \E n \in Name : Publish(n)
  \/ \E p \in Proc :
       \/ BeginRun(p) \/ Step(p) \/ Interrupt(p)
       \/ \E n \in Name : BeginAdd(p, n) \/ BeginUpdate(p, n) \/ BeginRemove(p, n)

Spec == Init /\ [][Next]_vars

-----------------------------------------------------------------------------
(* Properties *)

\* Load, ResolveSecrets and RenderTemplates: no template goes into the guest
\* with a placeholder replaced by nothing, although Load reads manifest and
\* templates at different moments and a pull or a removal may come between,
\* and secrets and variables are read later still.
RenderedComplete == holes = {}

\* newProfileAddCmd: "A broken bundle must not linger": a directory whose
\* bundle does not load is one that some command is still at work on, or that
\* an update or an interrupted command has been through, whatever adds,
\* updates and removals of the same name race.
NoBrokenBundle ==
  \A n \in dir \ spoiled :
    \/ Valid(n, disk[n])
    \/ \E p \in Proc : Working(p, n)
=============================================================================
