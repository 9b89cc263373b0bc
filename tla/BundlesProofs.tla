----------------------------- MODULE BundlesProofs -----------------------------
(***************************************************************************)
(* Theorems about Bundles: for any profiles, editions, processes and       *)
(* number of commands, no template is rendered with a placeholder replaced *)
(* by nothing, and no broken bundle lingers.                               *)
(***************************************************************************)
EXTENDS Bundles, TLAPS

-----------------------------------------------------------------------------
(* The inductive invariant                                                 *)

Mix == [Part -> Nat]
Process ==
  [pc : {"idle", "load", "clone", "write", "remove", "resolve"},
   cmd : {"run", "add", "update", "remove"}, rest : Seq(Name), got : Mix,
   read : 0 .. 4, loaded : SUBSET [name : Name, mix : Mix], vars : SUBSET Ref,
   todo : SUBSET Part, want : Nat]

\* What a process is at, and what its command is.
Staged(r) ==
  /\ r.pc # "idle" => r.rest # <<>>
  /\ r.cmd # "run" => r.pc = "idle" \/ Tail(r.rest) = <<>>
  /\ r.pc \in {"clone", "write"} => r.read = 0
  /\ r.pc \in {"clone", "write", "remove"} => r.cmd # "run"
  /\ r.pc \in {"load", "clone", "write"} => r.cmd # "remove"

Types ==
  /\ head \in [Name -> Nat] /\ dir \subseteq Name
  /\ disk \in [Name -> Mix]
  /\ active \in Seq(Name) /\ mapped \subseteq Ref
  /\ cli \in [Proc -> Process]
  /\ \A p \in Proc : Staged(cli[p])

\* What a process has loaded passed the checks.
Sound == \A p \in Proc : \A b \in cli[p].loaded : Valid(b.name, b.mix)

Marked == \A p \in Proc : Busy(p) /\ cli[p].cmd = "update" => Target(p) \in spoiled

\* A command that will still notice what is wrong with the directory: it has
\* yet to load it, or what it has loaded so far is what is there.
Watches(p, n) ==
  /\ Working(p, n)
  /\ \/ cli[p].pc \in {"write", "remove"}
     \/ /\ cli[p].pc = "load"
        /\ \A i \in 1 .. cli[p].read : cli[p].got[Parts[i]] = disk[n][Parts[i]]

Watched == \A n \in dir \ spoiled : Valid(n, disk[n]) \/ \E p \in Proc : Watches(p, n)

BundlesInv == Types /\ Sound /\ Marked /\ Watched /\ holes = {}

-----------------------------------------------------------------------------
LEMMA PartFacts ==
  /\ Len(Parts) = 4 /\ Part = {"manifest", "files", "templates", "hook"}
  /\ Parts[1] = "manifest" /\ Parts[2] = "files" /\ Parts[3] = "templates"
  /\ Parts[4] = "hook"
<1>1. DOMAIN Parts = 1 .. 4 /\ Len(Parts) = 4
  BY DEF Parts
<1>2. /\ Parts[1] = "manifest" /\ Parts[2] = "files" /\ Parts[3] = "templates"
      /\ Parts[4] = "hook"
  BY DEF Parts
<1>3. Part = {Parts[i] : i \in 1 .. 4}
  BY <1>1 DEF Part, Range
<1>4. 1 .. 4 = {1, 2, 3, 4}
  OBVIOUS
<1> QED
  BY <1>1, <1>2, <1>3, <1>4

LEMMA PartIndex ==
  /\ \A i \in 0 .. 3 : Parts[i + 1] \in Part
  /\ \A x \in Part : \E i \in 1 .. 4 : x = Parts[i]
  /\ \A i, j \in 1 .. 4 : Parts[i] = Parts[j] => i = j
<1>1. \A i \in 0 .. 3 : i + 1 = 1 \/ i + 1 = 2 \/ i + 1 = 3 \/ i + 1 = 4
  OBVIOUS
<1>2. \A i \in 1 .. 4 : i = 1 \/ i = 2 \/ i = 3 \/ i = 4
  OBVIOUS
<1>3. 1 \in 1 .. 4 /\ 2 \in 1 .. 4 /\ 3 \in 1 .. 4 /\ 4 \in 1 .. 4
  OBVIOUS
<1>4. \A i \in 0 .. 3 : Parts[i + 1] \in Part
  BY <1>1, PartFacts
<1>5. \A x \in Part : \E i \in 1 .. 4 : x = Parts[i]
  BY <1>3, PartFacts
<1>6. \A i, j \in 1 .. 4 : Parts[i] = Parts[j] => i = j
  BY <1>2, PartFacts
<1> QED
  BY <1>4, <1>5, <1>6

LEMMA IdleType == Idle \in Process /\ Staged(Idle) /\ Nothing \in Mix
<1>1. Nothing \in Mix
  BY DEF Nothing, Mix
<1>2. <<>> \in Seq(Name)
  OBVIOUS
<1>3. Idle \in Process
  BY <1>1, <1>2 DEF Idle, Process
<1>4. Staged(Idle)
  BY DEF Idle, Staged
<1> QED
  BY <1>1, <1>3, <1>4

LEMMA TargetType ==
  ASSUME Types, NEW p \in Proc, Busy(p)
  PROVE  /\ cli[p] \in Process /\ cli[p].rest \in Seq(Name) /\ cli[p].rest # <<>>
         /\ Target(p) \in Name /\ Tail(cli[p].rest) \in Seq(Name)
<1>1. cli[p] \in Process /\ cli[p].rest \in Seq(Name) /\ cli[p].rest # <<>>
  BY DEF Types, Staged, Busy, At, Process
<1> DEFINE s == cli[p].rest
<1>2. s \in Seq(Name) /\ s # <<>>
  BY <1>1
<1> HIDE DEF s
<1>3. Head(s) \in Name /\ Tail(s) \in Seq(Name)
  BY <1>2
<1> QED
  BY <1>1, <1>3 DEF s, Target

(* Only process p changes, into r.                                         *)
Becomes(p, r) ==
  /\ r \in Process /\ Staged(r) /\ cli' = [cli EXCEPT ![p] = r]
  /\ \A b \in r.loaded : Valid(b.name, b.mix)

LEMMA Others ==
  ASSUME BundlesInv, NEW p \in Proc, NEW r, Becomes(p, r)
  PROVE  /\ cli' \in [Proc -> Process] /\ (\A q \in Proc : Staged(cli'[q]))
         /\ cli'[p] = r /\ (\A q \in Proc \ {p} : cli'[q] = cli[q])
         /\ Sound'
         /\ \A q \in Proc \ {p}, n \in Name :
              /\ Working(q, n)' <=> Working(q, n)
              /\ disk'[n] = disk[n] => (Watches(q, n)' <=> Watches(q, n))
              /\ cli[q].pc \in {"write", "remove"} => (Watches(q, n)' <=> Working(q, n))
<1>1. /\ cli' \in [Proc -> Process] /\ cli'[p] = r
      /\ (\A q \in Proc \ {p} : cli'[q] = cli[q])
  BY DEF BundlesInv, Types, Becomes
<1>2. \A q \in Proc : Staged(cli'[q])
  BY <1>1 DEF BundlesInv, Types, Becomes
<1>3. Sound'
  BY <1>1 DEF BundlesInv, Sound, Becomes
<1>4. ASSUME NEW q \in Proc \ {p}, NEW n \in Name
      PROVE  /\ Working(q, n)' <=> Working(q, n)
             /\ disk'[n] = disk[n] => (Watches(q, n)' <=> Watches(q, n))
             /\ cli[q].pc \in {"write", "remove"} => (Watches(q, n)' <=> Working(q, n))
  <2>1. cli'[q] = cli[q]
    BY <1>1
  <2>2. Working(q, n)' <=> Working(q, n)
    BY <2>1 DEF Working, Busy, At, Target
  <2> QED
    BY <2>1, <2>2 DEF Watches
<1> QED
  BY <1>1, <1>2, <1>3, <1>4

-----------------------------------------------------------------------------
(* The invariant, action by action                                         *)

LEMMA InitInv == Init => BundlesInv
<1> SUFFICES ASSUME Init PROVE BundlesInv
  OBVIOUS
<1>1. /\ head = [n \in Name |-> 1] /\ dir \subseteq Name
      /\ \A n \in dir : Valid(n, [x \in Part |-> 1])
      /\ disk = [n \in Name |-> [x \in Part |-> IF n \in dir THEN 1 ELSE 0]]
      /\ active \in Seq(Name) /\ mapped \subseteq Ref
      /\ cli = [p \in Proc |-> Idle] /\ holes = {} /\ spoiled = {}
  BY ActivesAssumption DEF Init
<1>2. disk \in [Name -> Mix]
  BY <1>1 DEF Mix
<1>3. Types
  BY <1>1, <1>2, IdleType DEF Types
<1>4. Sound /\ Marked
  BY <1>1 DEF Sound, Marked, Busy, At, Idle
<1>5. \A n \in dir : disk[n] = [x \in Part |-> 1]
  BY <1>1
<1>6. Watched
  BY <1>1, <1>5 DEF Watched
<1> QED
  BY <1>1, <1>3, <1>4, <1>6 DEF BundlesInv

LEMMA HostSteps ==
  ASSUME BundlesInv, EditHost \/ (\E n \in Name : Publish(n)) \/ UNCHANGED vars
  PROVE  BundlesInv'
<1>1. dir' = dir /\ disk' = disk /\ cli' = cli /\ holes' = holes /\ spoiled' = spoiled
  BY DEF EditHost, Publish, vars, hostVars
<1>2. head' \in [Name -> Nat]
  BY DEF EditHost, Publish, vars, hostVars, BundlesInv, Types
<1>3. active' \in Seq(Name) /\ mapped' \subseteq Ref
  BY ActivesAssumption DEF EditHost, Publish, vars, hostVars, BundlesInv, Types
<1>4. Types'
  BY <1>1, <1>2, <1>3 DEF BundlesInv, Types
<1>5. Sound' /\ Marked'
  BY <1>1 DEF BundlesInv, Sound, Marked, Busy, At, Target
<1>6. Watched'
  BY <1>1 DEF BundlesInv, Watched, Watches, Working, Busy, At, Target
<1> QED
  BY <1>1, <1>4, <1>5, <1>6 DEF BundlesInv

(* A command begins.                                                       *)
LEMMA BeginsKept ==
  ASSUME BundlesInv, NEW p \in Proc, At(p, "idle"), NEW r, Becomes(p, r),
         UNCHANGED hostVars, holes' = holes,
         spoiled \subseteq spoiled',
         r.cmd = "update" => Head(r.rest) \in spoiled'
  PROVE  BundlesInv'
<1>1. /\ cli' \in [Proc -> Process] /\ (\A q \in Proc : Staged(cli'[q]))
      /\ cli'[p] = r /\ (\A q \in Proc \ {p} : cli'[q] = cli[q])
      /\ Sound'
      /\ \A q \in Proc \ {p}, n \in Name : disk'[n] = disk[n] =>
           (Watches(q, n)' <=> Watches(q, n))
  BY Others
<1>2. head' = head /\ dir' = dir /\ disk' = disk /\ active' = active /\ mapped' = mapped
  BY DEF hostVars
<1>3. Types'
  BY <1>1, <1>2 DEF BundlesInv, Types
<1>4. Marked'
  BY <1>1 DEF BundlesInv, Marked, Busy, At, Target
<1>5. \A n \in Name : ~Watches(p, n)
  BY DEF Watches, Working, Busy
<1>6. Watched'
  BY <1>1, <1>2, <1>5 DEF BundlesInv, Types, Watched
<1> QED
  BY <1>1, <1>3, <1>4, <1>6 DEF BundlesInv

LEMMA BeginInv ==
  ASSUME BundlesInv, NEW p \in Proc,
         \/ BeginRun(p)
         \/ \E n \in Name : BeginAdd(p, n) \/ BeginUpdate(p, n) \/ BeginRemove(p, n)
  PROVE  BundlesInv'
<1>0. active \in Seq(Name) /\ mapped \subseteq Ref /\ head \in [Name -> Nat]
  BY DEF BundlesInv, Types
<1>a. ASSUME NEW n \in Name
      PROVE  <<n>> \in Seq(Name) /\ <<n>> # <<>> /\ Tail(<<n>>) = <<>> /\ Head(<<n>>) = n
  OBVIOUS
<1>1. CASE BeginRun(p)
  <2> DEFINE r == [Idle EXCEPT !.pc = "load", !.rest = active, !.vars = VarsOf(mapped)]
  <2>1. VarsOf(mapped) \subseteq Ref
    BY <1>0 DEF VarsOf
  <2>2. /\ r \in Process /\ r.pc = "load" /\ r.cmd = "run" /\ r.rest = active /\ r.read = 0
        /\ r.loaded = {}
    BY <1>0, <2>1, IdleType DEF Idle, Process
  <2>3. cli' = [cli EXCEPT ![p] = r] /\ At(p, "idle") /\ active # <<>>
    BY <1>1 DEF BeginRun, Begins
  <2> HIDE DEF r
  <2>4. Becomes(p, r)
    BY <2>2, <2>3 DEF Becomes, Staged
  <2>5. UNCHANGED hostVars /\ holes' = holes /\ spoiled' = spoiled
    BY <1>1 DEF BeginRun
  <2> QED
    BY <2>2, <2>3, <2>4, <2>5, BeginsKept
<1>2. ASSUME NEW n \in Name, BeginAdd(p, n) PROVE BundlesInv'
  <2> DEFINE r == [Idle EXCEPT !.pc = "clone", !.cmd = "add", !.rest = <<n>>]
  <2>1. /\ r \in Process /\ r.pc = "clone" /\ r.cmd = "add" /\ r.rest = <<n>> /\ r.read = 0
        /\ r.loaded = {}
    BY <1>a, IdleType DEF Idle, Process
  <2>2. cli' = [cli EXCEPT ![p] = r] /\ At(p, "idle")
    BY <1>2 DEF BeginAdd, Begins
  <2> HIDE DEF r
  <2>3. Becomes(p, r)
    BY <1>a, <2>1, <2>2 DEF Becomes, Staged
  <2>4. UNCHANGED hostVars /\ holes' = holes /\ spoiled' = spoiled
    BY <1>2 DEF BeginAdd
  <2> QED
    BY <2>1, <2>2, <2>3, <2>4, BeginsKept
<1>3. ASSUME NEW n \in Name, BeginUpdate(p, n) PROVE BundlesInv'
  <2> DEFINE todo == {x \in Part : disk[n][x] # 0}
             r == [Idle EXCEPT !.pc = "write", !.cmd = "update", !.rest = <<n>>,
                               !.todo = todo, !.want = head[n]]
  <2>1. todo \subseteq Part /\ head[n] \in Nat
    BY <1>0
  <2>2. cli' = [cli EXCEPT ![p] = r] /\ At(p, "idle")
    BY <1>3 DEF BeginUpdate, Begins
  <2> HIDE DEF todo
  <2>3. /\ r \in Process /\ r.pc = "write" /\ r.cmd = "update" /\ r.rest = <<n>>
        /\ r.read = 0 /\ r.loaded = {}
    BY <1>a, <2>1, IdleType DEF Idle, Process
  <2> HIDE DEF r
  <2>4. Becomes(p, r)
    BY <1>a, <2>2, <2>3 DEF Becomes, Staged
  <2>5. UNCHANGED hostVars /\ holes' = holes /\ spoiled' = spoiled \union {n}
    BY <1>3 DEF BeginUpdate
  <2>6. Head(r.rest) \in spoiled' /\ spoiled \subseteq spoiled'
    BY <1>a, <2>3, <2>5
  <2> QED
    BY <2>2, <2>4, <2>5, <2>6, BeginsKept
<1>4. ASSUME NEW n \in Name, BeginRemove(p, n) PROVE BundlesInv'
  <2> DEFINE r == [Idle EXCEPT !.pc = "remove", !.cmd = "remove", !.rest = <<n>>]
  <2>1. /\ r \in Process /\ r.pc = "remove" /\ r.cmd = "remove" /\ r.rest = <<n>>
        /\ r.loaded = {}
    BY <1>a, IdleType DEF Idle, Process
  <2>2. cli' = [cli EXCEPT ![p] = r] /\ At(p, "idle")
    BY <1>4 DEF BeginRemove, Begins
  <2> HIDE DEF r
  <2>3. Becomes(p, r)
    BY <1>a, <2>1, <2>2 DEF Becomes, Staged
  <2>4. UNCHANGED hostVars /\ holes' = holes /\ spoiled' = spoiled
    BY <1>4 DEF BeginRemove
  <2> QED
    BY <2>1, <2>2, <2>3, <2>4, BeginsKept
<1> QED
  BY <1>1, <1>2, <1>3, <1>4

(* A command goes on with, or gives up, what it is at, on a disk that is    *)
(* left alone, without having been the last to watch a broken bundle.       *)
LEMMA OnwardsKept ==
  ASSUME BundlesInv, NEW p \in Proc, Busy(p), NEW r, Becomes(p, r),
         UNCHANGED <<head, disk, active, mapped, spoiled>>, holes' = holes,
         r.pc # "idle" /\ r.cmd = "update" => Head(r.rest) \in spoiled,
         dir' \subseteq Name,
         \A n \in dir' \ spoiled :
           \/ n \in dir /\ (Watches(p, n) => Watches(p, n)' \/ Valid(n, disk[n]))
           \/ Watches(p, n)'
  PROVE  BundlesInv'
<1>1. /\ cli' \in [Proc -> Process] /\ (\A q \in Proc : Staged(cli'[q]))
      /\ cli'[p] = r /\ (\A q \in Proc \ {p} : cli'[q] = cli[q])
      /\ Sound'
      /\ \A q \in Proc \ {p}, n \in Name : disk'[n] = disk[n] =>
           (Watches(q, n)' <=> Watches(q, n))
  BY Others
<1>2. Types'
  BY <1>1 DEF BundlesInv, Types
<1>3. Marked'
  BY <1>1 DEF BundlesInv, Marked, Busy, At, Target
<1>4. Watched'
  <2> SUFFICES ASSUME NEW n \in dir' \ spoiled
               PROVE  Valid(n, disk[n]) \/ \E q \in Proc : Watches(q, n)'
    BY DEF Watched
  <2>1. n \in Name /\ (n \in dir => Valid(n, disk[n]) \/ \E q \in Proc : Watches(q, n))
    BY DEF BundlesInv, Watched
  <2>2. \A q \in Proc \ {p} : Watches(q, n) => Watches(q, n)'
    BY <1>1, <2>1
  <2> QED
    BY <2>1, <2>2
<1> QED
  BY <1>1, <1>2, <1>3, <1>4 DEF BundlesInv

LEMMA EndsKept ==
  ASSUME BundlesInv, NEW p \in Proc, Busy(p), Ends(p),
         UNCHANGED <<head, dir, disk, active, mapped, spoiled>>, holes' = holes,
         \A n \in dir \ spoiled : Watches(p, n) => Valid(n, disk[n])
  PROVE  BundlesInv'
<1>1. Becomes(p, Idle)
  BY IdleType DEF Ends, Becomes, Idle
<1>2. Idle.pc = "idle" /\ dir' \subseteq Name
  BY DEF Idle, BundlesInv, Types
<1> QED
  BY <1>1, <1>2, OnwardsKept

LEMMA CloneInv == ASSUME BundlesInv, NEW p \in Proc, Clone(p) PROVE BundlesInv'
<1> SUFFICES ASSUME NEW n, n = Target(p) PROVE BundlesInv'
  OBVIOUS
<1>1. /\ Busy(p) /\ cli[p].pc = "clone" /\ cli[p] \in Process /\ n \in Name
      /\ cli \in [Proc -> Process] /\ Staged(cli[p]) /\ head \in [Name -> Nat]
  BY TargetType DEF Clone, Busy, At, BundlesInv, Types
<1>2. \A m \in Name : ~Watches(p, m)
  BY <1>1 DEF Watches
<1>3. CASE disk[n] # Nothing
  <2>1. Ends(p) /\ UNCHANGED <<head, dir, disk, active, mapped, spoiled>> /\ holes' = holes
    BY <1>3 DEF Clone
  <2>2. \A m \in dir \ spoiled : ~Watches(p, m)
    BY <1>2 DEF BundlesInv, Types
  <2> QED
    BY <1>1, <2>1, <2>2, EndsKept
<1>4. CASE disk[n] = Nothing
  <2> DEFINE r == [cli[p] EXCEPT !.pc = "write", !.todo = Part, !.want = head[n]]
  <2>1. /\ UNCHANGED <<head, disk, active, mapped, spoiled>> /\ holes' = holes
        /\ dir' = dir \union {n} /\ cli' = [cli EXCEPT ![p] = r]
    BY <1>1, <1>4 DEF Clone
  <2>2. head[n] \in Nat /\ Part \subseteq Part
    BY <1>1
  <2>3. /\ r \in Process /\ r.pc = "write" /\ r.cmd = cli[p].cmd /\ r.rest = cli[p].rest
        /\ r.read = cli[p].read /\ r.loaded = cli[p].loaded
    BY <1>1, <2>2 DEF Process
  <2> HIDE DEF r
  <2>4. Becomes(p, r)
    BY <1>1, <2>1, <2>3 DEF Becomes, Staged, BundlesInv, Sound
  <2>5. cli'[p] = r
    BY <1>1, <2>1
  <2>6. Watches(p, n)'
    BY <1>1, <2>3, <2>5 DEF Watches, Working, Busy, At, Target, Staged
  <2>7. r.cmd = "update" => Head(r.rest) \in spoiled
    BY <1>1, <2>3 DEF BundlesInv, Marked, Target
  <2>8. dir' \subseteq Name
    BY <1>1, <2>1 DEF BundlesInv, Types
  <2>9. \A m \in dir' \ spoiled :
          \/ m \in dir /\ (Watches(p, m) => Watches(p, m)' \/ Valid(m, disk[m]))
          \/ Watches(p, m)'
    BY <1>2, <2>1, <2>6, <2>8
  <2> QED
    BY <1>1, <2>1, <2>4, <2>7, <2>8, <2>9, OnwardsKept
<1> QED
  BY <1>3, <1>4

LEMMA ReadPartInv == ASSUME BundlesInv, NEW p \in Proc, ReadPart(p) PROVE BundlesInv'
<1> DEFINE n == Target(p)
           k == cli[p].read + 1
           r == [cli[p] EXCEPT !.read = k,
                               !.got = [cli[p].got EXCEPT ![Parts[k]] = disk[n][Parts[k]]]]
<1>1. /\ Busy(p) /\ cli[p].pc = "load" /\ cli[p] \in Process /\ n \in Name
      /\ cli \in [Proc -> Process] /\ Staged(cli[p]) /\ disk[n] \in Mix
      /\ UNCHANGED <<head, dir, disk, active, mapped, spoiled>> /\ holes' = holes
  BY TargetType DEF ReadPart, Busy, At, BundlesInv, Types, hostVars
<1>2. /\ cli[p].read \in 0 .. 3 /\ k \in 1 .. 4 /\ Parts[k] \in Part
      /\ cli[p].got \in Mix
  <2>1. cli[p].read \in 0 .. 4 /\ cli[p].read < 4 /\ cli[p].got \in Mix
    BY <1>1, PartFacts DEF ReadPart, Process
  <2>2. cli[p].read \in 0 .. 3
    BY <2>1
  <2> QED
    BY <2>1, <2>2, PartIndex
<1>3. cli' = [cli EXCEPT ![p] = r]
  BY <1>1 DEF ReadPart
<1> DEFINE g == [cli[p].got EXCEPT ![Parts[k]] = disk[n][Parts[k]]]
<1>4. /\ g \in Mix /\ g[Parts[k]] = disk[n][Parts[k]]
      /\ \A x \in Part : x # Parts[k] => g[x] = cli[p].got[x]
  BY <1>1, <1>2 DEF Mix
<1> HIDE DEF g
<1>5. /\ r \in Process /\ r.pc = "load" /\ r.cmd = cli[p].cmd /\ r.rest = cli[p].rest
      /\ r.read = k /\ r.got = g /\ r.loaded = cli[p].loaded
  <2>1. r = [cli[p] EXCEPT !.read = k, !.got = g]
    BY DEF g
  <2>2. k \in 0 .. 4
    BY <1>2
  <2> HIDE DEF k, r
  <2> QED
    BY <1>1, <1>4, <2>1, <2>2 DEF Process
<1> HIDE DEF r
<1>6. Becomes(p, r)
  BY <1>1, <1>3, <1>5 DEF Becomes, Staged, BundlesInv, Sound
<1>7. cli'[p] = r
  BY <1>1, <1>3
<1>8. ASSUME NEW m \in Name, Watches(p, m) PROVE Watches(p, m)'
  <2>1. /\ m = n /\ cli[p].cmd # "run"
        /\ \A i \in 1 .. cli[p].read : cli[p].got[Parts[i]] = disk[m][Parts[i]]
    BY <1>1, <1>8 DEF Watches, Working
  <2>2. ASSUME NEW i \in 1 .. k PROVE g[Parts[i]] = disk[m][Parts[i]]
    <3>1. i \in 1 .. 4 /\ (i = k \/ i \in 1 .. cli[p].read)
      BY <1>2
    <3>2. i - 1 \in 0 .. 3 /\ i = (i - 1) + 1
      BY <3>1
    <3>3. Parts[i] \in Part /\ (i # k => Parts[i] # Parts[k])
      BY <1>2, <3>1, <3>2, PartIndex
    <3> QED
      BY <1>4, <2>1, <3>1, <3>3
  <2>3. r.read = k /\ r.got = g
    BY <1>5
  <2> HIDE DEF k
  <2> QED
    BY <1>1, <1>5, <1>7, <2>1, <2>2, <2>3 DEF Watches, Working, Busy, At, Target
<1>9. r.cmd = "update" => Head(r.rest) \in spoiled
  BY <1>1, <1>5 DEF BundlesInv, Marked, Target
<1>10. dir \subseteq Name
  BY DEF BundlesInv, Types
<1> QED
  BY <1>1, <1>6, <1>8, <1>9, <1>10, OnwardsKept

LEMMA FinishLoadInv == ASSUME BundlesInv, NEW p \in Proc, FinishLoad(p) PROVE BundlesInv'
<1> SUFFICES ASSUME NEW n, n = Target(p) PROVE BundlesInv'
  OBVIOUS
<1> DEFINE got == cli[p].got
<1>1. /\ Busy(p) /\ cli[p].pc = "load" /\ cli[p].read = 4 /\ cli[p] \in Process
      /\ n \in Name /\ cli[p].rest \in Seq(Name) /\ cli[p].rest # <<>>
      /\ Tail(cli[p].rest) \in Seq(Name) /\ got \in Mix /\ disk[n] \in Mix
      /\ cli \in [Proc -> Process] /\ Staged(cli[p])
      /\ UNCHANGED <<head, dir, disk, active, mapped, spoiled>> /\ holes' = holes
      /\ cli' = [cli EXCEPT ![p] = IF Valid(n, got) THEN AfterLoad(p) ELSE AfterFailure(p)]
      /\ dir \subseteq Name
  BY TargetType, PartFacts DEF FinishLoad, Busy, At, BundlesInv, Types, hostVars, Process
<1>2. ASSUME NEW m \in Name, Watches(p, m) PROVE m = n /\ cli[p].cmd # "run" /\ got = disk[m]
  <2>1. /\ m = n /\ cli[p].cmd # "run"
        /\ \A i \in 1 .. 4 : got[Parts[i]] = disk[m][Parts[i]]
    BY <1>1, <1>2 DEF Watches, Working
  <2>2. \A x \in Part : got[x] = disk[m][x]
    BY <2>1, PartIndex
  <2> HIDE DEF got
  <2>3. got = disk[m]
    BY <1>1, <2>1, <2>2 DEF Mix
  <2> QED
    BY <2>1, <2>3
<1>3. CASE Valid(n, got)
  <2> DEFINE b == [name |-> n, mix |-> got]
             more == [cli[p] EXCEPT !.read = 0, !.got = Nothing, !.loaded = @ \union {b}]
             rest == Tail(cli[p].rest)
             r == AfterLoad(p)
  <2>1. cli' = [cli EXCEPT ![p] = r]
    BY <1>1, <1>3
  <2>2. b \in [name : Name, mix : Mix] /\ b.name = n /\ b.mix = got
    BY <1>1
  <2>3. \A m \in dir \ spoiled : Watches(p, m) => Valid(m, disk[m])
    BY <1>1, <1>2, <1>3
  <2> HIDE DEF b
  <2> DEFINE l == cli[p].loaded \union {b}
  <2>a. l \subseteq [name : Name, mix : Mix] /\ 0 \in 0 .. 4
    BY <1>1, <2>2 DEF Process
  <2>b. more = [cli[p] EXCEPT !.read = 0, !.got = Nothing, !.loaded = l]
    OBVIOUS
  <2> HIDE DEF l, more
  <2>4. /\ more \in Process /\ more.pc = "load" /\ more.cmd = cli[p].cmd
        /\ more.rest = cli[p].rest /\ more.loaded = l
    BY <1>1, <2>a, <2>b, IdleType DEF Process
  <2>5. r = CASE rest # <<>> -> [more EXCEPT !.rest = rest]
              [] rest = <<>> /\ cli[p].cmd = "run" -> [more EXCEPT !.pc = "resolve"]
              [] OTHER -> Idle
    BY DEF AfterLoad, b, more
  <2> HIDE DEF r
  <2>6. \A c \in more.loaded : Valid(c.name, c.mix)
    BY <1>3, <2>2, <2>4 DEF BundlesInv, Sound, l
  <2>7. CASE rest # <<>>
    <3>1. r = [more EXCEPT !.rest = rest] /\ cli[p].cmd = "run"
      BY <1>1, <2>5, <2>7 DEF Staged
    <3> HIDE DEF rest
    <3>2. rest \in Seq(Name)
      BY <1>1 DEF rest
    <3>3. /\ r \in Process /\ r.pc = "load" /\ r.cmd = "run" /\ r.rest = rest
          /\ r.loaded = more.loaded
      BY <2>4, <3>1, <3>2 DEF Process
    <3>4. Becomes(p, r)
      BY <1>1, <2>1, <2>6, <2>7, <3>3 DEF Becomes, Staged
    <3> QED
      BY <1>1, <2>3, <3>3, <3>4, OnwardsKept
  <2>8. CASE rest = <<>> /\ cli[p].cmd = "run"
    <3>1. r = [more EXCEPT !.pc = "resolve"]
      BY <2>5, <2>8
    <3>2. /\ r \in Process /\ r.pc = "resolve" /\ r.cmd = "run" /\ r.rest = cli[p].rest
          /\ r.loaded = more.loaded
      BY <2>4, <2>8, <3>1 DEF Process
    <3>3. Becomes(p, r)
      BY <1>1, <2>1, <2>6, <3>2 DEF Becomes, Staged
    <3> QED
      BY <1>1, <2>3, <3>2, <3>3, OnwardsKept
  <2>9. CASE rest = <<>> /\ cli[p].cmd # "run"
    <3>1. r = Idle
      BY <2>5, <2>9
    <3>2. Ends(p)
      BY <2>1, <3>1 DEF Ends
    <3> QED
      BY <1>1, <2>3, <3>2, EndsKept
  <2> QED
    BY <2>7, <2>8, <2>9
<1>4. CASE ~Valid(n, got)
  <2>1. \A m \in Name : Watches(p, m) => m = n /\ (cli[p].cmd = "update" => n \in spoiled)
    BY <1>1, <1>2 DEF BundlesInv, Marked
  <2>2. cli' = [cli EXCEPT ![p] = AfterFailure(p)]
    BY <1>1, <1>4
  <2>3. CASE cli[p].cmd = "add"
    <3> DEFINE r == [Idle EXCEPT !.pc = "remove", !.cmd = "add", !.rest = cli[p].rest]
    <3>1. cli' = [cli EXCEPT ![p] = r]
      BY <2>2, <2>3 DEF AfterFailure
    <3>2. /\ r \in Process /\ r.pc = "remove" /\ r.cmd = "add" /\ r.rest = cli[p].rest
          /\ r.loaded = {}
      BY <1>1, IdleType DEF Idle, Process
    <3> HIDE DEF r
    <3>3. Becomes(p, r)
      BY <1>1, <2>3, <3>1, <3>2 DEF Becomes, Staged
    <3>4. cli'[p] = r
      BY <1>1, <3>1
    <3>5. Watches(p, n)'
      BY <3>2, <3>4 DEF Watches, Working, Busy, At, Target
    <3> QED
      BY <1>1, <2>1, <3>2, <3>3, <3>5, OnwardsKept
  <2>4. CASE cli[p].cmd # "add"
    <3>1. Ends(p)
      BY <2>2, <2>4 DEF AfterFailure, Ends
    <3>2. cli[p].cmd \in {"run", "update"}
      BY <1>1, <2>4 DEF Staged, Process
    <3>3. \A m \in dir \ spoiled : ~Watches(p, m)
      BY <1>1, <1>2, <2>1, <3>2
    <3> QED
      BY <1>1, <3>1, <3>3, EndsKept
  <2> QED
    BY <2>3, <2>4
<1> QED
  BY <1>3, <1>4

LEMMA WritePartInv == ASSUME BundlesInv, NEW p \in Proc, WritePart(p) PROVE BundlesInv'
<1> SUFFICES ASSUME NEW n, n = Target(p) PROVE BundlesInv'
  OBVIOUS
<1>1. /\ Busy(p) /\ cli[p].pc = "write" /\ cli[p] \in Process /\ n \in Name
      /\ cli \in [Proc -> Process] /\ Staged(cli[p]) /\ disk \in [Name -> Mix]
      /\ UNCHANGED <<head, dir, active, mapped, spoiled>> /\ holes' = holes
      /\ dir \subseteq Name
  BY TargetType DEF WritePart, Busy, At, BundlesInv, Types
<1>2. CASE n \notin dir /\ Ends(p) /\ UNCHANGED disk
  <2>1. \A m \in dir \ spoiled : ~Watches(p, m)
    BY <1>1, <1>2 DEF Watches, Working
  <2> QED
    BY <1>1, <1>2, <2>1, EndsKept
<1>3. ASSUME NEW x \in cli[p].todo,
             disk' = [disk EXCEPT ![n][x] = cli[p].want],
             cli' = [cli EXCEPT ![p] = [@ EXCEPT
                      !.todo = cli[p].todo \ {x},
                      !.pc = IF cli[p].todo = {x} THEN "load" ELSE cli[p].pc,
                      !.want = IF cli[p].todo = {x} THEN 0 ELSE cli[p].want]]
      PROVE  BundlesInv'
  <2> DEFINE todo == cli[p].todo \ {x}
             pc == IF cli[p].todo = {x} THEN "load" ELSE "write"
             want == IF cli[p].todo = {x} THEN 0 ELSE cli[p].want
             r == [cli[p] EXCEPT !.todo = todo, !.pc = pc, !.want = want]
  <2>1. cli' = [cli EXCEPT ![p] = r]
    BY <1>1, <1>3
  <2>2. /\ todo \subseteq Part /\ pc \in {"load", "write"} /\ want \in Nat /\ x \in Part
        /\ cli[p].want \in Nat
    BY <1>1 DEF Process
  <2> HIDE DEF todo, pc, want
  <2>3. /\ r \in Process /\ r.pc = pc /\ r.cmd = cli[p].cmd /\ r.rest = cli[p].rest
        /\ r.read = cli[p].read /\ r.loaded = cli[p].loaded
    BY <1>1, <2>2 DEF Process
  <2> HIDE DEF r
  <2>4. cli[p].read = 0 /\ cli[p].cmd # "run" /\ cli[p].cmd # "remove"
    BY <1>1 DEF Staged
  <2>5. Becomes(p, r)
    BY <1>1, <2>1, <2>2, <2>3, <2>4 DEF Becomes, Staged, BundlesInv, Sound
  <2>6. /\ cli' \in [Proc -> Process] /\ (\A q \in Proc : Staged(cli'[q]))
        /\ cli'[p] = r /\ (\A q \in Proc \ {p} : cli'[q] = cli[q])
        /\ Sound'
        /\ \A q \in Proc \ {p}, m \in Name :
             disk'[m] = disk[m] => (Watches(q, m)' <=> Watches(q, m))
    BY <2>5, Others
  <2>7. /\ disk' \in [Name -> Mix] /\ \A m \in Name \ {n} : disk'[m] = disk[m]
    BY <1>1, <1>3, <2>2 DEF Mix
  <2>8. Types'
    BY <1>1, <2>6, <2>7 DEF BundlesInv, Types
  <2>9. Marked'
    BY <1>1, <2>3, <2>6 DEF BundlesInv, Marked, Busy, At, Target
  <2>10. Watches(p, n)'
    <3>1. 1 .. cli'[p].read = {}
      BY <2>3, <2>4, <2>6
    <3> QED
      BY <1>1, <2>2, <2>3, <2>4, <2>6, <3>1 DEF Watches, Working, Busy, At, Target
  <2>11. \A m \in Name \ {n} : ~Watches(p, m)
    BY <1>1 DEF Watches, Working
  <2>12. Watched'
    <3> SUFFICES ASSUME NEW m \in dir \ spoiled
                 PROVE  Valid(m, disk'[m]) \/ \E q \in Proc : Watches(q, m)'
      BY <1>1 DEF Watched
    <3>1. CASE m = n
      BY <2>10, <3>1
    <3>2. CASE m # n
      BY <1>1, <2>6, <2>7, <2>11, <3>2 DEF BundlesInv, Watched
    <3> QED
      BY <3>1, <3>2
  <2> QED
    BY <1>1, <2>6, <2>8, <2>9, <2>12 DEF BundlesInv
<1> QED
  BY <1>2, <1>3 DEF WritePart

(* A bundle that passed Load's checks holds no placeholder but those that  *)
(* its manifest declares.                                                  *)
LEMMA ResolveInv == ASSUME BundlesInv, NEW p \in Proc, Resolve(p) PROVE BundlesInv'
<1> DEFINE loaded == cli[p].loaded
<1>1. /\ Busy(p) /\ cli[p].pc = "resolve" /\ Ends(p)
      /\ UNCHANGED <<head, dir, disk, active, mapped, spoiled>> /\ dir \subseteq Name
  BY DEF Resolve, Busy, At, BundlesInv, Types, hostVars
<1>2. UNION {t.refs : t \in AllTemplates(loaded)} \subseteq AllDeclared(loaded)
  <2> SUFFICES ASSUME NEW t \in AllTemplates(loaded), NEW ref \in t.refs
               PROVE  ref \in AllDeclared(loaded)
    OBVIOUS
  <2>1. PICK b \in loaded : t \in Templates(b.name, b.mix)
    BY DEF AllTemplates
  <2>2. Valid(b.name, b.mix)
    BY DEF BundlesInv, Sound
  <2>3. ref \in Manifest(b.name, b.mix).declares
    BY <2>1, <2>2 DEF Valid, Declared
  <2> QED
    BY <2>3 DEF AllDeclared
<1>3. holes' = holes
  <2>1. (UNION {t.refs : t \in AllTemplates(loaded)}) \ AllDeclared(loaded) = {}
    BY <1>2
  <2>2. \/ holes' = holes
        \/ holes' = holes \union ((UNION {t.refs : t \in AllTemplates(loaded)})
                                    \ AllDeclared(loaded))
    BY DEF Resolve
  <2> QED
    BY <2>1, <2>2
<1>4. \A m \in dir \ spoiled : ~Watches(p, m)
  BY <1>1 DEF Watches
<1> QED
  BY <1>1, <1>3, <1>4, EndsKept

LEMMA RemovePartInv == ASSUME BundlesInv, NEW p \in Proc, RemovePart(p) PROVE BundlesInv'
<1> SUFFICES ASSUME NEW n, n = Target(p) PROVE BundlesInv'
  OBVIOUS
<1>1. /\ Busy(p) /\ cli[p].pc = "remove" /\ n \in Name /\ Staged(cli[p])
      /\ disk \in [Name -> Mix] /\ dir \subseteq Name
      /\ UNCHANGED <<head, dir, active, mapped, cli, spoiled>> /\ holes' = holes
  BY TargetType DEF RemovePart, Busy, At, BundlesInv, Types
<1>2. PICK x \in Part : disk' = [disk EXCEPT ![n][x] = 0]
  BY DEF RemovePart
<1>3. disk' \in [Name -> Mix] /\ \A m \in Name \ {n} : disk'[m] = disk[m]
  BY <1>1, <1>2 DEF Mix
<1>4. Types' /\ Sound' /\ Marked'
  BY <1>1, <1>3 DEF BundlesInv, Types, Sound, Marked, Busy, At, Target
<1>5. Watches(p, n)'
  BY <1>1 DEF Watches, Working, Busy, At, Target, Staged
<1>6. \A q \in Proc, m \in Name \ {n} : Watches(q, m)' <=> Watches(q, m)
  BY <1>1, <1>3 DEF Watches, Working, Busy, At, Target
<1>7. Watched'
  <2> SUFFICES ASSUME NEW m \in dir \ spoiled
               PROVE  Valid(m, disk'[m]) \/ \E q \in Proc : Watches(q, m)'
    BY <1>1 DEF Watched
  <2>1. CASE m = n
    BY <1>5, <2>1
  <2>2. CASE m # n
    BY <1>1, <1>3, <1>6, <2>2 DEF BundlesInv, Watched
  <2> QED
    BY <2>1, <2>2
<1> QED
  BY <1>1, <1>4, <1>7 DEF BundlesInv

(* What ends a command that was watching: the directory is gone, or marked. *)
LEMMA LeavesKept ==
  ASSUME BundlesInv, NEW p \in Proc, Busy(p), Ends(p), NEW n, n = Target(p),
         UNCHANGED <<head, disk, active, mapped>>, holes' = holes,
         dir' \subseteq dir, dir' \ spoiled' \subseteq dir \ spoiled,
         n \in dir' => n \in spoiled' \/ cli[p].cmd = "run",
         \A m \in spoiled \ spoiled' : m = n /\ ~Updating(n)
  PROVE  BundlesInv'
<1>1. Becomes(p, Idle) /\ Idle.pc = "idle"
  BY IdleType DEF Ends, Becomes, Idle
<1>2. /\ cli' \in [Proc -> Process] /\ (\A q \in Proc : Staged(cli'[q]))
      /\ cli'[p] = Idle /\ (\A q \in Proc \ {p} : cli'[q] = cli[q])
      /\ Sound'
      /\ \A q \in Proc \ {p}, m \in Name :
           disk'[m] = disk[m] => (Watches(q, m)' <=> Watches(q, m))
  BY <1>1, Others
<1>3. Types'
  BY <1>2 DEF BundlesInv, Types
<1>4. Marked'
  <2> SUFFICES ASSUME NEW q \in Proc, Busy(q)', cli'[q].cmd = "update"
               PROVE  Target(q)' \in spoiled'
    BY DEF Marked
  <2>1. q # p /\ cli'[q] = cli[q] /\ Busy(q) /\ cli[q].cmd = "update"
    BY <1>1, <1>2 DEF Busy, At
  <2>2. Target(q)' = Target(q) /\ Target(q) \in spoiled
    BY <2>1 DEF Target, BundlesInv, Marked
  <2>3. Target(q) = n => Updating(n)
    BY <2>1 DEF Updating, Working
  <2> QED
    BY <2>2, <2>3
<1>5. Watched'
  <2> SUFFICES ASSUME NEW m \in dir' \ spoiled'
               PROVE  Valid(m, disk'[m]) \/ \E q \in Proc : Watches(q, m)'
    BY DEF Watched
  <2>1. m \in dir \ spoiled /\ m \in Name
    BY DEF BundlesInv, Types
  <2>2. ~Watches(p, m)
    BY <2>1 DEF Watches, Working
  <2> QED
    BY <1>2, <2>1, <2>2 DEF BundlesInv, Watched
<1> QED
  BY <1>2, <1>3, <1>4, <1>5 DEF BundlesInv

LEMMA RemoveDirInv == ASSUME BundlesInv, NEW p \in Proc, RemoveDir(p) PROVE BundlesInv'
<1> SUFFICES ASSUME NEW n, n = Target(p) PROVE BundlesInv'
  OBVIOUS
<1>1. /\ Busy(p) /\ Ends(p) /\ UNCHANGED <<head, disk, active, mapped>> /\ holes' = holes
      /\ dir' = dir \ {n}
      /\ spoiled' = IF Updating(n) THEN spoiled ELSE spoiled \ {n}
  BY DEF RemoveDir, Busy, At
<1>2. dir' \subseteq dir /\ n \notin dir' /\ dir' \ spoiled' \subseteq dir \ spoiled
  BY <1>1
<1>3. \A m \in spoiled \ spoiled' : m = n /\ ~Updating(n)
  BY <1>1
<1> QED
  BY <1>1, <1>2, <1>3, LeavesKept

LEMMA InterruptInv == ASSUME BundlesInv, NEW p \in Proc, Interrupt(p) PROVE BundlesInv'
<1> SUFFICES ASSUME NEW n, n = Target(p) PROVE BundlesInv'
  OBVIOUS
<1>1. /\ Busy(p) /\ Ends(p) /\ UNCHANGED <<head, dir, disk, active, mapped>> /\ holes' = holes
      /\ spoiled' = spoiled \union (IF cli[p].cmd = "run" THEN {} ELSE {n})
  BY DEF Interrupt, hostVars
<1>2. /\ spoiled \subseteq spoiled' /\ dir' \ spoiled' \subseteq dir \ spoiled
      /\ (n \in spoiled' \/ cli[p].cmd = "run")
  BY <1>1
<1> QED
  BY <1>1, <1>2, LeavesKept

-----------------------------------------------------------------------------
(* The theorems                                                            *)

LEMMA StepInv == ASSUME BundlesInv, [Next]_vars PROVE BundlesInv'
<1>1. CASE EditHost \/ (\E n \in Name : Publish(n)) \/ UNCHANGED vars
  BY <1>1, HostSteps
<1>2. ASSUME NEW p \in Proc,
             BeginRun(p) \/ \E n \in Name : BeginAdd(p, n) \/ BeginUpdate(p, n) \/ BeginRemove(p, n)
      PROVE  BundlesInv'
  BY <1>2, BeginInv
<1>3. ASSUME NEW p \in Proc, Step(p) PROVE BundlesInv'
  BY <1>3, CloneInv, WritePartInv, ReadPartInv, FinishLoadInv, ResolveInv,
     RemovePartInv, RemoveDirInv DEF Step
<1>4. ASSUME NEW p \in Proc, Interrupt(p) PROVE BundlesInv'
  BY <1>4, InterruptInv
<1> QED
  BY <1>1, <1>2, <1>3, <1>4 DEF Next

(* Every reachable state satisfies the inductive invariant: the types, that *)
(* whatever a process has loaded passed the checks of Load, that a running  *)
(* update has marked its directory, and that a directory whose bundle does  *)
(* not load is one that an update or an interruption went through or that   *)
(* some command is going to notice.                                         *)
THEOREM Invariance == Spec => []BundlesInv
<1>1. Init => BundlesInv
  BY InitInv
<1>2. BundlesInv /\ [Next]_vars => BundlesInv'
  BY StepInv
<1> QED
  BY <1>1, <1>2, PTL DEF Spec

(* Load, ResolveSecrets and RenderTemplates: for any profiles and editions  *)
(* and any number of processes, no template goes into a guest with a        *)
(* placeholder replaced by nothing.                                         *)
THEOREM TemplatesComplete == Spec => []RenderedComplete
<1>1. BundlesInv => RenderedComplete
  BY DEF BundlesInv, RenderedComplete
<1> QED
  BY <1>1, Invariance, PTL

(* newProfileAddCmd: a broken bundle does not linger, for any number of     *)
(* adds, updates and removals that race: a directory that no update and no  *)
(* interruption has been through loads, or some command is at work on it.   *)
THEOREM NothingBrokenLingers == Spec => []NoBrokenBundle
<1>1. BundlesInv => NoBrokenBundle
  BY DEF BundlesInv, Watched, Watches, NoBrokenBundle
<1> QED
  BY <1>1, Invariance, PTL

=============================================================================
