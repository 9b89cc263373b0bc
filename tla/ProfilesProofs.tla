---------------------------- MODULE ProfilesProofs ----------------------------
(***************************************************************************)
(* Theorems about Profiles, for any processes, profiles, paths and plans,  *)
(* edits, faults and interruptions: what the home holds after a command    *)
(* that nobody disturbed, what it never touches, and where hooks may fail; *)
(* and about Embed, how a boot gets a profile's file with its own bytes,   *)
(* for files of any length.                                                *)
(***************************************************************************)
EXTENDS Profiles, Embed, WellFoundedInduction, SequenceTheorems, TLAPS

-----------------------------------------------------------------------------
(* Types that TLC cannot enumerate                                          *)

Lists == UNION {[I -> Name] : I \in SUBSET Nat}
Env == [files : Lists, hooks : Lists, shell : Nat]
Tree == [env : Env, file : [Name -> [Rel -> Nat]], list : [Name -> SUBSET Rel],
         hook : [Name -> BOOLEAN]]
Run == [pc : RunPc, names : Lists, rels : SUBSET Rel, hooks : Lists,
        now : Name \union {Boot}, shell : Nat, failed : BOOLEAN, ran : SUBSET Name]
Stored == [plan : Plans, left : SUBSET UNION {GuestFiles(plan) : plan \in Plans}]

-----------------------------------------------------------------------------
(* Plans                                                                    *)

LEMMA PlanTypes ==
  ASSUME NEW plan \in Plans
  PROVE  /\ Len(plan) \in Nat /\ DOMAIN plan = 1 .. Len(plan)
         /\ \A i \in DOMAIN plan :
              /\ i \in Nat /\ plan[i] \in Bundle
              /\ plan[i].name \in Name /\ plan[i].edition \in Nat \ {0}
              /\ plan[i].files \subseteq Rel /\ plan[i].templates \subseteq Rel
              /\ plan[i].hook \in BOOLEAN /\ plan[i].shell \in Nat
         /\ \A i, j \in DOMAIN plan : plan[i].name = plan[j].name => i = j
<1>1. plan \in Seq(Bundle)
  BY ProfilesAssumption
<1>2. Len(plan) \in Nat /\ DOMAIN plan = 1 .. Len(plan)
  BY <1>1
<1>3. \A i \in DOMAIN plan : i \in Nat /\ plan[i] \in Bundle
  BY <1>1, <1>2
<1>4. \A b \in Bundle : /\ b.name \in Name /\ b.edition \in Nat \ {0}
                        /\ b.files \subseteq Rel /\ b.templates \subseteq Rel
                        /\ b.hook \in BOOLEAN /\ b.shell \in Nat
  BY DEF Bundle
<1>5. \A i, j \in DOMAIN plan : plan[i].name = plan[j].name => i = j
  BY ProfilesAssumption
<1> QED
  BY <1>2, <1>3, <1>4, <1>5

(* A set of numbers has a least one, and a set of places a greatest.        *)
LEMMA Least ==
  ASSUME NEW T, T \subseteq Nat, T # {}
  PROVE  \E x \in T : \A y \in T : x <= y
<1>1. IsWellFoundedOn(OpToRel(<, Nat), Nat)
  BY NatLessThanWellFounded
<1>2. PICK x \in T : \A y \in T : <<y, x>> \notin OpToRel(<, Nat)
  BY <1>1, WFMin
<1>3. \A y \in T : ~(y < x)
  BY <1>2 DEF OpToRel
<1> QED
  BY <1>3

LEMMA Greatest ==
  ASSUME NEW plan \in Plans, NEW I, I \subseteq DOMAIN plan, I # {}
  PROVE  \E i \in I : \A j \in I : j <= i
<1> DEFINE T == {Len(plan) - i : i \in I}
<1>1. \A i \in I : i \in Nat /\ i <= Len(plan) /\ Len(plan) \in Nat
  BY PlanTypes
<1>2. T \subseteq Nat /\ T # {}
  BY <1>1
<1>3. PICK x \in T : \A y \in T : x <= y
  <2> HIDE DEF T
  <2> QED
    BY <1>2, Least
<1>4. PICK i \in I : x = Len(plan) - i
  BY <1>3
<1>5. ASSUME NEW j \in I PROVE j <= i
  <2>1. Len(plan) - i <= Len(plan) - j
    BY <1>3, <1>4
  <2> QED
    BY <1>1, <2>1
<1> QED
  BY <1>5

LEMMA LastIs ==
  ASSUME NEW plan \in Plans, NEW I, I \subseteq DOMAIN plan,
         NEW i \in I, \A j \in I : j <= i
  PROVE  LastOf(plan, I) = plan[i]
<1> DEFINE k == CHOOSE k \in I : \A j \in I : j <= k
<1>1. k \in I /\ \A j \in I : j <= k
  OBVIOUS
<1>2. k \in Nat /\ i \in Nat /\ i <= k /\ k <= i
  BY <1>1, PlanTypes
<1>3. k = i
  <2> HIDE DEF k
  <2> QED
    BY <1>2
<1> QED
  BY <1>3 DEF LastOf

LEMMA LastIsOne ==
  ASSUME NEW plan \in Plans, NEW I, I \subseteq DOMAIN plan, I # {}
  PROVE  \E i \in I : LastOf(plan, I) = plan[i]
<1>1. PICK i \in I : \A j \in I : j <= i
  BY Greatest
<1> QED
  BY <1>1, LastIs

-----------------------------------------------------------------------------
(* Lists, manifests and trees                                               *)

LEMMA ListTypes ==
  /\ \A l \in Lists : DOMAIN l \subseteq Nat /\ \A i \in DOMAIN l : l[i] \in Name
  /\ \A l \in Lists : \A i \in DOMAIN l : Without(l, i) \in Lists
  /\ Nobody \in Lists /\ DOMAIN Nobody = {}
<1>1. ASSUME NEW l \in Lists
      PROVE  DOMAIN l \subseteq Nat /\ \A i \in DOMAIN l : l[i] \in Name
  <2>1. PICK I \in SUBSET Nat : l \in [I -> Name]
    BY DEF Lists
  <2> QED
    BY <2>1
<1>2. ASSUME NEW l \in Lists, NEW i \in DOMAIN l PROVE Without(l, i) \in Lists
  <2> DEFINE I == DOMAIN l \ {i}
  <2>1. I \in SUBSET Nat /\ \A j \in I : l[j] \in Name
    BY <1>1
  <2>2. [j \in I |-> l[j]] \in [I -> Name]
    BY <2>1
  <2> QED
    BY <2>1, <2>2 DEF Lists, Without
<1>3. Nobody \in [{} -> Name] /\ DOMAIN Nobody = {}
  BY DEF Nobody
<1>4. Nobody \in Lists
  BY <1>3 DEF Lists
<1> QED
  BY <1>1, <1>2, <1>3, <1>4

LEMMA ListedTypes ==
  ASSUME NEW plan \in Plans, NEW I, I \subseteq DOMAIN plan
  PROVE  /\ Listed(plan, I) \in Lists /\ DOMAIN Listed(plan, I) = I
         /\ \A i \in I : Listed(plan, I)[i] = plan[i].name
<1>1. I \in SUBSET Nat /\ \A i \in I : plan[i].name \in Name
  BY PlanTypes
<1>2. [i \in I |-> plan[i].name] \in [I -> Name]
  BY <1>1
<1> QED
  BY <1>1, <1>2 DEF Lists, Listed

LEMMA EnvTypes ==
  ASSUME NEW plan \in Plans
  PROVE  /\ ManifestEnv(plan) \in Env
         /\ ManifestEnv(plan).files = Listed(plan, {i \in DOMAIN plan : plan[i].files # {}})
         /\ ManifestEnv(plan).hooks = Listed(plan, {i \in DOMAIN plan : plan[i].hook})
<1> DEFINE shells == {i \in DOMAIN plan : plan[i].shell # 0}
           sh == IF shells = {} THEN 0 ELSE LastOf(plan, shells).shell
           F == Listed(plan, {i \in DOMAIN plan : plan[i].files # {}})
           H == Listed(plan, {i \in DOMAIN plan : plan[i].hook})
<1>1. sh \in Nat
  <2>1. CASE shells = {}
    BY <2>1
  <2>2. CASE shells # {}
    <3>1. \E i \in shells : LastOf(plan, shells) = plan[i]
      BY <2>2, LastIsOne
    <3> QED
      BY <2>2, <3>1, PlanTypes
  <2> QED
    BY <2>1, <2>2
<1>2. F \in Lists /\ H \in Lists
  BY ListedTypes
<1>3. ManifestEnv(plan) = [files |-> F, hooks |-> H, shell |-> sh]
  BY DEF ManifestEnv
<1> HIDE DEF F, H, sh
<1>4. ManifestEnv(plan) \in Env /\ ManifestEnv(plan).files = F /\ ManifestEnv(plan).hooks = H
  BY <1>1, <1>2, <1>3 DEF Env
<1> QED
  BY <1>4 DEF F, H

LEMMA EmptyTreeTypes == EmptyTree \in Tree
<1>1. NoManifest \in Env
  BY ListTypes DEF NoManifest, Env
<1> QED
  BY <1>1 DEF EmptyTree, Tree

-----------------------------------------------------------------------------
(* The guest files of a plan and their delivery                             *)

LEMMA FileKinds ==
  ASSUME NEW plan \in Plans, NEW f \in GuestFiles(plan)
  PROVE  \/ f.kind = "manifest" /\ f.env = ManifestEnv(plan)
         \/ f.kind = "file" /\ \E i \in DOMAIN plan : \E r \in plan[i].files :
              f.name = plan[i].name /\ f.rel = r /\ f.edition = plan[i].edition
         \/ f.kind = "list" /\ \E i \in DOMAIN plan :
              f.name = plan[i].name /\ f.rels = plan[i].files
         \/ f.kind = "hook" /\ \E i \in DOMAIN plan : f.name = plan[i].name
<1> DEFINE M == {[place |-> 0, kind |-> "manifest", env |-> ManifestEnv(plan)]}
           F == UNION {{[place |-> 3 * i, kind |-> "file", name |-> plan[i].name,
                         rel |-> r, edition |-> plan[i].edition] : r \in plan[i].files}
                       : i \in DOMAIN plan}
           L == {[place |-> 3 * i + 1, kind |-> "list", name |-> plan[i].name,
                  rels |-> plan[i].files] : i \in {k \in DOMAIN plan : plan[k].files # {}}}
           H == {[place |-> 3 * i + 2, kind |-> "hook", name |-> plan[i].name]
                : i \in {k \in DOMAIN plan : plan[k].hook}}
<1>1. f \in M \/ f \in F \/ f \in L \/ f \in H
  <2>1. GuestFiles(plan) = ((M \union F) \union L) \union H
    BY DEF GuestFiles
  <2> HIDE DEF M, F, L, H
  <2> QED
    BY <2>1
<1>2. ASSUME f \in M PROVE f.kind = "manifest" /\ f.env = ManifestEnv(plan)
  BY <1>2
<1>3. ASSUME f \in F
      PROVE  f.kind = "file" /\ \E i \in DOMAIN plan : \E r \in plan[i].files :
               f.name = plan[i].name /\ f.rel = r /\ f.edition = plan[i].edition
  <2>1. PICK i \in DOMAIN plan : \E r \in plan[i].files :
          f = [place |-> 3 * i, kind |-> "file", name |-> plan[i].name,
               rel |-> r, edition |-> plan[i].edition]
    BY <1>3
  <2> QED
    BY <2>1
<1>4. ASSUME f \in L
      PROVE  f.kind = "list" /\ \E i \in DOMAIN plan :
               f.name = plan[i].name /\ f.rels = plan[i].files
  BY <1>4
<1>5. ASSUME f \in H
      PROVE  f.kind = "hook" /\ \E i \in DOMAIN plan : f.name = plan[i].name
  <2>1. PICK i \in {k \in DOMAIN plan : plan[k].hook} :
          f = [place |-> 3 * i + 2, kind |-> "hook", name |-> plan[i].name]
    BY <1>5
  <2> QED
    BY <2>1
<1> HIDE DEF M, F, L, H
<1> QED
  BY <1>1, <1>2, <1>3, <1>4, <1>5

Has(t, f) ==
  CASE f.kind = "manifest" -> t.env = f.env
    [] f.kind = "file" -> t.file[f.name][f.rel] = f.edition
    [] f.kind = "list" -> t.list[f.name] = f.rels
    [] f.kind = "hook" -> t.hook[f.name]

(* Delivering a file leaves those of the same plan that are there.          *)
LEMMA PutKeeps ==
  ASSUME NEW plan \in Plans, NEW t \in Tree, NEW f \in GuestFiles(plan)
  PROVE  /\ Put(t, f) \in Tree /\ Has(Put(t, f), f)
         /\ \A g \in GuestFiles(plan) : Has(t, g) => Has(Put(t, f), g)
<1> USE PlanTypes, EnvTypes
<1>0. /\ t.env \in Env /\ t.file \in [Name -> [Rel -> Nat]]
      /\ t.list \in [Name -> SUBSET Rel] /\ t.hook \in [Name -> BOOLEAN]
  BY DEF Tree
<1>1. CASE f.kind = "manifest" /\ f.env = ManifestEnv(plan)
  <2>1. Put(t, f) = [t EXCEPT !.env = f.env]
    BY <1>1 DEF Put
  <2>2. /\ Put(t, f) \in Tree /\ Put(t, f).env = f.env
        /\ Put(t, f).file = t.file /\ Put(t, f).list = t.list /\ Put(t, f).hook = t.hook
    <3>1. f.env \in Env
      BY <1>1
    <3> HIDE EnvTypes, PlanTypes
    <3> QED
      BY <2>1, <3>1 DEF Tree
  <2>3. ASSUME NEW g \in GuestFiles(plan), Has(t, g) PROVE Has(Put(t, f), g)
    <3>1. g.kind = "manifest" => g.env = f.env
      BY <1>1, FileKinds
    <3>2. g.kind \in {"manifest", "file", "list", "hook"}
      BY FileKinds
    <3> QED
      BY <2>2, <2>3, <3>1, <3>2 DEF Has
  <2> QED
    BY <1>1, <2>2, <2>3 DEF Has
<1>2. ASSUME NEW i \in DOMAIN plan, NEW r \in plan[i].files, f.kind = "file",
             f.name = plan[i].name, f.rel = r, f.edition = plan[i].edition
      PROVE  /\ Put(t, f) \in Tree /\ Has(Put(t, f), f)
             /\ \A g \in GuestFiles(plan) : Has(t, g) => Has(Put(t, f), g)
  <2>0. f.name \in Name /\ f.rel \in Rel /\ f.edition \in Nat
    BY <1>2
  <2>1. Put(t, f) = [t EXCEPT !.file[f.name][f.rel] = f.edition]
    BY <1>2 DEF Put
  <2> DEFINE file == [t.file EXCEPT ![f.name] = [@ EXCEPT ![f.rel] = f.edition]]
  <2>2. file \in [Name -> [Rel -> Nat]]
    BY <1>0, <2>0
  <2>3. /\ file[f.name][f.rel] = f.edition
        /\ \A n \in Name, s \in Rel :
             n # f.name \/ s # f.rel => file[n][s] = t.file[n][s]
    BY <1>0, <2>0
  <2>4. Put(t, f) = [t EXCEPT !.file = file]
    BY <1>0, <2>0, <2>1
  <2> HIDE DEF file
  <2>5. /\ Put(t, f) \in Tree /\ Put(t, f).env = t.env
        /\ Put(t, f).file = file /\ Put(t, f).list = t.list /\ Put(t, f).hook = t.hook
    BY <2>2, <2>4 DEF Tree
  <2>6. ASSUME NEW g \in GuestFiles(plan), Has(t, g) PROVE Has(Put(t, f), g)
    <3>1. CASE g.kind = "file"
      <4>1. PICK j \in DOMAIN plan : /\ g.name = plan[j].name /\ g.rel \in plan[j].files
                                     /\ g.edition = plan[j].edition
        BY <3>1, FileKinds
      <4>2. g.name = f.name => g.edition = f.edition
        BY <1>2, <4>1
      <4>3. g.name \in Name /\ g.rel \in Rel /\ t.file[g.name][g.rel] = g.edition
        BY <2>6, <3>1, <4>1 DEF Has
      <4>4. file[g.name][g.rel] = g.edition
        BY <2>3, <4>2, <4>3
      <4> QED
        BY <2>5, <3>1, <4>4 DEF Has
    <3>2. CASE g.kind # "file"
      <4>1. g.kind \in {"manifest", "list", "hook"}
        BY <3>2, FileKinds
      <4> QED
        BY <2>5, <2>6, <4>1 DEF Has
    <3> QED
      BY <3>1, <3>2
  <2>7. Has(Put(t, f), f)
    BY <1>2, <2>3, <2>5 DEF Has
  <2> QED
    BY <2>5, <2>6, <2>7
<1>3. ASSUME NEW i \in DOMAIN plan, f.kind = "list",
             f.name = plan[i].name, f.rels = plan[i].files
      PROVE  /\ Put(t, f) \in Tree /\ Has(Put(t, f), f)
             /\ \A g \in GuestFiles(plan) : Has(t, g) => Has(Put(t, f), g)
  <2>0. f.name \in Name /\ f.rels \in SUBSET Rel
    BY <1>3
  <2> DEFINE list == [t.list EXCEPT ![f.name] = f.rels]
  <2>1. Put(t, f) = [t EXCEPT !.list = list]
    BY <1>3 DEF Put
  <2>2. list \in [Name -> SUBSET Rel]
    BY <1>0, <2>0
  <2>3. list[f.name] = f.rels /\ \A n \in Name : n # f.name => list[n] = t.list[n]
    BY <1>0, <2>0
  <2> HIDE DEF list
  <2>4. /\ Put(t, f) \in Tree /\ Put(t, f).env = t.env
        /\ Put(t, f).file = t.file /\ Put(t, f).list = list /\ Put(t, f).hook = t.hook
    BY <2>1, <2>2 DEF Tree
  <2>5. ASSUME NEW g \in GuestFiles(plan), Has(t, g) PROVE Has(Put(t, f), g)
    <3>1. CASE g.kind = "list"
      <4>1. PICK j \in DOMAIN plan : g.name = plan[j].name /\ g.rels = plan[j].files
        BY <3>1, FileKinds
      <4>2. g.name \in Name /\ (g.name = f.name => g.rels = f.rels)
        BY <1>3, <4>1
      <4>3. list[g.name] = g.rels
        BY <2>3, <2>5, <3>1, <4>2 DEF Has
      <4> QED
        BY <2>4, <3>1, <4>3 DEF Has
    <3>2. CASE g.kind # "list"
      <4>1. g.kind \in {"manifest", "file", "hook"}
        BY <3>2, FileKinds
      <4> QED
        BY <2>4, <2>5, <4>1 DEF Has
    <3> QED
      BY <3>1, <3>2
  <2>6. Has(Put(t, f), f)
    BY <1>3, <2>3, <2>4 DEF Has
  <2> QED
    BY <2>4, <2>5, <2>6
<1>4. ASSUME NEW i \in DOMAIN plan, f.kind = "hook", f.name = plan[i].name
      PROVE  /\ Put(t, f) \in Tree /\ Has(Put(t, f), f)
             /\ \A g \in GuestFiles(plan) : Has(t, g) => Has(Put(t, f), g)
  <2>0. f.name \in Name
    BY <1>4
  <2> DEFINE hook == [t.hook EXCEPT ![f.name] = TRUE]
  <2>1. Put(t, f) = [t EXCEPT !.hook = hook]
    BY <1>4 DEF Put
  <2>2. hook \in [Name -> BOOLEAN]
    BY <1>0, <2>0
  <2>3. hook[f.name] /\ \A n \in Name : t.hook[n] => hook[n]
    BY <1>0, <2>0
  <2> HIDE DEF hook
  <2>4. /\ Put(t, f) \in Tree /\ Put(t, f).env = t.env
        /\ Put(t, f).file = t.file /\ Put(t, f).list = t.list /\ Put(t, f).hook = hook
    BY <2>1, <2>2 DEF Tree
  <2>5. ASSUME NEW g \in GuestFiles(plan), Has(t, g) PROVE Has(Put(t, f), g)
    <3>1. CASE g.kind = "hook"
      <4>1. g.name \in Name
        BY <3>1, FileKinds
      <4>2. hook[g.name]
        BY <2>3, <2>5, <3>1, <4>1 DEF Has
      <4> QED
        BY <2>4, <3>1, <4>2 DEF Has
    <3>2. CASE g.kind # "hook"
      <4>1. g.kind \in {"manifest", "file", "list"}
        BY <3>2, FileKinds
      <4> QED
        BY <2>4, <2>5, <4>1 DEF Has
    <3> QED
      BY <3>1, <3>2
  <2>6. Has(Put(t, f), f)
    BY <1>4, <2>3, <2>4 DEF Has
  <2> QED
    BY <2>4, <2>5, <2>6
<1> QED
  BY <1>1, <1>2, <1>3, <1>4, FileKinds

(* What a tree has when all of them are delivered.                          *)
LEMMA AllDelivered ==
  ASSUME NEW plan \in Plans, NEW t, \A f \in GuestFiles(plan) : Has(t, f)
  PROVE  /\ t.env = ManifestEnv(plan)
         /\ \A i \in DOMAIN plan :
              /\ plan[i].files # {} => t.list[plan[i].name] = plan[i].files
              /\ \A r \in plan[i].files : t.file[plan[i].name][r] = plan[i].edition
<1> DEFINE M == {[place |-> 0, kind |-> "manifest", env |-> ManifestEnv(plan)]}
           F == UNION {{[place |-> 3 * i, kind |-> "file", name |-> plan[i].name,
                         rel |-> r, edition |-> plan[i].edition] : r \in plan[i].files}
                       : i \in DOMAIN plan}
           L == {[place |-> 3 * i + 1, kind |-> "list", name |-> plan[i].name,
                  rels |-> plan[i].files] : i \in {k \in DOMAIN plan : plan[k].files # {}}}
           H == {[place |-> 3 * i + 2, kind |-> "hook", name |-> plan[i].name]
                : i \in {k \in DOMAIN plan : plan[k].hook}}
<1>1. M \subseteq GuestFiles(plan) /\ F \subseteq GuestFiles(plan)
      /\ L \subseteq GuestFiles(plan)
  <2>1. GuestFiles(plan) = ((M \union F) \union L) \union H
    BY DEF GuestFiles
  <2> HIDE DEF M, F, L, H
  <2> QED
    BY <2>1
<1>2. t.env = ManifestEnv(plan)
  <2> DEFINE f == [place |-> 0, kind |-> "manifest", env |-> ManifestEnv(plan)]
  <2>1. f \in M
    OBVIOUS
  <2>2. Has(t, f) /\ f.kind = "manifest" /\ f.env = ManifestEnv(plan)
    BY <1>1, <2>1
  <2> HIDE DEF f
  <2> QED
    BY <2>2 DEF Has
<1>3. ASSUME NEW i \in DOMAIN plan, plan[i].files # {}
      PROVE  t.list[plan[i].name] = plan[i].files
  <2> DEFINE f == [place |-> 3 * i + 1, kind |-> "list", name |-> plan[i].name,
                   rels |-> plan[i].files]
  <2>1. f \in L
    BY <1>3
  <2>2. Has(t, f) /\ f.kind = "list" /\ f.name = plan[i].name /\ f.rels = plan[i].files
    BY <1>1, <2>1
  <2> HIDE DEF f
  <2> QED
    BY <2>2 DEF Has
<1>4. ASSUME NEW i \in DOMAIN plan, NEW r \in plan[i].files
      PROVE  t.file[plan[i].name][r] = plan[i].edition
  <2> DEFINE f == [place |-> 3 * i, kind |-> "file", name |-> plan[i].name,
                   rel |-> r, edition |-> plan[i].edition]
  <2>1. f \in F
    OBVIOUS
  <2>2. /\ Has(t, f) /\ f.kind = "file" /\ f.name = plan[i].name /\ f.rel = r
        /\ f.edition = plan[i].edition
    BY <1>1, <2>1
  <2> HIDE DEF f
  <2> QED
    BY <2>2 DEF Has
<1> QED
  BY <1>2, <1>3, <1>4

-----------------------------------------------------------------------------
(* What the home may hold                                                   *)

LEMMA ContentTypes ==
  /\ None \in Content /\ Edited \in Content /\ HookWrote \in Content
  /\ Blank \in [Rel -> Content]
  /\ \A n \in Name, e \in Nat \ {0} : /\ <<"file", n, e>> \in Content
                                      /\ <<"template", n, e>> \in Content
<1>1. None \in Content /\ Edited \in Content /\ HookWrote \in Content
  BY DEF Content
<1>2. Blank \in [Rel -> Content]
  BY <1>1 DEF Blank
<1>3. ASSUME NEW n \in Name, NEW e \in Nat \ {0}
      PROVE  <<"file", n, e>> \in Content /\ <<"template", n, e>> \in Content
  <2>1. /\ <<"file", n, e>> \in {"file", "template"} \X Name \X (Nat \ {0})
        /\ <<"template", n, e>> \in {"file", "template"} \X Name \X (Nat \ {0})
    OBVIOUS
  <2> QED
    BY <2>1 DEF Content
<1> QED
  BY <1>1, <1>2, <1>3

\* The home as far as the runs answer for it: a path that a hook wrote to may
\* hold anything.
Held(h, k) == [r \in Rel |-> IF r \in k THEN Content ELSE {h[r]}]

LEMMA HeldIs ==
  ASSUME NEW h \in [Rel -> Content], NEW k
  PROVE  /\ Held(h, k) \in [Rel -> SUBSET Content]
         /\ \A r \in Rel : /\ h[r] \in Held(h, k)[r]
                           /\ r \in k => Held(h, k)[r] = Content
                           /\ r \notin k => Held(h, k)[r] = {h[r]}
  BY DEF Held

\* A hook's writes make nothing of what is held untrue.
LEMMA HeldMore ==
  ASSUME NEW h \in [Rel -> Content], NEW k, NEW w,
         NEW g, g = [r \in Rel |-> IF r \in w THEN HookWrote ELSE h[r]]
  PROVE  /\ g \in [Rel -> Content]
         /\ \A r \in Rel : Held(h, k)[r] \subseteq Held(g, k \union w)[r]
  BY ContentTypes DEF Held

LEMMA TemplateTypes ==
  ASSUME NEW plan \in Plans
  PROVE  /\ Templates(plan) \subseteq Rel
         /\ \A r \in Templates(plan) : Rendered(plan, r) \in Content
         /\ \A r \in Templates(plan) : Ships(plan, r)
<1>1. Templates(plan) \subseteq Rel
  BY PlanTypes DEF Templates
<1>2. ASSUME NEW r \in Templates(plan) PROVE Rendered(plan, r) \in Content
  <2> DEFINE I == {i \in DOMAIN plan : r \in plan[i].templates}
  <2>1. I \subseteq DOMAIN plan /\ I # {}
    BY DEF Templates
  <2>2. PICK i \in I : LastOf(plan, I) = plan[i]
    <3> HIDE DEF I
    <3> QED
      BY <2>1, LastIsOne
  <2>3. plan[i].name \in Name /\ plan[i].edition \in Nat \ {0}
    BY <2>2, PlanTypes
  <2>4. Rendered(plan, r) = <<"template", plan[i].name, plan[i].edition>>
    BY <2>2 DEF Rendered, TemplateOf
  <2> QED
    BY <2>3, <2>4, ContentTypes
<1>3. ASSUME NEW r \in Templates(plan) PROVE Ships(plan, r)
  BY DEF Templates, Ships
<1> QED
  BY <1>1, <1>2, <1>3

LEMMA FilesAreNotTemplates ==
  ASSUME NEW plan \in Plans, LoadAll(plan), NEW i \in DOMAIN plan, NEW r \in plan[i].files
  PROVE  r \in Rel /\ r \notin Templates(plan) /\ Ships(plan, r)
<1>1. r \in Rel
  BY PlanTypes
<1>2. r \notin Templates(plan)
  BY DEF LoadAll, Templates
<1> QED
  BY <1>1, <1>2 DEF Ships

(* When files and templates are both there, the home is as declared.        *)
LEMMA DeclaredIs ==
  ASSUME NEW plan \in Plans, LoadAll(plan), NEW r \in Rel, Ships(plan, r)
  PROVE  \/ r \in Templates(plan) /\ Declared(plan, r) = Rendered(plan, r)
         \/ \E i \in DOMAIN plan :
              /\ r \in plan[i].files /\ Declared(plan, r) = FileOf(plan[i])
              /\ \A j \in DOMAIN plan : r \in plan[j].files => j <= i
<1> DEFINE I == {i \in DOMAIN plan : r \in plan[i].files \union plan[i].templates}
           T == {i \in DOMAIN plan : r \in plan[i].templates}
<1>1. I \subseteq DOMAIN plan /\ I # {}
  BY DEF Ships
<1>2. PICK i \in I : \A j \in I : j <= i
  <2> HIDE DEF I
  <2> QED
    BY <1>1, Greatest
<1>3. LastOf(plan, I) = plan[i]
  <2> HIDE DEF I
  <2> QED
    BY <1>1, <1>2, LastIs
<1>4. i \in DOMAIN plan /\ r \in plan[i].files \union plan[i].templates
  BY <1>2
<1>5. CASE r \in plan[i].files
  <2>1. Declared(plan, r) = FileOf(plan[i])
    BY <1>3, <1>5 DEF Declared
  <2>2. \A j \in DOMAIN plan : r \in plan[j].files => j <= i
    BY <1>2
  <2> QED
    BY <1>4, <1>5, <2>1, <2>2
<1>6. CASE r \notin plan[i].files
  <2>1. r \in plan[i].templates
    BY <1>4, <1>6
  <2>2. Declared(plan, r) = TemplateOf(plan[i])
    BY <1>3, <1>6 DEF Declared
  <2>3. T \subseteq DOMAIN plan /\ i \in T /\ \A j \in T : j <= i
    BY <1>2, <1>4, <2>1
  <2>4. LastOf(plan, T) = plan[i]
    <3> HIDE DEF T
    <3> QED
      BY <2>3, LastIs
  <2> QED
    BY <1>4, <2>1, <2>2, <2>4 DEF Rendered, Templates
<1> QED
  BY <1>5, <1>6

-----------------------------------------------------------------------------
(* The inductive invariant                                                  *)

Typed ==
  /\ host \in Plans /\ vm \in {"off", "data", "boot", "up", "failed"}
  /\ boot \in Stored /\ boot.left \subseteq GuestFiles(boot.plan)
  /\ tree \in Tree /\ cli \in [Proc -> Process] /\ run \in [Runner -> Run]
  /\ \A q \in Runner : run[q].pc = "install" => run[q].now \in Name
  /\ home \in [Rel -> Content] /\ hooked \subseteq Rel
  /\ shell \in Nat /\ met \in BOOLEAN
  /\ commands \in 0 .. MaxCommands /\ edits \in 0 .. MaxEdits
  /\ faults \in 0 .. MaxFaults

\* What a process holds of its plan, and which command is where.
Loaded(c) ==
  /\ c.plan \in Plans /\ LoadAll(c.plan)
  /\ c.todo \subseteq GuestFiles(c.plan) /\ c.left \subseteq Templates(c.plan)
Role(c, x) ==
  /\ c.pc \notin {"idle", "error", "killed"} => Loaded(c)
  /\ c.pc \in {"status", "clear"} => c.todo = GuestFiles(c.plan)
  /\ c.pc \in {"clear", "push", "applier", "applying"} => c.cmd = "apply"
  /\ c.pc \in {"launch", "await"} => c.cmd = "start"
  /\ c.booted => c.cmd = "start" /\ c.pc \notin {"status", "launch"}
  /\ x.pc # "idle" => c.pc \in {"applying", "killed", "idle"}
Roles ==
  /\ \A p \in Proc : Role(cli[p], run[p])
  /\ run[Boot].pc # "idle" => vm = "boot"

\* The files of the plan that are not left are in the tree.
Delivered(plan, left, t) == \A f \in GuestFiles(plan) \ left : Has(t, f)

\* The run x works on the plan: its lists are what remains of the plan's, and
\* a hook that is not to come has succeeded or failed.
OnPlan(x, plan) ==
  /\ x.shell = ManifestEnv(plan).shell
  /\ \A i \in DOMAIN x.names :
       /\ i \in DOMAIN plan /\ plan[i].files # {} /\ x.names[i] = plan[i].name
       /\ \A j \in DOMAIN plan : i < j /\ plan[j].files # {} => j \in DOMAIN x.names
  /\ x.pc = "install" => \E k \in DOMAIN plan :
       /\ x.now = plan[k].name /\ x.rels \subseteq plan[k].files
       /\ \A i \in DOMAIN x.names : k < i
       /\ \A j \in DOMAIN plan : k < j /\ plan[j].files # {} => j \in DOMAIN x.names
  /\ x.pc \in {"shell", "hooks"} => DOMAIN x.names = {}
  /\ \A i \in DOMAIN plan : plan[i].hook =>
       \/ x.failed \/ plan[i].name \in x.ran
       \/ (i \in DOMAIN x.hooks /\ x.hooks[i] = plan[i].name)

\* The run has installed bundle i's file r; the home and the shell have what
\* the run, or all of it, installs.
Through(x, plan, i, r) ==
  /\ r \in plan[i].files /\ i \notin DOMAIN x.names
  /\ (x.pc = "install" /\ x.now = plan[i].name) => r \notin x.rels
Reached(x, plan, h, s) ==
  /\ \A i \in DOMAIN plan, r \in Rel :
       Through(x, plan, i, r) /\ (\A j \in DOMAIN plan : Through(x, plan, j, r) => j <= i)
         => FileOf(plan[i]) \in h[r]
  /\ x.pc = "hooks" => ManifestEnv(plan).shell \in {0, s}
Applied(plan, h, s) ==
  /\ \A i \in DOMAIN plan : \A r \in plan[i].files :
       (\A j \in DOMAIN plan : r \in plan[j].files => j <= i) => FileOf(plan[i]) \in h[r]
  /\ ManifestEnv(plan).shell \in {0, s}
Hooked(plan, ran) == \A i \in DOMAIN plan : plan[i].hook => plan[i].name \in ran

\* A boot whose tree nobody else wrote to has its own plan before it.
BootInv ==
  /\ vm \in {"data", "boot"} /\ ~met => Delivered(boot.plan, boot.left, tree)
  /\ vm = "boot" => boot.left = {}
  /\ vm = "failed" => met
  /\ vm = "boot" /\ ~met /\ run[Boot].pc # "idle" => OnPlan(run[Boot], boot.plan)

\* A command that nobody has disturbed, and what holds of it: the others are
\* at rest and a boot is its own; the home has what it has installed so far
\* and is as before where it ships nothing; the tree has its plan.
Watched(c) == c.alone /\ c.pc \notin {"idle", "killed"}
AtRest(p) == \A q \in Proc \ {p} : Returned(q) /\ run[q].pc = "idle"
BootOf(c) ==
  /\ c.cmd = "apply" => vm \notin {"data", "boot"}
  /\ vm \in {"data", "boot"} => /\ c.pc = "await" /\ c.booted
                                /\ ~met /\ boot.plan = c.plan
HomeOf(c, h) ==
  /\ \A r \in Rel : ~Ships(c.plan, r) => c.before[r] \in h[r]
  /\ c.pc # "error" => \A r \in Templates(c.plan) \ c.left : Rendered(c.plan, r) \in h[r]
  /\ c.pc \in {"applier", "applying", "done"} => c.left = {}
ApplyOf(c, x, t, h, s) ==
  /\ c.pc = "push" => Delivered(c.plan, c.todo, t)
  /\ c.pc \in {"templates", "applier", "applying"} /\ c.cmd = "apply"
       => Delivered(c.plan, {}, t)
  /\ c.pc = "applying" /\ x.pc # "idle" => OnPlan(x, c.plan) /\ Reached(x, c.plan, h, s)
  /\ c.pc = "done" /\ c.cmd = "apply" => Applied(c.plan, h, s) /\ Hooked(c.plan, x.ran)
StartOf(c, x, v, h, s) ==
  c.booted =>
  /\ x.pc # "idle" => Reached(x, c.plan, h, s)
  /\ (c.pc = "await" /\ v = "up") \/ c.pc \in {"templates", "done"} => Applied(c.plan, h, s)
Alone(p) ==
  /\ AtRest(p) /\ BootOf(cli[p]) /\ HomeOf(cli[p], Held(home, hooked))
  /\ ApplyOf(cli[p], run[p], tree, Held(home, hooked), shell)
  /\ StartOf(cli[p], run[Boot], vm, Held(home, hooked), shell)
AloneInv == \A p \in Proc : Watched(cli[p]) => Alone(p)

ProfilesInv == Typed /\ Roles /\ BootInv /\ AloneInv

LEMMA TypedIsTypeOK == Typed => TypeOK
<1> SUFFICES ASSUME Typed PROVE TypeOK
  OBVIOUS
<1>1. boot.plan \in Plans
  BY DEF Typed, Stored
<1>2. \A n \in Name : tree.list[n] \subseteq Rel /\ tree.hook[n] \in BOOLEAN
  <2>1. tree.list \in [Name -> SUBSET Rel] /\ tree.hook \in [Name -> BOOLEAN]
    BY DEF Typed, Tree
  <2> QED
    BY <2>1
<1>3. \A q \in Runner : /\ run[q].pc \in RunPc /\ run[q].rels \subseteq Rel
                        /\ run[q].failed \in BOOLEAN /\ run[q].ran \subseteq Name
  BY DEF Typed, Run
<1> QED
  BY <1>1, <1>2, <1>3 DEF Typed, TypeOK

-----------------------------------------------------------------------------
(* What the steps of a run do to it, apart from the state                   *)

LEMMA RestTypes ==
  /\ Rest \in Run /\ Rest.pc = "idle"
  /\ \A ran \in SUBSET Name :
       /\ [Rest EXCEPT !.ran = ran] \in Run /\ [Rest EXCEPT !.ran = ran].pc = "idle"
       /\ [Rest EXCEPT !.ran = ran].ran = ran
<1>1. Rest \in Run /\ Rest.pc = "idle"
  BY ListTypes DEF Rest, Run, RunPc
<1> QED
  BY <1>1 DEF Run

(* Sourcing the manifest of the plan: nothing is installed yet.             *)
LEMMA RunStarts ==
  ASSUME NEW env \in Env, NEW x,
         x = [Rest EXCEPT !.pc = "files", !.names = env.files,
                          !.hooks = env.hooks, !.shell = env.shell]
  PROVE  /\ x \in Run /\ x.pc = "files"
         /\ \A plan \in Plans : env = ManifestEnv(plan) =>
              /\ OnPlan(x, plan)
              /\ \A i \in DOMAIN plan, r \in Rel : ~Through(x, plan, i, r)
<1>1. env.files \in Lists /\ env.hooks \in Lists /\ env.shell \in Nat
  BY DEF Env
<1>2. /\ x \in Run /\ x.pc = "files" /\ x.names = env.files /\ x.hooks = env.hooks
      /\ x.shell = env.shell
  BY <1>1, RestTypes DEF Run, RunPc
<1>3. ASSUME NEW plan \in Plans, env = ManifestEnv(plan)
      PROVE  /\ OnPlan(x, plan)
             /\ \A i \in DOMAIN plan, r \in Rel : ~Through(x, plan, i, r)
  <2> DEFINE F == {i \in DOMAIN plan : plan[i].files # {}}
             H == {i \in DOMAIN plan : plan[i].hook}
  <2>1. /\ DOMAIN x.names = F /\ \A i \in F : x.names[i] = plan[i].name
        /\ DOMAIN x.hooks = H /\ \A i \in H : x.hooks[i] = plan[i].name
    <3>1. x.names = Listed(plan, F) /\ x.hooks = Listed(plan, H)
      BY <1>2, <1>3, EnvTypes
    <3>2. F \subseteq DOMAIN plan /\ H \subseteq DOMAIN plan
      OBVIOUS
    <3> HIDE DEF F, H
    <3> QED
      BY <3>1, <3>2, ListedTypes
  <2>2. OnPlan(x, plan)
    BY <1>2, <1>3, <2>1 DEF OnPlan
  <2>3. \A i \in DOMAIN plan, r \in Rel : ~Through(x, plan, i, r)
    BY <2>1 DEF Through
  <2> QED
    BY <2>2, <2>3
<1> QED
  BY <1>2, <1>3

\* y has opened bundle i's list, which names rels.
Opens(x, y, i, rels) ==
  /\ y.pc = "install" /\ y.now = x.names[i] /\ y.rels = rels
  /\ y.names = Without(x.names, i) /\ y.hooks = x.hooks /\ y.shell = x.shell
  /\ y.failed = x.failed /\ y.ran = x.ran

LEMMA NextProfileOf ==
  ASSUME NEW x \in Run, x.pc = "files", NEW i \in First(x.names), NEW rels \in SUBSET Rel,
         NEW y \in Run, Opens(x, y, i, rels)
  PROVE  /\ y.pc = "install" /\ y.now \in Name
         /\ \A plan \in Plans : OnPlan(x, plan) /\ rels = plan[i].files =>
              /\ OnPlan(y, plan)
              /\ \A j \in DOMAIN plan, r \in Rel :
                   Through(y, plan, j, r) <=> Through(x, plan, j, r)
<1>1. x.names \in Lists /\ i \in DOMAIN x.names
  BY DEF Run, First
<1>2. x.names[i] \in Name /\ Without(x.names, i) \in Lists /\ DOMAIN x.names \subseteq Nat
  BY <1>1, ListTypes
<1>3. /\ y.pc = "install" /\ y.now = x.names[i] /\ y.rels = rels
      /\ y.names = Without(x.names, i) /\ y.hooks = x.hooks /\ y.shell = x.shell
      /\ y.failed = x.failed /\ y.ran = x.ran
  BY DEF Opens
<1>4. /\ DOMAIN y.names = DOMAIN x.names \ {i}
      /\ \A j \in DOMAIN y.names : y.names[j] = x.names[j]
  BY <1>3 DEF Without
<1>5. \A j \in DOMAIN x.names : i <= j
  BY DEF First
<1>6. ASSUME NEW plan \in Plans, OnPlan(x, plan), rels = plan[i].files
      PROVE  /\ OnPlan(y, plan)
             /\ \A j \in DOMAIN plan, r \in Rel :
                  Through(y, plan, j, r) <=> Through(x, plan, j, r)
  <2>1. /\ i \in DOMAIN plan /\ plan[i].files # {} /\ y.now = plan[i].name
        /\ \A j \in DOMAIN plan : i < j /\ plan[j].files # {} => j \in DOMAIN x.names
    BY <1>1, <1>3, <1>6 DEF OnPlan
  <2>2. DOMAIN plan \subseteq Nat
    BY PlanTypes
  <2>3. /\ \A j \in DOMAIN y.names : i < j
        /\ \A j \in DOMAIN plan : i < j /\ plan[j].files # {} => j \in DOMAIN y.names
    BY <1>1, <1>2, <1>4, <1>5, <2>1, <2>2
  <2>4. \A k \in DOMAIN y.names :
          /\ k \in DOMAIN plan /\ plan[k].files # {} /\ y.names[k] = plan[k].name
          /\ \A j \in DOMAIN plan : k < j /\ plan[j].files # {} => j \in DOMAIN y.names
    <3> SUFFICES ASSUME NEW k \in DOMAIN y.names
                 PROVE  /\ k \in DOMAIN plan /\ plan[k].files # {}
                        /\ y.names[k] = plan[k].name
                        /\ \A j \in DOMAIN plan :
                             k < j /\ plan[j].files # {} => j \in DOMAIN y.names
      OBVIOUS
    <3>1. k \in DOMAIN x.names /\ y.names[k] = x.names[k] /\ i < k
      BY <1>4, <2>3
    <3>2. /\ k \in DOMAIN plan /\ plan[k].files # {} /\ y.names[k] = plan[k].name
      BY <3>1, <1>6 DEF OnPlan
    <3>3. \A j \in DOMAIN plan : k < j /\ plan[j].files # {} => j \in DOMAIN y.names
      BY <2>1, <2>2, <2>3, <3>1, <3>2
    <3> QED
      BY <3>2, <3>3
  <2>5. OnPlan(y, plan)
    BY <1>3, <1>6, <2>1, <2>3, <2>4 DEF OnPlan
  <2>6. ASSUME NEW j \in DOMAIN plan, NEW r \in Rel
        PROVE  Through(y, plan, j, r) <=> Through(x, plan, j, r)
    <3>1. plan[j].name = plan[i].name => j = i
      BY <2>1, PlanTypes
    <3>2. CASE j = i
      BY <1>1, <1>3, <1>6, <2>1, <3>2 DEF Through
    <3>3. CASE j # i
      BY <1>3, <1>4, <2>1, <3>1, <3>3 DEF Through
    <3> QED
      BY <3>2, <3>3
  <2> QED
    BY <2>5, <2>6
<1> QED
  BY <1>2, <1>3, <1>6

(* Steps that change only where the run is.                                 *)
LEMMA PhaseOf ==
  ASSUME NEW x \in Run, NEW pc \in RunPc, NEW y, y = [x EXCEPT !.pc = pc],
         \/ x.pc = "files" /\ pc = "shell" /\ x.names = Nobody
         \/ x.pc = "install" /\ pc = "files" /\ x.rels = {}
         \/ x.pc = "shell" /\ pc = "hooks"
  PROVE  /\ y \in Run /\ y.pc = pc /\ y.ran = x.ran
         /\ \A plan \in Plans : OnPlan(x, plan) =>
              /\ OnPlan(y, plan)
              /\ \A j \in DOMAIN plan, r \in Rel :
                   Through(y, plan, j, r) <=> Through(x, plan, j, r)
<1>1. /\ y \in Run /\ y.pc = pc /\ y.now = x.now /\ y.rels = x.rels
      /\ y.names = x.names /\ y.hooks = x.hooks /\ y.shell = x.shell
      /\ y.failed = x.failed /\ y.ran = x.ran
  BY DEF Run
<1>2. x.names = Nobody => DOMAIN x.names = {}
  BY ListTypes
<1>3. ASSUME NEW plan \in Plans, OnPlan(x, plan) PROVE OnPlan(y, plan)
  BY <1>1, <1>2, <1>3 DEF OnPlan
<1>4. ASSUME NEW plan \in Plans, NEW j \in DOMAIN plan, NEW r \in Rel
      PROVE  Through(y, plan, j, r) <=> Through(x, plan, j, r)
  BY <1>1 DEF Through
<1> QED
  BY <1>1, <1>3, <1>4

\* Over x, y has installed r of bundle k as well, the last that has come to it.
FurtherBy(y, x, plan, k, r) ==
  /\ r \in plan[k].files /\ x.now = plan[k].name
  /\ \A j \in DOMAIN plan, s \in Rel :
       Through(y, plan, j, s) <=> Through(x, plan, j, s) \/ (j = k /\ s = r)
  /\ \A j \in DOMAIN plan : Through(y, plan, j, r) => j <= k

LEMMA InstalledOf ==
  ASSUME NEW x \in Run, x.pc = "install", NEW r \in x.rels,
         NEW y, y = [x EXCEPT !.rels = @ \ {r}]
  PROVE  /\ y \in Run /\ y.pc = "install" /\ y.now = x.now
         /\ \A plan \in Plans : OnPlan(x, plan) =>
              /\ OnPlan(y, plan)
              /\ \E k \in DOMAIN plan : FurtherBy(y, x, plan, k, r)
<1>1. /\ y \in Run /\ y.pc = "install" /\ y.now = x.now /\ y.rels = x.rels \ {r}
      /\ y.names = x.names /\ y.hooks = x.hooks /\ y.shell = x.shell
      /\ y.failed = x.failed /\ y.ran = x.ran
  BY DEF Run
<1>2. ASSUME NEW plan \in Plans, OnPlan(x, plan)
      PROVE  /\ OnPlan(y, plan)
             /\ \E k \in DOMAIN plan : FurtherBy(y, x, plan, k, r)
  <2>1. PICK k \in DOMAIN plan :
          /\ x.now = plan[k].name /\ x.rels \subseteq plan[k].files
          /\ \A i \in DOMAIN x.names : k < i
          /\ \A j \in DOMAIN plan : k < j /\ plan[j].files # {} => j \in DOMAIN x.names
    BY <1>2 DEF OnPlan
  <2>2. DOMAIN plan \subseteq Nat
    BY PlanTypes
  <2>3. k \notin DOMAIN x.names
    BY <2>1, <2>2
  <2>4. y.rels \subseteq plan[k].files /\ r \in plan[k].files
    BY <1>1, <2>1
  <2>5. OnPlan(y, plan)
    BY <1>1, <1>2, <2>1, <2>4 DEF OnPlan
  <2>6. ASSUME NEW j \in DOMAIN plan, NEW s \in Rel
        PROVE  Through(y, plan, j, s) <=> Through(x, plan, j, s) \/ (j = k /\ s = r)
    <3>1. plan[j].name = plan[k].name => j = k
      BY PlanTypes
    <3>2. CASE j = k
      BY <1>1, <2>1, <2>3, <2>4, <3>2 DEF Through
    <3>3. CASE j # k
      BY <1>1, <2>1, <3>1, <3>3 DEF Through
    <3> QED
      BY <3>2, <3>3
  <2>7. ASSUME NEW j \in DOMAIN plan, Through(y, plan, j, r) PROVE j <= k
    <3>1. plan[j].files # {} /\ j \notin DOMAIN x.names
      BY <1>1, <2>7 DEF Through
    <3>2. ~(k < j)
      BY <2>1, <3>1
    <3> QED
      BY <2>2, <3>2
  <2> QED
    BY <2>1, <2>4, <2>5, <2>6, <2>7 DEF FurtherBy
<1> QED
  BY <1>1, <1>2

\* y has run hook i.
Hooks(x, y, i, ok) ==
  /\ y.pc = "hooks" /\ y.now = x.now /\ y.rels = x.rels
  /\ y.names = x.names /\ y.hooks = Without(x.hooks, i) /\ y.shell = x.shell
  /\ y.failed = (x.failed \/ ~ok)
  /\ y.ran = IF ok THEN x.ran \union {x.hooks[i]} ELSE x.ran

LEMMA HookOf ==
  ASSUME NEW x \in Run, x.pc = "hooks", NEW i \in First(x.hooks), NEW ok \in BOOLEAN,
         NEW y \in Run, Hooks(x, y, i, ok)
  PROVE  \A plan \in Plans : OnPlan(x, plan) =>
           /\ OnPlan(y, plan)
           /\ \A j \in DOMAIN plan, r \in Rel :
                Through(y, plan, j, r) <=> Through(x, plan, j, r)
<1>1. /\ x.failed => y.failed
      /\ ~ok => y.failed
      /\ ok => x.hooks[i] \in y.ran
      /\ x.ran \subseteq y.ran
  BY DEF Hooks
<1>2. /\ y.pc = "hooks" /\ y.now = x.now /\ y.rels = x.rels
      /\ y.names = x.names /\ y.hooks = Without(x.hooks, i) /\ y.shell = x.shell
  BY DEF Hooks
<1>3. /\ DOMAIN y.hooks = DOMAIN x.hooks \ {i}
      /\ \A j \in DOMAIN y.hooks : y.hooks[j] = x.hooks[j]
  BY <1>2 DEF Without
<1>4. ASSUME NEW plan \in Plans, OnPlan(x, plan) PROVE OnPlan(y, plan)
  <2>1. ASSUME NEW j \in DOMAIN plan, plan[j].hook
        PROVE  \/ y.failed \/ plan[j].name \in y.ran
               \/ (j \in DOMAIN y.hooks /\ y.hooks[j] = plan[j].name)
    <3>1. \/ x.failed \/ plan[j].name \in x.ran
          \/ (j \in DOMAIN x.hooks /\ x.hooks[j] = plan[j].name)
      BY <1>4, <2>1 DEF OnPlan
    <3>2. CASE j = i
      BY <1>1, <1>2, <3>1, <3>2
    <3>3. CASE j # i
      BY <1>1, <1>2, <1>3, <3>1, <3>3
    <3> QED
      BY <3>2, <3>3
  <2> QED
    BY <1>2, <1>4, <2>1 DEF OnPlan
<1>5. ASSUME NEW plan \in Plans, NEW j \in DOMAIN plan, NEW r \in Rel
      PROVE  Through(y, plan, j, r) <=> Through(x, plan, j, r)
  BY <1>2 DEF Through
<1> QED
  BY <1>2, <1>4, <1>5

(* When as much is installed as before, the home is as far.                 *)
LEMMA ReachedSame ==
  ASSUME NEW plan \in Plans, NEW x, NEW y, NEW h, NEW s, Reached(x, plan, h, s),
         \A j \in DOMAIN plan, r \in Rel : Through(y, plan, j, r) <=> Through(x, plan, j, r),
         y.pc = "hooks" => x.pc = "hooks" \/ ManifestEnv(plan).shell \in {0, s}
  PROVE  Reached(y, plan, h, s)
  BY DEF Reached

(* When paths may hold more than before, too.                               *)
LEMMA ReachedWider ==
  ASSUME NEW plan \in Plans, NEW x, NEW h, NEW g, NEW s, Reached(x, plan, h, s),
         \A r \in Rel : h[r] \subseteq g[r]
  PROVE  Reached(x, plan, g, s)
  BY DEF Reached

(* At the hooks everything is installed.                                    *)
LEMMA ReachedAll ==
  ASSUME NEW plan \in Plans, NEW x, x.pc = "hooks", OnPlan(x, plan),
         NEW h, NEW s, Reached(x, plan, h, s)
  PROVE  Applied(plan, h, s)
<1>1. DOMAIN x.names = {}
  BY DEF OnPlan
<1>2. \A j \in DOMAIN plan, r \in Rel : Through(x, plan, j, r) <=> r \in plan[j].files
  BY <1>1 DEF Through
<1>3. ASSUME NEW i \in DOMAIN plan, NEW r \in plan[i].files,
             \A j \in DOMAIN plan : r \in plan[j].files => j <= i
      PROVE  FileOf(plan[i]) \in h[r]
  <2>1. r \in Rel
    BY PlanTypes
  <2> QED
    BY <1>2, <1>3, <2>1 DEF Reached
<1> QED
  BY <1>3 DEF Reached, Applied

(* Installing a file of the plan brings the home on.                        *)
LEMMA ReachedMore ==
  ASSUME NEW plan \in Plans, NEW x \in Run, x.pc = "install", OnPlan(x, plan),
         NEW r \in x.rels, NEW y, y = [x EXCEPT !.rels = @ \ {r}],
         NEW h \in [Rel -> SUBSET Content], NEW s, Reached(x, plan, h, s),
         NEW t, Delivered(plan, {}, t),
         NEW g, g = [h EXCEPT ![r] = {<<"file", x.now, t.file[x.now][r]>>}]
  PROVE  Reached(y, plan, g, s)
<1>0. PICK k \in DOMAIN plan : FurtherBy(y, x, plan, k, r)
  BY InstalledOf
<1>1. /\ r \in plan[k].files /\ x.now = plan[k].name
      /\ \A j \in DOMAIN plan, q \in Rel :
           Through(y, plan, j, q) <=> Through(x, plan, j, q) \/ (j = k /\ q = r)
      /\ \A j \in DOMAIN plan : Through(y, plan, j, r) => j <= k
  BY <1>0 DEF FurtherBy
<1>2. y.pc = "install"
  BY InstalledOf
<1>3. r \in Rel /\ DOMAIN plan \subseteq Nat
  BY PlanTypes, <1>1
<1>4. t.file[x.now][r] = plan[k].edition
  <2>1. \A f \in GuestFiles(plan) : Has(t, f)
    BY DEF Delivered
  <2> QED
    BY <1>1, <2>1, AllDelivered
<1>5. g[r] = {FileOf(plan[k])} /\ \A q \in Rel : q # r => g[q] = h[q]
  BY <1>1, <1>3, <1>4 DEF FileOf
<1>6. ASSUME NEW i \in DOMAIN plan, NEW q \in Rel, Through(y, plan, i, q),
             \A j \in DOMAIN plan : Through(y, plan, j, q) => j <= i
      PROVE  FileOf(plan[i]) \in g[q]
  <2>1. CASE q = r
    <3>1. Through(y, plan, k, r)
      BY <1>1, <1>3
    <3>2. k <= i /\ i <= k
      BY <1>1, <1>6, <2>1, <3>1
    <3>3. k = i
      BY <1>3, <3>2
    <3> QED
      BY <1>5, <2>1, <3>3
  <2>2. CASE q # r
    <3>1. Through(x, plan, i, q)
      BY <1>1, <1>6, <2>2
    <3>2. \A j \in DOMAIN plan : Through(x, plan, j, q) => j <= i
      BY <1>1, <1>6
    <3> QED
      BY <1>5, <2>2, <3>1, <3>2 DEF Reached
  <2> QED
    BY <2>1, <2>2
<1> QED
  BY <1>2, <1>6 DEF Reached


-----------------------------------------------------------------------------
(* Frames: what a step by or for one process leaves alone                   *)

Only(p) == \A q \in Proc \ {p} : cli'[q] = cli[q] /\ run'[q] = run[q]

LEMMA Runners == Boot \notin Proc /\ Boot \in Runner /\ \A p \in Proc : p \in Runner /\ p # Boot
  BY ProfilesAssumption DEF Runner

(* One process's record is replaced.                                        *)
LEMMA CliSet ==
  ASSUME cli \in [Proc -> Process], NEW p \in Proc, NEW c \in Process,
         cli' = [cli EXCEPT ![p] = c]
  PROVE  /\ cli' \in [Proc -> Process] /\ cli'[p] = c
         /\ \A q \in Proc \ {p} : cli'[q] = cli[q]
  OBVIOUS

LEMMA GotoIs ==
  ASSUME cli \in [Proc -> Process], NEW p \in Proc, NEW pc \in CliPc, Goto(p, pc)
  PROVE  /\ cli' \in [Proc -> Process] /\ cli'[p].pc = pc
         /\ \A q \in Proc \ {p} : cli'[q] = cli[q]
         /\ cli'[p].cmd = cli[p].cmd /\ cli'[p].plan = cli[p].plan
         /\ cli'[p].todo = cli[p].todo /\ cli'[p].left = cli[p].left
         /\ cli'[p].booted = cli[p].booted /\ cli'[p].alone = cli[p].alone
         /\ cli'[p].before = cli[p].before
<1> DEFINE c == [cli[p] EXCEPT !.pc = pc]
<1>1. cli[p] \in Process
  OBVIOUS
<1>2. /\ c \in Process /\ c.pc = pc
      /\ c.cmd = cli[p].cmd /\ c.plan = cli[p].plan
      /\ c.todo = cli[p].todo /\ c.left = cli[p].left
      /\ c.booted = cli[p].booted /\ c.alone = cli[p].alone
      /\ c.before = cli[p].before
  BY <1>1 DEF Process
<1>3. cli' = [cli EXCEPT ![p] = c]
  BY DEF Goto
<1> HIDE DEF c
<1>4. cli' \in [Proc -> Process] /\ cli'[p] = c /\ \A q \in Proc \ {p} : cli'[q] = cli[q]
  BY <1>2, <1>3
<1> QED
  BY <1>2, <1>4

(* One run's record is replaced.                                            *)
LEMMA RunSet ==
  ASSUME run \in [Runner -> Run], NEW q \in Runner, NEW x \in Run,
         run' = [run EXCEPT ![q] = x]
  PROVE  /\ run' \in [Runner -> Run] /\ run'[q] = x
         /\ \A r \in Runner \ {q} : run'[r] = run[r]
  OBVIOUS

(* The command that nobody disturbed is the one that takes the step.        *)
LEMMA Lone ==
  ASSUME AloneInv, NEW p \in Proc, ~Returned(p) \/ run[p].pc # "idle",
         NEW w \in Proc, Watched(cli[w])
  PROVE  w = p
  BY DEF AloneInv, Alone, AtRest

LEMMA AloneStep ==
  ASSUME AloneInv, NEW p \in Proc, ~Returned(p) \/ run[p].pc # "idle", Only(p),
         Watched(cli'[p]) => Watched(cli[p]),
         Alone(p) /\ Watched(cli[p]) /\ Watched(cli'[p]) =>
           /\ BootOf(cli[p])' /\ HomeOf(cli[p], Held(home, hooked))'
           /\ ApplyOf(cli[p], run[p], tree, Held(home, hooked), shell)'
           /\ StartOf(cli[p], run[Boot], vm, Held(home, hooked), shell)'
  PROVE  AloneInv'
<1> SUFFICES ASSUME NEW w \in Proc, Watched(cli'[w]) PROVE Alone(w)'
  BY DEF AloneInv, Watched
<1>1. w # p => cli'[w] = cli[w]
  BY DEF Only
<1>2. Watched(cli[w])
  BY <1>1
<1>3. w = p /\ Alone(p)
  BY <1>2, Lone DEF AloneInv
<1>4. AtRest(p)'
  BY <1>3 DEF Alone, AtRest, Only, Returned
<1> QED
  BY <1>2, <1>3, <1>4 DEF Alone

LEMMA RolesStep ==
  ASSUME Roles, NEW p \in Proc, Only(p), Role(cli'[p], run'[p]),
         run'[Boot].pc # "idle" => vm' = "boot"
  PROVE  Roles'
<1>1. \A q \in Proc : Role(cli'[q], run'[q])
  BY DEF Roles, Only
<1> QED
  BY <1>1 DEF Roles

(* A step that leaves the boot and the tree as they are.                    *)
LEMMA BootSame ==
  ASSUME BootInv, UNCHANGED <<vm, boot, tree, met>>, run'[Boot] = run[Boot]
  PROVE  BootInv'
  BY DEF BootInv

-----------------------------------------------------------------------------
(* The steps of a command                                                   *)

(* A command goes on and leaves the guest as it is.                         *)
LEMMA MoveKeeps ==
  ASSUME ProfilesInv, NEW p \in Proc, NEW pc \in CliPc, ~Returned(p), pc # "idle",
         Goto(p, pc), UNCHANGED <<host, guest, commands, edits>>,
         faults' \in 0 .. MaxFaults,
         Role(cli'[p], run[p]),
         Alone(p) /\ Watched(cli[p]) /\ Watched(cli'[p]) =>
           /\ BootOf(cli[p])' /\ HomeOf(cli[p], Held(home, hooked))'
           /\ ApplyOf(cli[p], run[p], tree, Held(home, hooked), shell)'
           /\ StartOf(cli[p], run[Boot], vm, Held(home, hooked), shell)'
  PROVE  ProfilesInv'
<1>1. cli \in [Proc -> Process] /\ AloneInv /\ Roles /\ BootInv
  BY DEF ProfilesInv, Typed
<1>2. /\ cli' \in [Proc -> Process] /\ cli'[p].alone = cli[p].alone
      /\ \A q \in Proc \ {p} : cli'[q] = cli[q]
  BY <1>1, GotoIs
<1>3. run' = run /\ Only(p)
  BY <1>2 DEF Only, guest
<1>4. Typed'
  BY <1>2 DEF ProfilesInv, Typed, guest
<1>5. Roles'
  BY <1>1, <1>3, RolesStep DEF Roles, guest
<1>6. BootInv'
  BY <1>1, <1>3, BootSame DEF guest
<1>7. Watched(cli'[p]) => Watched(cli[p])
  BY <1>2 DEF Watched, Returned, AllReturned
<1>8. AloneInv'
  BY <1>1, <1>3, <1>7, AloneStep
<1> QED
  BY <1>4, <1>5, <1>6, <1>8 DEF ProfilesInv

(* A command that fails has changed nothing that it does not ship.          *)
LEMMA ErrorKeeps ==
  ASSUME ProfilesInv, NEW p \in Proc, ~Returned(p), Goto(p, "error"),
         UNCHANGED <<host, guest, commands, edits>>, faults' \in 0 .. MaxFaults,
         cli[p].pc # "await" \/ vm \notin {"data", "boot"}, cli[p].pc # "applying"
  PROVE  ProfilesInv'
<1>0. cli \in [Proc -> Process] /\ Roles /\ "error" \in CliPc
  BY DEF ProfilesInv, Typed, CliPc
<1>1. /\ cli'[p].pc = "error" /\ cli'[p].cmd = cli[p].cmd /\ cli'[p].plan = cli[p].plan
      /\ cli'[p].booted = cli[p].booted /\ cli'[p].before = cli[p].before
  BY <1>0, GotoIs
<1>2. run[p].pc = "idle"
  BY <1>0 DEF Roles, Role, Returned, AllReturned
<1>3. cli[p].booted => cli[p].cmd = "start"
  BY <1>0 DEF Roles, Role
<1>4. Role(cli'[p], run[p])
  BY <1>1, <1>2, <1>3 DEF Role
<1>5. ASSUME Alone(p)
      PROVE  /\ BootOf(cli[p])' /\ HomeOf(cli[p], Held(home, hooked))'
             /\ ApplyOf(cli[p], run[p], tree, Held(home, hooked), shell)'
             /\ StartOf(cli[p], run[Boot], vm, Held(home, hooked), shell)'
  <2>1. vm \notin {"data", "boot"} /\ run[Boot].pc = "idle"
    BY <1>0, <1>5 DEF Alone, BootOf, Roles
  <2>2. BootOf(cli[p])'
    BY <2>1 DEF BootOf, guest
  <2>3. HomeOf(cli[p], Held(home, hooked))'
    BY <1>1, <1>5 DEF Alone, HomeOf, guest
  <2>4. ApplyOf(cli[p], run[p], tree, Held(home, hooked), shell)'
    BY <1>1 DEF ApplyOf
  <2>5. StartOf(cli[p], run[Boot], vm, Held(home, hooked), shell)'
    BY <1>1, <2>1 DEF StartOf, guest
  <2> QED
    BY <2>2, <2>3, <2>4, <2>5
<1> QED
  BY <1>0, <1>4, <1>5, MoveKeeps

LEMMA StatusKeeps ==
  ASSUME ProfilesInv, NEW p \in Proc, Status(p)
  PROVE  ProfilesInv'
<1>0. /\ cli \in [Proc -> Process] /\ Roles /\ faults \in 0 .. MaxFaults
      /\ cli[p].pc = "status" /\ ~Returned(p)
      /\ UNCHANGED <<host, guest, commands, edits>> /\ faults' = faults
  BY DEF ProfilesInv, Typed, Status, At, Returned, AllReturned, bounds
<1>1. Role(cli[p], run[p])
  BY <1>0 DEF Roles
<1>2. cli[p].cmd \in {"start", "apply"}
  BY <1>0 DEF Process
<1>3. CASE Goto(p, "error")
  BY <1>0, <1>3, ErrorKeeps
<1>4. ASSUME NEW pc \in {"clear", "launch", "templates"}, Goto(p, pc),
             pc = "clear" => cli[p].cmd = "apply",
             pc \in {"launch", "templates"} => cli[p].cmd = "start"
      PROVE  ProfilesInv'
  <2>0. pc \in CliPc /\ pc # "idle"
    BY DEF CliPc
  <2>1. /\ cli'[p].pc = pc /\ cli'[p].cmd = cli[p].cmd /\ cli'[p].plan = cli[p].plan
        /\ cli'[p].todo = cli[p].todo /\ cli'[p].left = cli[p].left
        /\ cli'[p].booted = cli[p].booted /\ cli'[p].before = cli[p].before
    BY <1>0, <1>4, <2>0, GotoIs
  <2>2. Loaded(cli'[p]) /\ ~cli'[p].booted
    BY <1>0, <1>1, <2>1 DEF Role, Loaded
  <2>3. Role(cli'[p], run[p])
    BY <1>0, <1>1, <1>4, <2>1, <2>2 DEF Role
  <2>4. ASSUME Alone(p)
        PROVE  /\ BootOf(cli[p])' /\ HomeOf(cli[p], Held(home, hooked))'
               /\ ApplyOf(cli[p], run[p], tree, Held(home, hooked), shell)'
               /\ StartOf(cli[p], run[Boot], vm, Held(home, hooked), shell)'
    <3>1. vm \notin {"data", "boot"}
      BY <1>0, <2>4 DEF Alone, BootOf
    <3>2. BootOf(cli[p])'
      BY <1>0, <3>1 DEF BootOf, guest
    <3>3. HomeOf(cli[p], Held(home, hooked))'
      BY <1>0, <2>1, <2>4 DEF Alone, HomeOf, guest
    <3>4. ApplyOf(cli[p], run[p], tree, Held(home, hooked), shell)'
      BY <1>4, <2>1 DEF ApplyOf
    <3>5. StartOf(cli[p], run[Boot], vm, Held(home, hooked), shell)'
      BY <2>2 DEF StartOf
    <3> QED
      BY <3>2, <3>3, <3>4, <3>5
  <2> QED
    BY <1>0, <1>4, <2>0, <2>3, <2>4, MoveKeeps
<1> QED
  BY <1>2, <1>3, <1>4 DEF Status

LEMMA AwaitReadyKeeps ==
  ASSUME ProfilesInv, NEW p \in Proc, AwaitReady(p)
  PROVE  ProfilesInv'
<1>0. /\ cli \in [Proc -> Process] /\ Roles /\ faults \in 0 .. MaxFaults
      /\ cli[p].pc = "await" /\ ~Returned(p) /\ vm \notin {"data", "boot"}
      /\ UNCHANGED <<host, guest, commands, edits>> /\ faults' = faults
  BY DEF ProfilesInv, Typed, AwaitReady, At, Returned, AllReturned, bounds
<1>1. Role(cli[p], run[p]) /\ cli[p].cmd = "start"
  BY <1>0 DEF Roles, Role
<1>2. CASE vm # "up"
  <2>1. Goto(p, "error")
    BY <1>2 DEF AwaitReady
  <2> QED
    BY <1>0, <2>1, ErrorKeeps
<1>3. CASE vm = "up"
  <2>0. Goto(p, "templates") /\ "templates" \in CliPc
    BY <1>3 DEF AwaitReady, CliPc
  <2>1. /\ cli'[p].pc = "templates" /\ cli'[p].cmd = "start" /\ cli'[p].plan = cli[p].plan
        /\ cli'[p].todo = cli[p].todo /\ cli'[p].left = cli[p].left
        /\ cli'[p].booted = cli[p].booted /\ cli'[p].before = cli[p].before
    BY <1>0, <1>1, <2>0, GotoIs
  <2>2. Role(cli'[p], run[p])
    BY <1>0, <1>1, <2>1 DEF Role, Loaded
  <2>3. ASSUME Alone(p)
        PROVE  /\ BootOf(cli[p])' /\ HomeOf(cli[p], Held(home, hooked))'
               /\ ApplyOf(cli[p], run[p], tree, Held(home, hooked), shell)'
               /\ StartOf(cli[p], run[Boot], vm, Held(home, hooked), shell)'
    <3>2. BootOf(cli[p])'
      BY <1>0 DEF BootOf, guest
    <3>3. HomeOf(cli[p], Held(home, hooked))'
      BY <1>0, <2>1, <2>3 DEF Alone, HomeOf, guest
    <3>4. ApplyOf(cli[p], run[p], tree, Held(home, hooked), shell)'
      BY <2>1 DEF ApplyOf
    <3>5. run[Boot].pc = "idle"
      BY <1>0 DEF Roles
    <3>6. StartOf(cli[p], run[Boot], vm, Held(home, hooked), shell)'
      BY <1>0, <1>3, <2>1, <2>3, <3>5 DEF Alone, StartOf, guest
    <3> QED
      BY <3>2, <3>3, <3>4, <3>6
  <2> QED
    BY <1>0, <2>0, <2>2, <2>3, MoveKeeps
<1> QED
  BY <1>2, <1>3

LEMMA DownKeeps ==
  ASSUME ProfilesInv, NEW p \in Proc, Down(p) \/ PushFails(p)
  PROVE  ProfilesInv'
<1>1. /\ cli[p].pc \in {"clear", "push", "templates", "applier"} /\ Goto(p, "error")
      /\ UNCHANGED <<host, guest, commands, edits>>
  BY DEF Down, PushFails, bounds
<1>2. faults' \in 0 .. MaxFaults
  BY ProfilesAssumption DEF ProfilesInv, Typed, Down, PushFails, bounds
<1> QED
  BY <1>1, <1>2, ErrorKeeps DEF Returned, AllReturned

LEMMA InterruptKeeps ==
  ASSUME ProfilesInv, NEW p \in Proc, Interrupt(p)
  PROVE  ProfilesInv'
<1>0. /\ cli \in [Proc -> Process] /\ run \in [Runner -> Run] /\ Roles /\ BootInv /\ AloneInv
      /\ Goto(p, "killed") /\ "killed" \in CliPc /\ ~Returned(p)
      /\ UNCHANGED <<host, vm, boot, tree, home, hooked, shell, met, commands, edits>>
  BY DEF ProfilesInv, Typed, Interrupt, CliPc
<1>1. /\ cli' \in [Proc -> Process] /\ cli'[p].pc = "killed"
      /\ cli'[p].cmd = cli[p].cmd /\ cli'[p].booted = cli[p].booted
      /\ \A q \in Proc \ {p} : cli'[q] = cli[q]
  BY <1>0, GotoIs
<1>2. /\ run' \in [Runner -> Run] /\ \A q \in Runner \ {p} : run'[q] = run[q]
      /\ \A q \in Runner : run'[q].pc = "install" => run'[q] = run[q]
  <2>1. CASE run' = run
    BY <1>0, <2>1
  <2>2. CASE run' = [run EXCEPT ![p].pc = "idle"]
    <3> DEFINE x == [run[p] EXCEPT !.pc = "idle"]
    <3>1. x \in Run /\ x.pc = "idle"
      BY <1>0, Runners DEF Run, RunPc
    <3>2. run' = [run EXCEPT ![p] = x]
      BY <2>2
    <3> HIDE DEF x
    <3> QED
      BY <1>0, <3>1, <3>2, Runners
  <2> QED
    BY <2>1, <2>2 DEF Interrupt
<1>3. Only(p) /\ run'[Boot] = run[Boot]
  BY <1>1, <1>2, Runners DEF Only
<1>4. Typed'
  <2>1. faults' \in 0 .. MaxFaults
    BY ProfilesAssumption DEF ProfilesInv, Typed, Interrupt
  <2>2. \A q \in Runner : run'[q].pc = "install" => run'[q].now \in Name
    BY <1>2 DEF ProfilesInv, Typed
  <2> QED
    BY <1>0, <1>1, <1>2, <2>1, <2>2 DEF ProfilesInv, Typed
<1>5. Role(cli'[p], run'[p])
  BY <1>0, <1>1 DEF Roles, Role
<1>6. Roles'
  BY <1>0, <1>3, <1>5, RolesStep DEF Roles
<1>7. BootInv'
  BY <1>0, <1>3, BootSame
<1>8. AloneInv'
  <2>1. ~Watched(cli'[p])
    BY <1>1 DEF Watched
  <2> QED
    BY <1>0, <1>3, <2>1, AloneStep
<1> QED
  BY <1>4, <1>6, <1>7, <1>8 DEF ProfilesInv

LEMMA LaunchKeeps ==
  ASSUME ProfilesInv, NEW p \in Proc, Launch(p)
  PROVE  ProfilesInv'
<1>0. /\ cli \in [Proc -> Process] /\ run \in [Runner -> Run] /\ AloneInv
      /\ Roles /\ faults \in 0 .. MaxFaults
      /\ cli[p].pc = "launch" /\ ~Returned(p)
      /\ UNCHANGED <<host, tree, run, home, hooked, shell, commands, edits, faults>>
  BY DEF ProfilesInv, Typed, Launch, At, Returned, AllReturned, bounds
<1>1. Role(cli[p], run[p]) /\ cli[p].cmd = "start" /\ ~cli[p].booted /\ Loaded(cli[p])
  BY <1>0 DEF Roles, Role
<1>2. CASE vm # "off"
  <2>0. Goto(p, "await") /\ "await" \in CliPc /\ UNCHANGED guest
    BY <1>0, <1>2 DEF Launch, CliPc, guest
  <2>1. /\ cli'[p].pc = "await" /\ cli'[p].cmd = "start" /\ cli'[p].plan = cli[p].plan
        /\ cli'[p].todo = cli[p].todo /\ cli'[p].left = cli[p].left
        /\ ~cli'[p].booted /\ cli'[p].before = cli[p].before
    BY <1>0, <1>1, <2>0, GotoIs
  <2>2. Role(cli'[p], run[p])
    BY <1>0, <1>1, <2>1 DEF Role, Loaded
  <2>3. ASSUME Alone(p)
        PROVE  /\ BootOf(cli[p])' /\ HomeOf(cli[p], Held(home, hooked))'
               /\ ApplyOf(cli[p], run[p], tree, Held(home, hooked), shell)'
               /\ StartOf(cli[p], run[Boot], vm, Held(home, hooked), shell)'
    <3>1. vm \notin {"data", "boot"}
      BY <1>0, <2>3 DEF Alone, BootOf
    <3>2. BootOf(cli[p])'
      BY <2>0, <3>1 DEF BootOf, guest
    <3>3. HomeOf(cli[p], Held(home, hooked))'
      BY <1>0, <2>1, <2>3 DEF Alone, HomeOf
    <3>4. ApplyOf(cli[p], run[p], tree, Held(home, hooked), shell)'
      BY <2>1 DEF ApplyOf
    <3>5. StartOf(cli[p], run[Boot], vm, Held(home, hooked), shell)'
      BY <2>1 DEF StartOf
    <3> QED
      BY <3>2, <3>3, <3>4, <3>5
  <2> QED
    BY <1>0, <2>0, <2>2, <2>3, MoveKeeps
<1>3. CASE vm = "off"
  <2> DEFINE c == [cli[p] EXCEPT !.pc = "await", !.booted = TRUE]
             b == [plan |-> cli[p].plan, left |-> GuestFiles(cli[p].plan)]
  <2>1. /\ vm' = "data" /\ boot' = b /\ met' = FALSE
        /\ cli' = [cli EXCEPT ![p] = c]
    BY <1>3 DEF Launch
  <2>2. /\ c \in Process /\ c.pc = "await" /\ c.booted
        /\ c.cmd = cli[p].cmd /\ c.plan = cli[p].plan
        /\ c.todo = cli[p].todo /\ c.left = cli[p].left
        /\ c.alone = cli[p].alone /\ c.before = cli[p].before
    BY <1>0 DEF Process, CliPc
  <2>3. /\ b \in Stored /\ b.left \subseteq GuestFiles(b.plan)
        /\ b.plan = cli[p].plan /\ b.left = GuestFiles(b.plan)
    BY <1>1 DEF Loaded, Stored
  <2> HIDE DEF c, b
  <2>4. /\ cli' \in [Proc -> Process] /\ cli'[p] = c
        /\ \A q \in Proc \ {p} : cli'[q] = cli[q]
    BY <1>0, <2>1, <2>2
  <2>5. Only(p) /\ run[Boot].pc = "idle" /\ run'[Boot].pc = "idle"
    BY <1>0, <1>3, <2>4 DEF Only, Roles
  <2>6. Typed'
    BY <1>0, <2>1, <2>3, <2>4 DEF ProfilesInv, Typed
  <2>7. Role(cli'[p], run'[p])
    BY <1>0, <1>1, <2>2, <2>4 DEF Role, Loaded
  <2>8. Roles'
    BY <1>0, <2>5, <2>7, RolesStep
  <2>9. BootInv'
    BY <2>1, <2>3 DEF BootInv, Delivered
  <2>10. ASSUME Alone(p)
         PROVE  /\ BootOf(cli[p])' /\ HomeOf(cli[p], Held(home, hooked))'
                /\ ApplyOf(cli[p], run[p], tree, Held(home, hooked), shell)'
                /\ StartOf(cli[p], run[Boot], vm, Held(home, hooked), shell)'
    <3>1. BootOf(cli[p])'
      BY <1>1, <2>1, <2>2, <2>3, <2>4 DEF BootOf
    <3>2. HomeOf(cli[p], Held(home, hooked))'
      BY <1>0, <2>2, <2>4, <2>10 DEF Alone, HomeOf
    <3>3. ApplyOf(cli[p], run[p], tree, Held(home, hooked), shell)'
      BY <2>2, <2>4 DEF ApplyOf
    <3>4. StartOf(cli[p], run[Boot], vm, Held(home, hooked), shell)'
      BY <2>1, <2>2, <2>4, <2>5 DEF StartOf
    <3> QED
      BY <3>1, <3>2, <3>3, <3>4
  <2>11. Watched(cli'[p]) => Watched(cli[p])
    BY <1>0, <2>2, <2>4 DEF Watched
  <2>12. AloneInv'
    BY <1>0, <2>5, <2>10, <2>11, AloneStep
  <2> QED
    BY <2>6, <2>8, <2>9, <2>12 DEF ProfilesInv
<1> QED
  BY <1>2, <1>3

(* A process that writes to the tree: a boot that is going on has met it.   *)
LEMMA TreeKeeps ==
  ASSUME ProfilesInv, NEW p \in Proc, cli[p].pc \in {"clear", "push"}, Meets,
         tree' \in Tree, UNCHANGED <<host, vm, boot, run, home, hooked, shell, bounds>>,
         NEW c \in Process, cli' = [cli EXCEPT ![p] = c],
         c.pc = "push", c.cmd = cli[p].cmd, c.plan = cli[p].plan,
         c.left = cli[p].left, c.booted = cli[p].booted, c.alone = cli[p].alone,
         c.before = cli[p].before, c.todo \subseteq cli[p].todo,
         Alone(p) => Delivered(c.plan, c.todo, tree')
  PROVE  ProfilesInv'
<1>0. /\ cli \in [Proc -> Process] /\ run \in [Runner -> Run] /\ AloneInv
      /\ Roles /\ BootInv /\ ~Returned(p) /\ met \in BOOLEAN
      /\ met' = (met \/ vm \in {"data", "boot"})
  BY DEF ProfilesInv, Typed, Returned, AllReturned, Meets
<1>1. Role(cli[p], run[p]) /\ cli[p].cmd = "apply" /\ ~cli[p].booted /\ Loaded(cli[p])
  BY <1>0 DEF Roles, Role
<1>2. /\ cli' \in [Proc -> Process] /\ cli'[p] = c
      /\ \A q \in Proc \ {p} : cli'[q] = cli[q]
  BY <1>0, CliSet
<1>3. Only(p)
  BY <1>2 DEF Only
<1>4. Typed'
  BY <1>0, <1>2 DEF ProfilesInv, Typed, bounds
<1>5. Role(cli'[p], run'[p])
  BY <1>0, <1>1, <1>2 DEF Role, Loaded
<1>6. Roles'
  BY <1>0, <1>3, <1>5, RolesStep DEF Roles
<1>7. BootInv'
  BY <1>0 DEF BootInv
<1>8. ASSUME Alone(p)
      PROVE  /\ BootOf(cli[p])' /\ HomeOf(cli[p], Held(home, hooked))'
             /\ ApplyOf(cli[p], run[p], tree, Held(home, hooked), shell)'
             /\ StartOf(cli[p], run[Boot], vm, Held(home, hooked), shell)'
  <2>1. vm \notin {"data", "boot"}
    BY <1>1, <1>8 DEF Alone, BootOf
  <2>2. BootOf(cli[p])'
    BY <2>1 DEF BootOf
  <2>3. HomeOf(cli[p], Held(home, hooked))'
    BY <1>2, <1>8 DEF Alone, HomeOf
  <2>4. ApplyOf(cli[p], run[p], tree, Held(home, hooked), shell)'
    BY <1>2, <1>8 DEF ApplyOf
  <2>5. StartOf(cli[p], run[Boot], vm, Held(home, hooked), shell)'
    BY <1>1, <1>2 DEF StartOf
  <2> QED
    BY <2>2, <2>3, <2>4, <2>5
<1>9. Watched(cli'[p]) => Watched(cli[p])
  BY <1>2 DEF Watched
<1>10. AloneInv'
  BY <1>0, <1>3, <1>8, <1>9, AloneStep
<1> QED
  BY <1>4, <1>6, <1>7, <1>10 DEF ProfilesInv

LEMMA ClearTreeKeeps ==
  ASSUME ProfilesInv, NEW p \in Proc, ClearTree(p)
  PROVE  ProfilesInv'
<1> DEFINE c == [cli[p] EXCEPT !.pc = "push"]
<1>0. /\ cli \in [Proc -> Process] /\ Roles /\ cli[p].pc = "clear" /\ Meets
      /\ UNCHANGED <<host, vm, boot, run, home, hooked, shell, bounds>> /\ tree' = EmptyTree
  BY DEF ProfilesInv, Typed, ClearTree, At
<1>1. cli[p].todo = GuestFiles(cli[p].plan)
  BY <1>0 DEF Roles, Role
<1>2. /\ c \in Process /\ c.pc = "push" /\ c.cmd = cli[p].cmd /\ c.plan = cli[p].plan
      /\ c.todo = cli[p].todo /\ c.left = cli[p].left /\ c.booted = cli[p].booted
      /\ c.alone = cli[p].alone /\ c.before = cli[p].before
  BY <1>0 DEF Process, CliPc
<1>3. cli' = [cli EXCEPT ![p] = c]
  BY DEF ClearTree, Goto
<1> HIDE DEF c
<1>4. Delivered(c.plan, c.todo, tree')
  BY <1>1, <1>2 DEF Delivered
<1> QED
  BY <1>0, <1>2, <1>3, <1>4, EmptyTreeTypes, TreeKeeps

LEMMA PushFileKeeps ==
  ASSUME ProfilesInv, NEW p \in Proc, PushFile(p)
  PROVE  ProfilesInv'
<1>0. /\ cli \in [Proc -> Process] /\ Roles /\ cli[p].pc = "push" /\ tree \in Tree
      /\ UNCHANGED <<host, vm, boot, run, home, hooked, shell, bounds>> /\ ~Returned(p)
      /\ AloneInv /\ faults \in 0 .. MaxFaults
  BY DEF ProfilesInv, Typed, PushFile, At, Returned, AllReturned
<1>1. /\ Role(cli[p], run[p]) /\ cli[p].cmd = "apply" /\ ~cli[p].booted
      /\ Loaded(cli[p])
  BY <1>0 DEF Roles, Role
<1>2. ASSUME NEW f \in Foremost(cli[p].todo), tree' = Put(tree, f), Meets,
             cli' = [cli EXCEPT ![p].todo = @ \ {f}]
      PROVE  ProfilesInv'
  <2> DEFINE c == [cli[p] EXCEPT !.todo = @ \ {f}]
  <2>1. f \in cli[p].todo /\ f \in GuestFiles(cli[p].plan) /\ cli[p].plan \in Plans
    BY <1>1, <1>2 DEF Foremost, Loaded
  <2>2. /\ c \in Process /\ c.pc = "push" /\ c.cmd = cli[p].cmd /\ c.plan = cli[p].plan
        /\ c.todo = cli[p].todo \ {f} /\ c.left = cli[p].left
        /\ c.booted = cli[p].booted /\ c.alone = cli[p].alone
        /\ c.before = cli[p].before
    BY <1>0 DEF Process
  <2>3. cli' = [cli EXCEPT ![p] = c]
    BY <1>2
  <2> HIDE DEF c
  <2>4. tree' \in Tree
    BY <1>0, <1>2, <2>1, PutKeeps
  <2>5. ASSUME Alone(p) PROVE Delivered(c.plan, c.todo, tree')
    <3>1. Delivered(cli[p].plan, cli[p].todo, tree)
      BY <1>0, <2>5 DEF Alone, ApplyOf
    <3>2. ASSUME NEW g \in GuestFiles(cli[p].plan) \ c.todo PROVE Has(Put(tree, f), g)
      <4>1. g = f \/ Has(tree, g)
        BY <2>2, <3>1 DEF Delivered
      <4> QED
        BY <1>0, <2>1, <4>1, PutKeeps
    <3> QED
      BY <1>2, <2>2, <3>2 DEF Delivered
  <2> QED
    BY <1>0, <1>2, <2>2, <2>3, <2>4, <2>5, TreeKeeps
<1>3. ASSUME cli[p].todo = {}, Goto(p, "templates"), UNCHANGED <<tree, met>>
      PROVE  ProfilesInv'
  <2>0. "templates" \in CliPc /\ UNCHANGED guest /\ UNCHANGED <<commands, edits, faults>>
    BY <1>0, <1>3 DEF CliPc, guest, bounds
  <2>1. /\ cli'[p].pc = "templates" /\ cli'[p].cmd = "apply"
        /\ cli'[p].plan = cli[p].plan
        /\ cli'[p].todo = cli[p].todo /\ cli'[p].left = cli[p].left
        /\ ~cli'[p].booted /\ cli'[p].before = cli[p].before
    BY <1>0, <1>1, <1>3, <2>0, GotoIs
  <2>2. Role(cli'[p], run[p])
    BY <1>0, <1>1, <2>1 DEF Role, Loaded
  <2>3. ASSUME Alone(p)
        PROVE  /\ BootOf(cli[p])' /\ HomeOf(cli[p], Held(home, hooked))'
               /\ ApplyOf(cli[p], run[p], tree, Held(home, hooked), shell)'
               /\ StartOf(cli[p], run[Boot], vm, Held(home, hooked), shell)'
    <3>1. vm \notin {"data", "boot"}
      BY <1>1, <2>3 DEF Alone, BootOf
    <3>2. BootOf(cli[p])'
      BY <1>0, <3>1 DEF BootOf
    <3>3. HomeOf(cli[p], Held(home, hooked))'
      BY <1>0, <2>1, <2>3 DEF Alone, HomeOf
    <3>4. Delivered(cli[p].plan, {}, tree)
      BY <1>0, <1>3, <2>3 DEF Alone, ApplyOf
    <3>5. ApplyOf(cli[p], run[p], tree, Held(home, hooked), shell)'
      BY <1>3, <2>1, <3>4 DEF ApplyOf
    <3>6. StartOf(cli[p], run[Boot], vm, Held(home, hooked), shell)'
      BY <2>1 DEF StartOf
    <3> QED
      BY <3>2, <3>3, <3>5, <3>6
  <2> QED
    BY <1>0, <1>3, <2>0, <2>2, <2>3, MoveKeeps
<1> QED
  BY <1>2, <1>3 DEF PushFile

(* A template leaves the files of its plan alone.                           *)
LEMMA AppliedBeside ==
  ASSUME NEW plan \in Plans, LoadAll(plan), NEW h \in [Rel -> SUBSET Content], NEW s,
         Applied(plan, h, s), NEW r \in Templates(plan), NEW v,
         NEW g, g = [h EXCEPT ![r] = v]
  PROVE  Applied(plan, g, s)
<1>1. ASSUME NEW i \in DOMAIN plan, NEW q \in plan[i].files PROVE g[q] = h[q]
  <2>1. q \in Rel /\ q # r
    BY FilesAreNotTemplates
  <2> QED
    BY <2>1
<1> QED
  BY <1>1 DEF Applied

LEMMA PushTemplateKeeps ==
  ASSUME ProfilesInv, NEW p \in Proc, PushTemplate(p)
  PROVE  ProfilesInv'
<1>0. /\ cli \in [Proc -> Process] /\ Roles /\ BootInv /\ AloneInv
      /\ home \in [Rel -> Content] /\ hooked \subseteq Rel
      /\ cli[p].pc = "templates" /\ ~Returned(p)
      /\ UNCHANGED <<host, vm, boot, tree, run, shell, met, bounds>>
      /\ faults \in 0 .. MaxFaults
  BY DEF ProfilesInv, Typed, PushTemplate, At, Returned, AllReturned
<1>1. /\ Role(cli[p], run[p]) /\ (cli[p].booted => cli[p].cmd = "start")
      /\ Loaded(cli[p]) /\ cli[p].plan \in Plans /\ LoadAll(cli[p].plan)
      /\ cli[p].left \subseteq Templates(cli[p].plan)
  BY <1>0 DEF Roles, Role, Loaded
<1>2. ASSUME NEW r \in cli[p].left, home' = [home EXCEPT ![r] = Rendered(cli[p].plan, r)],
             hooked' = hooked \ {r}, cli' = [cli EXCEPT ![p].left = @ \ {r}]
      PROVE  ProfilesInv'
  <2> DEFINE c == [cli[p] EXCEPT !.left = @ \ {r}]
  <2>1. /\ r \in Rel /\ r \in Templates(cli[p].plan) /\ Ships(cli[p].plan, r)
        /\ Rendered(cli[p].plan, r) \in Content
    BY <1>1, <1>2, TemplateTypes
  <2>2. /\ c \in Process /\ c.pc = "templates" /\ c.cmd = cli[p].cmd /\ c.plan = cli[p].plan
        /\ c.todo = cli[p].todo /\ c.left = cli[p].left \ {r}
        /\ c.booted = cli[p].booted /\ c.alone = cli[p].alone
        /\ c.before = cli[p].before
    BY <1>0 DEF Process
  <2>3. cli' = [cli EXCEPT ![p] = c]
    BY <1>2
  <2> HIDE DEF c
  <2>4. /\ cli' \in [Proc -> Process] /\ cli'[p] = c
        /\ \A q \in Proc \ {p} : cli'[q] = cli[q]
    BY <1>0, <2>2, <2>3
  <2> DEFINE h == Held(home, hooked)
             g == Held(home', hooked')
  <2>5. /\ home' \in [Rel -> Content] /\ hooked' \subseteq Rel
        /\ h \in [Rel -> SUBSET Content] /\ g = [h EXCEPT ![r] = {Rendered(cli[p].plan, r)}]
        /\ g[r] = {Rendered(cli[p].plan, r)} /\ \A q \in Rel : q # r => g[q] = h[q]
    <3>1. h \in [Rel -> SUBSET Content]
      BY <1>0, HeldIs
    <3>2. g = [h EXCEPT ![r] = {Rendered(cli[p].plan, r)}]
      <4>1. g = Held([home EXCEPT ![r] = Rendered(cli[p].plan, r)], hooked \ {r})
        BY <1>2, Zenon
      <4>2. home \in [Rel -> Content] /\ r \in Rel /\ Rendered(cli[p].plan, r) \in Content
        BY <1>0, <2>1
      <4>3. Held([home EXCEPT ![r] = Rendered(cli[p].plan, r)], hooked \ {r})
              = [h EXCEPT ![r] = {Rendered(cli[p].plan, r)}]
        BY <4>2 DEF Held
      <4> QED
        BY <4>1, <4>3, Zenon
    <3> HIDE DEF h, g
    <3> QED
      BY <1>0, <1>2, <2>1, <3>1, <3>2
  <2>6. Only(p) /\ run'[Boot] = run[Boot]
    BY <1>0, <2>4 DEF Only
  <2>7. Typed'
    BY <1>0, <2>4, <2>5 DEF ProfilesInv, Typed, bounds
  <2>8. Role(cli'[p], run'[p])
    BY <1>0, <1>1, <2>2, <2>4 DEF Role, Loaded
  <2>9. Roles'
    BY <1>0, <2>6, <2>8, RolesStep DEF Roles
  <2>10. BootInv'
    BY <1>0, <2>6, BootSame
  <2>11. ASSUME Alone(p)
         PROVE  /\ BootOf(cli[p])' /\ HomeOf(cli[p], Held(home, hooked))'
                /\ ApplyOf(cli[p], run[p], tree, Held(home, hooked), shell)'
                /\ StartOf(cli[p], run[Boot], vm, Held(home, hooked), shell)'
    <3>1. vm \notin {"data", "boot"} /\ run[Boot].pc = "idle"
      BY <1>0, <2>11 DEF Alone, BootOf, Roles
    <3>2. BootOf(cli[p])'
      BY <1>0, <3>1 DEF BootOf
    <3>3. HomeOf(cli[p], h)
      BY <2>11 DEF Alone
    <3> HIDE DEF h, g
    <3>4. \A q \in Rel : ~Ships(cli[p].plan, q) => cli[p].before[q] \in g[q]
      BY <2>1, <2>5, <3>3 DEF HomeOf
    <3>5. ASSUME NEW q \in Templates(cli[p].plan) \ (cli[p].left \ {r})
          PROVE  Rendered(cli[p].plan, q) \in g[q]
      <4>1. q \in Rel
        BY <1>1, TemplateTypes
      <4>2. q # r => Rendered(cli[p].plan, q) \in h[q]
        BY <1>0, <3>3 DEF HomeOf
      <4> QED
        BY <2>5, <4>1, <4>2
    <3>6. HomeOf(cli[p], Held(home, hooked))'
      BY <2>2, <2>4, <3>4, <3>5 DEF HomeOf, g
    <3>7. ApplyOf(cli[p], run[p], tree, Held(home, hooked), shell)'
      BY <1>0, <2>2, <2>4, <2>11 DEF Alone, ApplyOf
    <3>8. cli[p].booted => Applied(cli[p].plan, h, shell)
      BY <1>0, <2>11 DEF Alone, StartOf, h
    <3>9. cli[p].booted => Applied(cli[p].plan, g, shell)
      BY <1>1, <2>1, <2>5, <3>8, AppliedBeside
    <3>10. StartOf(cli[p], run[Boot], vm, Held(home, hooked), shell)'
      BY <1>0, <2>2, <2>4, <3>1, <3>9 DEF StartOf, g
    <3> QED
      BY <3>2, <3>6, <3>7, <3>10
  <2>12. Watched(cli'[p]) => Watched(cli[p])
    BY <1>0, <2>2, <2>4 DEF Watched
  <2>13. AloneInv'
    BY <1>0, <2>6, <2>11, <2>12, AloneStep
  <2> QED
    BY <2>7, <2>9, <2>10, <2>13 DEF ProfilesInv
<1>3. ASSUME cli[p].left = {}, UNCHANGED <<home, hooked>>,
             NEW pc \in {"applier", "done"}, Goto(p, pc),
             pc = "applier" <=> cli[p].cmd = "apply"
      PROVE  ProfilesInv'
  <2>0. /\ pc \in CliPc /\ pc # "idle" /\ UNCHANGED guest
        /\ UNCHANGED <<commands, edits, faults>>
    BY <1>0, <1>3 DEF CliPc, guest, bounds
  <2>1. /\ cli'[p].pc = pc /\ cli'[p].cmd = cli[p].cmd
        /\ cli'[p].plan = cli[p].plan
        /\ cli'[p].todo = cli[p].todo /\ cli'[p].left = cli[p].left
        /\ cli'[p].booted = cli[p].booted /\ cli'[p].before = cli[p].before
    BY <1>0, <1>3, <2>0, GotoIs
  <2>2. Role(cli'[p], run[p])
    BY <1>0, <1>1, <1>3, <2>1 DEF Role, Loaded
  <2>3. ASSUME Alone(p)
        PROVE  /\ BootOf(cli[p])' /\ HomeOf(cli[p], Held(home, hooked))'
               /\ ApplyOf(cli[p], run[p], tree, Held(home, hooked), shell)'
               /\ StartOf(cli[p], run[Boot], vm, Held(home, hooked), shell)'
    <3>1. vm \notin {"data", "boot"} /\ run[Boot].pc = "idle"
      BY <1>0, <2>3 DEF Alone, BootOf, Roles
    <3>2. BootOf(cli[p])'
      BY <1>0, <3>1 DEF BootOf
    <3>3. HomeOf(cli[p], Held(home, hooked))'
      BY <1>0, <1>3, <2>1, <2>3 DEF Alone, HomeOf
    <3>4. cli[p].cmd = "apply" => Delivered(cli[p].plan, {}, tree)
      BY <1>0, <2>3 DEF Alone, ApplyOf
    <3>5. ApplyOf(cli[p], run[p], tree, Held(home, hooked), shell)'
      BY <1>0, <1>3, <2>1, <3>4 DEF ApplyOf
    <3>6. cli[p].booted => Applied(cli[p].plan, Held(home, hooked), shell)
      BY <1>0, <2>3 DEF Alone, StartOf
    <3>7. StartOf(cli[p], run[Boot], vm, Held(home, hooked), shell)'
      BY <1>0, <1>3, <2>1, <3>1, <3>6 DEF StartOf
    <3> QED
      BY <3>2, <3>3, <3>5, <3>7
  <2> QED
    BY <1>0, <1>3, <2>0, <2>2, <2>3, MoveKeeps
<1>4. CASE cli[p].left # {} /\ LET r == FirstOf(cli[p].left) IN
             /\ home' = [home EXCEPT ![r] = Rendered(cli[p].plan, r)]
             /\ hooked' = hooked \ {r}
             /\ cli' = [cli EXCEPT ![p].left = @ \ {r}]
  <2>1. FirstOf(cli[p].left) \in cli[p].left
    BY <1>4 DEF FirstOf
  <2> QED
    BY <1>2, <1>4, <2>1
<1>5. CASE /\ cli[p].left = {} /\ UNCHANGED <<home, hooked>>
           /\ Goto(p, IF cli[p].cmd = "apply" THEN "applier" ELSE "done")
  BY <1>3, <1>5
<1> QED
  BY <1>4, <1>5 DEF PushTemplate

(* A command begins: whoever is active is disturbed by it.                  *)
LEMMA DisturbedIs ==
  ASSUME NEW c \in Process
  PROVE  /\ Fresh \in Process /\ Fresh.pc = "idle" /\ ~Fresh.booted
         /\ Disturbed(c) \in Process /\ ~Disturbed(c).alone /\ ~Watched(Disturbed(c))
         /\ c.pc \in AllReturned => Disturbed(c) = Fresh
         /\ c.pc \notin AllReturned =>
              /\ Disturbed(c).pc = c.pc /\ Disturbed(c).cmd = c.cmd
              /\ Disturbed(c).plan = c.plan /\ Disturbed(c).todo = c.todo
              /\ Disturbed(c).left = c.left /\ Disturbed(c).booted = c.booted
         /\ \A x : Role(c, x) => Role(Disturbed(c), x)
<1>1. Blank \in [Rel -> Content]
  BY ContentTypes
<1>2. Fresh \in Process /\ Fresh.pc = "idle" /\ ~Fresh.booted /\ ~Fresh.alone
  BY <1>1 DEF Fresh, Process, CliPc
<1>3. CASE c.pc \in AllReturned
  <2>1. Disturbed(c) = Fresh
    BY <1>3 DEF Disturbed
  <2>2. ASSUME NEW x, Role(c, x) PROVE Role(Fresh, x)
    BY <1>2, <1>3, <2>2 DEF Role, AllReturned
  <2> QED
    BY <1>2, <1>3, <2>1, <2>2 DEF Watched
<1>4. CASE c.pc \notin AllReturned
  <2> DEFINE d == [c EXCEPT !.alone = FALSE, !.before = Blank]
  <2>1. Disturbed(c) = d
    BY <1>4 DEF Disturbed
  <2>2. /\ d \in Process /\ d.pc = c.pc /\ d.cmd = c.cmd /\ d.plan = c.plan
        /\ d.todo = c.todo /\ d.left = c.left /\ d.booted = c.booted /\ ~d.alone
    BY <1>1 DEF Process
  <2> HIDE DEF d
  <2>3. ASSUME NEW x, Role(c, x) PROVE Role(d, x)
    BY <2>2, <2>3 DEF Role, Loaded
  <2> QED
    BY <1>2, <1>4, <2>1, <2>2, <2>3 DEF Watched
<1> QED
  BY <1>3, <1>4

LEMMA BeginKeeps ==
  ASSUME ProfilesInv, NEW p \in Proc, NEW cmd \in {"start", "apply"}, Begin(p, cmd)
  PROVE  ProfilesInv'
<1> DEFINE alone == Quiet /\ \A q \in Proc \ {p} : Returned(q)
<1>0. /\ cli \in [Proc -> Process] /\ run \in [Runner -> Run] /\ Roles /\ BootInv
      /\ host \in Plans /\ home \in [Rel -> Content]
      /\ UNCHANGED <<host, vm, boot, tree, run, home, shell, met, edits, faults>>
      /\ hooked' = {} /\ run[p].pc = "idle" /\ commands' \in 0 .. MaxCommands
  BY ProfilesAssumption DEF ProfilesInv, Typed, Begin
<1>1. PICK a \in BOOLEAN : a <=> alone
  OBVIOUS
<1> DEFINE c == [pc |-> IF LoadAll(host) THEN "status" ELSE "error", cmd |-> cmd,
                 plan |-> host, todo |-> GuestFiles(host), left |-> Templates(host),
                 booted |-> FALSE, alone |-> a, before |-> IF a THEN home ELSE Blank]
<1>2. cli' = [q \in Proc |-> IF q # p THEN Disturbed(cli[q]) ELSE c]
  BY <1>1, Zenon DEF Begin
<1>3. /\ c \in Process /\ c.pc = (IF LoadAll(host) THEN "status" ELSE "error")
      /\ c.cmd = cmd /\ c.plan = host /\ c.todo = GuestFiles(host)
      /\ c.left = Templates(host) /\ ~c.booted /\ (c.alone <=> alone)
      /\ alone => c.before = home
  <2>1. Templates(host) \subseteq Rel /\ Blank \in [Rel -> Content]
    BY <1>0, TemplateTypes, ContentTypes
  <2> HIDE DEF alone
  <2> QED
    BY <1>0, <1>1, <2>1 DEF Process, CliPc
<1> HIDE DEF c
<1>4. /\ cli' \in [Proc -> Process] /\ cli'[p] = c
      /\ \A q \in Proc \ {p} : cli'[q] = Disturbed(cli[q])
  BY <1>0, <1>2, <1>3, DisturbedIs
<1>5. Typed'
  BY <1>0, <1>4 DEF ProfilesInv, Typed
<1>6. Role(c, run[p])
  BY <1>0, <1>3 DEF Role, Loaded
<1>7. Roles'
  <2>1. \A q \in Proc : Role(cli'[q], run[q])
    BY <1>0, <1>4, <1>6, DisturbedIs DEF Roles
  <2> QED
    BY <1>0, <2>1 DEF Roles
<1>8. BootInv'
  BY <1>0, BootSame
<1>9. AloneInv'
  <2> SUFFICES ASSUME NEW w \in Proc, Watched(cli'[w]) PROVE Alone(w)'
    BY DEF AloneInv, Watched
  <2>1. w = p
    BY <1>0, <1>4, DisturbedIs
  <2>2. alone
    BY <1>3, <1>4, <2>1 DEF Watched
  <2>3. vm \notin {"data", "boot"} /\ \A q \in Runner : run[q].pc = "idle"
    BY <2>2 DEF Quiet
  <2>4. AtRest(p)'
    <3>1. ASSUME NEW q \in Proc \ {p} PROVE cli'[q].pc = "idle" /\ run'[q].pc = "idle"
      BY <1>0, <1>4, <2>2, <2>3, DisturbedIs, Runners DEF Returned
    <3> QED
      BY <3>1 DEF AtRest, Returned, AllReturned
  <2>5. BootOf(cli[p])'
    BY <1>0, <2>3 DEF BootOf
  <2>6. HomeOf(cli[p], Held(home, hooked))'
    <3>1. c.before = home /\ \A r \in Rel : home[r] \in Held(home, {})[r]
      BY <1>0, <1>3, <2>2, HeldIs
    <3> QED
      BY <1>0, <1>3, <1>4, <3>1 DEF HomeOf
  <2>7. ApplyOf(cli[p], run[p], tree, Held(home, hooked), shell)'
    BY <1>3, <1>4 DEF ApplyOf
  <2>8. StartOf(cli[p], run[Boot], vm, Held(home, hooked), shell)'
    BY <1>3, <1>4 DEF StartOf
  <2> QED
    BY <2>1, <2>4, <2>5, <2>6, <2>7, <2>8 DEF Alone
<1> QED
  BY <1>5, <1>7, <1>8, <1>9 DEF ProfilesInv

-----------------------------------------------------------------------------
(* The steps of Lima and of the users                                       *)

LEMMA AloneFrame ==
  ASSUME AloneInv, cli' = cli, \A q \in Proc : run'[q] = run[q],
         \A w \in Proc : Watched(cli[w]) /\ Alone(w) =>
           /\ BootOf(cli[w])' /\ HomeOf(cli[w], Held(home, hooked))'
           /\ ApplyOf(cli[w], run[w], tree, Held(home, hooked), shell)'
           /\ StartOf(cli[w], run[Boot], vm, Held(home, hooked), shell)'
  PROVE  AloneInv'
<1> SUFFICES ASSUME NEW w \in Proc, Watched(cli[w]) PROVE Alone(w)'
  BY DEF AloneInv, Watched
<1>1. Alone(w)
  BY DEF AloneInv
<1>2. AtRest(w)'
  BY <1>1 DEF Alone, AtRest, Returned
<1> QED
  BY <1>1, <1>2 DEF Alone

LEMMA WriteDataKeeps ==
  ASSUME ProfilesInv, WriteData
  PROVE  ProfilesInv'
<1>0. /\ cli \in [Proc -> Process] /\ Roles /\ BootInv /\ AloneInv
      /\ tree \in Tree /\ boot \in Stored /\ boot.left \subseteq GuestFiles(boot.plan)
      /\ vm = "data" /\ UNCHANGED <<host, cli, run, home, hooked, shell, met, bounds>>
  BY DEF ProfilesInv, Typed, WriteData
<1>1. boot.plan \in Plans /\ run[Boot].pc = "idle"
  BY <1>0 DEF Stored, Roles
<1>2. ASSUME tree' \in Tree, boot' \in Stored, boot'.plan = boot.plan,
             boot'.left \subseteq boot.left, vm' \in {"data", "boot"}, BootInv'
      PROVE  ProfilesInv'
  <2>1. Typed'
    BY <1>0, <1>2 DEF ProfilesInv, Typed, bounds
  <2>2. Roles'
    BY <1>0, <1>1 DEF Roles
  <2>3. ASSUME NEW w \in Proc, Alone(w)
        PROVE  /\ BootOf(cli[w])' /\ HomeOf(cli[w], Held(home, hooked))'
               /\ ApplyOf(cli[w], run[w], tree, Held(home, hooked), shell)'
               /\ StartOf(cli[w], run[Boot], vm, Held(home, hooked), shell)'
    <3>1. cli[w].cmd # "apply" /\ cli[w].pc = "await" /\ BootOf(cli[w])'
      BY <1>0, <1>2, <2>3 DEF Alone, BootOf
    <3>2. HomeOf(cli[w], Held(home, hooked))'
      BY <1>0, <2>3 DEF Alone, HomeOf
    <3>3. ApplyOf(cli[w], run[w], tree, Held(home, hooked), shell)'
      BY <1>0, <3>1 DEF ApplyOf
    <3>4. StartOf(cli[w], run[Boot], vm, Held(home, hooked), shell)'
      BY <1>0, <1>1, <1>2, <3>1 DEF StartOf
    <3> QED
      BY <3>1, <3>2, <3>3, <3>4
  <2>4. AloneInv'
    BY <1>0, <2>3, AloneFrame
  <2> QED
    BY <1>2, <2>1, <2>2, <2>4 DEF ProfilesInv
<1>3. ASSUME NEW f \in Foremost(boot.left), tree' = Put(tree, f),
             boot' = [boot EXCEPT !.left = @ \ {f}], UNCHANGED vm
      PROVE  ProfilesInv'
  <2>1. f \in GuestFiles(boot.plan)
    BY <1>0, <1>3 DEF Foremost
  <2>2. boot' \in Stored /\ boot'.plan = boot.plan /\ boot'.left = boot.left \ {f}
    BY <1>0, <1>3 DEF Stored
  <2>3. tree' \in Tree
    BY <1>0, <1>1, <1>3, <2>1, PutKeeps
  <2>4. ASSUME Delivered(boot.plan, boot.left, tree)
        PROVE  Delivered(boot.plan, boot.left \ {f}, tree')
    <3>1. ASSUME NEW g \in GuestFiles(boot.plan) \ (boot.left \ {f})
          PROVE  Has(Put(tree, f), g)
      <4>1. g = f \/ Has(tree, g)
        BY <2>4 DEF Delivered
      <4> QED
        BY <1>0, <1>1, <2>1, <4>1, PutKeeps
    <3> QED
      BY <1>3, <3>1 DEF Delivered
  <2>5. BootInv'
    BY <1>0, <1>3, <2>2, <2>4 DEF BootInv
  <2> QED
    BY <1>0, <1>2, <1>3, <2>2, <2>3, <2>5
<1>4. ASSUME boot.left = {}, vm' = "boot", UNCHANGED <<tree, boot>>
      PROVE  ProfilesInv'
  <2>1. BootInv'
    BY <1>0, <1>1, <1>4 DEF BootInv
  <2> QED
    BY <1>0, <1>2, <1>4, <2>1
<1> QED
  BY <1>3, <1>4 DEF WriteData

LEMMA StopVmKeeps ==
  ASSUME ProfilesInv, StopVm
  PROVE  ProfilesInv'
<1>0. /\ cli \in [Proc -> Process] /\ Roles
      /\ vm' = "off" /\ run' = [q \in Runner |-> Rest]
      /\ UNCHANGED <<host, boot, tree, home, hooked, shell, met, bounds>>
  BY DEF ProfilesInv, Typed, StopVm
<1>1. run' \in [Runner -> Run] /\ \A q \in Runner : run'[q].pc = "idle"
  BY <1>0, RestTypes
<1>2. ASSUME NEW p \in Proc
      PROVE  cli'[p] \in Process /\ ~Watched(cli'[p]) /\ Role(cli'[p], run'[p])
  <2> DEFINE d == Disturbed(cli[p])
             pc == IF d.pc = "applying" THEN "error" ELSE d.pc
             c == [d EXCEPT !.pc = pc]
  <2>1. cli'[p] = c
    BY DEF StopVm
  <2>2. d \in Process /\ ~d.alone /\ Role(d, run[p])
    BY <1>0, DisturbedIs DEF Roles
  <2> HIDE DEF d
  <2>3. pc \in CliPc /\ pc \in {d.pc, "error"} /\ (pc = "idle" => d.pc = "idle")
    BY <2>2 DEF Process, CliPc
  <2> HIDE DEF pc
  <2>4. /\ c \in Process /\ c.pc = pc /\ c.cmd = d.cmd /\ c.plan = d.plan
        /\ c.todo = d.todo /\ c.left = d.left /\ c.booted = d.booted /\ c.alone = d.alone
    BY <2>2, <2>3 DEF Process
  <2> HIDE DEF c
  <2>5. ~Watched(c)
    BY <2>2, <2>3, <2>4 DEF Watched
  <2>6. Role(c, run'[p])
    BY <1>1, <2>2, <2>3, <2>4, Runners DEF Role, Loaded
  <2> QED
    BY <2>1, <2>4, <2>5, <2>6
<1>3. cli' \in [Proc -> Process]
  <2>1. DOMAIN cli' = Proc /\ cli' = [p \in Proc |-> cli'[p]]
    BY DEF StopVm
  <2> QED
    BY <1>2, <2>1
<1>4. Typed'
  BY <1>0, <1>1, <1>3 DEF ProfilesInv, Typed, bounds
<1>5. Roles'
  BY <1>1, <1>2, Runners DEF Roles
<1>6. BootInv'
  BY <1>0 DEF BootInv
<1>7. AloneInv'
  BY <1>2 DEF AloneInv, Watched
<1> QED
  BY <1>4, <1>5, <1>6, <1>7 DEF ProfilesInv

LEMMA EditsKeep ==
  ASSUME ProfilesInv, EditHost \/ \E r \in Rel : AgentEdits(r)
  PROVE  ProfilesInv'
<1>0. /\ cli \in [Proc -> Process] /\ Roles /\ BootInv /\ AloneInv
  BY DEF ProfilesInv, Typed
<1>1. CASE EditHost
  <2>0. UNCHANGED <<guest, cli, commands, faults>>
    BY <1>1 DEF EditHost
  <2>1. Typed'
    <3>1. host' \in Plans /\ edits' \in 0 .. MaxEdits
      BY <1>1, ProfilesAssumption DEF ProfilesInv, Typed, EditHost
    <3> QED
      BY <2>0, <3>1 DEF ProfilesInv, Typed, guest
  <2>2. Roles' /\ BootInv'
    BY <1>0, <2>0 DEF Roles, BootInv, guest
  <2>3. ASSUME NEW w \in Proc, Alone(w)
        PROVE  /\ BootOf(cli[w])' /\ HomeOf(cli[w], Held(home, hooked))'
               /\ ApplyOf(cli[w], run[w], tree, Held(home, hooked), shell)'
               /\ StartOf(cli[w], run[Boot], vm, Held(home, hooked), shell)'
    BY <2>0, <2>3 DEF Alone, BootOf, HomeOf, ApplyOf, StartOf, guest
  <2>4. AloneInv'
    BY <1>0, <2>0, <2>3, AloneFrame DEF guest
  <2> QED
    BY <2>1, <2>2, <2>4 DEF ProfilesInv
<1>2. ASSUME NEW r \in Rel, AgentEdits(r) PROVE ProfilesInv'
  <2>0. /\ vm = "up" /\ home' = [home EXCEPT ![r] = Edited]
        /\ cli' = [p \in Proc |-> Disturbed(cli[p])]
        /\ UNCHANGED <<host, vm, boot, tree, run, shell, hooked, met, commands, faults>>
    BY <1>2 DEF AgentEdits
  <2>1. /\ cli' \in [Proc -> Process]
        /\ \A p \in Proc : ~Watched(cli'[p]) /\ Role(cli'[p], run[p])
    BY <1>0, <2>0, DisturbedIs DEF Roles
  <2>2. home' \in [Rel -> Content] /\ edits' \in 0 .. MaxEdits
    BY <1>2, <2>0, ContentTypes, ProfilesAssumption DEF ProfilesInv, Typed, AgentEdits
  <2>3. Typed'
    BY <2>0, <2>1, <2>2 DEF ProfilesInv, Typed
  <2>4. Roles' /\ BootInv'
    BY <1>0, <2>0, <2>1 DEF Roles, BootInv
  <2>5. AloneInv'
    BY <2>1 DEF AloneInv, Watched
  <2> QED
    BY <2>3, <2>4, <2>5 DEF ProfilesInv
<1> QED
  BY <1>1, <1>2

-----------------------------------------------------------------------------
(* The steps of a run                                                       *)

\* From x to y a run gets on with every plan whose tree is there.
Progress(x, y, t, h, g, s, u) ==
  \A plan \in Plans : OnPlan(x, plan) /\ Delivered(plan, {}, t) =>
    /\ OnPlan(y, plan)
    /\ Reached(x, plan, h, s) => Reached(y, plan, g, u)
    /\ LoadAll(plan) =>
         \A r \in Rel : ~Ships(plan, r) \/ r \in Templates(plan) => h[r] \subseteq g[r]

\* What an undisturbed command's run and an undisturbed boot's run work on.
LEMMA RunWorksOn ==
  ASSUME ProfilesInv, NEW q \in Runner, run[q].pc # "idle", NEW w \in Proc,
         Watched(cli[w]), q # Boot \/ Alone(w)
  PROVE  /\ Alone(w) /\ Loaded(cli[w])
         /\ Delivered(cli[w].plan, {}, tree) /\ OnPlan(run[q], cli[w].plan)
         /\ Reached(run[q], cli[w].plan, Held(home, hooked), shell)
         /\ q # Boot => /\ w = q /\ cli[w].pc = "applying" /\ cli[w].cmd = "apply"
                        /\ ~cli[w].booted
         /\ q = Boot => /\ cli[w].pc = "await" /\ cli[w].booted /\ ~met
                        /\ boot.plan = cli[w].plan /\ vm = "boot"
<1>0. AloneInv /\ Roles /\ BootInv
  BY DEF ProfilesInv
<1>1. CASE q # Boot
  <2>1. q \in Proc /\ w = q
    BY <1>0, <1>1, Lone DEF Runner
  <2>2. /\ cli[w].pc = "applying" /\ cli[w].cmd = "apply" /\ ~cli[w].booted
        /\ Loaded(cli[w])
    BY <1>0, <2>1 DEF Roles, Role, Watched
  <2>3. Alone(w)
    BY <1>0 DEF AloneInv
  <2> QED
    BY <1>1, <2>1, <2>2, <2>3 DEF Alone, ApplyOf
<1>2. CASE q = Boot
  <2>1. vm = "boot"
    BY <1>0, <1>2 DEF Roles
  <2>2. cli[w].pc = "await" /\ cli[w].booted /\ ~met /\ boot.plan = cli[w].plan
    BY <1>2, <2>1 DEF Alone, BootOf
  <2>3. Loaded(cli[w])
    BY <1>0, <2>2 DEF Roles, Role
  <2>4. Delivered(boot.plan, {}, tree) /\ OnPlan(run[q], boot.plan)
    BY <1>0, <1>2, <2>1, <2>2 DEF BootInv
  <2>5. Reached(run[q], cli[w].plan, Held(home, hooked), shell)
    BY <1>2, <2>2 DEF Alone, StartOf
  <2> QED
    BY <1>2, <2>1, <2>2, <2>3, <2>4, <2>5
<1> QED
  BY <1>1, <1>2

LEMMA RunKeeps ==
  ASSUME ProfilesInv, NEW q \in Runner, run[q].pc # "idle",
         NEW y \in Run, run' = [run EXCEPT ![q] = y], y.pc # "idle",
         y.pc = "install" => y.now \in Name,
         UNCHANGED <<host, vm, boot, tree, cli, met, bounds>>,
         home' \in [Rel -> Content], hooked' \subseteq Rel, shell' \in Nat,
         Progress(run[q], y, tree, Held(home, hooked), Held(home', hooked'), shell, shell')
  PROVE  ProfilesInv'
<1>0. /\ cli \in [Proc -> Process] /\ run \in [Runner -> Run]
      /\ Roles /\ BootInv /\ AloneInv
  BY DEF ProfilesInv, Typed
<1>1. /\ run' \in [Runner -> Run] /\ run'[q] = y
      /\ \A r \in Runner \ {q} : run'[r] = run[r]
  BY <1>0, RunSet
<1>2. Typed'
  BY <1>1 DEF ProfilesInv, Typed, bounds
<1>3. Roles'
  <2>1. \A p \in Proc : run'[p].pc # "idle" => run[p].pc # "idle"
    BY <1>1, Runners
  <2>2. run'[Boot].pc # "idle" => run[Boot].pc # "idle"
    BY <1>1, Runners
  <2> QED
    BY <1>0, <2>1, <2>2 DEF Roles, Role
<1>4. BootInv'
  <2>1. CASE q = Boot
    <3>1. ASSUME vm = "boot", ~met PROVE OnPlan(y, boot.plan)
      <4>1. boot.plan \in Plans
        BY DEF ProfilesInv, Typed, Stored
      <4>2. OnPlan(run[q], boot.plan) /\ Delivered(boot.plan, {}, tree)
        BY <1>0, <2>1, <3>1 DEF BootInv
      <4> QED
        BY <4>1, <4>2 DEF Progress
    <3> QED
      BY <1>0, <1>1, <2>1, <3>1 DEF BootInv
  <2>2. CASE q # Boot
    <3>1. run'[Boot] = run[Boot]
      BY <1>1, <2>2, Runners
    <3> QED
      BY <1>0, <3>1, BootSame
  <2> QED
    BY <2>1, <2>2
<1>5. ASSUME NEW w \in Proc, Watched(cli[w]), q # Boot \/ Alone(w)
      PROVE  /\ BootOf(cli[w])' /\ HomeOf(cli[w], Held(home, hooked))'
             /\ ApplyOf(cli[w], run[w], tree, Held(home, hooked), shell)'
             /\ StartOf(cli[w], run[Boot], vm, Held(home, hooked), shell)'
  <2>1. /\ Alone(w) /\ Loaded(cli[w])
        /\ Delivered(cli[w].plan, {}, tree) /\ OnPlan(run[q], cli[w].plan)
        /\ Reached(run[q], cli[w].plan, Held(home, hooked), shell)
        /\ q # Boot => /\ w = q /\ cli[w].pc = "applying" /\ cli[w].cmd = "apply"
                       /\ ~cli[w].booted
        /\ q = Boot => /\ cli[w].pc = "await" /\ cli[w].booted /\ ~met
                       /\ boot.plan = cli[w].plan /\ vm = "boot"
    BY <1>5, RunWorksOn
  <2>2. cli[w].plan \in Plans /\ LoadAll(cli[w].plan)
    BY <2>1 DEF Loaded
  <2>3. /\ OnPlan(y, cli[w].plan) /\ Reached(y, cli[w].plan, Held(home', hooked'), shell')
        /\ \A r \in Rel : ~Ships(cli[w].plan, r) \/ r \in Templates(cli[w].plan)
                            => Held(home, hooked)[r] \subseteq Held(home', hooked')[r]
    BY <2>1, <2>2 DEF Progress
  <2>4. BootOf(cli[w])'
    BY <2>1 DEF Alone, BootOf
  <2>5. HomeOf(cli[w], Held(home, hooked))'
    <3>1. Templates(cli[w].plan) \subseteq Rel
      BY <2>2, TemplateTypes
    <3> QED
      BY <2>1, <2>3, <3>1 DEF Alone, HomeOf
  <2>6. ApplyOf(cli[w], run[w], tree, Held(home, hooked), shell)'
    BY <1>1, <2>1, <2>3 DEF ApplyOf
  <2>7. StartOf(cli[w], run[Boot], vm, Held(home, hooked), shell)'
    BY <1>1, <2>1, <2>3 DEF StartOf
  <2> QED
    BY <2>4, <2>5, <2>6, <2>7
<1>6. AloneInv'
  <2>1. CASE q = Boot
    <3>1. \A p \in Proc : run'[p] = run[p]
      BY <1>1, <2>1, Runners
    <3> QED
      BY <1>0, <1>5, <3>1, AloneFrame
  <2>2. CASE q # Boot
    <3>1. q \in Proc /\ Only(q)
      BY <1>1, <2>2, Runners DEF Runner, Only
    <3>2. Watched(cli'[q]) => Watched(cli[q])
      OBVIOUS
    <3>3. Alone(q) /\ Watched(cli[q]) /\ Watched(cli'[q]) =>
            /\ BootOf(cli[q])' /\ HomeOf(cli[q], Held(home, hooked))'
            /\ ApplyOf(cli[q], run[q], tree, Held(home, hooked), shell)'
            /\ StartOf(cli[q], run[Boot], vm, Held(home, hooked), shell)'
      BY <1>5, <3>1
    <3> QED
      BY <1>0, <3>1, <3>2, <3>3, AloneStep
  <2> QED
    BY <2>1, <2>2
<1> QED
  BY <1>2, <1>3, <1>4, <1>6 DEF ProfilesInv

(* A run that ends: only one that is through with its plan ends well.       *)
LEMMA FinishKeeps ==
  ASSUME ProfilesInv, NEW q \in Runner, run[q].pc # "idle", NEW ok \in BOOLEAN,
         Finish(q, ok), shell' = shell, home' \in [Rel -> Content], hooked' \subseteq Rel,
         \A plan \in Plans : OnPlan(run[q], plan) /\ Delivered(plan, {}, tree)
                               => UNCHANGED <<home, hooked>>,
         met' \in BOOLEAN, met => met', q # Boot => met' = met,
         q = Boot /\ ~ok => met', faults' \in 0 .. MaxFaults,
         ok => run[q].pc = "hooks" /\ run[q].hooks = Nobody,
         ok /\ q # Boot => ~run[q].failed
  PROVE  ProfilesInv'
<1> DEFINE ran == IF q = Boot THEN {} ELSE run[q].ran
           y == [Rest EXCEPT !.ran = ran]
<1>0. /\ cli \in [Proc -> Process] /\ run \in [Runner -> Run]
      /\ Roles /\ BootInv /\ AloneInv
      /\ UNCHANGED <<host, boot, tree, commands, edits>>
  BY DEF ProfilesInv, Typed, Finish
<1>1. y \in Run /\ y.pc = "idle" /\ (q # Boot => y.ran = run[q].ran)
  <2>1. ran \in SUBSET Name
    BY <1>0 DEF Run
  <2> HIDE DEF ran
  <2>2. y \in Run /\ y.pc = "idle" /\ y.ran = ran
    BY <2>1, RestTypes
  <2> QED
    BY <2>2 DEF ran
<1>2. run' = [run EXCEPT ![q] = y]
  BY DEF Finish
<1> HIDE DEF y, ran
<1>3. /\ run' \in [Runner -> Run] /\ run'[q] = y
      /\ \A r \in Runner \ {q} : run'[r] = run[r]
  BY <1>0, <1>1, <1>2, RunSet
<1>4. vm' = (IF q # Boot THEN vm ELSE IF ok THEN "up" ELSE "failed")
  BY DEF Finish
<1>5. /\ cli' \in [Proc -> Process]
      /\ \A p \in Proc : p # q \/ cli[p].pc # "applying" => cli'[p] = cli[p]
      /\ q \in Proc /\ cli[q].pc = "applying" =>
           /\ cli'[q].pc = (IF ok THEN "done" ELSE "error")
           /\ cli'[q].cmd = cli[q].cmd /\ cli'[q].plan = cli[q].plan
           /\ cli'[q].todo = cli[q].todo /\ cli'[q].left = cli[q].left
           /\ cli'[q].booted = cli[q].booted /\ cli'[q].alone = cli[q].alone
           /\ cli'[q].before = cli[q].before
  <2> DEFINE pc == IF ok THEN "done" ELSE "error"
  <2>1. pc \in CliPc
    BY DEF CliPc
  <2> HIDE DEF pc
  <2>2. cli' = [p \in Proc |-> IF p = q /\ cli[p].pc = "applying"
                               THEN [cli[p] EXCEPT !.pc = pc] ELSE cli[p]]
    BY DEF Finish, At, pc
  <2>3. ASSUME NEW c \in Process
        PROVE  [c EXCEPT !.pc = pc] \in Process
    BY <2>1 DEF Process
  <2>4. cli' \in [Proc -> Process]
    BY <1>0, <2>2, <2>3
  <2>5. \A p \in Proc : p # q \/ cli[p].pc # "applying" => cli'[p] = cli[p]
    BY <2>2
  <2>6. q \in Proc /\ cli[q].pc = "applying" => cli'[q] = [cli[q] EXCEPT !.pc = pc]
    BY <2>2
  <2>7. ASSUME q \in Proc, cli[q].pc = "applying"
        PROVE  /\ cli'[q].pc = pc
               /\ cli'[q].cmd = cli[q].cmd /\ cli'[q].plan = cli[q].plan
               /\ cli'[q].todo = cli[q].todo /\ cli'[q].left = cli[q].left
               /\ cli'[q].booted = cli[q].booted /\ cli'[q].alone = cli[q].alone
               /\ cli'[q].before = cli[q].before
    <3>1. cli[q] \in Process /\ cli'[q] = [cli[q] EXCEPT !.pc = pc]
      BY <1>0, <2>6, <2>7
    <3> QED
      BY <2>1, <3>1 DEF Process
  <2> QED
    BY <2>4, <2>5, <2>7 DEF pc
<1>6. Typed'
  <2>1. \A r \in Runner : run'[r].pc = "install" => run'[r].now \in Name
    BY <1>1, <1>3 DEF ProfilesInv, Typed
  <2>2. vm' \in {"off", "data", "boot", "up", "failed"}
    BY <1>4 DEF ProfilesInv, Typed
  <2> QED
    BY <1>0, <1>3, <1>5, <2>1, <2>2 DEF ProfilesInv, Typed
<1>7. CASE q = Boot
  <2>0. vm = "boot" /\ cli' = cli /\ \A p \in Proc : run'[p] = run[p]
    <3>1. \A p \in Proc : cli'[p] = cli[p]
      BY <1>5, <1>7, Runners
    <3> QED
      BY <1>0, <1>3, <1>5, <1>7, <3>1, Runners DEF Roles
  <2>1. Roles'
    BY <1>0, <1>1, <1>3, <1>7, <2>0 DEF Roles
  <2>2. BootInv'
    BY <1>4, <1>7 DEF BootInv
  <2>3. ASSUME NEW w \in Proc, Watched(cli[w]), Alone(w)
        PROVE  /\ BootOf(cli[w])' /\ HomeOf(cli[w], Held(home, hooked))'
               /\ ApplyOf(cli[w], run[w], tree, Held(home, hooked), shell)'
               /\ StartOf(cli[w], run[Boot], vm, Held(home, hooked), shell)'
    <3>1. /\ Loaded(cli[w]) /\ Delivered(cli[w].plan, {}, tree)
          /\ OnPlan(run[q], cli[w].plan)
          /\ Reached(run[q], cli[w].plan, Held(home, hooked), shell)
          /\ cli[w].pc = "await" /\ cli[w].booted
      BY <1>7, <2>3, RunWorksOn
    <3>2. cli[w].plan \in Plans /\ UNCHANGED <<home, hooked>>
      BY <3>1 DEF Loaded
    <3>3. BootOf(cli[w])'
      BY <1>4, <1>7 DEF BootOf
    <3>4. HomeOf(cli[w], Held(home, hooked))'
      BY <2>0, <2>3, <3>2 DEF Alone, HomeOf
    <3>5. ApplyOf(cli[w], run[w], tree, Held(home, hooked), shell)'
      BY <2>0, <3>1 DEF ApplyOf
    <3>6. ok => Applied(cli[w].plan, Held(home, hooked), shell)
      BY <3>1, <3>2, ReachedAll
    <3>7. StartOf(cli[w], run[Boot], vm, Held(home, hooked), shell)'
      BY <1>1, <1>3, <1>4, <1>7, <2>0, <3>1, <3>2, <3>6 DEF StartOf
    <3> QED
      BY <3>3, <3>4, <3>5, <3>7
  <2>4. AloneInv'
    BY <1>0, <2>0, <2>3, AloneFrame
  <2> QED
    BY <1>6, <2>1, <2>2, <2>4 DEF ProfilesInv
<1>8. CASE q # Boot
  <2>0. /\ q \in Proc /\ Only(q) /\ run'[Boot] = run[Boot] /\ vm' = vm /\ met' = met
    BY <1>3, <1>4, <1>5, <1>8, Runners DEF Runner, Only
  <2>1. Role(cli[q], run[q])
    BY <1>0, <2>0 DEF Roles
  <2>2. Role(cli'[q], run'[q])
    BY <1>1, <1>3, <1>5, <2>0, <2>1 DEF Role, Loaded
  <2>3. Roles'
    BY <1>0, <2>0, <2>2, RolesStep DEF Roles
  <2>4. BootInv'
    BY <1>0, <2>0, BootSame
  <2>5. Watched(cli'[q]) => Watched(cli[q])
    BY <1>5, <2>0 DEF Watched
  <2>6. ASSUME Watched(cli[q]), Alone(q)
        PROVE  /\ BootOf(cli[q])' /\ HomeOf(cli[q], Held(home, hooked))'
               /\ ApplyOf(cli[q], run[q], tree, Held(home, hooked), shell)'
               /\ StartOf(cli[q], run[Boot], vm, Held(home, hooked), shell)'
    <3>1. /\ Loaded(cli[q]) /\ Delivered(cli[q].plan, {}, tree)
          /\ OnPlan(run[q], cli[q].plan)
          /\ Reached(run[q], cli[q].plan, Held(home, hooked), shell)
          /\ cli[q].pc = "applying" /\ cli[q].cmd = "apply" /\ ~cli[q].booted
      BY <1>8, <2>0, <2>6, RunWorksOn
    <3>2. cli[q].plan \in Plans /\ UNCHANGED <<home, hooked>>
      BY <3>1 DEF Loaded
    <3>3. /\ cli'[q].pc \in {"done", "error"} /\ (cli'[q].pc = "done" => ok)
          /\ cli'[q].cmd = "apply" /\ cli'[q].plan = cli[q].plan
          /\ cli'[q].left = cli[q].left /\ ~cli'[q].booted
          /\ cli'[q].before = cli[q].before
      BY <1>5, <2>0, <3>1
    <3>4. BootOf(cli[q])'
      BY <1>0, <2>0, <2>6, <3>1, <3>3 DEF Alone, BootOf
    <3>5. HomeOf(cli[q], Held(home, hooked))'
      BY <2>6, <3>1, <3>2, <3>3 DEF Alone, HomeOf
    <3>6. ok => Applied(cli[q].plan, Held(home, hooked), shell)
      BY <3>1, <3>2, ReachedAll
    <3>7. ok => Hooked(cli[q].plan, run[q].ran)
      <4>1. ok => DOMAIN run[q].hooks = {} /\ ~run[q].failed
        BY <1>8, ListTypes
      <4> QED
        BY <3>1, <4>1 DEF OnPlan, Hooked
    <3>8. ApplyOf(cli[q], run[q], tree, Held(home, hooked), shell)'
      BY <1>1, <1>3, <1>8, <3>2, <3>3, <3>6, <3>7 DEF ApplyOf
    <3>9. StartOf(cli[q], run[Boot], vm, Held(home, hooked), shell)'
      BY <3>3 DEF StartOf
    <3> QED
      BY <3>4, <3>5, <3>8, <3>9
  <2>7. AloneInv'
    BY <1>0, <2>0, <2>5, <2>6, AloneStep
  <2> QED
    BY <1>6, <2>3, <2>4, <2>7 DEF ProfilesInv
<1> QED
  BY <1>7, <1>8

LEMMA StartApplierKeeps ==
  ASSUME ProfilesInv, NEW q \in Runner, StartApplier(q)
  PROVE  ProfilesInv'
<1> DEFINE y == [Rest EXCEPT !.pc = "files", !.names = tree.env.files,
                             !.hooks = tree.env.hooks, !.shell = tree.env.shell]
<1>0. /\ cli \in [Proc -> Process] /\ run \in [Runner -> Run]
      /\ Roles /\ BootInv /\ AloneInv /\ run[q].pc = "idle"
      /\ UNCHANGED <<host, vm, boot, tree, home, hooked, shell, met, bounds>>
  BY DEF ProfilesInv, Typed, StartApplier
<1>1. tree.env \in Env
  BY DEF ProfilesInv, Typed, Tree
<1>2. run' = [run EXCEPT ![q] = y]
  BY DEF StartApplier, ProfileFiles
<1>3. /\ y \in Run /\ y.pc = "files"
      /\ \A plan \in Plans : Delivered(plan, {}, tree) =>
           OnPlan(y, plan) /\ Reached(y, plan, Held(home, hooked), shell)
  <2>1. /\ y \in Run /\ y.pc = "files"
        /\ \A plan \in Plans : tree.env = ManifestEnv(plan) =>
             /\ OnPlan(y, plan)
             /\ \A i \in DOMAIN plan, r \in Rel : ~Through(y, plan, i, r)
    BY <1>1, RunStarts
  <2> HIDE DEF y
  <2>2. ASSUME NEW plan \in Plans, Delivered(plan, {}, tree)
        PROVE  OnPlan(y, plan) /\ Reached(y, plan, Held(home, hooked), shell)
    <3>1. \A f \in GuestFiles(plan) : Has(tree, f)
      BY <2>2 DEF Delivered
    <3>2. tree.env = ManifestEnv(plan)
      BY <3>1, AllDelivered
    <3> QED
      BY <2>1, <3>2 DEF Reached
  <2> QED
    BY <2>1, <2>2
<1> HIDE DEF y
<1>4. /\ run' \in [Runner -> Run] /\ run'[q] = y
      /\ \A r \in Runner \ {q} : run'[r] = run[r]
  BY <1>0, <1>2, <1>3, RunSet
<1>5. \A r \in Runner : run'[r].pc = "install" => run'[r].now \in Name
  BY <1>3, <1>4 DEF ProfilesInv, Typed
<1>6. CASE q = Boot /\ vm = "boot" /\ UNCHANGED cli
  <2>0. \A p \in Proc : run'[p] = run[p]
    BY <1>4, <1>6, Runners
  <2>1. Typed'
    BY <1>0, <1>4, <1>5, <1>6 DEF ProfilesInv, Typed, bounds
  <2>2. Roles'
    BY <1>0, <1>6, <2>0 DEF Roles
  <2>3. BootInv'
    <3>1. boot.plan \in Plans
      BY DEF ProfilesInv, Typed, Stored
    <3> QED
      BY <1>0, <1>3, <1>4, <1>6, <3>1 DEF BootInv
  <2>4. ASSUME NEW w \in Proc, Alone(w)
        PROVE  /\ BootOf(cli[w])' /\ HomeOf(cli[w], Held(home, hooked))'
               /\ ApplyOf(cli[w], run[w], tree, Held(home, hooked), shell)'
               /\ StartOf(cli[w], run[Boot], vm, Held(home, hooked), shell)'
    <3>1. cli[w].pc = "await" /\ ~met /\ boot.plan = cli[w].plan
      BY <1>6, <2>4 DEF Alone, BootOf
    <3>2. cli[w].plan \in Plans /\ Delivered(cli[w].plan, {}, tree)
      BY <1>0, <1>6, <3>1 DEF BootInv, Roles, Role, Loaded
    <3>3. BootOf(cli[w])' /\ HomeOf(cli[w], Held(home, hooked))'
      BY <1>0, <1>6, <2>4 DEF Alone, BootOf, HomeOf
    <3>4. ApplyOf(cli[w], run[w], tree, Held(home, hooked), shell)'
      BY <1>6, <3>1 DEF ApplyOf
    <3>5. StartOf(cli[w], run[Boot], vm, Held(home, hooked), shell)'
      BY <1>0, <1>3, <1>4, <1>6, <3>1, <3>2 DEF StartOf
    <3> QED
      BY <3>3, <3>4, <3>5
  <2>5. AloneInv'
    BY <1>0, <1>6, <2>0, <2>4, AloneFrame
  <2> QED
    BY <2>1, <2>2, <2>3, <2>5 DEF ProfilesInv
<1>7. CASE q # Boot /\ vm # "off" /\ At(q, "applier") /\ Goto(q, "applying")
  <2>0. q \in Proc /\ cli[q].pc = "applier" /\ "applying" \in CliPc
    BY <1>7 DEF Runner, At, CliPc
  <2>1. /\ cli' \in [Proc -> Process] /\ cli'[q].pc = "applying"
        /\ \A p \in Proc \ {q} : cli'[p] = cli[p]
        /\ cli'[q].cmd = cli[q].cmd /\ cli'[q].plan = cli[q].plan
        /\ cli'[q].todo = cli[q].todo /\ cli'[q].left = cli[q].left
        /\ cli'[q].booted = cli[q].booted /\ cli'[q].alone = cli[q].alone
        /\ cli'[q].before = cli[q].before
    BY <1>0, <1>7, <2>0, GotoIs
  <2>2. Only(q) /\ run'[Boot] = run[Boot] /\ ~Returned(q)
    BY <1>4, <1>7, <2>0, <2>1, Runners DEF Only, Returned, AllReturned
  <2>3. Role(cli[q], run[q]) /\ cli[q].cmd = "apply" /\ ~cli[q].booted /\ Loaded(cli[q])
    BY <1>0, <2>0 DEF Roles, Role
  <2>4. Typed'
    BY <1>0, <1>4, <1>5, <2>1 DEF ProfilesInv, Typed, bounds
  <2>5. Role(cli'[q], run'[q])
    BY <2>1, <2>3 DEF Role, Loaded
  <2>6. Roles'
    BY <1>0, <2>0, <2>2, <2>5, RolesStep DEF Roles
  <2>7. BootInv'
    BY <1>0, <2>2, BootSame
  <2>8. ASSUME Alone(q)
        PROVE  /\ BootOf(cli[q])' /\ HomeOf(cli[q], Held(home, hooked))'
               /\ ApplyOf(cli[q], run[q], tree, Held(home, hooked), shell)'
               /\ StartOf(cli[q], run[Boot], vm, Held(home, hooked), shell)'
    <3>1. vm \notin {"data", "boot"}
      BY <2>3, <2>8 DEF Alone, BootOf
    <3>2. BootOf(cli[q])'
      BY <1>0, <3>1 DEF BootOf
    <3>3. HomeOf(cli[q], Held(home, hooked))'
      BY <1>0, <2>0, <2>1, <2>8 DEF Alone, HomeOf
    <3>4. cli[q].plan \in Plans /\ Delivered(cli[q].plan, {}, tree)
      BY <2>0, <2>3, <2>8 DEF Alone, ApplyOf, Loaded
    <3>5. ApplyOf(cli[q], run[q], tree, Held(home, hooked), shell)'
      BY <1>0, <1>3, <1>4, <2>1, <3>4 DEF ApplyOf
    <3>6. StartOf(cli[q], run[Boot], vm, Held(home, hooked), shell)'
      BY <2>1, <2>3 DEF StartOf
    <3> QED
      BY <3>2, <3>3, <3>5, <3>6
  <2>9. Watched(cli'[q]) => Watched(cli[q])
    BY <2>0, <2>1 DEF Watched
  <2>10. AloneInv'
    BY <1>0, <2>0, <2>2, <2>8, <2>9, AloneStep
  <2> QED
    BY <2>4, <2>6, <2>7, <2>10 DEF ProfilesInv
<1> QED
  BY <1>6, <1>7 DEF StartApplier

LEMMA NextProfileKeeps ==
  ASSUME ProfilesInv, NEW q \in Runner, NextProfile(q)
  PROVE  ProfilesInv'
<1>0. /\ run \in [Runner -> Run] /\ tree \in Tree /\ run[q].pc = "files"
      /\ home \in [Rel -> Content] /\ hooked \subseteq Rel /\ shell \in Nat
      /\ UNCHANGED <<host, vm, boot, tree, cli, home, hooked, shell, met, bounds>>
  BY DEF ProfilesInv, Typed, NextProfile
<1>1. run[q] \in Run
  BY <1>0
<1>2. ASSUME NEW i \in First(run[q].names),
             LET n == run[q].names[i] IN
             run' = [run EXCEPT ![q] = [@ EXCEPT
                      !.now = n,
                      !.names = Without(run[q].names, i),
                      !.rels = tree.list[n],
                      !.pc = "install"]]
      PROVE  ProfilesInv'
  <2> DEFINE rels == tree.list[run[q].names[i]]
             y == [run[q] EXCEPT !.now = run[q].names[i], !.names = Without(@, i),
                                 !.rels = rels, !.pc = "install"]
  <2>1. i \in DOMAIN run[q].names /\ run[q].names[i] \in Name
    BY <1>1, <1>2, ListTypes DEF First, Run
  <2>2. rels \in SUBSET Rel
    BY <1>0, <2>1 DEF Tree
  <2>3. run' = [run EXCEPT ![q] = y]
    BY <1>0, <1>2
  <2>4. ASSUME NEW plan \in Plans, OnPlan(run[q], plan), Delivered(plan, {}, tree)
        PROVE  rels = plan[i].files
    <3>1. i \in DOMAIN plan /\ plan[i].files # {} /\ run[q].names[i] = plan[i].name
      BY <2>1, <2>4 DEF OnPlan
    <3>2. \A f \in GuestFiles(plan) : Has(tree, f)
      BY <2>4 DEF Delivered
    <3> QED
      BY <3>1, <3>2, AllDelivered
  <2> HIDE DEF rels
  <2>5. /\ y \in Run /\ y.pc = "install" /\ y.now \in Name
        /\ \A plan \in Plans : OnPlan(run[q], plan) /\ rels = plan[i].files =>
             /\ OnPlan(y, plan)
             /\ \A j \in DOMAIN plan, r \in Rel :
                  Through(y, plan, j, r) <=> Through(run[q], plan, j, r)
    <3>1. Without(run[q].names, i) \in Lists /\ run[q].names \in Lists
      BY <1>1, <2>1, ListTypes DEF Run
    <3>2. y \in Run /\ Opens(run[q], y, i, rels)
      BY <1>1, <2>1, <2>2, <3>1 DEF Run, RunPc, Opens
    <3> HIDE DEF y
    <3> QED
      BY <1>0, <1>1, <2>2, <3>2, NextProfileOf
  <2> HIDE DEF y
  <2>6. Progress(run[q], y, tree, Held(home, hooked), Held(home', hooked'), shell, shell')
    BY <1>0, <2>4, <2>5, ReachedSame DEF Progress
  <2> QED
    BY <1>0, <2>3, <2>5, <2>6, RunKeeps
<1>3. ASSUME run[q].names = Nobody, run' = [run EXCEPT ![q].pc = "shell"]
      PROVE  ProfilesInv'
  <2> DEFINE y == [run[q] EXCEPT !.pc = "shell"]
  <2>1. run' = [run EXCEPT ![q] = y] /\ "shell" \in RunPc
    BY <1>3 DEF RunPc
  <2>2. /\ y \in Run /\ y.pc = "shell"
        /\ \A plan \in Plans : OnPlan(run[q], plan) =>
             /\ OnPlan(y, plan)
             /\ \A j \in DOMAIN plan, r \in Rel :
                  Through(y, plan, j, r) <=> Through(run[q], plan, j, r)
    BY <1>0, <1>1, <1>3, <2>1, PhaseOf
  <2> HIDE DEF y
  <2>3. Progress(run[q], y, tree, Held(home, hooked), Held(home', hooked'), shell, shell')
    BY <1>0, <2>2, ReachedSame DEF Progress
  <2> QED
    BY <1>0, <2>1, <2>2, <2>3, RunKeeps
<1> QED
  BY <1>2, <1>3 DEF NextProfile

(* What a run on a delivered plan installs is there, and is shipped.        *)
LEMMA FileIsThere ==
  ASSUME NEW plan \in Plans, NEW x \in Run, x.pc = "install", OnPlan(x, plan),
         NEW r \in x.rels, NEW t, Delivered(plan, {}, t)
  PROVE  /\ t.file[x.now][r] # 0
         /\ \E k \in DOMAIN plan : r \in plan[k].files
<1>1. PICK k \in DOMAIN plan : x.now = plan[k].name /\ x.rels \subseteq plan[k].files
  BY DEF OnPlan
<1>2. \A f \in GuestFiles(plan) : Has(t, f)
  BY DEF Delivered
<1>3. t.file[x.now][r] = plan[k].edition
  BY <1>1, <1>2, AllDelivered
<1>4. plan[k].edition # 0
  BY PlanTypes
<1> QED
  BY <1>1, <1>3, <1>4

LEMMA InstallFileKeeps ==
  ASSUME ProfilesInv, NEW q \in Runner, InstallFile(q)
  PROVE  ProfilesInv'
<1>0. /\ run \in [Runner -> Run] /\ tree \in Tree /\ BootInv /\ Roles
      /\ run[q].pc = "install" /\ run[q].now \in Name
      /\ home \in [Rel -> Content] /\ hooked \subseteq Rel
      /\ shell \in Nat /\ met \in BOOLEAN
      /\ faults \in 0 .. MaxFaults /\ UNCHANGED <<shell, met, faults>>
  BY DEF ProfilesInv, Typed, InstallFile
<1>1. run[q] \in Run /\ run[q].rels \subseteq Rel
  BY <1>0 DEF Run
<1>2. ASSUME NEW r \in run[q].rels, home' = [home EXCEPT ![r] = Installed(run[q].now, r)],
             hooked' = hooked \ {r}, tree.file[run[q].now][r] = 0, Finish(q, FALSE)
      PROVE  ProfilesInv'
  <2>1. home' \in [Rel -> Content] /\ hooked' \subseteq Rel
    BY <1>0, <1>2, ContentTypes DEF Installed
  <2>2. ~\E plan \in Plans : OnPlan(run[q], plan) /\ Delivered(plan, {}, tree)
    BY <1>0, <1>1, <1>2, FileIsThere
  <2>3. q = Boot => met
    <3>1. boot.plan \in Plans
      BY DEF ProfilesInv, Typed, Stored
    <3> QED
      BY <1>0, <2>2, <3>1 DEF BootInv, Roles
  <2> QED
    BY <1>0, <1>2, <2>1, <2>2, <2>3, FinishKeeps
<1>3. ASSUME NEW r \in run[q].rels, home' = [home EXCEPT ![r] = Installed(run[q].now, r)],
             hooked' = hooked \ {r}, tree.file[run[q].now][r] # 0,
             run' = [run EXCEPT ![q].rels = @ \ {r}],
             UNCHANGED <<host, vm, boot, tree, cli, commands, edits>>
      PROVE  ProfilesInv'
  <2> DEFINE y == [run[q] EXCEPT !.rels = @ \ {r}]
  <2>1. run' = [run EXCEPT ![q] = y]
    BY <1>3
  <2> DEFINE h == Held(home, hooked)
             g == Held(home', hooked')
             v == <<"file", run[q].now, tree.file[run[q].now][r]>>
  <2>2. home' = [home EXCEPT ![r] = v]
    BY <1>3 DEF Installed
  <2>3. /\ home' \in [Rel -> Content] /\ hooked' \subseteq Rel
        /\ h \in [Rel -> SUBSET Content] /\ g = [h EXCEPT ![r] = {v}]
    <3>1. tree.file[run[q].now][r] \in Nat \ {0}
      BY <1>0, <1>1, <1>3 DEF Tree
    <3>2. v \in Content
      BY <1>0, <3>1, ContentTypes
    <3> HIDE DEF y, v
    <3>3. home' \in [Rel -> Content] /\ hooked' \subseteq Rel
      BY <1>0, <1>1, <1>3, <2>2, <3>2
    <3>4. h \in [Rel -> SUBSET Content]
      BY <1>0, HeldIs
    <3>5. g = [h EXCEPT ![r] = {v}]
      <4>1. g = Held([home EXCEPT ![r] = v], hooked \ {r})
        BY <1>3, <2>2, Zenon
      <4>2. home \in [Rel -> Content] /\ r \in Rel
        BY <1>0, <1>1, <1>3
      <4>3. Held([home EXCEPT ![r] = v], hooked \ {r}) = [h EXCEPT ![r] = {v}]
        BY <3>2, <4>2 DEF Held
      <4> QED
        BY <4>1, <4>3, Zenon
    <3> QED
      BY <3>3, <3>4, <3>5
  <2>4. /\ y \in Run /\ y.pc = "install" /\ y.now = run[q].now
        /\ \A plan \in Plans : OnPlan(run[q], plan) => OnPlan(y, plan)
    BY <1>0, <1>1, <1>3, InstalledOf
  <2>5. ASSUME NEW plan \in Plans, OnPlan(run[q], plan), Delivered(plan, {}, tree)
        PROVE  /\ OnPlan(y, plan)
               /\ Reached(run[q], plan, h, shell) => Reached(y, plan, g, shell')
               /\ LoadAll(plan) =>
                    \A s \in Rel : ~Ships(plan, s) \/ s \in Templates(plan)
                                     => h[s] \subseteq g[s]
    <3> HIDE DEF h, g
    <3>1. Reached(run[q], plan, h, shell) => Reached(y, plan, g, shell)
      <4>1. y = [run[q] EXCEPT !.rels = @ \ {r}]
        OBVIOUS
      <4> HIDE DEF y
      <4> QED
        BY <1>0, <1>1, <2>3, <2>5, <4>1, ReachedMore
    <3>2. \A s \in Rel : s # r => g[s] = h[s]
      BY <2>3
    <3>3. PICK k \in DOMAIN plan : r \in plan[k].files
      BY <1>0, <1>1, <1>3, <2>5, FileIsThere
    <3>4. LoadAll(plan) => r \notin Templates(plan) /\ Ships(plan, r)
      BY <3>3, FilesAreNotTemplates
    <3> HIDE DEF y
    <3> QED
      BY <1>0, <2>4, <2>5, <3>1, <3>2, <3>4
  <2> HIDE DEF y
  <2>6. Progress(run[q], y, tree, Held(home, hooked), Held(home', hooked'), shell, shell')
    BY <2>5 DEF Progress
  <2> QED
    BY <1>0, <1>3, <2>1, <2>3, <2>4, <2>6, RunKeeps DEF bounds
<1>4. ASSUME run[q].rels = {}, run' = [run EXCEPT ![q].pc = "files"],
             UNCHANGED <<host, vm, boot, tree, cli, home, hooked, commands, edits>>
      PROVE  ProfilesInv'
  <2> DEFINE y == [run[q] EXCEPT !.pc = "files"]
  <2>1. run' = [run EXCEPT ![q] = y] /\ "files" \in RunPc
    BY <1>4 DEF RunPc
  <2>2. /\ y \in Run /\ y.pc = "files"
        /\ \A plan \in Plans : OnPlan(run[q], plan) =>
             /\ OnPlan(y, plan)
             /\ \A j \in DOMAIN plan, r \in Rel :
                  Through(y, plan, j, r) <=> Through(run[q], plan, j, r)
    BY <1>0, <1>1, <1>4, <2>1, PhaseOf
  <2> HIDE DEF y
  <2>3. Progress(run[q], y, tree, Held(home, hooked), Held(home', hooked'), shell, shell')
    BY <1>0, <1>4, <2>2, ReachedSame DEF Progress
  <2> QED
    BY <1>0, <1>4, <2>1, <2>2, <2>3, RunKeeps DEF bounds
<1>5. run[q].rels # {} => FirstOf(run[q].rels) \in run[q].rels
  BY DEF FirstOf
<1> QED
  BY <1>2, <1>3, <1>4, <1>5 DEF InstallFile

LEMMA SetShellKeeps ==
  ASSUME ProfilesInv, NEW q \in Runner, SetShell(q)
  PROVE  ProfilesInv'
<1> DEFINE y == [run[q] EXCEPT !.pc = "hooks"]
<1>0. /\ run \in [Runner -> Run] /\ run[q].pc = "shell" /\ home \in [Rel -> Content]
      /\ hooked \subseteq Rel /\ shell \in Nat
      /\ UNCHANGED <<host, vm, boot, tree, cli, home, hooked, met, bounds>>
      /\ shell' = IF run[q].shell = 0 THEN shell ELSE run[q].shell
  BY DEF ProfilesInv, Typed, SetShell
<1>1. run[q] \in Run /\ run[q].shell \in Nat
  BY <1>0 DEF Run
<1>2. run' = [run EXCEPT ![q] = y] /\ "hooks" \in RunPc
  BY DEF SetShell, RunPc
<1>3. /\ y \in Run /\ y.pc = "hooks"
      /\ \A plan \in Plans : OnPlan(run[q], plan) =>
           /\ OnPlan(y, plan)
           /\ \A j \in DOMAIN plan, r \in Rel :
                Through(y, plan, j, r) <=> Through(run[q], plan, j, r)
  BY <1>0, <1>1, <1>2, PhaseOf
<1> HIDE DEF y
<1>4. ASSUME NEW plan \in Plans, OnPlan(run[q], plan),
             Reached(run[q], plan, Held(home, hooked), shell)
      PROVE  Reached(y, plan, Held(home, hooked), shell')
  <2>1. ManifestEnv(plan).shell \in {0, shell'}
    BY <1>0, <1>4 DEF OnPlan
  <2> QED
    BY <1>3, <1>4, <2>1 DEF Reached
<1>5. Progress(run[q], y, tree, Held(home, hooked), Held(home', hooked'), shell, shell')
  BY <1>0, <1>3, <1>4 DEF Progress
<1>6. shell' \in Nat
  BY <1>0, <1>1
<1> QED
  BY <1>0, <1>2, <1>3, <1>5, <1>6, RunKeeps

LEMMA RunHookKeeps ==
  ASSUME ProfilesInv, NEW q \in Runner, RunHook(q)
  PROVE  ProfilesInv'
<1>0. /\ run \in [Runner -> Run] /\ run[q].pc = "hooks" /\ home \in [Rel -> Content]
      /\ hooked \subseteq Rel /\ shell \in Nat
      /\ UNCHANGED <<host, vm, boot, tree, cli, shell, met, bounds>>
  BY DEF ProfilesInv, Typed, RunHook
<1>1. run[q] \in Run
  BY <1>0
<1>2. PICK i \in First(run[q].hooks), ok \in {TRUE, FALSE}, w \in SUBSET Rel :
        /\ home' = [r \in Rel |-> IF r \in w THEN HookWrote ELSE home[r]]
        /\ hooked' = hooked \union w
        /\ run' = [run EXCEPT ![q] = [@ EXCEPT
                    !.hooks = Without(run[q].hooks, i),
                    !.failed = HookFailed(q, ok),
                    !.ran = IF ok THEN run[q].ran \union {run[q].hooks[i]} ELSE run[q].ran]]
  BY DEF RunHook
<1> DEFINE y == [run[q] EXCEPT !.hooks = Without(@, i), !.failed = run[q].failed \/ ~ok,
                               !.ran = IF ok THEN @ \union {run[q].hooks[i]} ELSE @]
<1>3. run' = [run EXCEPT ![q] = y]
  BY <1>0, <1>2 DEF HookFailed
<1>4. /\ y \in Run /\ y.pc = "hooks"
      /\ \A plan \in Plans : OnPlan(run[q], plan) =>
           /\ OnPlan(y, plan)
           /\ \A j \in DOMAIN plan, r \in Rel :
                Through(y, plan, j, r) <=> Through(run[q], plan, j, r)
  <2>1. /\ i \in DOMAIN run[q].hooks /\ run[q].hooks \in Lists
        /\ ok \in BOOLEAN
    BY <1>1 DEF First, Run
  <2>2. run[q].hooks[i] \in Name /\ Without(run[q].hooks, i) \in Lists
    BY <2>1, ListTypes
  <2> DEFINE failed == run[q].failed \/ ~ok
             ran == IF ok THEN run[q].ran \union {run[q].hooks[i]} ELSE run[q].ran
  <2>3. failed \in BOOLEAN /\ ran \in SUBSET Name
    BY <1>1, <2>2 DEF Run
  <2>4. y = [run[q] EXCEPT !.hooks = Without(run[q].hooks, i), !.failed = failed, !.ran = ran]
    OBVIOUS
  <2> HIDE DEF failed, ran, y
  <2>5. /\ y \in Run /\ y.pc = "hooks" /\ y.now = run[q].now /\ y.rels = run[q].rels
        /\ y.names = run[q].names /\ y.hooks = Without(run[q].hooks, i)
        /\ y.shell = run[q].shell /\ y.failed = failed /\ y.ran = ran
    BY <1>0, <1>1, <2>2, <2>3, <2>4 DEF Run
  <2>6. Hooks(run[q], y, i, ok)
    BY <2>5 DEF Hooks, failed, ran
  <2> QED
    BY <1>0, <1>1, <2>1, <2>5, <2>6, HookOf
<1> HIDE DEF y
<1>5. Progress(run[q], y, tree, Held(home, hooked), Held(home', hooked'), shell, shell')
  <2>1. \A r \in Rel : Held(home, hooked)[r] \subseteq Held(home', hooked')[r]
    BY <1>0, <1>2, HeldMore
  <2>2. ASSUME NEW plan \in Plans, OnPlan(run[q], plan),
               Reached(run[q], plan, Held(home, hooked), shell)
        PROVE  Reached(y, plan, Held(home', hooked'), shell')
    <3>1. Reached(y, plan, Held(home, hooked), shell)
      BY <1>0, <1>4, <2>2, ReachedSame
    <3> QED
      BY <1>0, <2>1, <3>1, ReachedWider
  <2> QED
    BY <1>4, <2>1, <2>2 DEF Progress
<1>6. home' \in [Rel -> Content] /\ hooked' \subseteq Rel
  BY <1>0, <1>2, HeldMore
<1> QED
  BY <1>0, <1>3, <1>4, <1>5, <1>6, RunKeeps

LEMMA EndsKeep ==
  ASSUME ProfilesInv, NEW q \in Runner, EndRun(q) \/ RunFails(q)
  PROVE  ProfilesInv'
<1>0. /\ home \in [Rel -> Content] /\ hooked \subseteq Rel /\ met \in BOOLEAN
      /\ faults \in 0 .. MaxFaults /\ run \in [Runner -> Run]
  BY DEF ProfilesInv, Typed
<1>1. CASE EndRun(q)
  <2>1. PICK ok \in BOOLEAN : ok <=> ~(Strict(q) /\ run[q].failed)
    OBVIOUS
  <2>2. run[q].failed \in BOOLEAN
    BY <1>0 DEF Run
  <2>3. q # Boot => q \in Proc
    BY DEF Runner
  <2>4. Finish(q, ok) /\ (ok /\ q # Boot => ~run[q].failed) /\ (q = Boot => ok)
    BY <1>1, <2>1, <2>2, <2>3, Runners DEF EndRun, Strict
  <2>5. /\ run[q].pc = "hooks" /\ run[q].hooks = Nobody
        /\ UNCHANGED <<home, hooked, shell, met, faults>>
    BY <1>1 DEF EndRun
  <2> QED
    BY <1>0, <2>4, <2>5, FinishKeeps
<1>2. CASE RunFails(q)
  <2>1. /\ run[q].pc # "idle" /\ Finish(q, FALSE) /\ UNCHANGED <<home, hooked, shell>>
        /\ met' = (met \/ q = Boot)
    BY <1>2 DEF RunFails
  <2>2. faults' \in 0 .. MaxFaults
    BY <1>0, <1>2, ProfilesAssumption DEF RunFails
  <2> QED
    BY <1>0, <2>1, <2>2, FinishKeeps
<1> QED
  BY <1>1, <1>2

-----------------------------------------------------------------------------
(* The invariant and the theorems                                           *)

LEMMA InitProfiles == Init => ProfilesInv
<1> SUFFICES ASSUME Init PROVE ProfilesInv
  OBVIOUS
<1>0. /\ host \in Plans /\ vm = "off" /\ boot = [plan |-> host, left |-> GuestFiles(host)]
      /\ tree = EmptyTree /\ cli = [p \in Proc |-> Fresh]
      /\ run = [q \in Runner |-> Rest] /\ home = Blank /\ hooked = {}
      /\ shell = 0 /\ met = FALSE
      /\ commands = 0 /\ edits = 0 /\ faults = 0
  BY DEF Init
<1>1. /\ Fresh \in Process /\ Fresh.pc = "idle" /\ ~Fresh.booted
  <2>1. Blank \in [Rel -> Content]
    BY ContentTypes
  <2> QED
    BY <2>1 DEF Fresh, Process, CliPc
<1>2. boot \in Stored /\ boot.left \subseteq GuestFiles(boot.plan)
  BY <1>0 DEF Stored
<1>3. /\ cli \in [Proc -> Process] /\ run \in [Runner -> Run]
      /\ \A q \in Runner : run[q].pc = "idle"
  BY <1>0, <1>1, RestTypes
<1>4. Typed
  <2>1. /\ home \in [Rel -> Content] /\ hooked \subseteq Rel
        /\ shell \in Nat /\ met \in BOOLEAN /\ tree \in Tree
    BY <1>0, ContentTypes, EmptyTreeTypes
  <2>2. commands \in 0 .. MaxCommands /\ edits \in 0 .. MaxEdits /\ faults \in 0 .. MaxFaults
    BY <1>0, ProfilesAssumption
  <2> QED
    BY <1>0, <1>2, <1>3, <2>1, <2>2 DEF Typed
<1>5. Roles
  BY <1>0, <1>1, <1>3, Runners DEF Roles, Role
<1>6. BootInv
  BY <1>0 DEF BootInv
<1>7. AloneInv
  BY <1>0, <1>1 DEF AloneInv, Watched
<1> QED
  BY <1>4, <1>5, <1>6, <1>7 DEF ProfilesInv

LEMMA StutterKeeps == ProfilesInv /\ UNCHANGED vars => ProfilesInv'
<1> SUFFICES ASSUME ProfilesInv, UNCHANGED vars PROVE ProfilesInv'
  OBVIOUS
<1>0. UNCHANGED <<host, vm, boot, tree, run, home, hooked, shell, met, cli, commands,
                edits, faults>>
  BY DEF vars, guest, bounds
<1>1. Typed' /\ Roles' /\ BootInv'
  BY <1>0 DEF ProfilesInv, Typed, Roles, BootInv
<1>2. ASSUME NEW w \in Proc, Alone(w)
      PROVE  /\ BootOf(cli[w])' /\ HomeOf(cli[w], Held(home, hooked))'
             /\ ApplyOf(cli[w], run[w], tree, Held(home, hooked), shell)'
             /\ StartOf(cli[w], run[Boot], vm, Held(home, hooked), shell)'
  BY <1>0, <1>2 DEF Alone, BootOf, HomeOf, ApplyOf, StartOf
<1>3. AloneInv'
  BY <1>0, <1>2, AloneFrame DEF ProfilesInv
<1> QED
  BY <1>1, <1>3 DEF ProfilesInv

LEMMA NextKeeps == ProfilesInv /\ [Next]_vars => ProfilesInv'
<1> SUFFICES ASSUME ProfilesInv, [Next]_vars PROVE ProfilesInv'
  OBVIOUS
<1>1. CASE WriteData
  BY <1>1, WriteDataKeeps
<1>2. CASE StopVm
  BY <1>2, StopVmKeeps
<1>3. CASE EditHost \/ \E r \in Rel : AgentEdits(r)
  BY <1>3, EditsKeep
<1>4. ASSUME NEW p \in Proc, CliStep(p) PROVE ProfilesInv'
  BY <1>4, BeginKeeps, StatusKeeps, LaunchKeeps, AwaitReadyKeeps, DownKeeps,
     ClearTreeKeeps, PushFileKeeps, PushTemplateKeeps, InterruptKeeps DEF CliStep
<1>5. ASSUME NEW q \in Runner, RunStep(q) PROVE ProfilesInv'
  BY <1>5, StartApplierKeeps, NextProfileKeeps, InstallFileKeeps, SetShellKeeps,
     RunHookKeeps, EndsKeep DEF RunStep
<1>6. CASE UNCHANGED vars
  BY <1>6, StutterKeeps
<1> QED
  BY <1>1, <1>2, <1>3, <1>4, <1>5, <1>6 DEF Next

LEMMA Invariance == Spec => []ProfilesInv
<1> QED
  BY InitProfiles, NextKeeps, PTL DEF Spec

(* A command that nobody disturbed and that reached the guest's applier     *)
(* leaves the home as its plan declares it, and the shell.                  *)
LEMMA HomeHolds == ProfilesInv => HomeIsPlan
<1> SUFFICES ASSUME ProfilesInv, NEW p \in Proc, Undisturbed(p, {"done"})
             PROVE  /\ \A r \in Rel : Ships(cli[p].plan, r) =>
                         home[r] = Declared(cli[p].plan, r) \/ r \in hooked
                    /\ ManifestEnv(cli[p].plan).shell \in {0, shell}
  BY DEF HomeIsPlan
<1>0. cli[p].pc = "done" /\ cli[p].alone /\ (cli[p].booted \/ cli[p].cmd = "apply")
  BY DEF Undisturbed
<1>1. Alone(p) /\ Role(cli[p], run[p])
  BY <1>0 DEF ProfilesInv, AloneInv, Watched, Roles
<1>2. cli[p].plan \in Plans /\ LoadAll(cli[p].plan)
  BY <1>0, <1>1 DEF Role, Loaded
<1>3. Applied(cli[p].plan, Held(home, hooked), shell)
  BY <1>0, <1>1 DEF Alone, ApplyOf, StartOf
<1>4. \A r \in Templates(cli[p].plan) : Rendered(cli[p].plan, r) \in Held(home, hooked)[r]
  BY <1>0, <1>1 DEF Alone, HomeOf
<1>5. ASSUME NEW r \in Rel, Ships(cli[p].plan, r)
      PROVE  Declared(cli[p].plan, r) \in Held(home, hooked)[r]
  <2>1. CASE /\ r \in Templates(cli[p].plan)
             /\ Declared(cli[p].plan, r) = Rendered(cli[p].plan, r)
    BY <1>4, <2>1
  <2>2. CASE \E i \in DOMAIN cli[p].plan :
               /\ r \in cli[p].plan[i].files
               /\ Declared(cli[p].plan, r) = FileOf(cli[p].plan[i])
               /\ \A j \in DOMAIN cli[p].plan : r \in cli[p].plan[j].files => j <= i
    BY <1>3, <2>2 DEF Applied
  <2> QED
    BY <1>2, <1>5, <2>1, <2>2, DeclaredIs
<1>6. home \in [Rel -> Content]
  BY DEF ProfilesInv, Typed
<1> QED
  BY <1>3, <1>5, <1>6, HeldIs DEF Applied

LEMMA StaleHolds == ProfilesInv => StaleIsInert
<1> SUFFICES ASSUME ProfilesInv, NEW p \in Proc, Undisturbed(p, {"done", "error"}),
                    NEW r \in Rel, ~Ships(cli[p].plan, r)
             PROVE  home[r] = cli[p].before[r] \/ r \in hooked
  BY DEF StaleIsInert
<1>1. cli[p].before[r] \in Held(home, hooked)[r]
  BY DEF ProfilesInv, AloneInv, Watched, Alone, HomeOf, Undisturbed
<1>2. home \in [Rel -> Content]
  BY DEF ProfilesInv, Typed
<1> QED
  BY <1>1, <1>2, HeldIs

LEMMA HooksHold == ProfilesInv => HooksFailWhereTheyMay
<1> SUFFICES ASSUME ProfilesInv PROVE HooksFailWhereTheyMay
  OBVIOUS
<1>1. vm = "failed" => met
  BY DEF ProfilesInv, BootInv
<1>2. ASSUME NEW p \in Proc, Undisturbed(p, {"done"}), cli[p].cmd = "apply"
      PROVE  Hooked(cli[p].plan, run[p].ran)
  <2>1. cli[p].pc = "done" /\ Watched(cli[p])
    BY <1>2 DEF Undisturbed, Watched
  <2> QED
    BY <1>2, <2>1 DEF ProfilesInv, AloneInv, Alone, ApplyOf
<1> QED
  BY <1>1, <1>2 DEF HooksFailWhereTheyMay, Hooked

(* Every variable keeps its type, whatever the processes, the agent and     *)
(* Lima do: the types that TLC enumerates for a few plans.                  *)
THEOREM TypeCorrect == Spec => []TypeOK
<1>1. ProfilesInv => TypeOK
  BY TypedIsTypeOK DEF ProfilesInv
<1> QED
  BY <1>1, Invariance, PTL

(* README.md's "later profiles win file collisions; the last declared shell *)
(* wins", by boot provisioning and by PushProfiles and ApplyProfiles alike: *)
(* for every plan and whatever is left of earlier commands in the guest,    *)
(* the home has what the plan ships when an undisturbed command succeeds,   *)
(* but where the hooks of a run wrote over it.                              *)
THEOREM HomeFollowsPlan == Spec => []HomeIsPlan
  BY HomeHolds, Invariance, PTL

(* apply-profiles.sh goes by PROFILE_FILES and files.list: what no active   *)
(* profile ships stays as it was before the command, also when it fails and *)
(* though the tree still has an older version of the file; but for what a   *)
(* hook wrote itself.                                                       *)
THEOREM StaleStaysInert == Spec => []StaleIsInert
  BY StaleHolds, Invariance, PTL

(* HOOK_FAILED is fatal under SANDBOX_PROFILES_STRICT only: no hook fails a *)
(* boot, a boot that nobody met does not fail but by another step, and an   *)
(* apply that succeeds has run every hook of its plan, each with success.   *)
THEOREM HooksFailOnlyThere == Spec => []HooksFailWhereTheyMay
  BY HooksHold, Invariance, PTL

-----------------------------------------------------------------------------
(* Sequences, and what a scan of one makes                                  *)

\* A set that has the empty sequence, and with a sequence those one longer.
LEMMA AllSequences ==
  ASSUME NEW B, NEW S, <<>> \in S,
         \A s \in Seq(B), b \in B : s \in S => Append(s, b) \in S
  PROVE  Seq(B) \subseteq S
<1> DEFINE T == {Len(s) : s \in Seq(B) \ S}
<1> SUFFICES ASSUME T # {} PROVE FALSE
  OBVIOUS
<1>1. T \subseteq Nat
  BY LenProperties
<1>2. PICK n \in T : \A m \in T : n <= m
  <2> HIDE DEF T
  <2> QED
    BY <1>1, Least
<1>3. PICK s \in Seq(B) \ S : n = Len(s)
  BY <1>2
<1>4. PICK t \in Seq(B), b \in B : s = Append(t, b)
  BY <1>3, SequenceEmptyOrAppend
<1>5. Len(s) = Len(t) + 1 /\ Len(t) \in Nat
  BY <1>4, AppendProperties, LenProperties
<1>6. t \in S
  BY <1>2, <1>3, <1>5
<1> QED
  BY <1>3, <1>4, <1>6

LEMMA AllNumbers ==
  ASSUME NEW S, 0 \in S, \A n \in Nat : n \in S => n + 1 \in S
  PROVE  Nat \subseteq S
<1> SUFFICES ASSUME Nat \ S # {} PROVE FALSE
  OBVIOUS
<1>1. PICK n \in Nat \ S : \A m \in Nat \ S : n <= m
  BY Least
<1>2. n # 0
  BY <1>1
<1>3. n - 1 \in Nat /\ n - 1 \in S
  BY <1>1, <1>2
<1> QED
  BY <1>1, <1>3

\* f goes through s.
Passes(step, start, s, f) ==
  f = [n \in 0 .. Len(s) |-> IF n = 0 THEN start ELSE step[s[n]][f[n - 1]]]

LEMMA ScanIs ==
  ASSUME NEW step, NEW start, NEW s
  PROVE  Scan(step, start, s) = (CHOOSE f : Passes(step, start, s, f))[Len(s)]
BY DEF Scan, Passes

LEMMA ScanPasses ==
  ASSUME NEW D, NEW B, NEW step \in [B -> [D -> D]], NEW start \in D
  PROVE  \A s \in Seq(B) : \E f \in [0 .. Len(s) -> D] : Passes(step, start, s, f)
<1> DEFINE S == {s \in Seq(B) : \E f \in [0 .. Len(s) -> D] : Passes(step, start, s, f)}
<1>1. <<>> \in S
  <2>1. [n \in 0 .. 0 |-> start] \in [0 .. Len(<<>>) -> D]
    BY EmptySeq
  <2>2. Passes(step, start, <<>>, [n \in 0 .. 0 |-> start])
    BY EmptySeq DEF Passes
  <2> QED
    BY <2>1, <2>2, EmptySeq
<1>2. ASSUME NEW s \in Seq(B), NEW b \in B, s \in S PROVE Append(s, b) \in S
  <2> DEFINE t == Append(s, b)
  <2>1. PICK f \in [0 .. Len(s) -> D] : Passes(step, start, s, f)
    BY <1>2
  <2> DEFINE g == [n \in 0 .. Len(t) |-> IF n <= Len(s) THEN f[n] ELSE step[b][f[Len(s)]]]
  <2>2. /\ t \in Seq(B) /\ Len(t) = Len(s) + 1 /\ Len(s) \in Nat
        /\ \A i \in 1 .. Len(s) : t[i] = s[i]
        /\ t[Len(s) + 1] = b
    BY AppendProperties, LenProperties
  <2> HIDE DEF t
  <2>3. g \in [0 .. Len(t) -> D]
    <3> SUFFICES ASSUME NEW n \in 0 .. Len(t) PROVE g[n] \in D
      OBVIOUS
    <3>1. CASE n <= Len(s)
      <4>1. n \in 0 .. Len(s)
        BY <2>2, <3>1
      <4> QED
        BY <2>1, <3>1, <4>1
    <3>2. CASE ~(n <= Len(s))
      <4>1. f[Len(s)] \in D
        BY <2>1, <2>2
      <4> QED
        BY <3>2, <4>1
    <3> QED
      BY <3>1, <3>2
  <2>4. \A n \in 0 .. Len(t) : g[n] = IF n = 0 THEN start ELSE step[t[n]][g[n - 1]]
    <3> SUFFICES ASSUME NEW n \in 0 .. Len(t)
                 PROVE  g[n] = IF n = 0 THEN start ELSE step[t[n]][g[n - 1]]
      OBVIOUS
    <3>1. \A m \in 0 .. Len(s) : f[m] = IF m = 0 THEN start ELSE step[s[m]][f[m - 1]]
      BY <2>1 DEF Passes
    <3>2. CASE n = 0
      BY <2>2, <3>1, <3>2
    <3>3. CASE n \in 1 .. Len(s)
      <4>1. g[n] = f[n] /\ g[n - 1] = f[n - 1] /\ t[n] = s[n]
        BY <2>2, <3>3
      <4> HIDE DEF g
      <4> QED
        BY <2>2, <3>1, <3>3, <4>1
    <3>4. CASE n = Len(s) + 1
      <4>1. g[n] = step[b][f[Len(s)]] /\ g[n - 1] = f[Len(s)] /\ t[n] = b
        BY <2>2, <3>4
      <4> HIDE DEF g
      <4> QED
        BY <2>2, <3>4, <4>1
    <3> HIDE DEF g
    <3> QED
      BY <2>2, <3>2, <3>3, <3>4
  <2>5. Passes(step, start, t, g)
    BY <2>4 DEF Passes
  <2> HIDE DEF g
  <2> QED
    BY <2>2, <2>3, <2>5 DEF t
<1> HIDE DEF S
<1>3. Seq(B) \subseteq S
  BY <1>1, <1>2, AllSequences
<1> QED
  BY <1>3 DEF S

\* A longer pass goes where a shorter one does.
LEMMA PassesAgree ==
  ASSUME NEW D, NEW B, NEW step \in [B -> [D -> D]], NEW start \in D,
         NEW s \in Seq(B), NEW b \in B, NEW f, NEW g,
         Passes(step, start, s, f), Passes(step, start, Append(s, b), g)
  PROVE  \A n \in 0 .. Len(s) : f[n] = g[n]
<1> DEFINE S == {n \in Nat : n <= Len(s) => f[n] = g[n]}
<1> DEFINE t == Append(s, b)
<1>1. /\ Len(t) = Len(s) + 1 /\ Len(s) \in Nat
      /\ \A i \in 1 .. Len(s) : t[i] = s[i]
  BY AppendProperties, LenProperties
<1>2. \A n \in 0 .. Len(s) : f[n] = IF n = 0 THEN start ELSE step[s[n]][f[n - 1]]
  BY DEF Passes
<1>3. \A n \in 0 .. Len(t) : g[n] = IF n = 0 THEN start ELSE step[t[n]][g[n - 1]]
  BY DEF Passes
<1> HIDE DEF t
<1>4. 0 \in S
  BY <1>1, <1>2, <1>3
<1>5. ASSUME NEW n \in Nat, n \in S PROVE n + 1 \in S
  <2> SUFFICES ASSUME n + 1 <= Len(s) PROVE f[n + 1] = g[n + 1]
    OBVIOUS
  <2>1. f[n] = g[n]
    BY <1>1, <1>5
  <2>2. f[n + 1] = step[s[n + 1]][f[n]] /\ g[n + 1] = step[t[n + 1]][g[n]]
    <3>1. n + 1 \in 0 .. Len(s) /\ n + 1 \in 0 .. Len(t) /\ n + 1 # 0 /\ (n + 1) - 1 = n
      BY <1>1
    <3> QED
      BY <1>2, <1>3, <3>1
  <2>3. t[n + 1] = s[n + 1]
    BY <1>1
  <2> QED
    BY <2>1, <2>2, <2>3
<1> HIDE DEF S
<1>6. Nat \subseteq S
  BY <1>4, <1>5, AllNumbers
<1> QED
  BY <1>1, <1>6 DEF S

\* What scanning a sequence over B with results in D amounts to.
Scans(step, start, B, D) ==
  /\ Scan(step, start, <<>>) = start
  /\ \A s \in Seq(B) :
       /\ Scan(step, start, s) \in D
       /\ \A b \in B : Scan(step, start, Append(s, b)) = step[b][Scan(step, start, s)]

LEMMA ScanOfOneMore ==
  ASSUME NEW D, NEW B, NEW step, step \in [B -> [D -> D]], NEW start, start \in D
  PROVE  Scans(step, start, B, D)
<1> DEFINE F(s) == CHOOSE f : Passes(step, start, s, f)
<1>1. ASSUME NEW s \in Seq(B)
      PROVE  Passes(step, start, s, F(s))
  <2>1. \E f : Passes(step, start, s, f)
    BY ScanPasses
  <2> QED
    BY <2>1
<1>2. \A s : Scan(step, start, s) = F(s)[Len(s)]
  BY ScanIs
<1> HIDE DEF F
<1>3. Scan(step, start, <<>>) = start
  <2>1. Passes(step, start, <<>>, F(<<>>)) /\ Len(<<>>) = 0
    BY <1>1, EmptySeq
  <2>2. F(<<>>)[0] = start
    BY <2>1 DEF Passes
  <2> QED
    BY <1>2, <2>1, <2>2
<1>4. ASSUME NEW s \in Seq(B), NEW b \in B
      PROVE  Scan(step, start, Append(s, b)) = step[b][Scan(step, start, s)]
  <2> DEFINE t == Append(s, b)
  <2>1. /\ t \in Seq(B) /\ Len(t) = Len(s) + 1 /\ Len(s) \in Nat /\ t[Len(s) + 1] = b
    BY AppendProperties, LenProperties
  <2>2. Passes(step, start, s, F(s)) /\ Passes(step, start, t, F(t))
    BY <1>1, <2>1
  <2>3. F(s)[Len(s)] = F(t)[Len(s)]
    BY <2>1, <2>2, PassesAgree
  <2> HIDE DEF t
  <2>4. F(t)[Len(s) + 1] = step[b][F(t)[Len(s)]]
    <3>1. Len(s) + 1 \in 0 .. Len(t) /\ Len(s) + 1 # 0 /\ (Len(s) + 1) - 1 = Len(s)
      BY <2>1
    <3>2. \A n \in 0 .. Len(t) :
            F(t)[n] = IF n = 0 THEN start ELSE step[t[n]][F(t)[n - 1]]
      BY <2>2 DEF Passes
    <3> QED
      BY <2>1, <3>1, <3>2
  <2> QED
    BY <1>2, <2>1, <2>3, <2>4 DEF t
<1>5. \A s \in Seq(B) : Scan(step, start, s) \in D
  <2> DEFINE S == {s \in Seq(B) : Scan(step, start, s) \in D}
  <2>1. <<>> \in S
    BY <1>3, EmptySeq
  <2>2. \A s \in Seq(B), b \in B : s \in S => Append(s, b) \in S
    BY <1>4, AppendProperties
  <2> HIDE DEF S
  <2>3. Seq(B) \subseteq S
    BY <2>1, <2>2, AllSequences
  <2> QED
    BY <2>3 DEF S
<1> QED
  BY <1>3, <1>4, <1>5 DEF Scans

-----------------------------------------------------------------------------
(* The ends of sequences                                                    *)

LEMMA FrontAndLast ==
  ASSUME NEW D, NEW t \in Seq(D), NEW e \in D
  PROVE  Front(Append(t, e)) = t /\ Last(Append(t, e)) = e
<1> DEFINE s == Append(t, e)
<1>1. /\ s \in Seq(D) /\ Len(s) = Len(t) + 1 /\ Len(t) \in Nat
      /\ (\A i \in 1 .. Len(t) : s[i] = t[i]) /\ s[Len(t) + 1] = e
  BY AppendProperties, LenProperties
<1> HIDE DEF s
<1>2. Last(s) = e
  BY <1>1 DEF Last
<1>3. Front(s) = SubSeq(s, 1, Len(t))
  BY <1>1 DEF Front
<1>4. \A i \in 1 .. Len(t) : s[i] \in D
  BY <1>1
<1>5. /\ SubSeq(s, 1, Len(t)) \in Seq(D) /\ Len(SubSeq(s, 1, Len(t))) = Len(t)
      /\ \A i \in 1 .. Len(t) : SubSeq(s, 1, Len(t))[i] = s[i]
  <2>1. /\ SubSeq(s, 1, Len(t)) \in Seq(D)
        /\ Len(SubSeq(s, 1, Len(t))) = IF 1 <= Len(t) THEN Len(t) - 1 + 1 ELSE 0
        /\ \A i \in 1 .. Len(t) - 1 + 1 : SubSeq(s, 1, Len(t))[i] = s[1 + i - 1]
    BY <1>1, <1>4, SubSeqProperties
  <2> QED
    BY <1>1, <2>1
<1>6. SubSeq(s, 1, Len(t)) = t
  BY <1>1, <1>5, SeqEqual
<1> QED
  BY <1>2, <1>3, <1>6 DEF s

\* An element more at the end of a sequence on the right.
LEMMA AppendToConcat ==
  ASSUME NEW D, NEW s \in Seq(D), NEW t \in Seq(D), NEW e \in D
  PROVE  s \o Append(t, e) = Append(s \o t, e)
<1>1. <<e>> \in Seq(D)
  OBVIOUS
<1>2. Append(t, e) = t \o <<e>>
  BY AppendIsConcat
<1>3. s \o t \in Seq(D)
  BY ConcatProperties
<1>4. Append(s \o t, e) = (s \o t) \o <<e>>
  BY <1>3, AppendIsConcat
<1> QED
  BY <1>1, <1>2, <1>4, ConcatAssociative

\* s is its body, which does not end in a newline, and newlines.
Ends(s, body, nls) ==
  /\ body \in Seq(Text) /\ nls \in Seq({"nl"}) /\ s = body \o nls
  /\ body # <<>> => Last(body) # "nl"

LEMMA NewlineIsText == "nl" \in Byte /\ "brace" \in Byte /\ Byte \subseteq Text
BY DEF Byte, Text

LEMMA NewlinesAreText ==
  ASSUME NEW nls \in Seq({"nl"})
  PROVE  /\ nls \in Seq(Text) /\ nls \in Seq(Byte) /\ Len(nls) \in Nat
         /\ \A i \in 1 .. Len(nls) : nls[i] = "nl"
<1>1. nls \in Seq(Text) /\ nls \in Seq(Byte)
  BY NewlineIsText, SeqMonotonic
<1> QED
  BY <1>1, ElementOfSeq, LenProperties

LEMMA EveryTextEnds ==
  ASSUME NEW B, B \subseteq Text, NEW s \in Seq(B)
  PROVE  \E body \in Seq(B), nls \in Seq({"nl"}) : Ends(s, body, nls)
<1> DEFINE S == {t \in Seq(B) :
                   \E body \in Seq(B), nls \in Seq({"nl"}) : Ends(t, body, nls)}
<1>1. <<>> \in S
  <2>1. /\ <<>> \in Seq(B) /\ <<>> \in Seq(Text) /\ <<>> \in Seq({"nl"})
        /\ <<>> \o <<>> = <<>>
    BY EmptySeq, ConcatEmptySeq
  <2>2. Ends(<<>>, <<>>, <<>>)
    BY <2>1 DEF Ends
  <2> QED
    BY <2>1, <2>2
<1>2. ASSUME NEW t \in Seq(B), NEW b \in B, t \in S PROVE Append(t, b) \in S
  <2>1. PICK body \in Seq(B), nls \in Seq({"nl"}) : Ends(t, body, nls)
    BY <1>2
  <2>2. Append(t, b) \in Seq(B) /\ Append(t, b) \in Seq(Text)
    <3>1. Append(t, b) \in Seq(B)
      BY AppendProperties
    <3> QED
      BY <3>1, SeqMonotonic
  <2>3. CASE b = "nl"
    <3>1. Append(nls, b) \in Seq({"nl"})
      BY <2>3, AppendProperties
    <3>2. body \in Seq(Text) /\ nls \in Seq(Text) /\ b \in Text
      BY <2>1, NewlinesAreText DEF Ends
    <3>3. body \o Append(nls, b) = Append(body \o nls, b)
      BY <3>2, AppendToConcat
    <3>4. Ends(Append(t, b), body, Append(nls, b))
      BY <2>1, <3>1, <3>3 DEF Ends
    <3> QED
      BY <2>2, <3>1, <3>4
  <2>4. CASE b # "nl"
    <3>1. Last(Append(t, b)) = b
      BY FrontAndLast
    <3>2. <<>> \in Seq({"nl"}) /\ Append(t, b) \o <<>> = Append(t, b)
      BY <2>2, EmptySeq, ConcatEmptySeq
    <3>3. Ends(Append(t, b), Append(t, b), <<>>)
      BY <2>2, <2>4, <3>1, <3>2 DEF Ends
    <3> QED
      BY <2>2, <3>2, <3>3
  <2> QED
    BY <2>3, <2>4
<1> HIDE DEF S
<1>3. Seq(B) \subseteq S
  BY <1>1, <1>2, AllSequences
<1> QED
  BY <1>3 DEF S

\* trailingNewlines and TrimRight take a text apart there.
LEMMA TrailingIs ==
  ASSUME NEW s, NEW body, NEW nls, Ends(s, body, nls)
  PROVE  /\ TrailingNewlines(s) = Len(nls) /\ WithoutTrailing(s) = body
         /\ s \in Seq(Text) /\ Len(nls) \in Nat
<1>1. body \in Seq(Text) /\ nls \in Seq(Text) /\ s = body \o nls
  BY NewlinesAreText DEF Ends
<1>2. /\ s \in Seq(Text) /\ Len(s) = Len(body) + Len(nls)
      /\ Len(body) \in Nat /\ Len(nls) \in Nat
      /\ \A i \in 1 .. Len(body) + Len(nls) :
           s[i] = IF i <= Len(body) THEN body[i] ELSE nls[i - Len(body)]
  BY <1>1, ConcatProperties, LenProperties
<1>3. \A i \in Len(body) + 1 .. Len(s) : s[i] = "nl"
  <2> SUFFICES ASSUME NEW i \in Len(body) + 1 .. Len(s) PROVE s[i] = "nl"
    OBVIOUS
  <2>1. s[i] = nls[i - Len(body)] /\ i - Len(body) \in 1 .. Len(nls)
    BY <1>2
  <2> QED
    BY <2>1, NewlinesAreText DEF Ends
<1>4. Len(body) > 0 => s[Len(body)] # "nl"
  <2> SUFFICES ASSUME Len(body) > 0 PROVE s[Len(body)] # "nl"
    OBVIOUS
  <2>1. body # <<>>
    BY EmptySeq
  <2>2. body[Len(body)] # "nl"
    BY <2>1 DEF Ends, Last
  <2> QED
    BY <1>2, <2>2
<1> DEFINE P(n) == /\ \A i \in Len(s) - n + 1 .. Len(s) : s[i] = "nl"
                   /\ n < Len(s) => s[Len(s) - n] # "nl"
<1>5. Len(nls) \in 0 .. Len(s) /\ P(Len(nls))
  <2>1. Len(s) - Len(nls) = Len(body) /\ Len(nls) \in 0 .. Len(s)
    BY <1>2
  <2>2. Len(nls) < Len(s) => Len(body) > 0
    BY <1>2
  <2> QED
    BY <1>3, <1>4, <2>1, <2>2
<1>6. ASSUME NEW n \in 0 .. Len(s), P(n) PROVE n = Len(nls)
  <2>1. n \in Nat /\ n <= Len(s)
    BY <1>2
  <2>2. CASE n < Len(nls)
    <3>1. Len(s) - n \in Len(body) + 1 .. Len(s) /\ n < Len(s)
      BY <1>2, <2>1, <2>2
    <3> QED
      BY <1>3, <1>6, <3>1
  <2>3. CASE n > Len(nls)
    <3>1. Len(body) \in Len(s) - n + 1 .. Len(s) /\ Len(body) > 0
      BY <1>2, <2>1, <2>3
    <3> QED
      BY <1>4, <1>6, <3>1
  <2> QED
    BY <1>2, <2>1, <2>2, <2>3
<1>7. TrailingNewlines(s) = CHOOSE n \in 0 .. Len(s) : P(n)
  BY DEF TrailingNewlines
<1> HIDE DEF P
<1>8. TrailingNewlines(s) = Len(nls)
  BY <1>5, <1>6, <1>7
<1>9. WithoutTrailing(s) = body
  <2>1. WithoutTrailing(s) = SubSeq(s, 1, Len(body))
    <3>1. Len(s) - Len(nls) = Len(body)
      BY <1>2
    <3> QED
      BY <1>8, <3>1 DEF WithoutTrailing
  <2>2. \A i \in 1 .. Len(body) : s[i] = body[i] /\ body[i] \in Text
    BY <1>1, <1>2
  <2>3. /\ SubSeq(s, 1, Len(body)) \in Seq(Text)
        /\ Len(SubSeq(s, 1, Len(body))) = IF 1 <= Len(body) THEN Len(body) - 1 + 1 ELSE 0
        /\ \A i \in 1 .. Len(body) - 1 + 1 : SubSeq(s, 1, Len(body))[i] = s[1 + i - 1]
    BY <1>2, <2>2, SubSeqProperties
  <2>4. /\ Len(SubSeq(s, 1, Len(body))) = Len(body)
        /\ \A i \in 1 .. Len(body) : SubSeq(s, 1, Len(body))[i] = body[i]
    BY <1>2, <2>2, <2>3
  <2> QED
    BY <1>1, <2>1, <2>3, <2>4, SeqEqual
<1> QED
  BY <1>2, <1>8, <1>9

-----------------------------------------------------------------------------
(* escapeGuestTemplate, and Lima's evaluation of what it made               *)

LEMMA EscapeStep ==
  ASSUME NEW b \in Byte, NEW out \in Seq(Text)
  PROVE  /\ EscapeByte[b][out] \in Seq(Text)
         /\ \/ /\ EscapeByte[b][out] = Append(out, b)
               /\ b = "brace" => out = <<>> \/ Last(out) # "brace"
            \/ /\ b = "brace"
               /\ \E o \in Seq(Text) : /\ out = Append(o, "brace")
                                       /\ EscapeByte[b][out] = Append(o, Quoted)
<1>1. b \in Text /\ "brace" \in Text /\ Quoted \in Text
  BY DEF Text, Byte
<1>2. EscapeByte[b][out] = IF b = "brace" /\ out # <<>> /\ Last(out) = "brace"
                           THEN Append(Front(out), Quoted) ELSE Append(out, b)
  BY DEF EscapeByte
<1>3. CASE b = "brace" /\ out # <<>> /\ Last(out) = "brace"
  <2>1. PICK o \in Seq(Text), e \in Text : out = Append(o, e)
    BY <1>3, SequenceEmptyOrAppend
  <2>2. Front(out) = o /\ e = "brace"
    BY <1>3, <2>1, FrontAndLast
  <2>3. EscapeByte[b][out] = Append(o, Quoted) /\ out = Append(o, "brace")
    BY <1>2, <1>3, <2>1, <2>2
  <2> QED
    BY <1>1, <1>3, <2>1, <2>3, AppendProperties
<1>4. CASE ~(b = "brace" /\ out # <<>> /\ Last(out) = "brace")
  <2>1. EscapeByte[b][out] = Append(out, b)
    BY <1>2, <1>4
  <2> QED
    BY <1>1, <1>4, <2>1, AppendProperties
<1> QED
  BY <1>3, <1>4

LEMMA EscapeMore ==
  /\ EscapeGuestTemplate(<<>>) = <<>>
  /\ \A s \in Seq(Byte) :
       /\ EscapeGuestTemplate(s) \in Seq(Text)
       /\ \A b \in Byte : EscapeGuestTemplate(Append(s, b))
                            = EscapeByte[b][EscapeGuestTemplate(s)]
<1>1. EscapeByte \in [Byte -> [Seq(Text) -> Seq(Text)]]
  <2>1. \A b \in Byte : \A out \in Seq(Text) : EscapeByte[b][out] \in Seq(Text)
    BY EscapeStep
  <2> QED
    BY <2>1 DEF EscapeByte
<1>2. <<>> \in Seq(Text)
  BY EmptySeq
<1>3. Scans(EscapeByte, <<>>, Byte, Seq(Text))
  BY <1>1, <1>2, ScanOfOneMore
<1> QED
  BY <1>3 DEF Scans, EscapeGuestTemplate

Expand(text) == Scan(ExpandByte, <<>>, text)

LEMMA ExpandScans ==
  /\ Scans(ExpandByte, <<>>, Text, Seq(Text))
  /\ \A b \in Text : \A out \in Seq(Text) :
       ExpandByte[b][out] = CASE b = Comment -> out
                              [] b = Quoted -> out \o <<"brace", "brace">>
                              [] OTHER -> Append(out, b)
<1>1. Quoted # Comment
  BY DEF Comment, Quoted
<1>2. \A b \in Text : \A out \in Seq(Text) :
        ExpandByte[b][out] = CASE b = Comment -> out
                               [] b = Quoted -> out \o <<"brace", "brace">>
                               [] OTHER -> Append(out, b)
  BY DEF ExpandByte
<1>3. ASSUME NEW b \in Text, NEW out \in Seq(Text) PROVE ExpandByte[b][out] \in Seq(Text)
  <2>1. <<"brace", "brace">> \in Seq(Text)
    BY NewlineIsText
  <2>2. CASE b = Comment
    <3>1. ExpandByte[b][out] = out
      BY <1>1, <1>2, <2>2
    <3> QED
      BY <3>1
  <2>3. CASE b = Quoted
    <3>1. ExpandByte[b][out] = out \o <<"brace", "brace">>
      BY <1>1, <1>2, <2>3
    <3> QED
      BY <2>1, <3>1, ConcatProperties
  <2>4. CASE b # Comment /\ b # Quoted
    <3>1. ExpandByte[b][out] = Append(out, b)
      BY <1>2, <2>4
    <3> QED
      BY <3>1, AppendProperties
  <2> QED
    BY <2>2, <2>3, <2>4
<1>4. ExpandByte \in [Text -> [Seq(Text) -> Seq(Text)]]
  BY <1>3 DEF ExpandByte
<1>5. <<>> \in Seq(Text)
  BY EmptySeq
<1>6. Scans(ExpandByte, <<>>, Text, Seq(Text))
  BY <1>4, <1>5, ScanOfOneMore
<1> QED
  BY <1>2, <1>6

LEMMA ExpandMore ==
  /\ Expand(<<>>) = <<>>
  /\ \A s \in Seq(Text) :
       /\ Expand(s) \in Seq(Text)
       /\ Expand(Append(s, Comment)) = Expand(s)
       /\ Expand(Append(s, Quoted)) = Expand(s) \o <<"brace", "brace">>
       /\ \A b \in Byte : Expand(Append(s, b)) = Append(Expand(s), b)
<1>1. \A b \in Byte : b \in Text /\ b # Comment /\ b # Quoted
  BY DEF Text, Byte, Comment, Quoted
<1>2. Comment \in Text /\ Quoted \in Text /\ Quoted # Comment
  BY DEF Text, Comment, Quoted
<1>3. \A b \in Text : \A out \in Seq(Text) :
        ExpandByte[b][out] = CASE b = Comment -> out
                               [] b = Quoted -> out \o <<"brace", "brace">>
                               [] OTHER -> Append(out, b)
  BY ExpandScans
<1>4. /\ Expand(<<>>) = <<>>
      /\ \A s \in Seq(Text) :
           /\ Expand(s) \in Seq(Text)
           /\ \A b \in Text : Expand(Append(s, b)) = ExpandByte[b][Expand(s)]
  BY ExpandScans DEF Scans, Expand
<1>5. ASSUME NEW s \in Seq(Text)
      PROVE  /\ Expand(Append(s, Comment)) = Expand(s)
             /\ Expand(Append(s, Quoted)) = Expand(s) \o <<"brace", "brace">>
             /\ \A b \in Byte : Expand(Append(s, b)) = Append(Expand(s), b)
  <2>1. Expand(s) \in Seq(Text)
    BY <1>4
  <2>2. Expand(Append(s, Comment)) = Expand(s)
    BY <1>2, <1>3, <1>4, <2>1
  <2>3. Expand(Append(s, Quoted)) = Expand(s) \o <<"brace", "brace">>
    BY <1>2, <1>3, <1>4, <2>1
  <2>4. \A b \in Byte : Expand(Append(s, b)) = Append(Expand(s), b)
    BY <1>1, <1>3, <1>4, <2>1
  <2> QED
    BY <2>2, <2>3, <2>4
<1> QED
  BY <1>4, <1>5

\* What may be embedded: no carriage return; and what escaping makes of it.
Odd == {"cr", "nel", "ctl"}
Plain == Byte \ Odd
Escaped(s, e) ==
  /\ e \in Seq(Text \ Odd) /\ ~OpensEarly(e) /\ Expand(e) = s

LEMMA EscapeIsUndone ==
  \A s \in Seq(Plain) : Escaped(s, EscapeGuestTemplate(s))
<1> DEFINE S == {s \in Seq(Plain) : Escaped(s, EscapeGuestTemplate(s))}
<1>1. <<>> \in S
  <2>1. Len(<<>>) = 0 /\ <<>> \in Seq(Plain) /\ <<>> \in Seq(Text \ Odd)
    BY EmptySeq
  <2>2. ~OpensEarly(<<>>)
    BY <2>1 DEF OpensEarly
  <2> QED
    BY <2>1, <2>2, EscapeMore, ExpandMore DEF Escaped
<1>2. ASSUME NEW s \in Seq(Plain), NEW b \in Plain, s \in S PROVE Append(s, b) \in S
  <2> DEFINE out == EscapeGuestTemplate(s)
             next == EscapeGuestTemplate(Append(s, b))
             U == Text \ Odd
  <2>1. /\ b \in Byte /\ b \in U /\ b # Quoted /\ b # Comment
        /\ Quoted \in U /\ "brace" \in U /\ "brace" \in Byte
        /\ Quoted # "brace" /\ Comment # "brace"
    BY DEF Plain, Odd, Byte, Text, Quoted, Comment
  <2>2. s \in Seq(Byte) /\ Append(s, b) \in Seq(Plain) /\ Append(s, b) \in Seq(Byte)
    <3>1. s \in Seq(Byte) /\ Plain \subseteq Byte
      BY SeqMonotonic DEF Plain
    <3> QED
      BY <2>1, <3>1, AppendProperties
  <2>3. out \in Seq(U) /\ out \in Seq(Text) /\ ~OpensEarly(out) /\ Expand(out) = s
    BY <1>2, <2>2, EscapeMore DEF Escaped
  <2>4. next = EscapeByte[b][out]
    BY <2>1, <2>2, EscapeMore
  <2> HIDE DEF out, next
  <2>5. CASE next = Append(out, b) /\ (b = "brace" => out = <<>> \/ Last(out) # "brace")
    <3>1. /\ next \in Seq(U) /\ Len(next) = Len(out) + 1 /\ Len(out) \in Nat
          /\ (\A i \in 1 .. Len(out) : next[i] = out[i]) /\ next[Len(out) + 1] = b
      BY <2>1, <2>3, <2>5, AppendProperties, LenProperties
    <3>2. ASSUME NEW i \in 1 .. Len(next) - 1
          PROVE  ~(next[i] = "brace" /\ next[i + 1] \in {"brace", Quoted, Comment})
      <4>1. CASE i < Len(out)
        <5>1. i \in 1 .. Len(out) - 1 /\ next[i] = out[i] /\ next[i + 1] = out[i + 1]
          BY <3>1, <4>1
        <5> QED
          BY <2>3, <5>1 DEF OpensEarly
      <4>2. CASE i = Len(out)
        <5>1. next[i] = out[i] /\ next[i + 1] = b /\ i > 0
          BY <3>1, <4>2
        <5>2. out # <<>>
          BY <4>2, <5>1, EmptySeq
        <5> QED
          BY <2>1, <2>5, <4>2, <5>1, <5>2 DEF Last
      <4> QED
        BY <3>1, <4>1, <4>2
    <3>3. ~OpensEarly(next)
      BY <3>2 DEF OpensEarly
    <3>4. Expand(next) = Append(s, b)
      BY <2>1, <2>3, <2>5, ExpandMore
    <3> QED
      BY <2>2, <3>1, <3>3, <3>4 DEF Escaped, next
  <2>6. CASE /\ b = "brace"
             /\ \E o \in Seq(Text) : out = Append(o, "brace") /\ next = Append(o, Quoted)
    <3>1. PICK o \in Seq(Text) : out = Append(o, "brace") /\ next = Append(o, Quoted)
      BY <2>6
    <3>2. /\ Quoted \in Text /\ "brace" \in Text
      BY <2>1
    <3>3. /\ Len(out) = Len(o) + 1 /\ Len(next) = Len(o) + 1 /\ Len(o) \in Nat
          /\ \A i \in 1 .. Len(o) : out[i] = o[i] /\ next[i] = o[i]
          /\ out[Len(o) + 1] = "brace" /\ next[Len(o) + 1] = Quoted
          /\ next \in Seq(Text)
      BY <3>1, <3>2, AppendProperties, LenProperties
    <3>4. next \in Seq(U)
      <4>1. \A i \in 1 .. Len(next) : next[i] \in U
        <5>1. \A i \in 1 .. Len(o) : out[i] \in U
          <6>1. \A i \in 1 .. Len(out) : out[i] \in U
            BY <2>3, ElementOfSeq
          <6> QED
            BY <3>3, <6>1
        <5> QED
          BY <2>1, <3>3, <5>1
      <4>2. next \in [1 .. Len(next) -> U] /\ Len(next) \in Nat
        BY <3>3, <4>1, LenProperties
      <4> QED
        BY <4>2, SeqDef
    <3>5. ASSUME NEW i \in 1 .. Len(next) - 1
          PROVE  ~(next[i] = "brace" /\ next[i + 1] \in {"brace", Quoted, Comment})
      <4>1. CASE i < Len(o)
        <5>1. i \in 1 .. Len(out) - 1 /\ next[i] = out[i] /\ next[i + 1] = out[i + 1]
          BY <3>3, <4>1
        <5> QED
          BY <2>3, <5>1 DEF OpensEarly
      <4>2. CASE i = Len(o)
        <5>1. i \in 1 .. Len(out) - 1 /\ next[i] = out[i] /\ out[i + 1] = "brace"
          BY <3>3, <4>2
        <5> QED
          BY <2>3, <5>1 DEF OpensEarly
      <4> QED
        BY <3>3, <4>1, <4>2
    <3>6. ~OpensEarly(next)
      BY <3>5 DEF OpensEarly
    <3>7. Expand(next) = Append(s, b)
      <4>1. Expand(o) \in Seq(Text) /\ s = Append(Expand(o), "brace")
        BY <2>1, <2>3, <3>1, ExpandMore
      <4>2. Expand(next) = Expand(o) \o <<"brace", "brace">>
        BY <3>1, ExpandMore
      <4>3. <<"brace">> \in Seq(Text) /\ <<"brace", "brace">> = Append(<<"brace">>, "brace")
        BY <3>2
      <4>4. Expand(next) = Append(Expand(o) \o <<"brace">>, "brace")
        BY <3>2, <4>1, <4>2, <4>3, AppendToConcat
      <4>5. Expand(o) \o <<"brace">> = Append(Expand(o), "brace")
        BY <3>2, <4>1, AppendIsConcat
      <4> QED
        BY <2>6, <4>1, <4>4, <4>5
    <3> QED
      BY <2>2, <3>4, <3>6, <3>7 DEF Escaped, next
  <2>7. \/ next = Append(out, b) /\ (b = "brace" => out = <<>> \/ Last(out) # "brace")
        \/ b = "brace" /\ \E o \in Seq(Text) : out = Append(o, "brace") /\ next = Append(o, Quoted)
    BY <2>1, <2>3, <2>4, EscapeStep
  <2> QED
    BY <2>5, <2>6, <2>7
<1> HIDE DEF S
<1>3. Seq(Plain) \subseteq S
  BY <1>1, <1>2, AllSequences
<1> QED
  BY <1>3 DEF S

-----------------------------------------------------------------------------
(* Newlines, and lines joined by them                                       *)

Newlines(n) == [i \in 1 .. n |-> "nl"]

LEMMA NewlinesAre ==
  /\ \A n \in Nat : Newlines(n) \in Seq({"nl"}) /\ Len(Newlines(n)) = n
  /\ \A nls \in Seq({"nl"}) : nls = Newlines(Len(nls))
<1>1. ASSUME NEW n \in Nat
      PROVE  Newlines(n) \in Seq({"nl"}) /\ Len(Newlines(n)) = n
  <2>1. Newlines(n) \in [1 .. n -> {"nl"}]
    BY DEF Newlines
  <2>2. Newlines(n) \in Seq({"nl"})
    BY <2>1, SeqDef
  <2>3. DOMAIN Newlines(n) = 1 .. n
    BY DEF Newlines
  <2> QED
    BY <2>2, <2>3, LenProperties
<1>2. ASSUME NEW nls \in Seq({"nl"}) PROVE nls = Newlines(Len(nls))
  <2>1. Len(nls) \in Nat /\ \A i \in 1 .. Len(nls) : nls[i] = "nl"
    BY NewlinesAreText
  <2>2. \A i \in 1 .. Len(nls) : Newlines(Len(nls))[i] = "nl"
    BY DEF Newlines
  <2> QED
    BY <1>1, <2>1, <2>2, SeqEqual
<1> QED
  BY <1>1, <1>2

LEMMA OneMoreNewline ==
  ASSUME NEW body \in Seq(Text), NEW n \in Nat
  PROVE  /\ Append(Newlines(n), "nl") = Newlines(n + 1)
         /\ Append(body, "nl") \o Newlines(n) = body \o Newlines(n + 1)
<1>1. /\ Newlines(n) \in Seq({"nl"}) /\ Len(Newlines(n)) = n
      /\ <<"nl">> \in Seq({"nl"}) /\ Len(<<"nl">>) = 1
      /\ <<"nl">> \in Seq(Text) /\ Newlines(n) \in Seq(Text)
  <2>1. Newlines(n) \in Seq({"nl"}) /\ Len(Newlines(n)) = n
    BY NewlinesAre
  <2>2. <<"nl">> \in Seq({"nl"}) /\ Len(<<"nl">>) = 1
    OBVIOUS
  <2> QED
    BY <2>1, <2>2, NewlinesAreText
<1>2. Append(Newlines(n), "nl") = Newlines(n + 1)
  <2>1. /\ Append(Newlines(n), "nl") \in Seq({"nl"})
        /\ Len(Append(Newlines(n), "nl")) = n + 1
    BY <1>1, AppendProperties
  <2> QED
    BY <2>1, NewlinesAre
<1>3. <<"nl">> \o Newlines(n) = Newlines(n + 1)
  <2>1. /\ <<"nl">> \o Newlines(n) \in Seq({"nl"})
        /\ Len(<<"nl">> \o Newlines(n)) = n + 1
    BY <1>1, ConcatProperties
  <2> QED
    BY <2>1, NewlinesAre
<1>4. Append(body, "nl") = body \o <<"nl">>
  BY NewlineIsText, AppendIsConcat
<1>5. (body \o <<"nl">>) \o Newlines(n) = body \o (<<"nl">> \o Newlines(n))
  BY <1>1, ConcatAssociative
<1> QED
  BY <1>2, <1>3, <1>4, <1>5, Zenon

\* The text of a block's lines.
Joined(lines) == Scan(AddLine, <<>>, lines)

LEMMA JoinedMore ==
  /\ Joined(<<>>) = <<>>
  /\ \A lines \in Seq(Seq(Text)) :
       /\ Joined(lines) \in Seq(Text)
       /\ \A l \in Seq(Text) : Joined(Append(lines, l)) = Append(Joined(lines) \o l, "nl")
<1>1. "nl" \in Text
  BY NewlineIsText
<1>2. \A l \in Seq(Text) : \A out \in Seq(Text) :
        AddLine[l][out] = out \o Append(l, "nl") /\ AddLine[l][out] \in Seq(Text)
  <2>1. \A l \in Seq(Text) : \A out \in Seq(Text) :
          AddLine[l][out] = out \o Append(l, "nl")
    BY DEF AddLine
  <2>2. \A l \in Seq(Text) : Append(l, "nl") \in Seq(Text)
    BY <1>1, AppendProperties
  <2>3. \A l \in Seq(Text) : \A out \in Seq(Text) : out \o l \in Seq(Text)
    BY ConcatProperties
  <2> QED
    BY <2>1, <2>2, <2>3
<1>3. AddLine \in [Seq(Text) -> [Seq(Text) -> Seq(Text)]]
  BY <1>2 DEF AddLine
<1>4. <<>> \in Seq(Text)
  BY EmptySeq
<1>5. Scans(AddLine, <<>>, Seq(Text), Seq(Text))
  BY <1>3, <1>4, ScanOfOneMore
<1>6. /\ Joined(<<>>) = <<>>
      /\ \A lines \in Seq(Seq(Text)) :
           /\ Joined(lines) \in Seq(Text)
           /\ \A l \in Seq(Text) : Joined(Append(lines, l)) = AddLine[l][Joined(lines)]
  BY <1>5 DEF Scans, Joined
<1>7. ASSUME NEW lines \in Seq(Seq(Text)), NEW l \in Seq(Text)
      PROVE  Joined(Append(lines, l)) = Append(Joined(lines) \o l, "nl")
  <2>1. Joined(lines) \in Seq(Text)
    BY <1>6
  <2>2. Joined(Append(lines, l)) = Joined(lines) \o Append(l, "nl")
    BY <1>2, <1>6, <2>1
  <2> QED
    BY <1>1, <2>1, <2>2, AppendToConcat
<1> QED
  BY <1>6, <1>7

LEMMA SplitMore ==
  /\ Split(<<>>) = << <<>> >>
  /\ \A s \in Seq(Text), b \in Text, lines \in Seq(Seq(Text)), l \in Seq(Text) :
       Split(s) = Append(lines, l) =>
         Split(Append(s, b)) = IF b = "nl" THEN Append(Append(lines, l), <<>>)
                               ELSE Append(lines, Append(l, b))
<1> DEFINE D == Seq(Seq(Text)) \ {<<>>}
<1>1. ASSUME NEW b \in Text, NEW lines \in Seq(Seq(Text)), NEW l \in Seq(Text)
      PROVE  /\ SplitByte[b][Append(lines, l)] =
                  IF b = "nl" THEN Append(Append(lines, l), <<>>)
                  ELSE Append(lines, Append(l, b))
             /\ SplitByte[b][Append(lines, l)] \in D
  <2>1. Append(lines, l) \in D
    BY AppendProperties
  <2>2. SplitByte[b][Append(lines, l)] =
          IF b = "nl" THEN Append(Append(lines, l), <<>>)
          ELSE Append(Front(Append(lines, l)), Append(Last(Append(lines, l)), b))
    BY <2>1 DEF SplitByte
  <2>3. Front(Append(lines, l)) = lines /\ Last(Append(lines, l)) = l
    BY FrontAndLast
  <2>4. Append(l, b) \in Seq(Text) /\ <<>> \in Seq(Text)
    BY AppendProperties, EmptySeq
  <2>5. Append(Append(lines, l), <<>>) \in D
    <3>1. Append(lines, l) \in Seq(Seq(Text))
      BY <2>1
    <3> QED
      BY <2>4, <3>1, AppendProperties
  <2>6. Append(lines, Append(l, b)) \in D
    BY <2>4, AppendProperties
  <2> QED
    BY <2>2, <2>3, <2>5, <2>6
<1>2. SplitByte \in [Text -> [D -> D]]
  <2>1. ASSUME NEW b \in Text, NEW ls \in D PROVE SplitByte[b][ls] \in D
    <3>1. PICK lines \in Seq(Seq(Text)), l \in Seq(Text) : ls = Append(lines, l)
      BY SequenceEmptyOrAppend
    <3> QED
      BY <1>1, <3>1
  <2> QED
    BY <2>1 DEF SplitByte
<1>3. << <<>> >> \in D
  BY EmptySeq
<1> HIDE DEF D
<1>4. Scans(SplitByte, << <<>> >>, Text, D)
  BY <1>2, <1>3, ScanOfOneMore
<1>5. /\ Split(<<>>) = << <<>> >>
      /\ \A s \in Seq(Text), b \in Text : Split(Append(s, b)) = SplitByte[b][Split(s)]
  BY <1>4 DEF Scans, Split
<1>6. ASSUME NEW s \in Seq(Text), NEW b \in Text,
             NEW lines \in Seq(Seq(Text)), NEW l \in Seq(Text),
             Split(s) = Append(lines, l)
      PROVE  Split(Append(s, b)) = IF b = "nl" THEN Append(Append(lines, l), <<>>)
                                   ELSE Append(lines, Append(l, b))
  <2>1. Split(Append(s, b)) = SplitByte[b][Append(lines, l)]
    BY <1>5, <1>6
  <2>2. SplitByte[b][Append(lines, l)] =
          IF b = "nl" THEN Append(Append(lines, l), <<>>)
          ELSE Append(lines, Append(l, b))
    BY <1>1
  <2> QED
    BY <2>1, <2>2, Zenon
<1> QED
  BY <1>5, <1>6

\* The lines of a text, each ended, are the text and a newline.
LEMMA SplitIsUndone ==
  \A s \in Seq(Text) :
    Split(s) \in Seq(Seq(Text)) /\ Joined(Split(s)) = Append(s, "nl")
<1> DEFINE Lines(s, F, L) == Split(s) = Append(F, L) /\ Joined(F) \o L = s
           S == {s \in Seq(Text) :
                   \E F \in Seq(Seq(Text)), L \in Seq(Text) : Lines(s, F, L)}
<1>1. <<>> \in S
  <2>1. /\ <<>> \in Seq(Text) /\ <<>> \in Seq(Seq(Text))
        /\ Append(<<>>, <<>>) = << <<>> >> /\ <<>> \o <<>> = <<>>
    BY EmptySeq, ConcatEmptySeq
  <2>2. Lines(<<>>, <<>>, <<>>)
    BY <2>1, SplitMore, JoinedMore
  <2> QED
    BY <2>1, <2>2
<1>2. ASSUME NEW s \in Seq(Text), NEW b \in Text, s \in S PROVE Append(s, b) \in S
  <2>1. PICK F \in Seq(Seq(Text)), L \in Seq(Text) : Lines(s, F, L)
    BY <1>2
  <2>2. Append(s, b) \in Seq(Text) /\ Joined(F) \in Seq(Text) /\ <<>> \in Seq(Text)
    BY AppendProperties, JoinedMore, EmptySeq
  <2>3. CASE b = "nl"
    <3>1. Append(F, L) \in Seq(Seq(Text))
      BY AppendProperties
    <3>2. Split(Append(s, b)) = Append(Append(F, L), <<>>)
      BY <2>1, <2>3, SplitMore
    <3>3. Joined(Append(F, L)) = Append(s, b)
      BY <2>1, <2>3, JoinedMore
    <3>4. Append(s, b) \o <<>> = Append(s, b)
      BY <2>2, ConcatEmptySeq
    <3>5. Lines(Append(s, b), Append(F, L), <<>>)
      BY <3>2, <3>3, <3>4
    <3> QED
      BY <2>2, <3>1, <3>5
  <2>4. CASE b # "nl"
    <3>1. Append(L, b) \in Seq(Text)
      BY AppendProperties
    <3>2. Split(Append(s, b)) = Append(F, Append(L, b))
      BY <2>1, <2>4, SplitMore
    <3>3. Joined(F) \o Append(L, b) = Append(Joined(F) \o L, b)
      BY <2>2, AppendToConcat
    <3>4. Lines(Append(s, b), F, Append(L, b))
      BY <2>1, <3>2, <3>3
    <3> QED
      BY <2>2, <3>1, <3>4
  <2> QED
    BY <2>3, <2>4
<1> HIDE DEF S
<1>3. Seq(Text) \subseteq S
  BY <1>1, <1>2, AllSequences
<1>4. ASSUME NEW s \in Seq(Text)
      PROVE  Split(s) \in Seq(Seq(Text)) /\ Joined(Split(s)) = Append(s, "nl")
  <2>1. PICK F \in Seq(Seq(Text)), L \in Seq(Text) : Lines(s, F, L)
    BY <1>3 DEF S
  <2>2. Append(F, L) \in Seq(Seq(Text))
    BY AppendProperties
  <2> QED
    BY <2>1, <2>2, JoinedMore
<1> QED
  BY <1>4

\* Empty lines at the end are newlines at the end.
LEMMA BlanksAreNewlines ==
  ASSUME NEW lines \in Seq(Seq(Text))
  PROVE  \A n \in Nat :
           /\ Blanks(n) \in Seq({<<>>}) /\ Len(Blanks(n)) = n
           /\ Joined(lines \o Blanks(n)) = Joined(lines) \o Newlines(n)
<1>1. ASSUME NEW n \in Nat
      PROVE  /\ Blanks(n) \in Seq({<<>>}) /\ Len(Blanks(n)) = n
             /\ Blanks(n) \in Seq(Seq(Text))
  <2>1. Blanks(n) \in [1 .. n -> {<<>>}] /\ DOMAIN Blanks(n) = 1 .. n
    BY DEF Blanks
  <2>2. Blanks(n) \in Seq({<<>>})
    BY <2>1, SeqDef
  <2>3. {<<>>} \subseteq Seq(Text)
    BY EmptySeq
  <2>4. Len(Blanks(n)) = n
    <3>1. DOMAIN Blanks(n) = 1 .. Len(Blanks(n)) /\ Len(Blanks(n)) \in Nat
      BY <2>2, LenProperties
    <3> QED
      BY <2>1, <3>1
  <2>5. Blanks(n) \in Seq(Seq(Text))
    BY <2>2, <2>3, SeqMonotonic
  <2> QED
    BY <2>2, <2>4, <2>5
<1>2. ASSUME NEW n \in Nat PROVE Blanks(n + 1) = Append(Blanks(n), <<>>)
  <2>1. /\ Append(Blanks(n), <<>>) \in Seq({<<>>})
        /\ Len(Append(Blanks(n), <<>>)) = n + 1
    BY <1>1, AppendProperties
  <2>2. Blanks(n + 1) \in Seq({<<>>}) /\ Len(Blanks(n + 1)) = n + 1
    BY <1>1
  <2>3. \A i \in 1 .. n + 1 : Blanks(n + 1)[i] = <<>> /\ Append(Blanks(n), <<>>)[i] = <<>>
    BY <2>1, <2>2, ElementOfSeq
  <2> QED
    BY <2>1, <2>2, <2>3, SeqEqual
<1> DEFINE S == {n \in Nat : Joined(lines \o Blanks(n)) = Joined(lines) \o Newlines(n)}
<1>3. Joined(lines) \in Seq(Text)
  BY JoinedMore
<1>4. 0 \in S
  <2>1. Blanks(0) = <<>> /\ Newlines(0) = <<>>
    <3>1. Len(Blanks(0)) = 0 /\ Blanks(0) \in Seq({<<>>})
      BY <1>1
    <3>2. Len(Newlines(0)) = 0 /\ Newlines(0) \in Seq({"nl"})
      BY NewlinesAre
    <3> QED
      BY <3>1, <3>2, EmptySeq
  <2>2. lines \o <<>> = lines /\ Joined(lines) \o <<>> = Joined(lines)
    BY <1>3, ConcatEmptySeq
  <2> QED
    BY <2>1, <2>2
<1>5. ASSUME NEW n \in Nat, n \in S PROVE n + 1 \in S
  <2>1. lines \o Blanks(n + 1) = Append(lines \o Blanks(n), <<>>)
    <3>1. <<>> \in Seq(Text) /\ Blanks(n) \in Seq(Seq(Text))
      BY <1>1, EmptySeq
    <3>2. lines \o Append(Blanks(n), <<>>) = Append(lines \o Blanks(n), <<>>)
      BY <3>1, AppendToConcat
    <3> QED
      BY <1>2, <3>2, Zenon
  <2>2. lines \o Blanks(n) \in Seq(Seq(Text))
    BY <1>1, ConcatProperties
  <2>3. Joined(lines \o Blanks(n + 1)) = Append(Joined(lines \o Blanks(n)) \o <<>>, "nl")
    BY <2>1, <2>2, JoinedMore, EmptySeq
  <2>4. Newlines(n) \in Seq(Text)
    BY NewlinesAre, NewlinesAreText
  <2>5. Joined(lines) \o Newlines(n) \in Seq(Text)
    BY <1>3, <2>4, ConcatProperties
  <2>6. (Joined(lines) \o Newlines(n)) \o <<>> = Joined(lines) \o Newlines(n)
    BY <2>5, ConcatEmptySeq
  <2>7. Joined(lines \o Blanks(n)) = Joined(lines) \o Newlines(n)
    BY <1>5
  <2>8. Joined(lines \o Blanks(n + 1)) = Append(Joined(lines) \o Newlines(n), "nl")
    BY <2>3, <2>6, <2>7
  <2>9. Append(Joined(lines) \o Newlines(n), "nl") = Joined(lines) \o Newlines(n + 1)
    <3>1. Append(Newlines(n), "nl") = Newlines(n + 1)
      BY <1>3, OneMoreNewline
    <3>2. "nl" \in Text
      BY NewlineIsText
    <3>3. Joined(lines) \o Append(Newlines(n), "nl")
            = Append(Joined(lines) \o Newlines(n), "nl")
      BY <1>3, <2>4, <3>2, AppendToConcat
    <3> QED
      BY <3>1, <3>3
  <2>10. Joined(lines \o Blanks(n + 1)) = Joined(lines) \o Newlines(n + 1)
    BY <2>8, <2>9, Zenon
  <2>11. n + 1 \in Nat
    OBVIOUS
  <2> QED
    BY <2>10, <2>11, Zenon
<1> HIDE DEF S
<1>6. Nat \subseteq S
  BY <1>4, <1>5, AllNumbers
<1> QED
  BY <1>1, <1>6 DEF S

-----------------------------------------------------------------------------
(* A file in the template, and out of it again                              *)

\* Escaping changes neither the newlines at the end nor that the rest does not
\* end in one.
LEMMA EscapeKeepsEnds ==
  ASSUME NEW s, NEW body \in Seq(Byte), NEW nls, Ends(s, body, nls), body # <<>>
  PROVE  LET eb == EscapeGuestTemplate(body) IN
         Ends(EscapeGuestTemplate(s), eb, nls) /\ eb # <<>>
<1> DEFINE E(t) == EscapeGuestTemplate(t)
           S == {t \in Seq({"nl"}) : E(body \o t) = E(body) \o t}
<1>1. E(body) \in Seq(Text)
  BY EscapeMore
<1>2. <<>> \in S
  <2>1. body \o <<>> = body /\ E(body) \o <<>> = E(body) /\ <<>> \in Seq({"nl"})
    BY <1>1, ConcatEmptySeq, EmptySeq
  <2> QED
    BY <2>1
<1>3. ASSUME NEW t \in Seq({"nl"}), NEW b \in {"nl"}, t \in S PROVE Append(t, b) \in S
  <2>1. b \in Byte /\ b \in Text /\ b = "nl" /\ b # "brace"
    BY NewlineIsText
  <2>2. t \in Seq(Byte) /\ t \in Seq(Text)
    BY NewlinesAreText
  <2>3. body \o t \in Seq(Byte)
    BY <2>2, ConcatProperties
  <2>4. E(body \o t) \in Seq(Text) /\ E(Append(body \o t, b)) = EscapeByte[b][E(body \o t)]
    BY <2>1, <2>3, EscapeMore
  <2>5. EscapeByte[b][E(body \o t)] = Append(E(body \o t), b)
    BY <2>1, <2>4, EscapeStep
  <2>6. body \o Append(t, b) = Append(body \o t, b)
    BY <2>1, <2>2, AppendToConcat
  <2>7. E(body) \o Append(t, b) = Append(E(body) \o t, b)
    BY <1>1, <2>1, <2>2, AppendToConcat
  <2>8. E(body \o t) = E(body) \o t
    BY <1>3
  <2>9. E(body \o Append(t, b)) = E(body) \o Append(t, b)
    BY <2>4, <2>5, <2>6, <2>7, <2>8, Zenon
  <2>10. Append(t, b) \in Seq({"nl"})
    BY AppendProperties
  <2> QED
    BY <2>9, <2>10
<1>4. E(s) = E(body) \o nls
  <2> HIDE DEF S
  <2>1. Seq({"nl"}) \subseteq S
    BY <1>2, <1>3, AllSequences
  <2>2. nls \in S
    BY <2>1 DEF Ends
  <2> QED
    BY <2>2 DEF S, Ends
<1>5. E(body) # <<>> /\ Last(E(body)) # "nl"
  <2>1. PICK t \in Seq(Byte), b \in Byte : body = Append(t, b)
    BY SequenceEmptyOrAppend
  <2>2. b # "nl"
    BY <2>1, FrontAndLast DEF Ends
  <2>3. E(t) \in Seq(Text) /\ E(body) = EscapeByte[b][E(t)]
    BY <2>1, EscapeMore
  <2>4. b \in Text /\ Quoted \in Text /\ Quoted # "nl"
    BY NewlineIsText DEF Text, Quoted
  <2>5. \E o \in Seq(Text), e \in Text : E(body) = Append(o, e) /\ e # "nl"
    BY <2>2, <2>3, <2>4, EscapeStep
  <2> QED
    BY <2>5, FrontAndLast, AppendProperties
<1> QED
  BY <1>1, <1>4, <1>5 DEF Ends

\* What guestBlockContent hands to the template, for a file that is not blank.
LEMMA BlockIs ==
  ASSUME NEW s \in Seq(Plain), NEW nls, NEW body \in Seq(Byte),
         Ends(s, body, nls), body # <<>>
  PROVE  LET g == GuestBlockContent(s) IN
         /\ g \in Seq(Text \ Odd) /\ ~OpensEarly(g) /\ Expand(g) = s
         /\ g # <<>> /\ Head(g) # "tab"
         /\ \E gb \in Seq(Text) : Ends(g, gb, nls) /\ gb # <<>>
<1> DEFINE e == EscapeGuestTemplate(s)
           eb == EscapeGuestTemplate(body)
           c == <<Comment>> \o e
           U == Text \ Odd
<1>1. e \in Seq(U) /\ ~OpensEarly(e) /\ Expand(e) = s
  BY EscapeIsUndone DEF Escaped
<1>2. Ends(e, eb, nls) /\ eb # <<>> /\ eb \in Seq(Text)
  BY EscapeKeepsEnds DEF Ends
<1>3. GuestBlockContent(s) = IF e # <<>> /\ Head(e) \in {"space", "tab"} THEN c ELSE e
  BY DEF GuestBlockContent
<1> HIDE DEF e, eb
<1>4. /\ e \in Seq(Text) /\ Len(e) \in Nat
      /\ nls \in Seq(Text) /\ nls \in Seq({"nl"}) /\ e = eb \o nls
  BY <1>1, <1>2, NewlinesAreText, TrailingIs, LenProperties DEF Ends
<1>5. e # <<>>
  BY <1>2, <1>4, ConcatEqualIffEmpty
<1>6. CASE GuestBlockContent(s) = e
  <2>1. Head(e) # "tab"
    <3>1. CASE e # <<>> /\ Head(e) \in {"space", "tab"}
      <4>1. e = c
        BY <1>3, <1>6, <3>1
      <4>2. <<Comment>> \in Seq(Text) /\ <<Comment>> # <<>>
        BY DEF Text
      <4>3. <<Comment>> = <<>>
        BY <1>4, <4>1, <4>2, ConcatEqualIffEmpty
      <4> QED
        BY <4>2, <4>3
    <3>2. CASE ~(e # <<>> /\ Head(e) \in {"space", "tab"})
      BY <1>5, <3>2
    <3> QED
      BY <3>1, <3>2
  <2> QED
    BY <1>1, <1>2, <1>5, <1>6, <2>1
<1>7. CASE GuestBlockContent(s) = c
  <2>1. /\ <<Comment>> \in Seq(U) /\ <<Comment>> \in Seq(Text) /\ Len(<<Comment>>) = 1
        /\ Comment \in Text /\ Comment # "tab" /\ Comment # "brace"
    BY DEF Text, Comment, Odd
  <2>2. c \in Seq(U) /\ c \in Seq(Text)
    BY <1>1, <1>4, <2>1, ConcatProperties
  <2>3. /\ Len(c) = Len(e) + 1 /\ Len(e) \in Nat
        /\ \A i \in 1 .. Len(e) + 1 :
             c[i] = IF i <= 1 THEN <<Comment>>[i] ELSE e[i - 1]
    BY <1>4, <2>1, ConcatProperties
  <2>4. c[1] = Comment /\ \A i \in 2 .. Len(e) + 1 : c[i] = e[i - 1]
    BY <2>3
  <2>5. c # <<>> /\ Head(c) # "tab"
    <3>1. Len(c) # 0
      BY <2>3
    <3>2. c # <<>>
      BY <3>1, EmptySeq
    <3>3. Head(c) = c[1]
      BY <2>2, <3>2
    <3> QED
      BY <2>1, <2>4, <3>2, <3>3
  <2>6. ~OpensEarly(c)
    <3> SUFFICES ASSUME NEW i \in 1 .. Len(c) - 1
                 PROVE  ~(c[i] = "brace" /\ c[i + 1] \in {"brace", Quoted, Comment})
      BY DEF OpensEarly
    <3>1. CASE i = 1
      BY <2>1, <2>4, <3>1
    <3>2. CASE i # 1
      <4>1. i - 1 \in 1 .. Len(e) - 1 /\ c[i] = e[i - 1] /\ c[i + 1] = e[(i - 1) + 1]
        BY <2>3, <2>4, <3>2
      <4> QED
        BY <1>1, <4>1 DEF OpensEarly
    <3> QED
      BY <3>1, <3>2
  <2>7. Expand(c) = s
    <3> DEFINE S == {t \in Seq(Text) : Expand(<<Comment>> \o t) = Expand(t)}
    <3>1. <<>> \in S
      <4>1. /\ <<Comment>> \o <<>> = <<Comment>> /\ <<Comment>> = Append(<<>>, Comment)
            /\ <<>> \in Seq(Text)
        BY <2>1, ConcatEmptySeq, EmptySeq
      <4>2. Expand(Append(<<>>, Comment)) = Expand(<<>>)
        BY <4>1, ExpandMore
      <4> QED
        BY <4>1, <4>2
    <3>2. ASSUME NEW t \in Seq(Text), NEW b \in Text, t \in S PROVE Append(t, b) \in S
      <4>1. <<Comment>> \o Append(t, b) = Append(<<Comment>> \o t, b)
        BY <2>1, AppendToConcat
      <4>2. <<Comment>> \o t \in Seq(Text) /\ Append(t, b) \in Seq(Text)
        BY <2>1, ConcatProperties, AppendProperties
      <4>3. Expand(<<Comment>> \o t) = Expand(t)
        BY <3>2
      <4>4. \A u \in Seq(Text) : Expand(Append(u, b)) = ExpandByte[b][Expand(u)]
        BY ExpandScans DEF Scans, Expand
      <4>5. Expand(<<Comment>> \o Append(t, b)) = Expand(Append(t, b))
        BY <4>1, <4>2, <4>3, <4>4, Zenon
      <4> QED
        BY <4>2, <4>5
    <3> HIDE DEF S
    <3>3. Seq(Text) \subseteq S
      BY <3>1, <3>2, AllSequences
    <3>4. Expand(c) = Expand(e)
      BY <1>4, <3>3 DEF S
    <3> QED
      BY <1>1, <3>4
  <2>8. Ends(c, <<Comment>> \o eb, nls) /\ <<Comment>> \o eb # <<>>
    <3>1. (<<Comment>> \o eb) \o nls = c
      BY <1>2, <1>4, <2>1, ConcatAssociative
    <3>2. /\ <<Comment>> \o eb \in Seq(Text) /\ Len(<<Comment>> \o eb) = Len(eb) + 1
          /\ Len(eb) \in Nat \ {0}
          /\ \A i \in 1 .. Len(eb) + 1 :
               (<<Comment>> \o eb)[i] = IF i <= 1 THEN <<Comment>>[i] ELSE eb[i - 1]
      BY <1>2, <2>1, ConcatProperties, EmptySeq
    <3>3. (<<Comment>> \o eb)[Len(eb) + 1] = eb[Len(eb)]
      BY <3>2
    <3>4. Last(<<Comment>> \o eb) = Last(eb)
      BY <3>2, <3>3 DEF Last
    <3>5. <<Comment>> \o eb # <<>>
      BY <3>2, EmptySeq
    <3>6. Last(eb) # "nl"
      BY <1>2 DEF Ends
    <3> QED
      BY <1>4, <3>1, <3>2, <3>4, <3>5, <3>6 DEF Ends
  <2>9. <<Comment>> \o eb \in Seq(Text)
    BY <2>8 DEF Ends
  <2> HIDE DEF c
  <2> QED
    BY <1>7, <2>2, <2>5, <2>6, <2>7, <2>8, <2>9
<1> QED
  BY <1>3, <1>6, <1>7

LEMMA FunctionIsSequence ==
  ASSUME NEW D, NEW k \in Nat, NEW f, f \in [1 .. k -> D]
  PROVE  f \in Seq(D) /\ Len(f) = k
<1>1. f \in Seq(D)
  BY SeqDef
<1>2. DOMAIN f = 1 .. k
  OBVIOUS
<1> QED
  BY <1>1, <1>2, LenProperties

\* Padding the lines and reading them back.
Padded(lines) ==
  [i \in DOMAIN lines |-> IF lines[i] = <<>> THEN <<>> ELSE <<Pad>> \o lines[i]]
Unpadded(lines) ==
  [i \in DOMAIN lines |-> IF lines[i] = <<>> THEN <<>> ELSE Tail(lines[i])]

LEMMA PadIsUndone ==
  ASSUME NEW lines \in Seq(Seq(Text)), NEW n \in Nat
  PROVE  Unpadded(Padded(lines) \o Blanks(n)) = lines \o Blanks(n)
<1> DEFINE P == Text \union {Pad}
           p == Padded(lines)
           k == Len(lines)
<1>1. k \in Nat /\ DOMAIN lines = 1 .. k /\ \A i \in 1 .. k : lines[i] \in Seq(Text)
  BY LenProperties, ElementOfSeq
<1>2. /\ Blanks(n) \in Seq({<<>>}) /\ Len(Blanks(n)) = n
      /\ \A i \in 1 .. n : Blanks(n)[i] = <<>>
  BY BlanksAreNewlines DEF Blanks
<1>3. ASSUME NEW l \in Seq(Text)
      PROVE  /\ <<Pad>> \o l \in Seq(P) /\ <<Pad>> \o l # <<>> /\ Tail(<<Pad>> \o l) = l
             /\ l \in Seq(P)
  <2>1. <<Pad>> \in Seq(P) /\ l \in Seq(P) /\ Len(<<Pad>>) = 1
    <3>1. l \in Seq(P)
      BY SeqMonotonic
    <3> QED
      BY <3>1
  <2> HIDE DEF P
  <2>2. /\ <<Pad>> \o l \in Seq(P) /\ Len(<<Pad>> \o l) = Len(l) + 1 /\ Len(l) \in Nat
        /\ \A i \in 1 .. Len(l) + 1 :
             (<<Pad>> \o l)[i] = IF i <= 1 THEN <<Pad>>[i] ELSE l[i - 1]
    BY <2>1, ConcatProperties, LenProperties
  <2>3. <<Pad>> \o l # <<>>
    BY <2>2, EmptySeq
  <2>4. /\ Tail(<<Pad>> \o l) \in Seq(P) /\ Len(Tail(<<Pad>> \o l)) = Len(l)
        /\ \A i \in 1 .. Len(l) : Tail(<<Pad>> \o l)[i] = (<<Pad>> \o l)[i + 1]
    BY <2>2, <2>3, HeadTailProperties
  <2>5. \A i \in 1 .. Len(l) : Tail(<<Pad>> \o l)[i] = l[i]
    BY <2>2, <2>4
  <2> QED
    BY <2>1, <2>2, <2>3, <2>4, <2>5, SeqEqual
<1>4. /\ DOMAIN p = 1 .. k
      /\ \A i \in 1 .. k : p[i] = IF lines[i] = <<>> THEN <<>> ELSE <<Pad>> \o lines[i]
  BY <1>1 DEF Padded
<1>5. p \in Seq(Seq(P)) /\ Len(p) = k
  <2>1. \A i \in 1 .. k : p[i] \in Seq(P)
    BY <1>1, <1>3, <1>4, EmptySeq
  <2>2. p \in [1 .. k -> Seq(P)]
    BY <1>4, <2>1 DEF Padded
  <2> HIDE DEF P, p, k
  <2> QED
    BY <1>1, <2>2, FunctionIsSequence
<1>6. lines \in Seq(Seq(P)) /\ Blanks(n) \in Seq(Seq(P))
  <2>1. Seq(Text) \subseteq Seq(P) /\ {<<>>} \subseteq Seq(P)
    BY SeqMonotonic, EmptySeq
  <2> QED
    BY <1>2, <2>1, SeqMonotonic
<1> HIDE DEF P, p, k
<1> DEFINE a == p \o Blanks(n)
           c == lines \o Blanks(n)
           u == Unpadded(a)
<1>7. /\ a \in Seq(Seq(P)) /\ Len(a) = k + n
      /\ \A i \in 1 .. k + n : a[i] = IF i <= k THEN p[i] ELSE Blanks(n)[i - k]
  <2>1. /\ p \o Blanks(n) \in Seq(Seq(P)) /\ Len(p \o Blanks(n)) = Len(p) + Len(Blanks(n))
        /\ \A i \in 1 .. Len(p) + Len(Blanks(n)) :
             (p \o Blanks(n))[i] = IF i <= Len(p) THEN p[i] ELSE Blanks(n)[i - Len(p)]
    BY <1>5, <1>6, ConcatProperties
  <2> QED
    BY <1>2, <1>5, <2>1
<1>8. /\ c \in Seq(Seq(P)) /\ Len(c) = k + n
      /\ \A i \in 1 .. k + n : c[i] = IF i <= k THEN lines[i] ELSE Blanks(n)[i - k]
  <2>1. /\ c \in Seq(Seq(P)) /\ Len(c) = Len(lines) + Len(Blanks(n))
        /\ \A i \in 1 .. Len(lines) + Len(Blanks(n)) :
             c[i] = IF i <= Len(lines) THEN lines[i] ELSE Blanks(n)[i - Len(lines)]
    BY <1>6, ConcatProperties
  <2> QED
    BY <1>2, <2>1 DEF k
<1>9. DOMAIN a = 1 .. k + n /\ DOMAIN c = 1 .. k + n
  BY <1>7, <1>8, LenProperties
<1>10. u = [i \in 1 .. k + n |-> IF a[i] = <<>> THEN <<>> ELSE Tail(a[i])]
  BY <1>9 DEF Unpadded
<1> HIDE DEF a, c, u
<1>11. ASSUME NEW i \in 1 .. k + n PROVE u[i] = c[i]
  <2>1. u[i] = IF a[i] = <<>> THEN <<>> ELSE Tail(a[i])
    BY <1>10
  <2>2. CASE i <= k
    <3>1. i \in 1 .. k /\ a[i] = p[i] /\ c[i] = lines[i] /\ lines[i] \in Seq(Text)
      BY <1>1, <1>7, <1>8, <2>2 DEF k
    <3>2. CASE lines[i] = <<>>
      <4>1. a[i] = <<>>
        BY <1>4, <3>1, <3>2
      <4> QED
        BY <2>1, <3>1, <3>2, <4>1, Zenon
    <3>3. CASE lines[i] # <<>>
      <4>1. a[i] = <<Pad>> \o lines[i]
        BY <1>4, <3>1, <3>3
      <4>2. a[i] # <<>> /\ Tail(a[i]) = lines[i]
        BY <1>3, <3>1, <4>1
      <4> QED
        BY <2>1, <3>1, <4>2, Zenon
    <3> QED
      BY <3>2, <3>3
  <2>3. CASE ~(i <= k)
    <3>1. i - k \in 1 .. n /\ a[i] = Blanks(n)[i - k] /\ c[i] = Blanks(n)[i - k]
      BY <1>1, <1>7, <1>8, <2>3 DEF k
    <3>2. a[i] = <<>> /\ c[i] = <<>>
      BY <1>2, <3>1
    <3> QED
      BY <2>1, <3>2, Zenon
  <2> QED
    BY <2>2, <2>3
<1>12. u = c
  <2>1. DOMAIN u = 1 .. k + n
    BY <1>10
  <2>2. c \in [1 .. k + n -> Seq(P)]
    BY <1>8, LenProperties
  <2>3. c = [i \in 1 .. k + n |-> c[i]]
    BY <2>2
  <2>4. u = [i \in 1 .. k + n |-> u[i]]
    BY <1>10, <2>1
  <2>5. [i \in 1 .. k + n |-> u[i]] = [i \in 1 .. k + n |-> c[i]]
    BY <1>11
  <2> QED
    BY <2>3, <2>4, <2>5, Zenon
<1> QED
  BY <1>12 DEF u, a, c, p

\* How many empty lines a block has at its end.
Extra(g) == IF TrailingNewlines(g) > 1 THEN TrailingNewlines(g) - 1 ELSE 0

LEMMA IndentIs ==
  \A g : Indent(g) = Padded(Split(WithoutTrailing(g))) \o Blanks(Extra(g))
BY DEF Indent, Padded, Extra

\* What a parser makes of the block's text, before chomping.
LEMMA ParseIs ==
  \A chomp, lines :
    LET text == Joined(Unpadded(lines)) IN
    ParseBlock(chomp, lines) =
      IF Unreadable(text) THEN Corrupt ELSE Chomped(chomp, Scan(ReadByte, <<>>, text))
BY DEF ParseBlock, Joined, Unpadded

\* Without control characters and other line breaks it is read as it is.
LEMMA ReadIs ==
  ASSUME NEW text \in Seq(Text \ Odd)
  PROVE  ~Unreadable(text) /\ Scan(ReadByte, <<>>, text) = text
<1> DEFINE U == Text \ Odd
           S == {t \in Seq(U) : Scan(ReadByte, <<>>, t) = t}
<1>1. ASSUME NEW b \in Text, NEW out \in Seq(Text)
      PROVE  /\ ReadByte[b][out] \in Seq(Text)
             /\ b \in U => ReadByte[b][out] = Append(out, b)
  <2>1. "nl" \in Text
    BY NewlineIsText
  <2>2. ReadByte[b][out] = CASE b = "cr" -> out
                             [] b = "nel" -> Append(out, "nl")
                             [] OTHER -> Append(out, b)
    BY DEF ReadByte
  <2>3. CASE b = "cr"
    BY <2>2, <2>3 DEF Odd
  <2>4. CASE b = "nel"
    BY <2>1, <2>2, <2>4, AppendProperties DEF Odd
  <2>5. CASE b # "cr" /\ b # "nel"
    <3>1. ReadByte[b][out] = Append(out, b)
      BY <2>2, <2>5
    <3> QED
      BY <3>1, AppendProperties
  <2> QED
    BY <2>3, <2>4, <2>5
<1>2. ReadByte \in [Text -> [Seq(Text) -> Seq(Text)]]
  BY <1>1 DEF ReadByte
<1>3. <<>> \in Seq(Text)
  BY EmptySeq
<1>4. Scans(ReadByte, <<>>, Text, Seq(Text))
  BY <1>2, <1>3, ScanOfOneMore
<1>5. <<>> \in S
  BY <1>4, EmptySeq DEF Scans
<1>6. ASSUME NEW t \in Seq(U), NEW b \in U, t \in S PROVE Append(t, b) \in S
  <2>1. t \in Seq(Text) /\ b \in Text /\ Append(t, b) \in Seq(U)
    BY SeqMonotonic, AppendProperties
  <2>2. Scan(ReadByte, <<>>, Append(t, b)) = ReadByte[b][Scan(ReadByte, <<>>, t)]
    BY <1>4, <2>1 DEF Scans
  <2>3. Scan(ReadByte, <<>>, Append(t, b)) = Append(t, b)
    BY <1>1, <1>6, <2>1, <2>2
  <2> QED
    BY <2>1, <2>3
<1> HIDE DEF S
<1>7. Seq(U) \subseteq S
  BY <1>5, <1>6, AllSequences
<1>8. Scan(ReadByte, <<>>, text) = text
  BY <1>7 DEF S
<1>9. \A i \in DOMAIN text : text[i] \in U
  BY LenProperties, ElementOfSeq
<1> QED
  BY <1>8, <1>9 DEF Unreadable, Odd

LEMMA BlockIsRead ==
  ASSUME NEW g \in Seq(Text \ Odd), NEW gb, NEW nls, Ends(g, gb, nls), NEW chomp
  PROVE  ParseBlock(chomp, Indent(g)) =
           Chomped(chomp, Append(gb, "nl")
                            \o Newlines(IF Len(nls) > 1 THEN Len(nls) - 1 ELSE 0))
<1> DEFINE U == Text \ Odd
           m == IF Len(nls) > 1 THEN Len(nls) - 1 ELSE 0
           text == Append(gb, "nl") \o Newlines(m)
<1>1. TrailingNewlines(g) = Len(nls) /\ WithoutTrailing(g) = gb /\ Len(nls) \in Nat
  BY TrailingIs
<1>2. gb \in Seq(Text) /\ m \in Nat /\ Extra(g) = m
  BY <1>1 DEF Ends, Extra
<1>3. gb \in Seq(U)
  <2>1. PICK b \in Seq(U), t \in Seq({"nl"}) : Ends(g, b, t)
    BY EveryTextEnds
  <2> QED
    BY <1>1, <2>1, TrailingIs
<1> HIDE DEF m
<1>4. Indent(g) = Padded(Split(gb)) \o Blanks(m)
  BY <1>1, <1>2, IndentIs
<1>5. Split(gb) \in Seq(Seq(Text)) /\ Joined(Split(gb)) = Append(gb, "nl")
  BY <1>2, SplitIsUndone
<1>6. Unpadded(Indent(g)) = Split(gb) \o Blanks(m)
  BY <1>2, <1>4, <1>5, PadIsUndone
<1>7. Joined(Unpadded(Indent(g))) = text
  <2>1. Joined(Split(gb) \o Blanks(m)) = Joined(Split(gb)) \o Newlines(m)
    BY <1>2, <1>5, BlanksAreNewlines
  <2> QED
    BY <1>5, <1>6, <2>1, Zenon
<1>8. text \in Seq(U)
  <2>1. "nl" \in U
    BY NewlineIsText DEF Odd
  <2>2. Newlines(m) \in Seq({"nl"})
    BY <1>2, NewlinesAre
  <2>3. Newlines(m) \in Seq(U)
    BY <2>1, <2>2, SeqMonotonic
  <2> QED
    BY <1>3, <2>1, <2>3, AppendProperties, ConcatProperties
<1> HIDE DEF text
<1>9. ~Unreadable(text) /\ Scan(ReadByte, <<>>, text) = text
  BY <1>8, ReadIs
<1>10. ParseBlock(chomp, Indent(g)) = Chomped(chomp, text)
  BY <1>7, <1>9, ParseIs
<1> QED
  BY <1>10 DEF text, m

\* The template reads back as what was put in: of a file that is not blank,
\* chomp picks the indicator for the newlines that indent leaves.
LEMMA ParsedIs ==
  ASSUME NEW s \in Seq(Plain), NEW body \in Seq(Byte), NEW nls,
         Ends(s, body, nls), body # <<>>
  PROVE  Parsed(s) = GuestBlockContent(s)
<1> DEFINE g == GuestBlockContent(s)
           n == Len(nls)
           m == IF n > 1 THEN n - 1 ELSE 0
           text(gb) == Append(gb, "nl") \o Newlines(m)
<1>1. PICK gb \in Seq(Text) : Ends(g, gb, nls) /\ gb # <<>>
  BY BlockIs
<1>2. g \in Seq(Text \ Odd)
  BY BlockIs
<1>3. TrailingNewlines(s) = n /\ n \in Nat /\ nls \in Seq({"nl"}) /\ nls = Newlines(n)
  BY TrailingIs, NewlinesAre DEF Ends
<1>4. g = gb \o Newlines(n)
  BY <1>1, <1>3 DEF Ends
<1> HIDE DEF g
<1>5. ParseBlock(Chomp(s), Indent(g)) = Chomped(Chomp(s), text(gb))
  BY <1>1, <1>2, BlockIsRead
<1> HIDE DEF n
<1>6. CASE n = 0
  <2>1. Chomp(s) = "strip"
    BY <1>3, <1>6 DEF Chomp
  <2>2. /\ <<"nl">> \in Seq({"nl"}) /\ <<"nl">> \in Seq(Text)
        /\ Newlines(0) = <<>> /\ m = 0
    <3>1. Newlines(0) \in Seq({"nl"}) /\ Len(Newlines(0)) = 0
      BY NewlinesAre
    <3> QED
      BY <1>6, <3>1, NewlineIsText, EmptySeq
  <2>3. text(gb) = gb \o <<"nl">>
    <3>1. Append(gb, "nl") = gb \o <<"nl">> /\ Append(gb, "nl") \in Seq(Text)
      BY <1>1, NewlineIsText, AppendIsConcat, AppendProperties
    <3>2. Append(gb, "nl") \o <<>> = Append(gb, "nl")
      BY <3>1, ConcatEmptySeq
    <3> QED
      BY <2>2, <3>1, <3>2
  <2>4. Ends(gb \o <<"nl">>, gb, <<"nl">>)
    BY <1>1, <2>2 DEF Ends
  <2>5. WithoutTrailing(text(gb)) = gb
    <3>1. WithoutTrailing(gb \o <<"nl">>) = gb
      BY <2>4, TrailingIs
    <3> QED
      BY <2>3, <3>1, Zenon
  <2>6. g = gb
    BY <1>1, <1>4, <1>6, <2>2, ConcatEmptySeq
  <2>7. Chomped("strip", text(gb)) = WithoutTrailing(text(gb))
    BY DEF Chomped
  <2> QED
    BY <1>5, <2>1, <2>5, <2>6, <2>7 DEF Parsed, g
<1>7. CASE n = 1
  <2>1. s # <<"nl">>
    <3>1. /\ <<>> \in Seq(Text) /\ <<"nl">> \in Seq({"nl"}) /\ <<"nl">> \in Seq(Text)
          /\ <<>> \o <<"nl">> = <<"nl">>
      BY EmptySeq, ConcatEmptySeq, NewlineIsText
    <3>2. Ends(<<"nl">>, <<>>, <<"nl">>)
      BY <3>1 DEF Ends
    <3>3. WithoutTrailing(<<"nl">>) = <<>> /\ WithoutTrailing(s) = body
      BY <3>2, TrailingIs
    <3> QED
      BY <3>3
  <2>2. Chomp(s) = "clip"
    BY <1>3, <1>7, <2>1 DEF Chomp
  <2>3. Newlines(1) = <<"nl">> /\ Newlines(0) = <<>> /\ m = 0
    <3>1. /\ Newlines(0) \in Seq({"nl"}) /\ Len(Newlines(0)) = 0
          /\ <<"nl">> \in Seq({"nl"}) /\ Len(<<"nl">>) = 1
      BY NewlinesAre
    <3>2. Newlines(0) = <<>>
      BY <3>1, EmptySeq
    <3>3. Newlines(1) = <<"nl">>
      <4>1. <<"nl">> = Newlines(Len(<<"nl">>))
        BY <3>1, NewlinesAre
      <4> QED
        BY <3>1, <4>1
    <3>4. m = 0
      BY <1>7
    <3> QED
      BY <3>2, <3>3, <3>4
  <2>4. g = gb \o <<"nl">>
    BY <1>4, <1>7, <2>3
  <2>5. Append(gb, "nl") = gb \o <<"nl">> /\ Append(gb, "nl") \in Seq(Text)
    BY <1>1, NewlineIsText, AppendIsConcat, AppendProperties
  <2>6. text(gb) = g
    <3>1. Append(gb, "nl") \o <<>> = Append(gb, "nl")
      BY <2>5, ConcatEmptySeq
    <3> QED
      BY <2>3, <2>4, <2>5, <3>1
  <2>7. WithoutTrailing(g) = gb
    BY <1>1, TrailingIs
  <2>8. Chomped("clip", g) = Append(gb, "nl")
    BY <1>1, <2>7 DEF Chomped
  <2> QED
    BY <1>5, <2>2, <2>4, <2>5, <2>6, <2>8 DEF Parsed, g
<1>8. CASE n > 1
  <2>1. Chomp(s) = "keep"
    BY <1>3, <1>8 DEF Chomp
  <2>2. m \in Nat /\ m + 1 = n
    BY <1>3, <1>8
  <2> HIDE DEF m
  <2>3. text(gb) = g
    BY <1>1, <1>4, <2>2, OneMoreNewline
  <2>4. Chomped("keep", g) = g
    BY DEF Chomped
  <2> QED
    BY <1>5, <2>1, <2>3, <2>4 DEF Parsed, g
<1> QED
  BY <1>3, <1>6, <1>7, <1>8

LEMMA BootDelivers ==
  ASSUME NEW s \in Seq(Byte), ~IsBlank(s), IsPlain(s)
  PROVE  /\ Evaluated(Parsed(s)) = s
         /\ TrailingNewlines(s) <= 1 => Booted(s) = s
<1>1. s \in Seq(Plain)
  <2>1. Len(s) \in Nat /\ DOMAIN s = 1 .. Len(s) /\ \A i \in 1 .. Len(s) : s[i] \in Byte
    BY LenProperties, ElementOfSeq
  <2>2. \A i \in 1 .. Len(s) : s[i] \in Plain
    BY <2>1 DEF Plain, Odd, IsPlain
  <2>3. s \in [1 .. Len(s) -> Plain]
    BY <2>1, <2>2, LenProperties
  <2> QED
    BY <2>1, <2>3, FunctionIsSequence
<1>2. PICK body \in Seq(Byte), nls \in Seq({"nl"}) : Ends(s, body, nls)
  BY NewlineIsText, EveryTextEnds
<1>3. body # <<>> /\ TrailingNewlines(s) = Len(nls)
  BY <1>2, TrailingIs DEF IsBlank
<1> DEFINE g == GuestBlockContent(s)
<1>4. Parsed(s) = g
  BY <1>1, <1>2, <1>3, ParsedIs
<1>5. ~OpensEarly(g) /\ Expand(g) = s /\ Head(g) # "tab"
  BY <1>1, <1>2, <1>3, BlockIs
<1>6. Evaluated(g) = s
  BY <1>5 DEF Evaluated, Expand
<1>7. ASSUME TrailingNewlines(s) <= 1 PROVE Booted(s) = s
  <2>1. PICK gb \in Seq(Text) : Ends(g, gb, nls) /\ gb # <<>>
    BY <1>1, <1>2, <1>3, BlockIs
  <2>2. TrailingNewlines(g) = Len(nls) /\ WithoutTrailing(g) = gb /\ Len(nls) \in Nat
    BY <2>1, TrailingIs
  <2>3. ~IsBlank(g) /\ ~(TrailingNewlines(g) > 1)
    BY <1>3, <1>7, <2>1, <2>2 DEF IsBlank
  <2> HIDE DEF g
  <2>4. Reserialized(g) = g
    BY <1>5, <2>3 DEF Reserialized
  <2> QED
    BY <1>4, <1>6, <2>4 DEF Booted
<1> QED
  BY <1>4, <1>6, <1>7

IsFile == content \in Seq(Byte)

LEMMA FilesAreTyped == Files => []IsFile
<1>1. NoFile => IsFile
  BY EmptySeq DEF NoFile, IsFile
<1>2. IsFile /\ [TypeByte]_content => IsFile'
  <2> SUFFICES ASSUME IsFile, [TypeByte]_content PROVE IsFile'
    OBVIOUS
  <2>1. CASE TypeByte
    <3>1. PICK b \in Byte : content' = Append(content, b)
      BY <2>1 DEF TypeByte
    <3> QED
      BY <3>1, AppendProperties DEF IsFile
  <2>2. CASE UNCHANGED content
    BY <2>2 DEF IsFile
  <2> QED
    BY <2>1, <2>2
<1> QED
  BY <1>1, <1>2, PTL DEF Files

(* guestBlockContent, chomp and indent: of a plain text, without what YAML  *)
(* refuses or takes for a line break of its own, a boot delivers the file's *)
(* bytes, as `profile apply` does, whatever its length and wherever braces, *)
(* tabs, empty lines and up to one trailing newline are in it.              *)
THEOREM BootsDeliver == Files => []BootEqualsApply
<1>1. IsFile => BootEqualsApply
  BY BootDelivers DEF IsFile, BootEqualsApply
<1> QED
  BY <1>1, FilesAreTyped, PTL
=============================================================================
