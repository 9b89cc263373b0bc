--------------------------- MODULE ConfigApplyProofs ---------------------------
(***************************************************************************)
(* Theorems about ConfigApply, for any number of processes, versions,      *)
(* boots and failures: the live tree is whole, a run that succeeded has    *)
(* locked that tree, an apply that reports success its own one, and no     *)
(* plugins are lost that the snapshot holds.                               *)
(***************************************************************************)
EXTENDS ConfigApply, TLAPS

-----------------------------------------------------------------------------
(* The inductive invariant                                                 *)

(* Who holds the lock: a process with its command in the guest, or the     *)
(* boot script, which exchanges nothing; nobody while the VM is off.       *)
Holder ==
  /\ run.by = NoOne <=> run.pc = "free"
  /\ run.by = Boot => vm = "boot" /\ run.pc \notin {"exchange", "remove"}
  /\ \A p \in Proc : run.by = p => cli[p].sent
  /\ vm = "off" => run.by = NoOne /\ \A p \in Proc : ~cli[p].sent

(* How far a run is: what it has still to place, and where it is.          *)
Progress ==
  /\ run.pc \in {"enter", "move"} => run.todo # {}
  /\ run.pc = "check" => run.todo = {}
  /\ run.pc \in {"move", "check"} /\ ~run.disturbed => run.cwd = dir

(* A process's record: its command is sent when all of its tree is staged, *)
(* and one that found the marker in this boot runs in a VM that is up.     *)
Sound(p, q) ==
  /\ q.sent => q.pc \in {"swap", "cleanup", "removing", "failed"}
  /\ q.staged \subseteq Source(p)
  /\ q.sent /\ q.made => q.staged = Source(p)
  /\ q.sent \/ q.pc \in {"make", "upload"}
       => q.boot <= boots /\ (q.boot = boots => vm \in {"up", "off"})
Staging == \A p \in Proc : Sound(p, cli[p])

(* Without a collision an apply is past its exchange only in a VM that is  *)
(* up, where nobody else writes the tree: it is the apply's own.           *)
IsTreeOf(p) == \A f \in File : tree[f] = IF f \in Source(p) THEN VersionOf[p] ELSE 0
Alone ==
  \A p \in Proc :
    run.by = p /\ run.pc # "exchange" /\ ~collided => vm = "up" /\ IsTreeOf(p)

(* What Lima has written so far.                                           *)
Provisioned ==
  vm = "provision" =>
    /\ shipped \in Version /\ unwritten \subseteq Ships[shipped]
    /\ ~collided => \A f \in Ships[shipped] \ unwritten : tree[f] = shipped
    /\ ~collided /\ unwritten # Ships[shipped] => ~exchanged

(* What a run has placed, and what the last one that succeeded has.        *)
IsHome(f) == f \notin edited /\ tree[f] # 0 => home[f] = tree[f]
Placed ==
  run.pc \in {"enter", "move", "check"} /\ ~run.disturbed /\ ~collided
    => \A f \in File \ run.todo : IsHome(f)
Quiet ==
  locked /\ ~collided
    => /\ run.pc \in {"free", "exchange"} /\ vm \notin {"provision", "boot"}
       /\ \A f \in File : IsHome(f)

(* The snapshot has the plugins that placing settings.json would lose.     *)
Kept == run.pc \in {"enter", "move"} /\ plugins => run.kept \/ run.missed

Rest ==
  /\ Holder /\ Progress /\ Staging /\ Alone /\ Provisioned /\ TreeWhole
  /\ Placed /\ Quiet /\ Kept
ApplyInv == TypeOK /\ Rest

-----------------------------------------------------------------------------
(* Constants, types and records                                            *)

LEMMA Constants ==
  /\ Boot \notin Proc /\ NoOne \notin Proc /\ Boot # NoOne /\ 0 \notin Version
  /\ Version \subseteq Nat
  /\ \A v \in Version : Ships[v] \subseteq File /\ Ships[v] # {}
  /\ \A p \in Proc : VersionOf[p] \in Version /\ Source(p) \subseteq File
  /\ MaxBoots \in Nat /\ MaxReplacements \in Nat /\ MaxFaults \in Nat
  BY ConfigAssumption DEF Source

LEMMA Typed ==
  ASSUME ApplyInv
  PROVE  /\ TypeOK /\ cli \in [Proc -> Process] /\ run \in Run /\ boots \in Nat
         /\ boots \in 0 .. MaxBoots /\ replacements \in 0 .. MaxReplacements
         /\ faults \in 0 .. MaxFaults
         /\ dir \in Nat /\ tree \in [File -> Version \union {0}]
         /\ home \in [File -> Version \union {0}]
         /\ \A p \in Proc : cli[p] \in Process /\ cli[p].boot \in Nat
<1>1. TypeOK /\ MaxBoots \in Nat
  BY Constants DEF ApplyInv
<1>2. cli \in [Proc -> Process] /\ run \in Run /\ boots \in Nat /\ dir \in Nat
  BY <1>1 DEF TypeOK
<1>3. \A p \in Proc : cli[p] \in Process /\ cli[p].boot \in Nat
  BY <1>1, <1>2 DEF Process
<1> QED
  BY <1>1, <1>2, <1>3 DEF TypeOK

LEMMA FreeIsRun ==
  /\ Free \in Run /\ Free.by = NoOne /\ Free.pc = "free" /\ Free.todo = {}
  /\ ~Free.disturbed
  BY DEF Free, Run, RunPc, Entry

(* The next entry to deliver or to place is one of those left.             *)
LEMMA FirstOf ==
  ASSUME NEW S, S \subseteq Entry, S # {}
  PROVE  First(S) \in S
  BY DEF First, Entry, File

(* Left forgets only what is of no use to a process that is over.          *)
LEMMA LeftIs ==
  ASSUME NEW p \in Proc, NEW q \in Process, Sound(p, q)
  PROVE  /\ Left(q) \in Process /\ Sound(p, Left(q))
         /\ Left(q).pc = q.pc /\ Left(q).sent = q.sent
<1>1. CASE q.pc \in Ended /\ ~q.sent
  <2>1. Left(q) = [Idle EXCEPT !.pc = q.pc]
    BY <1>1 DEF Left
  <2>2. Left(q) = [pc |-> q.pc, boot |-> 0, made |-> FALSE, staged |-> {}, sent |-> FALSE]
    BY <2>1 DEF Idle
  <2>3. /\ Left(q).pc = q.pc /\ Left(q).sent = FALSE /\ Left(q).staged = {}
        /\ Left(q).boot = 0 /\ Left(q).made = FALSE
    BY <2>2
  <2>4. Left(q) \in Process
    <3>1. q.pc \in CliPc /\ 0 \in 0 .. MaxBoots
      BY Constants DEF Process
    <3> QED
      BY <2>2, <3>1 DEF Process
  <2>5. q.sent = FALSE
    BY <1>1 DEF Process
  <2> QED
    BY <1>1, <2>3, <2>4, <2>5 DEF Sound, Ended
<1>2. CASE ~(q.pc \in Ended /\ ~q.sent)
  BY <1>2 DEF Left
<1> QED
  BY <1>1, <1>2

-----------------------------------------------------------------------------
(* Steps                                                                   *)

(* What p's new record must be when nothing but p's record changes.        *)
LEMMA OwnStep ==
  ASSUME ApplyInv, NEW p \in Proc, NEW q \in Process,
         cli' = [cli EXCEPT ![p] = q],
         UNCHANGED <<guest, run, agent, locked, collided, boots, replacements>>,
         faults' \in 0 .. MaxFaults,
         Sound(p, q), run.by = p => q.sent, vm = "off" => ~q.sent
  PROVE  ApplyInv'
<1>1. /\ cli'[p] = q /\ \A o \in Proc \ {p} : cli'[o] = cli[o]
      /\ cli' \in [Proc -> Process]
  BY Typed
<1>2. UNCHANGED <<vm, shipped, unwritten, tree, exchanged, run, dir, home, plugins,
                  edited, locked, collided, boots, replacements>>
  BY DEF guest, agent
<1> USE <1>2 DEF ApplyInv, Rest
<1>3. TypeOK'
  BY <1>1 DEF TypeOK
<1>4. Holder'
  BY <1>1 DEF Holder
<1>5. Staging'
  BY <1>1 DEF Staging, Sound, Source
<1>6. Progress' /\ Kept'
  BY DEF Progress, Kept
<1>7. Alone' /\ Provisioned'
  BY DEF Alone, Provisioned, IsTreeOf, Source
<1>8. TreeWhole' /\ Placed' /\ Quiet'
  BY DEF TreeWhole, Placed, Quiet, IsHome
<1> QED
  BY <1>3, <1>4, <1>5, <1>6, <1>7, <1>8

(* A process goes on to another step, or is over.                          *)
LEMMA GotoStep ==
  ASSUME ApplyInv, NEW p \in Proc, NEW c \in CliPc,
         Goto(p, c) \/ Goes(p, c),
         UNCHANGED <<guest, run, agent, locked, collided, boots, replacements>>,
         faults' \in 0 .. MaxFaults,
         c \in {"marker", "failed", "cleanup", "removing"},
         cli[p].sent => c # "marker"
  PROVE  ApplyInv'
<1> DEFINE q == [cli[p] EXCEPT !.pc = c]
<1>1. cli[p] \in Process /\ Sound(p, cli[p])
  BY Typed DEF ApplyInv, Rest, Staging
<1>2. /\ q \in Process /\ q.pc = c /\ q.boot = cli[p].boot /\ q.made = cli[p].made
      /\ q.staged = cli[p].staged /\ q.sent = cli[p].sent
  BY <1>1 DEF Process
<1>3. cli' = [cli EXCEPT ![p] = q] \/ cli' = [cli EXCEPT ![p] = Left(q)]
  BY DEF Goto, Goes, Becomes
<1> HIDE DEF q
<1>4. Sound(p, q)
  BY <1>1, <1>2 DEF Sound
<1>5. Left(q) \in Process /\ Sound(p, Left(q)) /\ Left(q).sent = q.sent
  BY <1>2, <1>4, LeftIs
<1>6. (run.by = p => cli[p].sent) /\ (vm = "off" => ~cli[p].sent)
  BY DEF ApplyInv, Rest, Holder
<1>7. CASE cli' = [cli EXCEPT ![p] = q]
  BY <1>2, <1>4, <1>6, <1>7, OwnStep
<1>8. CASE cli' = [cli EXCEPT ![p] = Left(q)]
  BY <1>2, <1>5, <1>6, <1>8, OwnStep
<1> QED
  BY <1>3, <1>7, <1>8

(* The steps of an apply.                                                  *)
LEMMA CliSteps ==
  ASSUME ApplyInv, NEW p \in Proc, CliStep(p)
  PROVE  ApplyInv'
<1>0. /\ UNCHANGED <<guest, run, agent, locked, collided, boots, replacements>>
      /\ faults' \in 0 .. MaxFaults
  BY Typed DEF CliStep, Begin, Down, BootCompleteMarker, MakeStage, Upload, SendSwap,
     CleanupStagingTree, bounds
<1>a. /\ cli[p] \in Process /\ Sound(p, cli[p]) /\ Source(p) \subseteq File
      /\ run.by = p => cli[p].sent
  BY Typed, Constants DEF ApplyInv, Rest, Staging, Holder
<1>b. cli[p].sent => cli[p].pc \in {"swap", "cleanup", "removing", "failed"}
  BY <1>a DEF Sound
<1>1. CASE Begin(p)
  <2>1. At(p, "idle") /\ (Goes(p, "failed") \/ Goto(p, "marker"))
    BY <1>1 DEF Begin
  <2> QED
    BY <1>0, <1>b, <2>1, GotoStep DEF At, CliPc
<1>2. CASE Down(p)
  BY <1>0, <1>2, GotoStep DEF Down, CliPc
<1>3. CASE BootCompleteMarker(p)
  <2>1. cli[p].pc = "marker" /\ vm # "off"
    BY <1>3 DEF BootCompleteMarker, At
  <2>2. CASE vm = "up"
    <3> DEFINE q == [cli[p] EXCEPT !.pc = "make", !.boot = boots]
    <3>1. cli' = [cli EXCEPT ![p] = q]
      BY <1>3, <2>2 DEF BootCompleteMarker
    <3>2. boots \in 0 .. MaxBoots /\ boots <= boots
      BY Typed
    <3>3. /\ q \in Process /\ q.pc = "make" /\ q.boot = boots /\ q.made = cli[p].made
          /\ q.sent = cli[p].sent /\ q.staged = cli[p].staged
      BY <1>a, <3>2 DEF Process, CliPc
    <3> HIDE DEF q
    <3>4. ~q.sent /\ run.by # p /\ Sound(p, q)
      BY <1>a, <1>b, <2>1, <2>2, <3>2, <3>3 DEF Sound
    <3> QED
      BY <1>0, <3>1, <3>3, <3>4, OwnStep
  <2>3. CASE vm # "up"
    BY <1>0, <1>3, <2>3, GotoStep DEF BootCompleteMarker, CliPc
  <2> QED
    BY <2>2, <2>3
<1>4. CASE MakeStage(p)
  <2> DEFINE q == [cli[p] EXCEPT !.pc = "upload", !.made = TRUE]
  <2>1. cli[p].pc = "make" /\ cli' = [cli EXCEPT ![p] = q]
    BY <1>4 DEF MakeStage, At
  <2>2. /\ q \in Process /\ q.pc = "upload" /\ q.boot = cli[p].boot
        /\ q.sent = cli[p].sent /\ q.staged = cli[p].staged
    BY <1>a DEF Process, CliPc
  <2> HIDE DEF q
  <2>3. ~q.sent /\ run.by # p /\ Sound(p, q)
    BY <1>a, <1>b, <2>1, <2>2 DEF Sound
  <2> QED
    BY <1>0, <2>1, <2>2, <2>3, OwnStep
<1>5. CASE Upload(p)
  <2> DEFINE new == cli[p].staged \union {First(Source(p) \ cli[p].staged)}
             q == [cli[p] EXCEPT !.staged = new]
  <2>1. cli[p].pc = "upload" /\ ~Uploaded(p) /\ cli' = [cli EXCEPT ![p] = q]
    BY <1>5, <1>a DEF Upload, At
  <2>2. new \subseteq Source(p)
    <3>1. cli[p].staged \subseteq Source(p)
      BY <1>a DEF Sound
    <3>2. Source(p) \ cli[p].staged \subseteq Entry /\ Source(p) \ cli[p].staged # {}
      BY <1>a, <2>1, <3>1 DEF Uploaded, Entry
    <3> QED
      BY <3>1, <3>2, FirstOf
  <2> HIDE DEF new
  <2>3. /\ q \in Process /\ q.pc = cli[p].pc /\ q.boot = cli[p].boot
        /\ q.sent = cli[p].sent /\ q.staged = new
    BY <1>a, <2>2 DEF Process
  <2> HIDE DEF q
  <2>4. ~q.sent /\ run.by # p /\ Sound(p, q)
    BY <1>a, <1>b, <2>1, <2>2, <2>3 DEF Sound
  <2> QED
    BY <1>0, <2>1, <2>3, <2>4, OwnStep
<1>6. CASE SendSwap(p)
  <2> DEFINE q == [cli[p] EXCEPT !.pc = "swap", !.sent = TRUE]
  <2>1. /\ cli[p].pc = "upload" /\ vm # "off" /\ cli[p].staged = Source(p)
        /\ cli' = [cli EXCEPT ![p] = q]
    BY <1>6 DEF SendSwap, At, Uploaded
  <2>2. /\ q \in Process /\ q.pc = "swap" /\ q.boot = cli[p].boot
        /\ q.sent = TRUE /\ q.staged = cli[p].staged
    BY <1>a DEF Process, CliPc
  <2> HIDE DEF q
  <2>3. Sound(p, q)
    BY <1>a, <2>1, <2>2 DEF Sound
  <2> QED
    BY <1>0, <2>1, <2>2, <2>3, OwnStep
<1>7. CASE CleanupStagingTree(p)
  <2>1. CASE Goto(p, "removing")
    BY <1>0, <2>1, GotoStep DEF CliPc
  <2>2. CASE ~Goto(p, "removing")
    <3> DEFINE q == [cli[p] EXCEPT !.pc = "failed", !.made = FALSE, !.staged = {}]
    <3>1. cli' = [cli EXCEPT ![p] = q]
      BY <1>7, <2>2 DEF CleanupStagingTree
    <3>2. /\ q \in Process /\ q.pc = "failed" /\ q.boot = cli[p].boot
          /\ q.sent = cli[p].sent /\ q.staged = {} /\ ~q.made
      BY <1>a DEF Process, CliPc
    <3> HIDE DEF q
    <3>3. Sound(p, q)
      BY <1>a, <3>2 DEF Sound
    <3>4. (run.by = p => q.sent) /\ (vm = "off" => ~q.sent)
      BY <1>a, <3>2 DEF ApplyInv, Rest, Holder
    <3> QED
      BY <1>0, <3>1, <3>2, <3>3, <3>4, OwnStep
  <2> QED
    BY <2>1, <2>2
<1> QED
  BY <1>1, <1>2, <1>3, <1>4, <1>5, <1>6, <1>7 DEF CliStep

(* A process is over, and the command it had in the guest with it.         *)
LEMMA OverIs ==
  ASSUME ApplyInv, NEW p \in Proc, NEW c \in Ended,
         NEW q, q = Left([cli[p] EXCEPT !.sent = FALSE, !.pc = c])
  PROVE  q \in Process /\ Sound(p, q) /\ ~q.sent /\ q.pc = c
<1> DEFINE r == [cli[p] EXCEPT !.sent = FALSE, !.pc = c]
<1>1. cli[p] \in Process /\ Sound(p, cli[p])
  BY Typed DEF ApplyInv, Rest, Staging
<1>2. /\ r \in Process /\ r.pc = c /\ r.sent = FALSE /\ r.staged = cli[p].staged
      /\ r.boot = cli[p].boot
  BY <1>1 DEF Process, CliPc, Ended
<1> HIDE DEF r
<1>3. Sound(p, r)
  BY <1>1, <1>2 DEF Sound, Ended
<1>4. q = Left(r)
  BY DEF r
<1> QED
  BY <1>2, <1>3, <1>4, LeftIs

(* A command fails or its connection breaks; code-vm is killed.            *)
LEMMA InterruptStep ==
  ASSUME ApplyInv, NEW p \in Proc, CommandFails(p) \/ Interrupt(p)
  PROVE  ApplyInv'
<1>1. /\ UNCHANGED <<guest, agent, locked, collided, boots, replacements>>
      /\ faults' \in 0 .. MaxFaults
      /\ Active(p)
      /\ \/ Outlives(p, "cleanup") \/ Outlives(p, "failed")
         \/ EndsHere(p)
  <2>1. faults' \in 0 .. MaxFaults
    BY Typed, Constants DEF CommandFails, Interrupt
  <2> QED
    BY <2>1 DEF CommandFails, Interrupt
<1>2. CASE Outlives(p, "cleanup") \/ Outlives(p, "failed")
  BY <1>1, <1>2, GotoStep DEF Outlives, CliPc
<1>3. CASE EndsHere(p)
  <2> DEFINE q == Left([cli[p] EXCEPT !.sent = FALSE, !.pc = "failed"])
  <2>1. q \in Process /\ Sound(p, q) /\ ~q.sent /\ q.pc = "failed"
    BY OverIs DEF Ended
  <2>2. cli' = [cli EXCEPT ![p] = q]
    <3>1. [cli[p] EXCEPT !.pc = "failed", !.sent = FALSE]
            = [cli[p] EXCEPT !.sent = FALSE, !.pc = "failed"]
      BY Typed DEF Process
    <3> QED
      BY <1>3, <3>1 DEF EndsHere, Becomes
  <2> HIDE DEF q
  <2>3. CASE run.by # p
    <3>1. run' = run
      BY <1>3, <2>3 DEF EndsHere
    <3> QED
      BY <1>1, <2>1, <2>2, <2>3, <3>1, OwnStep
  <2>4. CASE run.by = p
    <3>1. /\ run' = Free /\ run'.by = NoOne /\ run'.pc = "free" /\ run' \in Run
          /\ cli'[p] = q /\ \A o \in Proc \ {p} : cli'[o] = cli[o]
          /\ cli' \in [Proc -> Process]
          /\ Boot # NoOne /\ NoOne \notin Proc
      BY <1>3, <2>1, <2>2, <2>4, FreeIsRun, Typed, Constants DEF EndsHere
    <3>2. UNCHANGED <<vm, shipped, unwritten, tree, exchanged, dir, home, plugins,
                      edited, locked, collided, boots, replacements>>
      BY <1>1 DEF guest, agent
    <3> USE <3>1, <3>2 DEF ApplyInv, Rest
    <3>3. TypeOK'
      BY <1>1 DEF TypeOK
    <3>4. Holder'
      BY <2>1 DEF Holder
    <3>5. Staging'
      BY <2>1 DEF Staging, Sound, Source
    <3>6. Progress' /\ Kept' /\ Alone' /\ Placed'
      BY DEF Progress, Kept, Alone, Placed
    <3>7. Provisioned' /\ TreeWhole' /\ Quiet'
      BY DEF Provisioned, TreeWhole, Quiet, IsHome
    <3> QED
      BY <3>3, <3>4, <3>5, <3>6, <3>7
  <2> QED
    BY <2>3, <2>4
<1> QED
  BY <1>1, <1>2, <1>3

(* The VM boots, stops and is provisioned.                                 *)
LEMMA BootVmStep ==
  ASSUME ApplyInv, NEW v \in Version, BootVm(v)
  PROVE  ApplyInv'
<1>1. /\ vm = "off" /\ vm' = "provision" /\ boots' = boots + 1 /\ shipped' = v
      /\ unwritten' = Ships[v] /\ ~locked' /\ locked' = FALSE /\ boots < MaxBoots
      /\ UNCHANGED <<tree, exchanged, cli, run, dir, home, plugins, edited, collided,
                     replacements, faults>>
  BY DEF BootVm, agent
<1>2. /\ boots \in Nat /\ run.by = NoOne /\ run.pc = "free"
      /\ Boot # NoOne /\ NoOne \notin Proc /\ Ships[v] \subseteq File
  BY <1>1, Typed, Constants DEF ApplyInv, Rest, Holder
<1>3. TypeOK'
  <2>1. boots' \in 0 .. MaxBoots
    BY <1>1, <1>2, Constants
  <2> QED
    BY <1>1, <1>2, <2>1 DEF ApplyInv, TypeOK
<1>4. Holder' /\ Progress' /\ Alone' /\ Placed' /\ Kept'
  BY <1>1, <1>2 DEF ApplyInv, Rest, Holder, Progress, Alone, Placed, Kept
<1>5. Staging'
  <2>1. ASSUME NEW p \in Proc
        PROVE  Sound(p, cli[p])'
    <3>1. Sound(p, cli[p]) /\ cli[p].boot \in Nat
      BY Typed DEF ApplyInv, Rest, Staging
    <3>2. cli[p].boot <= boots => cli[p].boot <= boots + 1 /\ cli[p].boot # boots + 1
      BY <1>2, <3>1
    <3> QED
      BY <1>1, <3>1, <3>2 DEF Sound, Source
  <2> QED
    BY <2>1 DEF Staging
<1>6. Provisioned' /\ TreeWhole'
  BY <1>1 DEF Provisioned, TreeWhole
<1>7. Quiet'
  BY <1>1 DEF Quiet
<1> QED
  BY <1>3, <1>4, <1>5, <1>6, <1>7 DEF ApplyInv, Rest

LEMMA StopVmStep ==
  ASSUME ApplyInv, StopVm
  PROVE  ApplyInv'
<1>1. /\ vm' = "off" /\ shipped' = 0 /\ unwritten' = {} /\ run' = Free
      /\ UNCHANGED <<tree, exchanged, dir, home, plugins, edited, locked, collided,
                     boots, replacements, faults>>
  BY DEF StopVm, agent, bounds
<1>2. /\ run'.by = NoOne /\ run'.pc = "free" /\ run' \in Run
      /\ Boot # NoOne /\ NoOne \notin Proc
  BY <1>1, FreeIsRun, Constants
<1>3. ASSUME NEW p \in Proc
      PROVE  cli'[p] \in Process /\ Sound(p, cli'[p]) /\ ~cli'[p].sent
  <2> DEFINE q == [cli[p] EXCEPT !.sent = FALSE,
                                 !.pc = IF cli[p].sent THEN "failed" ELSE @]
  <2>1. cli'[p] = Left(q)
    BY DEF StopVm
  <2>2. cli[p] \in Process /\ Sound(p, cli[p])
    BY Typed DEF ApplyInv, Rest, Staging
  <2>3. /\ q \in Process /\ q.sent = FALSE /\ q.staged = cli[p].staged
        /\ q.boot = cli[p].boot /\ q.pc = IF cli[p].sent THEN "failed" ELSE cli[p].pc
    BY <2>2 DEF Process, CliPc
  <2> HIDE DEF q
  <2>4. Sound(p, q)
    BY <2>2, <2>3 DEF Sound
  <2> QED
    BY <2>1, <2>3, <2>4, LeftIs
<1>4. cli' \in [Proc -> Process]
  <2>1. DOMAIN cli' = Proc /\ cli' = [p \in Proc |-> cli'[p]]
    BY DEF StopVm
  <2> QED
    BY <1>3, <2>1
<1>5. TypeOK'
  BY <1>1, <1>2, <1>4 DEF ApplyInv, TypeOK
<1>6. Holder' /\ Progress' /\ Alone' /\ Placed' /\ Kept'
  BY <1>1, <1>2, <1>3 DEF Holder, Progress, Alone, Placed, Kept
<1>7. Staging'
  BY <1>1, <1>3 DEF Staging, Sound, Source
<1>8. Provisioned' /\ TreeWhole'
  BY <1>1 DEF Provisioned, TreeWhole
<1>9. Quiet'
  BY <1>1, <1>2 DEF ApplyInv, Rest, Quiet, IsHome
<1> QED
  BY <1>5, <1>6, <1>7, <1>8, <1>9 DEF ApplyInv, Rest

LEMMA WriteDataStep ==
  ASSUME ApplyInv, WriteData
  PROVE  ApplyInv'
<1> DEFINE f == First(unwritten)
<1>1. /\ vm = "provision" /\ unwritten # {}
      /\ tree' = [tree EXCEPT ![f] = shipped]
      /\ unwritten' = unwritten \ {f} /\ exchanged' = FALSE
      /\ UNCHANGED <<vm, shipped, cli, run, dir, home, plugins, edited, locked,
                     collided, boots, replacements, faults>>
  BY DEF WriteData, agent, bounds
<1>2. /\ shipped \in Version /\ unwritten \subseteq Ships[shipped]
      /\ Ships[shipped] \subseteq File
  BY <1>1, Constants DEF ApplyInv, Rest, Provisioned
<1>3. f \in unwritten
  BY <1>1, <1>2, FirstOf DEF Entry
<1> HIDE DEF f
<1>4. run.by # Boot
  BY <1>1 DEF ApplyInv, Rest, Holder
<1>5. /\ tree' \in [File -> Version \union {0}] /\ tree'[f] = shipped
      /\ \A g \in File \ {f} : tree'[g] = tree[g]
  BY <1>1, <1>2, <1>3, Typed
<1>6. TypeOK'
  BY <1>1, <1>5 DEF ApplyInv, TypeOK
<1>7. Holder' /\ Progress' /\ Kept'
  BY <1>1 DEF ApplyInv, Rest, Holder, Progress, Kept
<1>8. Staging'
  BY <1>1 DEF ApplyInv, Rest, Staging, Sound, Source
<1>9. Alone'
  BY <1>1 DEF ApplyInv, Rest, Alone
<1>10. Provisioned'
  BY <1>1, <1>2, <1>5 DEF ApplyInv, Rest, Provisioned
<1>11. TreeWhole' /\ Quiet'
  BY <1>1 DEF ApplyInv, Rest, TreeWhole, Quiet
<1>12. Placed'
  BY <1>1, <1>4, Typed DEF ApplyInv, Rest, Alone, Placed, Holder, Run
<1> QED
  BY <1>6, <1>7, <1>8, <1>9, <1>10, <1>11, <1>12 DEF ApplyInv, Rest

LEMMA EndProvisionStep ==
  ASSUME ApplyInv, EndProvision
  PROVE  ApplyInv'
<1>1. /\ vm = "provision" /\ unwritten = {} /\ vm' = "boot" /\ shipped' = 0
      /\ UNCHANGED <<unwritten, tree, exchanged, cli, run, dir, home, plugins, edited,
                     locked, collided, boots, replacements, faults>>
  BY DEF EndProvision, agent, bounds
<1>2. run.by # Boot
  BY <1>1 DEF ApplyInv, Rest, Holder
<1>3. TypeOK'
  BY <1>1 DEF ApplyInv, TypeOK
<1>4. Holder' /\ Progress' /\ Kept'
  BY <1>1, <1>2 DEF ApplyInv, Rest, Holder, Progress, Kept
<1>5. Staging'
  BY <1>1 DEF ApplyInv, Rest, Staging, Sound, Source
<1>6. Alone'
  BY <1>1 DEF ApplyInv, Rest, Alone
<1>7. Provisioned'
  BY <1>1 DEF Provisioned
<1>8. TreeWhole'
  <2>1. /\ shipped \in Version /\ Ships[shipped] # {} /\ Ships[shipped] \subseteq File
        /\ ~collided => ~exchanged /\ \A f \in Ships[shipped] : tree[f] = shipped
    BY <1>1, Constants DEF ApplyInv, Rest, Provisioned
  <2> QED
    BY <1>1, <2>1 DEF TreeWhole
<1>9. Quiet'
  BY <1>1 DEF ApplyInv, Rest, Quiet
<1>10. Placed'
  BY <1>1 DEF ApplyInv, Rest, Placed, IsHome
<1> QED
  BY <1>3, <1>4, <1>5, <1>6, <1>7, <1>8, <1>9, <1>10 DEF ApplyInv, Rest

(* The lock is taken.                                                      *)
LEMMA LockStep ==
  ASSUME ApplyInv, LockAtBoot \/ \E p \in Proc : TakeLock(p)
  PROVE  ApplyInv'
<1>1. /\ run.by = NoOne /\ run.pc = "free" /\ vm # "off"
      /\ \/ vm = "boot" /\ run' = [Free EXCEPT !.by = Boot, !.pc = "snapshot"]
         \/ \E p \in Proc : cli[p].sent /\ run' = [Free EXCEPT !.by = p, !.pc = "exchange"]
      /\ UNCHANGED <<vm, shipped, unwritten, tree, exchanged, cli, dir, home, plugins,
                     edited, locked, collided, boots, replacements, faults>>
  BY DEF LockAtBoot, TakeLock, LockFree, ApplyInv, Rest, Holder, guest, agent, bounds
<1>2. /\ run' \in Run
      /\ \/ vm = "boot" /\ run'.by = Boot /\ run'.pc = "snapshot"
         \/ run'.by \in Proc /\ run'.pc = "exchange" /\ cli[run'.by].sent
  BY <1>1, FreeIsRun DEF Run, RunPc
<1>3. TypeOK'
  BY <1>1, <1>2 DEF ApplyInv, TypeOK
<1>4. Holder'
  BY <1>1, <1>2, Constants DEF ApplyInv, Rest, Holder
<1>5. Progress' /\ Placed' /\ Kept'
  BY <1>1, <1>2 DEF Progress, Placed, Kept
<1>6. Staging'
  BY <1>1 DEF ApplyInv, Rest, Staging, Sound, Source
<1>7. Alone' /\ Provisioned' /\ TreeWhole'
  BY <1>1, <1>2, Constants DEF ApplyInv, Rest, Alone, Provisioned, TreeWhole
<1>8. Quiet'
  BY <1>1, <1>2 DEF ApplyInv, Rest, Quiet, IsHome
<1> QED
  BY <1>3, <1>4, <1>5, <1>6, <1>7, <1>8 DEF ApplyInv, Rest

(* The exchange: without a collision the process found the marker in this  *)
(* boot, and everything it staged is still there.                          *)
LEMMA ExchangeStep ==
  ASSUME ApplyInv, Exchange
  PROVE  ApplyInv'
<1>1. PICK p \in Proc, left \in SUBSET File :
        /\ run.by = p /\ run.pc = "exchange" /\ cli[p].made
        /\ Replaces(p, left) /\ run' = [run EXCEPT !.pc = "remove"]
  BY DEF Exchange
<1>2. /\ left # cli[p].staged => cli[p].pc = "removing"
      /\ tree' = [f \in File |-> IF f \in left THEN VersionOf[p] ELSE 0]
      /\ exchanged' = TRUE /\ locked' = FALSE
      /\ collided' \in BOOLEAN
      /\ ~collided' => ~collided /\ cli[p].pc # "removing"
                       /\ (vm = "up" \/ cli[p].boot = boots)
      /\ UNCHANGED <<vm, shipped, unwritten, cli, dir, home, plugins, edited,
                     boots, replacements, faults>>
  BY <1>1, Typed DEF Replaces, At, agent, bounds, TypeOK
<1>3. /\ cli[p].sent /\ Sound(p, cli[p]) /\ vm # "off" /\ Boot # p /\ NoOne # p
      /\ VersionOf[p] \in Version /\ Source(p) \subseteq File
  BY <1>1, Constants DEF ApplyInv, Rest, Holder, Staging
<1>4. ~collided' => vm = "up" /\ left = Source(p)
  BY <1>1, <1>2, <1>3 DEF Sound
<1>5. run' \in Run /\ run'.by = p /\ run'.pc = "remove"
  BY <1>1, Typed DEF Run, RunPc
<1>6. TypeOK'
  <2>1. tree' \in [File -> Version \union {0}]
    BY <1>2, <1>3
  <2> QED
    BY <1>2, <1>5, <2>1 DEF ApplyInv, TypeOK
<1>7. Holder'
  BY <1>2, <1>3, <1>5 DEF Holder
<1>8. Progress' /\ Placed' /\ Kept' /\ Quiet'
  BY <1>2, <1>5 DEF Progress, Placed, Kept, Quiet
<1>9. Staging'
  BY <1>2 DEF ApplyInv, Rest, Staging, Sound, Source
<1>10. ~collided' => IsTreeOf(p)'
  BY <1>2, <1>4 DEF IsTreeOf, Source
<1>11. Alone'
  <2>1. ASSUME NEW o \in Proc, run'.by = o
        PROVE  o = p
    BY <1>5, <2>1
  <2> QED
    BY <1>2, <1>4, <1>10, <2>1 DEF Alone
<1>12. Provisioned'
  BY <1>2, <1>4 DEF ApplyInv, Rest, Provisioned
<1>13. TreeWhole'
  <2>1. ASSUME ~collided', NEW f \in File
        PROVE  IF f \in Ships[VersionOf[p]] THEN tree'[f] = VersionOf[p] ELSE tree'[f] = 0
    BY <1>10, <2>1 DEF IsTreeOf, Source
  <2> QED
    BY <1>3, <2>1 DEF TreeWhole
<1> QED
  BY <1>6, <1>7, <1>8, <1>9, <1>11, <1>12, <1>13 DEF ApplyInv, Rest

LEMMA RemovePreviousStep ==
  ASSUME ApplyInv, RemovePrevious
  PROVE  ApplyInv'
<1>1. PICK p \in Proc :
        /\ run.by = p /\ run.pc = "remove"
        /\ cli' = [cli EXCEPT ![p] = [@ EXCEPT !.made = FALSE, !.staged = {}]]
        /\ run' = [run EXCEPT !.pc = "snapshot"]
        /\ UNCHANGED <<guest, agent, locked, collided, bounds>>
  BY DEF RemovePrevious
<1> DEFINE q == [cli[p] EXCEPT !.made = FALSE, !.staged = {}]
<1>2. UNCHANGED <<vm, shipped, unwritten, tree, exchanged, dir, home, plugins, edited,
                  locked, collided, boots, replacements, faults>>
  BY <1>1 DEF guest, agent, bounds
<1>3. cli[p] \in Process /\ Sound(p, cli[p]) /\ cli[p].sent
  BY <1>1, Typed DEF ApplyInv, Rest, Staging, Holder
<1>4. /\ q \in Process /\ q.pc = cli[p].pc /\ q.boot = cli[p].boot
      /\ q.sent = cli[p].sent /\ q.staged = {} /\ q.made = FALSE
  BY <1>3 DEF Process
<1>5. cli' = [cli EXCEPT ![p] = q]
  BY <1>1
<1> HIDE DEF q
<1>6. Sound(p, q)
  BY <1>3, <1>4 DEF Sound
<1>7. /\ cli'[p] = q /\ \A o \in Proc \ {p} : cli'[o] = cli[o]
      /\ cli' \in [Proc -> Process]
  BY <1>4, <1>5, Typed
<1>8. run' \in Run /\ run'.by = run.by /\ run'.pc = "snapshot"
  BY <1>1, Typed DEF Run, RunPc
<1>9. TypeOK'
  BY <1>2, <1>7, <1>8 DEF ApplyInv, TypeOK
<1>10. Holder'
  BY <1>1, <1>2, <1>3, <1>4, <1>7, <1>8, Constants DEF ApplyInv, Rest, Holder
<1>11. Progress' /\ Placed' /\ Kept'
  BY <1>8 DEF Progress, Placed, Kept
<1>12. Staging'
  BY <1>2, <1>6, <1>7 DEF ApplyInv, Rest, Staging, Sound, Source
<1>13. Alone'
  BY <1>1, <1>2, <1>8 DEF ApplyInv, Rest, Alone, IsTreeOf, Source
<1>14. Provisioned' /\ TreeWhole'
  BY <1>2 DEF ApplyInv, Rest, Provisioned, TreeWhole
<1>15. Quiet'
  BY <1>1, <1>2 DEF ApplyInv, Rest, Quiet
<1> QED
  BY <1>9, <1>10, <1>11, <1>12, <1>13, <1>14, <1>15 DEF ApplyInv, Rest

(* lock-settings.sh.                                                       *)
LEMMA SnapshotStep ==
  ASSUME ApplyInv, Snapshot
  PROVE  ApplyInv'
<1>1. /\ run.pc = "snapshot" /\ edited' = {} /\ faults' \in 0 .. MaxFaults
      /\ \/ run' = [run EXCEPT !.pc = "enter", !.todo = Listed, !.kept = plugins]
         \/ run' = [run EXCEPT !.pc = "enter", !.todo = Listed, !.missed = TRUE]
      /\ UNCHANGED <<vm, shipped, unwritten, tree, exchanged, cli, dir, home, plugins,
                     locked, collided, boots, replacements>>
  <2>1. faults' \in 0 .. MaxFaults
    BY Typed, Constants DEF Snapshot
  <2> QED
    BY <2>1 DEF Snapshot, guest
<1>2. /\ Listed \subseteq Entry /\ Listed # {}
      /\ \A f \in File \ Listed : tree[f] = 0
  BY DEF Listed, Entry
<1> HIDE DEF Listed
<1>3. /\ run' \in Run /\ run'.by = run.by /\ run'.pc = "enter" /\ run'.todo = Listed
      /\ run'.kept = plugins \/ run'.missed
  BY <1>1, <1>2, Typed DEF Run, RunPc, TypeOK
<1>4. TypeOK'
  BY <1>1, <1>3 DEF ApplyInv, TypeOK
<1>5. Holder'
  BY <1>1, <1>3 DEF ApplyInv, Rest, Holder
<1>6. Progress' /\ Kept'
  BY <1>1, <1>2, <1>3 DEF Progress, Kept
<1>7. Staging' /\ Provisioned' /\ TreeWhole'
  BY <1>1 DEF ApplyInv, Rest, Staging, Sound, Source, Provisioned, TreeWhole
<1>8. Alone'
  BY <1>1, <1>3 DEF ApplyInv, Rest, Alone, IsTreeOf, Source
<1>9. Placed'
  BY <1>1, <1>2, <1>3 DEF Placed, IsHome
<1>10. Quiet'
  BY <1>1 DEF ApplyInv, Rest, Quiet
<1> QED
  BY <1>4, <1>5, <1>6, <1>7, <1>8, <1>9, <1>10 DEF ApplyInv, Rest

LEMMA EnsureDirStep ==
  ASSUME ApplyInv, EnsureDir
  PROVE  ApplyInv'
<1>1. /\ run.pc = "enter" /\ run' = [run EXCEPT !.pc = "move", !.cwd = dir]
      /\ UNCHANGED <<vm, shipped, unwritten, tree, exchanged, cli, dir, home, plugins,
                     edited, locked, collided, boots, replacements, faults>>
  BY DEF EnsureDir, guest, agent, bounds
<1>2. /\ run' \in Run /\ run'.by = run.by /\ run'.pc = "move" /\ run'.todo = run.todo
      /\ run'.cwd = dir /\ run'.kept = run.kept /\ run'.missed = run.missed
      /\ run'.disturbed = run.disturbed
  BY <1>1, Typed DEF Run, RunPc
<1>3. TypeOK'
  BY <1>1, <1>2 DEF ApplyInv, TypeOK
<1>4. Holder' /\ Progress' /\ Kept'
  BY <1>1, <1>2 DEF ApplyInv, Rest, Holder, Progress, Kept
<1>5. Staging' /\ Provisioned' /\ TreeWhole'
  BY <1>1 DEF ApplyInv, Rest, Staging, Sound, Source, Provisioned, TreeWhole
<1>6. Alone'
  BY <1>1, <1>2 DEF ApplyInv, Rest, Alone, IsTreeOf, Source
<1>7. Placed' /\ Quiet'
  BY <1>1, <1>2 DEF ApplyInv, Rest, Placed, Quiet, IsHome
<1> QED
  BY <1>3, <1>4, <1>5, <1>6, <1>7 DEF ApplyInv, Rest

LEMMA PlaceStep ==
  ASSUME ApplyInv, Place
  PROVE  ApplyInv'
<1> DEFINE f == First(run.todo)
<1>1. /\ run.pc = "move"
      /\ run' = [run EXCEPT !.todo = run.todo \ {f},
                            !.pc = IF run.todo = {f} THEN "check" ELSE "enter"]
      /\ \/ /\ run.cwd = dir
            /\ home' = [g \in File |-> IF g = f THEN tree[f] ELSE home[g]]
            /\ edited' = edited \ {f} /\ plugins' \in {plugins, run.kept}
         \/ run.cwd # dir /\ UNCHANGED <<home, edited, plugins>>
      /\ UNCHANGED <<vm, shipped, unwritten, tree, exchanged, cli, dir,
                     locked, collided, boots, replacements, faults>>
  BY DEF Place, Merged, guest, bounds
<1>2. /\ run.todo \subseteq Entry /\ run.todo # {} /\ run.kept \in BOOLEAN
      /\ ~run.disturbed => run.cwd = dir
  BY <1>1, Typed DEF ApplyInv, Rest, Progress, Run
<1>3. f \in run.todo
  BY <1>2, FirstOf
<1> HIDE DEF f
<1>4. /\ run' \in Run /\ run'.by = run.by /\ run'.todo = run.todo \ {f}
      /\ run'.cwd = run.cwd /\ run'.kept = run.kept /\ run'.missed = run.missed
      /\ run'.disturbed = run.disturbed
      /\ \/ run'.pc = "check" /\ run.todo = {f}
         \/ run'.pc = "enter" /\ run.todo # {f}
  BY <1>1, Typed DEF Run, RunPc
<1>5. /\ home' \in [File -> Version \union {0}] /\ plugins' \in BOOLEAN
      /\ edited' \subseteq File
  BY <1>1, <1>2, Typed DEF TypeOK
<1>6. TypeOK'
  BY <1>1, <1>4, <1>5 DEF ApplyInv, TypeOK
<1>7. Holder'
  BY <1>1, <1>4 DEF ApplyInv, Rest, Holder
<1>8. Progress'
  BY <1>1, <1>2, <1>3, <1>4 DEF Progress
<1>9. Kept'
  BY <1>1, <1>2, <1>4 DEF ApplyInv, Rest, Kept
<1>10. Staging' /\ Provisioned' /\ TreeWhole'
  BY <1>1 DEF ApplyInv, Rest, Staging, Sound, Source, Provisioned, TreeWhole
<1>11. Alone'
  BY <1>1, <1>4 DEF ApplyInv, Rest, Alone, IsTreeOf, Source
<1>12. Placed'
  <2>1. ASSUME ~run.disturbed, ~collided, NEW g \in File \ run'.todo
        PROVE  IsHome(g)'
    <3>1. CASE g = f
      BY <1>1, <1>2, <2>1, <3>1 DEF IsHome
    <3>2. CASE g # f
      BY <1>1, <1>2, <1>4, <2>1, <3>2 DEF ApplyInv, Rest, Placed, IsHome
    <3> QED
      BY <3>1, <3>2
  <2> QED
    BY <1>1, <1>4, <2>1 DEF Placed
<1>13. Quiet'
  BY <1>1 DEF ApplyInv, Rest, Quiet
<1> QED
  BY <1>6, <1>7, <1>8, <1>9, <1>10, <1>11, <1>12, <1>13 DEF ApplyInv, Rest

(* What every end of a run leaves.                                         *)
LEMMA ReleaseStep ==
  ASSUME ApplyInv, NEW ok \in BOOLEAN, Release(ok), run.pc # "free",
         locked' \in BOOLEAN, faults' \in 0 .. MaxFaults, Quiet'
  PROVE  ApplyInv'
<1>1. /\ run' = Free /\ run'.by = NoOne /\ run'.pc = "free" /\ run' \in Run
      /\ run.by # NoOne
      /\ UNCHANGED <<shipped, unwritten, tree, exchanged, dir, home, plugins, edited,
                     collided, boots, replacements>>
  BY FreeIsRun DEF Release, AfterRun, agent, ApplyInv, Rest, Holder
<1>2. /\ run.by = Boot => vm = "boot" /\ vm' \in {"up", "failed"}
      /\ run.by # Boot => vm' = vm
      /\ vm # "off"
  BY <1>1 DEF Release, ApplyInv, Rest, Holder
<1>3. ASSUME NEW p \in Proc
      PROVE  /\ cli'[p] \in Process /\ Sound(p, cli[p])'
             /\ run.by # p => cli'[p] = cli[p]
  <2>1. cli[p] \in Process /\ Sound(p, cli[p])
    BY Typed DEF ApplyInv, Rest, Staging
  <2>2. Sound(p, cli[p])'  <=>  /\ cli'[p].sent => cli'[p].pc \in
                                     {"swap", "cleanup", "removing", "failed"}
                                /\ cli'[p].staged \subseteq Source(p)
                                /\ cli'[p].sent /\ cli'[p].made
                                     => cli'[p].staged = Source(p)
                                /\ cli'[p].sent \/ cli'[p].pc \in {"make", "upload"}
                                     => /\ cli'[p].boot <= boots
                                        /\ cli'[p].boot = boots => vm' \in {"up", "off"}
    BY <1>1 DEF Sound, Source
  <2>3. CASE run.by # p
    <3>1. cli'[p] = cli[p]
      BY <2>3 DEF Release
    <3> QED
      BY <1>2, <2>1, <2>2, <3>1 DEF Sound
  <2>4. CASE run.by = p
    <3> DEFINE c == IF ok /\ At(p, "swap") THEN "done" ELSE "failed"
    <3>1. cli'[p] = Left([cli[p] EXCEPT !.sent = FALSE, !.pc = c])
      BY <2>4 DEF Release
    <3>2. c \in Ended
      BY DEF Ended
    <3> HIDE DEF c
    <3>3. /\ cli'[p] \in Process /\ Sound(p, cli'[p]) /\ ~cli'[p].sent
          /\ cli'[p].pc = c
      BY <3>1, <3>2, OverIs
    <3> QED
      BY <2>2, <2>4, <3>2, <3>3 DEF Sound, Ended
  <2> QED
    BY <2>3, <2>4
<1>4. cli' \in [Proc -> Process]
  <2>1. cli' = [p \in Proc |-> cli'[p]]
    BY DEF Release
  <2> QED
    BY <1>3, <2>1
<1>5. TypeOK'
  BY <1>1, <1>2, <1>4 DEF ApplyInv, TypeOK
<1>6. Holder'
  BY <1>1, <1>2, Constants DEF Holder
<1>7. Progress' /\ Alone' /\ Placed' /\ Kept'
  BY <1>1, Constants DEF Progress, Alone, Placed, Kept
<1>8. Staging'
  BY <1>3 DEF Staging, Sound, Source
<1>9. Provisioned'
  BY <1>1, <1>2 DEF ApplyInv, Rest, Provisioned
<1>10. TreeWhole'
  BY <1>1, <1>2 DEF ApplyInv, Rest, TreeWhole
<1> QED
  BY <1>5, <1>6, <1>7, <1>8, <1>9, <1>10 DEF ApplyInv, Rest

LEMMA EndRunStep ==
  ASSUME ApplyInv, Check \/ RunFails \/ ExchangeFails
  PROVE  ApplyInv'
<1>1. CASE Check /\ run.cwd = dir
  <2>1. /\ run.pc = "check" /\ Release(TRUE) /\ locked' = ~run.disturbed
        /\ faults' = faults
    BY <1>1 DEF Check
  <2>2. /\ run' = Free /\ vm' = (IF run.by # Boot THEN vm ELSE "up")
        /\ UNCHANGED <<tree, home, edited, collided>>
    BY <2>1 DEF Release, AfterRun, agent
  <2>3. ASSUME ~collided, ~run.disturbed
        PROVE  vm' = "up" /\ \A f \in File : IsHome(f)
    <3>1. \A f \in File : IsHome(f)
      BY <2>1, <2>3 DEF ApplyInv, Rest, Progress, Placed
    <3>2. run.by = Boot \/ run.by \in Proc
      BY <2>1, Typed DEF ApplyInv, Rest, Holder, Run
    <3> QED
      BY <2>1, <2>2, <2>3, <3>1, <3>2 DEF ApplyInv, Rest, Alone
  <2>4. Quiet'
    BY <2>1, <2>2, <2>3, FreeIsRun DEF Quiet, IsHome
  <2>5. locked' \in BOOLEAN
    BY <2>1
  <2> QED
    BY <2>1, <2>4, <2>5, ReleaseStep, Typed
<1>2. CASE RunFails
  <2>1. run.pc # "free" /\ Release(FALSE) /\ locked' = FALSE
    BY <1>2 DEF RunFails
  <2>2. faults' \in 0 .. MaxFaults
    <3>1. faults' = faults + 1 /\ faults < MaxFaults
      BY <1>2 DEF RunFails
    <3> QED
      BY <3>1, Typed, Constants
  <2>3. Quiet'
    BY <2>1 DEF Quiet
  <2> QED
    BY <2>1, <2>2, <2>3, ReleaseStep
<1>3. CASE ExchangeFails \/ (Check /\ run.cwd # dir)
  <2>1. run.pc \in {"exchange", "check"} /\ Release(FALSE) /\ UNCHANGED <<locked, faults>>
    BY <1>3 DEF Check, ExchangeFails
  <2>2. /\ run' = Free /\ (run.by # Boot => vm' = vm)
        /\ run.by = Boot => run.pc # "exchange"
        /\ UNCHANGED <<tree, home, edited, collided>>
    BY <2>1 DEF Release, AfterRun, agent, ApplyInv, Rest, Holder
  <2>3. Quiet'
    BY <2>1, <2>2, FreeIsRun DEF ApplyInv, Rest, Quiet, IsHome
  <2> QED
    BY <2>1, <2>3, ReleaseStep, Typed DEF TypeOK
<1> QED
  BY <1>1, <1>2, <1>3

(* The agent, as the owner of its home: it replaces a file, or ~/.claude.   *)
LEMMA OwnerStep ==
  ASSUME ApplyInv,
         UNCHANGED <<vm, shipped, unwritten, tree, exchanged, cli, collided, boots, faults>>,
         run' \in Run, run'.by = run.by, run'.pc = run.pc, run'.todo = run.todo,
         run'.kept = run.kept, run'.cwd = run.cwd, run.missed => run'.missed,
         home' \in [File -> Version \union {0}], edited' \subseteq File,
         plugins' \in BOOLEAN, replacements' \in 0 .. MaxReplacements,
         \/ /\ dir' = dir /\ locked' = locked /\ run'.disturbed = run.disturbed
            /\ edited \subseteq edited' /\ \A f \in File \ edited' : home'[f] = home[f]
            /\ plugins' => plugins \/ run.pc \notin {"enter", "move"} \/ run'.missed
         \/ /\ dir' = dir + 1 /\ locked' = FALSE /\ plugins' = FALSE
            /\ run'.disturbed = (run.pc # "free")
  PROVE  ApplyInv'
<1>1. TypeOK'
  <2>1. locked' \in BOOLEAN
    BY Typed DEF TypeOK
  <2>2. dir' \in Nat
    BY Typed
  <2> QED
    BY <2>1, <2>2, Typed DEF TypeOK
<1>2. Holder' /\ Kept'
  BY DEF ApplyInv, Rest, Holder, Kept
<1>3. Progress'
  BY DEF ApplyInv, Rest, Progress
<1>4. Staging' /\ Provisioned' /\ TreeWhole'
  BY DEF ApplyInv, Rest, Staging, Sound, Source, Provisioned, TreeWhole
<1>5. Alone'
  BY DEF ApplyInv, Rest, Alone, IsTreeOf, Source
<1>6. Placed'
  BY DEF ApplyInv, Rest, Placed, IsHome
<1>7. Quiet'
  BY DEF ApplyInv, Rest, Quiet, IsHome
<1> QED
  BY <1>1, <1>2, <1>3, <1>4, <1>5, <1>6, <1>7 DEF ApplyInv, Rest

LEMMA AgentStep ==
  ASSUME ApplyInv,
         EnablePlugins \/ ReplaceDir \/ UNCHANGED vars \/ \E f \in File : ReplaceFile(f)
  PROVE  ApplyInv'
<1>1. CASE EnablePlugins
  <2> DEFINE missed == run.missed \/ run.pc \in {"enter", "move"}
  <2>1. /\ UNCHANGED <<vm, shipped, unwritten, tree, exchanged, cli, dir, locked, collided,
                       boots, faults>>
        /\ replacements' = replacements + 1 /\ replacements < MaxReplacements
        /\ plugins' = TRUE /\ edited' = edited \union {"settings"}
        /\ home' = [f \in File |-> IF f \in {"settings"} THEN 0 ELSE home[f]]
        /\ run' = [run EXCEPT !.missed = missed]
    BY <1>1 DEF EnablePlugins, Takes, guest
  <2>2. missed \in BOOLEAN /\ (run.missed => missed)
    BY Typed DEF Run
  <2>3. run.pc \in {"enter", "move"} => missed
    OBVIOUS
  <2> HIDE DEF missed
  <2>4. /\ run' \in Run /\ run'.by = run.by /\ run'.pc = run.pc /\ run'.todo = run.todo
        /\ run'.kept = run.kept /\ run'.cwd = run.cwd /\ run'.missed = missed
        /\ run'.disturbed = run.disturbed
    BY <2>1, <2>2, Typed DEF Run
  <2>5. replacements' \in 0 .. MaxReplacements
    BY <2>1, Typed, Constants
  <2>6. home' \in [File -> Version \union {0}] /\ edited' \subseteq File
    BY <2>1, Typed DEF TypeOK, File
  <2>7. edited \subseteq edited' /\ \A f \in File \ edited' : home'[f] = home[f]
    BY <2>1
  <2> QED
    BY <2>1, <2>2, <2>3, <2>4, <2>5, <2>6, <2>7, OwnerStep
<1>2. CASE ReplaceDir
  <2> DEFINE during == run.pc # "free"
  <2>1. /\ UNCHANGED <<vm, shipped, unwritten, tree, exchanged, cli, collided, boots, faults>>
        /\ replacements' = replacements + 1 /\ replacements < MaxReplacements
        /\ dir' = dir + 1 /\ locked' = FALSE /\ plugins' = FALSE /\ edited' = {}
        /\ home' = [f \in File |-> IF f \in File THEN 0 ELSE home[f]]
        /\ run' = [run EXCEPT !.disturbed = during]
    BY <1>2 DEF ReplaceDir, Takes, guest
  <2>2. during \in BOOLEAN /\ during = (run.pc # "free")
    OBVIOUS
  <2> HIDE DEF during
  <2>3. /\ run' \in Run /\ run'.by = run.by /\ run'.pc = run.pc /\ run'.todo = run.todo
        /\ run'.kept = run.kept /\ run'.cwd = run.cwd /\ run'.missed = run.missed
        /\ run'.disturbed = during
    BY <2>1, <2>2, Typed DEF Run
  <2>4. replacements' \in 0 .. MaxReplacements
    BY <2>1, Typed, Constants
  <2>5. home' \in [File -> Version \union {0}]
    BY <2>1
  <2> QED
    BY <2>1, <2>2, <2>3, <2>4, <2>5, OwnerStep
<1>3. ASSUME NEW f \in File, ReplaceFile(f)
      PROVE  ApplyInv'
  <2>1. /\ UNCHANGED <<vm, shipped, unwritten, tree, exchanged, cli, run, dir, plugins,
                       locked, collided, boots, faults>>
        /\ replacements' = replacements + 1 /\ replacements < MaxReplacements
        /\ edited' = edited \union {f}
        /\ home' = [g \in File |-> IF g \in {f} THEN 0 ELSE home[g]]
    BY <1>3 DEF ReplaceFile, Takes, guest
  <2>2. run' \in Run /\ plugins' \in BOOLEAN
    BY <2>1, Typed DEF TypeOK
  <2>3. replacements' \in 0 .. MaxReplacements
    BY <2>1, Typed, Constants
  <2>4. home' \in [File -> Version \union {0}] /\ edited' \subseteq File
    BY <2>1, Typed DEF TypeOK
  <2>5. edited \subseteq edited' /\ \A g \in File \ edited' : home'[g] = home[g]
    BY <2>1
  <2> QED
    BY <2>1, <2>2, <2>3, <2>4, <2>5, OwnerStep
<1>4. CASE UNCHANGED vars
  <2>1. /\ UNCHANGED <<vm, shipped, unwritten, tree, exchanged, cli, run, dir, home, plugins,
                       edited, locked, collided, boots, replacements, faults>>
    BY <1>4 DEF vars, guest, agent, bounds
  <2>2. run' \in Run /\ plugins' \in BOOLEAN /\ edited' \subseteq File
    BY <2>1, Typed DEF TypeOK
  <2> QED
    BY <2>1, <2>2, Typed, OwnerStep
<1> QED
  BY <1>1, <1>2, <1>3, <1>4

-----------------------------------------------------------------------------
(* The theorems                                                            *)

LEMMA InvInit == Init => ApplyInv
<1> SUFFICES ASSUME Init PROVE ApplyInv
  OBVIOUS
<1>1. /\ vm = "off" /\ shipped = 0 /\ unwritten = {} /\ tree = [f \in File |-> 0]
      /\ cli = [p \in Proc |-> Idle] /\ run = Free
      /\ dir = 1 /\ home = [f \in File |-> 0] /\ plugins = FALSE /\ edited = {}
      /\ locked = FALSE /\ exchanged = FALSE /\ collided = FALSE
      /\ boots = 0 /\ replacements = 0 /\ faults = 0
  BY DEF Init
<1>2. /\ Idle \in Process /\ Idle.pc = "idle" /\ Idle.sent = FALSE /\ Idle.staged = {}
      /\ \A p \in Proc : cli[p] = Idle
  BY <1>1, Constants DEF Idle, Process, CliPc
<1>3. run.by = NoOne /\ run.pc = "free" /\ Boot # NoOne /\ NoOne \notin Proc
  BY <1>1, FreeIsRun, Constants
<1>4. TypeOK
  <2>1. 0 \in 0 .. MaxBoots /\ 0 \in 0 .. MaxReplacements /\ 0 \in 0 .. MaxFaults
    BY Constants
  <2> QED
    BY <1>1, <1>2, <2>1, FreeIsRun DEF TypeOK
<1>5. Holder /\ Progress /\ Alone /\ Placed /\ Kept
  BY <1>1, <1>2, <1>3 DEF Holder, Progress, Alone, Placed, Kept
<1>6. Staging
  BY <1>2 DEF Staging, Sound
<1>7. Provisioned /\ TreeWhole /\ Quiet
  BY <1>1 DEF Provisioned, TreeWhole, Quiet
<1> QED
  BY <1>4, <1>5, <1>6, <1>7 DEF ApplyInv, Rest

LEMMA InvStep == ApplyInv /\ [Next]_vars => ApplyInv'
<1> SUFFICES ASSUME ApplyInv, [Next]_vars
             PROVE  ApplyInv'
  OBVIOUS
<1>1. CASE StopVm \/ GuestStep \/ RunFails
  BY <1>1, StopVmStep, WriteDataStep, EndProvisionStep, LockStep, ExchangeStep,
     RemovePreviousStep, SnapshotStep, EnsureDirStep, PlaceStep, EndRunStep
     DEF GuestStep, RunStep
<1>2. CASE EnablePlugins \/ ReplaceDir \/ UNCHANGED vars \/ \E f \in File : ReplaceFile(f)
  BY <1>2, AgentStep
<1>3. ASSUME NEW v \in Version, BootVm(v)
      PROVE  ApplyInv'
  BY <1>3, BootVmStep
<1>4. ASSUME NEW p \in Proc,
             CliStep(p) \/ TakeLock(p) \/ CommandFails(p) \/ Interrupt(p)
      PROVE  ApplyInv'
  BY <1>4, CliSteps, LockStep, InterruptStep
<1> QED
  BY <1>1, <1>2, <1>3, <1>4 DEF Next

(* Every reachable state satisfies the invariant.                          *)
THEOREM Invariance == Spec => []ApplyInv
<1>1. Init => ApplyInv
  BY InvInit
<1>2. ApplyInv /\ [Next]_vars => ApplyInv'
  BY InvStep
<1> QED
  BY <1>1, <1>2, PTL DEF Spec

(* The state of the VM, the trees, the processes and the run under the     *)
(* lock is well-typed.                                                     *)
THEOREM TypeCorrect == Spec => []TypeOK
<1>1. ApplyInv => TypeOK
  BY DEF ApplyInv
<1> QED
  BY <1>1, Invariance, PTL

(* Outside of Lima's own provisioning the live tree is one version's,      *)
(* complete and with nothing else in it after an exchange, whatever is     *)
(* interrupted, failing or racing: only a complete staging tree is ever    *)
(* exchanged for it.                                                       *)
THEOREM TreeIsWhole == Spec => []TreeWhole
<1>1. ApplyInv => TreeWhole
  BY DEF ApplyInv, Rest
<1> QED
  BY <1>1, Invariance, PTL

(* What the lock is for: after a run that succeeded the agent's files are  *)
(* the canonical tree's, all from one exchange, but for those that the     *)
(* agent has replaced itself since.                                        *)
THEOREM LockedCanonical == Spec => []LockedIsCanonical
<1>1. ApplyInv => LockedIsCanonical
  BY DEF ApplyInv, Rest, Quiet, IsHome, LockedIsCanonical
<1> QED
  BY <1>1, Invariance, PTL

(* An apply that reports success has put its own version in the agent's    *)
(* home: from its exchange to the end of its run nobody else writes the    *)
(* tree or places files.                                                   *)
AppliesOwn ==
  \A p \in Proc :
    At(p, "swap") /\ cli'[p].pc = "done" /\ ~collided /\ ~run.disturbed
      => \A f \in Source(p) \ edited : home[f] = VersionOf[p]

(* Only the end of a run reports success.                                  *)
LEMMA DoneByRelease ==
  ASSUME ApplyInv, [Next]_vars, NEW p \in Proc, At(p, "swap"), cli'[p].pc = "done"
  PROVE  Check /\ run.cwd = dir /\ run.by = p
<1>1. cli[p] \in Process /\ cli[p].pc = "swap" /\ cli \in [Proc -> Process]
  BY Typed DEF At
<1>2. ~(UNCHANGED cli)
  BY <1>1
<1>3. ASSUME NEW o \in Proc, NEW c, c # "done", Goto(o, c) \/ Goes(o, c)
      PROVE  FALSE
  <2> DEFINE q == [cli[o] EXCEPT !.pc = c]
  <2>1. cli[o] \in Process
    BY Typed
  <2>2. q.pc = c /\ Left(q).pc = c
    BY <2>1 DEF Process, Left, Idle
  <2>3. cli' = [cli EXCEPT ![o] = q] \/ cli' = [cli EXCEPT ![o] = Left(q)]
    BY <1>3 DEF Goto, Goes, Becomes
  <2> HIDE DEF q
  <2> QED
    BY <1>1, <1>3, <2>2, <2>3
<1>4. ASSUME NEW o \in Proc, NEW q, q.pc # "done", cli' = [cli EXCEPT ![o] = q]
      PROVE  FALSE
  BY <1>1, <1>4
<1>5. ASSUME NEW o \in Proc, CliStep(o)
      PROVE  FALSE
  <2>1. ~Begin(o) /\ ~Down(o)
    BY <1>3 DEF Begin, Down
  <2>2. ~BootCompleteMarker(o)
    <3>1. [cli[o] EXCEPT !.pc = "make", !.boot = boots].pc = "make"
      BY Typed DEF Process
    <3> QED
      BY <1>3, <1>4, <3>1 DEF BootCompleteMarker
  <2>3. ~MakeStage(o)
    <3>1. [cli[o] EXCEPT !.pc = "upload", !.made = TRUE].pc = "upload"
      BY Typed DEF Process
    <3> QED
      BY <1>4, <3>1 DEF MakeStage
  <2>4. ~Upload(o)
    <3>1. \A new : [cli[o] EXCEPT !.staged = new].pc = cli[o].pc
      BY Typed DEF Process
    <3>2. Upload(o) => \E new : /\ cli' = [cli EXCEPT ![o] = [cli[o] EXCEPT !.staged = new]]
                                /\ cli[o].pc = "upload"
      BY Typed DEF Upload, At
    <3> QED
      BY <1>4, <3>1, <3>2
  <2>5. ~SendSwap(o)
    <3>1. [cli[o] EXCEPT !.pc = "swap", !.sent = TRUE].pc = "swap"
      BY Typed DEF Process
    <3> QED
      BY <1>4, <3>1 DEF SendSwap
  <2>6. ~CleanupStagingTree(o)
    <3>1. [cli[o] EXCEPT !.pc = "failed", !.made = FALSE, !.staged = {}].pc = "failed"
      BY Typed DEF Process
    <3> QED
      BY <1>3, <1>4, <3>1 DEF CleanupStagingTree
  <2> QED
    BY <1>5, <2>1, <2>2, <2>3, <2>4, <2>5, <2>6 DEF CliStep
<1>6. ASSUME NEW o \in Proc, CommandFails(o) \/ Interrupt(o)
      PROVE  FALSE
  <2>1. Outlives(o, "cleanup") \/ Outlives(o, "failed") \/ EndsHere(o)
    BY <1>6 DEF CommandFails, Interrupt
  <2>2. ~EndsHere(o)
    <3> DEFINE q == [cli[o] EXCEPT !.pc = "failed", !.sent = FALSE]
    <3>1. q.pc = "failed" /\ Left(q).pc = "failed"
      BY Typed DEF Process, Left, Idle
    <3> QED
      BY <1>4, <3>1 DEF EndsHere, Becomes
  <2> QED
    BY <1>3, <2>1, <2>2 DEF Outlives
<1>7. ~StopVm
  <2> DEFINE q == [cli[p] EXCEPT !.sent = FALSE,
                                 !.pc = IF cli[p].sent THEN "failed" ELSE @]
  <2>1. StopVm => cli'[p] = Left(q)
    BY DEF StopVm
  <2>2. q.pc \in {"failed", "swap"}
    BY <1>1 DEF Process
  <2>3. Left(q).pc = q.pc
    BY <1>1 DEF Left, Idle, Process
  <2> QED
    BY <2>1, <2>2, <2>3
<1>8. ~RemovePrevious
  <2>1. ASSUME NEW o \in Proc
        PROVE  [cli[o] EXCEPT !.made = FALSE, !.staged = {}].pc = cli[o].pc
    BY Typed DEF Process
  <2>2. ASSUME NEW o \in Proc,
               cli' = [cli EXCEPT ![o] = [cli[o] EXCEPT !.made = FALSE, !.staged = {}]]
        PROVE  FALSE
    <3>1. CASE o = p
      BY <1>1, <2>1, <2>2, <3>1
    <3>2. CASE o # p
      BY <1>1, <2>2, <3>2
    <3> QED
      BY <3>1, <3>2
  <2> QED
    BY <2>2 DEF RemovePrevious
<1>9. ASSUME NEW ok \in BOOLEAN, Release(ok)
      PROVE  ok /\ run.by = p
  <2>1. run.by = p
    BY <1>1, <1>9 DEF Release
  <2> DEFINE c == IF ok /\ At(p, "swap") THEN "done" ELSE "failed"
             q == [cli[p] EXCEPT !.sent = FALSE, !.pc = c]
  <2>2. cli'[p] = Left(q)
    BY <1>9, <2>1 DEF Release
  <2>3. q.pc = c /\ Left(q).pc = q.pc
    BY <1>1 DEF Process, Left, Idle
  <2> QED
    BY <2>1, <2>2, <2>3
<1>10. ~RunFails /\ ~ExchangeFails
  BY <1>9 DEF RunFails, ExchangeFails
<1>11. Check => run.cwd = dir /\ run.by = p
  BY <1>9 DEF Check
<1>12. ~(\E v \in Version : BootVm(v)) /\ ~WriteData /\ ~EndProvision /\ ~LockAtBoot
  BY <1>2 DEF BootVm, WriteData, EndProvision, LockAtBoot
<1>13. ~Exchange /\ ~Snapshot /\ ~EnsureDir /\ ~Place
  BY <1>2 DEF Exchange, Replaces, Snapshot, EnsureDir, Place
<1>14. /\ ~EnablePlugins /\ ~ReplaceDir /\ ~UNCHANGED vars
       /\ ~(\E f \in File : ReplaceFile(f)) /\ ~(\E o \in Proc : TakeLock(o))
  BY <1>2 DEF EnablePlugins, ReplaceDir, ReplaceFile, TakeLock, vars
<1> QED
  BY <1>5, <1>6, <1>7, <1>8, <1>10, <1>11, <1>12, <1>13, <1>14
     DEF Next, GuestStep, RunStep

(* An apply that reports success has put its own version in the agent's    *)
(* home: from its exchange to the end of its run nobody else writes the    *)
(* tree or places files.                                                   *)
THEOREM OwnApplied == Spec => AppliesItsOwn
<1>1. ApplyInv /\ [Next]_vars => AppliesOwn
  <2> SUFFICES ASSUME ApplyInv, [Next]_vars, NEW p \in Proc, At(p, "swap"),
                      cli'[p].pc = "done", ~collided, ~run.disturbed,
                      NEW f \in Source(p) \ edited
               PROVE  home[f] = VersionOf[p]
    BY DEF AppliesOwn
  <2>1. run.pc = "check" /\ run.by = p
    BY DoneByRelease DEF Check
  <2>2. f \in File /\ VersionOf[p] # 0
    BY Constants
  <2>3. tree[f] = VersionOf[p]
    BY <2>1, <2>2 DEF ApplyInv, Rest, Alone, IsTreeOf
  <2> QED
    BY <2>1, <2>2, <2>3 DEF ApplyInv, Rest, Progress, Placed, IsHome
<1>2. ApplyInv /\ [Next]_vars => [AppliesOwn]_vars
  BY <1>1
<1>3. Spec => [][AppliesOwn]_vars
  BY <1>2, Invariance, PTL DEF Spec
<1> QED
  BY <1>3 DEF AppliesItsOwn, AppliesOwn

(* Plugins the agent had enabled survive every step but its own of putting *)
(* another ~/.claude in place, when the run's snapshot has them: what      *)
(* settings.json is replaced with is merged from it.                       *)
THEOREM PluginsAreKept == Spec => PluginsSurvive
<1>1. ApplyInv /\ [Next]_vars => (plugins => plugins' \/ dir' # dir \/ run.missed)
  <2> SUFFICES ASSUME ApplyInv, [Next]_vars, plugins, ~plugins', dir' = dir
               PROVE  run.missed
    OBVIOUS
  <2>1. dir \in Nat /\ dir + 1 # dir
    BY Typed
  <2>2. CASE Place
    <3>1. plugins' \in {plugins, run.kept} /\ run.pc = "move"
      BY <2>2 DEF Place, Merged
    <3> QED
      BY <3>1 DEF ApplyInv, Rest, Kept
  <2>3. ~ReplaceDir
    BY <2>1 DEF ReplaceDir
  <2>4. plugins' = plugins \/ plugins' \/ Place \/ ReplaceDir
    BY DEF Next, GuestStep, RunStep, CliStep, StopVm, BootVm, WriteData, EndProvision,
       LockAtBoot, Exchange, Replaces, ExchangeFails, RemovePrevious, Snapshot,
       EnsureDir, Check, RunFails, Release, EnablePlugins, ReplaceFile, Begin, Down,
       BootCompleteMarker, MakeStage, Upload, SendSwap, CleanupStagingTree, TakeLock,
       CommandFails, Interrupt, agent, vars
  <2> QED
    BY <2>2, <2>3, <2>4
<1> QED
  BY <1>1, Invariance, PTL DEF Spec, PluginsSurvive
=============================================================================
