-------------------------- MODULE VmLifecycleProofs --------------------------
(***************************************************************************)
(* Theorems about VmLifecycle, for any number of processes, mounts and     *)
(* commands: an unmapped secret stops a command before it has touched the  *)
(* VM, no boot skips its templates, and a mount that restarted the VM      *)
(* stays applied.                                                          *)
(***************************************************************************)
EXTENDS VmLifecycle, SequenceTheorems, TLAPS

-----------------------------------------------------------------------------
(* No plan has a step twice, so a command and the step it is at determine  *)
(* what is left of its plan: each step is followed by After, up to Final.  *)
StepsOf(c) ==
  CASE c = "run" -> {"status", "resolve", "store", "launch", "wait",
                     "identity", "push", "agent"}
    [] c = "start" -> {"resolve", "status", "store", "launch", "wait",
                       "identity", "push"}
    [] c = "recreate" -> {"resolve", "delete", "status", "store", "launch",
                          "wait", "identity", "push"}
    [] c = "mount" -> {"save", "running", "resolve", "stop", "status", "store",
                       "launch", "wait", "identity", "push"}
    [] c = "stop" -> {"stop"}

Final(c) ==
  IF c = "run" THEN "agent" ELSE IF c = "stop" THEN "stop" ELSE "push"

After(c, step) ==
  CASE step = "save" -> "running"
    [] step = "running" -> "resolve"
    [] step = "resolve" /\ c = "run" -> "store"
    [] step = "resolve" /\ c = "start" -> "status"
    [] step = "resolve" /\ c = "recreate" -> "delete"
    [] step = "resolve" /\ c = "mount" -> "stop"
    [] step \in {"delete", "stop"} -> "status"
    [] step = "status" /\ c = "run" -> "resolve"
    [] step = "status" /\ c # "run" -> "store"
    [] step = "store" -> "launch"
    [] step = "launch" -> "wait"
    [] step = "wait" -> "identity"
    [] step = "identity" -> "push"
    [] step = "push" -> "agent"
    [] OTHER -> "none"

IsRest(c, todo) ==
  /\ \A i \in 1 .. Len(todo) : todo[i] \in StepsOf(c)
  /\ \A i \in 1 .. Len(todo) - 1 : todo[i + 1] = After(c, todo[i])
  /\ todo # <<>> => todo[Len(todo)] = Final(c)

(* The steps up to the one that resolves the secrets.                      *)
BeforeResolved(c) ==
  CASE c = "run" -> {"status", "resolve"}
    [] c = "mount" -> {"save", "running", "resolve"}
    [] OTHER -> {"resolve"}

-----------------------------------------------------------------------------
(* The inductive invariant.  Its parts are about the record r of a process *)
(* and about the VM: its boot b, its state v, its ~/.gitconfig git.         *)
On(v) == v \in {"booting", "up", "failed"}

OnPlan == \A p \in Proc : IsRest(cli[p].cmd, cli[p].todo)

(* What a command has changed and what it holds, before and after it has    *)
(* resolved the secrets.                                                    *)
ResolvesFirst(r) ==
  /\ r.end = "unmapped" => ~r.touched
  /\ r.todo # <<>> =>
       /\ r.end = "none"
       /\ Head(r.todo) \in BeforeResolved(r.cmd) => ~r.touched
       /\ r.cmd # "stop" /\ Head(r.todo) \notin BeforeResolved(r.cmd)
            => r.content \/ (r.cmd = "run" /\ r.seen = "running")
ResolveFirst == \A p \in Proc : ResolvesFirst(cli[p])

(* The boot a process waits for or has entered.                             *)
Enters(r, b, v, git) ==
  /\ r.mine <= b
  /\ r.todo # <<>> /\ r.mine # 0
       => /\ Head(r.todo) \in {"wait", "identity", "push", "agent"}
          /\ Head(r.todo) = "wait" => r.seen # "running"
          /\ Head(r.todo) # "wait" /\ r.mine = b /\ On(v) => git # "missing"
InGuest ==
  /\ Running => boot > 0
  /\ locked \/ vm = "up" => gitconfig # "missing"
  /\ \A p \in Proc : Enters(cli[p], boot, vm, gitconfig)

(* A boot without its templates has somebody on the way to push them.       *)
Pushes(r, b) ==
  /\ r.todo # <<>> /\ Head(r.todo) \in {"wait", "identity", "push"}
  /\ r.mine = b /\ r.seen # "running" /\ r.started /\ r.content
SomeonePushes ==
  vm \in {"booting", "up"} /\ ~missed /\ rendered # boot
    => \E p \in Proc : Pushes(cli[p], boot)

LifeInv ==
  TypeOK /\ OnPlan /\ ResolveFirst /\ InGuest /\ SomeonePushes

(* A `mount` on its own, of record r: how far the new mount has come to the *)
(* config conf, the stored instance st and the running one lv.              *)
HasMount(r, conf, st, lv, v) ==
  LET step == Head(r.todo) IN
  /\ step # "save" => r.mount \in r.snap /\ r.mount \in conf
  /\ step \in {"status", "store", "launch"} => v = "stopped"
  /\ step \in {"store", "launch"} => r.seen \in {"stopped", "absent"}
  /\ step = "launch" /\ r.seen = "stopped" => r.mount \in st
  /\ step \in {"wait", "identity", "push"} => r.mount \in st /\ r.mount \in lv

(* ... and where it is for good once the command is done.                   *)
KeepsMount(m) ==
  /\ m \in config /\ \A q \in Proc : cli[q].todo # <<>> => m \in cli[q].snap
  /\ vm # "absent" => m \in stored
  /\ On(vm) => m \in live

MountsStay ==
  \A p \in Proc : cli[p].alone =>
    /\ cli[p].todo # <<>> => \A q \in Proc \ {p} : cli[q].todo = <<>>
    /\ cli[p].cmd = "mount" /\ cli[p].todo # <<>>
         => HasMount(cli[p], config, stored, live, vm)
    /\ cli[p].cmd = "mount" /\ cli[p].touched /\ cli[p].end = "done"
         => KeepsMount(cli[p].mount)

MountInv == LifeInv /\ MountsStay

-----------------------------------------------------------------------------
(* Sequences of steps                                                      *)

(* The plans, spelt out.                                                   *)
LEMMA Sections ==
  /\ Ensure \in Seq(Step) /\ Access \in Seq(Step)
  /\ Tail(Ensure) = <<"store", "launch", "wait">>
  BY DEF Ensure, Access, Step

LEMMA RunStepsAre ==
  RunSteps =
    <<"status", "resolve", "store", "launch", "wait", "identity", "push",
      "agent">>
<1>1. <<"status", "resolve">> \o Tail(Ensure)
      = <<"status", "resolve", "store", "launch", "wait">>
  <2> DEFINE s == <<"status", "resolve">>
             t == Tail(Ensure)
             u == <<"status", "resolve", "store", "launch", "wait">>
  <2>1. s \in Seq(Step) /\ t \in Seq(Step) /\ u \in Seq(Step)
    BY Sections DEF Step
  <2>2. Len(s \o t) = 5 /\ s \o t \in Seq(Step)
    BY <2>1, Sections, ConcatProperties DEF Ensure, Access
  <2>3. \A i \in 1 .. 5 : (s \o t)[i] = u[i]
    BY <2>1, Sections, ConcatProperties DEF Ensure, Access
  <2> QED
    BY <2>1, <2>2, <2>3, SeqEqual
<1>2. <<"status", "resolve", "store", "launch", "wait">> \o Access
      = <<"status", "resolve", "store", "launch", "wait", "identity",
          "push">>
  <2> DEFINE s == <<"status", "resolve", "store", "launch", "wait">>
             t == Access
             u == <<"status", "resolve", "store", "launch", "wait",
                    "identity", "push">>
  <2>1. s \in Seq(Step) /\ t \in Seq(Step) /\ u \in Seq(Step)
    BY Sections DEF Step
  <2>2. Len(s \o t) = 7 /\ s \o t \in Seq(Step)
    BY <2>1, Sections, ConcatProperties DEF Ensure, Access
  <2>3. \A i \in 1 .. 7 : (s \o t)[i] = u[i]
    BY <2>1, Sections, ConcatProperties DEF Ensure, Access
  <2> QED
    BY <2>1, <2>2, <2>3, SeqEqual
<1>3. <<"status", "resolve", "store", "launch", "wait", "identity", "push">> \o <<"agent">>
      = <<"status", "resolve", "store", "launch", "wait", "identity", "push",
          "agent">>
  <2> DEFINE s == <<"status", "resolve", "store", "launch", "wait",
                    "identity", "push">>
             t == <<"agent">>
             u == <<"status", "resolve", "store", "launch", "wait",
                    "identity", "push", "agent">>
  <2>1. s \in Seq(Step) /\ t \in Seq(Step) /\ u \in Seq(Step)
    BY Sections DEF Step
  <2>2. Len(s \o t) = 8 /\ s \o t \in Seq(Step)
    BY <2>1, Sections, ConcatProperties DEF Ensure, Access
  <2>3. \A i \in 1 .. 8 : (s \o t)[i] = u[i]
    BY <2>1, Sections, ConcatProperties DEF Ensure, Access
  <2> QED
    BY <2>1, <2>2, <2>3, SeqEqual
<1> QED
  BY <1>1, <1>2, <1>3 DEF RunSteps

LEMMA StartStepsAre ==
  StartSteps =
    <<"resolve", "status", "store", "launch", "wait", "identity", "push">>
<1>1. <<"resolve">> \o Ensure
      = <<"resolve", "status", "store", "launch", "wait">>
  <2> DEFINE s == <<"resolve">>
             t == Ensure
             u == <<"resolve", "status", "store", "launch", "wait">>
  <2>1. s \in Seq(Step) /\ t \in Seq(Step) /\ u \in Seq(Step)
    BY Sections DEF Step
  <2>2. Len(s \o t) = 5 /\ s \o t \in Seq(Step)
    BY <2>1, Sections, ConcatProperties DEF Ensure, Access
  <2>3. \A i \in 1 .. 5 : (s \o t)[i] = u[i]
    BY <2>1, Sections, ConcatProperties DEF Ensure, Access
  <2> QED
    BY <2>1, <2>2, <2>3, SeqEqual
<1>2. <<"resolve", "status", "store", "launch", "wait">> \o Access
      = <<"resolve", "status", "store", "launch", "wait", "identity",
          "push">>
  <2> DEFINE s == <<"resolve", "status", "store", "launch", "wait">>
             t == Access
             u == <<"resolve", "status", "store", "launch", "wait",
                    "identity", "push">>
  <2>1. s \in Seq(Step) /\ t \in Seq(Step) /\ u \in Seq(Step)
    BY Sections DEF Step
  <2>2. Len(s \o t) = 7 /\ s \o t \in Seq(Step)
    BY <2>1, Sections, ConcatProperties DEF Ensure, Access
  <2>3. \A i \in 1 .. 7 : (s \o t)[i] = u[i]
    BY <2>1, Sections, ConcatProperties DEF Ensure, Access
  <2> QED
    BY <2>1, <2>2, <2>3, SeqEqual
<1> QED
  BY <1>1, <1>2 DEF StartSteps

LEMMA RecreateStepsAre ==
  RecreateSteps =
    <<"resolve", "delete", "status", "store", "launch", "wait", "identity",
      "push">>
<1>1. <<"resolve", "delete">> \o Ensure
      = <<"resolve", "delete", "status", "store", "launch", "wait">>
  <2> DEFINE s == <<"resolve", "delete">>
             t == Ensure
             u == <<"resolve", "delete", "status", "store", "launch",
                    "wait">>
  <2>1. s \in Seq(Step) /\ t \in Seq(Step) /\ u \in Seq(Step)
    BY Sections DEF Step
  <2>2. Len(s \o t) = 6 /\ s \o t \in Seq(Step)
    BY <2>1, Sections, ConcatProperties DEF Ensure, Access
  <2>3. \A i \in 1 .. 6 : (s \o t)[i] = u[i]
    BY <2>1, Sections, ConcatProperties DEF Ensure, Access
  <2> QED
    BY <2>1, <2>2, <2>3, SeqEqual
<1>2. <<"resolve", "delete", "status", "store", "launch", "wait">> \o Access
      = <<"resolve", "delete", "status", "store", "launch", "wait",
          "identity", "push">>
  <2> DEFINE s == <<"resolve", "delete", "status", "store", "launch",
                    "wait">>
             t == Access
             u == <<"resolve", "delete", "status", "store", "launch", "wait",
                    "identity", "push">>
  <2>1. s \in Seq(Step) /\ t \in Seq(Step) /\ u \in Seq(Step)
    BY Sections DEF Step
  <2>2. Len(s \o t) = 8 /\ s \o t \in Seq(Step)
    BY <2>1, Sections, ConcatProperties DEF Ensure, Access
  <2>3. \A i \in 1 .. 8 : (s \o t)[i] = u[i]
    BY <2>1, Sections, ConcatProperties DEF Ensure, Access
  <2> QED
    BY <2>1, <2>2, <2>3, SeqEqual
<1> QED
  BY <1>1, <1>2 DEF RecreateSteps

LEMMA MountStepsAre ==
  MountSteps =
    <<"save", "running", "resolve", "stop", "status", "store", "launch",
      "wait", "identity", "push">>
<1>1. <<"save", "running", "resolve", "stop">> \o Ensure
      = <<"save", "running", "resolve", "stop", "status", "store", "launch",
          "wait">>
  <2> DEFINE s == <<"save", "running", "resolve", "stop">>
             t == Ensure
             u == <<"save", "running", "resolve", "stop", "status", "store",
                    "launch", "wait">>
  <2>1. s \in Seq(Step) /\ t \in Seq(Step) /\ u \in Seq(Step)
    BY Sections DEF Step
  <2>2. Len(s \o t) = 8 /\ s \o t \in Seq(Step)
    BY <2>1, Sections, ConcatProperties DEF Ensure, Access
  <2>3. \A i \in 1 .. 8 : (s \o t)[i] = u[i]
    BY <2>1, Sections, ConcatProperties DEF Ensure, Access
  <2> QED
    BY <2>1, <2>2, <2>3, SeqEqual
<1>2. <<"save", "running", "resolve", "stop", "status", "store", "launch",
      "wait">> \o Access
      = <<"save", "running", "resolve", "stop", "status", "store", "launch",
          "wait", "identity", "push">>
  <2> DEFINE s == <<"save", "running", "resolve", "stop", "status", "store",
                    "launch", "wait">>
             t == Access
             u == <<"save", "running", "resolve", "stop", "status", "store",
                    "launch", "wait", "identity", "push">>
  <2>1. s \in Seq(Step) /\ t \in Seq(Step) /\ u \in Seq(Step)
    BY Sections DEF Step
  <2>2. Len(s \o t) = 10 /\ s \o t \in Seq(Step)
    BY <2>1, Sections, ConcatProperties DEF Ensure, Access
  <2>3. \A i \in 1 .. 10 : (s \o t)[i] = u[i]
    BY <2>1, Sections, ConcatProperties DEF Ensure, Access
  <2> QED
    BY <2>1, <2>2, <2>3, SeqEqual
<1> QED
  BY <1>1, <1>2 DEF MountSteps

LEMMA PlansAreWhole ==
  ASSUME NEW c \in Command
  PROVE  Plan(c) \in Seq(Step) /\ Plan(c) # <<>> /\ IsRest(c, Plan(c))
<1>1. CASE c = "run"
  <2>1. Plan(c) = <<"status", "resolve", "store", "launch", "wait",
                      "identity", "push", "agent">>
    BY <1>1, RunStepsAre DEF Plan
  <2>2. Plan(c) \in Seq(Step) /\ Plan(c) # <<>>
    BY <2>1 DEF Step
  <2>3. \A i \in 1 .. Len(Plan(c)) : Plan(c)[i] \in StepsOf(c)
    BY <1>1, <2>1 DEF StepsOf
  <2>4. \A i \in 1 .. Len(Plan(c)) - 1 : Plan(c)[i + 1] = After(c, Plan(c)[i])
    BY <1>1, <2>1 DEF After
  <2>5. Plan(c)[Len(Plan(c))] = Final(c)
    <3>1. Len(Plan(c)) = 8 /\ Plan(c)[8] = "agent"
      BY <2>1
    <3>2. Final(c) = "agent"
      BY <1>1 DEF Final
    <3> QED
      BY <3>1, <3>2
  <2> QED
    BY <2>2, <2>3, <2>4, <2>5 DEF IsRest
<1>2. CASE c = "start"
  <2>1. Plan(c) = <<"resolve", "status", "store", "launch", "wait",
                      "identity", "push">>
    BY <1>2, StartStepsAre DEF Plan
  <2>2. Plan(c) \in Seq(Step) /\ Plan(c) # <<>>
    BY <2>1 DEF Step
  <2>3. \A i \in 1 .. Len(Plan(c)) : Plan(c)[i] \in StepsOf(c)
    BY <1>2, <2>1 DEF StepsOf
  <2>4. \A i \in 1 .. Len(Plan(c)) - 1 : Plan(c)[i + 1] = After(c, Plan(c)[i])
    BY <1>2, <2>1 DEF After
  <2>5. Plan(c)[Len(Plan(c))] = Final(c)
    <3>1. Len(Plan(c)) = 7 /\ Plan(c)[7] = "push"
      BY <2>1
    <3>2. Final(c) = "push"
      BY <1>2 DEF Final
    <3> QED
      BY <3>1, <3>2
  <2> QED
    BY <2>2, <2>3, <2>4, <2>5 DEF IsRest
<1>3. CASE c = "recreate"
  <2>1. Plan(c) = <<"resolve", "delete", "status", "store", "launch",
                      "wait", "identity", "push">>
    BY <1>3, RecreateStepsAre DEF Plan
  <2>2. Plan(c) \in Seq(Step) /\ Plan(c) # <<>>
    BY <2>1 DEF Step
  <2>3. \A i \in 1 .. Len(Plan(c)) : Plan(c)[i] \in StepsOf(c)
    BY <1>3, <2>1 DEF StepsOf
  <2>4. \A i \in 1 .. Len(Plan(c)) - 1 : Plan(c)[i + 1] = After(c, Plan(c)[i])
    BY <1>3, <2>1 DEF After
  <2>5. Plan(c)[Len(Plan(c))] = Final(c)
    <3>1. Len(Plan(c)) = 8 /\ Plan(c)[8] = "push"
      BY <2>1
    <3>2. Final(c) = "push"
      BY <1>3 DEF Final
    <3> QED
      BY <3>1, <3>2
  <2> QED
    BY <2>2, <2>3, <2>4, <2>5 DEF IsRest
<1>4. CASE c = "mount"
  <2>1. Plan(c) = <<"save", "running", "resolve", "stop", "status",
                      "store", "launch", "wait", "identity", "push">>
    BY <1>4, MountStepsAre DEF Plan
  <2>2. Plan(c) \in Seq(Step) /\ Plan(c) # <<>>
    BY <2>1 DEF Step
  <2>3. \A i \in 1 .. Len(Plan(c)) : Plan(c)[i] \in StepsOf(c)
    BY <1>4, <2>1 DEF StepsOf
  <2>4. \A i \in 1 .. Len(Plan(c)) - 1 : Plan(c)[i + 1] = After(c, Plan(c)[i])
    BY <1>4, <2>1 DEF After
  <2>5. Plan(c)[Len(Plan(c))] = Final(c)
    <3>1. Len(Plan(c)) = 10 /\ Plan(c)[10] = "push"
      BY <2>1
    <3>2. Final(c) = "push"
      BY <1>4 DEF Final
    <3> QED
      BY <3>1, <3>2
  <2> QED
    BY <2>2, <2>3, <2>4, <2>5 DEF IsRest
<1>5. CASE c = "stop"
  <2>1. Plan(c) = <<"stop">>
    BY <1>5 DEF Plan, StopSteps
  <2>2. Plan(c) \in Seq(Step) /\ Plan(c) # <<>>
    BY <2>1 DEF Step
  <2>3. \A i \in 1 .. Len(Plan(c)) : Plan(c)[i] \in StepsOf(c)
    BY <1>5, <2>1 DEF StepsOf
  <2>4. \A i \in 1 .. Len(Plan(c)) - 1 : Plan(c)[i + 1] = After(c, Plan(c)[i])
    BY <1>5, <2>1 DEF After
  <2>5. Plan(c)[Len(Plan(c))] = Final(c)
    <3>1. Len(Plan(c)) = 1 /\ Plan(c)[1] = "stop"
      BY <2>1
    <3>2. Final(c) = "stop"
      BY <1>5 DEF Final
    <3> QED
      BY <3>1, <3>2
  <2> QED
    BY <2>2, <2>3, <2>4, <2>5 DEF IsRest
<1> QED
  BY <1>1, <1>2, <1>3, <1>4, <1>5 DEF Command

LEMMA RestOfRest ==
  ASSUME NEW c \in Command, NEW todo \in Seq(Step), todo # <<>>, IsRest(c, todo)
  PROVE  /\ Head(todo) \in StepsOf(c)
         /\ Len(todo) = 1 => Head(todo) = Final(c)
         /\ Tail(todo) \in Seq(Step)
         /\ Len(todo) # 1 => /\ Tail(todo) # <<>>
                             /\ IsRest(c, Tail(todo))
                             /\ Head(Tail(todo)) = After(c, Head(todo))
<1>1. PICK n \in Nat : n = Len(todo) /\ n >= 1
  OBVIOUS
<1>2. Head(todo) = todo[1] /\ Head(todo) \in StepsOf(c)
  BY <1>1 DEF IsRest
<1>3. Len(todo) = 1 => Head(todo) = Final(c)
  BY <1>1, <1>2 DEF IsRest
<1>4. /\ Tail(todo) \in Seq(Step) /\ Len(Tail(todo)) = n - 1
      /\ \A i \in 1 .. n - 1 : Tail(todo)[i] = todo[i + 1]
  BY <1>1, HeadTailProperties
<1>5. ASSUME n # 1
      PROVE  /\ Tail(todo) # <<>> /\ IsRest(c, Tail(todo))
             /\ Head(Tail(todo)) = After(c, Head(todo))
  <2>0. n - 1 \in 1 .. n - 1 /\ 1 \in 1 .. n - 1 /\ (n - 1) + 1 = n /\ 1 + 1 = 2
    <3>1. n >= 2
      BY <1>1, <1>5
    <3> QED
      BY <3>1
  <2>1. Tail(todo) # <<>> /\ Head(Tail(todo)) = todo[2]
    <3>0. Len(Tail(todo)) # 0
      BY <1>4, <2>0
    <3>1. Tail(todo) # <<>>
      BY <1>4, <3>0, EmptySeq
    <3>2. Head(Tail(todo)) = Tail(todo)[1] /\ Tail(todo)[1] = todo[1 + 1]
      BY <1>4, <2>0, <3>1
    <3> QED
      BY <3>1, <3>2
  <2>2. todo[2] = After(c, todo[1])
    BY <1>1, <2>0 DEF IsRest
  <2>3. \A i \in 1 .. n - 1 : Tail(todo)[i] \in StepsOf(c)
    BY <1>1, <1>4 DEF IsRest
  <2>4. ASSUME NEW i \in 1 .. n - 2
        PROVE  Tail(todo)[i + 1] = After(c, Tail(todo)[i])
    <3>1. i \in 1 .. n - 1 /\ i + 1 \in 1 .. n - 1
      OBVIOUS
    <3>2. Tail(todo)[i] = todo[i + 1] /\ Tail(todo)[i + 1] = todo[(i + 1) + 1]
      BY <1>4, <3>1
    <3>3. todo[(i + 1) + 1] = After(c, todo[i + 1])
      BY <1>1, <3>1 DEF IsRest
    <3> QED
      BY <3>2, <3>3
  <2>5. Tail(todo)[n - 1] = Final(c)
    BY <1>1, <1>4, <2>0 DEF IsRest
  <2>6. (n - 1) - 1 = n - 2
    BY <1>1
  <2> QED
    BY <1>2, <1>4, <2>1, <2>2, <2>3, <2>4, <2>5, <2>6 DEF IsRest
<1> QED
  BY <1>1, <1>2, <1>3, <1>4, <1>5

-----------------------------------------------------------------------------
(* Processes                                                               *)

LEMMA Returns ==
  ASSUME NEW q \in Process, NEW how \in {"none", "done", "unmapped", "error"}
  PROVE  LET r == Returned(q, how) IN
         /\ r \in Process /\ IsRest(r.cmd, r.todo)
         /\ r.todo = <<>> /\ r.end = how /\ r.mine = 0
         /\ r.cmd = q.cmd /\ r.mount = q.mount /\ r.alone = q.alone
         /\ r.touched = q.touched
<1> DEFINE r == Returned(q, how)
<1>1. <<>> \in Seq(Step) /\ Len(<<>>) = 0 /\ 0 \in Nat
  OBVIOUS
<1>2. r \in Process
  BY <1>1 DEF Returned, Process
<1>3. /\ r.todo = <<>> /\ r.end = how /\ r.mine = 0
      /\ r.cmd = q.cmd /\ r.mount = q.mount /\ r.alone = q.alone
      /\ r.touched = q.touched
  BY DEF Returned, Process
<1>4. IsRest(r.cmd, r.todo)
  BY <1>1, <1>3 DEF IsRest
<1> QED
  BY <1>2, <1>3, <1>4

(* A process that goes on is at the next step of its plan, or returns.     *)
LEMMA GoesOn ==
  ASSUME NEW q \in Process, q.todo # <<>>, IsRest(q.cmd, q.todo),
         NEW r, r = IF Len(q.todo) = 1 THEN Returned(q, "done")
                    ELSE [q EXCEPT !.todo = Tail(q.todo)]
  PROVE  /\ r \in Process /\ IsRest(r.cmd, r.todo)
         /\ r.cmd = q.cmd /\ r.mount = q.mount /\ r.alone = q.alone
         /\ r.touched = q.touched
         /\ \/ /\ r.todo = <<>> /\ r.end = "done" /\ r.mine = 0
               /\ Head(q.todo) = Final(q.cmd)
            \/ /\ r.todo # <<>> /\ Head(r.todo) = After(q.cmd, Head(q.todo))
               /\ r.end = q.end /\ r.mine = q.mine /\ r.snap = q.snap
               /\ r.seen = q.seen /\ r.content = q.content
               /\ r.started = q.started
<1>1. q.cmd \in Command /\ q.todo \in Seq(Step)
  BY DEF Process
<1>2. CASE Len(q.todo) = 1
  BY <1>1, <1>2, Returns, RestOfRest
<1>3. CASE Len(q.todo) # 1
  <2>1. /\ Tail(q.todo) \in Seq(Step) /\ Tail(q.todo) # <<>>
        /\ IsRest(q.cmd, Tail(q.todo))
        /\ Head(Tail(q.todo)) = After(q.cmd, Head(q.todo))
    BY <1>1, <1>3, RestOfRest
  <2>2. r = [q EXCEPT !.todo = Tail(q.todo)]
    BY <1>3
  <2>3. r \in Process /\ r.todo = Tail(q.todo)
    BY <2>1, <2>2 DEF Process
  <2>4. /\ r.cmd = q.cmd /\ r.mount = q.mount /\ r.alone = q.alone
        /\ r.touched = q.touched /\ r.end = q.end /\ r.mine = q.mine
        /\ r.snap = q.snap /\ r.seen = q.seen /\ r.content = q.content
        /\ r.started = q.started
    BY <2>2 DEF Process
  <2> QED
    BY <2>1, <2>3, <2>4
<1> QED
  BY <1>2, <1>3

(* What a new record in place of p's must be for LifeInv to hold of it.    *)
Keeps(r, b, v, git) ==
  /\ r \in Process /\ IsRest(r.cmd, r.todo)
  /\ ResolvesFirst(r) /\ Enters(r, b, v, git)

LEMMA InvOfProcess ==
  ASSUME LifeInv, NEW p \in Proc
  PROVE  Keeps(cli[p], boot, vm, gitconfig)
  BY DEF LifeInv, TypeOK, OnPlan, ResolveFirst, InGuest, Keeps

LEMMA InvInit == Init => LifeInv
<1> SUFFICES ASSUME Init PROVE LifeInv
  OBVIOUS
<1>1. ASSUME NEW p \in Proc
      PROVE  /\ cli[p] \in Process /\ cli[p].todo = <<>>
             /\ cli[p].end = "none" /\ cli[p].mine = 0
  <2>1. PICK m \in Mount :
          cli[p] = [cmd |-> "stop", todo |-> <<>>, mount |-> m, snap |-> {},
                    seen |-> "absent", content |-> FALSE, started |-> FALSE,
                    alone |-> TRUE, mine |-> 0, touched |-> FALSE,
                    end |-> "none"]
    BY DEF Init
  <2>2. <<>> \in Seq(Step) /\ {} \in SUBSET Mount /\ "stop" \in Command
    BY DEF Command
  <2> QED
    BY <2>1, <2>2 DEF Process
<1>2. cli \in [Proc -> Process]
  BY <1>1 DEF Init
<1>3. TypeOK
  <2>1. /\ config = {} /\ stored = {} /\ live = {} /\ mapped \in BOOLEAN
        /\ locked = FALSE /\ missed = FALSE /\ vm = "absent" /\ boot = 0
        /\ rendered = 0 /\ gitconfig = "missing"
        /\ requests = 0 /\ edits = 0 /\ faults = 0
    BY DEF Init
  <2>2. /\ 0 \in 0 .. 0 /\ 0 \in 0 .. MaxRequests /\ 0 \in 0 .. MaxEdits
        /\ 0 \in 0 .. MaxFaults
    BY BoundsAssumption
  <2> QED
    BY <1>2, <2>1, <2>2 DEF TypeOK
<1>4. OnPlan
  <2>1. \A c : IsRest(c, <<>>)
    BY DEF IsRest
  <2> QED
    BY <1>1, <2>1 DEF OnPlan
<1>5. ResolveFirst
  BY <1>1 DEF ResolveFirst, ResolvesFirst
<1>6. InGuest
  <2>1. ~Running /\ ~locked /\ vm # "up" /\ boot = 0
    BY DEF Init, Running
  <2>2. \A p \in Proc : Enters(cli[p], boot, vm, gitconfig)
    <3>1. 0 <= boot
      BY <2>1
    <3> QED
      BY <1>1, <3>1 DEF Enters
  <2> QED
    BY <2>1, <2>2 DEF InGuest
<1>7. SomeonePushes
  BY DEF Init, SomeonePushes
<1> QED
  BY <1>3, <1>4, <1>5, <1>6, <1>7 DEF LifeInv

(* Where a step leads: only the one that resolves leaves BeforeResolved.   *)
LEMMA NextSteps ==
  ASSUME NEW c \in Command, NEW s \in StepsOf(c), After(c, s) \in StepsOf(c)
  PROVE  LET t == After(c, s) IN
         /\ t \in BeforeResolved(c) => s \in BeforeResolved(c)
         /\ s \in BeforeResolved(c) => t \in BeforeResolved(c) \/ s = "resolve"
         /\ t \in {"wait", "identity", "push", "agent"}
              => s \in {"launch", "wait", "identity", "push"}
         /\ s = "launch" => t = "wait"
         /\ s = "wait" => t = "identity"
         /\ s = "identity" => t = "push"
         /\ s = "push" => t = "agent"
         /\ s # "agent"
<1> USE DEF Final
<1>1. CASE c = "run"
  BY <1>1 DEF StepsOf, BeforeResolved, After
<1>2. CASE c = "start"
  BY <1>2 DEF StepsOf, BeforeResolved, After
<1>3. CASE c = "recreate"
  BY <1>3 DEF StepsOf, BeforeResolved, After
<1>4. CASE c = "mount"
  BY <1>4 DEF StepsOf, BeforeResolved, After
<1>5. CASE c = "stop"
  BY <1>5 DEF StepsOf, BeforeResolved, After
<1> QED
  BY <1>1, <1>2, <1>3, <1>4, <1>5 DEF Command

(* Which commands make a step, and on which side of resolve it is.         *)
LEMMA StepsSpread ==
  ASSUME NEW c \in Command, NEW s \in StepsOf(c)
  PROVE  /\ s \in {"launch", "wait", "identity", "push", "agent", "store",
                   "delete"}
              => s \notin BeforeResolved(c) /\ c # "stop"
         /\ s = "resolve" => s \in BeforeResolved(c) /\ c # "stop"
         /\ s \in {"save", "running"} => s \in BeforeResolved(c) /\ c = "mount"
         /\ s = "delete" => c = "recreate"
         /\ s = "stop" => c \in {"mount", "stop"} /\ s \notin BeforeResolved(c)
         /\ s = "status" => c # "stop"
         /\ s = "status" /\ s \in BeforeResolved(c) => c = "run"
         /\ s = Final(c) => s \in {"agent", "push", "stop"}
<1> USE DEF Final
<1>1. CASE c = "run"
  BY <1>1 DEF StepsOf, BeforeResolved
<1>2. CASE c = "start"
  BY <1>2 DEF StepsOf, BeforeResolved
<1>3. CASE c = "recreate"
  BY <1>3 DEF StepsOf, BeforeResolved
<1>4. CASE c = "mount"
  BY <1>4 DEF StepsOf, BeforeResolved
<1>5. CASE c = "stop"
  BY <1>5 DEF StepsOf, BeforeResolved
<1> QED
  BY <1>1, <1>2, <1>3, <1>4, <1>5 DEF Command

LEMMA StaysInGuest ==
  ASSUME NEW r \in Process, NEW b \in Nat, NEW v, NEW git,
         Enters(r, b, v, git),
         NEW b2 \in Nat, NEW v2, NEW git2,
         \/ b2 > b
         \/ /\ b2 = b
            /\ On(v2) => On(v) /\ (git # "missing" => git2 # "missing")
  PROVE  Enters(r, b2, v2, git2)
<1>1. r.mine \in Nat /\ r.mine <= b
  BY DEF Enters, Process
<1>2. r.mine <= b2 /\ (r.mine = b2 => b2 = b)
  BY <1>1
<1> QED
  BY <1>2 DEF Enters, On

(* A step that gives p a record that keeps its part of the invariant keeps *)
(* that of the others, when the guest under them stays, ends or reboots.   *)
LEMMA OthersKept ==
  ASSUME LifeInv, NEW p \in Proc, NEW r,
         cli' = [cli EXCEPT ![p] = r],
         Keeps(r, boot', vm', gitconfig'), boot' \in Nat,
         \/ boot' > boot
         \/ /\ boot' = boot
            /\ On(vm') => /\ On(vm)
                          /\ gitconfig # "missing" => gitconfig' # "missing"
  PROVE  /\ cli' \in [Proc -> Process] /\ OnPlan' /\ ResolveFirst'
         /\ \A q \in Proc : Enters(cli[q], boot, vm, gitconfig)'
<1>1. cli \in [Proc -> Process] /\ boot \in Nat
  BY DEF LifeInv, TypeOK
<1>2. cli'[p] = r /\ \A q \in Proc \ {p} : cli'[q] = cli[q]
  BY <1>1
<1>3. ASSUME NEW q \in Proc
      PROVE  Keeps(cli'[q], boot', vm', gitconfig')
  <2>1. CASE q = p
    BY <1>2, <2>1
  <2>2. CASE q # p
    <3>1. cli'[q] = cli[q] /\ Keeps(cli[q], boot, vm, gitconfig)
      BY <1>2, <2>2, InvOfProcess
    <3>2. cli[q] \in Process /\ Enters(cli[q], boot, vm, gitconfig)
      BY <3>1 DEF Keeps
    <3>3. Enters(cli[q], boot', vm', gitconfig')
      BY <1>1, <3>2, StaysInGuest
    <3> QED
      BY <3>1, <3>3 DEF Keeps
  <2> QED
    BY <2>1, <2>2
<1>4. cli' \in [Proc -> Process]
  BY <1>1, <1>2, <1>3 DEF Keeps
<1> QED
  BY <1>3, <1>4 DEF Keeps, OnPlan, ResolveFirst

(* Whoever was on the way to push still is.                                *)
LEMMA StillPushed ==
  ASSUME LifeInv, NEW p \in Proc, NEW r,
         cli' = [cli EXCEPT ![p] = r],
         boot' = boot, rendered' = rendered, missed' = missed,
         vm' \in {"booting", "up"} => vm \in {"booting", "up"},
         Pushes(cli[p], boot) /\ vm \in {"booting", "up"} => Pushes(r, boot)
  PROVE  SomeonePushes'
<1> SUFFICES ASSUME vm' \in {"booting", "up"} /\ ~missed' /\ rendered' # boot'
             PROVE  \E q \in Proc : Pushes(cli'[q], boot')
  BY DEF SomeonePushes
<1>1. cli \in [Proc -> Process]
  BY DEF LifeInv, TypeOK
<1>2. PICK q \in Proc : Pushes(cli[q], boot)
  BY DEF LifeInv, SomeonePushes
<1>3. CASE q = p
  BY <1>1, <1>2, <1>3
<1>4. CASE q # p
  BY <1>1, <1>2, <1>4
<1> QED
  BY <1>3, <1>4

(* What a step must have left in p's record q for p to go on with it.      *)
Leaves(q, b, v, git) ==
  LET step == Head(q.todo) IN
  /\ q.end = "none"
  /\ step \in BeforeResolved(q.cmd) => ~q.touched
  /\ q.cmd # "stop" /\ (step \in BeforeResolved(q.cmd) => step = "resolve")
       => q.content \/ (q.cmd = "run" /\ q.seen = "running")
  /\ q.mine <= b
  /\ q.mine # 0
       => /\ step \in {"launch", "wait", "identity", "push", "agent"}
          /\ step = "launch" => q.seen # "running"
          /\ step # "launch" /\ q.mine = b /\ On(v) => git # "missing"

LEMMA WentKeeps ==
  ASSUME NEW q \in Process, q.todo # <<>>, IsRest(q.cmd, q.todo),
         NEW b \in Nat, NEW v, NEW git, Leaves(q, b, v, git),
         NEW r, r = IF Len(q.todo) = 1 THEN Returned(q, "done")
                    ELSE [q EXCEPT !.todo = Tail(q.todo)]
  PROVE  Keeps(r, b, v, git)
<1> DEFINE s == Head(q.todo)
<1>1. q.cmd \in Command /\ q.todo \in Seq(Step)
  BY DEF Process
<1>2. s \in StepsOf(q.cmd)
  BY <1>1, RestOfRest
<1>3. /\ r \in Process /\ IsRest(r.cmd, r.todo)
      /\ r.cmd = q.cmd /\ r.touched = q.touched
      /\ \/ r.todo = <<>> /\ r.end = "done" /\ r.mine = 0
         \/ /\ r.todo # <<>> /\ Head(r.todo) = After(q.cmd, s)
            /\ r.end = q.end /\ r.mine = q.mine
            /\ r.seen = q.seen /\ r.content = q.content
  BY GoesOn
<1>4. CASE r.todo = <<>>
  <2>1. r.end = "done" /\ r.mine = 0 /\ 0 <= b
    BY <1>3, <1>4
  <2>2. ResolvesFirst(r)
    BY <1>4, <2>1 DEF ResolvesFirst
  <2>3. Enters(r, b, v, git)
    BY <1>4, <2>1 DEF Enters
  <2> QED
    BY <1>3, <2>2, <2>3 DEF Keeps
<1>5. CASE r.todo # <<>>
  <2> DEFINE t == After(q.cmd, s)
  <2>1. /\ Head(r.todo) = t /\ r.end = q.end /\ r.mine = q.mine
        /\ r.seen = q.seen /\ r.content = q.content
    BY <1>3, <1>5
  <2>2. t \in StepsOf(q.cmd)
    <3>1. r.todo \in Seq(Step) /\ r.cmd = q.cmd /\ IsRest(q.cmd, r.todo)
      BY <1>3 DEF Process
    <3> QED
      BY <1>1, <1>5, <2>1, <3>1, RestOfRest
  <2>3. /\ t \in BeforeResolved(q.cmd) => s \in BeforeResolved(q.cmd)
        /\ s \in BeforeResolved(q.cmd) => t \in BeforeResolved(q.cmd) \/ s = "resolve"
        /\ t \in {"wait", "identity", "push", "agent"}
             => s \in {"launch", "wait", "identity", "push"}
        /\ s = "launch" => t = "wait"
        /\ s = "wait" => t = "identity"
        /\ s = "identity" => t = "push"
        /\ s = "push" => t = "agent"
        /\ s # "agent"
    BY <1>1, <1>2, <2>2, NextSteps
  <2> HIDE DEF t, s
  <2>4. ResolvesFirst(r)
    <3>1. r.end = "none" /\ (t \in BeforeResolved(r.cmd) => ~r.touched)
      BY <1>3, <2>1, <2>3 DEF Leaves, s
    <3>2. r.cmd # "stop" /\ t \notin BeforeResolved(r.cmd)
            => r.content \/ (r.cmd = "run" /\ r.seen = "running")
      BY <1>3, <2>1, <2>3 DEF Leaves, s
    <3> QED
      BY <2>1, <3>1, <3>2 DEF ResolvesFirst
  <2>5. Enters(r, b, v, git)
    <3>1. r.mine <= b
      BY <2>1 DEF Leaves
    <3>2. ASSUME r.mine # 0
          PROVE  /\ t \in {"wait", "identity", "push", "agent"}
                 /\ t = "wait" => r.seen # "running"
                 /\ t # "wait" /\ r.mine = b /\ On(v) => git # "missing"
      <4>1. /\ s \in {"launch", "wait", "identity", "push", "agent"}
            /\ s = "launch" => q.seen # "running"
            /\ s # "launch" /\ q.mine = b /\ On(v) => git # "missing"
        BY <2>1, <3>2 DEF Leaves, s
      <4> QED
        BY <2>1, <2>3, <4>1
    <3> QED
      BY <2>1, <3>1, <3>2 DEF Enters
  <2> QED
    BY <1>3, <2>4, <2>5 DEF Keeps
<1> QED
  BY <1>4, <1>5

LEMMA AtStep ==
  ASSUME LifeInv, NEW p \in Proc, ~Ended(p)
  PROVE  LET q == cli[p] step == Head(cli[p].todo) IN
         /\ q \in Process /\ q.todo # <<>> /\ IsRest(q.cmd, q.todo)
         /\ q.cmd \in Command /\ step \in StepsOf(q.cmd)
         /\ q.end = "none" /\ boot \in Nat /\ cli \in [Proc -> Process]
         /\ step \in BeforeResolved(q.cmd) => ~q.touched
         /\ q.cmd # "stop" /\ step \notin BeforeResolved(q.cmd)
              => q.content \/ (q.cmd = "run" /\ q.seen = "running")
         /\ q.mine \in Nat /\ q.mine <= boot
         /\ q.mine # 0
              => /\ step \in {"wait", "identity", "push", "agent"}
                 /\ step = "wait" => q.seen # "running"
                 /\ step # "wait" /\ q.mine = boot /\ On(vm)
                      => gitconfig # "missing"
<1>1. cli \in [Proc -> Process] /\ boot \in Nat
  BY DEF LifeInv, TypeOK
<1>2. cli[p] \in Process /\ cli[p].todo # <<>> /\ IsRest(cli[p].cmd, cli[p].todo)
  BY <1>1 DEF LifeInv, OnPlan, Ended
<1>3. cli[p].cmd \in Command /\ cli[p].todo \in Seq(Step) /\ cli[p].mine \in Nat
  BY <1>2 DEF Process
<1>4. Head(cli[p].todo) \in StepsOf(cli[p].cmd)
  BY <1>2, <1>3, RestOfRest
<1>5. ResolvesFirst(cli[p]) /\ Enters(cli[p], boot, vm, gitconfig)
  BY DEF LifeInv, ResolveFirst, InGuest
<1> QED
  BY <1>1, <1>2, <1>3, <1>4, <1>5 DEF ResolvesFirst, Enters

(* p goes on from q, its record as the step has left it.                   *)
LEMMA GoingOn ==
  ASSUME LifeInv, NEW p \in Proc, ~Ended(p),
         NEW q \in Process, q.todo = cli[p].todo, q.cmd = cli[p].cmd,
         Went(p, q), Leaves(q, boot', vm', gitconfig'), boot' \in Nat,
         \/ boot' > boot
         \/ /\ boot' = boot
            /\ On(vm') => /\ On(vm)
                          /\ gitconfig # "missing" => gitconfig' # "missing"
  PROVE  /\ cli' \in [Proc -> Process] /\ OnPlan' /\ ResolveFirst'
         /\ \A o \in Proc : Enters(cli[o], boot, vm, gitconfig)'
         /\ \A o \in Proc \ {p} : cli'[o] = cli[o]
         /\ \/ cli'[p].todo = <<>> /\ Head(q.todo) = Final(q.cmd)
            \/ /\ cli'[p].todo # <<>>
               /\ Head(cli'[p].todo) = After(q.cmd, Head(q.todo))
               /\ cli'[p].mine = q.mine /\ cli'[p].seen = q.seen
               /\ cli'[p].content = q.content /\ cli'[p].started = q.started
<1> DEFINE r == IF Len(q.todo) = 1 THEN Returned(q, "done")
                ELSE [q EXCEPT !.todo = Tail(q.todo)]
<1>1. q.todo # <<>> /\ IsRest(q.cmd, q.todo) /\ cli \in [Proc -> Process]
  BY AtStep
<1>2. cli' = [cli EXCEPT ![p] = r]
  BY DEF Went
<1>3. /\ \A o \in Proc \ {p} : cli'[o] = cli[o]
      /\ cli'[p] = r
  BY <1>1, <1>2
<1> HIDE DEF r
<1>4. Keeps(r, boot', vm', gitconfig')
  BY <1>1, WentKeeps DEF r
<1>5. \/ r.todo = <<>> /\ Head(q.todo) = Final(q.cmd)
      \/ /\ r.todo # <<>> /\ Head(r.todo) = After(q.cmd, Head(q.todo))
         /\ r.mine = q.mine /\ r.seen = q.seen
         /\ r.content = q.content /\ r.started = q.started
  BY <1>1, GoesOn DEF r
<1>6. /\ cli' \in [Proc -> Process] /\ OnPlan' /\ ResolveFirst'
      /\ \A o \in Proc : Enters(cli[o], boot, vm, gitconfig)'
  BY <1>2, <1>4, OthersKept
<1> QED
  BY <1>3, <1>5, <1>6

LEMMA GoingOnPushes ==
  ASSUME LifeInv, NEW p \in Proc, ~Ended(p),
         NEW q \in Process, q.todo = cli[p].todo, q.cmd = cli[p].cmd,
         Went(p, q), boot' = boot, rendered' = rendered, missed' = missed,
         vm' \in {"booting", "up"} => vm \in {"booting", "up"},
         Pushes(cli[p], boot) /\ vm \in {"booting", "up"}
           => /\ Head(q.todo) \in {"wait", "identity"}
              /\ Pushes(q, boot)
  PROVE  SomeonePushes'
<1> DEFINE r == IF Len(q.todo) = 1 THEN Returned(q, "done")
                ELSE [q EXCEPT !.todo = Tail(q.todo)]
<1>1. /\ q.todo # <<>> /\ IsRest(q.cmd, q.todo) /\ cli \in [Proc -> Process]
      /\ q.cmd \in Command /\ Head(q.todo) \in StepsOf(q.cmd)
  BY AtStep
<1>2. cli' = [cli EXCEPT ![p] = r]
  BY DEF Went
<1> HIDE DEF r
<1>3. \/ r.todo = <<>> /\ Head(q.todo) = Final(q.cmd)
      \/ /\ r.todo # <<>> /\ Head(r.todo) = After(q.cmd, Head(q.todo))
         /\ r.mine = q.mine /\ r.seen = q.seen
         /\ r.content = q.content /\ r.started = q.started
  BY <1>1, GoesOn DEF r
<1>4. ASSUME Pushes(cli[p], boot), vm \in {"booting", "up"}
      PROVE  Pushes(r, boot)
  <2>1. Head(q.todo) \in {"wait", "identity"} /\ Pushes(q, boot)
    BY <1>4
  <2>2. Head(q.todo) # Final(q.cmd)
    BY <1>1, <2>1, StepsSpread
  <2>3. After(q.cmd, Head(q.todo)) \in {"identity", "push"}
    BY <2>1 DEF After
  <2> QED
    BY <1>3, <2>1, <2>2, <2>3 DEF Pushes
<1> QED
  BY <1>2, <1>4, StillPushed

(* p returns.                                                              *)
LEMMA ComingBack ==
  ASSUME LifeInv, NEW p \in Proc, NEW how \in {"done", "unmapped", "error"},
         Ends(p, how), how = "unmapped" => ~cli[p].touched,
         boot' = boot, vm' = vm, gitconfig' = gitconfig
  PROVE  /\ cli' \in [Proc -> Process] /\ OnPlan' /\ ResolveFirst'
         /\ \A o \in Proc : Enters(cli[o], boot, vm, gitconfig)'
         /\ rendered' = rendered /\ missed' = missed
              /\ (Pushes(cli[p], boot) => vm \notin {"booting", "up"})
              => SomeonePushes'
<1> DEFINE r == Returned(cli[p], how)
<1>1. cli \in [Proc -> Process] /\ boot \in Nat
  BY DEF LifeInv, TypeOK
<1>2. cli' = [cli EXCEPT ![p] = r]
  BY DEF Ends
<1> HIDE DEF r
<1>3. /\ r \in Process /\ IsRest(r.cmd, r.todo) /\ r.todo = <<>>
      /\ r.end = how /\ r.mine = 0 /\ r.touched = cli[p].touched
  BY <1>1, Returns DEF r
<1>4. 0 <= boot
  BY <1>1
<1>5. Keeps(r, boot', vm', gitconfig')
  BY <1>3, <1>4 DEF Keeps, ResolvesFirst, Enters
<1>6. /\ cli' \in [Proc -> Process] /\ OnPlan' /\ ResolveFirst'
      /\ \A o \in Proc : Enters(cli[o], boot, vm, gitconfig)'
  BY <1>1, <1>2, <1>5, OthersKept
<1>7. ASSUME rendered' = rendered, missed' = missed,
             Pushes(cli[p], boot) => vm \notin {"booting", "up"}
      PROVE  SomeonePushes'
  BY <1>2, <1>7, StillPushed
<1> QED
  BY <1>6, <1>7

-----------------------------------------------------------------------------
(* Steps                                                                   *)

LEMMA Settles ==
  ASSUME LifeInv, TypeOK', OnPlan', ResolveFirst', SomeonePushes',
         \A p \in Proc : Enters(cli[p], boot, vm, gitconfig)',
         vm' = vm, boot' = boot, locked' = locked, gitconfig' = gitconfig
  PROVE  LifeInv'
<1>1. InGuest'
  BY DEF LifeInv, InGuest, Running
<1> QED
  BY <1>1 DEF LifeInv

LEMMA SkipInv ==
  ASSUME LifeInv, NEW p \in Proc, Skip(p)
  PROVE  LifeInv'
<1> DEFINE q == cli[p]  s == Head(q.todo)
<1>1. /\ ~Ended(p) /\ NotNeeded(p, s) /\ Went(p, q)
      /\ UNCHANGED <<config, mapped, guest, missed, bounds>>
  BY DEF Skip, Next1
<1>2. /\ q \in Process /\ boot \in Nat /\ q.end = "none"
      /\ q.cmd \in Command /\ s \in StepsOf(q.cmd)
  BY <1>1, AtStep
<1>3. \/ s = "resolve" /\ q.cmd = "run" /\ q.seen = "running"
      \/ s \in {"store", "launch", "wait"} /\ q.seen = "running"
      \/ s = "store"
      \/ s = "push" /\ q.cmd = "run" /\ ~q.started
  <2> HIDE DEF s
  <2> QED
    BY <1>1 DEF NotNeeded
<1>4. UNCHANGED <<vm, boot, locked, rendered, gitconfig, missed>>
  BY <1>1 DEF guest
<1>5. Leaves(q, boot, vm, gitconfig)
  <2>1. /\ s \in BeforeResolved(q.cmd) => ~q.touched
        /\ q.cmd # "stop" /\ s \notin BeforeResolved(q.cmd)
             => q.content \/ (q.cmd = "run" /\ q.seen = "running")
        /\ q.mine <= boot
        /\ q.mine # 0
             => /\ s \in {"wait", "identity", "push", "agent"}
                /\ s = "wait" => q.seen # "running"
                /\ s # "wait" /\ q.mine = boot /\ On(vm)
                     => gitconfig # "missing"
    BY <1>1, AtStep
  <2>2. s \in BeforeResolved(q.cmd) => s = "resolve"
    BY <1>2, <1>3, StepsSpread
  <2> QED
    BY <1>2, <1>3, <2>1, <2>2 DEF Leaves
<1>6. /\ cli' \in [Proc -> Process] /\ OnPlan' /\ ResolveFirst'
      /\ \A o \in Proc : Enters(cli[o], boot, vm, gitconfig)'
  BY <1>1, <1>2, <1>4, <1>5, GoingOn
<1>7. SomeonePushes'
  <2>1. ~Pushes(q, boot)
    BY <1>2, <1>3 DEF Pushes
  <2> QED
    BY <1>1, <1>2, <1>4, <2>1, GoingOnPushes
<1>8. TypeOK'
  BY <1>1, <1>6 DEF LifeInv, TypeOK, guest, bounds
<1> QED
  BY <1>4, <1>6, <1>7, <1>8, Settles

LEMMA SaveMountInv ==
  ASSUME LifeInv, NEW p \in Proc, SaveMount(p)
  PROVE  LifeInv'
<1> DEFINE s == Head(cli[p].todo)
           q == [cli[p] EXCEPT !.snap = @ \union {cli[p].mount}]
<1>1. /\ ~Ended(p) /\ s = "save"
      /\ UNCHANGED <<mapped, guest, missed, bounds>>
  BY DEF SaveMount, At, Next1
<1>2. /\ cli[p] \in Process /\ boot \in Nat /\ s \in StepsOf(cli[p].cmd)
      /\ cli[p].cmd \in Command /\ ~cli[p].touched /\ cli[p].mine = 0
      /\ cli[p].end = "none" /\ s \in BeforeResolved(cli[p].cmd)
  BY <1>1, AtStep, StepsSpread
<1>3. UNCHANGED <<vm, boot, locked, rendered, gitconfig, missed>>
  BY <1>1 DEF guest
<1>4. ~Pushes(cli[p], boot)
  BY <1>1 DEF Pushes
<1>5. CASE cli[p].mount \in cli[p].snap
  <2>1. Ends(p, "done") /\ config' = config
    BY <1>5 DEF SaveMount
  <2>2. /\ cli' \in [Proc -> Process] /\ OnPlan' /\ ResolveFirst'
        /\ \A o \in Proc : Enters(cli[o], boot, vm, gitconfig)'
        /\ SomeonePushes'
    BY <1>3, <1>4, <2>1, ComingBack
  <2>3. TypeOK'
    BY <1>1, <2>1, <2>2 DEF LifeInv, TypeOK, guest, bounds
  <2> QED
    BY <1>3, <2>2, <2>3, Settles
<1>6. CASE cli[p].mount \notin cli[p].snap
  <2>1. /\ Went(p, q) /\ config' = cli[p].snap \union {cli[p].mount}
    BY <1>6 DEF SaveMount
  <2>2. /\ q \in Process /\ q.todo = cli[p].todo /\ q.cmd = cli[p].cmd
        /\ q.end = "none" /\ q.mine = 0 /\ q.touched = cli[p].touched
        /\ config' \subseteq Mount
    BY <1>2, <2>1 DEF Process
  <2> HIDE DEF q
  <2>3. Leaves(q, boot, vm, gitconfig)
    <3>1. 0 <= boot
      BY <1>2
    <3> QED
      BY <1>1, <1>2, <2>2, <3>1 DEF Leaves
  <2>4. /\ cli' \in [Proc -> Process] /\ OnPlan' /\ ResolveFirst'
        /\ \A o \in Proc : Enters(cli[o], boot, vm, gitconfig)'
    BY <1>1, <1>2, <1>3, <2>1, <2>2, <2>3, GoingOn
  <2>5. SomeonePushes'
    BY <1>1, <1>3, <1>4, <2>1, <2>2, GoingOnPushes
  <2>6. TypeOK'
    BY <1>1, <2>2, <2>4 DEF LifeInv, TypeOK, guest, bounds
  <2> QED
    BY <1>3, <2>4, <2>5, <2>6, Settles
<1> QED
  BY <1>5, <1>6

(* Steps that leave the guest alone: p goes on, or returns.                *)
LEMMA GoesOnAlone ==
  ASSUME LifeInv, NEW p \in Proc, ~Ended(p),
         NEW q \in Process, q.todo = cli[p].todo, q.cmd = cli[p].cmd,
         Went(p, q), Leaves(q, boot, vm, gitconfig),
         UNCHANGED <<vm, boot, locked, rendered, gitconfig, missed>>,
         cli' \in [Proc -> Process] => TypeOK',
         Pushes(cli[p], boot) /\ vm \in {"booting", "up"}
           => Head(q.todo) \in {"wait", "identity"} /\ Pushes(q, boot)
  PROVE  LifeInv'
<1>1. boot \in Nat
  BY DEF LifeInv, TypeOK
<1>2. /\ cli' \in [Proc -> Process] /\ OnPlan' /\ ResolveFirst'
      /\ \A o \in Proc : Enters(cli[o], boot, vm, gitconfig)'
  BY <1>1, GoingOn
<1>3. SomeonePushes'
  BY GoingOnPushes
<1> QED
  BY <1>2, <1>3, Settles

LEMMA ComesBackAlone ==
  ASSUME LifeInv, NEW p \in Proc, NEW how \in {"done", "unmapped", "error"},
         Ends(p, how), how = "unmapped" => ~cli[p].touched,
         UNCHANGED <<vm, boot, locked, rendered, gitconfig, missed>>,
         cli' \in [Proc -> Process] => TypeOK',
         Pushes(cli[p], boot) => vm \notin {"booting", "up"}
  PROVE  LifeInv'
<1>1. /\ cli' \in [Proc -> Process] /\ OnPlan' /\ ResolveFirst'
      /\ \A o \in Proc : Enters(cli[o], boot, vm, gitconfig)'
      /\ SomeonePushes'
  BY ComingBack
<1> QED
  BY <1>1, Settles

LEMMA QueryRunningInv ==
  ASSUME LifeInv, NEW p \in Proc, QueryRunning(p)
  PROVE  LifeInv'
<1> DEFINE s == Head(cli[p].todo)
<1>1. /\ ~Ended(p) /\ s = "running"
      /\ UNCHANGED <<config, mapped, guest, missed, bounds>>
  BY DEF QueryRunning, At, Next1
<1>2. UNCHANGED <<vm, boot, locked, rendered, gitconfig, missed>>
  BY <1>1 DEF guest
<1>3. cli' \in [Proc -> Process] => TypeOK'
  BY <1>1 DEF LifeInv, TypeOK, guest, bounds
<1>4. ~Pushes(cli[p], boot)
  BY <1>1 DEF Pushes
<1>5. CASE Running
  <2>1. Went(p, cli[p])
    BY <1>5 DEF QueryRunning
  <2>2. /\ cli[p] \in Process /\ boot \in Nat /\ s \in BeforeResolved(cli[p].cmd)
        /\ ~cli[p].touched /\ cli[p].mine = 0 /\ cli[p].end = "none"
    BY <1>1, AtStep, StepsSpread
  <2>3. Leaves(cli[p], boot, vm, gitconfig)
    <3>1. 0 <= boot
      BY <2>2
    <3> QED
      BY <1>1, <2>2, <3>1 DEF Leaves
  <2> QED
    BY <1>1, <1>2, <1>3, <1>4, <2>1, <2>2, <2>3, GoesOnAlone
<1>6. CASE ~Running
  <2>1. Ends(p, "done")
    BY <1>6 DEF QueryRunning
  <2> QED
    BY <1>2, <1>3, <1>4, <2>1, ComesBackAlone
<1> QED
  BY <1>5, <1>6

(* The status of the instance, whatever it is taken for.                   *)
LEMMA SeesStatus ==
  ASSUME LifeInv, NEW p \in Proc, At(p, "status"),
         NEW seen \in {"absent", "stopped", "running"},
         Went(p, [cli[p] EXCEPT !.seen = seen]),
         UNCHANGED <<vm, boot, locked, rendered, gitconfig, missed>>,
         cli' \in [Proc -> Process] => TypeOK'
  PROVE  LifeInv'
<1> DEFINE s == Head(cli[p].todo)  q == [cli[p] EXCEPT !.seen = seen]
<1>1. ~Ended(p) /\ s = "status"
  BY DEF At, Next1
<1>2. /\ cli[p] \in Process /\ boot \in Nat /\ s \in StepsOf(cli[p].cmd)
      /\ cli[p].cmd \in Command /\ cli[p].mine = 0 /\ cli[p].end = "none"
      /\ s \in BeforeResolved(cli[p].cmd) => ~cli[p].touched /\ cli[p].cmd = "run"
      /\ cli[p].cmd # "run" => cli[p].content
  <2>1. /\ cli[p] \in Process /\ boot \in Nat /\ s \in StepsOf(cli[p].cmd)
        /\ cli[p].cmd \in Command /\ cli[p].mine = 0 /\ cli[p].end = "none"
        /\ s \in BeforeResolved(cli[p].cmd) => ~cli[p].touched
        /\ cli[p].cmd # "stop" /\ s \notin BeforeResolved(cli[p].cmd)
             => cli[p].content \/ (cli[p].cmd = "run" /\ cli[p].seen = "running")
    BY <1>1, AtStep
  <2>2. /\ cli[p].cmd # "stop"
        /\ s \in BeforeResolved(cli[p].cmd) => cli[p].cmd = "run"
    BY <1>1, <2>1, StepsSpread
  <2> QED
    BY <2>1, <2>2
<1>3. /\ q \in Process /\ q.todo = cli[p].todo /\ q.cmd = cli[p].cmd
      /\ q.mine = 0 /\ q.end = "none" /\ q.touched = cli[p].touched
      /\ q.content = cli[p].content
  BY <1>2 DEF Process
<1>4. q.cmd = "run" => s \in BeforeResolved(q.cmd)
  BY <1>1 DEF BeforeResolved
<1> HIDE DEF q
<1>5. Leaves(q, boot, vm, gitconfig)
  <2>1. 0 <= boot
    BY <1>2
  <2> QED
    BY <1>1, <1>2, <1>3, <1>4, <2>1 DEF Leaves
<1>6. ~Pushes(cli[p], boot)
  BY <1>1 DEF Pushes
<1> QED
  BY <1>1, <1>3, <1>5, <1>6, GoesOnAlone DEF q

LEMMA QueryStatusInv ==
  ASSUME LifeInv, NEW p \in Proc, QueryStatus(p)
  PROVE  LifeInv'
<1>1. /\ At(p, "status") /\ Went(p, [cli[p] EXCEPT !.seen = Status])
      /\ UNCHANGED <<config, mapped, guest, missed, bounds>>
  BY DEF QueryStatus
<1>2. UNCHANGED <<vm, boot, locked, rendered, gitconfig, missed>>
  BY <1>1 DEF guest
<1>3. cli' \in [Proc -> Process] => TypeOK'
  BY <1>1 DEF LifeInv, TypeOK, guest, bounds
<1>4. Status \in {"absent", "stopped", "running"}
  BY DEF Status, Running, LifeInv, TypeOK
<1> QED
  BY <1>1, <1>2, <1>3, <1>4, SeesStatus

LEMMA QueryStatusFailsInv ==
  ASSUME LifeInv, NEW p \in Proc, QueryStatusFails(p)
  PROVE  LifeInv'
<1>1. /\ faults < MaxFaults /\ faults' = faults + 1
      /\ UNCHANGED <<config, mapped, guest, missed, requests, edits>>
  BY DEF QueryStatusFails
<1>2. UNCHANGED <<vm, boot, locked, rendered, gitconfig, missed>>
  BY <1>1 DEF guest
<1>3. faults' \in 0 .. MaxFaults
  BY <1>1, BoundsAssumption DEF LifeInv, TypeOK
<1>4. cli' \in [Proc -> Process] => TypeOK'
  BY <1>1, <1>3 DEF LifeInv, TypeOK, guest
<1>5. CASE At(p, "status") /\ Went(p, [cli[p] EXCEPT !.seen = "absent"])
  BY <1>2, <1>4, <1>5, SeesStatus
<1>6. CASE At(p, "running") /\ Ends(p, "done")
  <2>1. ~Pushes(cli[p], boot)
    BY <1>6 DEF Pushes, At, Next1
  <2> QED
    BY <1>2, <1>4, <1>6, <2>1, ComesBackAlone
<1> QED
  BY <1>5, <1>6 DEF QueryStatusFails

LEMMA ResolveRenderedInv ==
  ASSUME LifeInv, NEW p \in Proc, ResolveRendered(p)
  PROVE  LifeInv'
<1> DEFINE s == Head(cli[p].todo)  q == [cli[p] EXCEPT !.content = TRUE]
<1>1. /\ ~Ended(p) /\ s = "resolve"
      /\ UNCHANGED <<config, mapped, guest, missed, bounds>>
  BY DEF ResolveRendered, At, Next1
<1>2. UNCHANGED <<vm, boot, locked, rendered, gitconfig, missed>>
  BY <1>1 DEF guest
<1>3. cli' \in [Proc -> Process] => TypeOK'
  BY <1>1 DEF LifeInv, TypeOK, guest, bounds
<1>4. ~Pushes(cli[p], boot)
  BY <1>1 DEF Pushes
<1>5. /\ cli[p] \in Process /\ boot \in Nat /\ s \in BeforeResolved(cli[p].cmd)
      /\ ~cli[p].touched /\ cli[p].mine = 0 /\ cli[p].end = "none"
  BY <1>1, AtStep, StepsSpread
<1>6. CASE mapped
  <2>1. Went(p, q)
    BY <1>6 DEF ResolveRendered
  <2>2. /\ q \in Process /\ q.todo = cli[p].todo /\ q.cmd = cli[p].cmd
        /\ q.mine = 0 /\ q.end = "none" /\ ~q.touched /\ q.content
    BY <1>5 DEF Process
  <2> HIDE DEF q
  <2>3. Leaves(q, boot, vm, gitconfig)
    <3>1. 0 <= boot
      BY <1>5
    <3> QED
      BY <2>2, <3>1 DEF Leaves
  <2> QED
    BY <1>1, <1>2, <1>3, <1>4, <2>1, <2>2, <2>3, GoesOnAlone
<1>7. CASE ~mapped
  <2>1. Ends(p, "unmapped")
    BY <1>7 DEF ResolveRendered
  <2> QED
    BY <1>2, <1>3, <1>4, <1>5, <2>1, ComesBackAlone
<1> QED
  BY <1>6, <1>7

LEMMA AwaitReadyInv ==
  ASSUME LifeInv, NEW p \in Proc, AwaitReady(p)
  PROVE  LifeInv'
<1> DEFINE s == Head(cli[p].todo)
<1>1. /\ ~Ended(p) /\ s = "wait"
      /\ UNCHANGED <<config, mapped, guest, missed, bounds>>
  BY DEF AwaitReady, At, Next1
<1>2. UNCHANGED <<vm, boot, locked, rendered, gitconfig, missed>>
  BY <1>1 DEF guest
<1>3. cli' \in [Proc -> Process] => TypeOK'
  BY <1>1 DEF LifeInv, TypeOK, guest, bounds
<1>4. /\ cli[p] \in Process /\ boot \in Nat /\ cli[p].end = "none"
      /\ s \notin BeforeResolved(cli[p].cmd)
      /\ cli[p].content \/ (cli[p].cmd = "run" /\ cli[p].seen = "running")
      /\ cli[p].mine <= boot
  BY <1>1, AtStep, StepsSpread
<1>5. /\ vm = "up" => gitconfig # "missing"
      /\ vm \in {"booting", "up"} => boot # 0
  BY <1>4 DEF LifeInv, InGuest, Running
<1>6. CASE Went(p, cli[p]) /\ (cli[p].mine = 0 \/ (vm = "up" /\ boot = cli[p].mine))
  <2>1. Leaves(cli[p], boot, vm, gitconfig)
    BY <1>1, <1>4, <1>5, <1>6 DEF Leaves
  <2> QED
    BY <1>1, <1>2, <1>3, <1>4, <1>6, <2>1, GoesOnAlone
<1>7. CASE /\ Ends(p, "error") /\ cli[p].mine # 0
           /\ vm \in {"failed", "stopped", "absent"} \/ boot # cli[p].mine
  <2>1. Pushes(cli[p], boot) => vm \notin {"booting", "up"}
    BY <1>7 DEF Pushes
  <2> QED
    BY <1>2, <1>3, <1>7, <2>1, ComesBackAlone
<1> QED
  BY <1>6, <1>7 DEF AwaitReady

LEMMA AgentExitsInv ==
  ASSUME LifeInv, NEW p \in Proc, AgentExits(p)
  PROVE  LifeInv'
<1> DEFINE s == Head(cli[p].todo)
<1>1. /\ ~Ended(p) /\ s = "agent" /\ Went(p, cli[p])
      /\ UNCHANGED <<config, mapped, guest, missed, bounds>>
  BY DEF AgentExits, At, Next1
<1>2. UNCHANGED <<vm, boot, locked, rendered, gitconfig, missed>>
  BY <1>1 DEF guest
<1>3. cli' \in [Proc -> Process] => TypeOK'
  BY <1>1 DEF LifeInv, TypeOK, guest, bounds
<1>4. /\ cli[p] \in Process /\ boot \in Nat /\ cli[p].end = "none"
      /\ s \notin BeforeResolved(cli[p].cmd)
      /\ cli[p].content \/ (cli[p].cmd = "run" /\ cli[p].seen = "running")
      /\ cli[p].mine <= boot
      /\ cli[p].mine # 0 /\ cli[p].mine = boot /\ On(vm)
           => gitconfig # "missing"
  BY <1>1, AtStep, StepsSpread
<1>5. Leaves(cli[p], boot, vm, gitconfig)
  BY <1>1, <1>4 DEF Leaves
<1>6. ~Pushes(cli[p], boot)
  BY <1>1 DEF Pushes
<1> QED
  BY <1>1, <1>2, <1>3, <1>4, <1>5, <1>6, GoesOnAlone

LEMMA InterruptInv ==
  ASSUME LifeInv, NEW p \in Proc, Interrupt(p)
  PROVE  LifeInv'
<1>1. /\ faults < MaxFaults /\ faults' = faults + 1
      /\ Ends(p, "error") /\ missed' = TRUE
      /\ UNCHANGED <<config, mapped, guest, requests, edits>>
  BY DEF Interrupt
<1>2. UNCHANGED <<vm, boot, locked, rendered, gitconfig>>
  BY <1>1 DEF guest
<1>3. faults' \in 0 .. MaxFaults
  BY <1>1, BoundsAssumption DEF LifeInv, TypeOK
<1>4. cli' \in [Proc -> Process] => TypeOK'
  BY <1>1, <1>3 DEF LifeInv, TypeOK, guest
<1>5. /\ cli' \in [Proc -> Process] /\ OnPlan' /\ ResolveFirst'
      /\ \A o \in Proc : Enters(cli[o], boot, vm, gitconfig)'
  BY <1>1, <1>2, ComingBack
<1>6. SomeonePushes'
  BY <1>1 DEF SomeonePushes
<1> QED
  BY <1>2, <1>4, <1>5, <1>6, Settles

LEMMA ProbeTimesOutInv ==
  ASSUME LifeInv, NEW p \in Proc, ProbeTimesOut(p)
  PROVE  LifeInv'
<1>1. /\ ~Ended(p) /\ Ends(p, "error") /\ missed' = TRUE
      /\ UNCHANGED <<config, mapped, guest, bounds>>
  BY DEF ProbeTimesOut, At
<1>2. UNCHANGED <<vm, boot, locked, rendered, gitconfig>>
  BY <1>1 DEF guest
<1>4. cli' \in [Proc -> Process] => TypeOK'
  BY <1>1 DEF LifeInv, TypeOK, guest, bounds
<1>5. /\ cli' \in [Proc -> Process] /\ OnPlan' /\ ResolveFirst'
      /\ \A o \in Proc : Enters(cli[o], boot, vm, gitconfig)'
  BY <1>1, <1>2, ComingBack
<1>6. SomeonePushes'
  BY <1>1 DEF SomeonePushes
<1> QED
  BY <1>2, <1>4, <1>5, <1>6, Settles

(* Past resolve, a step that marks what it does to the VM.                 *)
LEMMA TouchingLeaves ==
  ASSUME LifeInv, NEW p \in Proc, ~Ended(p),
         NEW s \in {"delete", "stop", "store"}, s = Head(cli[p].todo),
         NEW q, q = [cli[p] EXCEPT !.touched = TRUE], NEW v, NEW git
  PROVE  /\ q \in Process /\ q.todo = cli[p].todo /\ q.cmd = cli[p].cmd
         /\ Leaves(q, boot, v, git)
<1>1. /\ cli[p] \in Process /\ boot \in Nat /\ cli[p].end = "none"
      /\ s \notin BeforeResolved(cli[p].cmd) /\ cli[p].mine = 0
      /\ cli[p].cmd # "stop"
           => cli[p].content \/ (cli[p].cmd = "run" /\ cli[p].seen = "running")
  BY AtStep, StepsSpread
<1>2. /\ q \in Process /\ q.todo = cli[p].todo /\ q.cmd = cli[p].cmd
      /\ q.end = "none" /\ q.mine = 0 /\ q.seen = cli[p].seen
      /\ q.content = cli[p].content
  BY <1>1 DEF Process
<1>3. 0 <= boot
  BY <1>1
<1> QED
  BY <1>1, <1>2, <1>3 DEF Leaves

LEMMA DeleteInv ==
  ASSUME LifeInv, NEW p \in Proc, Delete(p)
  PROVE  LifeInv'
<1> DEFINE s == Head(cli[p].todo)  q == [cli[p] EXCEPT !.touched = TRUE]
<1>1. /\ ~Ended(p) /\ s = "delete" /\ Went(p, q)
      /\ vm' = "absent" /\ stored' = {} /\ live' = {}
      /\ locked' = FALSE /\ rendered' = 0 /\ gitconfig' = "missing"
      /\ UNCHANGED <<config, mapped, boot, missed, bounds>>
  BY DEF Delete, At, Next1
<1>2. /\ q \in Process /\ q.todo = cli[p].todo /\ q.cmd = cli[p].cmd
      /\ Leaves(q, boot', vm', gitconfig') /\ boot' \in Nat
  BY <1>1, TouchingLeaves DEF LifeInv, TypeOK
<1> HIDE DEF q
<1>3. ~On(vm') /\ ~Running'
  BY <1>1 DEF On, Running
<1>4. /\ cli' \in [Proc -> Process] /\ OnPlan' /\ ResolveFirst'
      /\ \A o \in Proc : Enters(cli[o], boot, vm, gitconfig)'
  BY <1>1, <1>2, <1>3, GoingOn
<1>5. SomeonePushes'
  BY <1>1 DEF SomeonePushes
<1>6. InGuest'
  BY <1>1, <1>3, <1>4 DEF InGuest
<1>7. rendered' \in 0 .. boot'
  BY <1>1, <1>2
<1>8. TypeOK'
  BY <1>1, <1>4, <1>7 DEF LifeInv, TypeOK, bounds
<1> QED
  BY <1>4, <1>5, <1>6, <1>8 DEF LifeInv

LEMMA StopInv ==
  ASSUME LifeInv, NEW p \in Proc, Stop(p)
  PROVE  LifeInv'
<1> DEFINE s == Head(cli[p].todo)  q == [cli[p] EXCEPT !.touched = TRUE]
<1>1. /\ ~Ended(p) /\ s = "stop"
      /\ UNCHANGED <<config, mapped, boot, stored, rendered, gitconfig, missed,
                     bounds>>
  BY DEF Stop, At, Next1
<1>2. CASE /\ Running /\ Went(p, q)
           /\ vm' = "stopped" /\ live' = {} /\ locked' = FALSE
  <2>1. /\ q \in Process /\ q.todo = cli[p].todo /\ q.cmd = cli[p].cmd
        /\ Leaves(q, boot', vm', gitconfig') /\ boot' \in Nat
    BY <1>1, TouchingLeaves DEF LifeInv, TypeOK
  <2> HIDE DEF q
  <2>2. ~On(vm') /\ ~Running'
    BY <1>2 DEF On, Running
  <2>3. /\ cli' \in [Proc -> Process] /\ OnPlan' /\ ResolveFirst'
        /\ \A o \in Proc : Enters(cli[o], boot, vm, gitconfig)'
    BY <1>1, <1>2, <2>1, <2>2, GoingOn
  <2>4. SomeonePushes'
    BY <1>2 DEF SomeonePushes
  <2>5. InGuest'
    BY <1>1, <1>2, <2>2, <2>3 DEF InGuest
  <2>6. TypeOK'
    BY <1>1, <1>2, <2>3 DEF LifeInv, TypeOK, bounds
  <2> QED
    BY <2>3, <2>4, <2>5, <2>6 DEF LifeInv
<1>3. CASE Ends(p, "error") /\ UNCHANGED <<vm, live, locked>>
  <2>1. cli' \in [Proc -> Process] => TypeOK'
    BY <1>1, <1>3 DEF LifeInv, TypeOK, bounds
  <2>2. ~Pushes(cli[p], boot)
    BY <1>1 DEF Pushes
  <2> QED
    BY <1>1, <1>3, <2>1, <2>2, ComesBackAlone
<1> QED
  BY <1>2, <1>3 DEF Stop

LEMMA ResolveConfigIntoInv ==
  ASSUME LifeInv, NEW p \in Proc, ResolveConfigInto(p)
  PROVE  LifeInv'
<1> DEFINE s == Head(cli[p].todo)  q == [cli[p] EXCEPT !.touched = TRUE]
<1>1. /\ ~Ended(p) /\ s = "store"
      /\ UNCHANGED <<config, mapped, vm, boot, live, locked, rendered, gitconfig,
                     missed, bounds>>
  BY DEF ResolveConfigInto, At, Next1
<1>2. ~Pushes(cli[p], boot)
  BY <1>1 DEF Pushes
<1>3. CASE stored' = cli[p].snap /\ Went(p, q)
  <2>1. /\ q \in Process /\ q.todo = cli[p].todo /\ q.cmd = cli[p].cmd
        /\ Leaves(q, boot, vm, gitconfig)
    BY <1>1, TouchingLeaves
  <2>2. stored' \subseteq Mount
    BY <1>1, <1>3, AtStep DEF Process
  <2>3. cli' \in [Proc -> Process] => TypeOK'
    BY <1>1, <2>2 DEF LifeInv, TypeOK, bounds
  <2> QED
    BY <1>1, <1>2, <1>3, <2>1, <2>3, GoesOnAlone
<1>4. CASE Ends(p, "error") /\ UNCHANGED stored
  <2>1. cli' \in [Proc -> Process] => TypeOK'
    BY <1>1, <1>4 DEF LifeInv, TypeOK, bounds
  <2> QED
    BY <1>1, <1>2, <1>4, <2>1, ComesBackAlone
<1> QED
  BY <1>3, <1>4 DEF ResolveConfigInto

LEMMA LaunchInv ==
  ASSUME LifeInv, NEW p \in Proc, Launch(p)
  PROVE  LifeInv'
<1> DEFINE s == Head(cli[p].todo)
<1>1. /\ ~Ended(p) /\ s = "launch" /\ cli[p].seen # "running"
      /\ UNCHANGED <<config, mapped, locked, rendered, gitconfig, bounds>>
  BY DEF Launch, At, Next1, NotNeeded
<1>2. /\ cli[p] \in Process /\ boot \in Nat /\ cli[p].end = "none"
      /\ cli[p].todo # <<>> /\ IsRest(cli[p].cmd, cli[p].todo)
      /\ s \in StepsOf(cli[p].cmd) /\ cli[p].cmd \in Command
      /\ s \notin BeforeResolved(cli[p].cmd) /\ cli[p].mine = 0
      /\ cli[p].content
  BY <1>1, AtStep, StepsSpread
<1>3. ~Pushes(cli[p], boot)
  BY <1>1 DEF Pushes
<1>4. CASE /\ vm = cli[p].seen /\ vm' = "booting" /\ boot' = boot + 1
           /\ stored' = (IF vm = "absent" THEN cli[p].snap ELSE stored)
           /\ live' = stored' /\ missed' = FALSE
           /\ Went(p, [cli[p] EXCEPT !.started = TRUE, !.mine = boot + 1,
                                     !.touched = TRUE])
  <2> DEFINE q == [cli[p] EXCEPT !.started = TRUE, !.mine = boot + 1,
                                 !.touched = TRUE]
  <2>1. boot' \in Nat /\ boot' > boot /\ boot + 1 \in Nat
    BY <1>2, <1>4
  <2>2. /\ q \in Process /\ q.todo = cli[p].todo /\ q.cmd = cli[p].cmd
        /\ q.end = "none" /\ q.mine = boot + 1 /\ q.seen = cli[p].seen
        /\ q.content = cli[p].content /\ q.started
    BY <1>2, <2>1 DEF Process
  <2> HIDE DEF q
  <2>3. Leaves(q, boot', vm', gitconfig')
    <3>1. q.mine <= boot'
      BY <1>4, <2>1, <2>2
    <3> QED
      BY <1>1, <1>2, <2>2, <3>1 DEF Leaves
  <2>4. Went(p, q)
    BY <1>4 DEF q
  <2>5. /\ cli' \in [Proc -> Process] /\ OnPlan' /\ ResolveFirst'
        /\ \A o \in Proc : Enters(cli[o], boot, vm, gitconfig)'
        /\ \/ cli'[p].todo = <<>> /\ Head(q.todo) = Final(q.cmd)
           \/ /\ cli'[p].todo # <<>>
              /\ Head(cli'[p].todo) = After(q.cmd, Head(q.todo))
              /\ cli'[p].mine = q.mine /\ cli'[p].seen = q.seen
              /\ cli'[p].content = q.content /\ cli'[p].started = q.started
    BY <1>1, <1>2, <2>1, <2>2, <2>3, <2>4, GoingOn
  <2>6. SomeonePushes'
    <3>1. Head(q.todo) # Final(q.cmd) /\ After(q.cmd, Head(q.todo)) = "wait"
      <4>1. s # Final(cli[p].cmd)
        BY <1>1, <1>2, StepsSpread
      <4>2. After(cli[p].cmd, s) = "wait"
        BY <1>1 DEF After
      <4> QED
        BY <2>2, <4>1, <4>2
    <3>2. Pushes(cli'[p], boot')
      BY <1>1, <1>2, <1>4, <2>2, <2>5, <3>1 DEF Pushes
    <3> QED
      BY <3>2 DEF SomeonePushes
  <2>7. InGuest'
    <3>1. boot' > 0
      BY <1>2, <1>4
    <3>2. locked' => gitconfig' # "missing"
      BY <1>1 DEF LifeInv, InGuest
    <3> QED
      BY <1>4, <2>5, <3>1, <3>2 DEF InGuest, Running
  <2>8. TypeOK'
    <3>1. rendered' \in 0 .. boot'
      BY <1>1, <1>4, <2>1 DEF LifeInv, TypeOK
    <3>2. stored' \subseteq Mount
      BY <1>2, <1>4 DEF LifeInv, TypeOK, Process
    <3> QED
      BY <1>1, <1>4, <2>1, <2>5, <3>1, <3>2 DEF LifeInv, TypeOK, bounds
  <2> QED
    BY <2>5, <2>6, <2>7, <2>8 DEF LifeInv
<1>5. CASE /\ Went(p, [cli[p] EXCEPT !.started = TRUE])
           /\ UNCHANGED <<vm, boot, stored, live, missed>>
  <2> DEFINE q == [cli[p] EXCEPT !.started = TRUE]
  <2>1. /\ q \in Process /\ q.todo = cli[p].todo /\ q.cmd = cli[p].cmd
        /\ q.end = "none" /\ q.mine = 0 /\ q.seen = cli[p].seen
        /\ q.content = cli[p].content
    BY <1>2 DEF Process
  <2> HIDE DEF q
  <2>2. Leaves(q, boot, vm, gitconfig)
    <3>1. 0 <= boot
      BY <1>2
    <3> QED
      BY <1>2, <2>1, <3>1 DEF Leaves
  <2>3. cli' \in [Proc -> Process] => TypeOK'
    BY <1>1, <1>5 DEF LifeInv, TypeOK, bounds
  <2>4. Went(p, q)
    BY <1>5 DEF q
  <2> QED
    BY <1>1, <1>3, <1>5, <2>1, <2>2, <2>3, <2>4, GoesOnAlone
<1>6. CASE Ends(p, "error") /\ UNCHANGED <<vm, boot, stored, live, missed>>
  <2>1. cli' \in [Proc -> Process] => TypeOK'
    BY <1>1, <1>6 DEF LifeInv, TypeOK, bounds
  <2> QED
    BY <1>1, <1>3, <1>6, <2>1, ComesBackAlone
<1> QED
  BY <1>4, <1>5, <1>6 DEF Launch, Launches

LEMMA ApplyGitIdentityInv ==
  ASSUME LifeInv, NEW p \in Proc, ApplyGitIdentity(p)
  PROVE  LifeInv'
<1> DEFINE s == Head(cli[p].todo)  q == [cli[p] EXCEPT !.mine = boot]
<1>1. /\ ~Ended(p) /\ s = "identity"
      /\ UNCHANGED <<config, mapped, vm, boot, stored, live, locked, rendered,
                     missed, bounds>>
  BY DEF ApplyGitIdentity, At, Next1
<1>2. /\ cli[p] \in Process /\ boot \in Nat /\ cli[p].end = "none"
      /\ s \notin BeforeResolved(cli[p].cmd)
      /\ cli[p].content \/ (cli[p].cmd = "run" /\ cli[p].seen = "running")
      /\ cli[p].mine # 0 /\ cli[p].mine = boot /\ On(vm)
           => gitconfig # "missing"
  BY <1>1, AtStep, StepsSpread
<1>3. CASE Entered /\ gitconfig' = "identity" /\ Went(p, q)
  <2>1. /\ q \in Process /\ q.todo = cli[p].todo /\ q.cmd = cli[p].cmd
        /\ q.end = "none" /\ q.mine = boot /\ q.seen = cli[p].seen
        /\ q.content = cli[p].content /\ q.started = cli[p].started
    BY <1>2 DEF Process
  <2> HIDE DEF q
  <2>2. gitconfig' # "missing"
    BY <1>3
  <2>3. Leaves(q, boot', vm', gitconfig')
    <3>1. q.mine <= boot'
      BY <1>1, <1>2, <2>1
    <3> QED
      BY <1>1, <1>2, <2>1, <2>2, <3>1 DEF Leaves
  <2>4. /\ cli' \in [Proc -> Process] /\ OnPlan' /\ ResolveFirst'
        /\ \A o \in Proc : Enters(cli[o], boot, vm, gitconfig)'
    BY <1>1, <1>2, <1>3, <2>1, <2>2, <2>3, GoingOn
  <2>5. SomeonePushes'
    <3>1. Pushes(cli[p], boot)
            => Head(q.todo) \in {"wait", "identity"} /\ Pushes(q, boot)
      BY <1>1, <2>1 DEF Pushes
    <3> QED
      BY <1>1, <1>3, <2>1, <3>1, GoingOnPushes
  <2>6. InGuest'
    BY <1>1, <2>2, <2>4 DEF LifeInv, InGuest, Running
  <2>7. TypeOK'
    BY <1>1, <1>3, <2>4 DEF LifeInv, TypeOK, bounds
  <2> QED
    BY <2>4, <2>5, <2>6, <2>7 DEF LifeInv
<1>4. CASE ~Entered /\ Ends(p, "error") /\ UNCHANGED gitconfig
  <2>1. cli' \in [Proc -> Process] => TypeOK'
    BY <1>1, <1>4 DEF LifeInv, TypeOK, bounds
  <2>2. Pushes(cli[p], boot) => vm \notin {"booting", "up"}
    <3>1. vm \in {"booting", "up"} => Running /\ On(vm) /\ boot # 0
      BY <1>2 DEF LifeInv, InGuest, Running, On
    <3> QED
      BY <1>2, <1>4, <3>1 DEF Pushes, Entered
  <2> QED
    BY <1>1, <1>4, <2>1, <2>2, ComesBackAlone
<1> QED
  BY <1>3, <1>4 DEF ApplyGitIdentity

LEMMA PushRenderedInv ==
  ASSUME LifeInv, NEW p \in Proc, PushRendered(p)
  PROVE  LifeInv'
<1> DEFINE s == Head(cli[p].todo)  q == cli[p]
<1>1. /\ ~Ended(p) /\ s = "push"
      /\ UNCHANGED <<config, mapped, vm, boot, stored, live, locked, missed,
                     bounds>>
  BY DEF PushRendered, At, Next1
<1>2. /\ cli[p] \in Process /\ boot \in Nat /\ cli[p].end = "none"
      /\ s \notin BeforeResolved(cli[p].cmd) /\ cli[p].mine <= boot
      /\ cli[p].content \/ (cli[p].cmd = "run" /\ cli[p].seen = "running")
      /\ cli[p].mine # 0 /\ cli[p].mine = boot /\ On(vm)
           => gitconfig # "missing"
  BY <1>1, AtStep, StepsSpread
<1>3. CASE rendered' = boot /\ gitconfig' = "template" /\ Went(p, cli[p])
  <2>1. Leaves(q, boot', vm', gitconfig')
    BY <1>1, <1>2, <1>3 DEF Leaves
  <2>2. /\ cli' \in [Proc -> Process] /\ OnPlan' /\ ResolveFirst'
        /\ \A o \in Proc : Enters(cli[o], boot, vm, gitconfig)'
    BY <1>1, <1>2, <1>3, <2>1, GoingOn
  <2>3. SomeonePushes'
    BY <1>1, <1>3 DEF SomeonePushes
  <2>4. InGuest'
    BY <1>1, <1>3, <2>2 DEF LifeInv, InGuest, Running
  <2>5. rendered' \in 0 .. boot'
    BY <1>1, <1>2, <1>3
  <2>6. TypeOK'
    BY <1>1, <1>3, <2>2, <2>5 DEF LifeInv, TypeOK, bounds
  <2> QED
    BY <2>2, <2>3, <2>4, <2>6 DEF LifeInv
<1>4. CASE ~cli[p].content /\ Went(p, cli[p]) /\ UNCHANGED <<rendered, gitconfig>>
  <2>1. Leaves(q, boot, vm, gitconfig)
    BY <1>1, <1>2 DEF Leaves
  <2>2. cli' \in [Proc -> Process] => TypeOK'
    BY <1>1, <1>4 DEF LifeInv, TypeOK, bounds
  <2>3. ~Pushes(cli[p], boot)
    BY <1>4 DEF Pushes
  <2> QED
    BY <1>1, <1>2, <1>4, <2>1, <2>2, <2>3, GoesOnAlone
<1>5. CASE ~Entered /\ Ends(p, "error") /\ UNCHANGED <<rendered, gitconfig>>
  <2>1. cli' \in [Proc -> Process] => TypeOK'
    BY <1>1, <1>5 DEF LifeInv, TypeOK, bounds
  <2>2. Pushes(cli[p], boot) => vm \notin {"booting", "up"}
    <3>1. vm \in {"booting", "up"} => Running /\ On(vm) /\ boot # 0
      BY <1>2 DEF LifeInv, InGuest, Running, On
    <3> QED
      BY <1>1, <1>2, <1>5, <3>1 DEF Pushes, Entered
  <2> QED
    BY <1>1, <1>5, <2>1, <2>2, ComesBackAlone
<1> QED
  BY <1>3, <1>4, <1>5 DEF PushRendered

(* Only `stop` begins past the step that resolves.                         *)
LEMMA PlansStart ==
  ASSUME NEW c \in Command
  PROVE  c = "stop" \/ Head(Plan(c)) \in BeforeResolved(c)
<1>1. CASE c = "run"
  BY <1>1, RunStepsAre DEF Plan, BeforeResolved
<1>2. CASE c = "start"
  BY <1>2, StartStepsAre DEF Plan, BeforeResolved
<1>3. CASE c = "recreate"
  BY <1>3, RecreateStepsAre DEF Plan, BeforeResolved
<1>4. CASE c = "mount"
  BY <1>4, MountStepsAre DEF Plan, BeforeResolved
<1> QED
  BY <1>1, <1>2, <1>3, <1>4 DEF Command

LEMMA BeginInv ==
  ASSUME LifeInv, NEW p \in Proc, NEW c \in Command, NEW m \in Mount, Begin(p, c, m)
  PROVE  LifeInv'
<1> DEFINE new == [cmd |-> c, todo |-> Plan(c), mount |-> m, snap |-> config,
                   seen |-> "absent", content |-> FALSE, started |-> FALSE,
                   alone |-> \A o \in Proc \ {p} : Ended(o), mine |-> 0,
                   touched |-> FALSE, end |-> "none"]
           old(q) == [cli[q] EXCEPT !.alone = @ /\ Ended(q)]
<1>1. /\ Ended(p) /\ requests < MaxRequests /\ requests' = requests + 1
      /\ cli' = [q \in Proc |-> IF q = p THEN new ELSE old(q)]
      /\ UNCHANGED <<config, mapped, guest, missed, edits, faults>>
  BY DEF Begin
<1>2. UNCHANGED <<vm, boot, stored, live, locked, rendered, gitconfig>>
  BY <1>1 DEF guest
<1>3. cli \in [Proc -> Process] /\ boot \in Nat /\ 0 <= boot /\ config \subseteq Mount
  BY DEF LifeInv, TypeOK
<1>4. Keeps(new, boot, vm, gitconfig)
  <2>1. Plan(c) \in Seq(Step) /\ IsRest(c, Plan(c))
    BY PlansAreWhole
  <2>2. (\A o \in Proc \ {p} : Ended(o)) \in BOOLEAN
    OBVIOUS
  <2>3. new \in Process
    BY <1>3, <2>1, <2>2 DEF Process
  <2>4. /\ new.todo = Plan(c) /\ new.cmd = c /\ new.end = "none" /\ new.mine = 0
        /\ new.touched = FALSE
    OBVIOUS
  <2> HIDE DEF new
  <2>5. ResolvesFirst(new)
    BY <2>4, PlansStart DEF ResolvesFirst
  <2>6. Enters(new, boot, vm, gitconfig)
    BY <1>3, <2>4 DEF Enters
  <2> QED
    BY <2>1, <2>3, <2>4, <2>5, <2>6 DEF Keeps
<1>5. ASSUME NEW q \in Proc
      PROVE  /\ old(q) \in Process /\ Keeps(old(q), boot, vm, gitconfig)
             /\ Pushes(cli[q], boot) => Pushes(old(q), boot)
  <2>1. cli[q] \in Process /\ Keeps(cli[q], boot, vm, gitconfig)
    BY <1>3, InvOfProcess
  <2>2. /\ old(q).cmd = cli[q].cmd /\ old(q).todo = cli[q].todo
        /\ old(q).seen = cli[q].seen /\ old(q).content = cli[q].content
        /\ old(q).started = cli[q].started /\ old(q).mine = cli[q].mine
        /\ old(q).touched = cli[q].touched /\ old(q).end = cli[q].end
    BY <2>1 DEF Process
  <2>3. (cli[q].alone /\ Ended(q)) \in BOOLEAN
    OBVIOUS
  <2>4. old(q) \in Process
    BY <2>1, <2>3 DEF Process
  <2> HIDE DEF old
  <2> QED
    BY <2>1, <2>2, <2>4 DEF Keeps, ResolvesFirst, Enters, Pushes
<1>6. ASSUME NEW q \in Proc
      PROVE  cli'[q] = IF q = p THEN new ELSE old(q)
  BY <1>1
<1> HIDE DEF new, old
<1>7. ASSUME NEW q \in Proc
      PROVE  Keeps(cli'[q], boot', vm', gitconfig')
  BY <1>2, <1>4, <1>5, <1>6
<1>8. cli' \in [Proc -> Process]
  BY <1>1, <1>4, <1>5 DEF Keeps
<1>9. OnPlan' /\ ResolveFirst' /\ \A q \in Proc : Enters(cli[q], boot, vm, gitconfig)'
  BY <1>7 DEF Keeps, OnPlan, ResolveFirst
<1>10. SomeonePushes'
  <2> SUFFICES ASSUME vm \in {"booting", "up"}, ~missed, rendered # boot
               PROVE  \E q \in Proc : Pushes(cli'[q], boot)
    BY <1>1, <1>2 DEF SomeonePushes
  <2>1. PICK q \in Proc : Pushes(cli[q], boot)
    BY DEF LifeInv, SomeonePushes
  <2>2. q # p
    BY <1>1, <2>1 DEF Pushes, Ended
  <2> QED
    BY <1>5, <1>6, <2>1, <2>2
<1>11. TypeOK'
  <2>1. requests' \in 0 .. MaxRequests
    BY <1>1, BoundsAssumption DEF LifeInv, TypeOK
  <2> QED
    BY <1>1, <1>8, <2>1 DEF LifeInv, TypeOK, guest
<1> QED
  BY <1>2, <1>9, <1>10, <1>11, Settles

(* What the user, the guest's boot and a stutter leave to the processes.   *)
LEMMA GuestInv ==
  ASSUME LifeInv, TypeOK', cli' = cli, boot' = boot, rendered' = rendered,
         missed' = missed,
         vm' # vm => vm = "booting" /\ vm' \in {"up", "failed"},
         vm' = "up" => vm = "up" \/ locked,
         locked' # locked => gitconfig # "missing",
         gitconfig' # gitconfig => gitconfig = "missing"
  PROVE  LifeInv'
<1>1. boot \in Nat /\ cli \in [Proc -> Process]
  BY DEF LifeInv, TypeOK
<1>2. gitconfig # "missing" => gitconfig' # "missing"
  OBVIOUS
<1>3. /\ OnPlan' /\ ResolveFirst'
      /\ \A p \in Proc : Enters(cli[p], boot, vm, gitconfig)'
  <2>1. On(vm') => On(vm)
    BY DEF On
  <2>2. ASSUME NEW p \in Proc
        PROVE  Enters(cli[p], boot, vm', gitconfig')
    <3>1. Enters(cli[p], boot, vm, gitconfig) /\ cli[p] \in Process
      BY <1>1 DEF LifeInv, InGuest
    <3> QED
      BY <1>1, <1>2, <2>1, <3>1, StaysInGuest
  <2> QED
    BY <2>2 DEF LifeInv, OnPlan, ResolveFirst
<1>4. InGuest'
  <2>1. Running' => Running
    BY DEF Running
  <2>2. (locked' \/ vm' = "up") => gitconfig' # "missing"
    BY <1>2 DEF LifeInv, InGuest
  <2> QED
    BY <1>3, <2>1, <2>2 DEF LifeInv, InGuest
<1>5. SomeonePushes'
  BY DEF LifeInv, SomeonePushes
<1> QED
  BY <1>3, <1>4, <1>5 DEF LifeInv

LEMMA InvStep == LifeInv /\ [Next]_vars => LifeInv'
<1> SUFFICES ASSUME LifeInv, [Next]_vars
             PROVE  LifeInv'
  OBVIOUS
<1>1. CASE EditSecrets
  <2>1. edits' \in 0 .. MaxEdits
    BY <1>1, BoundsAssumption DEF EditSecrets, LifeInv, TypeOK
  <2>2. mapped' \in BOOLEAN
    BY <1>1 DEF EditSecrets
  <2>3. TypeOK'
    BY <1>1, <2>1, <2>2 DEF EditSecrets, LifeInv, TypeOK, guest
  <2> QED
    BY <1>1, <2>3, GuestInv DEF EditSecrets, guest
<1>2. CASE Provision
  <2>1. TypeOK'
    BY <1>2 DEF Provision, LifeInv, TypeOK, bounds
  <2> QED
    BY <1>2, <2>1, GuestInv DEF Provision
<1>3. CASE LockSettings
  <2>1. TypeOK'
    BY <1>3 DEF LockSettings, LifeInv, TypeOK, bounds
  <2> QED
    BY <1>3, <2>1, GuestInv DEF LockSettings
<1>4. CASE BootCompletes
  <2>1. TypeOK'
    BY <1>4 DEF BootCompletes, LifeInv, TypeOK, bounds
  <2> QED
    BY <1>4, <2>1, GuestInv DEF BootCompletes
<1>5. CASE BootFails
  <2>1. faults' \in 0 .. MaxFaults
    BY <1>5, BoundsAssumption DEF BootFails, LifeInv, TypeOK
  <2>2. TypeOK'
    BY <1>5, <2>1 DEF BootFails, LifeInv, TypeOK
  <2> QED
    BY <1>5, <2>2, GuestInv DEF BootFails
<1>6. ASSUME NEW p \in Proc, NEW c \in Command, NEW m \in Mount, Begin(p, c, m)
      PROVE  LifeInv'
  BY <1>6, BeginInv
<1>7. ASSUME NEW p \in Proc,
             \/ CliStep(p) \/ QueryStatusFails(p) \/ ProbeTimesOut(p)
             \/ AgentExits(p) \/ Interrupt(p)
      PROVE  LifeInv'
  BY <1>7, SkipInv, SaveMountInv, QueryRunningInv, QueryStatusInv,
     QueryStatusFailsInv, ResolveRenderedInv, DeleteInv, StopInv,
     ResolveConfigIntoInv, LaunchInv, AwaitReadyInv, ApplyGitIdentityInv,
     PushRenderedInv, AgentExitsInv, InterruptInv, ProbeTimesOutInv DEF CliStep
<1>8. CASE UNCHANGED vars
  <2>1. TypeOK'
    BY <1>8 DEF vars, guest, bounds, LifeInv, TypeOK
  <2> QED
    BY <1>8, <2>1, GuestInv DEF vars, guest
<1> QED
  BY <1>1, <1>2, <1>3, <1>4, <1>5, <1>6, <1>7, <1>8 DEF Next, GuestStep

(* Every reachable state satisfies the invariant.                          *)
THEOREM Invariance == Spec => []LifeInv
<1>1. Init => LifeInv
  BY InvInit
<1>2. LifeInv /\ [Next]_vars => LifeInv'
  BY InvStep
<1> QED
  BY <1>1, <1>2, PTL DEF Spec

(* The state of the VM, of its guest and of the processes is well-typed.   *)
THEOREM TypeCorrect == Spec => []TypeOK
<1>1. LifeInv => TypeOK
  BY DEF LifeInv
<1> QED
  BY <1>1, Invariance, PTL

(* A command that ends because a secret is not mapped has not stopped,     *)
(* deleted, stored or booted anything, whoever edits secrets.yaml          *)
(* meanwhile: no plan touches the VM before it has resolved, and nothing   *)
(* else returns "unmapped".                                                *)
THEOREM UnmappedSafe == Spec => []UnmappedTouchesNothing
<1>1. LifeInv => UnmappedTouchesNothing
  BY DEF LifeInv, ResolveFirst, ResolvesFirst, UnmappedTouchesNothing
<1> QED
  BY <1>1, Invariance, PTL

(* No boot skips its templates: as long as the VM runs without those of    *)
(* this boot, the process that launched it, and holds what it rendered     *)
(* from the secrets, is on its way to push them.                           *)
THEOREM BootsRender == Spec => []EveryBootRenders
<1>1. LifeInv => EveryBootRenders
  <2> SUFFICES ASSUME LifeInv, vm = "up", ~missed, rendered # boot,
                      \A p \in Proc : Ended(p) \/ At(p, "agent")
               PROVE  FALSE
    BY DEF EveryBootRenders
  <2>1. PICK p \in Proc : Pushes(cli[p], boot)
    BY DEF LifeInv, SomeonePushes
  <2> QED
    BY <2>1 DEF Pushes, Ended, At, Next1
<1> QED
  BY <1>1, Invariance, PTL

-----------------------------------------------------------------------------
(* A mount that has been applied stays                                      *)

(* What a step of a `mount` on its own must have left in its record q.      *)
MountLeaves(q, conf, st, lv, v) ==
  LET step == Head(q.todo) IN
  /\ q.mount \in q.snap /\ q.mount \in conf
  /\ step \in {"stop", "status", "store"} => v = "stopped"
  /\ step \in {"status", "store"} => q.seen \in {"stopped", "absent"}
  /\ step = "store" /\ q.seen = "stopped" => q.mount \in st
  /\ step \in {"launch", "wait", "identity", "push"}
       => q.mount \in st /\ q.mount \in lv

(* The steps of a `mount`.                                                  *)
LEMMA MountAfter ==
  ASSUME NEW s \in StepsOf("mount")
  PROVE  LET t == After("mount", s) IN
         /\ s # "push" => t # "save"
         /\ t = "status" => s = "stop"
         /\ t = "store" => s = "status"
         /\ t = "launch" => s = "store"
         /\ t = "wait" => s = "launch"
         /\ t = "identity" => s = "wait"
         /\ t = "push" => s = "identity"
  BY DEF StepsOf, After

(* What a step of p leaves to a mount that has been applied.                *)
Spares(p, m) ==
  KeepsMount(m) => /\ m \in config'
                   /\ vm' # "absent" => m \in stored'
                   /\ On(vm') => m \in live'

LEMMA MountGoes ==
  ASSUME LifeInv, MountsStay, NEW p \in Proc, ~Ended(p),
         NEW q \in Process, q.todo = cli[p].todo, q.cmd = cli[p].cmd,
         q.mount = cli[p].mount, q.alone = cli[p].alone, q.end = cli[p].end,
         cli[p].snap \subseteq q.snap, Went(p, q),
         \A m \in Mount : Spares(p, m),
         q.cmd = "mount" /\ HasMount(cli[p], config, stored, live, vm)
           => MountLeaves(q, config', stored', live', vm')
  PROVE  MountsStay'
<1> DEFINE r == IF Len(q.todo) = 1 THEN Returned(q, "done")
                ELSE [q EXCEPT !.todo = Tail(q.todo)]
           s == Head(q.todo)
<1>1. /\ q.todo # <<>> /\ IsRest(q.cmd, q.todo) /\ cli \in [Proc -> Process]
      /\ q.cmd \in Command /\ s \in StepsOf(q.cmd)
  BY AtStep
<1>2. /\ \A o \in Proc \ {p} : cli'[o] = cli[o]
      /\ cli'[p] = r
  BY <1>1 DEF Went
<1> HIDE DEF r, s
<1>3. /\ r \in Process /\ r.cmd = q.cmd /\ r.mount = q.mount /\ r.alone = q.alone
      /\ \/ r.todo = <<>> /\ r.end = "done" /\ s = Final(q.cmd)
         \/ /\ r.todo # <<>> /\ Head(r.todo) = After(q.cmd, s)
            /\ r.end = q.end /\ r.snap = q.snap /\ r.seen = q.seen
  BY <1>1, GoesOn DEF r, s
<1>4. ASSUME NEW m \in Mount, KeepsMount(m)
      PROVE  KeepsMount(m)'
  <2>1. m \in config' /\ (vm' # "absent" => m \in stored') /\ (On(vm') => m \in live')
    BY <1>4 DEF Spares
  <2>2. ASSUME NEW o \in Proc, cli'[o].todo # <<>>
        PROVE  m \in cli'[o].snap
    <3>1. CASE o = p
      BY <1>1, <1>2, <1>3, <1>4, <2>2, <3>1 DEF KeepsMount
    <3>2. CASE o # p
      BY <1>2, <1>4, <2>2, <3>2 DEF KeepsMount
    <3> QED
      BY <3>1, <3>2
  <2> QED
    BY <2>1, <2>2 DEF KeepsMount
<1>5. ASSUME NEW o \in Proc, cli'[o].alone
      PROVE  /\ cli'[o].todo # <<>> => \A x \in Proc \ {o} : cli'[x].todo = <<>>
             /\ cli'[o].cmd = "mount" /\ cli'[o].todo # <<>>
                  => HasMount(cli'[o], config', stored', live', vm')
             /\ cli'[o].cmd = "mount" /\ cli'[o].touched /\ cli'[o].end = "done"
                  => KeepsMount(cli[o].mount)'
  <2>1. CASE o # p
    <3>1. cli'[o] = cli[o] /\ cli[o].alone
      BY <1>2, <1>5, <2>1
    <3>2. cli[o].todo = <<>>
      BY <1>1, <2>1, <3>1 DEF MountsStay, Ended
    <3>3. cli[o].mount \in Mount
      BY <1>1 DEF Process
    <3>4. cli'[o].cmd = "mount" /\ cli'[o].touched /\ cli'[o].end = "done"
            => KeepsMount(cli[o].mount)
      BY <3>1 DEF MountsStay
    <3> QED
      BY <1>4, <3>1, <3>2, <3>3, <3>4
  <2>2. CASE o = p
    <3>1. /\ cli[p].alone /\ \A x \in Proc \ {p} : cli[x].todo = <<>>
          /\ q.cmd = "mount" => HasMount(cli[p], config, stored, live, vm)
      BY <1>1, <1>2, <1>3, <1>5, <2>2 DEF MountsStay
    <3>2. \A x \in Proc \ {o} : cli'[x].todo = <<>>
      BY <1>2, <2>2, <3>1
    <3>3. ASSUME q.cmd = "mount", r.todo # <<>>
          PROVE  HasMount(r, config', stored', live', vm')
      <4>1. MountLeaves(q, config', stored', live', vm')
        BY <3>1, <3>3
      <4>2. Head(r.todo) = After("mount", s) /\ s \in StepsOf("mount")
        BY <1>1, <1>3, <3>3
      <4>3. /\ r.mount \in r.snap /\ r.mount \in config'
            /\ s \in {"stop", "status", "store"} => vm' = "stopped"
            /\ s \in {"status", "store"} => r.seen \in {"stopped", "absent"}
            /\ s = "store" /\ r.seen = "stopped" => r.mount \in stored'
            /\ s \in {"launch", "wait", "identity", "push"}
                 => r.mount \in stored' /\ r.mount \in live'
        BY <1>3, <3>3, <4>1 DEF MountLeaves, s
      <4> QED
        BY <4>2, <4>3, MountAfter DEF HasMount
    <3>4. ASSUME q.cmd = "mount", r.end = "done"
          PROVE  KeepsMount(cli[p].mount)'
      <4>1. r.todo = <<>>
        BY <1>1, <1>3, <3>4, AtStep
      <4>2. MountLeaves(q, config', stored', live', vm') /\ s = "push"
        BY <1>3, <3>1, <3>4, <4>1 DEF Final
      <4>3. /\ r.mount \in config' /\ r.mount \in stored' /\ r.mount \in live'
        BY <1>3, <4>2 DEF MountLeaves, s
      <4>4. \A x \in Proc : cli'[x].todo = <<>>
        BY <1>2, <2>2, <3>2, <4>1
      <4>5. cli'[p].mount = r.mount
        BY <1>2
      <4> QED
        BY <4>3, <4>4, <4>5 DEF KeepsMount
    <3> QED
      BY <1>2, <1>3, <2>2, <3>2, <3>3, <3>4
  <2> QED
    BY <2>1, <2>2
<1> QED
  BY <1>5 DEF MountsStay

LEMMA MountEnds ==
  ASSUME LifeInv, MountsStay, NEW p \in Proc, ~Ended(p),
         NEW how \in {"done", "unmapped", "error"}, Ends(p, how),
         how = "done" => ~cli[p].touched,
         config' = config, stored' = stored, live' = live, vm' = vm
  PROVE  MountsStay'
<1> DEFINE r == Returned(cli[p], how)
<1>1. cli \in [Proc -> Process]
  BY DEF LifeInv, TypeOK
<1>2. /\ \A o \in Proc \ {p} : cli'[o] = cli[o]
      /\ cli'[p] = r
  BY <1>1 DEF Ends
<1> HIDE DEF r
<1>3. /\ r.todo = <<>> /\ r.end = how /\ r.cmd = cli[p].cmd
      /\ r.mount = cli[p].mount /\ r.alone = cli[p].alone
      /\ r.touched = cli[p].touched
  BY <1>1, Returns DEF r
<1>4. ASSUME NEW m \in Mount, KeepsMount(m)
      PROVE  KeepsMount(m)'
  BY <1>2, <1>3, <1>4 DEF KeepsMount
<1>5. ASSUME NEW o \in Proc, cli'[o].alone
      PROVE  /\ cli'[o].todo = <<>>
             /\ cli'[o].cmd = "mount" /\ cli'[o].touched /\ cli'[o].end = "done"
                  => KeepsMount(cli[o].mount)'
  <2>1. CASE o # p
    <3>1. cli'[o] = cli[o] /\ cli[o].alone /\ cli[o].mount \in Mount
      BY <1>1, <1>2, <1>5, <2>1 DEF Process
    <3>2. cli[o].todo = <<>>
      BY <2>1, <3>1 DEF MountsStay, Ended
    <3>3. cli'[o].cmd = "mount" /\ cli'[o].touched /\ cli'[o].end = "done"
            => KeepsMount(cli[o].mount)
      BY <3>1 DEF MountsStay
    <3> QED
      BY <1>4, <3>1, <3>2, <3>3
  <2>2. CASE o = p
    BY <1>2, <1>3, <2>2
  <2> QED
    BY <2>1, <2>2
<1> QED
  BY <1>5 DEF MountsStay

(* Steps that leave the VM and the config alone.                            *)
LEMMA MountGoesAlone ==
  ASSUME LifeInv, MountsStay, NEW p \in Proc, ~Ended(p),
         NEW q \in Process, q.todo = cli[p].todo, q.cmd = cli[p].cmd,
         q.mount = cli[p].mount, q.alone = cli[p].alone, q.end = cli[p].end,
         q.snap = cli[p].snap, Went(p, q),
         config' = config, stored' = stored, live' = live, vm' = vm,
         q.cmd = "mount" /\ HasMount(cli[p], config, stored, live, vm)
           => MountLeaves(q, config, stored, live, vm)
  PROVE  MountsStay'
<1>1. \A m \in Mount : Spares(p, m)
  BY DEF Spares, KeepsMount
<1> QED
  BY <1>1, MountGoes

LEMMA SkipMount ==
  ASSUME LifeInv, MountsStay, NEW p \in Proc, Skip(p)
  PROVE  MountsStay'
<1> DEFINE q == cli[p]  s == Head(q.todo)
<1>1. /\ ~Ended(p) /\ NotNeeded(p, s) /\ Went(p, q)
      /\ config' = config /\ stored' = stored /\ live' = live /\ vm' = vm
  BY DEF Skip, Next1, guest
<1>2. q \in Process
  BY <1>1, AtStep
<1>3. q.cmd = "mount"
        => \/ s \in {"store", "launch", "wait"} /\ q.seen = "running"
           \/ s = "store" /\ q.seen = "absent"
  <2> HIDE DEF s
  <2> QED
    BY <1>1 DEF NotNeeded
<1>4. ASSUME q.cmd = "mount", HasMount(q, config, stored, live, vm)
      PROVE  MountLeaves(q, config, stored, live, vm)
  BY <1>3, <1>4 DEF HasMount, MountLeaves
<1> QED
  BY <1>1, <1>2, <1>4, MountGoesAlone

LEMMA SaveMountMount ==
  ASSUME LifeInv, MountsStay, NEW p \in Proc, SaveMount(p)
  PROVE  MountsStay'
<1> DEFINE s == Head(cli[p].todo)
           q == [cli[p] EXCEPT !.snap = @ \union {cli[p].mount}]
<1>1. /\ ~Ended(p) /\ s = "save"
      /\ stored' = stored /\ live' = live /\ vm' = vm
  BY DEF SaveMount, At, Next1, guest
<1>2. cli[p] \in Process /\ cli[p].todo # <<>> /\ ~cli[p].touched
  BY <1>1, AtStep, StepsSpread
<1>3. CASE Ends(p, "done") /\ config' = config
  BY <1>1, <1>2, <1>3, MountEnds
<1>4. CASE config' = cli[p].snap \union {cli[p].mount} /\ Went(p, q)
  <2>1. /\ q \in Process /\ q.todo = cli[p].todo /\ q.cmd = cli[p].cmd
        /\ q.mount = cli[p].mount /\ q.alone = cli[p].alone
        /\ q.end = cli[p].end /\ q.snap = cli[p].snap \union {cli[p].mount}
    BY <1>2 DEF Process
  <2> HIDE DEF q
  <2>2. \A m \in Mount : Spares(p, m)
    BY <1>1, <1>2, <1>4 DEF Spares, KeepsMount
  <2>3. MountLeaves(q, config', stored', live', vm')
    BY <1>1, <1>4, <2>1 DEF MountLeaves
  <2>4. cli[p].snap \subseteq q.snap
    BY <2>1
  <2> QED
    BY <1>1, <1>4, <2>1, <2>2, <2>3, <2>4, MountGoes
<1> QED
  BY <1>3, <1>4 DEF SaveMount

LEMMA QueryMount ==
  ASSUME LifeInv, MountsStay, NEW p \in Proc,
         QueryRunning(p) \/ QueryStatus(p) \/ QueryStatusFails(p)
  PROVE  MountsStay'
<1> DEFINE s == Head(cli[p].todo)
<1>1. /\ ~Ended(p) /\ s \in {"running", "status"}
      /\ config' = config /\ stored' = stored /\ live' = live /\ vm' = vm
  BY DEF QueryRunning, QueryStatus, QueryStatusFails, At, Next1, guest
<1>2. cli[p] \in Process
  BY <1>1, AtStep
<1>3. CASE s = "running" /\ Ends(p, "done")
  <2>1. ~cli[p].touched
    BY <1>1, <1>3, AtStep, StepsSpread
  <2> QED
    BY <1>1, <1>3, <2>1, MountEnds
<1>4. CASE s = "running" /\ Went(p, cli[p])
  <2>1. HasMount(cli[p], config, stored, live, vm)
          => MountLeaves(cli[p], config, stored, live, vm)
    BY <1>4 DEF HasMount, MountLeaves
  <2> QED
    BY <1>1, <1>2, <1>4, <2>1, MountGoesAlone
<1>5. ASSUME NEW seen \in {"absent", "stopped", "running"}, s = "status",
             vm = "stopped" => seen # "running",
             Went(p, [cli[p] EXCEPT !.seen = seen])
      PROVE  MountsStay'
  <2> DEFINE q == [cli[p] EXCEPT !.seen = seen]
  <2>1. /\ q \in Process /\ q.todo = cli[p].todo /\ q.cmd = cli[p].cmd
        /\ q.mount = cli[p].mount /\ q.alone = cli[p].alone
        /\ q.end = cli[p].end /\ q.snap = cli[p].snap /\ q.seen = seen
    BY <1>2 DEF Process
  <2>2. Went(p, q)
    BY <1>5
  <2> HIDE DEF q
  <2>3. HasMount(cli[p], config, stored, live, vm)
          => MountLeaves(q, config, stored, live, vm)
    BY <1>5, <2>1 DEF HasMount, MountLeaves
  <2> QED
    BY <1>1, <2>1, <2>2, <2>3, MountGoesAlone
<1>6. Status \in {"absent", "stopped", "running"} /\ (vm = "stopped" => Status # "running")
  BY DEF Status, Running, LifeInv, TypeOK
<1>7. CASE QueryRunning(p)
  BY <1>3, <1>4, <1>7 DEF QueryRunning, At, Next1
<1>8. CASE QueryStatus(p)
  BY <1>5, <1>6, <1>8 DEF QueryStatus, At, Next1
<1>9. CASE QueryStatusFails(p)
  BY <1>3, <1>5, <1>9 DEF QueryStatusFails, At, Next1
<1> QED
  BY <1>7, <1>8, <1>9

LEMMA ResolveRenderedMount ==
  ASSUME LifeInv, MountsStay, NEW p \in Proc, ResolveRendered(p)
  PROVE  MountsStay'
<1> DEFINE s == Head(cli[p].todo)  q == [cli[p] EXCEPT !.content = TRUE]
<1>1. /\ ~Ended(p) /\ s = "resolve"
      /\ config' = config /\ stored' = stored /\ live' = live /\ vm' = vm
  BY DEF ResolveRendered, At, Next1, guest
<1>2. CASE Went(p, q)
  <2>1. /\ q \in Process /\ q.todo = cli[p].todo /\ q.cmd = cli[p].cmd
        /\ q.mount = cli[p].mount /\ q.alone = cli[p].alone
        /\ q.end = cli[p].end /\ q.snap = cli[p].snap /\ q.seen = cli[p].seen
    BY <1>1, AtStep DEF Process
  <2> HIDE DEF q
  <2>2. HasMount(cli[p], config, stored, live, vm)
          => MountLeaves(q, config, stored, live, vm)
    BY <1>1, <2>1 DEF HasMount, MountLeaves
  <2> QED
    BY <1>1, <1>2, <2>1, <2>2, MountGoesAlone
<1>3. CASE Ends(p, "unmapped")
  BY <1>1, <1>3, MountEnds
<1> QED
  BY <1>2, <1>3 DEF ResolveRendered

LEMMA DeleteMount ==
  ASSUME LifeInv, MountsStay, NEW p \in Proc, Delete(p)
  PROVE  MountsStay'
<1> DEFINE s == Head(cli[p].todo)  q == [cli[p] EXCEPT !.touched = TRUE]
<1>1. /\ ~Ended(p) /\ s = "delete" /\ Went(p, q)
      /\ config' = config /\ vm' = "absent"
  BY DEF Delete, At, Next1
<1>2. /\ q \in Process /\ q.todo = cli[p].todo /\ q.cmd = cli[p].cmd
      /\ q.mount = cli[p].mount /\ q.alone = cli[p].alone
      /\ q.end = cli[p].end /\ q.snap = cli[p].snap
  BY <1>1, AtStep DEF Process
<1>3. q.cmd # "mount"
  BY <1>1, <1>2, AtStep, StepsSpread
<1> HIDE DEF q
<1>4. \A m \in Mount : Spares(p, m)
  BY <1>1 DEF Spares, KeepsMount, On
<1> QED
  BY <1>1, <1>2, <1>3, <1>4, MountGoes

LEMMA StopMount ==
  ASSUME LifeInv, MountsStay, NEW p \in Proc, Stop(p)
  PROVE  MountsStay'
<1> DEFINE s == Head(cli[p].todo)  q == [cli[p] EXCEPT !.touched = TRUE]
<1>1. ~Ended(p) /\ s = "stop" /\ config' = config /\ stored' = stored
  BY DEF Stop, At, Next1
<1>2. CASE Running /\ Went(p, q) /\ vm' = "stopped"
  <2>1. /\ q \in Process /\ q.todo = cli[p].todo /\ q.cmd = cli[p].cmd
        /\ q.mount = cli[p].mount /\ q.alone = cli[p].alone
        /\ q.end = cli[p].end /\ q.snap = cli[p].snap
    BY <1>1, AtStep DEF Process
  <2> HIDE DEF q
  <2>2. \A m \in Mount : Spares(p, m)
    BY <1>1, <1>2 DEF Spares, KeepsMount, On, Running
  <2>3. HasMount(cli[p], config, stored, live, vm)
          => MountLeaves(q, config', stored', live', vm')
    BY <1>1, <1>2, <2>1 DEF HasMount, MountLeaves
  <2> QED
    BY <1>1, <1>2, <2>1, <2>2, <2>3, MountGoes
<1>3. CASE Ends(p, "error") /\ live' = live /\ vm' = vm
  BY <1>1, <1>3, MountEnds
<1> QED
  BY <1>2, <1>3 DEF Stop

LEMMA ResolveConfigIntoMount ==
  ASSUME LifeInv, MountsStay, NEW p \in Proc, ResolveConfigInto(p)
  PROVE  MountsStay'
<1> DEFINE s == Head(cli[p].todo)  q == [cli[p] EXCEPT !.touched = TRUE]
<1>1. ~Ended(p) /\ s = "store" /\ config' = config /\ live' = live /\ vm' = vm
  BY DEF ResolveConfigInto, At, Next1
<1>2. CASE stored' = cli[p].snap /\ Went(p, q)
  <2>1. /\ q \in Process /\ q.todo = cli[p].todo /\ q.cmd = cli[p].cmd
        /\ q.mount = cli[p].mount /\ q.alone = cli[p].alone
        /\ q.end = cli[p].end /\ q.snap = cli[p].snap /\ q.seen = cli[p].seen
    BY <1>1, AtStep DEF Process
  <2> HIDE DEF q
  <2>2. \A m \in Mount : Spares(p, m)
    BY <1>1, <1>2, AtStep DEF Spares, KeepsMount
  <2>3. HasMount(cli[p], config, stored, live, vm)
          => MountLeaves(q, config', stored', live', vm')
    BY <1>1, <1>2, <2>1 DEF HasMount, MountLeaves
  <2> QED
    BY <1>1, <1>2, <2>1, <2>2, <2>3, MountGoes
<1>3. CASE Ends(p, "error") /\ stored' = stored
  BY <1>1, <1>3, MountEnds
<1> QED
  BY <1>2, <1>3 DEF ResolveConfigInto

LEMMA LaunchMount ==
  ASSUME LifeInv, MountsStay, NEW p \in Proc, Launch(p)
  PROVE  MountsStay'
<1> DEFINE s == Head(cli[p].todo)
<1>1. /\ ~Ended(p) /\ s = "launch" /\ cli[p].todo # <<>> /\ config' = config
      /\ cli[p] \in Process /\ boot \in Nat
  BY AtStep DEF Launch, At, Next1
<1>2. CASE /\ vm = cli[p].seen /\ vm' = "booting"
           /\ stored' = (IF vm = "absent" THEN cli[p].snap ELSE stored)
           /\ live' = stored'
           /\ Went(p, [cli[p] EXCEPT !.started = TRUE, !.mine = boot + 1,
                                     !.touched = TRUE])
  <2> DEFINE q == [cli[p] EXCEPT !.started = TRUE, !.mine = boot + 1,
                                 !.touched = TRUE]
  <2>1. /\ q \in Process /\ q.todo = cli[p].todo /\ q.cmd = cli[p].cmd
        /\ q.mount = cli[p].mount /\ q.alone = cli[p].alone
        /\ q.end = cli[p].end /\ q.snap = cli[p].snap /\ q.seen = cli[p].seen
    <3>1. boot + 1 \in Nat
      BY <1>1
    <3> QED
      BY <1>1, <3>1 DEF Process
  <2>2. Went(p, q)
    BY <1>2
  <2> HIDE DEF q
  <2>3. \A m \in Mount : Spares(p, m)
    BY <1>1, <1>2 DEF Spares, KeepsMount
  <2>4. HasMount(cli[p], config, stored, live, vm)
          => MountLeaves(q, config', stored', live', vm')
    BY <1>1, <1>2, <2>1 DEF HasMount, MountLeaves
  <2> QED
    BY <1>1, <2>1, <2>2, <2>3, <2>4, MountGoes
<1>3. CASE /\ Running /\ Went(p, [cli[p] EXCEPT !.started = TRUE])
           /\ UNCHANGED <<vm, stored, live>>
  <2> DEFINE q == [cli[p] EXCEPT !.started = TRUE]
  <2>1. /\ q \in Process /\ q.todo = cli[p].todo /\ q.cmd = cli[p].cmd
        /\ q.mount = cli[p].mount /\ q.alone = cli[p].alone
        /\ q.end = cli[p].end /\ q.snap = cli[p].snap
    BY <1>1 DEF Process
  <2>2. Went(p, q)
    BY <1>3
  <2> HIDE DEF q
  <2>3. ~HasMount(cli[p], config, stored, live, vm)
    BY <1>1, <1>3 DEF HasMount, Running
  <2> QED
    BY <1>1, <1>3, <2>1, <2>2, <2>3, MountGoesAlone
<1>4. CASE Ends(p, "error") /\ UNCHANGED <<vm, stored, live>>
  BY <1>1, <1>4, MountEnds
<1> QED
  BY <1>2, <1>3, <1>4 DEF Launch, Launches

(* The steps that only reach into the guest.                                *)
LEMMA AccessMount ==
  ASSUME LifeInv, MountsStay, NEW p \in Proc,
         \/ AwaitReady(p) \/ ApplyGitIdentity(p) \/ PushRendered(p)
         \/ AgentExits(p) \/ Interrupt(p) \/ ProbeTimesOut(p)
  PROVE  MountsStay'
<1> DEFINE s == Head(cli[p].todo)
<1>1. /\ ~Ended(p) /\ cli[p] \in Process /\ boot \in Nat /\ s \in StepsOf(cli[p].cmd)
      /\ config' = config /\ stored' = stored /\ live' = live /\ vm' = vm
  BY AtStep DEF AwaitReady, ApplyGitIdentity, PushRendered, AgentExits, Interrupt,
     ProbeTimesOut, At, guest
<1>2. CASE Ends(p, "error")
  BY <1>1, <1>2, MountEnds
<1>3. ASSUME s \in {"wait", "identity", "push", "agent"},
             NEW q \in Process, q.todo = cli[p].todo, q.cmd = cli[p].cmd,
             q.mount = cli[p].mount, q.alone = cli[p].alone,
             q.end = cli[p].end, q.snap = cli[p].snap, Went(p, q)
      PROVE  MountsStay'
  <2>1. q.cmd = "mount" => s # "agent"
    BY <1>1, <1>3 DEF StepsOf
  <2>2. q.cmd = "mount" /\ HasMount(cli[p], config, stored, live, vm)
          => MountLeaves(q, config, stored, live, vm)
    BY <1>3, <2>1 DEF HasMount, MountLeaves
  <2> QED
    BY <1>1, <1>3, <2>2, MountGoesAlone
<1>4. CASE s \in {"wait", "push", "agent"} /\ Went(p, cli[p])
  BY <1>1, <1>3, <1>4
<1>5. CASE s = "identity" /\ Went(p, [cli[p] EXCEPT !.mine = boot])
  <2> DEFINE q == [cli[p] EXCEPT !.mine = boot]
  <2>1. /\ q \in Process /\ q.todo = cli[p].todo /\ q.cmd = cli[p].cmd
        /\ q.mount = cli[p].mount /\ q.alone = cli[p].alone
        /\ q.end = cli[p].end /\ q.snap = cli[p].snap
    BY <1>1 DEF Process
  <2> HIDE DEF q
  <2>2. s \in {"wait", "identity", "push", "agent"} /\ Went(p, q)
    BY <1>5 DEF q
  <2> QED
    BY <1>3, <2>1, <2>2
<1> QED
  BY <1>2, <1>4, <1>5 DEF AwaitReady, ApplyGitIdentity, PushRendered, AgentExits,
     Interrupt, ProbeTimesOut, At, Next1

LEMMA BeginMount ==
  ASSUME LifeInv, MountsStay, NEW p \in Proc, NEW c \in Command, NEW m \in Mount,
         Begin(p, c, m)
  PROVE  MountsStay'
<1> DEFINE new == [cmd |-> c, todo |-> Plan(c), mount |-> m, snap |-> config,
                   seen |-> "absent", content |-> FALSE, started |-> FALSE,
                   alone |-> \A o \in Proc \ {p} : Ended(o), mine |-> 0,
                   touched |-> FALSE, end |-> "none"]
           old(q) == [cli[q] EXCEPT !.alone = @ /\ Ended(q)]
<1>1. /\ cli[p].todo = <<>>
      /\ cli' = [q \in Proc |-> IF q = p THEN new ELSE old(q)]
      /\ config' = config /\ stored' = stored /\ live' = live /\ vm' = vm
      /\ cli \in [Proc -> Process]
  BY DEF Begin, guest, Ended, LifeInv, TypeOK
<1>2. /\ new.todo = Plan(c) /\ new.cmd = c /\ new.end = "none" /\ new.snap = config
      /\ new.alone => \A o \in Proc \ {p} : cli[o].todo = <<>>
  BY DEF Ended
<1>3. ASSUME NEW q \in Proc
      PROVE  /\ old(q).cmd = cli[q].cmd /\ old(q).todo = cli[q].todo
             /\ old(q).mount = cli[q].mount /\ old(q).snap = cli[q].snap
             /\ old(q).touched = cli[q].touched /\ old(q).end = cli[q].end
             /\ old(q).alone => cli[q].alone /\ cli[q].todo = <<>>
             /\ cli[q].mount \in Mount
  <2>1. cli[q] \in Process
    BY <1>1
  <2>2. /\ old(q).cmd = cli[q].cmd /\ old(q).todo = cli[q].todo
        /\ old(q).mount = cli[q].mount /\ old(q).snap = cli[q].snap
        /\ old(q).touched = cli[q].touched /\ old(q).end = cli[q].end
        /\ cli[q].mount \in Mount
    BY <2>1 DEF Process
  <2>3. old(q).alone = (cli[q].alone /\ Ended(q))
    BY <2>1 DEF Process
  <2> HIDE DEF old
  <2> QED
    BY <2>2, <2>3 DEF Ended
<1> HIDE DEF new, old
<1>4. ASSUME NEW q \in Proc
      PROVE  cli'[q] = IF q = p THEN new ELSE old(q)
  BY <1>1
<1>5. ASSUME NEW x \in Mount, KeepsMount(x)
      PROVE  KeepsMount(x)'
  <2>1. x \in config' /\ (vm' # "absent" => x \in stored') /\ (On(vm') => x \in live')
    BY <1>1, <1>5 DEF KeepsMount
  <2>2. ASSUME NEW q \in Proc, cli'[q].todo # <<>>
        PROVE  x \in cli'[q].snap
    BY <1>2, <1>3, <1>4, <1>5, <2>2 DEF KeepsMount
  <2> QED
    BY <2>1, <2>2 DEF KeepsMount
<1>6. ASSUME NEW o \in Proc, cli'[o].alone
      PROVE  /\ cli'[o].todo # <<>> => \A x \in Proc \ {o} : cli'[x].todo = <<>>
             /\ cli'[o].cmd = "mount" /\ cli'[o].todo # <<>>
                  => HasMount(cli'[o], config', stored', live', vm')
             /\ cli'[o].cmd = "mount" /\ cli'[o].touched /\ cli'[o].end = "done"
                  => KeepsMount(cli[o].mount)'
  <2>1. CASE o = p
    <3>1. cli'[o] = new
      BY <1>4, <2>1
    <3>2. \A x \in Proc \ {o} : cli'[x].todo = <<>>
      BY <1>2, <1>3, <1>4, <1>6, <2>1, <3>1
    <3>3. c = "mount" => Head(Plan(c)) = "save"
      BY MountStepsAre DEF Plan
    <3>4. c = "mount" => HasMount(new, config', stored', live', vm')
      BY <1>2, <3>3 DEF HasMount
    <3> QED
      BY <1>2, <3>1, <3>2, <3>4
  <2>2. CASE o # p
    <3>1. /\ cli'[o].cmd = cli[o].cmd /\ cli'[o].todo = <<>> /\ cli[o].alone
          /\ cli'[o].mount = cli[o].mount /\ cli[o].mount \in Mount
          /\ cli'[o].touched = cli[o].touched /\ cli'[o].end = cli[o].end
      BY <1>3, <1>4, <1>6, <2>2
    <3>2. cli'[o].cmd = "mount" /\ cli'[o].touched /\ cli'[o].end = "done"
            => KeepsMount(cli[o].mount)
      BY <3>1 DEF MountsStay
    <3> QED
      BY <1>5, <3>1, <3>2
  <2> QED
    BY <2>1, <2>2
<1> QED
  BY <1>6 DEF MountsStay

LEMMA GuestMount ==
  ASSUME MountsStay, cli' = cli, config' = config, stored' = stored, live' = live,
         vm' # vm => vm = "booting" /\ vm' \in {"up", "failed"}
  PROVE  MountsStay'
<1>1. (On(vm') => On(vm)) /\ (vm' # "absent" => vm # "absent")
  BY DEF On
<1>2. ASSUME NEW p \in Proc, HasMount(cli[p], config, stored, live, vm)
      PROVE  HasMount(cli[p], config, stored, live, vm')
  BY <1>2 DEF HasMount
<1>3. ASSUME NEW p \in Proc, KeepsMount(cli[p].mount)
      PROVE  KeepsMount(cli[p].mount)'
  BY <1>1, <1>3 DEF KeepsMount
<1> QED
  BY <1>2, <1>3 DEF MountsStay

LEMMA MountStep == LifeInv /\ MountsStay /\ [Next]_vars => MountsStay'
<1> SUFFICES ASSUME LifeInv, MountsStay, [Next]_vars
             PROVE  MountsStay'
  OBVIOUS
<1>1. CASE EditSecrets \/ GuestStep \/ BootFails \/ UNCHANGED vars
  BY <1>1, GuestMount DEF EditSecrets, GuestStep, Provision, LockSettings,
     BootCompletes, BootFails, vars, guest
<1>2. ASSUME NEW p \in Proc, NEW c \in Command, NEW m \in Mount, Begin(p, c, m)
      PROVE  MountsStay'
  BY <1>2, BeginMount
<1>3. ASSUME NEW p \in Proc,
             \/ CliStep(p) \/ QueryStatusFails(p) \/ ProbeTimesOut(p)
             \/ AgentExits(p) \/ Interrupt(p)
      PROVE  MountsStay'
  BY <1>3, SkipMount, SaveMountMount, QueryMount, ResolveRenderedMount,
     DeleteMount, StopMount, ResolveConfigIntoMount, LaunchMount, AccessMount
     DEF CliStep
<1> QED
  BY <1>1, <1>2, <1>3 DEF Next

(* A `mount` that restarted the VM with no other command under way, and     *)
(* returned without an error, has the mount in the running VM, whatever     *)
(* boots it after that: the mount is in the config, in what every command   *)
(* loaded of it, and in the stored instance, for good.                      *)
THEOREM RestartsApply == Spec => []RestartApplies
<1>1. Init => MountInv
  <2> SUFFICES ASSUME Init PROVE MountInv
    OBVIOUS
  <2>1. \A p \in Proc : cli[p].cmd = "stop" /\ cli[p].todo = <<>>
    BY DEF Init
  <2> QED
    BY <2>1, InvInit DEF MountInv, MountsStay
<1>2. MountInv /\ [Next]_vars => MountInv'
  BY InvStep, MountStep DEF MountInv
<1>3. MountInv => RestartApplies
  <2>1. Running => On(vm)
    BY DEF Running, On
  <2> QED
    BY <2>1 DEF MountInv, MountsStay, KeepsMount, RestartApplies
<1> QED
  BY <1>1, <1>2, <1>3, PTL DEF Spec
=============================================================================
