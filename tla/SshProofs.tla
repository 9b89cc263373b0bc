------------------------------- MODULE SshProofs -------------------------------
(***************************************************************************)
(* Theorems about the SSH side of the host, for any number of processes,   *)
(* commands, interruptions, signals and restarts of the VM: about the      *)
(* agent's key (AgentKey), and about the commands that use the VM's sshd   *)
(* (HostSsh, here Ssh, whose processes are called sessions).               *)
(***************************************************************************)
EXTENDS AgentKey, SshCommands, TLAPS

(* Setting some fields of a process keeps the type. *)
LEMMA UpdateType ==
  ASSUME TypeOK, NEW p \in Proc, NEW pc \in Pc, NEW hasPriv \in BOOLEAN,
         NEW lock \in 0 .. nextDir, NEW key \in 0 .. nextKey
  PROVE  /\ [cli EXCEPT ![p].pc = pc] \in [Proc -> Process]
         /\ [cli EXCEPT ![p] = [@ EXCEPT !.lock = lock, !.pc = pc]] \in [Proc -> Process]
         /\ [cli EXCEPT ![p] = [@ EXCEPT !.hasPriv = hasPriv, !.pc = pc]]
              \in [Proc -> Process]
         /\ [cli EXCEPT ![p] = [@ EXCEPT !.key = key, !.pc = pc]] \in [Proc -> Process]
<1>1. cli \in [Proc -> Process]
  BY DEF TypeOK
<1>2. [cli EXCEPT ![p].pc = pc] \in [Proc -> Process]
  BY <1>1 DEF Process
<1>3. [cli EXCEPT ![p].lock = lock] \in [Proc -> Process]
  BY <1>1 DEF Process
<1>4. [cli EXCEPT ![p].hasPriv = hasPriv] \in [Proc -> Process]
  BY <1>1 DEF Process
<1>5. [cli EXCEPT ![p].key = key] \in [Proc -> Process]
  BY <1>1 DEF Process
<1>6. [cli EXCEPT ![p] = [@ EXCEPT !.lock = lock, !.pc = pc]] \in [Proc -> Process]
  BY <1>3 DEF Process
<1>7. [cli EXCEPT ![p] = [@ EXCEPT !.hasPriv = hasPriv, !.pc = pc]] \in [Proc -> Process]
  BY <1>4 DEF Process
<1>8. [cli EXCEPT ![p] = [@ EXCEPT !.key = key, !.pc = pc]] \in [Proc -> Process]
  BY <1>5 DEF Process
<1> QED
  BY <1>2, <1>6, <1>7, <1>8

LEMMA IdleType ==
  TypeOK => Idle \in Process /\ [Idle EXCEPT !.pc = "mkdir"] \in Process
<1> SUFFICES ASSUME TypeOK
             PROVE  Idle \in Process /\ [Idle EXCEPT !.pc = "mkdir"] \in Process
  OBVIOUS
<1>1. 0 \in 0 .. nextDir /\ 0 \in 0 .. nextKey
  BY DEF TypeOK
<1>2. Idle \in Process
  BY <1>1 DEF Idle, Process, Pc
<1> QED
  BY <1>2 DEF Process, Pc

LEMMA TypeInit == Init => TypeOK
<1> SUFFICES ASSUME Init PROVE TypeOK
  OBVIOUS
<1>1. cli \in [Proc -> Process]
  BY DEF Init, Idle, Process, Pc
<1> QED
  BY <1>1, BoundsAssumption DEF Init, TypeOK, Torn

LEMMA TypeStep == TypeOK /\ [Next]_vars => TypeOK'
<1> SUFFICES ASSUME TypeOK, [Next]_vars PROVE TypeOK'
  OBVIOUS
<1> USE BoundsAssumption DEF files, bounds
<1>1. CASE Rotate
  BY <1>1 DEF Rotate, TypeOK, Process, Orphan, Torn
<1>2. ASSUME NEW p \in Proc, Begin(p) PROVE TypeOK'
  <2>1. cli' \in [Proc -> Process]
    BY <1>2, IdleType DEF Begin, TypeOK
  <2> QED
    BY <1>2, <2>1 DEF Begin, TypeOK, Process, Orphan, Torn
<1>3. ASSUME NEW p \in Proc, Interrupt(p) PROVE TypeOK'
  <2>1. cli' \in [Proc -> Process]
    BY <1>3, IdleType DEF Interrupt, TypeOK
  <2>2. orphans' \subseteq Orphan
    BY <1>3 DEF Interrupt, TypeOK, Process, Orphan
  <2>3. UNCHANGED <<dir, priv, nextDir, nextKey, guestKey, requests, rotations>>
    BY <1>3 DEF Interrupt
  <2>4. pub' \in Torn .. nextKey /\ crashes' \in 0 .. MaxCrashes
    BY <1>3 DEF Interrupt, TypeOK, Torn
  <2> QED
    BY <2>1, <2>2, <2>3, <2>4 DEF TypeOK, Process, Orphan
<1>4. ASSUME NEW p \in Proc, Step(p) PROVE TypeOK'
  <2>0. /\ dir \in 0 .. nextDir /\ pub \in Torn .. nextKey /\ cli[p].key \in 0 .. nextKey
        /\ Torn = -1 /\ nextKey \in Nat
    BY DEF TypeOK, Process, Torn
  <2>1. CASE MakeDir(p)
    <3>1. cli' \in [Proc -> Process]
      BY <2>1, <2>0, UpdateType DEF MakeDir, Goto, Pc
    <3>2. Process \subseteq Process'
      BY <2>1 DEF MakeDir, Process, TypeOK
    <3>3. cli' \in [Proc -> Process']
      BY <3>1, <3>2
    <3> QED
      BY <2>1, <3>3 DEF MakeDir, TypeOK, Orphan
  <2>2. CASE OpenLock(p)
    <3>1. cli' \in [Proc -> Process]
      BY <2>2, <2>0, UpdateType DEF OpenLock, Pc
    <3> QED
      BY <2>2, <3>1 DEF OpenLock, TypeOK, Process, Orphan
  <2>3. CASE Flock(p)
    <3>1. cli' \in [Proc -> Process]
      BY <2>3, <2>0, UpdateType DEF Flock, Goto, Pc
    <3> QED
      BY <2>3, <3>1 DEF Flock, TypeOK, Process, Orphan
  <2>4. CASE LookForPrivate(p)
    <3>1. ASSUME NEW hasPriv \in BOOLEAN
          PROVE  [cli EXCEPT ![p] = [@ EXCEPT !.hasPriv = hasPriv, !.pc = "pub"]] \in [Proc -> Process]
      <4>1. 0 \in 0 .. nextDir /\ 0 \in 0 .. nextKey /\ "pub" \in Pc
        BY DEF TypeOK, Pc
      <4> QED
        BY <4>1, UpdateType
    <3>2. (priv # 0) \in BOOLEAN
      OBVIOUS
    <3>3. cli' \in [Proc -> Process]
      BY <2>4, <3>1, <3>2 DEF LookForPrivate
    <3>4. UNCHANGED <<files, guestKey, orphans, bounds>>
      BY <2>4 DEF LookForPrivate
    <3> QED
      BY <3>3, <3>4 DEF TypeOK, Process, Orphan, files, bounds
  <2>5. CASE LookForPublic(p)
    <3>1. AfterLook(cli[p].hasPriv, pub # 0) \in Pc
      BY DEF AfterLook, Pc
    <3>2. cli' \in [Proc -> Process]
      BY <2>5, <2>0, <3>1, UpdateType DEF LookForPublic, Goto
    <3> QED
      BY <2>5, <3>2 DEF LookForPublic, TypeOK, Process, Orphan
  <2>6. CASE KeygenPrivate(p)
    <3>1. /\ nextKey' = nextKey + 1 /\ nextDir' = nextDir /\ nextKey \in Nat
          /\ cli' = [cli EXCEPT ![p] = [@ EXCEPT
                      !.key = nextKey', !.pc = "keygenPub"]]
      BY <2>6 DEF KeygenPrivate, TypeOK
    <3>2. cli \in [Proc -> Process']
      <4>1. Process \subseteq Process'
        BY <3>1 DEF Process
      <4> QED
        BY <4>1 DEF TypeOK
    <3>3. [cli EXCEPT ![p].key = nextKey'] \in [Proc -> Process']
      BY <3>1, <3>2 DEF Process
    <3>4. cli' \in [Proc -> Process']
      <4>1. "keygenPub" \in Pc
        BY DEF Pc
      <4> QED
        BY <3>1, <3>3, <4>1 DEF Process
    <3>5. /\ priv' \in 0 .. nextKey' /\ pub' \in Torn .. nextKey'
          /\ guestKey' \in 0 .. nextKey' /\ orphans' \subseteq Orphan'
      <4>1. \A k \in 0 .. nextKey : k \in 0 .. (nextKey + 1)
        BY <3>1
      <4>2. /\ pub \in Torn .. (nextKey + 1) /\ guestKey \in 0 .. (nextKey + 1)
            /\ orphans \subseteq [pc : {"keygen", "keygenPub"}, key : 0 .. (nextKey + 1)]
        BY <2>0, <4>1 DEF TypeOK, Orphan
      <4> QED
        BY <2>6, <3>1, <4>2 DEF KeygenPrivate, Orphan
    <3>6. dir' \in 0 .. nextDir' /\ nextDir' \in Nat /\ nextKey' \in Nat
      BY <2>6 DEF KeygenPrivate, TypeOK
    <3> QED
      BY <2>6, <3>4, <3>5, <3>6 DEF KeygenPrivate, TypeOK
  <2>7. CASE KeygenPublic(p)
    <3>1. cli' \in [Proc -> Process]
      BY <2>7, <2>0, UpdateType DEF KeygenPublic, Goto, Pc
    <3> QED
      BY <2>7, <2>0, <3>1 DEF KeygenPublic, TypeOK, Process, Orphan
  <2>8. CASE ReadPublic(p)
    <3>0. pub \in 0 .. nextKey
      BY <2>0, <2>8 DEF ReadPublic
    <3>1. PICK next \in {"push", "idle"} :
            cli' = [cli EXCEPT ![p] = [@ EXCEPT !.key = pub, !.pc = next]]
      BY <2>8 DEF ReadPublic
    <3>2. cli' \in [Proc -> Process]
      BY <2>0, <3>0, <3>1, UpdateType DEF Pc
    <3> QED
      BY <2>8, <3>2 DEF ReadPublic, TypeOK, Process, Orphan
  <2>9. CASE EnsureFails(p)
    <3>1. cli' \in [Proc -> Process]
      BY <2>9, <2>0, UpdateType DEF EnsureFails, Goto, Pc
    <3> QED
      BY <2>9, <3>1 DEF EnsureFails, TypeOK, Process, Orphan
  <2>10. CASE PushAuthorizedKey(p)
    <3>1. cli' \in [Proc -> Process]
      BY <2>10, <2>0, UpdateType DEF PushAuthorizedKey, Goto, Pc
    <3> QED
      BY <2>10, <2>0, <3>1 DEF PushAuthorizedKey, TypeOK, Process, Orphan
  <2> QED
    BY <1>4, <2>1, <2>2, <2>3, <2>4, <2>5, <2>6, <2>7, <2>8, <2>9, <2>10
       DEF Step
<1>5. CASE UNCHANGED vars
  BY <1>5 DEF vars, TypeOK, Process, Orphan
<1>6. ASSUME NEW o \in orphans, Keygen(o) PROVE TypeOK'
  <2>1. CASE OrphanPrivate(o)
    BY <2>1 DEF OrphanPrivate, TypeOK, Process, Orphan, Torn
  <2>2. CASE OrphanPublic(o)
    BY <2>2 DEF OrphanPublic, TypeOK, Process, Orphan, Torn
  <2>3. CASE OrphanFails(o)
    BY <2>3 DEF OrphanFails, TypeOK, Process, Orphan
  <2> QED
    BY <1>6, <2>1, <2>2, <2>3 DEF Keygen
<1> QED
  BY <1>1, <1>2, <1>3, <1>4, <1>5, <1>6 DEF Next

-----------------------------------------------------------------------------
(* The bounded events only ever add up, so what held after the step's       *)
(* bound held before it.                                                    *)
LEMMA StillCalm ==
  ASSUME TypeOK, [Next]_vars
  PROVE  /\ rotations' = 0 => rotations = 0 /\ ~Rotate
         /\ Calm' => Calm /\ \A p \in Proc : ~Interrupt(p)
<1> USE DEF TypeOK, bounds
<1>1. rotations \in Nat /\ crashes \in Nat
  OBVIOUS
<1>2. CASE Rotate
  BY <1>1, <1>2 DEF Rotate, Calm
<1>3. CASE ~Rotate
  <2>1. rotations' = rotations /\ (crashes' = 0 => crashes = 0)
    <3>1. ASSUME NEW p \in Proc, Begin(p) \/ Interrupt(p)
          PROVE  rotations' = rotations /\ (crashes' = 0 => crashes = 0)
      BY <1>1, <3>1 DEF Begin, Interrupt
    <3>2. ASSUME NEW p \in Proc, Step(p) PROVE UNCHANGED bounds
      BY <3>2 DEF Step, MakeDir, OpenLock, Flock, LookForPrivate,
         LookForPublic, KeygenPrivate, KeygenPublic, ReadPublic, EnsureFails,
         PushAuthorizedKey
    <3>3. ASSUME NEW o \in orphans, Keygen(o) PROVE UNCHANGED bounds
      BY <3>3 DEF Keygen, OrphanPrivate, OrphanPublic, OrphanFails
    <3> QED
      BY <1>3, <3>1, <3>2, <3>3 DEF Next, vars
  <2>2. ASSUME NEW p \in Proc, Interrupt(p) PROVE crashes' # 0
    BY <1>1, <2>2 DEF Interrupt
  <2> QED
    BY <1>3, <2>1, <2>2 DEF Calm
<1> QED
  BY <1>2, <1>3

(* Processes stay in the one directory, and one of them in its critical    *)
(* section: they all contend for the lock of that directory.               *)
LEMMA LockStep ==
  ASSUME TypeOK, OneDirectory, MutualExclusion, [Next]_vars, rotations' = 0
  PROVE  OneDirectory' /\ MutualExclusion'
<1> USE DEF TypeOK, Process, OneDirectory, MutualExclusion, InCritical, Critical, files,
            bounds, At, Goto
<1>1. ASSUME NEW p \in Proc, Begin(p) \/ Interrupt(p)
      PROVE  OneDirectory' /\ MutualExclusion'
  BY <1>1 DEF Begin, Interrupt, Idle
<1>2. ASSUME NEW p \in Proc, Step(p)
      PROVE  OneDirectory' /\ MutualExclusion'
  <2>1. CASE MakeDir(p)
    BY <2>1 DEF MakeDir
  <2>2. CASE OpenLock(p)
    BY <2>2 DEF OpenLock
  <2>3. CASE Flock(p)
    BY <2>3 DEF Flock, LockFree
  <2>4. CASE LookForPrivate(p)
    BY <2>4 DEF LookForPrivate
  <2>5. CASE LookForPublic(p)
    BY <2>5 DEF LookForPublic, AfterLook
  <2>6. CASE KeygenPrivate(p)
    BY <2>6 DEF KeygenPrivate
  <2>7. CASE KeygenPublic(p)
    BY <2>7 DEF KeygenPublic
  <2>8. CASE ReadPublic(p)
    BY <2>8 DEF ReadPublic
  <2>9. CASE EnsureFails(p)
    BY <2>9 DEF EnsureFails
  <2>10. CASE PushAuthorizedKey(p)
    BY <2>10 DEF PushAuthorizedKey
  <2> QED
    BY <1>2, <2>1, <2>2, <2>3, <2>4, <2>5, <2>6, <2>7, <2>8, <2>9, <2>10
       DEF Step
<1>3. CASE UNCHANGED vars
  BY <1>3 DEF vars
<1>4. ASSUME NEW o \in orphans, Keygen(o)
      PROVE  OneDirectory' /\ MutualExclusion'
  BY <1>4 DEF Keygen, OrphanPrivate, OrphanPublic, OrphanFails
<1> QED
  BY <1>1, <1>2, <1>3, <1>4, StillCalm DEF Next

(* No second keypair: ssh-keygen refuses to overwrite the private key, and  *)
(* what is installed was read from the public file.                         *)
LEMMA KeypairStep ==
  ASSUME TypeOK, OneKeypair, [Next]_vars, rotations' = 0
  PROVE  OneKeypair'
<1> USE DEF TypeOK, Process, OneKeypair, Torn, files, bounds, At, Goto
<1>1. ASSUME NEW p \in Proc, Begin(p) \/ Interrupt(p) PROVE OneKeypair'
  <2>1. CASE Begin(p)
    BY <2>1 DEF Begin, Idle
  <2>2. CASE Interrupt(p)
    BY <2>2 DEF Interrupt, Idle, Orphan, Torn
  <2> QED
    BY <1>1, <2>1, <2>2
<1>2. ASSUME NEW p \in Proc, Step(p) PROVE OneKeypair'
  <2>1. CASE MakeDir(p)
    BY <2>1 DEF MakeDir
  <2>2. CASE OpenLock(p)
    BY <2>2 DEF OpenLock
  <2>3. CASE Flock(p)
    BY <2>3 DEF Flock
  <2>4. CASE LookForPrivate(p)
    BY <2>4 DEF LookForPrivate
  <2>5. CASE LookForPublic(p)
    BY <2>5 DEF LookForPublic, AfterLook
  <2>6. CASE KeygenPrivate(p)
    BY <2>6 DEF KeygenPrivate
  <2>7. CASE KeygenPublic(p)
    BY <2>7 DEF KeygenPublic
  <2>8. CASE ReadPublic(p)
    BY <2>8 DEF ReadPublic
  <2>9. CASE EnsureFails(p)
    BY <2>9 DEF EnsureFails
  <2>10. CASE PushAuthorizedKey(p)
    BY <2>10 DEF PushAuthorizedKey
  <2> QED
    BY <1>2, <2>1, <2>2, <2>3, <2>4, <2>5, <2>6, <2>7, <2>8, <2>9, <2>10
       DEF Step
<1>3. CASE UNCHANGED vars
  BY <1>3 DEF vars
<1>4. ASSUME NEW o \in orphans, Keygen(o) PROVE OneKeypair'
  <2>1. CASE OrphanPrivate(o)
    BY <2>1 DEF OrphanPrivate, Torn
  <2>2. CASE OrphanPublic(o)
    BY <2>2 DEF OrphanPublic, Orphan, Torn
  <2>3. CASE OrphanFails(o)
    BY <2>3 DEF OrphanFails
  <2> QED
    BY <1>4, <2>1, <2>2, <2>3 DEF Keygen
<1> QED
  BY <1>1, <1>2, <1>3, <1>4, StillCalm DEF Next

(* Nobody looks at the files while another generates them, so nobody sees   *)
(* half a keypair or finds the file it is about to create.                  *)
LEMMA LooksStep ==
  ASSUME TypeOK, OneDirectory, MutualExclusion, OneKeypair,
         SeenIsSo, WholePair, NobodyFailed, NobodyLeft, [Next]_vars, Calm'
  PROVE  SeenIsSo' /\ WholePair' /\ NobodyFailed' /\ NobodyLeft'
<1> USE DEF TypeOK, Process, OneDirectory, MutualExclusion, OneKeypair, SeenIsSo, WholePair,
            NobodyFailed, NobodyLeft, Torn, InCritical, Critical, files, bounds, At, Goto
<1>1. ASSUME NEW p \in Proc, Begin(p)
      PROVE  SeenIsSo' /\ WholePair' /\ NobodyFailed' /\ NobodyLeft'
  BY <1>1 DEF Begin, Idle, Resting
<1>2. ASSUME NEW p \in Proc, Step(p)
      PROVE  SeenIsSo' /\ WholePair' /\ NobodyFailed' /\ NobodyLeft'
  <2>1. CASE MakeDir(p)
    BY <2>1 DEF MakeDir
  <2>2. CASE OpenLock(p)
    BY <2>2 DEF OpenLock
  <2>3. CASE Flock(p)
    BY <2>3 DEF Flock
  <2>4. CASE LookForPrivate(p)
    BY <2>4 DEF LookForPrivate
  <2>5. CASE LookForPublic(p)
    BY <2>5 DEF LookForPublic, AfterLook
  <2>6. CASE KeygenPrivate(p)
    BY <2>6 DEF KeygenPrivate
  <2>7. CASE KeygenPublic(p)
    BY <2>7 DEF KeygenPublic
  <2>8. CASE ReadPublic(p)
    BY <2>8 DEF ReadPublic
  <2>9. CASE EnsureFails(p)
    BY <2>9 DEF EnsureFails
  <2>10. CASE PushAuthorizedKey(p)
    BY <2>10 DEF PushAuthorizedKey
  <2> QED
    BY <1>2, <2>1, <2>2, <2>3, <2>4, <2>5, <2>6, <2>7, <2>8, <2>9, <2>10
       DEF Step
<1>3. CASE UNCHANGED vars
  BY <1>3 DEF vars
<1> QED
  BY <1>1, <1>2, <1>3, StillCalm DEF Next, Calm

LEMMA InvInit == Init => KeyInv
<1> SUFFICES ASSUME Init PROVE KeyInv
  OBVIOUS
<1>1. TypeOK
  BY TypeInit
<1>2. OneDirectory /\ MutualExclusion /\ OneKeypair
  BY DEF Init, Idle, OneDirectory, MutualExclusion, InCritical, Critical,
     OneKeypair, Torn, At
<1>3. SeenIsSo /\ WholePair /\ NobodyFailed /\ NobodyLeft
  BY DEF Init, Idle, SeenIsSo, WholePair, NobodyFailed, NobodyLeft, Torn, At
<1> QED
  BY <1>1, <1>2, <1>3 DEF KeyInv

LEMMA InvStep == KeyInv /\ [Next]_vars => KeyInv'
<1> SUFFICES ASSUME KeyInv, [Next]_vars PROVE KeyInv'
  OBVIOUS
<1>1. TypeOK /\ TypeOK'
  BY TypeStep DEF KeyInv
<1>2. ASSUME rotations' = 0
      PROVE  OneDirectory' /\ MutualExclusion' /\ OneKeypair'
  BY <1>1, <1>2, StillCalm, LockStep, KeypairStep DEF KeyInv
<1>3. ASSUME Calm'
      PROVE  SeenIsSo' /\ WholePair' /\ NobodyFailed' /\ NobodyLeft'
  BY <1>1, <1>3, StillCalm, LooksStep DEF KeyInv, Calm
<1> QED
  BY <1>1, <1>2, <1>3 DEF KeyInv

LEMMA Invariance == Spec => []KeyInv
  BY InvInit, InvStep, PTL DEF Spec

-----------------------------------------------------------------------------
(* Every file, key and process stays what TypeOK says; in particular the    *)
(* keys in use are keys that were generated.                                *)
THEOREM TypeCorrect == Spec => []TypeOK
<1>1. KeyInv => TypeOK
  BY DEF KeyInv
<1> QED
  BY <1>1, Invariance, PTL

(* However many code-vm processes race on a first run, none fails and none  *)
(* is told that half a keypair is there, unless something was interrupted   *)
(* or the directory deleted (agentssh.Ensure, lock_unix.go).                *)
THEOREM RaceIsHarmless == Spec => []NoFalseAlarm
<1>1. KeyInv => NoFalseAlarm
  BY DEF KeyInv, NoFalseAlarm
<1> QED
  BY <1>1, Invariance, PTL

(* Until the user deletes the directory, whoever is interrupted, the guest  *)
(* has no key or the one keypair of the host (agentssh.Ensure,              *)
(* session.PushAuthorizedKey).                                              *)
THEOREM TrustIsStable == Spec => []GuestTrustsHostKey
<1>1. KeyInv => GuestTrustsHostKey
  BY DEF KeyInv, GuestTrustsHostKey, OneKeypair
<1> QED
  BY <1>1, Invariance, PTL

-----------------------------------------------------------------------------
(* The refinement.  Before the first rotation, a step that leaves the two   *)
(* halves and the guest's key alone is invisible to KeyTrust.               *)
LEMMA TrustStep ==
  ASSUME KeyInv, [Next]_vars, rotations' = 0
  PROVE  Trust!Generate \/ Trust!Deliver \/ UNCHANGED Trust!trust
<1>1. /\ rotations = 0 /\ OneKeypair /\ TypeOK
      /\ priv \in Nat /\ pub \in Int /\ Torn = -1 /\ nextKey \in Nat
  BY StillCalm DEF KeyInv, TypeOK, Torn
<1>2. ASSUME UNCHANGED <<priv, pub, guestKey>> PROVE UNCHANGED Trust!trust
  BY <1>1, <1>2 DEF Trust!trust
<1>3. CASE Rotate
  BY <1>1, <1>3, StillCalm
<1>4. ASSUME NEW p \in Proc, Begin(p) \/ Interrupt(p)
      PROVE  UNCHANGED Trust!trust
  <2>1. CASE UNCHANGED <<priv, pub, guestKey>>
    BY <1>2, <2>1
  <2>2. CASE At(p, "keygenPub") /\ pub' = Torn /\ UNCHANGED <<priv, guestKey, rotations>>
    <3>1. priv # 0 /\ pub = 0
      BY <1>1, <2>2 DEF OneKeypair
    <3> QED
      BY <1>1, <2>2, <3>1 DEF Trust!trust
  <2> QED
    BY <1>4, <2>1, <2>2 DEF Begin, Interrupt, files
<1>5. ASSUME NEW p \in Proc, Step(p)
      PROVE  Trust!Generate \/ Trust!Deliver \/ UNCHANGED Trust!trust
  <2>1. CASE KeygenPrivate(p)
    BY <1>1, <2>1 DEF KeygenPrivate, OneKeypair, Trust!trust, bounds
  <2>2. CASE KeygenPublic(p)
    <3>1. /\ cli[p].key = priv /\ priv # 0 /\ pub' = priv
          /\ UNCHANGED <<priv, guestKey, rotations>>
      BY <1>1, <2>2 DEF KeygenPublic, OneKeypair, At, bounds
    <3>2. CASE pub = priv
      BY <3>1, <3>2 DEF Trust!trust
    <3>3. CASE pub # priv
      BY <1>1, <3>1, <3>3 DEF Trust!Generate
    <3> QED
      BY <3>2, <3>3
  <2>3. CASE PushAuthorizedKey(p)
    <3>1. /\ guestKey' = pub /\ pub # 0 /\ pub = priv
          /\ UNCHANGED <<priv, pub, rotations>>
      BY <1>1, <2>3 DEF PushAuthorizedKey, OneKeypair, At, files, bounds
    <3> QED
      BY <1>1, <3>1 DEF Trust!Deliver
  <2>4. CASE ~KeygenPrivate(p) /\ ~KeygenPublic(p) /\ ~PushAuthorizedKey(p)
    <3>1. UNCHANGED <<priv, pub, guestKey>>
      BY <1>5, <2>4 DEF Step, MakeDir, OpenLock, Flock, LookForPrivate,
         LookForPublic, ReadPublic, EnsureFails, files
    <3> QED
      BY <3>1, <1>2
  <2> QED
    BY <2>1, <2>2, <2>3, <2>4
<1>6. CASE UNCHANGED vars
  BY <1>2, <1>6 DEF vars, files
<1>7. ASSUME NEW o \in orphans, Keygen(o)
      PROVE  Trust!Generate \/ UNCHANGED Trust!trust
  <2>1. CASE OrphanPrivate(o)
    <3>1. /\ priv = 0 /\ pub # priv' /\ priv' # 0 /\ UNCHANGED <<pub, guestKey, rotations>>
          /\ pub \in {0, Torn}
      BY <1>1, <2>1 DEF OrphanPrivate, OneKeypair, bounds
    <3> QED
      BY <1>1, <3>1 DEF Trust!trust
  <2>2. CASE OrphanPublic(o)
    <3>1. /\ pub' = priv /\ priv # 0 /\ pub = 0 /\ UNCHANGED <<priv, guestKey, rotations>>
      BY <1>1, <2>2 DEF OrphanPublic, OneKeypair, bounds
    <3> QED
      BY <1>1, <3>1 DEF Trust!Generate
  <2>3. CASE OrphanFails(o)
    BY <1>2, <2>3 DEF OrphanFails, files
  <2> QED
    BY <1>7, <2>1, <2>2, <2>3 DEF Keygen
<1> QED
  BY <1>2, <1>3, <1>4, <1>5, <1>6, <1>7 DEF Next

(* The processes of AgentKey implement KeyTrust: until the user rotates,    *)
(* the guest sees one keypair generated once and delivered, however many    *)
(* commands race, die half way and are run again (agentssh.Ensure,          *)
(* session.PushAuthorizedKey).                                              *)
THEOREM RefinesTrust == Spec => ImplementsTrust
<1>1. Init => Trust!Init
  BY DEF Init, Trust!Init
<1>2. KeyInv /\ [Next]_vars => [Trust!Next]_Trust!trust
  <2> SUFFICES ASSUME KeyInv, [Next]_vars PROVE [Trust!Next]_Trust!trust
    OBVIOUS
  <2>1. CASE rotations' = 0
    BY <2>1, TrustStep DEF Trust!Next
  <2>2. CASE rotations' # 0
    <3>1. Trust!Rotate
      BY <2>2 DEF Trust!Rotate
    <3> QED
      BY <3>1 DEF Trust!Next
  <2> QED
    BY <2>1, <2>2
<1> QED
  BY <1>1, <1>2, Invariance, PTL DEF Spec, ImplementsTrust, Trust!Spec

-----------------------------------------------------------------------------
(* HostSsh *)

(* The records the actions build are processes.                            *)
LEMMA ProcessTypes ==
  /\ Ssh!Idle \in Ssh!Process
  /\ \A r \in Ssh!Process : Ssh!Leaving(r) \in Ssh!Process
<1>1. Ssh!Idle \in Ssh!Process
  BY DEF Ssh!Idle, Ssh!Process, Ssh!SomePort
<1>2. ASSUME NEW r \in Ssh!Process PROVE Ssh!Leaving(r) \in Ssh!Process
  <2>1. [r EXCEPT !.ssh = "leaving"] \in Ssh!Process
    BY DEF Ssh!Process
  <2> QED
    BY <2>1 DEF Ssh!Leaving
<1> QED
  BY <1>1, <1>2

LEMMA LeavingKeeps ==
  ASSUME NEW r \in Ssh!Process
  PROVE  /\ \A f \in {"pc", "cmd", "want", "heard", "live", "shown", "running"} :
              Ssh!Leaving(r)[f] = r[f]
         /\ Ssh!Leaving(r).ssh = IF r.ssh \in {"opening", "forwarding"}
                             THEN "leaving" ELSE r.ssh
  BY DEF Ssh!Leaving, Ssh!Process

LEMMA HostPorts ==
  ASSUME NEW args \in Requests, NEW i \in DOMAIN args
  PROVE  Ssh!HostPort(args[i]) \in Nat
<1>1. args \in Seq(Seq(Nat) \ {<<>>})
  BY RequestAssumption
<1>2. args[i] \in Seq(Nat) /\ args[i] # <<>>
  BY <1>1
<1> QED
  BY <1>2 DEF Ssh!HostPort

LEMMA SshInit == Ssh!Init => Ssh!SshInv
<1> SUFFICES ASSUME Ssh!Init PROVE Ssh!SshInv
  OBVIOUS
<1>1. Ssh!TypeOK
  BY ProcessTypes DEF Ssh!Init, Ssh!TypeOK, Ssh!SomePort
<1>2. Ssh!WaitsForSsh
  BY DEF Ssh!Init, Ssh!WaitsForSsh, Ssh!Alive, Ssh!Idle
<1>3. Ssh!ReadsAreHeard
  BY DEF Ssh!Init, Ssh!ReadsAreHeard, Ssh!Busy, Ssh!At, Ssh!Idle
<1> QED
  BY <1>1, <1>2, <1>3 DEF Ssh!SshInv

-----------------------------------------------------------------------------
(* A step that replaces the record of one process p by r.                  *)
Replaces(p, r) == session' = [session EXCEPT ![p] = r]

(* What r must be for the invariant to hold of it.                         *)
Waits(r) ==
  r.ssh \in {"opening", "forwarding", "leaving"} => r.pc \in {"select", "relayed"}
Reads(r) ==
  LET heard == r.heard \union {Ssh!Unknown}
  IN  /\ r.pc \notin {"idle", "stopped", "failed", "printed"} /\ r.cmd = "target"
           => sshd \in heard
      /\ r.pc \in {"key", "push", "print"} => r.cmd = "target"
      /\ r.pc = "key" /\ r.running => file \in heard
      /\ r.pc = "push" => r.running
      /\ r.pc \in {"push", "print"} /\ r.running => r.live \in heard
      /\ r.pc = "printed" => r.shown \in heard

LEMMA Parts ==
  ASSUME Ssh!TypeOK
  PROVE  /\ Ssh!ReadsAreHeard <=> /\ sshd # Ssh!Unknown => file = sshd
                              /\ \A p \in Command : Reads(session[p])
         /\ Ssh!WaitsForSsh <=> /\ \A p \in Command : Waits(session[p])
                            /\ \A t \in taken : Ssh!Alive(t.by) /\ t.port \in session[t.by].want
<1>1. ASSUME NEW p \in Command
      PROVE  Waits(session[p]) <=> (Ssh!Alive(p) => session[p].pc \in {"select", "relayed"})
  BY DEF Waits, Ssh!Alive
<1>2. ASSUME NEW p \in Command
      PROVE  Reads(session[p]) <=>
               LET heard == session[p].heard \union {Ssh!Unknown}
               IN  /\ Ssh!Busy(p) /\ session[p].cmd = "target" => sshd \in heard
                   /\ session[p].pc \in {"key", "push", "print"} => session[p].cmd = "target"
                   /\ Ssh!At(p, "key") /\ session[p].running => file \in heard
                   /\ Ssh!At(p, "push") => session[p].running
                   /\ (Ssh!At(p, "push") \/ Ssh!At(p, "print")) /\ session[p].running
                        => session[p].live \in heard
                   /\ Ssh!At(p, "printed") => session[p].shown \in heard
  BY DEF Reads, Ssh!Busy, Ssh!At
<1> QED
  BY <1>1, <1>2 DEF Ssh!ReadsAreHeard, Ssh!WaitsForSsh

(* A step of one process that leaves VM and listeners alone.               *)
LEMMA OneProcess ==
  ASSUME Ssh!SshInv, NEW p \in Command, NEW r \in Ssh!Process, Replaces(p, r),
         UNCHANGED <<pin, sshd, file, taken>>,
         commands' \in Nat, signals' \in Nat, changes' \in Nat,
         Waits(r), Reads(r),
         r.want = session[p].want \/ ~Ssh!Alive(p),
         Ssh!Alive(p) => r.ssh \in {"opening", "forwarding", "leaving"}
  PROVE  Ssh!SshInv'
<1>1. Ssh!TypeOK'
  BY DEF Ssh!SshInv, Ssh!TypeOK, Replaces
<1>2. /\ session' \in [Command -> Ssh!Process] /\ session'[p] = r
      /\ \A q \in Command \ {p} : session'[q] = session[q]
  BY DEF Ssh!SshInv, Ssh!TypeOK, Replaces
<1>3. Ssh!WaitsForSsh'
  <2>1. \A q \in Command : Waits(session'[q])
    BY <1>2, Parts DEF Ssh!SshInv
  <2>2. ASSUME NEW t \in taken PROVE Ssh!Alive(t.by)' /\ t.port \in session'[t.by].want
    <3>1. t.by \in Command /\ Ssh!Alive(t.by) /\ t.port \in session[t.by].want
      BY DEF Ssh!SshInv, Ssh!TypeOK, Ssh!WaitsForSsh
    <3> QED
      BY <1>2, <3>1 DEF Ssh!Alive
  <2>3. \A q \in Command : Ssh!Alive(q)' => session'[q].pc \in {"select", "relayed"}
    BY <2>1 DEF Waits, Ssh!Alive
  <2> QED
    BY <2>2, <2>3 DEF Ssh!WaitsForSsh
<1>4. Ssh!ReadsAreHeard'
  <2>1. \A q \in Command : Reads(session[q]) /\ (sshd # Ssh!Unknown => file = sshd)
    BY Parts DEF Ssh!SshInv
  <2>2. \A q \in Command : Reads(session'[q])
    BY <1>2, <2>1
  <2>3. (sshd # Ssh!Unknown => file = sshd)'
    BY <2>1
  <2> QED
    BY <2>2, <2>3 DEF Ssh!ReadsAreHeard, Reads, Ssh!Busy, Ssh!At
<1> QED
  BY <1>1, <1>3, <1>4 DEF Ssh!SshInv

-----------------------------------------------------------------------------
(* The steps                                                                *)

LEMMA BeginStep ==
  ASSUME Ssh!SshInv, NEW p \in Command,
         Ssh!BeginTarget(p) \/ \E args \in Requests : Ssh!BeginForward(p, args)
  PROVE  Ssh!SshInv'
<1>1. ~Ssh!Alive(p) /\ Ssh!TypeOK
  BY DEF Ssh!SshInv, Ssh!WaitsForSsh, Ssh!Begins, Ssh!BeginTarget, Ssh!BeginForward, Ssh!Busy
<1>2. CASE Ssh!BeginTarget(p)
  <2> DEFINE r == [Ssh!Idle EXCEPT !.pc = "status", !.cmd = "target",
                     !.pinned = pin, !.heard = {sshd}]
  <2>1. r \in Ssh!Process /\ Waits(r) /\ Reads(r)
    BY <1>1, ProcessTypes DEF Ssh!Idle, Ssh!Process, Waits, Reads, Ssh!TypeOK
  <2>2. /\ Replaces(p, r) /\ UNCHANGED <<pin, sshd, file, taken, signals, changes>>
        /\ commands' = commands + 1
    BY <1>2 DEF Ssh!BeginTarget, Ssh!Begins, Replaces
  <2>3. r.ssh = "none"
    BY DEF Ssh!Idle
  <2> HIDE DEF r
  <2> QED
    BY <1>1, <2>1, <2>2, <2>3, OneProcess DEF Ssh!TypeOK
<1>3. ASSUME NEW args \in Requests, Ssh!BeginForward(p, args) PROVE Ssh!SshInv'
  <2> DEFINE want == {Ssh!HostPort(args[i]) : i \in DOMAIN args}
             r == [Ssh!Idle EXCEPT !.pc = IF Ssh!Accepted(args) THEN "status" ELSE "failed",
                     !.cmd = "forward", !.want = want]
  <2>1. want \in SUBSET Nat
    BY HostPorts
  <2> HIDE DEF want
  <2>2. r \in Ssh!Process /\ Waits(r) /\ Reads(r)
    BY <2>1, ProcessTypes DEF Ssh!Idle, Ssh!Process, Waits, Reads
  <2>3. /\ Replaces(p, r) /\ UNCHANGED <<pin, sshd, file, taken, signals, changes>>
        /\ commands' = commands + 1
    BY <1>3 DEF Ssh!BeginForward, Ssh!Begins, Replaces, want
  <2> HIDE DEF r
  <2> QED
    BY <1>1, <2>2, <2>3, OneProcess DEF Ssh!TypeOK
<1> QED
  BY <1>2, <1>3

(* What a process has just before a step of its own.                       *)
LEMMA BeforeStep ==
  ASSUME Ssh!SshInv, NEW p \in Command
  PROVE  /\ session[p] \in Ssh!Process /\ Waits(session[p]) /\ Reads(session[p])
         /\ Ssh!Alive(p) => session[p].pc \in {"select", "relayed"}
         /\ sshd # Ssh!Unknown => file = sshd
         /\ commands \in Nat /\ signals \in Nat /\ changes \in Nat
         /\ pin \in Ssh!SomePort /\ sshd \in Ssh!SomePort /\ file \in Ssh!SomePort
         /\ session \in [Command -> Ssh!Process] /\ Ssh!TypeOK
  BY Parts DEF Ssh!SshInv, Ssh!TypeOK, Ssh!WaitsForSsh

LEMMA OwnStep == ASSUME Ssh!SshInv, NEW p \in Command, Ssh!Step(p) PROVE Ssh!SshInv'
<1>0. UNCHANGED <<pin, sshd, file, taken, commands, signals, changes>>
  BY DEF Ssh!Step, Ssh!QueryStatus, Ssh!LookUp, Ssh!Start, Ssh!Select, Ssh!Drain, Ssh!SecondSelect,
     Ssh!ReadLivePort, Ssh!PushKey, Ssh!RenderSSHTarget, Ssh!bounds
<1>1. \E r \in Ssh!Process :
        /\ Replaces(p, r) /\ Waits(r) /\ Reads(r) /\ r.want = session[p].want
        /\ Ssh!Alive(p) => r.ssh \in {"opening", "forwarding", "leaving"}
  <2> USE BeforeStep DEF Replaces, Waits, Reads, Ssh!Process, Ssh!At, Ssh!Alive
  <2>1. CASE Ssh!QueryStatus(p)
    <3>4. PICK running \in {sshd # Ssh!Unknown, FALSE} :
            session' = [session EXCEPT ![p] = [@ EXCEPT
                         !.running = running,
                         !.pc = CASE session[p].cmd = "target" -> "key"
                                    [] session[p].cmd = "forward" /\ running -> "lookup"
                                    [] OTHER -> "failed"]]
      BY <2>1 DEF Ssh!QueryStatus
    <3>5. running \in BOOLEAN /\ (running => sshd # Ssh!Unknown)
      BY <3>4
    <3> DEFINE pc == CASE session[p].cmd = "target" -> "key"
                       [] session[p].cmd = "forward" /\ running -> "lookup"
                       [] OTHER -> "failed"
               r == [session[p] EXCEPT !.running = running, !.pc = pc]
    <3>6. session' = [session EXCEPT ![p] = [@ EXCEPT !.running = running, !.pc = pc]]
      BY <3>4
    <3>1. Replaces(p, r)
      <4> HIDE DEF pc
      <4> QED
        BY <3>6
    <3>7. /\ pc \in {"key", "lookup", "failed"}
          /\ pc = "key" => session[p].cmd = "target"
      OBVIOUS
    <3>8. /\ session[p].pc = "status" /\ session[p].ssh \notin {"opening", "forwarding", "leaving"}
          /\ session[p] \in Ssh!Process /\ Reads(session[p])
      BY <2>1 DEF Ssh!QueryStatus
    <3> HIDE DEF pc
    <3>9. /\ r \in Ssh!Process /\ r.pc = pc /\ r.running = running
          /\ r.cmd = session[p].cmd /\ r.ssh = session[p].ssh /\ r.heard = session[p].heard
          /\ r.want = session[p].want
      BY <3>5, <3>7, <3>8
    <3> HIDE DEF r
    <3>2. r \in Ssh!Process /\ Waits(r) /\ Reads(r)
      BY <3>5, <3>7, <3>8, <3>9
    <3>3. r.want = session[p].want /\ ~Ssh!Alive(p)
      BY <3>8, <3>9
    <3> HIDE DEF r
    <3> QED
      BY <3>1, <3>2, <3>3
  <2>2. CASE Ssh!LookUp(p)
    <3>1. PICK pc \in {"start", "failed"} : Replaces(p, [session[p] EXCEPT !.pc = pc])
      BY <2>2 DEF Ssh!LookUp, Ssh!Goes
    <3> QED
      BY <2>2, <3>1 DEF Ssh!LookUp
  <2>3. CASE Ssh!Start(p)
    <3>1. CASE Ssh!Goes(p, "failed")
      BY <2>3, <3>1 DEF Ssh!Start, Ssh!Goes
    <3>2. CASE session' = [session EXCEPT ![p] = [@ EXCEPT
                            !.pc = "select", !.ssh = "opening"]]
      <4> DEFINE r == [session[p] EXCEPT !.pc = "select", !.ssh = "opening"]
      <4>1. Replaces(p, r) /\ r.want = session[p].want /\ ~Ssh!Alive(p)
        BY <2>3, <3>2 DEF Ssh!Start
      <4>2. r \in Ssh!Process /\ Waits(r) /\ Reads(r)
        BY <2>3 DEF Ssh!Start
      <4> HIDE DEF r
      <4> QED
        BY <4>1, <4>2
    <3> QED
      BY <2>3, <3>1, <3>2 DEF Ssh!Start
  <2>4. CASE Ssh!Select(p)
    <3>1. CASE session' = [session EXCEPT ![p] = [Ssh!Leaving(@) EXCEPT !.pc = "relayed"]]
      <4> DEFINE r == [Ssh!Leaving(session[p]) EXCEPT !.pc = "relayed"]
      <4>1. Ssh!Leaving(session[p]) \in Ssh!Process
            /\ Ssh!Leaving(session[p]).want = session[p].want
            /\ Ssh!Leaving(session[p]).cmd = session[p].cmd
            /\ Ssh!Leaving(session[p]).heard = session[p].heard
            /\ Ssh!Leaving(session[p]).ssh = IF session[p].ssh \in {"opening", "forwarding"}
                                     THEN "leaving" ELSE session[p].ssh
        BY ProcessTypes, LeavingKeeps
      <4>2. Replaces(p, r)
        BY <3>1
      <4>3. r \in Ssh!Process /\ Waits(r) /\ Reads(r) /\ r.want = session[p].want
        BY <2>4, <4>1 DEF Ssh!Select
      <4>4. Ssh!Alive(p) => r.ssh \in {"opening", "forwarding", "leaving"}
        BY <4>1
      <4> HIDE DEF r
      <4> QED
        BY <4>2, <4>3, <4>4
    <3>2. CASE session[p].ssh = "gone" /\ Ssh!Goes(p, "exited")
      BY <2>4, <3>2 DEF Ssh!Select, Ssh!Goes
    <3> QED
      BY <2>4, <3>1, <3>2 DEF Ssh!Select
  <2>5. CASE Ssh!Drain(p)
    BY <2>5 DEF Ssh!Drain, Ssh!Goes
  <2>6. CASE Ssh!SecondSelect(p)
    <3>1. PICK pc \in {"stopped", "failed"} : Replaces(p, [session[p] EXCEPT !.pc = pc])
      BY <2>6 DEF Ssh!SecondSelect, Ssh!Goes
    <3> QED
      BY <2>6, <3>1 DEF Ssh!SecondSelect
  <2>7. CASE Ssh!ReadLivePort(p)
    <3>1. CASE Ssh!Goes(p, "failed")
      BY <2>7, <3>1 DEF Ssh!ReadLivePort, Ssh!Goes
    <3>2. CASE session[p].running /\ \E port \in {file, Ssh!Unknown} :
                 session' = [session EXCEPT ![p] = [@ EXCEPT
                              !.live = port, !.pc = "push"]]
      <4>0. PICK port \in {file, Ssh!Unknown} :
              session' = [session EXCEPT ![p] = [@ EXCEPT
                           !.live = port, !.pc = "push"]]
        BY <3>2
      <4> DEFINE r == [session[p] EXCEPT !.live = port, !.pc = "push"]
      <4>1. Replaces(p, r) /\ r.want = session[p].want /\ ~Ssh!Alive(p)
        BY <2>7, <4>0 DEF Ssh!ReadLivePort
      <4>2. port \in session[p].heard \union {Ssh!Unknown} /\ port \in Ssh!SomePort
        BY <2>7, <3>2 DEF Ssh!ReadLivePort, Ssh!SomePort
      <4>3. session[p].pc = "key"
        BY <2>7 DEF Ssh!ReadLivePort
      <4>4. r \in Ssh!Process
        BY <4>2
      <4>5. Waits(r)
        BY <4>3
      <4>6. Reads(r)
        BY <3>2, <4>2, <4>3
      <4> HIDE DEF r
      <4> QED
        BY <4>1, <4>4, <4>5, <4>6
    <3>3. CASE ~session[p].running /\ Ssh!Goes(p, "print")
      BY <2>7, <3>3 DEF Ssh!ReadLivePort, Ssh!Goes
    <3> QED
      BY <2>7, <3>1, <3>2, <3>3 DEF Ssh!ReadLivePort
  <2>8. CASE Ssh!PushKey(p)
    <3>1. PICK pc \in {"print", "failed"} : Replaces(p, [session[p] EXCEPT !.pc = pc])
      BY <2>8 DEF Ssh!PushKey, Ssh!Goes
    <3> QED
      BY <2>8, <3>1 DEF Ssh!PushKey
  <2>9. CASE Ssh!RenderSSHTarget(p)
    <3> DEFINE shown == IF session[p].running /\ ~Ssh!Warned(session[p])
                        THEN Ssh!Port(session[p]) ELSE Ssh!Unknown
               r == [session[p] EXCEPT !.pc = "printed", !.shown = shown]
    <3>1. shown \in session[p].heard \union {Ssh!Unknown} /\ shown \in Ssh!SomePort
      BY <2>9 DEF Ssh!RenderSSHTarget, Ssh!Warned, Ssh!Port, Ssh!SomePort
    <3>4. session' = [session EXCEPT ![p] = [@ EXCEPT !.pc = "printed", !.shown = shown]]
      BY <2>9 DEF Ssh!RenderSSHTarget
    <3> HIDE DEF shown
    <3>2. Replaces(p, r)
      BY <3>4
    <3>3. r \in Ssh!Process /\ Waits(r) /\ Reads(r)
      BY <2>9, <3>1 DEF Ssh!RenderSSHTarget
    <3> QED
      BY <2>9, <3>2, <3>3 DEF Ssh!RenderSSHTarget
  <2> QED
    BY <2>1, <2>2, <2>3, <2>4, <2>5, <2>6, <2>7, <2>8, <2>9 DEF Ssh!Step
<1> QED
  BY <1>0, <1>1, BeforeStep, OneProcess

LEMMA SignalStep ==
  ASSUME Ssh!SshInv, NEW p \in Command,
         Ssh!Deliver(p) \/ \E group \in BOOLEAN : Ssh!Signal(p, group)
  PROVE  Ssh!SshInv'
<1> USE BeforeStep DEF Replaces, Waits, Reads, Ssh!Process, Ssh!At, Ssh!Alive
<1>1. CASE Ssh!Deliver(p)
  <2> DEFINE sent == session[p].sent - 1
             caught == session[p].caught + 1
             r == [session[p] EXCEPT !.sent = sent, !.caught = caught]
  <2>1. Replaces(p, r) /\ r.want = session[p].want /\ r.ssh = session[p].ssh
    BY <1>1 DEF Ssh!Deliver
  <2>4. /\ session[p].sent \in Nat /\ session[p].sent > 0 /\ session[p].caught \in Nat
        /\ session[p] \in Ssh!Process /\ Waits(session[p]) /\ Reads(session[p])
    BY <1>1 DEF Ssh!Deliver
  <2>6. sent \in Nat /\ caught \in Nat
    BY <2>4
  <2> HIDE DEF sent, caught
  <2>5. /\ r \in Ssh!Process /\ r.pc = session[p].pc /\ r.cmd = session[p].cmd
        /\ r.ssh = session[p].ssh /\ r.heard = session[p].heard
        /\ r.running = session[p].running /\ r.live = session[p].live
        /\ r.shown = session[p].shown
    BY <2>4, <2>6
  <2>2. r \in Ssh!Process /\ Waits(r) /\ Reads(r)
    <3> HIDE DEF r
    <3> QED
      BY <2>4, <2>5
  <2>3. UNCHANGED <<pin, sshd, file, taken, commands, signals, changes>>
    BY <1>1 DEF Ssh!Deliver, Ssh!bounds
  <2> HIDE DEF r
  <2> QED
    BY <2>1, <2>2, <2>3, OneProcess
<1>2. ASSUME NEW group \in BOOLEAN, Ssh!Signal(p, group) PROVE Ssh!SshInv'
  <2> DEFINE r == IF group THEN Ssh!Leaving(session[p]) ELSE session[p]
             s == IF Ssh!Catches(p) THEN [r EXCEPT !.sent = @ + 1]
                                ELSE [r EXCEPT !.pc = "stopped"]
  <2>1. /\ r \in Ssh!Process /\ r.want = session[p].want /\ r.pc = session[p].pc
        /\ r.cmd = session[p].cmd /\ r.heard = session[p].heard /\ r.live = session[p].live
        /\ r.running = session[p].running /\ r.shown = session[p].shown
        /\ r.ssh = session[p].ssh \/ (Ssh!Alive(p) /\ r.ssh = "leaving")
    BY ProcessTypes, LeavingKeeps
  <2>2. /\ Replaces(p, s) /\ signals' = signals + 1
        /\ UNCHANGED <<pin, sshd, file, taken, commands, changes>>
    BY <1>2 DEF Ssh!Signal
  <2> HIDE DEF r
  <2>3. CASE Ssh!Catches(p)
    <3>1. s \in Ssh!Process /\ Waits(s) /\ Reads(s)
      BY <2>1, <2>3
    <3>2. s.want = session[p].want /\ s.ssh = r.ssh
      BY <2>1, <2>3
    <3>3. Ssh!Alive(p) => s.ssh \in {"opening", "forwarding", "leaving"}
      BY <2>1, <3>2
    <3>4. signals' \in Nat
      BY <2>2
    <3> HIDE DEF s, Replaces, Waits, Reads, Ssh!Alive
    <3> QED
      BY <2>1, <2>2, <3>1, <3>2, <3>3, <3>4, OneProcess
  <2>4. CASE ~Ssh!Catches(p)
    <3>1. ~Ssh!Alive(p)
      BY <2>4 DEF Ssh!Catches
    <3>2. s \in Ssh!Process /\ Waits(s) /\ Reads(s) /\ s.want = session[p].want
      BY <2>1, <2>4, <3>1
    <3>3. signals' \in Nat
      BY <2>2
    <3> HIDE DEF s, Replaces, Waits, Reads, Ssh!Alive
    <3> QED
      BY <2>2, <3>1, <3>2, <3>3, OneProcess
  <2> QED
    BY <2>3, <2>4
<1> QED
  BY <1>1, <1>2

LEMMA ListenStep == ASSUME Ssh!SshInv, NEW p \in Command, Ssh!Listen(p) PROVE Ssh!SshInv'
<1> USE BeforeStep DEF Replaces, Waits, Reads, Ssh!Process, Ssh!At, Ssh!Alive
<1>0. UNCHANGED <<pin, sshd, file, commands, signals, changes>>
  BY DEF Ssh!Listen, Ssh!bounds
<1>1. CASE session' = [session EXCEPT ![p] = Ssh!Leaving(@)] /\ UNCHANGED taken
  <2>1. Replaces(p, Ssh!Leaving(session[p]))
    BY <1>1
  <2>2. /\ Ssh!Leaving(session[p]) \in Ssh!Process /\ Ssh!Leaving(session[p]).want = session[p].want
        /\ Waits(Ssh!Leaving(session[p])) /\ Reads(Ssh!Leaving(session[p]))
    BY ProcessTypes, LeavingKeeps
  <2>3. Ssh!Alive(p) => Ssh!Leaving(session[p]).ssh \in {"opening", "forwarding", "leaving"}
    BY LeavingKeeps
  <2> QED
    BY <1>0, <1>1, <2>1, <2>2, <2>3, OneProcess
<1>2. CASE session' = [session EXCEPT ![p].ssh = "forwarding"] /\ UNCHANGED taken
  <2> DEFINE r == [session[p] EXCEPT !.ssh = "forwarding"]
  <2>1. Replaces(p, r) /\ r.want = session[p].want /\ r.ssh = "forwarding"
    BY <1>2
  <2>2. r \in Ssh!Process /\ Waits(r) /\ Reads(r)
    BY DEF Ssh!Listen
  <2> HIDE DEF r, Replaces, Waits, Reads, Ssh!Alive
  <2> QED
    BY <1>0, <1>2, <2>1, <2>2, OneProcess
<1>3. ASSUME NEW port \in session[p].want,
             taken' = taken \union {[port |-> port, by |-> p]}, UNCHANGED session
      PROVE  Ssh!SshInv'
  <2>1. Ssh!Alive(p) /\ port \in Nat
    BY DEF Ssh!Listen
  <2>2. Ssh!TypeOK'
    BY <1>0, <1>3, <2>1 DEF Ssh!TypeOK
  <2>3. Ssh!WaitsForSsh'
    BY <1>3, <2>1 DEF Ssh!SshInv, Ssh!WaitsForSsh
  <2>4. Ssh!ReadsAreHeard'
    BY <1>0, <1>3 DEF Ssh!SshInv, Ssh!ReadsAreHeard, Ssh!Busy
  <2> QED
    BY <2>2, <2>3, <2>4 DEF Ssh!SshInv
<1> QED
  BY <1>1, <1>2, <1>3 DEF Ssh!Listen

LEMMA ExitStep == ASSUME Ssh!SshInv, NEW p \in Command, Ssh!SshExits(p) PROVE Ssh!SshInv'
<1> USE BeforeStep
<1>1. /\ UNCHANGED <<pin, sshd, file, commands, signals, changes>>
      /\ session' = [session EXCEPT ![p] = [session[p] EXCEPT !.ssh = "gone"]]
      /\ taken' = {t \in taken : t.by # p}
  BY DEF Ssh!SshExits, Ssh!Closed, Ssh!bounds
<1>2. [session[p] EXCEPT !.ssh = "gone"] \in Ssh!Process
  BY DEF Ssh!Process
<1>3. Ssh!TypeOK'
  BY <1>1, <1>2 DEF Ssh!TypeOK
<1>4. /\ session'[p].ssh = "gone"
      /\ \A q \in Command \ {p} : session'[q] = session[q]
      /\ \A f \in {"pc", "cmd", "heard", "live", "shown", "running"} :
           session'[p][f] = session[p][f]
  BY <1>1 DEF Ssh!Process
<1>5. Ssh!WaitsForSsh'
  BY <1>1, <1>4 DEF Ssh!SshInv, Ssh!WaitsForSsh, Ssh!Alive, Ssh!TypeOK
<1>6. Ssh!ReadsAreHeard'
  BY <1>1, <1>4 DEF Ssh!SshInv, Ssh!ReadsAreHeard, Ssh!Busy, Ssh!At
<1> QED
  BY <1>3, <1>5, <1>6 DEF Ssh!SshInv

LEMMA StopStep == ASSUME Ssh!SshInv, Ssh!StopVm PROVE Ssh!SshInv'
<1>1. /\ UNCHANGED <<pin, file, taken, commands, signals>> /\ sshd' = Ssh!Unknown
      /\ changes' = changes + 1 /\ session' = [p \in Command |-> Ssh!Leaving(session[p])]
  BY DEF Ssh!StopVm, Ssh!Changes
<1>2. \A p \in Command : session[p] \in Ssh!Process
  BY DEF Ssh!SshInv, Ssh!TypeOK
<1>3. Ssh!TypeOK'
  BY <1>1, <1>2, ProcessTypes DEF Ssh!SshInv, Ssh!TypeOK, Ssh!SomePort
<1>4. ASSUME NEW p \in Command
      PROVE  /\ session'[p].pc = session[p].pc /\ session'[p].cmd = session[p].cmd
             /\ session'[p].want = session[p].want /\ session'[p].heard = session[p].heard
             /\ session'[p].live = session[p].live /\ session'[p].shown = session[p].shown
             /\ session'[p].running = session[p].running /\ (Ssh!Alive(p) <=> Ssh!Alive(p)')
  BY <1>1, <1>2, LeavingKeeps DEF Ssh!Alive
<1>5. Ssh!WaitsForSsh'
  BY <1>1, <1>4 DEF Ssh!SshInv, Ssh!WaitsForSsh, Ssh!TypeOK
<1>6. Ssh!ReadsAreHeard'
  BY <1>1, <1>4 DEF Ssh!SshInv, Ssh!ReadsAreHeard, Ssh!Busy, Ssh!At
<1> QED
  BY <1>3, <1>5, <1>6 DEF Ssh!SshInv

LEMMA StartStep == ASSUME Ssh!SshInv, Ssh!StartVm PROVE Ssh!SshInv'
<1> DEFINE heard(p) == IF Ssh!Busy(p) /\ session[p].cmd = "target"
                       THEN session[p].heard \union {sshd'} ELSE session[p].heard
<1>1. /\ UNCHANGED <<pin, taken, commands, signals>> /\ file' = sshd'
      /\ changes' = changes + 1
      /\ session' = [p \in Command |-> [session[p] EXCEPT !.heard = heard(p)]]
  BY DEF Ssh!StartVm, Ssh!Changes
<1>2. sshd' \in Ssh!SomePort
  BY DEF Ssh!StartVm, Ssh!SshInv, Ssh!TypeOK, Ssh!SomePort
<1>3. \A p \in Command : session[p] \in Ssh!Process
  BY DEF Ssh!SshInv, Ssh!TypeOK
<1>4. \A p \in Command : heard(p) \in SUBSET Ssh!SomePort /\ session[p].heard \subseteq heard(p)
  BY <1>2, <1>3 DEF Ssh!Process
<1> HIDE DEF heard
<1>5. ASSUME NEW p \in Command
      PROVE  /\ [session[p] EXCEPT !.heard = heard(p)] \in Ssh!Process
             /\ session'[p].pc = session[p].pc /\ session'[p].cmd = session[p].cmd
             /\ session'[p].want = session[p].want /\ session'[p].heard = heard(p)
             /\ session'[p].live = session[p].live /\ session'[p].shown = session[p].shown
             /\ session'[p].running = session[p].running /\ session'[p].ssh = session[p].ssh
  BY <1>1, <1>3, <1>4 DEF Ssh!Process
<1>6. Ssh!TypeOK'
  <2>1. session' = [p \in Command |-> [session[p] EXCEPT !.heard = heard(p)]]
    BY <1>1
  <2>2. \A p \in Command : [session[p] EXCEPT !.heard = heard(p)] \in Ssh!Process
    BY <1>5
  <2>3. session' \in [Command -> Ssh!Process]
    BY <2>1, <2>2
  <2>4. /\ UNCHANGED <<pin, taken, commands, signals>> /\ file' = sshd'
        /\ changes' = changes + 1
    BY <1>1
  <2> QED
    BY <1>2, <2>3, <2>4 DEF Ssh!SshInv, Ssh!TypeOK
<1>7. Ssh!WaitsForSsh'
  BY <1>1, <1>5 DEF Ssh!SshInv, Ssh!WaitsForSsh, Ssh!TypeOK, Ssh!Alive
<1>8. ASSUME NEW p \in Command, Ssh!Busy(p), session[p].cmd = "target"
      PROVE  sshd' \in heard(p)
  BY <1>8 DEF heard
<1>9. Ssh!ReadsAreHeard'
  BY <1>1, <1>4, <1>5, <1>8 DEF Ssh!SshInv, Ssh!ReadsAreHeard, Ssh!Busy, Ssh!At
<1> QED
  BY <1>6, <1>7, <1>9 DEF Ssh!SshInv

LEMMA SshStep ==
  Ssh!SshInv /\ [Ssh!Next]_Ssh!vars => Ssh!SshInv'
<1> SUFFICES ASSUME Ssh!SshInv, [Ssh!Next]_Ssh!vars PROVE Ssh!SshInv'
  OBVIOUS
<1>1. CASE Ssh!EditPin
  BY <1>1 DEF Ssh!EditPin, Ssh!Changes, Ssh!SshInv, Ssh!TypeOK, Ssh!WaitsForSsh,
     Ssh!Alive, Ssh!ReadsAreHeard, Ssh!Busy, Ssh!At
<1>2. CASE UNCHANGED Ssh!vars
  BY <1>2 DEF Ssh!vars, Ssh!SshInv, Ssh!TypeOK, Ssh!WaitsForSsh, Ssh!Alive,
     Ssh!ReadsAreHeard, Ssh!Busy, Ssh!At
<1> QED
  BY <1>1, <1>2, BeginStep, OwnStep, SignalStep, ListenStep, ExitStep, StopStep,
     StartStep DEF Ssh!Next

LEMMA SshInvariance == SshSpec => []Ssh!SshInv
  BY SshInit, SshStep, PTL DEF SshSpec, Ssh!Spec

-----------------------------------------------------------------------------
(* However signals, taken ports and stops of the VM end a forward, no host  *)
(* port stays open after it (forwardSSHArgs, runSSH).                       *)
THEOREM NoListenerOutlives == SshSpec => []NothingOutlives
<1>1. Ssh!SshInv => NothingOutlives
  BY DEF Ssh!SshInv, Ssh!TypeOK, Ssh!WaitsForSsh, NothingOutlives, Ssh!Busy
<1> QED
  BY <1>1, SshInvariance, PTL

(* Whatever is restarted and edited between its reads, the port ssh-target  *)
(* prints without a warning was the running VM's while it ran               *)
(* (newSSHTargetCmd, renderSSHTarget).                                      *)
THEOREM ShownPortIsReal == SshSpec => []ShownIsHeard
<1>1. Ssh!SshInv => ShownIsHeard
  BY DEF Ssh!SshInv, Ssh!ReadsAreHeard, ShownIsHeard
<1> QED
  BY <1>1, SshInvariance, PTL
=============================================================================
