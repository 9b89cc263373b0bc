------------------------------- MODULE AgentKey -------------------------------
(***************************************************************************)
(* The agent's SSH identity: code-vm processes that ensure the keypair of  *)
(* one instance under <config dir>/ssh/<instance> and install its public   *)
(* half as the guest's only authorized key.  ssh-keygen writes two files,  *)
(* one after the other; an advisory lock on a file inside the directory    *)
(* serialises the processes; deleting the directory is how a user rotates  *)
(* the key.                                                                *)
(***************************************************************************)
EXTENDS Integers

CONSTANTS
  Proc,          \* concurrent code-vm processes
  MaxRequests,   \* bound on commands that need the key
  MaxCrashes,    \* bound on processes interrupted half way
  MaxRotations   \* bound on deletions of the directory

ASSUME BoundsAssumption ==
  MaxRequests \in Nat /\ MaxCrashes \in Nat /\ MaxRotations \in Nat

VARIABLES
  dir,      \* the instance directory: 0 when absent, else which incarnation
  priv,     \* agent_ed25519: 0 when absent, else the keypair it belongs to
  pub,      \* agent_ed25519.pub, or Torn
  guestKey, \* authorized_keys in the guest, 0 before the first push
  cli,      \* the processes
  orphans,  \* ssh-keygen processes whose code-vm died
  nextDir, nextKey,   \* incarnations and keypairs made so far
  requests, crashes, rotations

files == <<dir, priv, pub, nextDir, nextKey>>
bounds == <<requests, crashes, rotations>>
vars == <<files, guestKey, cli, orphans, bounds>>

-----------------------------------------------------------------------------
Pc == {"idle", "mkdir", "open", "flock", "priv", "pub", "keygen", "keygenPub",
       "read", "push", "half", "error"}
\* From the flock to the deferred unlock.
Critical == {"priv", "pub", "keygen", "keygenPub", "read"}
Resting == {"idle", "half", "error"}

\* lock: the incarnation whose .lock file the process has open; hasPriv: what
\* its first Lstat found; key: the keypair it generated or read.
Process ==
  [pc : Pc, lock : 0 .. nextDir, hasPriv : BOOLEAN, key : 0 .. nextKey]
\* An orphan is about to write the private or the public half.
Orphan == [pc : {"keygen", "keygenPub"}, key : 0 .. nextKey]
\* A public file that was created and never written.
Torn == -1

Idle == [pc |-> "idle", lock |-> 0, hasPriv |-> FALSE, key |-> 0]

At(p, pc) == cli[p].pc = pc
Goto(p, pc) == cli' = [cli EXCEPT ![p].pc = pc]
InCritical(p) == cli[p].pc \in Critical

TypeOK ==
  /\ dir \in 0 .. nextDir
  /\ priv \in 0 .. nextKey /\ pub \in Torn .. nextKey
  /\ guestKey \in 0 .. nextKey
  /\ cli \in [Proc -> Process]
  /\ orphans \subseteq Orphan
  /\ nextDir \in Nat /\ nextKey \in Nat
  /\ requests \in 0 .. MaxRequests /\ crashes \in 0 .. MaxCrashes
  /\ rotations \in 0 .. MaxRotations

Init ==
  /\ dir = 0 /\ priv = 0 /\ pub = 0 /\ guestKey = 0
  /\ cli = [p \in Proc |-> Idle] /\ orphans = {}
  /\ nextDir = 0 /\ nextKey = 0
  /\ requests = 0 /\ crashes = 0 /\ rotations = 0

-----------------------------------------------------------------------------
(* Ensure *)

Begin(p) ==
  /\ cli[p].pc \in Resting /\ requests < MaxRequests
  /\ requests' = requests + 1
  /\ cli' = [cli EXCEPT ![p] = [Idle EXCEPT !.pc = "mkdir"]]
  /\ UNCHANGED <<files, guestKey, orphans, crashes, rotations>>

MakeDir(p) ==
  /\ At(p, "mkdir")
  /\ \/ /\ dir = 0
        /\ dir' = nextDir + 1 /\ nextDir' = nextDir + 1
     \/ /\ dir # 0
        /\ UNCHANGED <<dir, nextDir>>
  /\ Goto(p, "open")
  /\ UNCHANGED <<priv, pub, nextKey, guestKey, orphans, bounds>>

\* The .lock file of whatever directory the path leads to by now.
OpenLock(p) ==
  /\ At(p, "open") /\ dir # 0
  /\ cli' = [cli EXCEPT ![p] = [@ EXCEPT !.lock = dir, !.pc = "flock"]]
  /\ UNCHANGED <<files, guestKey, orphans, bounds>>

\* Mutants: no lock at all; a lock that is never released.
NoLock(p) == TRUE
LockKept(p) == \A q \in Proc : q # p => cli[q].lock # cli[p].lock

LockFree(p) == \A q \in Proc : q # p /\ InCritical(q) => cli[q].lock # cli[p].lock

Flock(p) ==
  /\ At(p, "flock")
  /\ LockFree(p)
  /\ Goto(p, "priv")
  /\ UNCHANGED <<files, guestKey, orphans, bounds>>

LookForPrivate(p) ==
  /\ At(p, "priv")
  /\ cli' = [cli EXCEPT ![p] = [@ EXCEPT !.hasPriv = (priv # 0), !.pc = "pub"]]
  /\ UNCHANGED <<files, guestKey, orphans, bounds>>

\* Generate only when neither half exists; half a keypair is refused.
AfterLook(hasPriv, hasPub) ==
  CASE hasPriv /\ hasPub -> "read"
    [] ~hasPriv /\ ~hasPub -> "keygen"
    [] OTHER -> "half"

LookForPublic(p) ==
  /\ At(p, "pub")
  /\ Goto(p, AfterLook(cli[p].hasPriv, pub # 0))
  /\ UNCHANGED <<files, guestKey, orphans, bounds>>

\* ssh-keygen does not overwrite an existing private key unasked.
KeygenPrivate(p) ==
  /\ At(p, "keygen") /\ dir # 0 /\ priv = 0
  /\ priv' = nextKey + 1 /\ nextKey' = nextKey + 1
  /\ cli' = [cli EXCEPT ![p] = [@ EXCEPT !.key = nextKey + 1, !.pc = "keygenPub"]]
  /\ UNCHANGED <<dir, pub, nextDir, guestKey, orphans, bounds>>

\* Mutant: the public file comes from a second run of the generator.
KeygenTwice(p) ==
  /\ At(p, "keygenPub") /\ dir # 0
  /\ pub' = nextKey + 1
  /\ Goto(p, "read")
  /\ UNCHANGED <<dir, priv, nextDir, nextKey, guestKey, orphans, bounds>>

KeygenPublic(p) ==
  /\ At(p, "keygenPub") /\ dir # 0
  /\ pub' = cli[p].key
  /\ Goto(p, "read")
  /\ UNCHANGED <<dir, priv, nextDir, nextKey, guestKey, orphans, bounds>>

\* Mutant: whatever the public file holds is installed.
ReadAnyLine(p) ==
  /\ At(p, "read") /\ priv # 0 /\ pub # 0
  /\ cli' = [cli EXCEPT ![p] = [@ EXCEPT !.key = pub, !.pc = "push"]]
  /\ UNCHANGED <<files, guestKey, orphans, bounds>>

\* Tighten the private key's mode, read the public file, which must be one
\* ed25519 line, unlock.  ssh-target on a stopped VM ends here, every other
\* caller installs the line.
ReadPublic(p) ==
  /\ At(p, "read") /\ priv # 0 /\ pub \notin {0, Torn}
  /\ \E next \in {"push", "idle"} :
       cli' = [cli EXCEPT ![p] = [@ EXCEPT !.key = pub, !.pc = next]]
  /\ UNCHANGED <<files, guestKey, orphans, bounds>>

\* The system calls above on a file that is not as expected.
EnsureFails(p) ==
  /\ \/ At(p, "open") /\ dir = 0
     \/ At(p, "keygen") /\ (dir = 0 \/ priv # 0)
     \/ At(p, "keygenPub") /\ dir = 0
     \/ At(p, "read") /\ (priv = 0 \/ pub \in {0, Torn})
  /\ Goto(p, "error")
  /\ UNCHANGED <<files, guestKey, orphans, bounds>>

PushAuthorizedKey(p) ==
  /\ At(p, "push")
  /\ guestKey' = cli[p].key
  /\ Goto(p, "idle")
  /\ UNCHANGED <<files, orphans, bounds>>

-----------------------------------------------------------------------------
(* Interruptions and the user *)

\* The process dies and the kernel drops its lock, which ssh-keygen does not
\* inherit.  ssh-keygen dies with it, perhaps between creating the public file
\* and writing it, or goes on without it.
Interrupt(p) ==
  /\ cli[p].pc \notin Resting /\ crashes < MaxCrashes
  /\ crashes' = crashes + 1
  /\ cli' = [cli EXCEPT ![p] = Idle]
  /\ \/ UNCHANGED <<pub, orphans>>
     \/ /\ At(p, "keygenPub") /\ dir # 0
        /\ pub' = Torn
        /\ UNCHANGED orphans
     \/ /\ cli[p].pc \in {"keygen", "keygenPub"}
        /\ orphans' = orphans \union {[pc |-> cli[p].pc, key |-> cli[p].key]}
        /\ UNCHANGED pub
  /\ UNCHANGED <<dir, priv, nextDir, nextKey, guestKey, requests, rotations>>

OrphanPrivate(o) ==
  /\ o.pc = "keygen" /\ dir # 0 /\ priv = 0
  /\ priv' = nextKey + 1 /\ nextKey' = nextKey + 1
  /\ orphans' = (orphans \ {o}) \union {[pc |-> "keygenPub", key |-> nextKey + 1]}
  /\ UNCHANGED <<dir, pub, nextDir, guestKey, cli, bounds>>

OrphanPublic(o) ==
  /\ o.pc = "keygenPub" /\ dir # 0
  /\ pub' = o.key
  /\ orphans' = orphans \ {o}
  /\ UNCHANGED <<dir, priv, nextDir, nextKey, guestKey, cli, bounds>>

OrphanFails(o) ==
  /\ dir = 0 \/ (o.pc = "keygen" /\ priv # 0)
  /\ orphans' = orphans \ {o}
  /\ UNCHANGED <<files, guestKey, cli, bounds>>

\* "Deleting the directory is the explicit, user-visible way to rotate."
Rotate ==
  /\ dir # 0 /\ rotations < MaxRotations
  /\ rotations' = rotations + 1
  /\ dir' = 0 /\ priv' = 0 /\ pub' = 0
  /\ UNCHANGED <<nextDir, nextKey, guestKey, cli, orphans, requests, crashes>>

Keygen(o) == OrphanPrivate(o) \/ OrphanPublic(o) \/ OrphanFails(o)

Step(p) ==
  \/ MakeDir(p) \/ OpenLock(p) \/ Flock(p)
  \/ LookForPrivate(p) \/ LookForPublic(p)
  \/ KeygenPrivate(p) \/ KeygenPublic(p) \/ ReadPublic(p)
  \/ EnsureFails(p) \/ PushAuthorizedKey(p)

Next ==
  \/ Rotate
  \/ \E p \in Proc : Begin(p) \/ Step(p) \/ Interrupt(p)
  \/ \E o \in orphans : Keygen(o)

Spec == Init /\ [][Next]_vars
\* A process that has begun keeps running, and flock is not withheld forever.
FairSpec == Spec /\ \A p \in Proc : WF_vars(Step(p))

-----------------------------------------------------------------------------
(* The inductive invariant (SshProofs).  What holds whoever is
   interrupted, until the directory is deleted: *)

\* A process past MakeDir works in the one directory there is.
OneDirectory ==
  \A p \in Proc :
    /\ cli[p].pc \in {"open", "flock"} \union Critical => dir # 0
    /\ cli[p].pc \in {"flock"} \union Critical => cli[p].lock = dir

MutualExclusion ==
  \A p, q \in Proc : InCritical(p) /\ InCritical(q) => p = q

\* There is one keypair, every copy of its public half is a copy of it, and
\* at most one ssh-keygen has yet to write that half.
OneKeypair ==
  /\ pub \in {0, Torn, priv} /\ (priv = 0 => pub = 0)
  /\ guestKey \in {0, pub} /\ guestKey # Torn
  /\ \A p \in Proc :
       /\ At(p, "keygenPub") =>
            /\ cli[p].key = priv /\ priv # 0 /\ pub = 0
            /\ \A q \in Proc : At(q, "keygenPub") => q = p
            /\ \A o \in orphans : o.pc # "keygenPub"
       /\ At(p, "push") => cli[p].key = pub /\ pub \notin {0, Torn}
  /\ \A o \in orphans :
       o.pc = "keygenPub" => o.key = priv /\ priv # 0 /\ pub = 0

(* And what holds until the first interruption as well: *)

Calm == crashes = 0 /\ rotations = 0

\* What the process in its critical section has seen is still so.
SeenIsSo ==
  \A p \in Proc :
    /\ At(p, "pub") => cli[p].hasPriv = (priv # 0)
    /\ At(p, "keygen") => priv = 0
    /\ At(p, "read") => priv # 0 /\ pub \notin {0, Torn}

\* Only a process between ssh-keygen's two files leaves half a keypair.
WholePair ==
  (priv = 0) = (pub = 0) \/ \E p \in Proc : At(p, "keygenPub")

NobodyFailed == \A p \in Proc : cli[p].pc \notin {"half", "error"}
NobodyLeft == orphans = {} /\ pub # Torn

KeyInv ==
  /\ TypeOK
  /\ rotations = 0 => OneDirectory /\ MutualExclusion /\ OneKeypair
  /\ Calm => SeenIsSo /\ WholePair /\ NobodyFailed /\ NobodyLeft

-----------------------------------------------------------------------------
(* Properties *)

\* lock_unix.go: processes racing on a first run never see a keypair that is
\* still being generated: without an interruption or a rotation no invocation
\* fails, and none is told to delete half a keypair.
NoFalseAlarm == Calm => NobodyFailed

\* agentssh: "regenerating would silently change the identity the guest
\* already trusts": until the user deletes the directory, and whatever is
\* interrupted, the guest goes from no key to the keypair on the host and
\* never to another.
GuestTrustsHostKey ==
  rotations = 0 /\ guestKey # 0 => guestKey = pub /\ guestKey = priv

\* No invocation waits forever for the lock, whoever dies holding it.
EveryoneEnds == \A p \in Proc : (cli[p].pc \notin Resting) ~> (cli[p].pc \in Resting)

\* The promise of package agentssh, KeyTrust: processes that race on a first
\* run and die half way through it look, to the guest, like one that generates
\* the keypair once and delivers it.  A keypair is there when both halves are.
Trust == INSTANCE KeyTrust WITH
           host <- IF priv = pub THEN pub ELSE 0, guest <- guestKey,
           rotated <- rotations # 0
ImplementsTrust == Trust!Spec
=============================================================================
