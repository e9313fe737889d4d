------------------------------ MODULE WalletLock ------------------------------
(***************************************************************************)
(* The advisory lock of a signing wallet (cli/src/acurast-wallet-lock.ts): *)
(* one file per wallet, created with the exclusive flag "wx", that several *)
(* CLI processes of one machine contend for.                               *)
(*                                                                         *)
(* One action stands for the code a process runs from one await to the     *)
(* next, so that the file operations of different processes interleave.    *)
(* What the file system guarantees is atomic: one create, write, stat,     *)
(* read or unlink.  The signal-0 probe of a pid is a step of its own,      *)
(* because the pid was read from the file earlier.                         *)
(*                                                                         *)
(* A pid names one run of the program.  When that run ends, by a crash or  *)
(* by a normal exit, the number may be given to an unrelated program.      *)
(*                                                                         *)
(* Time is counted in polls: a unit is about the time between two polls,   *)
(* and StaleMs, MaxWait and MaxHold are in that unit.                      *)
(***************************************************************************)
EXTENDS Naturals

CONSTANTS
    Pids,          \* the runs of the CLI that use this wallet
    NoPid,         \* no owner was read
    NoFile,        \* the lock file does not exist
    StaleMs,       \* age from which a lock is stolen even from a live owner
    MaxWait,       \* how long acquireWalletLock waits before it throws
    MaxHold,       \* the longest a live process stays in the submit window
    WriteMayFail   \* whether writing the created file can fail (full disk)

ASSUME ConstantsOK ==
    /\ StaleMs \in Nat
    /\ MaxWait \in Nat
    /\ MaxHold \in Nat
    /\ WriteMayFail \in BOOLEAN
    /\ NoPid \notin Pids

\* Ages and holding times are only compared with StaleMs: they stop one above.
Ages == 0 .. StaleMs + 1

\* A lock file: who created it, whether { pid, createdAt } was written yet,
\* and the age of its modification time.
Files == [owner : Pids, written : BOOLEAN, age : Ages]

ASSUME NoFileOK == NoFile \notin Files

VARIABLES
    lock,          \* the file at lockPath, or NoFile
    pc,            \* where each process is in acquireWalletLock
    pidInUse,      \* whether the operating system has a process with this pid
    seen,          \* the owner pid a waiter read from the file
    waited,        \* time since the process called acquireWalletLock
    held,          \* time since the process created its lock file
    wrongRemoval   \* history: a fresh lock of a live owner was removed by another

vars == <<lock, pc, pidInUse, seen, waited, held, wrongRemoval>>

\* The pc values of a process that is inside the retry loop.
WaitSteps == {"open", "stat", "read", "probe", "steal", "sleep"}

\* A process owns the lock from the create on, before its pid is in the file.
OwnerSteps == {"write", "hold"}

Steps == WaitSteps \cup OwnerSteps \cup {"idle", "failed", "dead"}

Waiting(p) == pc[p] \in WaitSteps
Owns(p) == pc[p] \in OwnerSteps

TypeOK ==
    /\ lock \in Files \cup {NoFile}
    /\ pc \in [Pids -> Steps]
    /\ pidInUse \in [Pids -> BOOLEAN]
    /\ seen \in [Pids -> Pids \cup {NoPid}]
    /\ waited \in [Pids -> 0 .. MaxWait]
    /\ held \in [Pids -> Ages]
    /\ wrongRemoval \in BOOLEAN

Init ==
    /\ lock = NoFile
    /\ pc = [p \in Pids |-> "idle"]
    /\ pidInUse = [p \in Pids |-> TRUE]
    /\ seen = [p \in Pids |-> NoPid]
    /\ waited = [p \in Pids |-> 0]
    /\ held = [p \in Pids |-> 0]
    /\ wrongRemoval = FALSE

-------------------------------------------------------------------------------
Aged == lock.age > StaleMs

\* The file is there and holds the owner's pid.
Readable == IF lock = NoFile THEN FALSE ELSE lock.written

\* Removing the file now takes it from a process that owns it and whose lock
\* has not reached the age from which stealing is allowed.
TakesFreshLock == IF lock = NoFile THEN FALSE ELSE Owns(lock.owner) /\ ~Aged

\* Mistake: a waiter that never looks at its deadline.
SleepOn(p) == pc' = [pc EXCEPT ![p] = "sleep"]

\* What follows a negative staleness check: throw once the deadline passed,
\* otherwise sleep and poll again.
GiveUpOrSleep(p) ==
    pc' = [pc EXCEPT ![p] = IF waited[p] = MaxWait THEN "failed" ELSE "sleep"]

\* The call: the deadline is computed from the time of the call.
Acquire(p) ==
    /\ pc[p] \in {"idle", "failed"}
    /\ pc' = [pc EXCEPT ![p] = "open"]
    /\ waited' = [waited EXCEPT ![p] = 0]
    /\ UNCHANGED <<lock, pidInUse, seen, held, wrongRemoval>>

\* Mistake: open with "w", which truncates a file that exists.
CreateOrTruncate(p) ==
    /\ pc[p] = "open"
    /\ lock' = [owner |-> p, written |-> FALSE, age |-> 0]
    /\ pc' = [pc EXCEPT ![p] = "write"]
    /\ held' = [held EXCEPT ![p] = 0]
    /\ UNCHANGED <<pidInUse, seen, waited, wrongRemoval>>

\* open(lockPath, "wx") succeeds: the file exists, still empty.
CreateLock(p) ==
    /\ pc[p] = "open"
    /\ lock = NoFile
    /\ lock' = [owner |-> p, written |-> FALSE, age |-> 0]
    /\ pc' = [pc EXCEPT ![p] = "write"]
    /\ held' = [held EXCEPT ![p] = 0]
    /\ UNCHANGED <<pidInUse, seen, waited, wrongRemoval>>

\* Mistake: EEXIST is taken for success.
IgnoreExisting(p) ==
    /\ pc[p] = "open"
    /\ lock # NoFile
    /\ pc' = [pc EXCEPT ![p] = "write"]
    /\ UNCHANGED <<lock, pidInUse, seen, waited, held, wrongRemoval>>

\* open(lockPath, "wx") fails with EEXIST.
FindLock(p) ==
    /\ pc[p] = "open"
    /\ lock # NoFile
    /\ pc' = [pc EXCEPT ![p] = "stat"]
    /\ UNCHANGED <<lock, pidInUse, seen, waited, held, wrongRemoval>>

\* handle.writeFile: it reaches the file this process created, which may no
\* longer be the one at lockPath.
OwnerIsWritten(p) ==
    /\ lock' = IF lock # NoFile /\ lock.owner = p
               THEN [owner |-> p, written |-> TRUE, age |-> 0]
               ELSE lock
    /\ pc' = [pc EXCEPT ![p] = "hold"]

\* It fails: the error is not EEXIST, so acquireWalletLock throws and leaves
\* the empty file behind.
WriteOwnerFails(p) ==
    /\ WriteMayFail
    /\ pc' = [pc EXCEPT ![p] = "failed"]
    /\ UNCHANGED lock

WriteOwner(p) ==
    /\ pc[p] = "write"
    /\ OwnerIsWritten(p) \/ WriteOwnerFails(p)
    /\ UNCHANGED <<pidInUse, seen, waited, held, wrongRemoval>>

\* walletLockIsStale, the age check.
Stat(p) ==
    /\ pc[p] = "stat"
    /\ \/ /\ lock = NoFile
          /\ GiveUpOrSleep(p)
       \/ /\ lock # NoFile
          /\ pc' = [pc EXCEPT ![p] = IF Aged THEN "steal" ELSE "read"]
    /\ UNCHANGED <<lock, pidInUse, seen, waited, held, wrongRemoval>>

\* walletLockIsStale, readFile: a missing or partial file is not stale.
ReadOwner(p) ==
    /\ pc[p] = "read"
    /\ \/ /\ ~Readable
          /\ GiveUpOrSleep(p)
          /\ UNCHANGED seen
       \/ /\ Readable
          /\ seen' = [seen EXCEPT ![p] = lock.owner]
          /\ pc' = [pc EXCEPT ![p] = "probe"]
    /\ UNCHANGED <<lock, pidInUse, waited, held, wrongRemoval>>

\* Mistake: a probe that fails for want of permission is taken for "no process".
ProbeFails(p) ==
    /\ pc[p] = "probe"
    /\ pc' = [pc EXCEPT ![p] = "steal"]
    /\ seen' = [seen EXCEPT ![p] = NoPid]
    /\ UNCHANGED <<lock, pidInUse, waited, held, wrongRemoval>>

\* processIsAlive(owner.pid): stale when no process has that pid.
ProbeOwner(p) ==
    /\ pc[p] = "probe"
    /\ IF pidInUse[seen[p]]
       THEN GiveUpOrSleep(p)
       ELSE pc' = [pc EXCEPT ![p] = "steal"]
    /\ seen' = [seen EXCEPT ![p] = NoPid]
    /\ UNCHANGED <<lock, pidInUse, waited, held, wrongRemoval>>

\* rm(lockPath) and try again at once, without a look at the deadline.  The
\* file removed is whatever is at lockPath now.
Steal(p) ==
    /\ pc[p] = "steal"
    /\ lock' = NoFile
    /\ wrongRemoval' = (wrongRemoval \/ TakesFreshLock)
    /\ pc' = [pc EXCEPT ![p] = "open"]
    /\ UNCHANGED <<pidInUse, seen, waited, held>>

\* The poll interval has passed.
Poll(p) ==
    /\ pc[p] = "sleep"
    /\ pc' = [pc EXCEPT ![p] = "open"]
    /\ UNCHANGED <<lock, pidInUse, seen, waited, held, wrongRemoval>>

\* The closure acquireWalletLock returned: it removes whatever is at lockPath.
\* A later call of it finds its flag released set and does nothing.
Release(p) ==
    /\ pc[p] = "hold"
    /\ lock' = NoFile
    /\ wrongRemoval' =
          (wrongRemoval \/ (TakesFreshLock /\ lock.owner # p))
    /\ pc' = [pc EXCEPT ![p] = "idle"]
    /\ UNCHANGED <<pidInUse, seen, waited, held>>

-------------------------------------------------------------------------------
\* The process ends, by a crash anywhere or by a normal exit.
Terminate(p) ==
    /\ pc[p] # "dead"
    /\ pc' = [pc EXCEPT ![p] = "dead"]
    /\ pidInUse' = [pidInUse EXCEPT ![p] = FALSE]
    /\ seen' = [seen EXCEPT ![p] = NoPid]
    /\ UNCHANGED <<lock, waited, held, wrongRemoval>>

\* The operating system gives the pid of an ended run to another program, or
\* that program ends too.
ReusePid(p) ==
    /\ pc[p] = "dead"
    /\ pidInUse' = [pidInUse EXCEPT ![p] = ~@]
    /\ UNCHANGED <<lock, pc, seen, waited, held, wrongRemoval>>

Older(age) == IF age > StaleMs THEN age ELSE age + 1

\* Time passes.  The submit timeout bounds the time a live process keeps the
\* lock: no time passes once an owner has reached MaxHold.
Tick ==
    /\ \A p \in Pids : Owns(p) => held[p] < MaxHold
    /\ lock' = IF lock = NoFile THEN NoFile
               ELSE [lock EXCEPT !.age = Older(@)]
    /\ held' = [p \in Pids |-> IF Owns(p) THEN Older(held[p]) ELSE held[p]]
    /\ waited' = [p \in Pids |-> IF Waiting(p) /\ waited[p] < MaxWait
                                 THEN waited[p] + 1
                                 ELSE waited[p]]
    /\ UNCHANGED <<pc, pidInUse, seen, wrongRemoval>>

ProcessStep(p) ==
    \/ CreateLock(p) \/ FindLock(p)
    \/ WriteOwner(p)
    \/ Stat(p) \/ ReadOwner(p) \/ ProbeOwner(p)
    \/ Steal(p) \/ Poll(p) \/ Release(p)

Next ==
    \/ \E p \in Pids :
          Acquire(p) \/ ProcessStep(p) \/ Terminate(p) \/ ReusePid(p)
    \/ Tick

Spec == Init /\ [][Next]_vars

\* A process that is not dead runs on (its event loop drains), a holder
\* releases in the end (the submit loop settles), and time passes.
FairSpec ==
    /\ Spec
    /\ \A p \in Pids : WF_vars(ProcessStep(p))
    /\ WF_vars(Tick)

-------------------------------------------------------------------------------
\* The submit window is serialized: two live processes never own the lock of
\* one wallet at the same time.  "Serializing the submit window per wallet
\* closes that race on a single machine" (acurast-wallet-lock.ts:12).
SubmitWindowSerialized ==
    \A p, q \in Pids : Owns(p) /\ Owns(q) => p = q

\* A live owner whose hold is younger than the stealing age still has its own
\* file at lockPath, unless someone removed a fresh lock that was not its own.
\* This is what every other process relies on when its create fails.
OwnerHasFile ==
    ~wrongRemoval =>
        \A p \in Pids : Owns(p) /\ held[p] <= StaleMs =>
            lock # NoFile /\ lock.owner = p

\* Serialization depends on nothing else: as long as no fresh lock was removed
\* by another process, at most one of the owners is within the stealing age.
SerializedBarringWrongRemoval ==
    ~wrongRemoval =>
        \A p, q \in Pids :
            Owns(p) /\ Owns(q) /\ held[p] <= StaleMs /\ held[q] <= StaleMs
            => p = q

\* The lock implements the submit window: every step enters it when it is
\* empty, leaves it, or does not touch it.  No process enters while another is
\* inside, and none leaves by the act of another.
Window == INSTANCE SubmitWindow WITH inside <- {p \in Pids : Owns(p)}
ImplementsSubmitWindow == Window!Spec

\* A call of acquireWalletLock ends: the retry loop, whose steal branch skips
\* the deadline, cannot keep a live process in it for ever.
WaitEnds == \A p \in Pids : Waiting(p) ~> ~Waiting(p)

\* What acquireWalletLock keeps whoever overstays and whatever write fails: a
\* live owner has its file, and the lock excludes, unless a fresh lock was
\* removed.
LockSafe == TypeOK /\ OwnerHasFile /\ SerializedBarringWrongRemoval
===============================================================================
