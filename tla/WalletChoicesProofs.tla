-------------------------- MODULE WalletChoicesProofs --------------------------
(***************************************************************************)
(* What the wallet lock guarantees for any number of processes, any        *)
(* stealing age, waiting time and holding time, with and without failing   *)
(* writes; and what the choices are worth that a wallet pays for: the      *)
(* members of a launch, the processors of a job, and the capability        *)
(* reports that routes and launches select from.                           *)
(***************************************************************************)
EXTENDS WalletLock, DeployLaunch, ProcessorChoice, OperatorCapability, FiniteSetTheorems,
        WellFoundedInduction, TLAPS

-------------------------------------------------------------------------------
\* Every variable keeps its type (acquireWalletLock and its helpers).
LEMMA TypeInit == Init => TypeOK
<1>1. 0 \in 0 .. MaxWait /\ 0 \in Ages
  BY ConstantsOK DEF ConstantsOK, Ages
<1>2. "idle" \in Steps
  BY DEF Steps
<1> QED
  BY <1>1, <1>2 DEF Init, TypeOK

LEMMA TypeNext == TypeOK /\ [Next]_vars => TypeOK'
<1> SUFFICES ASSUME TypeOK, [Next]_vars PROVE TypeOK'
  OBVIOUS
<1> USE ConstantsOK, NoFileOK DEF ConstantsOK, NoFileOK
<1> USE DEF TypeOK, Files, Ages, Steps, WaitSteps, OwnerSteps
<1>1. ASSUME NEW p \in Pids, Acquire(p) PROVE TypeOK'
  BY <1>1 DEF Acquire
<1>2. ASSUME NEW p \in Pids, CreateLock(p) PROVE TypeOK'
  BY <1>2 DEF CreateLock
<1>3. ASSUME NEW p \in Pids, FindLock(p) PROVE TypeOK'
  BY <1>3 DEF FindLock
<1>4. ASSUME NEW p \in Pids, WriteOwner(p), OwnerIsWritten(p) PROVE TypeOK'
  BY <1>4 DEF WriteOwner, OwnerIsWritten
<1>5. ASSUME NEW p \in Pids, WriteOwner(p), WriteOwnerFails(p) PROVE TypeOK'
  BY <1>5 DEF WriteOwner, WriteOwnerFails
<1>6. ASSUME NEW p \in Pids, Stat(p) PROVE TypeOK'
  BY <1>6 DEF Stat, GiveUpOrSleep
<1>7. ASSUME NEW p \in Pids, ReadOwner(p) PROVE TypeOK'
  BY <1>7 DEF ReadOwner, GiveUpOrSleep, Readable
<1>8. ASSUME NEW p \in Pids, ProbeOwner(p) PROVE TypeOK'
  BY <1>8 DEF ProbeOwner, GiveUpOrSleep
<1>9. ASSUME NEW p \in Pids, Steal(p) PROVE TypeOK'
  BY <1>9 DEF Steal
<1>10. ASSUME NEW p \in Pids, Poll(p) PROVE TypeOK'
  BY <1>10 DEF Poll
<1>11. ASSUME NEW p \in Pids, Release(p) PROVE TypeOK'
  BY <1>11 DEF Release
<1>12. ASSUME NEW p \in Pids, Terminate(p) PROVE TypeOK'
  BY <1>12 DEF Terminate
<1>13. ASSUME NEW p \in Pids, ReusePid(p) PROVE TypeOK'
  BY <1>13 DEF ReusePid
<1>14. CASE Tick
  BY <1>14 DEF Tick, Older
<1>15. CASE UNCHANGED vars
  BY <1>15 DEF vars
<1> QED
  BY <1>1, <1>2, <1>3, <1>4, <1>5, <1>6, <1>7, <1>8, <1>9, <1>10, <1>11, <1>12,
     <1>13, <1>14, <1>15 DEF Next, ProcessStep, WriteOwner

THEOREM TypeCorrect == Spec => []TypeOK
BY TypeInit, TypeNext, PTL DEF Spec

-------------------------------------------------------------------------------
\* The invariant behind the two exclusion properties.  A lock file is never
\* older than the hold of its live owner: its clock starts at the create, or
\* again at the write, and both run together.  So a fresh lock of a live owner
\* is removed only by its owner, or wrongly.
AgeWithinHold ==
    lock # NoFile /\ Owns(lock.owner) => lock.age <= held[lock.owner]

IInv == TypeOK /\ AgeWithinHold /\ OwnerHasFile

LEMMA IInvInit == Init => IInv
<1> SUFFICES ASSUME Init PROVE IInv
  OBVIOUS
<1>1. TypeOK
  BY TypeInit
<1>2. \A p \in Pids : ~Owns(p)
  BY DEF Init, Owns, OwnerSteps
<1> QED
  BY <1>1, <1>2 DEF Init, IInv, AgeWithinHold, OwnerHasFile

\* A step that moves one process between steps in which it owns nothing, and
\* leaves the file alone, keeps the invariant.
LEMMA MoveKeepsIInv ==
    ASSUME IInv, TypeOK', NEW p \in Pids,
           pc[p] \notin OwnerSteps,
           \A q \in Pids : q # p => pc'[q] = pc[q],
           pc'[p] \notin OwnerSteps,
           UNCHANGED <<lock, held, wrongRemoval>>
    PROVE  IInv'
<1>1. AgeWithinHold'
  BY DEF IInv, TypeOK, AgeWithinHold, Owns, Files
<1>2. OwnerHasFile'
  BY DEF IInv, TypeOK, OwnerHasFile, Owns
<1> QED
  BY <1>1, <1>2 DEF IInv

\* Neither does the removal of the file by p, which does not own it afterwards,
\* unless it takes a fresh lock from another owner.
LEMMA RemovalKeepsIInv ==
    ASSUME IInv, TypeOK', NEW p \in Pids,
           lock' = NoFile, UNCHANGED held,
           \A q \in Pids : q # p => pc'[q] = pc[q],
           pc'[p] \notin OwnerSteps,
           wrongRemoval' = (wrongRemoval \/ (TakesFreshLock /\ lock.owner # p))
    PROVE  IInv'
<1>1. AgeWithinHold'
  BY DEF AgeWithinHold
<1>2. ASSUME ~wrongRemoval', NEW q \in Pids, Owns(q)', held[q] <= StaleMs
      PROVE  FALSE
  <2>1. q # p /\ Owns(q)
    BY <1>2 DEF Owns
  <2>2. lock # NoFile /\ lock.owner = q
    BY <1>2, <2>1 DEF IInv, OwnerHasFile
  <2>3. lock.age <= held[q]
    BY <2>1, <2>2 DEF IInv, AgeWithinHold
  <2>4. lock.age \in Nat /\ held[q] \in Nat /\ StaleMs \in Nat
    BY <2>2, ConstantsOK DEF ConstantsOK, IInv, TypeOK, Files, Ages
  <2>5. ~Aged
    BY <1>2, <2>3, <2>4 DEF Aged
  <2> QED
    BY <1>2, <2>1, <2>2, <2>5 DEF TakesFreshLock
<1>3. OwnerHasFile'
  BY <1>2 DEF OwnerHasFile
<1> QED
  BY <1>1, <1>3 DEF IInv

\* The two files that are written are files.
LEMMA NewFileIsFile ==
    ASSUME NEW p \in Pids, NEW w \in BOOLEAN
    PROVE  /\ [owner |-> p, written |-> w, age |-> 0] \in Files
           /\ [owner |-> p, written |-> w, age |-> 0] # NoFile
<1>1. [owner |-> p, written |-> w, age |-> 0] \in Files
  BY ConstantsOK DEF ConstantsOK, Files, Ages
<1> QED
  BY <1>1, NoFileOK DEF NoFileOK

LEMMA IInvNext == IInv /\ [Next]_vars => IInv'
<1> SUFFICES ASSUME IInv, [Next]_vars PROVE IInv'
  OBVIOUS
<1> USE DEF OwnerSteps
<1>t. TypeOK /\ TypeOK'
  BY TypeNext DEF IInv
<1>1. ASSUME NEW p \in Pids, Acquire(p) PROVE IInv'
  BY <1>t, <1>1, MoveKeepsIInv DEF Acquire, TypeOK
<1>2. ASSUME NEW p \in Pids, CreateLock(p) PROVE IInv'
  <2>1. /\ lock' = [owner |-> p, written |-> FALSE, age |-> 0]
        /\ lock' \in Files /\ lock' # NoFile
    BY <1>2, NewFileIsFile DEF CreateLock
  <2>2. pc' = [pc EXCEPT ![p] = "write"] /\ held'[p] = 0
    BY <1>2, <1>t DEF CreateLock, TypeOK
  <2>3. AgeWithinHold'
    BY <2>1, <2>2 DEF AgeWithinHold
  <2>4. ASSUME ~wrongRemoval, NEW q \in Pids, q # p, Owns(q), held[q] <= StaleMs
        PROVE  FALSE
    BY <1>2, <2>4 DEF CreateLock, IInv, OwnerHasFile
  <2>5. OwnerHasFile'
    BY <1>2, <1>t, <2>1, <2>2, <2>4 DEF CreateLock, OwnerHasFile, Owns, TypeOK
  <2> QED
    BY <1>t, <2>3, <2>5 DEF IInv
<1>3. ASSUME NEW p \in Pids, FindLock(p) PROVE IInv'
  BY <1>t, <1>3, MoveKeepsIInv DEF FindLock, TypeOK
<1>4. ASSUME NEW p \in Pids, WriteOwner(p), OwnerIsWritten(p) PROVE IInv'
  <2>1. /\ pc[p] = "write" /\ pc' = [pc EXCEPT ![p] = "hold"]
        /\ UNCHANGED <<held, wrongRemoval>>
    BY <1>4 DEF WriteOwner, OwnerIsWritten
  <2>2. \A q \in Pids : Owns(q)' <=> Owns(q)
    BY <1>t, <2>1 DEF Owns, TypeOK
  <2>3. CASE lock # NoFile /\ lock.owner = p
    <3>1. /\ lock' = [owner |-> p, written |-> TRUE, age |-> 0]
          /\ lock' \in Files /\ lock' # NoFile
      BY <1>4, <2>3, NewFileIsFile DEF WriteOwner, OwnerIsWritten
    <3>2. held[p] >= 0
      BY <1>t, ConstantsOK DEF TypeOK, Ages, ConstantsOK
    <3> QED
      BY <1>t, <2>1, <2>2, <2>3, <3>1, <3>2 DEF IInv, AgeWithinHold, OwnerHasFile
  <2>4. CASE ~(lock # NoFile /\ lock.owner = p)
    <3>1. lock' = lock
      BY <1>4, <2>4 DEF WriteOwner, OwnerIsWritten
    <3>2. lock # NoFile => lock.owner \in Pids
      BY <1>t DEF TypeOK, Files
    <3> QED
      BY <1>t, <2>1, <2>2, <3>1, <3>2 DEF IInv, AgeWithinHold, OwnerHasFile
  <2> QED
    BY <2>3, <2>4
<1>5. ASSUME NEW p \in Pids, WriteOwner(p), WriteOwnerFails(p) PROVE IInv'
  <2>1. /\ pc' = [pc EXCEPT ![p] = "failed"]
        /\ UNCHANGED <<lock, held, wrongRemoval>>
    BY <1>5 DEF WriteOwner, WriteOwnerFails
  <2>2. \A q \in Pids : Owns(q)' => Owns(q)
    BY <1>t, <2>1 DEF Owns, TypeOK
  <2>3. lock # NoFile => lock.owner \in Pids
    BY <1>t DEF TypeOK, Files
  <2> QED
    BY <1>t, <2>1, <2>2, <2>3 DEF IInv, AgeWithinHold, OwnerHasFile
<1>6. ASSUME NEW p \in Pids, Stat(p) PROVE IInv'
  BY <1>t, <1>6, MoveKeepsIInv DEF Stat, GiveUpOrSleep, TypeOK
<1>7. ASSUME NEW p \in Pids, ReadOwner(p) PROVE IInv'
  BY <1>t, <1>7, MoveKeepsIInv DEF ReadOwner, GiveUpOrSleep, TypeOK
<1>8. ASSUME NEW p \in Pids, ProbeOwner(p) PROVE IInv'
  BY <1>t, <1>8, MoveKeepsIInv DEF ProbeOwner, GiveUpOrSleep, TypeOK
<1>9. ASSUME NEW p \in Pids, Steal(p) PROVE IInv'
  <2>1. TakesFreshLock => lock.owner # p
    BY <1>9 DEF Steal, TakesFreshLock, Owns
  <2>2. wrongRemoval' = (wrongRemoval \/ (TakesFreshLock /\ lock.owner # p))
    BY <1>9, <2>1 DEF Steal
  <2> QED
    BY <1>t, <1>9, <2>2, RemovalKeepsIInv DEF Steal, TypeOK
<1>10. ASSUME NEW p \in Pids, Poll(p) PROVE IInv'
  BY <1>t, <1>10, MoveKeepsIInv DEF Poll, TypeOK
<1>11. ASSUME NEW p \in Pids, Release(p) PROVE IInv'
  BY <1>t, <1>11, RemovalKeepsIInv DEF Release, TypeOK
<1>12. ASSUME NEW p \in Pids, Terminate(p) PROVE IInv'
  <2>1. /\ pc' = [pc EXCEPT ![p] = "dead"]
        /\ UNCHANGED <<lock, held, wrongRemoval>>
    BY <1>12 DEF Terminate
  <2>2. \A q \in Pids : Owns(q)' => Owns(q)
    BY <1>t, <2>1 DEF Owns, TypeOK
  <2>3. lock # NoFile => lock.owner \in Pids
    BY <1>t DEF TypeOK, Files
  <2> QED
    BY <1>t, <2>1, <2>2, <2>3 DEF IInv, AgeWithinHold, OwnerHasFile
<1>13. ASSUME NEW p \in Pids, ReusePid(p) PROVE IInv'
  BY <1>t, <1>13 DEF ReusePid, IInv, AgeWithinHold, OwnerHasFile, Owns
<1>14. CASE Tick
  <2>1. UNCHANGED <<pc, wrongRemoval>>
    BY <1>14 DEF Tick
  <2>2. CASE lock = NoFile
    <3>1. lock' = NoFile
      BY <1>14, <2>2 DEF Tick
    <3>2. \A q \in Pids : Owns(q) => held[q] <= held'[q]
      BY <1>14, <1>t, ConstantsOK DEF Tick, TypeOK, Ages, Older, ConstantsOK
    <3>3. \A q \in Pids : held[q] \in Nat /\ held'[q] \in Nat /\ StaleMs \in Nat
      BY <1>t, ConstantsOK DEF TypeOK, Ages, ConstantsOK
    <3> QED
      BY <1>t, <2>1, <2>2, <3>1, <3>2, <3>3 DEF IInv, AgeWithinHold, OwnerHasFile, Owns
  <2>3. CASE lock # NoFile
    <3>1. lock \in Files
      BY <1>t, <2>3 DEF TypeOK
    <3>2. /\ lock' \in Files /\ lock' # NoFile
          /\ lock'.owner = lock.owner /\ lock'.age = Older(lock.age)
      BY <1>14, <1>t, <2>3, <3>1, NoFileOK, ConstantsOK
      DEF Tick, Files, TypeOK, NoFileOK, Ages, Older, ConstantsOK
    <3>3. \A q \in Pids : Owns(q) => held'[q] = Older(held[q])
      BY <1>14, <1>t DEF Tick, TypeOK
    <3>4. /\ lock.owner \in Pids /\ lock.age \in Nat /\ StaleMs \in Nat
          /\ \A q \in Pids : held[q] \in Nat
      BY <1>t, <3>1, ConstantsOK DEF TypeOK, Files, Ages, ConstantsOK
    <3>5. AgeWithinHold'
      <4> SUFFICES ASSUME Owns(lock.owner) PROVE lock'.age <= held'[lock.owner]
        BY <2>1, <3>2 DEF AgeWithinHold, Owns
      <4>1. lock.age <= held[lock.owner]
        BY <2>3 DEF IInv, AgeWithinHold
      <4>2. lock.age <= StaleMs + 1 /\ held[lock.owner] <= StaleMs + 1
        BY <1>t, <3>1, <3>4 DEF TypeOK, Files, Ages
      <4> QED
        BY <3>2, <3>3, <3>4, <4>1, <4>2 DEF Older
    <3>6. OwnerHasFile'
      BY <2>1, <3>2, <3>3, <3>4 DEF IInv, OwnerHasFile, Owns, Older
    <3> QED
      BY <1>t, <3>5, <3>6 DEF IInv
  <2> QED
    BY <2>2, <2>3
<1>15. CASE UNCHANGED vars
  BY <1>t, <1>15 DEF vars, IInv, AgeWithinHold, OwnerHasFile, Owns
<1> QED
  BY <1>1, <1>2, <1>3, <1>4, <1>5, <1>6, <1>7, <1>8, <1>9, <1>10, <1>11, <1>12,
     <1>13, <1>14, <1>15 DEF Next, ProcessStep, WriteOwner

\* A live owner whose hold is younger than the stealing age has its file at
\* lockPath, unless a fresh lock was removed by a process that did not own it
\* (release and the steal branch of acquireWalletLock).
THEOREM OwnerKeepsFile == Spec => []OwnerHasFile
BY IInvInit, IInvNext, PTL DEF Spec, IInv

\* And so two processes within the stealing age never own the lock together,
\* with the same exception.
THEOREM Serialized == Spec => []SerializedBarringWrongRemoval
<1>1. IInv => SerializedBarringWrongRemoval
  BY DEF IInv, OwnerHasFile, SerializedBarringWrongRemoval
<1> QED
  BY <1>1, IInvInit, IInvNext, PTL DEF Spec

-------------------------------------------------------------------------------
\* Two processes that stay below the stealing age, on a file system that takes
\* their writes: "two local CLI processes" (acurast-wallet-lock.ts:8).
Pair ==
    /\ \A p, q, r \in Pids : p = q \/ q = r \/ p = r
    /\ MaxHold <= StaleMs
    /\ ~WriteMayFail

\* A process is about to steal only if the other one is dead, because a file
\* belongs to a live owner or to a dead process, and a pid that nobody has
\* belonged to a dead one.
PairInv ==
    /\ IInv
    /\ ~wrongRemoval
    /\ \A p \in Pids : Owns(p) => held[p] <= MaxHold
    /\ \A p \in Pids : pc[p] = "steal" => \A q \in Pids : q # p => pc[q] = "dead"
    /\ \A p \in Pids : pc[p] = "probe" => seen[p] \in Pids
    /\ \A p \in Pids : ~pidInUse[p] => pc[p] = "dead"
    /\ lock # NoFile => Owns(lock.owner) \/ pc[lock.owner] = "dead"

LEMMA PairInvInit == Init => PairInv
BY IInvInit DEF Init, PairInv, Owns, OwnerSteps

LEMMA PairInvNext ==
    ASSUME Pair
    PROVE  PairInv /\ [Next]_vars => PairInv'
<1> SUFFICES ASSUME PairInv, [Next]_vars PROVE PairInv'
  OBVIOUS
<1>t. IInv /\ IInv' /\ TypeOK /\ TypeOK'
  BY IInvNext DEF PairInv, IInv
<1>f. lock # NoFile => lock.owner \in Pids /\ lock.age \in Nat
  BY <1>t, ConstantsOK DEF TypeOK, Files, Ages, ConstantsOK
<1>h. /\ \A p \in Pids : held[p] \in Nat
      /\ MaxHold \in Nat /\ StaleMs \in Nat
  BY <1>t, ConstantsOK DEF TypeOK, Ages, ConstantsOK
<1>o. \A p \in Pids : Owns(p) => lock # NoFile /\ lock.owner = p
  BY <1>t, <1>h DEF PairInv, Pair, IInv, OwnerHasFile
<1> USE DEF OwnerSteps
<1>1. ASSUME NEW p \in Pids, Acquire(p) PROVE PairInv'
  BY <1>t, <1>f, <1>1 DEF Acquire, TypeOK, PairInv, Owns
<1>2. ASSUME NEW p \in Pids, CreateLock(p) PROVE PairInv'
  <2>1. lock' = [owner |-> p, written |-> FALSE, age |-> 0]
    BY <1>2 DEF CreateLock
  <2> QED
    BY <1>t, <1>f, <1>h, <1>2, <2>1 DEF CreateLock, TypeOK, PairInv, Owns
<1>3. ASSUME NEW p \in Pids, FindLock(p) PROVE PairInv'
  BY <1>t, <1>f, <1>3 DEF FindLock, TypeOK, PairInv, Owns
<1>4. ASSUME NEW p \in Pids, WriteOwner(p), OwnerIsWritten(p) PROVE PairInv'
  <2>1. lock # NoFile /\ lock.owner = p
    BY <1>o, <1>4 DEF WriteOwner, OwnerIsWritten, Owns
  <2>2. lock' = [owner |-> p, written |-> TRUE, age |-> 0]
    BY <1>4, <2>1 DEF WriteOwner, OwnerIsWritten
  <2> QED
    BY <1>t, <1>f, <1>4, <2>2 DEF WriteOwner, OwnerIsWritten, TypeOK, PairInv, Owns
<1>5. ASSUME NEW p \in Pids, WriteOwner(p), WriteOwnerFails(p) PROVE PairInv'
  BY <1>5 DEF WriteOwner, WriteOwnerFails, Pair
<1>6. ASSUME NEW p \in Pids, Stat(p) PROVE PairInv'
  <2>1. CASE lock # NoFile /\ Aged
    <3>1. ~Owns(lock.owner)
      BY <1>t, <1>f, <1>h, <2>1 DEF PairInv, Pair, IInv, AgeWithinHold, Aged
    <3>2. pc[lock.owner] = "dead" /\ lock.owner # p
      BY <1>6, <2>1, <3>1 DEF PairInv, Stat
    <3>3. \A q \in Pids : q # p => pc[q] = "dead"
      BY <1>f, <2>1, <3>2 DEF Pair
    <3> QED
      BY <1>t, <1>f, <1>6, <2>1, <3>3 DEF Stat, TypeOK, PairInv, Owns
  <2>2. CASE ~(lock # NoFile /\ Aged)
    BY <1>t, <1>f, <1>6, <2>2 DEF Stat, GiveUpOrSleep, TypeOK, PairInv, Owns
  <2> QED
    BY <2>1, <2>2
<1>7. ASSUME NEW p \in Pids, ReadOwner(p) PROVE PairInv'
  BY <1>t, <1>f, <1>7 DEF ReadOwner, Readable, GiveUpOrSleep, TypeOK, PairInv, Owns
<1>8. ASSUME NEW p \in Pids, ProbeOwner(p) PROVE PairInv'
  <2>1. CASE pidInUse[seen[p]]
    BY <1>t, <1>f, <1>8, <2>1 DEF ProbeOwner, GiveUpOrSleep, TypeOK, PairInv, Owns
  <2>2. CASE ~pidInUse[seen[p]]
    <3>1. seen[p] \in Pids /\ pc[seen[p]] = "dead" /\ seen[p] # p
      BY <1>8, <2>2 DEF ProbeOwner, PairInv
    <3>2. \A q \in Pids : q # p => pc[q] = "dead"
      BY <3>1 DEF Pair
    <3> QED
      BY <1>t, <1>f, <1>8, <2>2, <3>2 DEF ProbeOwner, TypeOK, PairInv, Owns
  <2> QED
    BY <2>1, <2>2
<1>9. ASSUME NEW p \in Pids, Steal(p) PROVE PairInv'
  <2>1. \A q \in Pids : ~Owns(q)
    BY <1>9 DEF Steal, PairInv, Owns
  <2>2. ~TakesFreshLock
    BY <1>f, <2>1 DEF TakesFreshLock
  <2> QED
    BY <1>t, <1>f, <1>9, <2>2 DEF Steal, TypeOK, PairInv, Owns
<1>10. ASSUME NEW p \in Pids, Poll(p) PROVE PairInv'
  BY <1>t, <1>f, <1>10 DEF Poll, TypeOK, PairInv, Owns
<1>11. ASSUME NEW p \in Pids, Release(p) PROVE PairInv'
  <2>1. lock.owner = p
    BY <1>o, <1>11 DEF Release, Owns
  <2> QED
    BY <1>t, <1>f, <1>11, <2>1 DEF Release, TypeOK, PairInv, Owns
<1>12. ASSUME NEW p \in Pids, Terminate(p) PROVE PairInv'
  BY <1>t, <1>f, <1>12 DEF Terminate, TypeOK, PairInv, Owns
<1>13. ASSUME NEW p \in Pids, ReusePid(p) PROVE PairInv'
  BY <1>t, <1>f, <1>13 DEF ReusePid, TypeOK, PairInv, Owns
<1>14. CASE Tick
  <2>1. /\ UNCHANGED <<pc, pidInUse, seen, wrongRemoval>>
        /\ \A p \in Pids : Owns(p) => held[p] < MaxHold
    BY <1>14 DEF Tick
  <2>2. \A p \in Pids : Owns(p) => held'[p] <= MaxHold
    BY <1>14, <1>t, <1>h, <2>1 DEF Tick, TypeOK, Older
  <2>3. lock' # NoFile => lock # NoFile /\ lock'.owner = lock.owner
    <3>1. CASE lock = NoFile
      BY <1>14, <3>1 DEF Tick
    <3>2. CASE lock # NoFile
      BY <1>14, <1>t, <3>2 DEF Tick, TypeOK, Files
    <3> QED
      BY <3>1, <3>2
  <2> QED
    BY <1>t, <2>1, <2>2, <2>3 DEF PairInv, Owns
<1>15. CASE UNCHANGED vars
  BY <1>t, <1>15 DEF vars, PairInv, Owns
<1> QED
  BY <1>1, <1>2, <1>3, <1>4, <1>5, <1>6, <1>7, <1>8, <1>9, <1>10, <1>11, <1>12,
     <1>13, <1>14, <1>15 DEF Next, ProcessStep, WriteOwner

\* For such a pair the submit window is serialized, whatever crashes, reuses
\* of a pid and retries happen.
THEOREM PairSerialized ==
    ASSUME Pair
    PROVE  Spec => []SubmitWindowSerialized
<1>1. PairInv => SubmitWindowSerialized
  BY ConstantsOK DEF PairInv, IInv, TypeOK, Ages, ConstantsOK, Pair, OwnerHasFile,
     SubmitWindowSerialized
<1> QED
  BY <1>1, PairInvInit, PairInvNext, PTL DEF Spec

-------------------------------------------------------------------------------
\* Each step of a pair is a step of the submit window or leaves it alone.
LEMMA WindowStep ==
    ASSUME Pair, PairInv, [Next]_vars
    PROVE  [Window!Next]_{p \in Pids : Owns(p)}
<1> DEFINE inside == {p \in Pids : Owns(p)}
<1> SUFFICES [Window!Next]_inside
  OBVIOUS
<1>t. TypeOK /\ IInv
  BY DEF PairInv, IInv
<1>o. \A p \in Pids : Owns(p) => lock # NoFile /\ lock.owner = p
  BY <1>t, ConstantsOK
  DEF PairInv, Pair, IInv, OwnerHasFile, TypeOK, Ages, ConstantsOK
<1>e. ASSUME \A p \in Pids : Owns(p)' <=> Owns(p) PROVE [Window!Next]_inside
  BY <1>e
<1>l. ASSUME NEW p \in Pids, Owns(p), ~Owns(p)',
             \A q \in Pids : q # p => (Owns(q)' <=> Owns(q))
      PROVE  [Window!Next]_inside
  <2>1. p \in inside /\ inside' = inside \ {p}
    BY <1>l
  <2> QED
    BY <2>1 DEF Window!Next, Window!Leave
<1> HIDE DEF inside
<1> USE DEF OwnerSteps
<1>1. ASSUME NEW p \in Pids, Acquire(p) PROVE [Window!Next]_inside
  BY <1>e, <1>t, <1>1 DEF Acquire, TypeOK, Owns
<1>2. ASSUME NEW p \in Pids, CreateLock(p) PROVE [Window!Next]_inside
  <2>1. \A q \in Pids : ~Owns(q)
    BY <1>o, <1>2 DEF CreateLock
  <2>2. \A q \in Pids : Owns(q)' <=> q = p
    BY <1>t, <1>2, <2>1 DEF CreateLock, TypeOK, Owns
  <2>3. inside = {} /\ inside' = {p}
    BY <2>1, <2>2 DEF inside
  <2> QED
    BY <2>3 DEF inside, Window!Next, Window!Enter
<1>3. ASSUME NEW p \in Pids, FindLock(p) PROVE [Window!Next]_inside
  BY <1>e, <1>t, <1>3 DEF FindLock, TypeOK, Owns
<1>4. ASSUME NEW p \in Pids, WriteOwner(p), OwnerIsWritten(p) PROVE [Window!Next]_inside
  BY <1>e, <1>t, <1>4 DEF WriteOwner, OwnerIsWritten, TypeOK, Owns
<1>5. ASSUME NEW p \in Pids, WriteOwner(p), WriteOwnerFails(p) PROVE [Window!Next]_inside
  BY <1>5 DEF WriteOwner, WriteOwnerFails, Pair
<1>6. ASSUME NEW p \in Pids, Stat(p) PROVE [Window!Next]_inside
  BY <1>e, <1>t, <1>6 DEF Stat, GiveUpOrSleep, TypeOK, Owns
<1>7. ASSUME NEW p \in Pids, ReadOwner(p) PROVE [Window!Next]_inside
  BY <1>e, <1>t, <1>7 DEF ReadOwner, GiveUpOrSleep, TypeOK, Owns
<1>8. ASSUME NEW p \in Pids, ProbeOwner(p) PROVE [Window!Next]_inside
  BY <1>e, <1>t, <1>8 DEF ProbeOwner, GiveUpOrSleep, TypeOK, Owns
<1>9. ASSUME NEW p \in Pids, Steal(p) PROVE [Window!Next]_inside
  BY <1>e, <1>t, <1>9 DEF Steal, TypeOK, Owns
<1>10. ASSUME NEW p \in Pids, Poll(p) PROVE [Window!Next]_inside
  BY <1>e, <1>t, <1>10 DEF Poll, TypeOK, Owns
<1>11. ASSUME NEW p \in Pids, Release(p) PROVE [Window!Next]_inside
  BY <1>l, <1>t, <1>11 DEF Release, TypeOK, Owns
<1>12. ASSUME NEW p \in Pids, Terminate(p) PROVE [Window!Next]_inside
  <2>1. CASE Owns(p)
    BY <1>l, <1>t, <1>12, <2>1 DEF Terminate, TypeOK, Owns
  <2>2. CASE ~Owns(p)
    BY <1>e, <1>t, <1>12, <2>2 DEF Terminate, TypeOK, Owns
  <2> QED
    BY <2>1, <2>2
<1>13. ASSUME NEW p \in Pids, ReusePid(p) PROVE [Window!Next]_inside
  BY <1>e, <1>13 DEF ReusePid, Owns
<1>14. CASE Tick
  BY <1>e, <1>14 DEF Tick, Owns
<1>15. CASE UNCHANGED vars
  BY <1>e, <1>15 DEF vars, Owns
<1> QED
  BY <1>1, <1>2, <1>3, <1>4, <1>5, <1>6, <1>7, <1>8, <1>9, <1>10, <1>11, <1>12,
     <1>13, <1>14, <1>15 DEF Next, ProcessStep, WriteOwner

\* The lock of a pair implements the abstract submit window.
THEOREM PairImplementsWindow ==
    ASSUME Pair
    PROVE  Spec => ImplementsSubmitWindow
<1>1. Init => Window!Init
  BY DEF Init, Window!Init, Owns, OwnerSteps
<1>2. PairInv /\ [Next]_vars => [Window!Next]_{p \in Pids : Owns(p)}
  BY WindowStep
<1> QED
  BY <1>1, <1>2, PairInvInit, PairInvNext, PTL
  DEF Spec, ImplementsSubmitWindow, Window!Spec

\* The three together: types, the file of a live owner, and exclusion as long
\* as no fresh lock is removed by another.
THEOREM LockIsSafe == Spec => []LockSafe
  BY TypeCorrect, OwnerKeepsFile, Serialized, PTL DEF LockSafe

-------------------------------------------------------------------------------
(***************************************************************************)
(* Sets of natural numbers                                                 *)
(***************************************************************************)

\* Natural numbers are well-founded: a set of them has a least one.
LEMMA NatMin == ASSUME NEW T, T \subseteq Nat, T # {} PROVE \E x \in T : \A y \in T : x <= y
<1>1. PICK R : R = OpToRel(<, Nat)
  OBVIOUS
<1>2. R = {ss \in Nat \X Nat : ss[1] < ss[2]}
  BY <1>1 DEF OpToRel
<1>3. IsWellFoundedOn(R, Nat)
  BY <1>1, NatLessThanWellFounded
<1>4. PICK x \in T : \A y \in T : <<y, x>> \notin R
  BY <1>3, WFMin
<1>5. ASSUME NEW y \in T, ~(x <= y) PROVE FALSE
  <2>1. x \in Nat /\ y \in Nat /\ y < x
    BY <1>5
  <2>2. <<y, x>> \in R
    BY <1>2, <2>1
  <2> QED
    BY <1>4, <2>2
<1> QED
  BY <1>5

-------------------------------------------------------------------------------
(***************************************************************************)
(* What a launch chooses                                                   *)
(***************************************************************************)

\* Candidates of the capacity are told apart by their processor and their source.
ToldApart(cands) == \A c, d \in cands : c.proc = d.proc /\ c.src = d.src => c = d

\* The keys of a candidate are numbers.
LEMMA KeysAreNumbers ==
  ASSUME NEW c \in Candidates
  PROVE  c.load \in Nat /\ c.proc \in Nat /\ c.src \in Nat
<1>1. c.load \in 0 .. RouteCapacity /\ c.proc \in LaunchProcs /\ c.src \in 1 .. NumRelays
  BY DEF Candidates, ControlRelays
<1>2. RouteCapacity \in Nat /\ NumRelays \in Nat
  BY LaunchOK DEF LaunchOK
<1>3. LaunchProcs \subseteq Nat
  BY LaunchOK DEF LaunchOK, LaunchProcs
<1>4. c.src \in Nat
  BY <1>1, <1>2
<1>5. c.load \in Nat
  BY <1>1, <1>2
<1>6. c.proc \in Nat
  BY <1>1, <1>3
<1> QED
  BY <1>4, <1>5, <1>6

\* compareLaunchDemoMembers, with the sources in their order, is total and strict.
LEMMA SortsIsTotal ==
  ASSUME NEW c \in Candidates, NEW d \in Candidates
  PROVE  /\ ~SortsBefore(c, c)
         /\ SortsBefore(c, d) => ~SortsBefore(d, c)
         /\ SortsBefore(c, d) \/ SortsBefore(d, c) \/ (c.proc = d.proc /\ c.src = d.src)
<1>1. /\ c.load \in Nat /\ c.proc \in Nat /\ c.src \in Nat
      /\ d.load \in Nat /\ d.proc \in Nat /\ d.src \in Nat
  BY KeysAreNumbers
<1> QED
  BY <1>1 DEF SortsBefore

\* Of the candidates of a gateway one sorts before all others.
LEMMA GatewayHasFirst ==
  ASSUME NEW cands, cands \subseteq Candidates, ToldApart(cands), NEW c \in cands
  PROVE  \E b \in FirstOfGateways(cands) : Gw(b) = Gw(c)
<1> DEFINE Same == {d \in cands : Gw(d) = Gw(c)}
<1>1. \A d \in Same : d.load \in Nat /\ d.proc \in Nat /\ d.src \in Nat
  BY KeysAreNumbers
<1>2. PICK x \in {d.load : d \in Same} : \A y \in {d.load : d \in Same} : x <= y
  <2>1. {d.load : d \in Same} \subseteq Nat /\ {d.load : d \in Same} # {}
    BY <1>1
  <2> QED
    BY <2>1, NatMin
<1> DEFINE Light == {d \in Same : d.load = x}
<1>3. PICK p \in {d.proc : d \in Light} : \A y \in {d.proc : d \in Light} : p <= y
  <2>1. {d.proc : d \in Light} \subseteq Nat /\ {d.proc : d \in Light} # {}
    BY <1>1, <1>2
  <2> QED
    BY <2>1, NatMin
<1> DEFINE Low == {d \in Light : d.proc = p}
<1>4. PICK r \in {d.src : d \in Low} : \A y \in {d.src : d \in Low} : r <= y
  <2>1. {d.src : d \in Low} \subseteq Nat /\ {d.src : d \in Low} # {}
    BY <1>1, <1>3
  <2> QED
    BY <2>1, NatMin
<1>5. PICK b \in Low : b.src = r
  BY <1>4
<1>6. b \in cands /\ Gw(b) = Gw(c) /\ b.load = x /\ b.proc = p
  BY <1>5
<1>7. ASSUME NEW d \in cands, Gw(d) = Gw(b), d # b PROVE SortsBefore(b, d)
  <2>1. d \in Same /\ b.load <= d.load
    BY <1>6, <1>7, <1>2
  <2>2. d.load = b.load => d \in Light /\ b.proc <= d.proc
    BY <2>1, <1>6, <1>3
  <2>3. d.load = b.load /\ d.proc = b.proc => b.src <= d.src
    BY <2>2, <1>5, <1>6, <1>4
  <2>4. d.load = b.load /\ d.proc = b.proc => b.src # d.src
    BY <1>6, <1>7 DEF ToldApart
  <2>5. b.load \in Nat /\ b.proc \in Nat /\ b.src \in Nat /\ d.load \in Nat /\ d.proc \in Nat /\ d.src \in Nat
    BY <2>1, <1>1, <1>5
  <2> QED
    BY <2>1, <2>2, <2>3, <2>4, <2>5 DEF SortsBefore
<1> QED
  BY <1>6, <1>7 DEF FirstOfGateways

\* What a sequence of the pool is: different candidates, as many as were asked for,
\* and the first of a gateway that is left out comes after none but such firsts.
LEMMA PoolIsOrdered ==
  ASSUME NEW cands, cands \subseteq Candidates, NEW s \in Pool(cands)
  PROVE  /\ s \in [1 .. launch.flags.count -> cands]
         /\ launch.flags.count \in Nat => \A i, j \in 1 .. launch.flags.count : s[i] = s[j] => i = j
         /\ \A b \in FirstOfGateways(cands) :
               (\A i \in DOMAIN s : s[i] # b) => \A i \in DOMAIN s : s[i] \in FirstOfGateways(cands)
<1> DEFINE Firsts == FirstOfGateways(cands)
<1>1. /\ s \in [1 .. launch.flags.count -> cands]
      /\ \A i, j \in DOMAIN s : i < j => Precedes(s[i], s[j], Firsts)
      /\ \A c \in cands : (\A i \in DOMAIN s : s[i] # c) =>
                            \A i \in DOMAIN s : Precedes(s[i], c, Firsts)
  BY DEF Pool, TakenInOrder
<1>2. ASSUME launch.flags.count \in Nat, NEW i \in 1 .. launch.flags.count,
             NEW j \in 1 .. launch.flags.count, i < j
      PROVE  s[i] # s[j]
  <2>1. Precedes(s[i], s[j], Firsts) /\ s[i] \in Candidates
    BY <1>1, <1>2
  <2>2. ~SortsBefore(s[i], s[i])
    BY <2>1, SortsIsTotal
  <2> QED
    BY <2>1, <2>2 DEF Precedes
<1>3. ASSUME launch.flags.count \in Nat, NEW i \in 1 .. launch.flags.count,
             NEW j \in 1 .. launch.flags.count, s[i] = s[j]
      PROVE  i = j
  <2>1. i < j \/ j < i \/ i = j
    BY <1>3
  <2> QED
    BY <2>1, <1>2, <1>3
<1>4. FirstOfGateways(cands) \subseteq cands
  BY DEF FirstOfGateways
<1> QED
  BY <1>1, <1>3, <1>4 DEF Precedes

\* A group that leaves a gateway out takes one candidate of each gateway it is on.
LEMMA PoolIsSpread ==
  ASSUME NEW cands, cands \subseteq Candidates, ToldApart(cands), NEW s \in Pool(cands),
         launch.flags.count \in Nat, NEW c \in cands, \A i \in DOMAIN s : Gw(s[i]) # Gw(c)
  PROVE  Cardinality({Gw(s[i]) : i \in DOMAIN s}) = launch.flags.count
<1> DEFINE n == launch.flags.count
           Taken1 == {Gw(s[i]) : i \in DOMAIN s}
           f == [i \in 1 .. n |-> Gw(s[i])]
<1>1. DOMAIN s = 1 .. n /\ \A i \in 1 .. n : s[i] \in cands
  BY PoolIsOrdered
<1>2. \A i, j \in 1 .. n : s[i] = s[j] => i = j
  BY PoolIsOrdered
<1>3. PICK b \in FirstOfGateways(cands) : Gw(b) = Gw(c)
  BY GatewayHasFirst
<1>4. \A i \in DOMAIN s : s[i] # b
  BY <1>3
<1>5. \A i \in DOMAIN s : s[i] \in FirstOfGateways(cands)
  BY <1>3, <1>4, PoolIsOrdered
<1>6. ASSUME NEW i \in 1 .. n, NEW j \in 1 .. n, Gw(s[i]) = Gw(s[j]) PROVE i = j
  <2>1. s[i] \in FirstOfGateways(cands) /\ s[j] \in FirstOfGateways(cands)
    BY <1>1, <1>5
  <2>2. s[i] # s[j] => SortsBefore(s[i], s[j]) /\ SortsBefore(s[j], s[i])
    BY <2>1, <1>6 DEF FirstOfGateways
  <2>3. SortsBefore(s[i], s[j]) => ~SortsBefore(s[j], s[i])
    BY <1>1, SortsIsTotal
  <2>4. s[i] = s[j]
    BY <2>2, <2>3
  <2> QED
    BY <2>4, <1>2
<1>7. f \in Surjection(1 .. n, Taken1) /\ f \in Injection(1 .. n, Taken1)
  <2>1. f \in [1 .. n -> Taken1] /\ \A t \in Taken1 : \E i \in 1 .. n : f[i] = t
    BY <1>1
  <2>2. \A i, j \in 1 .. n : f[i] = f[j] => i = j
    BY <1>6
  <2> QED
    BY <2>1, <2>2 DEF Surjection, Injection, IsInjective
<1>8. IsFiniteSet(1 .. n) /\ Cardinality(1 .. n) = n
  <2>1. 1 \in Int /\ n \in Int /\ (1 > n <=> n = 0) /\ n - 1 + 1 = n
    OBVIOUS
  <2> HIDE DEF n
  <2> QED
    BY <2>1, FS_Interval
<1>9. Cardinality(Taken1) = Cardinality(1 .. n)
  BY <1>7, <1>8, FS_Surjection
<1> QED
  BY <1>8, <1>9

\* A listing of a relay has each processor once, with the relay as its source.
LEMMA ListingToldApart ==
  ASSUME LaunchTypeOK, NEW r \in ControlRelays,
         \A g \in LaunchGateways : \A p \in advertised[r][g].procs : GatewayOf[p] = g
  PROVE  /\ Listing(r) \subseteq {c \in Candidates : c.src = r}
         /\ \A c, d \in Listing(r) : c.proc = d.proc => c = d
<1>1. \A g \in LaunchGateways : \A p \in advertised[r][g].procs :
         /\ p \in LaunchProcs /\ advertised[r][g].id \in ReportIds
         /\ advertised[r][g].load \in 0 .. RouteCapacity
  <2>1. \A g \in LaunchGateways : advertised[r][g] \in CapacityReports
    BY DEF LaunchTypeOK
  <2> QED
    BY <2>1 DEF CapacityReports, NoReport
<1>2. \A c \in Listing(r) : \E g \in LaunchGateways : \E p \in advertised[r][g].procs :
         c = [proc |-> p, id |-> advertised[r][g].id, load |-> advertised[r][g].load, src |-> r]
  BY DEF Listing
<1>3. ASSUME NEW c \in Listing(r), NEW d \in Listing(r), c.proc = d.proc PROVE c = d
  <2>1. PICK g \in LaunchGateways : \E p \in advertised[r][g].procs :
           c = [proc |-> p, id |-> advertised[r][g].id, load |-> advertised[r][g].load, src |-> r]
    BY <1>2
  <2>2. PICK h \in LaunchGateways : \E q \in advertised[r][h].procs :
           d = [proc |-> q, id |-> advertised[r][h].id, load |-> advertised[r][h].load, src |-> r]
    BY <1>2
  <2>3. c.proc \in advertised[r][g].procs /\ d.proc \in advertised[r][h].procs
    BY <2>1, <2>2
  <2>4. g = h
    BY <2>3, <1>3
  <2> QED
    BY <2>1, <2>2, <2>4, <1>3
<1>4. ASSUME NEW c \in Listing(r) PROVE c \in Candidates /\ c.src = r
  <2>1. PICK g \in LaunchGateways : \E p \in advertised[r][g].procs :
           c = [proc |-> p, id |-> advertised[r][g].id, load |-> advertised[r][g].load, src |-> r]
    BY <1>2
  <2>2. PICK p \in advertised[r][g].procs :
           c = [proc |-> p, id |-> advertised[r][g].id, load |-> advertised[r][g].load, src |-> r]
    BY <2>1
  <2> QED
    BY <2>2, <1>1 DEF Candidates
<1> QED
  BY <1>3, <1>4

\* Reports are of the gateway's own processors.
ReportsAreOwn ==
    /\ \A g \in LaunchGateways : \A p \in live[g].procs : GatewayOf[p] = g
    /\ \A r \in ControlRelays : \A g \in LaunchGateways :
          \A p \in advertised[r][g].procs : GatewayOf[p] = g

\* An answer is a listing of its relay.
AnswersAreOwn ==
    \A r \in ControlRelays :
        /\ \A c \in answer[r].members : c.src = r
        /\ \A c, d \in answer[r].members : c.proc = d.proc => c = d

\* The source of a candidate lists it now.
Advertised(c) == c \in Listing(c.src)

\* What has been read again, or is advertised now, counts as listed since the choice.
ChoiceIsListed ==
    /\ launch.at = "read" => chosen = <<>> /\ checked = {}
    /\ \A i \in DOMAIN chosen : Advertised(chosen[i]) \/ chosen[i].src \in checked => chosen[i] \in listed
    /\ launch.at \notin {"read", "recheck", "failed"} => \A i \in DOMAIN chosen : chosen[i] \in listed
    /\ Reading => ~outcome.spent
    /\ SpendsOnListed

\* What was found of the public endpoint before it is said.
VerdictIsSound ==
    /\ launch.at = "verify" => outcome.file = "ok"
    /\ launch.at = "save" /\ launch.flags.demo /\ outcome.file = "ok" => outcome.complete /\ outcome.public
    /\ outcome.said = "ready" => launch.at = "done"
    /\ DemoReadyIsReady

LaunchInv ==
    /\ LaunchTypeOK /\ ReportsAreOwn /\ AnswersAreOwn /\ ChoiceIsListed /\ VerdictIsSound
    /\ GroupIsSpread /\ OneRelayIsDistinct

LEMMA LaunchStarts == LaunchInit => LaunchInv
<1> SUFFICES ASSUME LaunchInit PROVE LaunchInv
  OBVIOUS
<1> USE DEF LaunchInit
<1>1. /\ NumRelays \in Nat \ {0} /\ RouteCapacity \in Nat \ {0} /\ MaxPublished \in Nat \ {0}
      /\ MaxProbes \in Nat \ {0}
  BY LaunchOK DEF LaunchOK
<1>2. \A g \in LaunchGateways : FirstReport(g) \in CapacityReports
  BY <1>1 DEF FirstReport, CapacityReports, ReportIds
<1>3. live \in [LaunchGateways -> CapacityReports]
  BY <1>2
<1>4. advertised \in [ControlRelays -> [LaunchGateways -> CapacityReports]]
  BY <1>3
<1>5. launch \in [at : LaunchPlaces, flags : Launches, probes : 0 .. MaxProbes]
  BY <1>1 DEF LaunchPlaces
<1>6. answer \in [ControlRelays -> [how : {"none", "given", "failed"}, members : SUBSET Candidates]]
  OBVIOUS
<1>7. outcome \in [spent : BOOLEAN, complete : BOOLEAN, public : BOOLEAN,
                   file : {"none", "ok", "failed"}, said : {"nothing", "ready", "failed"}]
  OBVIOUS
<1>8. chosen \in Seq(Candidates) /\ Len(chosen) <= launch.flags.count
  <2>1. launch.flags \in Launches
    BY <1>5
  <2>2. launch.flags.count \in Nat
    BY <2>1, LaunchOK DEF LaunchOK
  <2> QED
    BY <2>2
<1>9. LaunchTypeOK
  BY <1>3, <1>4, <1>5, <1>6, <1>7, <1>8 DEF LaunchTypeOK
<1>10. ReportsAreOwn
  BY DEF ReportsAreOwn, FirstReport
<1>11. AnswersAreOwn /\ VerdictIsSound
  BY DEF AnswersAreOwn, VerdictIsSound, DemoReadyIsReady
<1>12. ChoiceIsListed /\ GroupIsSpread /\ OneRelayIsDistinct
  BY DEF ChoiceIsListed, SpendsOnListed, GroupIsSpread, OneRelayIsDistinct
<1> QED
  BY <1>9, <1>10, <1>11, <1>12 DEF LaunchInv

\* What the flags of a command are.
LEMMA FlagsAreSound ==
  ASSUME LaunchTypeOK
  PROVE  /\ launch.flags \in Launches /\ launch.flags.count \in Nat \ {0}
         /\ launch.flags.asked \subseteq ControlRelays /\ launch.flags.demo \in BOOLEAN
<1>1. launch.flags \in Launches
  BY DEF LaunchTypeOK
<1> QED
  BY <1>1, LaunchOK DEF LaunchOK, ControlRelays

\* What was chosen, of which answers, is settled.
LEMMA ChoiceStays ==
  ASSUME GroupIsSpread, OneRelayIsDistinct, UNCHANGED <<modern, answer, chosen>>,
         launch'.flags = launch.flags
  PROVE  GroupIsSpread' /\ OneRelayIsDistinct'
<1>1. Successful' = Successful
  BY DEF Successful
<1>2. NewestReports' = NewestReports
  BY <1>1 DEF NewestReports, Gw
<1>3. Capacity' = Capacity
  BY <1>1, <1>2 DEF Capacity
<1>4. Eligible' = Eligible
  BY <1>3 DEF Eligible
<1> QED
  BY <1>1, <1>4 DEF GroupIsSpread, OneRelayIsDistinct, Gw

\* The publication of a report keeps the invariant.
LEMMA PublishKeeps ==
  ASSUME LaunchInv, NEW g \in LaunchGateways, PublishReport(g) PROVE LaunchInv'
<1> USE DEF LaunchInv
<1>1. PICK load \in 0 .. RouteCapacity, gone \in {{}} \cup {{p} : p \in live[g].procs} :
         /\ live[g].id < MaxPublished
         /\ live' = [live EXCEPT ![g] = [id |-> @.id + 1, load |-> load, procs |-> @.procs \ gone]]
         /\ UNCHANGED <<modern, advertised, launch, answer, chosen, checked, listed, outcome>>
  BY DEF PublishReport
<1>2. live[g] \in CapacityReports /\ MaxPublished \in Nat
  BY LaunchOK DEF LaunchTypeOK, LaunchOK
<1>3. live[g].id \in 0 .. MaxPublished - 1 /\ live[g].procs \subseteq LaunchProcs
  BY <1>1, <1>2 DEF CapacityReports, NoReport, ReportIds
<1>4. [id |-> live[g].id + 1, load |-> load, procs |-> live[g].procs \ gone] \in CapacityReports
  BY <1>2, <1>3 DEF CapacityReports, ReportIds
<1>5. live' \in [LaunchGateways -> CapacityReports]
  BY <1>1, <1>4 DEF LaunchTypeOK
<1>6. LaunchTypeOK'
  BY <1>1, <1>5 DEF LaunchTypeOK
<1>7. ReportsAreOwn'
  BY <1>1 DEF ReportsAreOwn, LaunchTypeOK
<1>8. AnswersAreOwn' /\ VerdictIsSound'
  BY <1>1 DEF AnswersAreOwn, VerdictIsSound, DemoReadyIsReady
<1>9. ChoiceIsListed'
  BY <1>1 DEF ChoiceIsListed, SpendsOnListed, Advertised, Listing, Reading
<1>10. GroupIsSpread' /\ OneRelayIsDistinct'
  BY <1>1, ChoiceStays
<1> QED
  BY <1>6, <1>7, <1>8, <1>9, <1>10

\* So does what a relay serves: a chosen member that it lists again is noted.
LEMMA ServingKeeps ==
  ASSUME LaunchInv, NEW r \in ControlRelays, NEW g \in LaunchGateways, RelayServes(r, g)
  PROVE  LaunchInv'
<1> USE DEF LaunchInv
<1>1. PICK report \in {live[g], NoReport} :
         /\ advertised' = [advertised EXCEPT ![r][g] = report]
         /\ listed' = listed \cup {chosen[i] : i \in {j \in DOMAIN chosen :
                                      chosen[j].src = r /\ Gw(chosen[j]) = g
                                      /\ chosen[j].id = report.id /\ chosen[j].proc \in report.procs}}
         /\ UNCHANGED <<modern, live, launch, answer, chosen, checked, outcome>>
  BY DEF RelayServes
<1>2. /\ advertised \in [ControlRelays -> [LaunchGateways -> CapacityReports]]
      /\ live[g] \in CapacityReports
  BY DEF LaunchTypeOK
<1>3. report \in CapacityReports /\ \A p \in report.procs : GatewayOf[p] = g
  BY <1>1, <1>2 DEF CapacityReports, NoReport, ReportsAreOwn
<1>4. advertised' \in [ControlRelays -> [LaunchGateways -> CapacityReports]]
  BY <1>1, <1>2, <1>3
<1>5. listed' \subseteq Candidates
  <2>1. \A i \in DOMAIN chosen : chosen[i] \in Candidates
    BY DEF LaunchTypeOK
  <2> QED
    BY <2>1, <1>1 DEF LaunchTypeOK
<1>6. LaunchTypeOK'
  BY <1>1, <1>4, <1>5 DEF LaunchTypeOK
<1>7. /\ \A s \in ControlRelays : \A h \in LaunchGateways :
            s # r \/ h # g => advertised'[s][h] = advertised[s][h]
      /\ advertised'[r][g] = report
  BY <1>1, <1>2
<1>8. ReportsAreOwn'
  BY <1>1, <1>3, <1>7 DEF ReportsAreOwn
<1>9. AnswersAreOwn' /\ VerdictIsSound'
  BY <1>1 DEF AnswersAreOwn, VerdictIsSound, DemoReadyIsReady
<1>10. ASSUME NEW i \in DOMAIN chosen, Advertised(chosen[i])' PROVE chosen[i] \in listed'
  <2> DEFINE s == chosen[i].src
  <2>1. chosen[i] \in Candidates
    BY DEF LaunchTypeOK
  <2>2. s \in ControlRelays
    BY <2>1 DEF Candidates
  <2>3. PICK h \in LaunchGateways : \E p \in advertised'[s][h].procs :
           chosen[i] = [proc |-> p, id |-> advertised'[s][h].id, load |-> advertised'[s][h].load,
                        src |-> s]
    BY <1>1, <1>10 DEF Listing, Advertised
  <2>4. CASE s # r \/ h # g
    <3>1. advertised'[s][h] = advertised[s][h]
      BY <1>7, <2>2, <2>4
    <3>2. chosen[i] \in Listing(s)
      BY <2>3, <3>1 DEF Listing
    <3> QED
      BY <3>2, <1>1 DEF ChoiceIsListed, Advertised
  <2>5. CASE s = r /\ h = g
    <3>1. chosen[i].id = report.id /\ chosen[i].proc \in report.procs
      BY <2>3, <2>5, <1>7
    <3>2. Gw(chosen[i]) = g
      BY <3>1, <1>3 DEF Gw
    <3> QED
      BY <3>1, <3>2, <2>5, <1>1
  <2> QED
    BY <2>4, <2>5
<1>11. ChoiceIsListed'
  BY <1>1, <1>10 DEF ChoiceIsListed, SpendsOnListed, Reading
<1>12. GroupIsSpread' /\ OneRelayIsDistinct'
  BY <1>1, ChoiceStays
<1> QED
  BY <1>6, <1>8, <1>9, <1>11, <1>12

\* The members of the capacity are told apart.
LEMMA CapacityToldApart ==
  ASSUME LaunchTypeOK, AnswersAreOwn
  PROVE  Eligible \subseteq Candidates /\ ToldApart(Eligible)
<1>1. /\ Successful \subseteq ControlRelays
      /\ \A r \in ControlRelays : answer[r].members \subseteq Candidates
  BY FlagsAreSound DEF Successful, LaunchTypeOK
<1>2. \A c \in Capacity : \E r \in Successful : c \in answer[r].members
  BY DEF Capacity, NewestReports
<1>3. Capacity \subseteq Candidates
  BY <1>1, <1>2
<1>4. ToldApart(Capacity)
  BY <1>1, <1>2 DEF ToldApart, AnswersAreOwn
<1> QED
  BY <1>3, <1>4 DEF Eligible, ToldApart

\* The answer of a relay is taken before anything is chosen.
LEMMA AnswerKeeps ==
  ASSUME LaunchInv, NEW r \in ControlRelays, NEW works \in BOOLEAN, RelayAnswers(r, works)
  PROVE  LaunchInv'
<1> USE DEF LaunchInv
<1> DEFINE given == IF works THEN [how |-> "given", members |-> Listing(r)]
                    ELSE [how |-> "failed", members |-> {}]
<1>1. /\ launch.at = "read" /\ answer' = [answer EXCEPT ![r] = given]
      /\ UNCHANGED <<modern, live, advertised, launch, chosen, checked, listed, outcome>>
  BY DEF RelayAnswers
<1>2. /\ Listing(r) \subseteq {c \in Candidates : c.src = r}
      /\ \A c, d \in Listing(r) : c.proc = d.proc => c = d
  BY ListingToldApart DEF ReportsAreOwn
<1>3. given \in [how : {"none", "given", "failed"}, members : SUBSET Candidates]
  BY <1>2
<1>4. answer' \in [ControlRelays -> [how : {"none", "given", "failed"}, members : SUBSET Candidates]]
  <2> HIDE DEF given
  <2> QED
    BY <1>1, <1>3 DEF LaunchTypeOK
<1>5. LaunchTypeOK'
  BY <1>1, <1>4 DEF LaunchTypeOK
<1>6. /\ \A s \in ControlRelays : s # r => answer'[s] = answer[s]
      /\ answer'[r] = given
  BY <1>1 DEF LaunchTypeOK
<1>7. AnswersAreOwn'
  <2>1. /\ \A c \in given.members : c.src = r
        /\ \A c, d \in given.members : c.proc = d.proc => c = d
    BY <1>2
  <2> HIDE DEF given
  <2> QED
    BY <1>6, <2>1 DEF AnswersAreOwn
<1>8. ReportsAreOwn' /\ VerdictIsSound'
  BY <1>1 DEF ReportsAreOwn, VerdictIsSound, DemoReadyIsReady
<1>9. ChoiceIsListed'
  BY <1>1 DEF ChoiceIsListed, SpendsOnListed, Advertised, Listing, Reading
<1>10. chosen' = <<>>
  BY <1>1 DEF ChoiceIsListed
<1>11. GroupIsSpread' /\ OneRelayIsDistinct'
  BY <1>10 DEF GroupIsSpread, OneRelayIsDistinct
<1> QED
  BY <1>5, <1>7, <1>8, <1>9, <1>11

\* A launch that stops with what it has leaves the choice alone.
LEMMA RefusalKeeps ==
  ASSUME LaunchInv, launch.at # "done",
         UNCHANGED <<modern, live, advertised, answer, chosen, checked, listed>>, LaunchRefuses
  PROVE  LaunchInv'
<1> USE DEF LaunchInv
<1>1. launch' = [launch EXCEPT !.at = "failed"] /\ outcome' = [outcome EXCEPT !.said = "failed"]
  BY DEF LaunchRefuses, LaunchGoes
<1>2. /\ launch'.flags = launch.flags /\ launch'.at = "failed"
      /\ launch' \in [at : LaunchPlaces, flags : Launches, probes : 0 .. MaxProbes]
  BY <1>1 DEF LaunchTypeOK, LaunchPlaces
<1>3. /\ outcome'.spent = outcome.spent /\ outcome'.said = "failed"
      /\ outcome' \in [spent : BOOLEAN, complete : BOOLEAN, public : BOOLEAN,
                       file : {"none", "ok", "failed"}, said : {"nothing", "ready", "failed"}]
  BY <1>1 DEF LaunchTypeOK
<1>4. LaunchTypeOK'
  BY <1>2, <1>3 DEF LaunchTypeOK
<1>5. ReportsAreOwn' /\ AnswersAreOwn' /\ VerdictIsSound'
  BY <1>2, <1>3 DEF ReportsAreOwn, AnswersAreOwn, VerdictIsSound, DemoReadyIsReady
<1>6. ChoiceIsListed'
  BY <1>2, <1>3 DEF ChoiceIsListed, SpendsOnListed, Advertised, Listing, Reading
<1> QED
  BY <1>2, <1>4, <1>5, <1>6, ChoiceStays

\* The choice is spread, takes no processor of one listing twice, and what of it is
\* listed at this moment is noted.
LEMMA SelectionKeeps ==
  ASSUME LaunchInv, SelectMembers PROVE LaunchInv'
<1> USE DEF LaunchInv
<1>1. /\ launch.at = "read"
      /\ UNCHANGED <<modern, live, advertised, answer, checked>>
  BY DEF SelectMembers
<1>2. CASE LaunchRefuses /\ UNCHANGED <<chosen, listed>>
  BY <1>1, <1>2, RefusalKeeps
<1>3. CASE /\ LaunchGoes("recheck")
           /\ \E pool \in Pool(Eligible) : chosen' = pool
           /\ listed' = {c \in {chosen'[i] : i \in DOMAIN chosen'} : c \in Listing(c.src)}
           /\ UNCHANGED outcome
  <2> DEFINE n == launch.flags.count
  <2>1. n \in Nat /\ launch.flags \in Launches
    BY FlagsAreSound
  <2>2. Eligible \subseteq Candidates /\ ToldApart(Eligible)
    BY CapacityToldApart
  <2>3. PICK pool \in Pool(Eligible) : chosen' = pool
    BY <1>3
  <2>4. /\ chosen' \in [1 .. n -> Eligible]
        /\ \A i, j \in 1 .. n : chosen'[i] = chosen'[j] => i = j
    BY <2>1, <2>2, <2>3, PoolIsOrdered
  <2>5. chosen' \in Seq(Candidates) /\ Len(chosen') = n /\ DOMAIN chosen' = 1 .. n
    BY <2>1, <2>2, <2>4
  <2>6. /\ launch'.flags = launch.flags /\ launch'.at = "recheck"
        /\ launch' \in [at : LaunchPlaces, flags : Launches, probes : 0 .. MaxProbes]
    BY <1>3 DEF LaunchGoes, LaunchTypeOK, LaunchPlaces
  <2>7. listed' \subseteq Candidates
    BY <1>3, <2>2, <2>4, <2>5
  <2>8. LaunchTypeOK'
    BY <1>1, <1>3, <2>1, <2>5, <2>6, <2>7 DEF LaunchTypeOK
  <2>9. ReportsAreOwn' /\ AnswersAreOwn' /\ VerdictIsSound'
    BY <1>1, <1>3, <2>6 DEF ReportsAreOwn, AnswersAreOwn, VerdictIsSound, DemoReadyIsReady
  <2>10. checked' = {} /\ ~outcome'.spent
    BY <1>1, <1>3 DEF ChoiceIsListed, Reading
  <2>11. \A i \in DOMAIN chosen' : Advertised(chosen[i])' => chosen'[i] \in listed'
    BY <1>1, <1>3 DEF Advertised, Listing
  <2>12. ChoiceIsListed'
    BY <2>6, <2>10, <2>11 DEF ChoiceIsListed, SpendsOnListed
  <2>13. Successful' = Successful
    BY <1>1, <2>6 DEF Successful
  <2>14. NewestReports' = NewestReports
    BY <1>1, <2>13 DEF NewestReports, Gw
  <2>15. Capacity' = Capacity
    BY <1>1, <2>13, <2>14 DEF Capacity
  <2>16. Eligible' = Eligible
    BY <2>6, <2>15 DEF Eligible
  <2>17. ASSUME NEW c \in Eligible, \A i \in DOMAIN chosen' : Gw(chosen'[i]) # Gw(c)
         PROVE  Cardinality({Gw(chosen'[i]) : i \in DOMAIN chosen'}) = n
    BY <2>1, <2>2, <2>3, <2>17, PoolIsSpread
  <2>18. GroupIsSpread'
    BY <2>6, <2>16, <2>17 DEF GroupIsSpread, Gw
  <2>19. ASSUME NEW i \in DOMAIN chosen', NEW j \in DOMAIN chosen',
                Cardinality(launch.flags.asked) = 1 \/ Successful \cap modern = {},
                chosen'[i].proc = chosen'[j].proc
         PROVE  i = j
    <3>1. chosen'[i] \in Capacity /\ chosen'[j] \in Capacity
      BY <2>4, <2>5 DEF Eligible
    <3>2. chosen'[i].src = chosen'[j].src
      <4>1. CASE Successful \cap modern = {}
        <5>1. chosen'[i] \in NewestReports /\ chosen'[j] \in NewestReports
          BY <3>1, <4>1 DEF Capacity
        <5>2. Gw(chosen'[i]) = Gw(chosen'[j])
          BY <2>19 DEF Gw
        <5>3. /\ chosen'[i].id \in Nat /\ chosen'[j].id \in Nat
              /\ chosen'[i].src \in Nat /\ chosen'[j].src \in Nat
          <6>1. chosen'[i] \in Candidates /\ chosen'[j] \in Candidates
            BY <2>2, <2>4, <2>5
          <6>2. \A c \in Candidates : c.id \in 1 .. MaxPublished
            BY DEF Candidates, ReportIds
          <6>3. MaxPublished \in Nat
            BY LaunchOK DEF LaunchOK
          <6> QED
            BY <6>1, <6>2, <6>3, KeysAreNumbers
        <5> QED
          BY <5>1, <5>2, <5>3 DEF NewestReports
      <4>2. CASE Cardinality(launch.flags.asked) = 1
        <5>1. PICK r : launch.flags.asked = {r}
          <6>1. launch.flags.asked \subseteq 1 .. NumRelays /\ NumRelays \in Nat
            BY FlagsAreSound, LaunchOK DEF LaunchOK, ControlRelays
          <6>2. 1 \in Int /\ NumRelays \in Int /\ launch.flags.asked \in SUBSET (1 .. NumRelays)
            BY <6>1
          <6>3. IsFiniteSet(1 .. NumRelays)
            BY <6>2, FS_Interval
          <6>4. IsFiniteSet(launch.flags.asked)
            BY <6>2, <6>3, FS_Subset
          <6> QED
            BY <6>4, <4>2, FS_Singleton
        <5>2. \A c \in Capacity : c \in answer[r].members
          BY <5>1 DEF Capacity, NewestReports, Successful
        <5>3. r \in ControlRelays
          BY <5>1, FlagsAreSound
        <5> QED
          BY <3>1, <5>2, <5>3 DEF AnswersAreOwn
      <4> QED
        BY <2>19, <4>1, <4>2
    <3>3. chosen'[i] = chosen'[j]
      BY <2>2, <2>4, <2>5, <3>2, <2>19 DEF ToldApart
    <3> QED
      BY <2>4, <2>5, <3>3
  <2>20. OneRelayIsDistinct'
    BY <1>1, <2>6, <2>13, <2>19 DEF OneRelayIsDistinct
  <2> QED
    BY <2>8, <2>9, <2>12, <2>18, <2>20
<1> QED
  BY <1>2, <1>3 DEF SelectMembers

\* Each source that is read again has listed what was chosen from it.
LEMMA RecheckKeeps ==
  ASSUME LaunchInv, NEW r \in ControlRelays, NEW works \in BOOLEAN, Recheck(r, works)
  PROVE  LaunchInv'
<1> USE DEF LaunchInv
<1>1. /\ launch.at = "recheck" /\ r \in SourceRelays \ checked
      /\ UNCHANGED <<modern, live, advertised, answer, chosen, listed>>
  BY DEF Recheck
<1>2. CASE LaunchRefuses /\ UNCHANGED checked
  BY <1>1, <1>2, RefusalKeeps
<1>3. CASE /\ works /\ \A i \in DOMAIN chosen : chosen[i].src = r => chosen[i] \in Listing(r)
           /\ checked' = checked \cup {r}
           /\ LaunchGoes(IF SourceRelays \subseteq checked' THEN
                           (IF launch.flags.demo THEN "preview" ELSE "snapshot") ELSE "recheck")
           /\ UNCHANGED outcome
  <2>1. /\ launch' \in [at : LaunchPlaces, flags : Launches, probes : 0 .. MaxProbes]
        /\ launch'.flags = launch.flags /\ launch'.at \in {"recheck", "preview", "snapshot"}
        /\ launch'.at # "recheck" => SourceRelays \subseteq checked'
    BY <1>3 DEF LaunchGoes, LaunchTypeOK, LaunchPlaces
  <2>2. LaunchTypeOK'
    BY <1>1, <1>3, <2>1 DEF LaunchTypeOK
  <2>3. ReportsAreOwn' /\ AnswersAreOwn' /\ VerdictIsSound'
    BY <1>1, <1>3, <2>1 DEF ReportsAreOwn, AnswersAreOwn, VerdictIsSound, DemoReadyIsReady
  <2>4. \A i \in DOMAIN chosen : Advertised(chosen[i]) \/ chosen[i].src \in checked' => chosen[i] \in listed
    BY <1>3 DEF ChoiceIsListed, Advertised
  <2>5. launch'.at # "recheck" => \A i \in DOMAIN chosen : chosen[i] \in listed
    BY <2>1, <2>4 DEF SourceRelays
  <2>6. ~outcome'.spent
    BY <1>1, <1>3 DEF ChoiceIsListed, Reading
  <2>7. ChoiceIsListed'
    BY <1>1, <2>1, <2>4, <2>5, <2>6 DEF ChoiceIsListed, SpendsOnListed, Advertised, Listing
  <2> QED
    BY <1>1, <2>1, <2>2, <2>3, <2>7, ChoiceStays
<1> QED
  BY <1>1, <1>2, <1>3 DEF Recheck

\* From then on only the place of the command and what became of the job change.
LEMMA ProgressKeeps ==
  ASSUME LaunchInv, ~Reading,
         UNCHANGED <<modern, live, advertised, answer, chosen, checked, listed>>,
         NEW at \in LaunchPlaces \ {"read", "recheck"}, NEW probes \in 0 .. MaxProbes,
         launch' = [launch EXCEPT !.at = at, !.probes = probes],
         launch.at = "failed" => at = "failed",
         outcome' \in [spent : BOOLEAN, complete : BOOLEAN, public : BOOLEAN,
                       file : {"none", "ok", "failed"}, said : {"nothing", "ready", "failed"}],
         outcome'.spent => outcome.spent \/ launch.at # "failed",
         VerdictIsSound'
  PROVE  LaunchInv'
<1> USE DEF LaunchInv
<1>1. /\ launch' \in [at : LaunchPlaces, flags : Launches, probes : 0 .. MaxProbes]
      /\ launch'.flags = launch.flags /\ launch'.at = at
  BY DEF LaunchTypeOK
<1>2. LaunchTypeOK'
  BY <1>1 DEF LaunchTypeOK
<1>3. ReportsAreOwn' /\ AnswersAreOwn'
  BY DEF ReportsAreOwn, AnswersAreOwn
<1>4. launch.at # "failed" => \A i \in DOMAIN chosen : chosen[i] \in listed
  BY DEF ChoiceIsListed, Reading
<1>5. SpendsOnListed'
  BY <1>4 DEF ChoiceIsListed, SpendsOnListed
<1>6. ChoiceIsListed'
  BY <1>1, <1>4, <1>5 DEF ChoiceIsListed, Advertised, Listing, Reading
<1> QED
  BY <1>1, <1>2, <1>3, <1>6, ChoiceStays

\* The steps between the choice and the job, and what the command finds and says.
LEMMA ReportingKeeps ==
  ASSUME LaunchInv,
         \/ \E works \in BOOLEAN : Prepare(works) \/ PublicCheck(works)
         \/ RecordChoice \/ NotReady \/ SaveAndSay
         \/ \E file \in {"ok", "failed"}, end \in {"complete", "short", "throws"} : RunWorkflow(file, end)
  PROVE  LaunchInv'
<1> USE DEF LaunchInv
<1> DEFINE Keeps(at, probes) ==
      /\ ~Reading /\ UNCHANGED <<modern, live, advertised, answer, chosen, checked, listed>>
      /\ at \in LaunchPlaces \ {"read", "recheck"} /\ probes \in 0 .. MaxProbes
      /\ launch' = [launch EXCEPT !.at = at, !.probes = probes]
      /\ launch.at # "failed" /\ VerdictIsSound'
      /\ outcome' \in [spent : BOOLEAN, complete : BOOLEAN, public : BOOLEAN,
                       file : {"none", "ok", "failed"}, said : {"nothing", "ready", "failed"}]
<1>1. /\ outcome \in [spent : BOOLEAN, complete : BOOLEAN, public : BOOLEAN,
                      file : {"none", "ok", "failed"}, said : {"nothing", "ready", "failed"}]
      /\ launch \in [at : LaunchPlaces, flags : Launches, probes : 0 .. MaxProbes]
      /\ launch = [launch EXCEPT !.probes = launch.probes] /\ MaxProbes \in Nat
  BY LaunchOK DEF LaunchTypeOK, LaunchOK
<1>2. ASSUME NEW at, NEW probes, Keeps(at, probes) PROVE LaunchInv'
  BY <1>2, ProgressKeeps
<1>3. \A at : LaunchGoes(at) => /\ launch' = [launch EXCEPT !.at = at, !.probes = launch.probes]
                                /\ launch'.at = at /\ launch'.flags = launch.flags
  BY <1>1 DEF LaunchGoes
<1>4. ASSUME NEW works \in BOOLEAN, Prepare(works) PROVE LaunchInv'
  <2>1. /\ launch.at \in {"preview", "project", "install"}
        /\ UNCHANGED <<modern, live, advertised, answer, chosen, checked, listed>>
    BY <1>4 DEF Prepare
  <2>2. CASE LaunchRefuses
    BY <2>1, <2>2, RefusalKeeps
  <2>3. ASSUME NEW at \in {"project", "snapshot", "run"}, LaunchGoes(at), UNCHANGED outcome
        PROVE  LaunchInv'
    <3>1. VerdictIsSound'
      BY <1>3, <2>1, <2>3 DEF VerdictIsSound, DemoReadyIsReady
    <3>2. Keeps(at, launch.probes)
      BY <1>1, <1>3, <2>1, <2>3, <3>1 DEF LaunchPlaces, Reading
    <3> QED
      BY <1>2, <3>2
  <2> QED
    BY <1>4, <2>2, <2>3 DEF Prepare
<1>5. ASSUME RecordChoice PROVE LaunchInv'
  <2>1. PICK at \in {"dry", "install", "run"} : LaunchGoes(at)
    BY <1>5 DEF RecordChoice
  <2>2. VerdictIsSound'
    BY <1>3, <1>5, <2>1 DEF RecordChoice, VerdictIsSound, DemoReadyIsReady
  <2>3. Keeps(at, launch.probes)
    BY <1>1, <1>3, <1>5, <2>1, <2>2 DEF RecordChoice, LaunchPlaces, Reading
  <2> QED
    BY <1>2, <2>3
<1>6. ASSUME NEW file \in {"ok", "failed"}, NEW end \in {"complete", "short", "throws"},
             RunWorkflow(file, end)
      PROVE  LaunchInv'
  <2> DEFINE said == IF end = "throws" THEN "failed" ELSE outcome.said
             at == IF end = "throws" THEN "failed"
                   ELSE IF launch.flags.demo /\ file = "ok" THEN "verify" ELSE "save"
  <2>1. /\ launch.at = "run" /\ LaunchGoes(at)
        /\ outcome' = [outcome EXCEPT !.spent = TRUE, !.file = file, !.complete = (end = "complete"),
                                      !.said = said]
        /\ UNCHANGED <<modern, live, advertised, answer, chosen, checked, listed>>
    BY <1>6 DEF RunWorkflow
  <2>2. said \in {"nothing", "failed"}
    BY <1>1, <2>1 DEF VerdictIsSound
  <2>3. /\ outcome' \in [spent : BOOLEAN, complete : BOOLEAN, public : BOOLEAN,
                         file : {"none", "ok", "failed"}, said : {"nothing", "ready", "failed"}]
        /\ outcome'.file = file /\ outcome'.said = said
    BY <1>1, <2>1, <2>2
  <2>4. launch'.at = at /\ launch'.flags = launch.flags
    BY <1>3, <2>1
  <2>5. VerdictIsSound'
    BY <2>1, <2>2, <2>3, <2>4 DEF VerdictIsSound, DemoReadyIsReady
  <2>6. Keeps(at, launch.probes)
    BY <1>1, <1>3, <2>1, <2>3, <2>5 DEF LaunchPlaces, Reading
  <2> QED
    BY <1>2, <2>6
<1>7. ASSUME NEW works \in BOOLEAN, PublicCheck(works) PROVE LaunchInv'
  <2> DEFINE at == IF works THEN "save" ELSE "verify"
  <2>1. /\ launch.at = "verify" /\ outcome.complete /\ launch.probes < MaxProbes
        /\ launch' = [launch EXCEPT !.at = at, !.probes = launch.probes + 1]
        /\ outcome' = [outcome EXCEPT !.public = works]
        /\ UNCHANGED <<modern, live, advertised, answer, chosen, checked, listed>>
    BY <1>1, <1>7 DEF PublicCheck
  <2>2. /\ outcome' \in [spent : BOOLEAN, complete : BOOLEAN, public : BOOLEAN,
                         file : {"none", "ok", "failed"}, said : {"nothing", "ready", "failed"}]
        /\ outcome'.said = outcome.said /\ outcome'.file = outcome.file
        /\ outcome'.complete /\ outcome'.public = works
        /\ launch'.at = at /\ launch'.flags = launch.flags /\ launch.probes + 1 \in 0 .. MaxProbes
    BY <1>1, <2>1
  <2>3. VerdictIsSound'
    BY <2>1, <2>2 DEF VerdictIsSound, DemoReadyIsReady
  <2>4. Keeps(at, launch.probes + 1)
    BY <2>1, <2>2, <2>3 DEF LaunchPlaces, Reading
  <2> QED
    BY <1>2, <2>4
<1>8. ASSUME NotReady PROVE LaunchInv'
  <2>1. /\ launch.at = "verify" /\ LaunchGoes("save") /\ outcome' = [outcome EXCEPT !.file = "failed"]
        /\ UNCHANGED <<modern, live, advertised, answer, chosen, checked, listed>>
    BY <1>8 DEF NotReady
  <2>2. /\ outcome' \in [spent : BOOLEAN, complete : BOOLEAN, public : BOOLEAN,
                         file : {"none", "ok", "failed"}, said : {"nothing", "ready", "failed"}]
        /\ outcome'.said = outcome.said /\ outcome'.file = "failed"
    BY <1>1, <2>1
  <2>3. launch'.at = "save" /\ launch'.flags = launch.flags
    BY <1>3, <2>1
  <2>4. VerdictIsSound'
    BY <2>1, <2>2, <2>3 DEF VerdictIsSound, DemoReadyIsReady
  <2>5. Keeps("save", launch.probes)
    BY <1>1, <1>3, <2>1, <2>2, <2>4 DEF LaunchPlaces, Reading
  <2> QED
    BY <1>2, <2>5
<1>9. ASSUME SaveAndSay PROVE LaunchInv'
  <2> DEFINE said == IF launch.flags.demo /\ outcome.file # "ok" THEN "failed" ELSE "ready"
  <2>1. /\ launch.at = "save" /\ LaunchGoes("done") /\ outcome' = [outcome EXCEPT !.said = said]
        /\ UNCHANGED <<modern, live, advertised, answer, chosen, checked, listed>>
    BY <1>9 DEF SaveAndSay
  <2>2. /\ outcome' \in [spent : BOOLEAN, complete : BOOLEAN, public : BOOLEAN,
                         file : {"none", "ok", "failed"}, said : {"nothing", "ready", "failed"}]
        /\ outcome'.said = said /\ outcome'.file = outcome.file
        /\ outcome'.complete = outcome.complete /\ outcome'.public = outcome.public
    BY <1>1, <2>1
  <2>3. launch'.at = "done" /\ launch'.flags = launch.flags
    BY <1>3, <2>1
  <2>4. VerdictIsSound'
    BY <2>1, <2>2, <2>3 DEF VerdictIsSound, DemoReadyIsReady
  <2>5. Keeps("done", launch.probes)
    BY <1>1, <1>3, <2>1, <2>2, <2>4 DEF LaunchPlaces, Reading
  <2> QED
    BY <1>2, <2>5
<1> QED
  BY <1>4, <1>5, <1>6, <1>7, <1>8, <1>9

\* Every step keeps the invariant.
LEMMA LaunchStep == LaunchInv /\ [LaunchNext]_launchVars => LaunchInv'
<1> SUFFICES ASSUME LaunchInv, [LaunchNext]_launchVars PROVE LaunchInv'
  OBVIOUS
<1>1. CASE UNCHANGED launchVars
  <2> USE <1>1 DEF LaunchInv, launchVars
  <2>1. LaunchTypeOK' /\ ReportsAreOwn' /\ AnswersAreOwn' /\ VerdictIsSound'
    BY DEF LaunchTypeOK, ReportsAreOwn, AnswersAreOwn, VerdictIsSound, DemoReadyIsReady
  <2>2. ChoiceIsListed'
    BY DEF ChoiceIsListed, SpendsOnListed, Advertised, Listing, Reading
  <2> QED
    BY <2>1, <2>2, ChoiceStays
<1>2. CASE \E g \in LaunchGateways : PublishReport(g)
  BY <1>2, PublishKeeps
<1>3. CASE \E r \in ControlRelays, g \in LaunchGateways : RelayServes(r, g)
  BY <1>3, ServingKeeps
<1>4. CASE \E r \in ControlRelays, works \in BOOLEAN : RelayAnswers(r, works) \/ Recheck(r, works)
  BY <1>4, AnswerKeeps, RecheckKeeps
<1>5. CASE SelectMembers
  BY <1>5, SelectionKeeps
<1>6. CASE \/ \E works \in BOOLEAN : Prepare(works) \/ PublicCheck(works)
           \/ RecordChoice \/ NotReady \/ SaveAndSay
           \/ \E file \in {"ok", "failed"}, end \in {"complete", "short", "throws"} : RunWorkflow(file, end)
  BY <1>6, ReportingKeeps
<1> QED
  BY <1>1, <1>2, <1>3, <1>4, <1>5, <1>6 DEF LaunchNext

\* LaunchSafe: whatever relays serve and when, a group is spread over as many
\* gateways as there were, members of one listing are different processors, no job
\* is paid for a member that its source did not list after the choice, and
\* launch-demo calls only ready what was (launchDemoCommand, deployCommand).
THEOREM LaunchesAreSafe == LaunchSpec => []LaunchSafe
<1>1. LaunchInv => LaunchSafe
  BY DEF LaunchInv, LaunchSafe, ChoiceIsListed, VerdictIsSound
<1> QED
  BY <1>1, LaunchStarts, LaunchStep, PTL DEF LaunchSpec


-------------------------------------------------------------------------------
(***************************************************************************)
(* What a choice of processors ends in                                     *)
(***************************************************************************)

\* There are finitely many processors.
LEMMA FleetIsFinite == IsFiniteSet(Fleet)
<1>1. Managed \in Seq(Range(Managed)) /\ Fleet = Range(Managed)
  BY ChoiceConstantsOK DEF ChoiceConstantsOK, Fleet
<1>2. PICK n \in Nat : DOMAIN Managed = 1 .. n
  BY <1>1
<1>3. Managed \in Surjection(1 .. n, Fleet)
  <2>1. Range(Managed) = {Managed[i] : i \in 1 .. n}
    BY <1>2 DEF Range
  <2>2. Managed \in [1 .. n -> Fleet]
    BY <1>1, <1>2
  <2>3. \A p \in Fleet : \E i \in 1 .. n : Managed[i] = p
    BY <1>1, <2>1
  <2> QED
    BY <2>2, <2>3 DEF Surjection
<1>4. IsFiniteSet(1 .. n)
  <2>1. 1 \in Int /\ n \in Int
    BY <1>2
  <2> QED
    BY <2>1, FS_Interval
<1> QED
  BY <1>3, <1>4, FS_Surjection

\* A job that overlaps takes an instant that was asked for, and the other way round.
LEMMA OverlapIsShared ==
  ASSUME NEW job \in ChainJobs, NEW start \in Nat, job.state # "none"
  PROVE  Overlaps(job, start) <=> Taken(job) \cap Asked(start) # {}
<1>1. job.from \in Nat /\ job.to \in Nat /\ job.from < job.to
  BY DEF ChainJobs
<1>2. PickLength \in Nat \ {0}
  BY ChoiceConstantsOK DEF ChoiceConstantsOK
<1>3. ASSUME Overlaps(job, start) PROVE Taken(job) \cap Asked(start) # {}
  <2>1. CASE job.from <= start
    <3>1. start \in Taken(job) /\ start \in Asked(start)
      BY <1>1, <1>2, <1>3, <2>1 DEF Overlaps, Taken, Asked
    <3> QED
      BY <3>1
  <2>2. CASE ~(job.from <= start)
    <3>1. job.from \in Taken(job) /\ job.from \in Asked(start)
      BY <1>1, <1>2, <1>3, <2>2 DEF Overlaps, Taken, Asked
    <3> QED
      BY <3>1
  <2> QED
    BY <2>1, <2>2
<1>4. ASSUME NEW t \in Taken(job) \cap Asked(start) PROVE Overlaps(job, start)
  <2>1. /\ t \in Int /\ job.from <= t /\ t <= job.to - 1
        /\ start <= t /\ t <= start + PickLength
    BY <1>1, <1>2, <1>4 DEF Taken, Asked
  <2> QED
    BY <1>1, <1>2, <2>1 DEF Overlaps
<1> QED
  BY <1>3, <1>4

\* What is said of a look at a processor in ChoiceTypeOK.
LookIsTyped(look, p, jobs) ==
    /\ look.left \subseteq look.listed
    /\ look.listed \subseteq {j \in Bookings : jobs[j].on = p}
    /\ look.conflicts <= Cardinality(look.listed \ look.left)

\* What a command has read of a processor: one that it could have had ever since has
\* no conflict and a heartbeat young enough, and a conflict stands for each booking
\* that is still matched and overlaps.
LookIsTrue(k, p, jobs) ==
    LET look == k.look[p] IN
    /\ p \in k.steady => look.conflicts = 0
    /\ p \in k.steady /\ look.at # "beat" => look.beat # NoBeat /\ k.called - look.beat <= PickAge
    /\ look.at \in {"beat", "matches"} => look.listed = {}
    /\ look.at = "done" => look.left = {}
    /\ \A j \in look.listed : jobs[j].state # "none" /\ jobs[j].on = p
    /\ \A j \in look.listed \ look.left :
          look.conflicts = 0 /\ jobs[j].state = "matched" => ~Overlaps(jobs[j], k.start)

\* FailsOnlyIfScarce and RefusedOnlyIfChanged of one command.
FailureIsDue(k) ==
    k.at = "failed" =>
        IF k.kind = "named" THEN k.named \notin k.steady
        ELSE Cardinality(k.steady \ k.excluded) < k.count

RefusalIsDue(k, jobs) ==
    \A j \in k.clash :
        \/ j \notin k.look[jobs[j].on].listed
        \/ Taken(jobs[j]) \cap Asked(k.start) = {}
        \/ k.force

ChooserIsSound(k, time, beat, jobs) ==
    /\ k.called <= time.here
    /\ k.steady \subseteq Suits(k.start, time, beat, jobs)
    /\ k.at \in {"idle", "list"} => k.look = [q \in Fleet |-> NoLook]
    /\ \A p \in Fleet : LookIsTrue(k, p, jobs)
    /\ k.at \in {"picked", "booked", "refused"} =>
          /\ \A p \in Fleet : k.look[p].at = "done"
          /\ \A p \in k.choice : k.look[p].conflicts = 0 \/ k.force
    /\ k.clash # {} => k.at = "refused"
    /\ \A j \in k.clash : jobs[j].state # "none"
    /\ FailureIsDue(k) /\ RefusalIsDue(k, jobs)

ChoiceInv ==
    ChoiceTypeOK /\ \A c \in Pickers : ChooserIsSound(picker[c], clocks, beats, booked)

LEMMA ChoiceStarts == ChoiceInit => ChoiceInv
<1> SUFFICES ASSUME ChoiceInit PROVE ChoiceInv
  OBVIOUS
<1>1. PICK kind \in PickKinds, p \in Fleet, force \in BOOLEAN, out \in {{}, {Managed[1]}},
           n \in 1..Len(Managed) :
        /\ kind # "named" => p = Managed[1] /\ ~force
        /\ kind # "auto" => out = {}
        /\ kind # "launch" => n = 1
        /\ picker = [c \in Pickers |->
                [kind |-> kind, named |-> p, force |-> force, excluded |-> out, count |-> n,
                 at |-> "idle", start |-> 0, called |-> 0, look |-> [q \in Fleet |-> NoLook],
                 choice |-> {}, steady |-> {}, clash |-> {}]]
  BY Zenon DEF ChoiceInit
<1>2. Managed[1] \in Fleet
  BY <1>1, ChoiceConstantsOK DEF ChoiceConstantsOK, Fleet
<1>3. MaxBeats \in Nat /\ Len(Managed) \in Nat
  BY ChoiceConstantsOK DEF ChoiceConstantsOK
<1>4. NoJob \in ChainJobs
  BY <1>2 DEF NoJob, ChainJobs, JobStates
<1>5. NoLook \in Lookings
  BY DEF NoLook, Lookings, Looks
<1>6. out \subseteq Fleet
  BY <1>2
<1>7. picker \in [Pickers -> Choosers]
  BY <1>1, <1>3, <1>5, <1>6 DEF Choosers, PickPlaces
<1>8. \A c \in Pickers, q \in Fleet : picker[c].look[q] = NoLook
  BY <1>1
<1>9. Cardinality({}) = 0
  BY FS_EmptySet
<1>10. ChoiceTypeOK
  <2>1. clocks \in [here : 0..MaxBeats, chain : 0..MaxBeats] /\ clocks.chain <= clocks.here
    BY <1>3 DEF ChoiceInit
  <2>2. beats \in [Fleet -> {NoBeat} \cup 0..MaxBeats] /\ \A q \in Fleet : beats[q] <= clocks.chain
    BY <1>3 DEF ChoiceInit, NoBeat
  <2>3. booked \in [Bookings -> ChainJobs]
    BY <1>4 DEF ChoiceInit
  <2>4. \A c \in Pickers, q \in Fleet :
           LET look == picker[c].look[q] IN
           /\ look.left \subseteq look.listed
           /\ look.listed \subseteq {j \in Bookings : booked[j].on = q}
           /\ look.conflicts <= Cardinality(look.listed \ look.left)
    <3>1. NoLook.listed = {} /\ NoLook.left = {} /\ NoLook.conflicts = 0
      BY DEF NoLook
    <3>2. NoLook.listed \ NoLook.left = {}
      BY <3>1
    <3>3. NoLook.conflicts <= Cardinality(NoLook.listed \ NoLook.left)
      BY <1>9, <3>1, <3>2
    <3> QED
      BY <1>8, <3>1, <3>3
  <2> QED
    BY <1>7, <2>1, <2>2, <2>3, <2>4 DEF ChoiceTypeOK
<1>11. ASSUME NEW c \in Pickers PROVE ChooserIsSound(picker[c], clocks, beats, booked)
  <2>1. /\ picker[c].at = "idle" /\ picker[c].called = 0 /\ picker[c].steady = {}
        /\ picker[c].look = [q \in Fleet |-> NoLook] /\ picker[c].clash = {}
    BY <1>1
  <2>2. \A q \in Fleet : LookIsTrue(picker[c], q, booked)
    BY <1>8, <2>1 DEF LookIsTrue, NoLook
  <2>3. clocks.here = 0
    BY DEF ChoiceInit
  <2> QED
    BY <2>1, <2>2, <2>3 DEF ChooserIsSound, FailureIsDue, RefusalIsDue
<1> QED
  BY <1>10, <1>11 DEF ChoiceInv

\* Jobs go on: what was booked keeps its time, and is not matched again.
JobsGoOn(jobs) ==
    \A j \in Bookings :
        booked[j].state # "none" =>
            /\ jobs[j].state # "none" /\ jobs[j].on = booked[j].on
            /\ jobs[j].from = booked[j].from /\ jobs[j].to = booked[j].to
            /\ jobs[j].state = "matched" => booked[j].state = "matched"

\* A step of the chain leaves what was read true of what is still so.
LEMMA ChainStepKeeps ==
  ASSUME ChoiceInv, NEW time, NEW beat, NEW jobs, ChainStep(time, beat, jobs), JobsGoOn(jobs),
         time \in [here : 0..MaxBeats, chain : 0..MaxBeats], time.chain <= time.here,
         clocks.here <= time.here,
         beat \in [Fleet -> {NoBeat} \cup 0..MaxBeats], \A p \in Fleet : beat[p] <= time.chain,
         jobs \in [Bookings -> ChainJobs]
  PROVE  ChoiceInv'
<1> USE DEF ChoiceInv
<1>1. /\ clocks' = time /\ beats' = beat /\ booked' = jobs
      /\ picker' = [c \in Pickers |->
            [picker[c] EXCEPT !.steady = @ \cap Suits(picker[c].start, time, beat, jobs)]]
  BY DEF ChainStep
<1>2. /\ picker \in [Pickers -> Choosers]
      /\ \A c \in Pickers, p \in Fleet :
          LET look == picker[c].look[p] IN
          /\ look.left \subseteq look.listed
          /\ look.listed \subseteq {j \in Bookings : booked[j].on = p}
          /\ look.conflicts <= Cardinality(look.listed \ look.left)
  BY DEF ChoiceTypeOK
<1>3. ASSUME NEW c \in Pickers
      PROVE  /\ picker'[c] \in Choosers /\ picker'[c].look = picker[c].look
             /\ picker'[c].steady = picker[c].steady \cap Suits(picker[c].start, time, beat, jobs)
             /\ picker'[c].at = picker[c].at /\ picker'[c].kind = picker[c].kind
             /\ picker'[c].named = picker[c].named /\ picker'[c].force = picker[c].force
             /\ picker'[c].excluded = picker[c].excluded /\ picker'[c].count = picker[c].count
             /\ picker'[c].start = picker[c].start /\ picker'[c].called = picker[c].called
             /\ picker'[c].choice = picker[c].choice /\ picker'[c].clash = picker[c].clash
  <2>1. picker[c] \in Choosers
    BY <1>2
  <2> QED
    BY <1>1, <2>1 DEF Choosers
<1>4. picker' \in [Pickers -> Choosers]
  BY <1>1, <1>3
<1>5. \A c \in Pickers, p \in Fleet : \A j \in picker[c].look[p].listed :
         /\ j \in Bookings /\ booked[j].state # "none" /\ booked[j].on = p
         /\ jobs[j].state # "none" /\ jobs[j].on = p
  <2> SUFFICES ASSUME NEW c \in Pickers, NEW p \in Fleet, NEW j \in picker[c].look[p].listed
               PROVE  /\ j \in Bookings /\ booked[j].state # "none" /\ booked[j].on = p
                      /\ jobs[j].state # "none" /\ jobs[j].on = p
    OBVIOUS
  <2>1. j \in Bookings /\ booked[j].on = p
    BY <1>2
  <2>2. LookIsTrue(picker[c], p, booked)
    BY DEF ChooserIsSound
  <2>3. booked[j].state # "none"
    BY <2>2 DEF LookIsTrue
  <2> QED
    BY <2>1, <2>3 DEF JobsGoOn
<1>6. ChoiceTypeOK'
  <2>1. \A c \in Pickers, p \in Fleet :
          LET look == picker'[c].look[p] IN
          /\ look.left \subseteq look.listed
          /\ look.listed \subseteq {j \in Bookings : jobs[j].on = p}
          /\ look.conflicts <= Cardinality(look.listed \ look.left)
    <3> SUFFICES ASSUME NEW c \in Pickers, NEW p \in Fleet
                 PROVE  LET look == picker[c].look[p] IN
                        /\ look.left \subseteq look.listed
                        /\ look.listed \subseteq {j \in Bookings : jobs[j].on = p}
                        /\ look.conflicts <= Cardinality(look.listed \ look.left)
      BY <1>3
    <3>1. \A j \in picker[c].look[p].listed : j \in Bookings /\ jobs[j].on = p
      BY <1>5
    <3> QED
      BY <1>2, <3>1
  <2>2. clocks' \in [here : 0..MaxBeats, chain : 0..MaxBeats] /\ clocks'.chain <= clocks'.here
    BY <1>1
  <2>3. beats' \in [Fleet -> {NoBeat} \cup 0..MaxBeats] /\ \A p \in Fleet : beats'[p] <= clocks'.chain
    BY <1>1
  <2>4. booked' \in [Bookings -> ChainJobs]
    BY <1>1
  <2>5. \A c \in Pickers, p \in Fleet : LookIsTyped(picker'[c].look[p], p, booked')
    <3>1. \A c \in Pickers, p \in Fleet : LookIsTyped(picker'[c].look[p], p, jobs)
      BY <2>1 DEF LookIsTyped
    <3> QED
      BY <1>1, <3>1
  <2> QED
    BY <1>4, <2>2, <2>3, <2>4, <2>5 DEF ChoiceTypeOK, LookIsTyped
<1>7. ASSUME NEW c \in Pickers PROVE ChooserIsSound(picker'[c], time, beat, jobs)
  <2> DEFINE k == picker[c]
             l == picker'[c]
  <2>1. k \in Choosers /\ l \in Choosers /\ ChooserIsSound(k, clocks, beats, booked)
    BY <1>2, <1>3
  <2>2. l.called <= time.here
    <3>1. l.called = k.called /\ k.called <= clocks.here
      BY <1>3, <2>1 DEF ChooserIsSound
    <3>2. k.called \in Nat /\ clocks.here \in Nat /\ time.here \in Nat
      BY <2>1, ChoiceConstantsOK DEF Choosers, ChoiceTypeOK, ChoiceConstantsOK
    <3> QED
      BY <3>1, <3>2
  <2>3. l.steady \subseteq k.steady /\ l.steady \subseteq Suits(l.start, time, beat, jobs)
    BY <1>3
  <2>4. ASSUME NEW p \in Fleet PROVE LookIsTrue(l, p, jobs)
    <3>1. LookIsTrue(k, p, booked) /\ l.look[p] = k.look[p]
      BY <1>3, <2>1 DEF ChooserIsSound
    <3>2. ASSUME NEW j \in k.look[p].listed, jobs[j].state = "matched"
          PROVE  booked[j].state = "matched" /\ (Overlaps(jobs[j], k.start) <=> Overlaps(booked[j], k.start))
      BY <1>5, <3>2 DEF JobsGoOn, Overlaps
    <3> QED
      BY <1>3, <1>5, <2>3, <3>1, <3>2 DEF LookIsTrue
  <2>5. \A j \in l.clash : /\ j \in Bookings /\ booked[j].state # "none"
                           /\ jobs[j].state # "none" /\ jobs[j].on = booked[j].on
                           /\ Taken(jobs[j]) = Taken(booked[j])
    BY <1>3, <2>1 DEF ChooserIsSound, JobsGoOn, Taken, Choosers
  <2>6. RefusalIsDue(l, jobs)
    BY <1>3, <2>1, <2>5 DEF ChooserIsSound, RefusalIsDue
  <2>7. FailureIsDue(l)
    <3>1. CASE k.at = "failed" /\ k.kind # "named"
      <4>1. Cardinality(k.steady \ k.excluded) < k.count
        BY <2>1, <3>1 DEF ChooserIsSound, FailureIsDue
      <4>2. (l.steady \ l.excluded) \in SUBSET (k.steady \ k.excluded)
        BY <1>3, <2>3
      <4>3. k.steady \ k.excluded \in SUBSET Fleet
        BY <2>1 DEF Choosers
      <4>4. IsFiniteSet(k.steady \ k.excluded)
        BY <4>3, FleetIsFinite, FS_Subset
      <4>5. /\ Cardinality(l.steady \ l.excluded) <= Cardinality(k.steady \ k.excluded)
            /\ Cardinality(l.steady \ l.excluded) \in Nat /\ Cardinality(k.steady \ k.excluded) \in Nat
        BY <4>2, <4>4, FS_Subset, FS_CardinalityType
      <4>6. k.count \in Nat
        BY <2>1, ChoiceConstantsOK DEF Choosers, ChoiceConstantsOK
      <4>7. Cardinality(l.steady \ l.excluded) < k.count
        BY <4>1, <4>5, <4>6
      <4>8. l.kind # "named" /\ l.count = k.count
        BY <1>3, <3>1
      <4> HIDE DEF k, l
      <4> QED
        BY <4>7, <4>8 DEF FailureIsDue
    <3>2. CASE ~(k.at = "failed" /\ k.kind # "named")
      BY <1>3, <2>1, <2>3, <3>2 DEF ChooserIsSound, FailureIsDue
    <3> QED
      BY <3>1, <3>2
  <2> QED
    BY <1>3, <2>1, <2>2, <2>3, <2>4, <2>5, <2>6, <2>7 DEF ChooserIsSound
<1> QED
  BY <1>1, <1>6, <1>7

\* The steps of the chain are such.
LEMMA ChainKeeps ==
  ASSUME ChoiceInv,
         \/ TimeGoesOn
         \/ \E p \in Fleet : Beats(p) \/ \E j \in Bookings : OthersBook(j, p)
         \/ \E j \in Bookings : JobEnds(j)
  PROVE  ChoiceInv'
<1>1. /\ clocks \in [here : 0..MaxBeats, chain : 0..MaxBeats] /\ clocks.chain <= clocks.here
      /\ beats \in [Fleet -> {NoBeat} \cup 0..MaxBeats] /\ \A p \in Fleet : beats[p] <= clocks.chain
      /\ booked \in [Bookings -> ChainJobs]
      /\ MaxBeats \in Nat /\ PickDelay \in Nat /\ PickLength \in Nat \ {0}
  BY ChoiceConstantsOK DEF ChoiceInv, ChoiceTypeOK, ChoiceConstantsOK
<1>2. JobsGoOn(booked)
  BY DEF JobsGoOn
<1>3. ASSUME TimeGoesOn PROVE ChoiceInv'
  <2>1. clocks.here < MaxBeats
    BY <1>3 DEF TimeGoesOn
  <2>2. PICK t \in clocks.chain..(clocks.here + 1) :
           ChainStep([here |-> clocks.here + 1, chain |-> t], beats, booked)
    BY <1>3 DEF TimeGoesOn
  <2> DEFINE time == [here |-> clocks.here + 1, chain |-> t]
  <2>3. /\ time \in [here : 0..MaxBeats, chain : 0..MaxBeats] /\ time.chain <= time.here
        /\ clocks.here <= time.here /\ \A p \in Fleet : beats[p] <= time.chain
    <3>1. /\ clocks.here \in 0..MaxBeats /\ clocks.chain \in 0..MaxBeats
          /\ t \in Int /\ clocks.chain <= t /\ t <= clocks.here + 1
      BY <1>1, <2>2
    <3>2. \A p \in Fleet : beats[p] \in Int /\ beats[p] <= clocks.chain
      BY <1>1 DEF NoBeat
    <3> QED
      BY <1>1, <2>1, <3>1, <3>2
  <2> HIDE DEF time
  <2> QED
    BY <1>1, <1>2, <2>2, <2>3, ChainStepKeeps DEF time
<1>4. ASSUME NEW p \in Fleet, Beats(p) PROVE ChoiceInv'
  <2> DEFINE beat == [beats EXCEPT ![p] = clocks.chain]
  <2>1. ChainStep(clocks, beat, booked)
    BY <1>4 DEF Beats
  <2>2. /\ beat \in [Fleet -> {NoBeat} \cup 0..MaxBeats] /\ \A q \in Fleet : beat[q] <= clocks.chain
        /\ clocks.here <= clocks.here
    BY <1>1
  <2> HIDE DEF beat
  <2> QED
    BY <1>1, <1>2, <2>1, <2>2, ChainStepKeeps
<1>5. ASSUME NEW p \in Fleet, NEW j \in Bookings, OthersBook(j, p) PROVE ChoiceInv'
  <2>1. PICK from \in clocks.chain..(MaxBeats + PickDelay + PickLength) :
           ChainStep(clocks, beats, [booked EXCEPT ![j] =
                        [state |-> "matched", on |-> p, from |-> from, to |-> from + PickLength]])
    BY <1>5 DEF OthersBook
  <2> DEFINE job == [state |-> "matched", on |-> p, from |-> from, to |-> from + PickLength]
             jobs == [booked EXCEPT ![j] = job]
  <2>2. job \in ChainJobs
    BY <1>1 DEF ChainJobs, JobStates
  <2>3. jobs \in [Bookings -> ChainJobs] /\ clocks.here <= clocks.here
    BY <1>1, <2>2
  <2>4. JobsGoOn(jobs)
    BY <1>1, <1>5 DEF JobsGoOn, OthersBook
  <2> HIDE DEF job, jobs
  <2> QED
    BY <1>1, <2>1, <2>3, <2>4, ChainStepKeeps DEF job, jobs
<1>6. ASSUME NEW j \in Bookings, JobEnds(j) PROVE ChoiceInv'
  <2>1. PICK state \in {"gone", "over"} :
           ChainStep(clocks, beats, [booked EXCEPT ![j].state = state]) /\ booked[j].state # "none"
    BY <1>6 DEF JobEnds
  <2> DEFINE jobs == [booked EXCEPT ![j].state = state]
  <2>2. booked[j] \in ChainJobs
    BY <1>1
  <2>3. jobs[j] = [booked[j] EXCEPT !.state = state]
    BY <1>1
  <2>4. /\ jobs[j] \in ChainJobs /\ jobs[j].state = state /\ jobs[j].on = booked[j].on
        /\ jobs[j].from = booked[j].from /\ jobs[j].to = booked[j].to
    BY <2>1, <2>2, <2>3 DEF ChainJobs, JobStates
  <2>5. /\ jobs \in [Bookings -> ChainJobs] /\ clocks.here <= clocks.here
        /\ \A i \in Bookings : i # j => jobs[i] = booked[i]
    BY <1>1, <2>4
  <2>6. JobsGoOn(jobs)
    BY <2>4, <2>5 DEF JobsGoOn
  <2> HIDE DEF jobs
  <2> QED
    BY <1>1, <2>1, <2>5, <2>6, ChainStepKeeps DEF jobs
<1> QED
  BY <1>3, <1>4, <1>5, <1>6

\* A command's own step changes nothing else.
LEMMA CommandKeeps ==
  ASSUME ChoiceInv, NEW c \in Pickers, NEW next \in Choosers, Chooses(c, next),
         \A p \in Fleet : LookIsTyped(next.look[p], p, booked),
         ChooserIsSound(next, clocks, beats, booked)
  PROVE  ChoiceInv'
<1>1. /\ picker' = [picker EXCEPT ![c] = next]
      /\ clocks' = clocks /\ beats' = beats /\ booked' = booked
  BY DEF Chooses
<1>2. picker \in [Pickers -> Choosers]
  BY DEF ChoiceInv, ChoiceTypeOK
<1>3. /\ picker' \in [Pickers -> Choosers] /\ picker'[c] = next
      /\ \A b \in Pickers : b # c => picker'[b] = picker[b]
  BY <1>1, <1>2
<1>4. \A b \in Pickers, p \in Fleet : LookIsTyped(picker'[b].look[p], p, booked)
  <2>1. \A b \in Pickers, p \in Fleet : LookIsTyped(picker[b].look[p], p, booked)
    BY DEF ChoiceInv, ChoiceTypeOK, LookIsTyped
  <2> QED
    BY <1>3, <2>1
<1>5. ChoiceTypeOK'
  <2>1. clocks' \in [here : 0..MaxBeats, chain : 0..MaxBeats] /\ clocks'.chain <= clocks'.here
    BY <1>1 DEF ChoiceInv, ChoiceTypeOK
  <2>2. beats' \in [Fleet -> {NoBeat} \cup 0..MaxBeats] /\ \A p \in Fleet : beats'[p] <= clocks'.chain
    BY <1>1 DEF ChoiceInv, ChoiceTypeOK
  <2>3. booked' \in [Bookings -> ChainJobs]
    BY <1>1 DEF ChoiceInv, ChoiceTypeOK
  <2>4. \A b \in Pickers, p \in Fleet : LookIsTyped(picker'[b].look[p], p, booked')
    BY <1>1, <1>4
  <2> QED
    BY <1>3, <2>1, <2>2, <2>3, <2>4 DEF ChoiceTypeOK, LookIsTyped
<1>6. \A b \in Pickers : ChooserIsSound(picker'[b], clocks, beats, booked)
  BY <1>3 DEF ChoiceInv
<1> QED
  BY <1>1, <1>5, <1>6 DEF ChoiceInv

\* What holds of a command before its step.
LEMMA CommandIsSound ==
  ASSUME ChoiceInv, NEW c \in Pickers
  PROVE  /\ picker[c] \in Choosers /\ ChooserIsSound(picker[c], clocks, beats, booked)
         /\ \A p \in Fleet : LookIsTyped(picker[c].look[p], p, booked)
         /\ clocks \in [here : 0..MaxBeats, chain : 0..MaxBeats] /\ clocks.chain <= clocks.here
         /\ beats \in [Fleet -> {NoBeat} \cup 0..MaxBeats]
         /\ booked \in [Bookings -> ChainJobs]
         /\ MaxBeats \in Nat /\ PickDelay \in Nat /\ PickLength \in Nat \ {0} /\ PickAge \in Nat
BY ChoiceConstantsOK DEF ChoiceInv, ChoiceTypeOK, ChoiceConstantsOK, LookIsTyped

\* The first two steps of a command.
LEMMA BeginningKeeps ==
  ASSUME ChoiceInv, NEW c \in Pickers, ReadChainTime(c) \/ ListManaged(c)
  PROVE  ChoiceInv'
<1> DEFINE k == picker[c]
<1>1. /\ k \in Choosers /\ ChooserIsSound(k, clocks, beats, booked)
      /\ \A p \in Fleet : LookIsTyped(k.look[p], p, booked)
      /\ clocks \in [here : 0..MaxBeats, chain : 0..MaxBeats]
      /\ MaxBeats \in Nat /\ PickDelay \in Nat
  BY CommandIsSound
<1>2. k.at \in {"idle", "list"}
  BY DEF ReadChainTime, ListManaged
<1>3. k.look = [q \in Fleet |-> NoLook] /\ k.clash = {}
  BY <1>1, <1>2 DEF ChooserIsSound
<1>4. \A q \in Fleet : /\ k.look[q].at = "beat" /\ k.look[q].listed = {} /\ k.look[q].left = {}
                       /\ k.look[q].conflicts = 0
  BY <1>3 DEF NoLook
<1>5. CASE ReadChainTime(c)
  <2> DEFINE start == clocks.chain + PickDelay
             next == [k EXCEPT !.at = "list", !.start = start,
                                !.steady = Suits(start, clocks, beats, booked)]
  <2>1. Chooses(c, next) /\ k.at = "idle"
    BY <1>5 DEF ReadChainTime
  <2>2. start \in Nat /\ Suits(start, clocks, beats, booked) \subseteq Fleet
    BY <1>1 DEF Suits
  <2>3. next \in Choosers
    BY <1>1, <2>2 DEF Choosers, PickPlaces
  <2>4. /\ next.at = "list" /\ next.look = k.look /\ next.clash = {} /\ next.called = k.called
        /\ next.steady = Suits(next.start, clocks, beats, booked)
    BY <1>1, <1>3 DEF Choosers
  <2>5. \A q \in Fleet : LookIsTyped(next.look[q], q, booked) /\ LookIsTrue(next, q, booked)
    BY <1>1, <1>4, <2>4 DEF LookIsTrue
  <2> HIDE DEF next
  <2>6. ChooserIsSound(next, clocks, beats, booked)
    BY <1>1, <1>3, <2>4, <2>5 DEF ChooserIsSound, FailureIsDue, RefusalIsDue
  <2> QED
    BY <2>1, <2>3, <2>5, <2>6, CommandKeeps
<1>6. CASE ListManaged(c)
  <2> DEFINE next == [k EXCEPT !.at = "reads", !.called = clocks.here]
  <2>1. Chooses(c, next)
    BY <1>6 DEF ListManaged
  <2>2. next \in Choosers
    BY <1>1 DEF Choosers, PickPlaces
  <2>3. /\ next.at = "reads" /\ next.look = k.look /\ next.clash = {} /\ next.called = clocks.here
        /\ next.steady = k.steady /\ next.start = k.start
    BY <1>1, <1>3 DEF Choosers
  <2>4. \A q \in Fleet : LookIsTyped(next.look[q], q, booked) /\ LookIsTrue(next, q, booked)
    BY <1>1, <1>4, <2>3 DEF LookIsTrue
  <2>5. k.steady \subseteq Suits(k.start, clocks, beats, booked)
    BY <1>1 DEF ChooserIsSound
  <2>6. next.called <= clocks.here
    BY <1>1, <2>3
  <2> HIDE DEF next
  <2>7. ChooserIsSound(next, clocks, beats, booked)
    BY <1>1, <2>3, <2>4, <2>5, <2>6 DEF ChooserIsSound, FailureIsDue, RefusalIsDue
  <2> QED
    BY <2>1, <2>2, <2>4, <2>7, CommandKeeps
<1> QED
  BY <1>5, <1>6

\* A read of one processor keeps what holds, if it does of that processor.
LEMMA LookKeeps ==
  ASSUME ChoiceInv, NEW c \in Pickers, NEW p \in Fleet, NEW look \in Lookings,
         picker[c].at = "reads",
         Chooses(c, [picker[c] EXCEPT !.look[p] = look]),
         LookIsTyped(look, p, booked),
         LookIsTrue([picker[c] EXCEPT !.look[p] = look], p, booked)
  PROVE  ChoiceInv'
<1> DEFINE k == picker[c]
           next == [k EXCEPT !.look[p] = look]
<1>1. /\ k \in Choosers /\ ChooserIsSound(k, clocks, beats, booked)
      /\ \A q \in Fleet : LookIsTyped(k.look[q], q, booked)
  BY CommandIsSound
<1>2. next \in Choosers
  BY <1>1 DEF Choosers
<1>3. /\ next.look[p] = look /\ \A q \in Fleet : q # p => next.look[q] = k.look[q]
  BY <1>1 DEF Choosers
<1>4. /\ next.at = k.at /\ next.steady = k.steady /\ next.called = k.called /\ next.start = k.start
      /\ next.clash = k.clash
  BY <1>1 DEF Choosers
<1>5. LookIsTrue(next, p, booked)
  OBVIOUS
<1> HIDE DEF next
<1>6. \A q \in Fleet : LookIsTrue(next, q, booked)
  <2>1. \A q \in Fleet : LookIsTrue(k, q, booked)
    BY <1>1 DEF ChooserIsSound
  <2> QED
    BY <1>3, <1>4, <1>5, <2>1 DEF LookIsTrue
<1>7. ChooserIsSound(next, clocks, beats, booked)
  BY <1>1, <1>4, <1>6 DEF ChooserIsSound, FailureIsDue, RefusalIsDue
<1>8. \A q \in Fleet : LookIsTyped(next.look[q], q, booked)
  BY <1>1, <1>3
<1>9. Chooses(c, next)
  BY DEF next
<1> QED
  BY <1>2, <1>7, <1>8, <1>9, CommandKeeps

\* A heartbeat and a list of matches are read as they are.
LEMMA FirstReadsKeep ==
  ASSUME ChoiceInv, NEW c \in Pickers, NEW p \in Fleet, ReadBeat(c, p) \/ ListMatches(c, p)
  PROVE  ChoiceInv'
<1> DEFINE k == picker[c]
           now == k.look[p]
<1>1. /\ k \in Choosers /\ ChooserIsSound(k, clocks, beats, booked)
      /\ LookIsTyped(now, p, booked)
      /\ clocks \in [here : 0..MaxBeats, chain : 0..MaxBeats]
      /\ beats \in [Fleet -> {NoBeat} \cup 0..MaxBeats]
      /\ MaxBeats \in Nat /\ PickAge \in Nat
  BY CommandIsSound
<1>2. now \in Lookings /\ LookIsTrue(k, p, booked) /\ k.called <= clocks.here
  BY <1>1 DEF Choosers, ChooserIsSound
<1>3. k.at = "reads" /\ now.at \in {"beat", "matches"}
  BY DEF ReadBeat, ListMatches
<1>4. now.listed = {} /\ now.left = {} /\ now.conflicts = 0
  <2>1. now.listed = {} /\ now.left = {}
    BY <1>1, <1>2, <1>3 DEF LookIsTrue, LookIsTyped
  <2>2. now.listed \ now.left = {}
    BY <2>1
  <2>3. now.conflicts <= 0 /\ now.conflicts \in Nat
    BY <1>1, <1>2, <2>2, FS_EmptySet DEF LookIsTyped, Lookings
  <2> QED
    BY <2>1, <2>3
<1>5. CASE ReadBeat(c, p)
  <2> DEFINE look == [now EXCEPT !.at = "matches", !.beat = beats[p]]
             next == [k EXCEPT !.look[p] = look]
  <2>1. Chooses(c, next)
    BY <1>5 DEF ReadBeat
  <2>2. /\ look.at = "matches" /\ look.beat = beats[p] /\ look.listed = {} /\ look.left = {}
        /\ look.conflicts = 0 /\ look \in Lookings
    BY <1>1, <1>2, <1>4 DEF Lookings, Looks
  <2>3. next.look[p] = look /\ next.steady = k.steady /\ next.called = k.called /\ next.start = k.start
    BY <1>1 DEF Choosers
  <2>4. p \in k.steady => beats[p] # NoBeat /\ k.called - beats[p] <= PickAge
    <3>1. p \in k.steady => beats[p] # NoBeat /\ clocks.here - beats[p] <= PickAge
      BY <1>1 DEF ChooserIsSound, Suits
    <3>2. k.called \in Int /\ clocks.here \in Int /\ beats[p] \in Int
      BY <1>1 DEF Choosers, NoBeat
    <3> QED
      BY <1>1, <1>2, <3>1, <3>2
  <2> HIDE DEF look
  <2>5. LookIsTrue(next, p, booked)
    BY <2>2, <2>3, <2>4 DEF LookIsTrue
  <2>6. LookIsTyped(look, p, booked)
    <3>1. look.listed \ look.left = {}
      BY <2>2
    <3>2. look.conflicts <= Cardinality(look.listed \ look.left)
      BY <2>2, <3>1, FS_EmptySet
    <3> QED
      BY <2>2, <3>2 DEF LookIsTyped
  <2> QED
    BY <1>3, <2>1, <2>2, <2>5, <2>6, LookKeeps
<1>6. CASE ListMatches(c, p)
  <2> DEFINE jobs == {j \in Bookings : booked[j].on = p /\ booked[j].state \in {"matched", "gone"}}
             look == [now EXCEPT !.listed = jobs, !.left = jobs,
                                 !.at = IF jobs = {} THEN "done" ELSE "jobs"]
             next == [k EXCEPT !.look[p] = look]
  <2>1. Chooses(c, next) /\ now.at = "matches"
    BY <1>6 DEF ListMatches
  <2>2. /\ \A j \in jobs : booked[j].state # "none" /\ booked[j].on = p
        /\ jobs \subseteq {j \in Bookings : booked[j].on = p}
    OBVIOUS
  <2>3. /\ look.at \in {"done", "jobs"} /\ (look.at = "done" => jobs = {})
        /\ look.beat = now.beat /\ look.listed = jobs /\ look.left = jobs
        /\ look.conflicts = 0 /\ look \in Lookings
    BY <1>2, <1>4 DEF Lookings, Looks
  <2>4. next.look[p] = look /\ next.steady = k.steady /\ next.called = k.called /\ next.start = k.start
    BY <1>1 DEF Choosers
  <2> HIDE DEF look, jobs
  <2>5. LookIsTrue(next, p, booked)
    BY <1>2, <2>1, <2>2, <2>3, <2>4 DEF LookIsTrue
  <2>6. LookIsTyped(look, p, booked)
    <3>1. look.listed \ look.left = {}
      BY <2>3
    <3>2. look.conflicts <= Cardinality(look.listed \ look.left)
      BY <2>3, <3>1, FS_EmptySet
    <3> QED
      BY <2>2, <2>3, <3>2 DEF LookIsTyped
  <2> QED
    BY <1>3, <2>1, <2>3, <2>5, <2>6, LookKeeps
<1> QED
  BY <1>5, <1>6

\* A registration is read: a conflict is counted for a match that overlaps.
LEMMA ReadBookingKeeps ==
  ASSUME ChoiceInv, NEW c \in Pickers, NEW p \in Fleet, ReadBooking(c, p)
  PROVE  ChoiceInv'
<1> DEFINE k == picker[c]
           now == k.look[p]
<1>1. PICK j \in now.left :
        Chooses(c, [k EXCEPT !.look[p] =
            [now EXCEPT !.left = now.left \ {j},
                        !.conflicts = IF booked[j].state = "matched" /\ Overlaps(booked[j], k.start)
                                      THEN now.conflicts + 1 ELSE now.conflicts,
                        !.at = IF now.left = {j} THEN "done" ELSE "jobs"]])
  BY DEF ReadBooking
<1>2. k.at = "reads" /\ now.at = "jobs"
  BY DEF ReadBooking
<1>3. /\ k \in Choosers /\ ChooserIsSound(k, clocks, beats, booked)
      /\ LookIsTyped(now, p, booked)
      /\ booked \in [Bookings -> ChainJobs]
  BY CommandIsSound
<1>4. now \in Lookings /\ LookIsTrue(k, p, booked)
  BY <1>3 DEF Choosers, ChooserIsSound
<1> DEFINE clashes == booked[j].state = "matched" /\ Overlaps(booked[j], k.start)
           look == [now EXCEPT !.left = now.left \ {j},
                               !.conflicts = IF clashes THEN now.conflicts + 1 ELSE now.conflicts,
                               !.at = IF now.left = {j} THEN "done" ELSE "jobs"]
           next == [k EXCEPT !.look[p] = look]
<1>5. Chooses(c, next)
  BY <1>1
<1>6. /\ look.at \in {"done", "jobs"} /\ (look.at = "done" => look.left = {})
      /\ look.beat = now.beat /\ look.listed = now.listed /\ look.left = now.left \ {j}
      /\ look.conflicts = (IF clashes THEN now.conflicts + 1 ELSE now.conflicts)
      /\ now.conflicts \in Nat
  BY <1>4 DEF Lookings
<1>7. look \in Lookings
  <2>1. look.conflicts \in Nat
    <3> HIDE DEF look, clashes
    <3> QED
      BY <1>6
  <2>2. look.left \in SUBSET Bookings
    BY <1>4, <1>6 DEF Lookings
  <2> QED
    BY <1>4, <1>6, <2>1, <2>2 DEF Lookings, Looks
<1>8. next.look[p] = look /\ next.steady = k.steady /\ next.called = k.called /\ next.start = k.start
  BY <1>3 DEF Choosers
<1>9. j \in Bookings /\ j \in now.listed /\ booked[j].on = p /\ booked[j].state # "none"
  BY <1>3, <1>4 DEF LookIsTyped, LookIsTrue
<1>10. p \in k.steady => ~clashes
  <2> SUFFICES ASSUME p \in k.steady, clashes PROVE FALSE
    OBVIOUS
  <2>1. FreeIn(booked, p, Asked(k.start))
    BY <1>3 DEF ChooserIsSound, Suits
  <2>2. Taken(booked[j]) \cap Asked(k.start) = {}
    BY <1>9, <2>1 DEF FreeIn
  <2>3. booked[j] \in ChainJobs /\ k.start \in Nat
    BY <1>3, <1>9 DEF Choosers
  <2> QED
    BY <1>9, <2>2, <2>3, OverlapIsShared
<1> HIDE DEF clashes, look
<1>11. LookIsTrue(next, p, booked)
  <2>1. p \in k.steady => look.conflicts = 0
    BY <1>4, <1>6, <1>10 DEF LookIsTrue
  <2>2. p \in k.steady => look.beat # NoBeat /\ k.called - look.beat <= PickAge
    BY <1>2, <1>4, <1>6 DEF LookIsTrue
  <2>3. \A i \in look.listed : booked[i].state # "none" /\ booked[i].on = p
    BY <1>4, <1>6 DEF LookIsTrue
  <2>4. ASSUME NEW i \in look.listed \ look.left, look.conflicts = 0, booked[i].state = "matched"
        PROVE  ~Overlaps(booked[i], k.start)
    <3>1. now.conflicts = 0 /\ ~clashes
      BY <1>6, <2>4
    <3>2. CASE i = j
      BY <2>4, <3>1, <3>2 DEF clashes
    <3>3. CASE i # j
      BY <1>4, <1>6, <2>4, <3>1, <3>3 DEF LookIsTrue
    <3> QED
      BY <3>2, <3>3
  <2> HIDE DEF next
  <2> QED
    BY <1>6, <1>8, <2>1, <2>2, <2>3, <2>4 DEF LookIsTrue
<1>12. LookIsTyped(look, p, booked)
  <2> DEFINE done == now.listed \ now.left
  <2>1. look.listed \ look.left = done \cup {j} /\ j \notin done
    BY <1>6, <1>9
  <2>2. IsFiniteSet(done)
    <3>1. done \in SUBSET Bookings /\ IsFiniteSet(Bookings)
      BY <1>3, ChoiceConstantsOK DEF LookIsTyped, ChoiceConstantsOK
    <3> QED
      BY <3>1, FS_Subset
  <2>3. Cardinality(done \cup {j}) = Cardinality(done) + 1 /\ Cardinality(done) \in Nat
    <3> HIDE DEF done
    <3> QED
      BY <2>1, <2>2, FS_AddElement, FS_CardinalityType
  <2>4. now.conflicts <= Cardinality(done)
    BY <1>3 DEF LookIsTyped
  <2>5. look.conflicts <= Cardinality(look.listed \ look.left)
    <3>1. Cardinality(look.listed \ look.left) = Cardinality(done \cup {j})
      BY <2>1
    <3>2. look.conflicts <= now.conflicts + 1
      BY <1>6
    <3>3. look.conflicts \in Nat
      BY <1>7 DEF Lookings
    <3> HIDE DEF done
    <3> QED
      BY <1>6, <2>3, <2>4, <3>1, <3>2, <3>3
  <2>6. look.left \subseteq look.listed /\ look.listed \subseteq {i \in Bookings : booked[i].on = p}
    BY <1>3, <1>6 DEF LookIsTyped
  <2> QED
    BY <2>5, <2>6 DEF LookIsTyped
<1> QED
  BY <1>2, <1>5, <1>7, <1>11, <1>12, LookKeeps

\* A processor that a command could have had ever since it began, and that it did not
\* exclude, is available to it.
LEMMA SteadyIsAvailable ==
  ASSUME ChoiceInv, NEW c \in Pickers, \A p \in Fleet : picker[c].look[p].at = "done"
  PROVE  picker[c].steady \ picker[c].excluded \subseteq Available(c)
<1> SUFFICES ASSUME NEW p \in picker[c].steady \ picker[c].excluded PROVE p \in Available(c)
  OBVIOUS
<1> DEFINE k == picker[c]
<1>1. k \in Choosers /\ ChooserIsSound(k, clocks, beats, booked) /\ PickAge \in Nat /\ MaxBeats \in Nat
  BY CommandIsSound
<1>2. p \in Fleet /\ k.look[p].at = "done"
  BY <1>1 DEF Choosers
<1>3. LookIsTrue(k, p, booked) /\ k.look[p] \in Lookings
  BY <1>1, <1>2 DEF ChooserIsSound, Choosers
<1>4. /\ k.look[p].conflicts = 0 /\ k.look[p].beat # NoBeat /\ k.called - k.look[p].beat <= PickAge
  BY <1>2, <1>3 DEF LookIsTrue
<1>5. BeatAge(c, p) <= PickAge
  BY <1>1, <1>4 DEF BeatAge
<1> QED
  BY <1>2, <1>4, <1>5 DEF Available, ReadyToPick

\* A choice that fails is short of processors; what it picks has no conflict, or is forced.
LEMMA ChooseKeeps ==
  ASSUME ChoiceInv, NEW c \in Pickers, Choose(c)
  PROVE  ChoiceInv'
<1> DEFINE k == picker[c]
<1>1. /\ k \in Choosers /\ ChooserIsSound(k, clocks, beats, booked)
      /\ \A p \in Fleet : LookIsTyped(k.look[p], p, booked)
  BY CommandIsSound
<1>2. k.at = "reads" /\ \A p \in Fleet : k.look[p].at = "done"
  BY DEF Choose
<1>3. k.clash = {}
  BY <1>1, <1>2 DEF ChooserIsSound
<1>4. CASE ~EnoughToPick(c) /\ Chooses(c, [k EXCEPT !.at = "failed"])
  <2> DEFINE next == [k EXCEPT !.at = "failed"]
  <2>1. /\ next \in Choosers /\ next.look = k.look /\ next.steady = k.steady
        /\ next.called = k.called /\ next.start = k.start /\ next.clash = {}
        /\ next.kind = k.kind /\ next.named = k.named /\ next.excluded = k.excluded
        /\ next.count = k.count /\ next.at = "failed"
    BY <1>1, <1>3 DEF Choosers, PickPlaces
  <2>2. FailureIsDue(next)
    <3>1. CASE k.kind = "named"
      <4>1. k.named \in Fleet /\ LookIsTrue(k, k.named, booked)
        BY <1>1 DEF ChooserIsSound, Choosers
      <4>2. k.look[k.named].conflicts # 0
        BY <1>4, <3>1 DEF EnoughToPick, NamedMayBePicked
      <4> QED
        BY <2>1, <3>1, <4>1, <4>2 DEF LookIsTrue, FailureIsDue
    <3>2. CASE k.kind # "named"
      <4> DEFINE S == k.steady \ k.excluded
                 T == Available(c)
      <4>1. S \in SUBSET T
        BY <1>2, SteadyIsAvailable
      <4>2. IsFiniteSet(T)
        <5>1. T \in SUBSET Fleet
          BY DEF Available
        <5> HIDE DEF T
        <5> QED
          BY <5>1, FleetIsFinite, FS_Subset
      <4>3. Cardinality(S) <= Cardinality(T) /\ Cardinality(S) \in Nat /\ Cardinality(T) \in Nat
        <5> HIDE DEF S, T
        <5> QED
          BY <4>1, <4>2, FS_Subset, FS_CardinalityType
      <4>4. ~(Cardinality(T) >= k.count)
        BY <1>4, <3>2 DEF EnoughToPick
      <4>5. k.count \in Nat
        BY <1>1, ChoiceConstantsOK DEF Choosers, ChoiceConstantsOK
      <4>6. Cardinality(S) < k.count
        <5> HIDE DEF S, T
        <5> QED
          BY <4>3, <4>4, <4>5
      <4> QED
        BY <2>1, <3>2, <4>6 DEF FailureIsDue
    <3> QED
      BY <3>1, <3>2
  <2> HIDE DEF next
  <2>3. \A p \in Fleet : LookIsTrue(next, p, booked)
    BY <1>1, <2>1 DEF ChooserIsSound, LookIsTrue
  <2>4. ChooserIsSound(next, clocks, beats, booked)
    BY <1>1, <2>1, <2>2, <2>3 DEF ChooserIsSound, RefusalIsDue
  <2>5. \A p \in Fleet : LookIsTyped(next.look[p], p, booked)
    BY <1>1, <2>1
  <2> QED
    BY <1>4, <2>1, <2>4, <2>5, CommandKeeps DEF next
<1>5. ASSUME EnoughToPick(c), NEW best \in Picks(c),
             Chooses(c, [k EXCEPT !.choice = best, !.at = "picked"])
      PROVE  ChoiceInv'
  <2> DEFINE next == [k EXCEPT !.choice = best, !.at = "picked"]
  <2>1. best \subseteq Fleet /\ \A p \in best : k.look[p].conflicts = 0 \/ k.force
    <3>1. CASE k.kind = "named"
      <4>1. best = {k.named} /\ NamedMayBePicked(c)
        BY <1>5, <3>1 DEF Picks, EnoughToPick
      <4> QED
        BY <1>1, <4>1 DEF NamedMayBePicked, Choosers
    <3>2. CASE k.kind # "named"
      <4>1. best \subseteq Available(c)
        BY <1>5, <3>2 DEF Picks
      <4> QED
        BY <4>1 DEF Available, ReadyToPick
    <3> QED
      BY <3>1, <3>2
  <2>2. /\ next \in Choosers /\ next.look = k.look /\ next.steady = k.steady
        /\ next.called = k.called /\ next.start = k.start /\ next.clash = {}
        /\ next.force = k.force /\ next.choice = best /\ next.at = "picked"
    BY <1>1, <1>3, <2>1 DEF Choosers, PickPlaces
  <2> HIDE DEF next
  <2>3. \A p \in Fleet : LookIsTrue(next, p, booked)
    BY <1>1, <2>2 DEF ChooserIsSound, LookIsTrue
  <2>4. ChooserIsSound(next, clocks, beats, booked)
    BY <1>1, <1>2, <2>1, <2>2, <2>3 DEF ChooserIsSound, FailureIsDue, RefusalIsDue
  <2>5. \A p \in Fleet : LookIsTyped(next.look[p], p, booked)
    BY <1>1, <2>2
  <2> QED
    BY <1>5, <2>2, <2>4, <2>5, CommandKeeps DEF next
<1> QED
  BY <1>4, <1>5 DEF Choose

\* A refusal is for a booking that was not listed, or did not overlap when it was.
LEMMA BookKeeps ==
  ASSUME ChoiceInv, NEW c \in Pickers, Book(c)
  PROVE  ChoiceInv'
<1> DEFINE k == picker[c]
<1>1. /\ k \in Choosers /\ ChooserIsSound(k, clocks, beats, booked)
      /\ \A p \in Fleet : LookIsTyped(k.look[p], p, booked)
      /\ booked \in [Bookings -> ChainJobs]
  BY CommandIsSound
<1>2. k.at = "picked"
  BY DEF Book
<1>3. PICK clash \in SUBSET Bookings :
        /\ \A j \in clash : booked[j].state = "matched" /\ booked[j].on \in k.choice
        /\ Chooses(c, [k EXCEPT !.at = IF clash = {} THEN "booked" ELSE "refused", !.clash = clash])
  BY DEF Book
<1> DEFINE next == [k EXCEPT !.at = IF clash = {} THEN "booked" ELSE "refused", !.clash = clash]
<1>4. /\ next \in Choosers /\ next.look = k.look /\ next.steady = k.steady
      /\ next.called = k.called /\ next.start = k.start /\ next.clash = clash
      /\ next.force = k.force /\ next.choice = k.choice
      /\ next.at \in {"booked", "refused"} /\ (clash # {} => next.at = "refused")
  BY <1>1 DEF Choosers, PickPlaces
<1>5. ASSUME NEW j \in clash
      PROVE  \/ j \notin k.look[booked[j].on].listed
             \/ Taken(booked[j]) \cap Asked(k.start) = {}
             \/ k.force
  <2> SUFFICES ASSUME j \in k.look[booked[j].on].listed, ~k.force
               PROVE  Taken(booked[j]) \cap Asked(k.start) = {}
    OBVIOUS
  <2> DEFINE p == booked[j].on
  <2>1. p \in k.choice /\ p \in Fleet /\ booked[j] \in ChainJobs /\ booked[j].state = "matched"
    BY <1>1, <1>3 DEF Choosers
  <2>2. k.look[p].conflicts = 0 /\ k.look[p].at = "done" /\ LookIsTrue(k, p, booked)
    BY <1>1, <1>2, <2>1 DEF ChooserIsSound
  <2>3. ~Overlaps(booked[j], k.start)
    BY <2>1, <2>2 DEF LookIsTrue
  <2>4. k.start \in Nat
    BY <1>1 DEF Choosers
  <2> QED
    BY <2>1, <2>3, <2>4, OverlapIsShared
<1> HIDE DEF next
<1>6. \A p \in Fleet : LookIsTrue(next, p, booked)
  BY <1>1, <1>4 DEF ChooserIsSound, LookIsTrue
<1>7. ChooserIsSound(next, clocks, beats, booked)
  <2>1. RefusalIsDue(next, booked)
    BY <1>4, <1>5 DEF RefusalIsDue
  <2>2. /\ \A p \in Fleet : next.look[p].at = "done"
        /\ \A p \in next.choice : next.look[p].conflicts = 0 \/ next.force
    BY <1>1, <1>2, <1>4 DEF ChooserIsSound
  <2>3. \A j \in next.clash : booked[j].state # "none"
    BY <1>3, <1>4
  <2> QED
    BY <1>1, <1>4, <1>6, <2>1, <2>2, <2>3 DEF ChooserIsSound, FailureIsDue
<1>8. \A p \in Fleet : LookIsTyped(next.look[p], p, booked)
  BY <1>1, <1>4
<1> QED
  BY <1>3, <1>4, <1>7, <1>8, CommandKeeps DEF next

LEMMA ChoiceStep == ChoiceInv /\ [ChoiceNext]_choiceVars => ChoiceInv'
<1> SUFFICES ASSUME ChoiceInv, [ChoiceNext]_choiceVars PROVE ChoiceInv'
  OBVIOUS
<1>1. CASE \/ TimeGoesOn
           \/ \E p \in Fleet : Beats(p) \/ \E j \in Bookings : OthersBook(j, p)
           \/ \E j \in Bookings : JobEnds(j)
  BY <1>1, ChainKeeps
<1>2. ASSUME NEW c \in Pickers,
             \/ ReadChainTime(c) \/ ListManaged(c) \/ Choose(c) \/ Book(c)
             \/ \E p \in Fleet : ReadBeat(c, p) \/ ListMatches(c, p) \/ ReadBooking(c, p)
      PROVE  ChoiceInv'
  BY <1>2, BeginningKeeps, FirstReadsKeep, ReadBookingKeeps, ChooseKeeps, BookKeeps
<1>3. CASE UNCHANGED choiceVars
  BY <1>3 DEF choiceVars, ChoiceInv, ChoiceTypeOK
<1> QED
  BY <1>1, <1>2, <1>3 DEF ChoiceNext

\* However the chain moves under the reads of a choice of processors, it comes out short
\* only if too few could be had all the time, and the chain refuses the booking only for a
\* match newer than what was read, or outside of the window as it was read.
THEOREM ChoicesAreSafe == ChoiceSpec => []ChoiceSafe
<1>1. ChoiceInv => ChoiceSafe
  BY DEF ChoiceInv, ChoiceSafe, ChooserIsSound, FailureIsDue, RefusalIsDue, FailsOnlyIfScarce,
         RefusedOnlyIfChanged
<1> QED
  BY <1>1, ChoiceStarts, ChoiceStep, PTL DEF ChoiceSpec

-------------------------------------------------------------------------------
(***************************************************************************)
(* What routes and launches select from                                    *)
(***************************************************************************)

\* A report that arrives is kept behind the others, once.
LEMMA ArrivalIsLast ==
  ASSUME NEW S, NEW s \in Seq(S), NEW e \in S, IsInjective(s), e \notin Range(s)
  PROVE  /\ Append(s, e) \in Seq(S) /\ Len(Append(s, e)) = Len(s) + 1 /\ Len(s) \in Nat
         /\ IsInjective(Append(s, e)) /\ Range(Append(s, e)) = Range(s) \cup {e}
<1> DEFINE t == Append(s, e)
<1>1. /\ t \in Seq(S) /\ Len(t) = Len(s) + 1 /\ Len(s) \in Nat
      /\ DOMAIN t = 1 .. Len(s) + 1 /\ DOMAIN s = 1 .. Len(s)
      /\ \A i \in 1 .. Len(s) : t[i] = s[i]
      /\ t[Len(s) + 1] = e
  OBVIOUS
<1> HIDE DEF t
<1>2. \A i \in DOMAIN s : s[i] \in Range(s)
  BY DEF Range
<1>3. IsInjective(t)
  BY <1>1, <1>2 DEF IsInjective
<1>4. Range(t) = Range(s) \cup {e}
  BY <1>1 DEF Range
<1> QED
  BY <1>1, <1>3, <1>4 DEF t

\* A signature by any gateway, old or new, with either kind of key, names that gateway.
LEMMA OwnSignatureCounts ==
  ASSUME NEW r, r.gateway \in Capables, style \in [Capables -> Styles]
  PROVE  SignerOf(r) = r.gateway
<1>1. r.gateway # Nobody /\ r.gateway # Throws
  BY CapabilityConstantsOK DEF CapabilityConstantsOK
<1>2. style[r.gateway] \in Styles
  OBVIOUS
<1>3. /\ style[r.gateway].over \in BOOLEAN /\ style[r.gateway].url \in BOOLEAN
      /\ style[r.gateway].over => style[r.gateway].url
  BY <1>2 DEF Styles
<1>4. CASE ~style[r.gateway].over
  <2>1. Recovered(r, FALSE) = r.gateway
    BY <1>3, <1>4 DEF Recovered
  <2> QED
    BY <1>1, <2>1 DEF SignerOf
<1>5. CASE style[r.gateway].over
  <2>1. Recovered(r, FALSE) \in {Throws, Nobody} /\ Recovered(r, TRUE) = r.gateway
    BY <1>3, <1>5 DEF Recovered
  <2> QED
    BY <1>3, <1>5, <2>1 DEF SignerOf
<1> QED
  BY <1>4, <1>5

\* The reports are numbered, so that a new one is none of them.
CapabilityInv ==
    /\ CapabilityTypeOK /\ HonestIsKept
    /\ IsFiniteSet(mail) /\ IsFiniteSet(spurned)
    /\ \A r \in mail \cup spurned \cup Range(kept) : r.id < ReportsMade

LEMMA CapabilityStarts == CapabilityInit => CapabilityInv
<1> SUFFICES ASSUME CapabilityInit PROVE CapabilityInv
  OBVIOUS
<1>1. mail = {} /\ kept = <<>> /\ spurned = {} /\ Range(kept) = {}
  BY DEF CapabilityInit, Range
<1>2. ReportsMade = 0
  BY <1>1, FS_EmptySet DEF ReportsMade
<1>3. MaxMoments \in Nat /\ MaxSigned \in Nat
  BY CapabilityConstantsOK DEF CapabilityConstantsOK
<1>4. kept \in Seq(Reports) /\ IsInjective(kept)
  BY <1>1 DEF IsInjective
<1>5. CapabilityTypeOK
  BY <1>1, <1>2, <1>3, <1>4 DEF CapabilityTypeOK, CapabilityInit
<1> QED
  BY <1>1, <1>5, FS_EmptySet DEF CapabilityInv, HonestIsKept

\* The count of reports is that of three finite collections.
LEMMA ReportsAreCounted ==
  ASSUME CapabilityInv
  PROVE  /\ Cardinality(mail) \in Nat /\ Len(kept) \in Nat /\ Cardinality(spurned) \in Nat
         /\ ReportsMade \in Nat /\ MaxSigned \in Nat /\ MaxMoments \in Nat /\ moment \in Nat
         /\ ReportLife \in Nat \ {0}
<1>1. kept \in Seq(Reports) /\ MaxMoments \in Nat /\ MaxSigned \in Nat /\ moment \in 0 .. MaxMoments
      /\ ReportLife \in Nat \ {0}
  BY CapabilityConstantsOK DEF CapabilityInv, CapabilityTypeOK, CapabilityConstantsOK
<1>2. Cardinality(mail) \in Nat /\ Cardinality(spurned) \in Nat
  BY FS_CardinalityType DEF CapabilityInv
<1>3. Len(kept) \in Nat
  BY <1>1
<1> QED
  BY <1>1, <1>2, <1>3 DEF ReportsMade

\* A new report has the next number.
LEMMA SigningKeeps ==
  ASSUME CapabilityInv, NEW g \in Capables, SignReport(g)
  PROVE  CapabilityInv'
<1>1. PICK condition \in Conditions, scopes \in ScopeLists :
        mail' = mail \cup {[id |-> ReportsMade, gateway |-> g, at |-> moment, condition |-> condition,
                            scopes |-> scopes]}
  BY DEF SignReport
<1>2. /\ moment' = moment /\ profile' = profile /\ style' = style /\ kept' = kept
      /\ spurned' = spurned /\ ReportsMade < MaxSigned
  BY DEF SignReport
<1> DEFINE new == [id |-> ReportsMade, gateway |-> g, at |-> moment, condition |-> condition,
                   scopes |-> scopes]
<1>3. /\ Cardinality(mail) \in Nat /\ Len(kept) \in Nat /\ Cardinality(spurned) \in Nat
      /\ ReportsMade \in Nat /\ MaxSigned \in Nat /\ moment \in Nat
  BY ReportsAreCounted
<1>4. new \in Reports /\ new.id = ReportsMade
  BY <1>2, <1>3 DEF Reports
<1> HIDE DEF new
<1>5. new \notin mail \cup spurned \cup Range(kept)
  BY <1>3, <1>4 DEF CapabilityInv
<1>6. mail' = mail \cup {new}
  BY <1>1 DEF new
<1>7. Cardinality(mail') = Cardinality(mail) + 1 /\ IsFiniteSet(mail')
  BY <1>5, <1>6, FS_AddElement DEF CapabilityInv
<1>8. ReportsMade' = ReportsMade + 1
  BY <1>2, <1>3, <1>7 DEF ReportsMade
<1>9. Reports' = Reports /\ Range(kept)' = Range(kept)
  BY <1>2 DEF Reports, Range
<1>10. CapabilityTypeOK'
  <2>1. mail' \subseteq Reports' /\ kept' \in Seq(Reports') /\ spurned' \subseteq Reports'
    BY <1>2, <1>4, <1>6, <1>9 DEF CapabilityInv, CapabilityTypeOK
  <2>2. IsInjective(kept') /\ (mail' \cup spurned') \cap Range(kept)' = {} /\ mail' \cap spurned' = {}
    BY <1>2, <1>5, <1>6, <1>9 DEF CapabilityInv, CapabilityTypeOK
  <2>3. ReportsMade' <= MaxSigned
    BY <1>2, <1>3, <1>8
  <2>4. moment' \in 0..MaxMoments /\ profile' \in Profiles /\ style' \in [Capables -> Styles]
    BY <1>2 DEF CapabilityInv, CapabilityTypeOK
  <2> QED
    BY <2>1, <2>2, <2>3, <2>4 DEF CapabilityTypeOK
<1>11. HonestIsKept'
  BY <1>2 DEF CapabilityInv, HonestIsKept, ReportExpired
<1>12. \A r \in mail' \cup spurned' \cup Range(kept)' : r.id < ReportsMade'
  <2>1. \A r \in mail \cup spurned \cup Range(kept) : r.id \in Int /\ r.id < ReportsMade
    <3>1. \A r \in mail \cup spurned \cup Range(kept) : r \in Reports
      BY DEF CapabilityInv, CapabilityTypeOK, Range
    <3> QED
      BY <1>3, <3>1 DEF CapabilityInv, Reports
  <2> QED
    BY <1>2, <1>3, <1>4, <1>6, <1>8, <1>9, <2>1
<1> QED
  BY <1>2, <1>7, <1>10, <1>11, <1>12 DEF CapabilityInv

\* A report that arrives moves from one collection to another; it is refused only if it
\* expired.
LEMMA ArrivalKeeps ==
  ASSUME CapabilityInv, NEW r \in mail, ReportArrives(r)
  PROVE  CapabilityInv'
<1>1. /\ mail' = mail \ {r} /\ moment' = moment /\ profile' = profile /\ style' = style
      /\ \/ Verified(r) /\ kept' = Append(kept, r) /\ spurned' = spurned
         \/ ~Verified(r) /\ spurned' = spurned \cup {r} /\ kept' = kept
  BY DEF ReportArrives
<1>2. /\ Cardinality(mail) \in Nat /\ Len(kept) \in Nat /\ Cardinality(spurned) \in Nat
      /\ ReportsMade \in Nat /\ MaxSigned \in Nat /\ moment \in Nat
  BY ReportsAreCounted
<1>3. /\ mail \subseteq Reports /\ kept \in Seq(Reports) /\ spurned \subseteq Reports
      /\ IsInjective(kept) /\ (mail \cup spurned) \cap Range(kept) = {} /\ mail \cap spurned = {}
      /\ moment \in 0..MaxMoments /\ profile \in Profiles /\ style \in [Capables -> Styles]
      /\ ReportsMade <= MaxSigned /\ IsFiniteSet(mail) /\ IsFiniteSet(spurned)
  BY DEF CapabilityInv, CapabilityTypeOK
<1>4. r \in Reports /\ r \notin Range(kept) /\ r \notin spurned
  BY <1>3
<1>5. Reports' = Reports
  BY <1>1 DEF Reports
<1>6. Cardinality(mail') = Cardinality(mail) - 1 /\ IsFiniteSet(mail')
  BY <1>1, <1>3, FS_RemoveElement
<1>7. /\ kept' \in Seq(Reports) /\ IsInjective(kept') /\ spurned' \subseteq Reports
      /\ (mail' \cup spurned') \cap Range(kept)' = {} /\ mail' \cap spurned' = {}
      /\ mail' \cup spurned' \cup Range(kept)' = mail \cup spurned \cup Range(kept)
      /\ IsFiniteSet(spurned') /\ ReportsMade' = ReportsMade
  <2>1. CASE Verified(r)
    <3>1. kept' = Append(kept, r) /\ spurned' = spurned
      BY <1>1, <2>1
    <3>2. /\ Append(kept, r) \in Seq(Reports) /\ Len(Append(kept, r)) = Len(kept) + 1
          /\ IsInjective(Append(kept, r)) /\ Range(Append(kept, r)) = Range(kept) \cup {r}
      BY <1>3, <1>4, ArrivalIsLast
    <3>3. Range(kept)' = Range(kept) \cup {r} /\ Len(kept') = Len(kept) + 1
      BY <3>1, <3>2 DEF Range
    <3>4. ReportsMade' = ReportsMade
      BY <1>2, <1>6, <3>1, <3>3 DEF ReportsMade
    <3> QED
      BY <1>1, <1>3, <1>4, <3>1, <3>2, <3>3, <3>4
  <2>2. CASE ~Verified(r)
    <3>1. kept' = kept /\ spurned' = spurned \cup {r}
      BY <1>1, <2>2
    <3>2. Cardinality(spurned') = Cardinality(spurned) + 1 /\ IsFiniteSet(spurned')
      BY <1>3, <1>4, <3>1, FS_AddElement
    <3>3. Range(kept)' = Range(kept)
      BY <3>1 DEF Range
    <3>4. ReportsMade' = ReportsMade
      BY <1>2, <1>6, <3>1, <3>2 DEF ReportsMade
    <3> QED
      BY <1>1, <1>3, <1>4, <3>1, <3>2, <3>3, <3>4
  <2> QED
    BY <2>1, <2>2
<1>8. CapabilityTypeOK'
  <2>1. mail' \subseteq Reports' /\ kept' \in Seq(Reports') /\ spurned' \subseteq Reports'
    BY <1>1, <1>3, <1>5, <1>7
  <2>2. ReportsMade' <= MaxSigned
    BY <1>3, <1>7
  <2>3. moment' \in 0..MaxMoments /\ profile' \in Profiles /\ style' \in [Capables -> Styles]
    BY <1>1, <1>3
  <2> QED
    BY <1>7, <2>1, <2>2, <2>3 DEF CapabilityTypeOK
<1>9. HonestIsKept'
  <2>1. \A s \in spurned : ReportExpired(s)
    BY DEF CapabilityInv, HonestIsKept
  <2>2. r.gateway \in Capables
    BY <1>4 DEF Reports
  <2>3. ~Verified(r) => ReportExpired(r)
    BY <1>3, <2>2, OwnSignatureCounts DEF Verified
  <2>4. \A s \in spurned' : ReportExpired(s)
    BY <1>1, <2>1, <2>3
  <2> QED
    BY <1>1, <2>4 DEF HonestIsKept, ReportExpired
<1>10. \A s \in mail' \cup spurned' \cup Range(kept)' : s.id < ReportsMade'
  BY <1>7 DEF CapabilityInv
<1> QED
  BY <1>6, <1>7, <1>8, <1>9, <1>10 DEF CapabilityInv

LEMMA CapabilityStep == CapabilityInv /\ [CapabilityNext]_capabilityVars => CapabilityInv'
<1> SUFFICES ASSUME CapabilityInv, [CapabilityNext]_capabilityVars PROVE CapabilityInv'
  OBVIOUS
<1>1. /\ ReportsMade \in Nat /\ MaxSigned \in Nat /\ moment \in Nat /\ MaxMoments \in Nat
      /\ ReportLife \in Nat \ {0}
  BY ReportsAreCounted
<1>2. CASE MomentPasses
  <2>1. /\ moment < MaxMoments /\ moment' = moment + 1 /\ mail' = mail /\ kept' = kept
        /\ spurned' = spurned /\ profile' = profile /\ style' = style
    BY <1>2 DEF MomentPasses
  <2>2. Reports \subseteq Reports'
    <3>1. 0 .. moment \subseteq 0 .. moment'
      BY <1>1, <2>1
    <3> QED
      BY <3>1 DEF Reports
  <2>3. mail' \subseteq Reports' /\ kept' \in Seq(Reports') /\ spurned' \subseteq Reports'
    <3>1. mail \subseteq Reports /\ kept \in Seq(Reports) /\ spurned \subseteq Reports
      BY DEF CapabilityInv, CapabilityTypeOK
    <3>2. Seq(Reports) \subseteq Seq(Reports')
      BY <2>2
    <3> QED
      BY <2>1, <2>2, <3>1, <3>2
  <2>4. ReportsMade' = ReportsMade /\ Range(kept)' = Range(kept)
    BY <2>1 DEF ReportsMade, Range
  <2>5. CapabilityTypeOK'
    <3>1. moment' \in 0..MaxMoments
      BY <1>1, <2>1
    <3>2. profile' \in Profiles /\ style' \in [Capables -> Styles] /\ ReportsMade' <= MaxSigned
      BY <2>1, <2>4 DEF CapabilityInv, CapabilityTypeOK
    <3>3. /\ IsInjective(kept') /\ (mail' \cup spurned') \cap Range(kept)' = {}
          /\ mail' \cap spurned' = {}
      BY <2>1, <2>4 DEF CapabilityInv, CapabilityTypeOK
    <3> QED
      BY <2>3, <3>1, <3>2, <3>3 DEF CapabilityTypeOK
  <2>6. HonestIsKept'
    <3>1. \A r \in spurned : r.at \in Int /\ r.at + ReportLife <= moment
      BY <1>1 DEF CapabilityInv, CapabilityTypeOK, HonestIsKept, ReportExpired, Reports
    <3> QED
      BY <1>1, <2>1, <3>1 DEF HonestIsKept, ReportExpired
  <2> QED
    BY <2>1, <2>4, <2>5, <2>6 DEF CapabilityInv
<1>3. ASSUME NEW p \in Profiles, ProfileChanges(p) PROVE CapabilityInv'
  <2>1. /\ profile' \in Profiles /\ moment' = moment /\ mail' = mail /\ kept' = kept
        /\ spurned' = spurned /\ style' = style
    BY <1>3 DEF ProfileChanges
  <2>2. ReportsMade' = ReportsMade /\ Range(kept)' = Range(kept) /\ Reports' = Reports
    BY <2>1 DEF ReportsMade, Range, Reports
  <2>3. CapabilityTypeOK'
    BY <2>1, <2>2 DEF CapabilityInv, CapabilityTypeOK
  <2> QED
    BY <2>1, <2>2, <2>3 DEF CapabilityInv, HonestIsKept, ReportExpired
<1>4. CASE UNCHANGED capabilityVars
  <2>1. /\ profile' = profile /\ moment' = moment /\ mail' = mail /\ kept' = kept
        /\ spurned' = spurned /\ style' = style
    BY <1>4 DEF capabilityVars
  <2>2. ReportsMade' = ReportsMade /\ Range(kept)' = Range(kept) /\ Reports' = Reports
    BY <2>1 DEF ReportsMade, Range, Reports
  <2>3. CapabilityTypeOK'
    BY <2>1, <2>2 DEF CapabilityInv, CapabilityTypeOK
  <2> QED
    BY <2>1, <2>2, <2>3 DEF CapabilityInv, HonestIsKept, ReportExpired
<1> QED
  BY <1>2, <1>3, <1>4, SigningKeeps, ArrivalKeeps DEF CapabilityNext

\* Of the reports at some places one comes before all others: the newest, and of these
\* the one that was kept first.
LEMMA OneComesFirst ==
  ASSUME CapabilityTypeOK, NEW places \in SUBSET (DOMAIN kept), places # {}
  PROVE  \E i \in places : FirstOf(places) = kept[i] /\ \A k \in places \ {i} : ComesFirst(i, k)
<1>1. /\ moment \in Nat
      /\ \A i \in places : i \in Nat /\ kept[i].at \in Nat /\ kept[i].at <= moment
  <2>1. MaxMoments \in Nat /\ kept \in Seq(Reports) /\ moment \in 0 .. MaxMoments
    BY CapabilityConstantsOK DEF CapabilityTypeOK, CapabilityConstantsOK
  <2>2. \A i \in DOMAIN kept : i \in Nat /\ kept[i] \in Reports
    BY <2>1
  <2>3. \A r \in Reports : r.at \in 0 .. moment
    BY DEF Reports
  <2> QED
    BY <2>1, <2>2, <2>3
<1> DEFINE ages == {moment - kept[i].at : i \in places}
<1>2. PICK age \in ages : \A other \in ages : age <= other
  <2>1. ages \subseteq Nat /\ ages # {}
    BY <1>1
  <2> HIDE DEF ages
  <2> QED
    BY <2>1, NatMin
<1> DEFINE newest == {i \in places : moment - kept[i].at = age}
<1>3. PICK i \in newest : \A k \in newest : i <= k
  <2>1. newest \subseteq Nat /\ newest # {}
    BY <1>1, <1>2
  <2> HIDE DEF newest
  <2> QED
    BY <2>1, NatMin
<1>4. i \in places /\ \A k \in places \ {i} : ComesFirst(i, k)
  <2> SUFFICES ASSUME NEW k \in places \ {i} PROVE ComesFirst(i, k)
    OBVIOUS
  <2>1. moment - kept[i].at <= moment - kept[k].at
    BY <1>2, <1>3
  <2>2. kept[k].at = kept[i].at => i <= k /\ i # k
    BY <1>3
  <2> QED
    BY <1>1, <1>3, <2>1, <2>2 DEF ComesFirst
<1> QED
  BY <1>4, Zenon DEF FirstOf

\* In whatever order reports arrive and expire, and however the operator's profile changes:
\* a route finds a processor when a launch is shown one, in the same report first, which is
\* the newest that fits, and no report is refused that arrived in time.
THEOREM CapabilitiesAreSafe == CapabilitySpec => []CapabilitySafe
<1>1. CapabilityInv => CapabilitySafe
  <2> SUFFICES ASSUME CapabilityInv PROVE CapabilitySafe
    OBVIOUS
  <2>1. CapabilityTypeOK /\ HonestIsKept
    BY DEF CapabilityInv
  <2>2. ASSUME NEW q \in Requests, ~q.sink PROVE CandidatePlaces(q) = Members(q)
    BY <2>2 DEF CandidatePlaces, Members, CandidateReport, MemberReport
  <2>3. ASSUME NEW q \in Requests
        PROVE  /\ CandidatePlaces(q) = {} => Candidate(q) = NoCandidate
               /\ CandidatePlaces(q) # {} =>
                     /\ Candidate(q) # NoCandidate /\ Candidate(q) = FirstOf(CandidatePlaces(q))
                     /\ \A k \in CandidatePlaces(q) : kept[k].at <= Candidate(q).at
    <3> SUFFICES ASSUME CandidatePlaces(q) # {}
                 PROVE  /\ Candidate(q) # NoCandidate /\ Candidate(q) = FirstOf(CandidatePlaces(q))
                        /\ \A k \in CandidatePlaces(q) : kept[k].at <= Candidate(q).at
      BY DEF Candidate
    <3>1. Candidate(q) = FirstOf(CandidatePlaces(q)) /\ CandidatePlaces(q) \in SUBSET (DOMAIN kept)
      BY DEF Candidate, CandidatePlaces
    <3>2. PICK i \in CandidatePlaces(q) :
             /\ FirstOf(CandidatePlaces(q)) = kept[i]
             /\ \A k \in CandidatePlaces(q) \ {i} : ComesFirst(i, k)
      BY <2>1, <3>1, OneComesFirst
    <3>3. \A k \in DOMAIN kept : kept[k] \in Reports
      BY <2>1 DEF CapabilityTypeOK
    <3>4. \A k \in DOMAIN kept : kept[k].at \in Int /\ kept[k].id \in Nat
      BY <3>3 DEF Reports
    <3>5. kept[i] # NoCandidate
      BY <3>1, <3>4 DEF NoCandidate
    <3> QED
      BY <3>1, <3>2, <3>4, <3>5 DEF ComesFirst
  <2>4. SelectionsAgree
    BY <2>2, <2>3 DEF SelectionsAgree
  <2>5. NewestSpeaks
    BY <2>3 DEF NewestSpeaks, CandidatePlaces, Range
  <2> QED
    BY <2>1, <2>4, <2>5 DEF CapabilitySafe
<1> QED
  BY <1>1, CapabilityStarts, CapabilityStep, PTL DEF CapabilitySpec

===============================================================================
