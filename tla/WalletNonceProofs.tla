--------------------------- MODULE WalletNonceProofs ---------------------------
(***************************************************************************)
(* The submit window keeps the deploys of one wallet apart, for any number *)
(* of processes and of extrinsics in the pool.                             *)
(***************************************************************************)
EXTENDS WalletNonce, TLAPS

-------------------------------------------------------------------------------
InWindow(p) == phase[p] \in {"deploy", "deploySigned", "deploySent"}

\* One process is in the window at a time, and its phase says so.
OneInside ==
    /\ \A p \in Pids : p \in inside <=> InWindow(p)
    /\ \A p, q \in inside : p = q

\* A deploy on its way to a block belongs to the process in the window, unless
\* that process left it behind.
PendingIsInside ==
    \A tx \in live \ blocks :
        tx.kind = "deploy" /\ tx.by \notin leftBehind => phase[tx.by] = "deploySent"

BlocksArePast == \A tx \in blocks : tx.nonce < chainNonce

\* A deploy that is signed and not yet sent has a nonce of its own: later than
\* those of all deploys that were not left behind.
SignedIsFresh ==
    \A p \in Pids : phase[p] = "deploySigned" =>
        \A tx \in live :
            tx.kind = "deploy" /\ tx.by \notin leftBehind => tx.nonce < nonce[p]

IInv ==
    /\ TypeOK
    /\ OneInside
    /\ PendingIsInside
    /\ BlocksArePast
    /\ SignedIsFresh
    /\ DeploysRaceOnlyLeftBehind

-------------------------------------------------------------------------------
LEMMA IInvInit == Init => IInv
BY DEF Init, Window!Init, IInv, TypeOK, Phases, OneInside, InWindow, PendingIsInside,
       BlocksArePast, SignedIsFresh, DeploysRaceOnlyLeftBehind

LEMMA EnterKeepsIInv ==
    ASSUME IInv, NEW p \in Pids, EnterWindow(p) PROVE IInv'
<1> USE DEF IInv, TypeOK, EnterWindow, Goto, Window!Enter
<1>1. TypeOK'
  BY DEF Phases
<1>2. OneInside'
  BY DEF OneInside, InWindow
<1>3. PendingIsInside'
  BY DEF PendingIsInside, Txs
<1>4. BlocksArePast' /\ DeploysRaceOnlyLeftBehind'
  BY DEF BlocksArePast, DeploysRaceOnlyLeftBehind
<1>5. SignedIsFresh'
  BY DEF SignedIsFresh
<1> QED
  BY <1>1, <1>2, <1>3, <1>4, <1>5

\* Resolving a nonce, for the deploy inside the window or for the env vars.
LEMMA ResolveKeepsIInv ==
    ASSUME IInv, NEW p \in Pids, NEW from, NEW to,
           <<from, to>> \in {<<"deploy", "deploySigned">>, <<"env", "envSigned">>},
           ResolveNonce(p, from, to)
    PROVE  IInv'
<1> USE DEF IInv, TypeOK
<1>1. /\ phase[p] = from /\ phase' = [phase EXCEPT ![p] = to]
      /\ UNCHANGED <<inside, chainNonce, live, known, blocks, leftBehind>>
  BY DEF ResolveNonce, Goto
<1>2. PICK n \in chainNonce .. chainNonce + Cardinality(known) :
         NextFree(n) /\ nonce' = [nonce EXCEPT ![p] = n]
  BY DEF ResolveNonce
<1>3. n \in Nat /\ n >= chainNonce
  BY <1>2 DEF NextFree
<1>4. TypeOK'
  BY <1>1, <1>2, <1>3 DEF Phases
<1>5. OneInside'
  BY <1>1 DEF OneInside, InWindow
<1>6. PendingIsInside'
  BY <1>1 DEF PendingIsInside, Txs
<1>7. BlocksArePast' /\ DeploysRaceOnlyLeftBehind'
  BY <1>1 DEF BlocksArePast, DeploysRaceOnlyLeftBehind
<1>8. SignedIsFresh'
  <2> SUFFICES ASSUME NEW q \in Pids, phase'[q] = "deploySigned",
                      NEW tx \in live, tx.kind = "deploy", tx.by \notin leftBehind
               PROVE  tx.nonce < nonce'[q]
    BY <1>1 DEF SignedIsFresh
  <2>1. CASE q # p
    BY <1>1, <1>2, <2>1 DEF SignedIsFresh
  <2>2. CASE q = p
    <3>1. phase[p] = "deploy" /\ p \in inside
      BY <1>1, <2>2 DEF OneInside, InWindow
    <3>2. tx \in blocks
      BY <3>1 DEF PendingIsInside, OneInside, InWindow, Txs
    <3>3. tx.nonce < chainNonce /\ tx.nonce \in Nat
      BY <3>2 DEF BlocksArePast, Txs
    <3>4. nonce'[q] = n
      BY <1>2, <2>2
    <3> QED
      BY <1>3, <3>3, <3>4
  <2> QED
    BY <2>1, <2>2
<1> QED
  BY <1>4, <1>5, <1>6, <1>7, <1>8

\* The deploy reaches the pool: its nonce is later than those of its rivals.
LEMMA SendDeployKeepsIInv ==
    ASSUME IInv, NEW p \in Pids, Send(p, "deploy", "deploySigned", "deploySent")
    PROVE  IInv'
<1> DEFINE new == [by |-> p, kind |-> "deploy", nonce |-> nonce[p]]
<1> USE DEF IInv, TypeOK
<1>1. /\ phase[p] = "deploySigned" /\ phase' = [phase EXCEPT ![p] = "deploySent"]
      /\ live' = live \cup {new}
      /\ UNCHANGED <<inside, nonce, chainNonce, known, blocks, leftBehind>>
  BY DEF Send, Goto
<1>2. new \in Txs /\ new.by = p /\ new.kind = "deploy" /\ new.nonce = nonce[p]
  BY DEF Txs
<1> HIDE DEF new
<1>3. TypeOK'
  BY <1>1, <1>2 DEF Phases
<1>4. OneInside'
  BY <1>1 DEF OneInside, InWindow
<1>5. PendingIsInside'
  BY <1>1, <1>2 DEF PendingIsInside, Txs
<1>6. BlocksArePast'
  BY <1>1 DEF BlocksArePast
<1>7. SignedIsFresh'
  <2> SUFFICES ASSUME NEW q \in Pids, phase'[q] = "deploySigned" PROVE FALSE
    BY DEF SignedIsFresh
  <2>1. q # p /\ phase[q] = "deploySigned"
    BY <1>1
  <2> QED
    BY <1>1, <2>1 DEF OneInside, InWindow
<1>8. DeploysRaceOnlyLeftBehind'
  <2>1. \A tx \in live :
           tx.kind = "deploy" /\ tx.by \notin leftBehind => tx.nonce < new.nonce
    BY <1>1, <1>2 DEF SignedIsFresh
  <2>2. \A tx \in live : tx.nonce \in Nat
    BY DEF Txs
  <2>3. new.nonce \in Nat
    BY <1>2
  <2> QED
    BY <1>1, <2>1, <2>2, <2>3 DEF DeploysRaceOnlyLeftBehind
<1> QED
  BY <1>3, <1>4, <1>5, <1>6, <1>7, <1>8

\* The env vars reach the pool: no deploy is concerned.
LEMMA SendEnvKeepsIInv ==
    ASSUME IInv, NEW p \in Pids, Send(p, "env", "envSigned", "done") PROVE IInv'
<1> DEFINE new == [by |-> p, kind |-> "env", nonce |-> nonce[p]]
<1> USE DEF IInv, TypeOK
<1>1. /\ phase[p] = "envSigned" /\ phase' = [phase EXCEPT ![p] = "done"]
      /\ live' = live \cup {new}
      /\ UNCHANGED <<inside, nonce, chainNonce, known, blocks, leftBehind>>
  BY DEF Send, Goto
<1>2. new \in Txs /\ new.kind # "deploy"
  BY DEF Txs
<1> HIDE DEF new
<1>3. TypeOK'
  BY <1>1, <1>2 DEF Phases
<1>4. OneInside'
  BY <1>1 DEF OneInside, InWindow
<1>5. PendingIsInside'
  BY <1>1, <1>2 DEF PendingIsInside, Txs
<1>6. BlocksArePast' /\ SignedIsFresh' /\ DeploysRaceOnlyLeftBehind'
  BY <1>1, <1>2 DEF BlocksArePast, SignedIsFresh, DeploysRaceOnlyLeftBehind
<1> QED
  BY <1>3, <1>4, <1>5, <1>6

\* Leaving the window, in order or by a crash, sets a pending deploy aside.
LEMMA LeaveKeepsIInv ==
    ASSUME IInv, NEW p \in Pids, LeaveWindow(p) \/ Crash(p) PROVE IInv'
<1> USE DEF IInv, TypeOK
<1>1. PICK next \in {"env", "done"} : phase' = [phase EXCEPT ![p] = next]
  BY DEF LeaveWindow, Crash, Goto
<1>2. /\ p \in inside /\ inside' = inside \ {p}
      /\ leftBehind' = IF DeployPending(p) THEN leftBehind \cup {p} ELSE leftBehind
      /\ UNCHANGED <<nonce, chainNonce, live, known, blocks>>
  BY DEF LeaveWindow, Crash, Window!Leave
<1>3. TypeOK'
  BY <1>1, <1>2 DEF Phases
<1>4. OneInside'
  BY <1>1, <1>2 DEF OneInside, InWindow
<1>5. PendingIsInside'
  <2> SUFFICES ASSUME NEW tx \in live \ blocks, tx.kind = "deploy",
                      tx.by \notin leftBehind'
               PROVE  phase'[tx.by] = "deploySent"
    BY <1>2 DEF PendingIsInside
  <2>1. tx.by # p /\ tx.by \notin leftBehind /\ tx.by \in Pids
    BY <1>2 DEF DeployPending, Txs
  <2> QED
    BY <1>1, <2>1 DEF PendingIsInside
<1>6. BlocksArePast'
  BY <1>2 DEF BlocksArePast
<1>7. SignedIsFresh'
  BY <1>1, <1>2 DEF SignedIsFresh
<1>8. DeploysRaceOnlyLeftBehind'
  BY <1>2 DEF DeploysRaceOnlyLeftBehind
<1> QED
  BY <1>3, <1>4, <1>5, <1>6, <1>7, <1>8

\* The pool.
LEMMA PoolKeepsIInv ==
    ASSUME IInv, NEW tx \in live, Propagate(tx) \/ Include(tx) \/ Evict(tx)
    PROVE  IInv'
<1> USE DEF IInv, TypeOK
<1>1. CASE Propagate(tx)
  BY <1>1 DEF Propagate, OneInside, InWindow, PendingIsInside, BlocksArePast,
              SignedIsFresh, DeploysRaceOnlyLeftBehind
<1>2. CASE Include(tx)
  <2>1. BlocksArePast'
    BY <1>2 DEF Include, BlocksArePast, Txs
  <2> QED
    BY <1>2, <2>1 DEF Include, OneInside, InWindow, PendingIsInside, SignedIsFresh,
                      DeploysRaceOnlyLeftBehind
<1>3. CASE Evict(tx)
  BY <1>3 DEF Evict, OneInside, InWindow, PendingIsInside, BlocksArePast,
              SignedIsFresh, DeploysRaceOnlyLeftBehind
<1> QED
  BY <1>1, <1>2, <1>3

LEMMA IInvNext == IInv /\ [Next]_vars => IInv'
<1> SUFFICES ASSUME IInv, [Next]_vars PROVE IInv'
  OBVIOUS
<1>1. CASE UNCHANGED vars
  BY <1>1 DEF vars, IInv, TypeOK, OneInside, InWindow, PendingIsInside, BlocksArePast,
              SignedIsFresh, DeploysRaceOnlyLeftBehind
<1>2. ASSUME NEW p \in Pids, EnterWindow(p) PROVE IInv'
  BY <1>2, EnterKeepsIInv
<1>3. ASSUME NEW p \in Pids, ResolveNonce(p, "deploy", "deploySigned") PROVE IInv'
  BY <1>3, ResolveKeepsIInv
<1>4. ASSUME NEW p \in Pids, ResolveNonce(p, "env", "envSigned") PROVE IInv'
  BY <1>4, ResolveKeepsIInv
<1>5. ASSUME NEW p \in Pids, Send(p, "deploy", "deploySigned", "deploySent") PROVE IInv'
  BY <1>5, SendDeployKeepsIInv
<1>6. ASSUME NEW p \in Pids, Send(p, "env", "envSigned", "done") PROVE IInv'
  BY <1>6, SendEnvKeepsIInv
<1>7. ASSUME NEW p \in Pids, LeaveWindow(p) \/ Crash(p) PROVE IInv'
  BY <1>7, LeaveKeepsIInv
<1>8. ASSUME NEW tx \in live, Propagate(tx) \/ Include(tx) \/ Evict(tx) PROVE IInv'
  BY <1>8, PoolKeepsIInv
<1> QED
  BY <1>1, <1>2, <1>3, <1>4, <1>5, <1>6, <1>7, <1>8, Zenon DEF Next

LEMMA Invariance == Spec => []IInv
BY IInvInit, IInvNext, PTL DEF Spec

\* Every variable keeps its type.
THEOREM TypeCorrect == Spec => []TypeOK
<1>1. IInv => TypeOK
  BY DEF IInv
<1> QED
  BY <1>1, Invariance, PTL

\* The point of the wallet lock: two deploys of one wallet use one nonce only
\* if one of them was left behind in the pool by its process.
THEOREM DeploysKeptApart == Spec => []DeploysRaceOnlyLeftBehind
<1>1. IInv => DeploysRaceOnlyLeftBehind
  BY DEF IInv
<1> QED
  BY <1>1, Invariance, PTL

\* Both together.
THEOREM NoncesAreSafe == Spec => []NonceSafe
  BY TypeCorrect, DeploysKeptApart, PTL DEF NonceSafe

===============================================================================
