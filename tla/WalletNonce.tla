------------------------------ MODULE WalletNonce ------------------------------
(***************************************************************************)
(* The extrinsics that several CLI processes of one machine submit from    *)
(* one wallet, and the account nonces they use.  A deploy resolves its     *)
(* nonce and submits inside the submit window, which it leaves when its    *)
(* transaction is in a block or is terminally failed; the extrinsic that   *)
(* carries the env vars follows outside the window                         *)
(* (cli/src/acurast-chain-submit.ts, cli/src/acurast-submit-adapter.ts).   *)
(*                                                                         *)
(* The window is the abstract SubmitWindow that WalletLock implements.     *)
(* The pool is external: the nonce a node answers with (nonce: -1) takes   *)
(* into account the blocks and the transactions that reached that node, so *)
(* a transaction stays unknown to it for a propagation time.  Blocks are   *)
(* not retracted here.                                                     *)
(***************************************************************************)
EXTENDS Integers, FiniteSets

CONSTANT Pids   \* the CLI processes, one deploy each

VARIABLES
    inside,      \* the processes in the submit window
    phase,       \* where each process is
    nonce,       \* the nonce each process resolved last
    chainNonce,  \* the account's next nonce on the chain
    live,        \* the transactions that are in the pool or in a block
    known,       \* those of them the answering nodes know
    blocks,      \* those of them that are in a block
    leftBehind   \* history: the processes that left the window while their
                 \* deploy was neither in a block nor gone

vars == <<inside, phase, nonce, chainNonce, live, known, blocks, leftBehind>>

Phases == {"start", "deploy", "deploySigned", "deploySent",
           "env", "envSigned", "done"}

Txs == [by : Pids, kind : {"deploy", "env"}, nonce : Nat]

TypeOK ==
    /\ inside \subseteq Pids
    /\ phase \in [Pids -> Phases]
    /\ nonce \in [Pids -> Nat]
    /\ chainNonce \in Nat
    /\ live \subseteq Txs
    /\ known \subseteq live
    /\ blocks \subseteq live
    /\ leftBehind \subseteq Pids

Window == INSTANCE SubmitWindow

Init ==
    /\ Window!Init
    /\ phase = [p \in Pids |-> "start"]
    /\ nonce = [p \in Pids |-> 0]
    /\ chainNonce = 0
    /\ live = {}
    /\ known = {}
    /\ blocks = {}
    /\ leftBehind = {}

-------------------------------------------------------------------------------
Goto(p, next) == phase' = [phase EXCEPT ![p] = next]

\* The nonces a node may answer with: the first from the chain's on that is
\* free in its view of the pool.
NextFree(n) ==
    /\ n >= chainNonce
    /\ \A tx \in known : tx.nonce # n
    /\ \A m \in chainNonce .. n : m < n => \E tx \in known : tx.nonce = m

\* Mistake: the lock is not shared between the processes.
EnterOwnWindow(p) ==
    /\ phase[p] = "start"
    /\ inside' = inside \cup {p}
    /\ Goto(p, "deploy")
    /\ UNCHANGED <<nonce, chainNonce, live, known, blocks, leftBehind>>

\* acquireSubmitLock.
EnterWindow(p) ==
    /\ phase[p] = "start"
    /\ Window!Enter(p)
    /\ Goto(p, "deploy")
    /\ UNCHANGED <<nonce, chainNonce, live, known, blocks, leftBehind>>

\* signAndSend resolves the nonce, pool-aware.
ResolveNonce(p, from, to) ==
    /\ phase[p] = from
    /\ \E n \in chainNonce .. chainNonce + Cardinality(known) :
          /\ NextFree(n)
          /\ nonce' = [nonce EXCEPT ![p] = n]
    /\ Goto(p, to)
    /\ UNCHANGED <<inside, chainNonce, live, known, blocks, leftBehind>>

\* The signed extrinsic reaches the pool.
Send(p, kind, from, to) ==
    /\ phase[p] = from
    /\ live' = live \cup {[by |-> p, kind |-> kind, nonce |-> nonce[p]]}
    /\ Goto(p, to)
    /\ UNCHANGED <<inside, nonce, chainNonce, known, blocks, leftBehind>>

DeployPending(p) == \E tx \in live \ blocks : tx.by = p /\ tx.kind = "deploy"

\* The submit loop settles and the lock is released: on the block, on a
\* terminal status, on its timeout or on a lost connection, the last two with
\* the extrinsic perhaps still in the pool.  After a success the env vars, if
\* there are any, are submitted outside the window.
LeaveWindow(p) ==
    /\ phase[p] = "deploySent"
    /\ Window!Leave(p)
    /\ \/ /\ \E tx \in blocks : tx.by = p
          /\ Goto(p, "env") \/ Goto(p, "done")
       \/ Goto(p, "done")
    /\ leftBehind' = IF DeployPending(p) THEN leftBehind \cup {p} ELSE leftBehind
    /\ UNCHANGED <<nonce, chainNonce, live, known, blocks>>

\* A process ends inside the window; its lock is stolen, its extrinsic is not
\* taken back.
Crash(p) ==
    /\ Window!Leave(p)
    /\ Goto(p, "done")
    /\ leftBehind' = IF DeployPending(p) THEN leftBehind \cup {p} ELSE leftBehind
    /\ UNCHANGED <<nonce, chainNonce, live, known, blocks>>

-------------------------------------------------------------------------------
Propagate(tx) ==
    /\ tx \in live \ known
    /\ known' = known \cup {tx}
    /\ UNCHANGED <<inside, phase, nonce, chainNonce, live, blocks, leftBehind>>

\* A transaction gets into a block, which every node then knows.
Include(tx) ==
    /\ tx \in live \ blocks
    /\ tx.nonce = chainNonce
    /\ chainNonce' = chainNonce + 1
    /\ blocks' = blocks \cup {tx}
    /\ known' = known \cup {tx}
    /\ UNCHANGED <<inside, phase, nonce, live, leftBehind>>

\* The pool drops a transaction, usurps or rejects it, or its era ends.
Evict(tx) ==
    /\ tx \in live \ blocks
    /\ live' = live \ {tx}
    /\ known' = known \ {tx}
    /\ UNCHANGED <<inside, phase, nonce, chainNonce, blocks, leftBehind>>

Next ==
    \/ \E p \in Pids :
          \/ EnterWindow(p)
          \/ ResolveNonce(p, "deploy", "deploySigned")
          \/ Send(p, "deploy", "deploySigned", "deploySent")
          \/ LeaveWindow(p)
          \/ ResolveNonce(p, "env", "envSigned")
          \/ Send(p, "env", "envSigned", "done")
          \/ Crash(p)
    \/ \E tx \in live : Propagate(tx) \/ Include(tx) \/ Evict(tx)

Spec == Init /\ [][Next]_vars

-------------------------------------------------------------------------------
\* "Serialize same-wallet deploys across local CLI processes: concurrent
\* submissions race the account nonce" (acurast-submit-adapter.ts:508): two
\* deploys use one nonce only if one of the two processes left the window with
\* its extrinsic still in the pool, whatever the pools and the env extrinsics
\* do.
DeploysRaceOnlyLeftBehind ==
    \A t, u \in live :
        /\ t.kind = "deploy" /\ u.kind = "deploy"
        /\ t.by \notin leftBehind /\ u.by \notin leftBehind
        /\ t.nonce = u.nonce
        => t = u

\* Whichever processes deploy from one wallet, their extrinsics share a nonce
\* only where one was left behind in the pool.
NonceSafe == TypeOK /\ DeploysRaceOnlyLeftBehind
===============================================================================
