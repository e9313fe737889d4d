---------------------------- MODULE SessionCommands ----------------------------
(***************************************************************************)
(* The commands on a paid session of the registry contract                 *)
(* (cli/src/index.ts): session register, refund and claim, with their      *)
(* previews refundable and claimable.  A command reads the contract, plans *)
(* by its own clock, finds a signer, maps its native account when that is  *)
(* needed, sends one transaction, waits as the flags say and reads again.  *)
(*                                                                         *)
(* The contract is modelled from its ABI and from what the commands plan;  *)
(* SESSION_STATUS_LABELS names the states.  Amounts are left out, and the  *)
(* commands on the parachain are in RouteCommands.                         *)
(***************************************************************************)
EXTENDS Naturals

CONSTANTS
    SessionCmds,   \* the commands
    Developer,     \* the account that paid for the session
    Other,         \* another account
    Nobody,        \* no key is configured
    MaxNow         \* bound of the clock

ASSUME SessionConstants == Developer # Other /\ Nobody \notin {Developer, Other} /\ MaxNow \in Nat

VARIABLES
    now,       \* the time, as far as the deadlines tell it apart
    session,   \* the session in the contract
    owed,      \* accounts with a claimable balance
    mapped,    \* native accounts mapped to their contract address
    sent,      \* transactions sent and not yet in a block
    scmd       \* the commands

sessionVars == <<now, session, owed, mapped, sent, scmd>>

Accounts == {Developer, Other}
States == {"None", "Funded", "Registered", "Active", "Refunded"}
ActivationDeadline == 0
RefundAvailableAt == 1

Modes == {"none", "evm", "polkadot"}
Signers == [kind : {"evm", "polkadot"}, account : Accounts \cup {Nobody}]
Refunds == {"refundAfterActivationTimeout", "refundUnfulfilled"}
SessionCalls == Refunds \cup {"claim", "register", "mapAccount"}

SessionTypeOK ==
    /\ now \in 0..MaxNow
    /\ session \in [status : States, registered : BOOLEAN, nonce : 0..1]
    /\ owed \subseteq Accounts /\ mapped \subseteq Accounts
    /\ sent \subseteq [by : SessionCmds, from : Signers, call : SessionCalls, nonce : {0}]
    /\ scmd \in [SessionCmds ->
          [op : {"register", "refund", "claim"}, call : SessionCalls \cup {"none"},
           place : {"read", "signer", "send", "mapping", "waiting", "after", "done"},
           signer : Signers, asked : BOOLEAN, waits : BOOLEAN, moved : BOOLEAN, applied : BOOLEAN,
           told : {"nothing", "plan", "receipt", "refused", "error"}]]

NoSigner == [kind |-> "evm", account |-> Nobody]

SessionInit ==
    /\ now = 0
    /\ session \in [status : {"None", "Funded"}, registered : {FALSE}, nonce : {0}]
    /\ owed \in SUBSET Accounts
    /\ mapped \in SUBSET Accounts
    /\ sent = {}
    /\ scmd \in [SessionCmds ->
          [op : {"register", "refund", "claim"}, call : {"none"}, place : {"read"},
           signer : {NoSigner}, asked : {FALSE}, waits : {TRUE}, moved : {FALSE}, applied : {FALSE},
           told : {"nothing"}]]

(***************************************************************************)
(* The contract, the chain and the clock                                   *)
(***************************************************************************)

\* History: whatever the commands have read is older than this change.
Moved == [c \in SessionCmds |-> [scmd[c] EXCEPT !.moved = TRUE]]

Tick == now < MaxNow /\ now' = now + 1 /\ UNCHANGED <<session, owed, mapped, sent, scmd>>

Activate ==
    /\ session.status = "Registered"
    /\ session' = [session EXCEPT !.status = "Active"]
    /\ scmd' = Moved
    /\ UNCHANGED <<now, owed, mapped, sent>>

\* A fulfilment of an active session makes a recipient's balance claimable.
Fulfil ==
    /\ session.status = "Active"
    /\ \E a \in Accounts \ owed : owed' = owed \cup {a}
    /\ UNCHANGED <<now, session, mapped, sent, scmd>>

Allows(tx) ==
    /\ tx.from.kind = "polkadot" /\ tx.call # "mapAccount" => tx.from.account \in mapped
    /\ CASE tx.call = "register" -> session.status = "Funded" /\ tx.nonce = session.nonce
         [] tx.call = "refundAfterActivationTimeout" ->
               /\ tx.from.account = Developer
               /\ session.status \in {"Funded", "Registered"} /\ now > ActivationDeadline
         [] tx.call = "refundUnfulfilled" ->
               /\ tx.from.account = Developer
               /\ session.status = "Active" /\ now > RefundAvailableAt
         [] tx.call = "claim" -> tx.from.account \in owed
         [] tx.call = "mapAccount" -> tx.from.account \notin mapped

SessionAfter(call) ==
    CASE call = "register" -> [status |-> "Registered", registered |-> TRUE, nonce |-> 1]
      [] call \in Refunds -> [session EXCEPT !.status = "Refunded"]
      [] OTHER -> session

EndsWith(c, told) == [scmd EXCEPT ![c].place = "done", ![c].told = told]

\* A block takes the transaction.  A command that waits is told of a refusal.
IncludeTx(tx) ==
    /\ sent' = sent \ {tx}
    /\ IF Allows(tx)
       THEN /\ session' = SessionAfter(tx.call)
            /\ owed' = IF tx.call = "claim" THEN owed \ {tx.from.account} ELSE owed
            /\ mapped' = IF tx.call = "mapAccount" THEN mapped \cup {tx.from.account} ELSE mapped
            /\ scmd' = [Moved EXCEPT ![tx.by].applied = TRUE, ![tx.by].moved = scmd[tx.by].moved]
       ELSE /\ scmd' = IF scmd[tx.by].place \in {"waiting", "mapping"}
                       THEN EndsWith(tx.by, "refused") ELSE scmd
            /\ UNCHANGED <<session, owed, mapped>>
    /\ UNCHANGED now

(***************************************************************************)
(* A command                                                               *)
(***************************************************************************)

Tells(c, told) ==
    /\ scmd' = EndsWith(c, told)
    /\ UNCHANGED <<now, session, owed, mapped, sent>>

\* Every await can throw; a timer may end the wait.  What was sent stays sent.
Abandons(c) == scmd[c].place # "done" /\ Tells(c, "error")

\* The signer that the flags and the environment name.
CliHubSigner(mode, key, seed) ==
    IF mode # "polkadot" /\ key # Nobody THEN [kind |-> "evm", account |-> key]
    ELSE IF mode # "evm" THEN [kind |-> "polkadot", account |-> seed]
    ELSE NoSigner

SignerMatches(signer, account) == signer.account = account

\* The configured signer that paid, or none.
RefundSigner(mode, key, seed) ==
    LET found == IF mode # "none" THEN CliHubSigner(mode, key, seed)
                 ELSE IF key = Developer THEN [kind |-> "evm", account |-> key]
                 ELSE [kind |-> "polkadot", account |-> seed]
    IN IF SignerMatches(found, Developer) THEN found ELSE NoSigner

\* The wrong kind of refund is planned for a session that became active.
RefundCallLate(requested) ==
    IF requested = "none" THEN "refundAfterActivationTimeout" ELSE requested

RefundCall(requested) ==
    IF requested # "none" THEN requested
    ELSE IF session.status # "Active" THEN "refundAfterActivationTimeout"
    ELSE "refundUnfulfilled"

DueAt(call) ==
    IF call = "refundUnfulfilled" THEN RefundAvailableAt ELSE ActivationDeadline

Eligible(call) == session.status \notin {"None", "Refunded"} /\ now > DueAt(call)

\* refund and refundable: the session is read and the refund is planned.  A
\* reason the user names is not compared with the state of the session.
PlanRefund(c) ==
    /\ scmd[c].op = "refund" /\ scmd[c].place = "read"
    /\ \E requested \in Refunds \cup {"none"}, yes \in BOOLEAN :
          LET call == RefundCall(requested)
          IN IF yes /\ Eligible(call)
             THEN /\ scmd' = [scmd EXCEPT ![c].place = "signer", ![c].call = call,
                                         ![c].asked = requested # "none", ![c].moved = FALSE]
                  /\ UNCHANGED <<now, session, owed, mapped, sent>>
             ELSE Tells(c, "plan")

FindSigner(c) ==
    /\ scmd[c].place = "signer"
    /\ \E mode \in Modes, key, seed \in Accounts \cup {Nobody} :
          LET signer == RefundSigner(mode, key, seed)
          IN IF ~SignerMatches(signer, Developer)
             THEN Tells(c, "error")
             ELSE /\ scmd' = [scmd EXCEPT ![c].place = "send", ![c].signer = signer]
                  /\ UNCHANGED <<now, session, owed, mapped, sent>>

\* claim and claimable: the signer is found before the balance is read.
PlanClaim(c) ==
    /\ scmd[c].op = "claim" /\ scmd[c].place = "read"
    /\ \E mode \in Modes, key, seed \in Accounts \cup {Nobody},
          recipient \in Accounts, yes \in BOOLEAN :
          LET signer == CliHubSigner(mode, key, seed)
          IN IF ~yes \/ recipient \notin owed THEN Tells(c, "plan")
             ELSE IF ~SignerMatches(signer, recipient) THEN Tells(c, "error")
             ELSE /\ scmd' = [scmd EXCEPT ![c].place = "send", ![c].call = "claim",
                                         ![c].signer = signer]
                  /\ UNCHANGED <<now, session, owed, mapped, sent>>

RegistrationNonce == session.nonce

\* session register: a signature over the session's next nonce goes to the
\* relay, which sends the transaction.
PostRegistration(c) ==
    /\ scmd[c].op = "register" /\ scmd[c].place = "read"
    /\ IF session.status = "None" \/ session.registered
       THEN Tells(c, "error")
       ELSE /\ sent' = sent \cup {[by |-> c, from |-> NoSigner, call |-> "register",
                                   nonce |-> RegistrationNonce]}
            /\ scmd' = [scmd EXCEPT ![c].place = "waiting", ![c].call = "register",
                                   ![c].moved = FALSE]
            /\ UNCHANGED <<now, session, owed, mapped>>

\* The answer of the relay is believed; it may come before or after the block.
RelayAnswersOk(c) ==
    /\ scmd[c].place = "waiting" /\ scmd[c].call = "register"
    /\ scmd' = [scmd EXCEPT ![c].place = "after"]
    /\ UNCHANGED <<now, session, owed, mapped, sent>>

SendsTx(c, call, place, waits) ==
    /\ sent' = sent \cup {[by |-> c, from |-> scmd[c].signer, call |-> call, nonce |-> 0]}
    /\ scmd' = [scmd EXCEPT ![c].place = place, ![c].waits = waits, ![c].applied = FALSE]
    /\ UNCHANGED <<now, session, owed, mapped>>

\* An EVM wallet estimates the call, which fails at once if the contract would
\* refuse it, and waits for --confirmations blocks, which may be none.
SendEvm(c) ==
    /\ scmd[c].place = "send" /\ scmd[c].signer.kind = "evm"
    /\ IF Allows([from |-> scmd[c].signer, call |-> scmd[c].call])
       THEN \/ SendsTx(c, scmd[c].call, "waiting", TRUE)
            \/ SendsTx(c, scmd[c].call, "after", FALSE)
       ELSE Tells(c, "refused")

\* A native account is mapped first, unless it is or --no-map-account is given.
SendNative(c) ==
    /\ scmd[c].place = "send" /\ scmd[c].signer.kind = "polkadot"
    /\ \/ SendsTx(c, scmd[c].call, "waiting", TRUE)
       \/ /\ scmd[c].signer.account \notin mapped
          /\ SendsTx(c, "mapAccount", "mapping", TRUE)

AccountMapped(c) ==
    /\ scmd[c].place = "mapping" /\ scmd[c].applied
    /\ SendsTx(c, scmd[c].call, "waiting", TRUE)

TxResolves(c) ==
    /\ scmd[c].place = "waiting" /\ scmd[c].call # "register" /\ scmd[c].applied
    /\ scmd' = [scmd EXCEPT ![c].place = "after"]
    /\ UNCHANGED <<now, session, owed, mapped, sent>>

\* The contract is read again; a registration must show.
ReadAgain(c) ==
    /\ scmd[c].place = "after"
    /\ Tells(c, IF scmd[c].op = "register" /\ ~session.registered THEN "error" ELSE "receipt")

SessionNext ==
    \/ Tick \/ Activate \/ Fulfil
    \/ \E tx \in sent : IncludeTx(tx)
    \/ \E c \in SessionCmds :
          \/ PlanRefund(c) \/ FindSigner(c) \/ PlanClaim(c) \/ PostRegistration(c)
          \/ RelayAnswersOk(c) \/ SendEvm(c) \/ SendNative(c) \/ AccountMapped(c)
          \/ TxResolves(c) \/ ReadAgain(c) \/ Abandons(c)

SessionSpec == SessionInit /\ [][SessionNext]_sessionVars

(***************************************************************************)
(* Properties                                                              *)
(***************************************************************************)

\* A receipt is for a transaction that a block applied, unless an EVM wallet was
\* told not to wait; a registration that was confirmed is in the contract; and
\* a preview has sent nothing, the mapping of the account included
\* (refundCommand, claimCommand, relayRegistrationCommand, submitRegistryCall).
ReceiptIsTrue ==
    \A c \in SessionCmds :
        /\ scmd[c].told = "receipt" =>
              IF scmd[c].op = "register" THEN session.registered
              ELSE scmd[c].waits => scmd[c].applied
        /\ scmd[c].told = "plan" => ~scmd[c].applied /\ \A tx \in sent : tx.by # c

\* The contract refuses a planned refund of a mapped or an EVM account only when
\* the session or the mapping moved after the command had read it, or the user
\* named the reason: the plan has the right function, its deadline has passed
\* and the signer is the one that paid (planRefundAction, resolveRefundSigner).
RefusedOnlyIfMoved ==
    [][\A c \in SessionCmds :
          /\ scmd[c].op = "refund" /\ scmd[c].told # "refused" /\ scmd'[c].told = "refused"
          => \/ scmd[c].moved \/ scmd[c].asked
             \/ /\ scmd[c].signer.kind = "polkadot"
                /\ scmd[c].signer.account \notin mapped]_sessionVars

\* Nobody but the account that paid asks for a refund, whatever signers are
\* configured and whichever comes first (resolveRefundSigner and
\* assertSignerMatchesRecipient).
PayerAsks == \A tx \in sent : tx.call \in Refunds => tx.from.account = Developer

\* What the session commands write is so, the payer signs the refunds, and a
\* refund is refused only for a reason.
SessionsSafe == [](SessionTypeOK /\ ReceiptIsTrue /\ PayerAsks) /\ RefusedOnlyIfMoved
===============================================================================
