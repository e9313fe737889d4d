------------------------------ MODULE FundSession ------------------------------
(***************************************************************************)
(* Paying for a session from one wallet: the quote, the approval of the    *)
(* payment asset, the payment and its readback.  Three programs do it:     *)
(* scripts/hub/fund-asset-quote-native.ts (with a deployment intent:       *)
(* "helper", without: "script", and "plan" when --yes is missing),         *)
(* fundIngressSessionWithSubstrate ("substrate") and                       *)
(* fundIngressSessionWithLedger ("ledger").                                *)
(*                                                                         *)
(* Nothing keeps two runs on one wallet apart, and a run that gives up     *)
(* leaves its extrinsic in the pool.  The relay, the pool and the chain    *)
(* are modelled from what the programs send and read: extrinsics of a      *)
(* wallet are applied in the order of their nonces, approve SETS the       *)
(* allowance, and a payment needs a quote that has not expired, a session  *)
(* nobody paid, the allowance and the balance.                             *)
(***************************************************************************)
EXTENDS Naturals, Sequences, SequencesExt, FiniteSetsExt

CONSTANTS
    Runs,        \* the runs of a funding program on the wallet
    Sessions,    \* the sessions the relay can quote; a quote is named by its session
    AmountOf,    \* the amount of each quote
    Cap,         \* --quote-cap-amount of the helper and the script
    Balance,     \* the asset balance at the start
    Odd,         \* quotes that do not match what a run asks for
    None         \* no session

ASSUME FundingConstants ==
    /\ AmountOf \in [Sessions -> Nat \ {0}]
    /\ Cap \in Nat /\ Balance \in Nat
    /\ Odd \subseteq Sessions
    /\ None \notin Sessions \cup Runs

VARIABLES
    kind,        \* which program a run is
    pc,          \* where a run is
    quote,       \* the session a run is to pay, or None
    answer,      \* what the status subscription told about the run's last extrinsic
    reason,      \* why a run failed
    touched,     \* history: another run changed the wallet since the run read it
    pool,        \* the wallet's extrinsics that wait, in the order of their nonces
    chain,       \* mapping, allowance, balance, and who paid each session
    intentQuote, \* the quote kept with the deployment intent, or None
    expired      \* quotes whose deadline has passed

vars == <<kind, pc, quote, answer, reason, touched, pool, chain, intentQuote, expired>>
relayVars == <<intentQuote, expired>>

Kinds == {"helper", "script", "plan", "substrate", "ledger"}
Helpers == {"helper", "script", "plan"}
Waiting == {"mapping", "approving", "funding"}
Ended == {"paid", "already", "planned", "failed"}

TypeOK ==
    /\ kind \in [Runs -> Kinds]
    /\ pc \in [Runs -> Waiting \cup Ended \cup
                 {"start", "map", "quote", "resume", "read", "approve", "fund", "readback"}]
    /\ quote \in [Runs -> Sessions \cup {None}]
    /\ answer \in [Runs -> {"none", "inBlock", "dispatchError"}]
    /\ reason \in [Runs -> {"none", "refused", "unanswered", "dispatchError"}]
    /\ touched \in [Runs -> BOOLEAN]
    /\ pool \in Seq([run : Runs, act : {"map", "approve", "fund"}, session : Sessions \cup {None}])
    /\ chain.mapped \in BOOLEAN /\ chain.allowance \in Nat /\ chain.balance \in Nat
    /\ chain.payer \in [Sessions -> Runs \cup {None}]
    /\ intentQuote \in Sessions \cup {None}
    /\ expired \subseteq Sessions

Init ==
    /\ kind \in [Runs -> Kinds]
    /\ pc = [r \in Runs |-> "start"]
    /\ quote = [r \in Runs |-> None]
    /\ answer = [r \in Runs |-> "none"]
    /\ reason = [r \in Runs |-> "none"]
    /\ touched = [r \in Runs |-> FALSE]
    /\ pool = <<>>
    /\ chain = [mapped |-> FALSE, allowance |-> 0, balance |-> Balance,
                payer |-> [s \in Sessions |-> None]]
    /\ intentQuote = None
    /\ expired = {}

(***************************************************************************)
(* Steps of a run                                                          *)
(***************************************************************************)

Goto(r, place) == pc' = [pc EXCEPT ![r] = place]

Fail(r, why) == Goto(r, "failed") /\ reason' = [reason EXCEPT ![r] = why]

\* Nothing was sent: a wrong flag, a refusal or an answer that did not come.
GivesUp(r) ==
    /\ Fail(r, "refused")
    /\ UNCHANGED <<kind, quote, answer, touched, pool, chain, relayVars>>

\* The configuration, the chain id and the signer are checked first.
Begins(r, place) ==
    /\ pc[r] = "start"
    /\ \/ /\ Goto(r, place)
          /\ UNCHANGED <<kind, quote, answer, reason, touched, pool, chain, relayVars>>
       \/ GivesUp(r)

BeginHelper(r) == kind[r] \in Helpers /\ Begins(r, "map")

BeginSubstrate(r) == kind[r] = "substrate" /\ Begins(r, "map")

\* The Ledger program pays from an EVM account and has none to map.
BeginLedger(r) == kind[r] = "ledger" /\ Begins(r, "quote")

Send(r, act) ==
    /\ pool' = Append(pool, [run |-> r, act |-> act, session |-> quote[r]])
    /\ answer' = [answer EXCEPT ![r] = "none"]

\* The helper maps the account without --yes as well: only --dry-run keeps it
\* from that.
MapAccount(r) ==
    /\ pc[r] = "map"
    /\ \/ /\ chain.mapped
          /\ Goto(r, "quote")
          /\ UNCHANGED <<touched, answer, pool>>
       \/ /\ ~chain.mapped
          /\ Send(r, "map")
          /\ Goto(r, "mapping")
          /\ touched' = [touched EXCEPT ![r] = FALSE]
    /\ UNCHANGED <<kind, quote, reason, chain, relayVars>>

\* A quote is used when it is for what was asked and within the cap.  A rebound
\* quote of the other two programs is for what was asked by construction.
Matches(s) == s \notin Odd
Accepts(r, s) == Matches(s) /\ (kind[r] \in Helpers => AmountOf[s] <= Cap)

TakeQuote(r, s) ==
    /\ quote' = [quote EXCEPT ![r] = s]
    /\ IF Accepts(r, s)
       THEN Goto(r, "read") /\ UNCHANGED reason
       ELSE Fail(r, "refused")
    /\ UNCHANGED <<kind, answer, touched, pool, chain, expired>>

Quoted(r) ==
    /\ pc[r] = "quote"
    /\ \E s \in Sessions \ expired :
        /\ TakeQuote(r, s)
        /\ intentQuote' = IF kind[r] = "helper" THEN s ELSE intentQuote

\* Only the helper goes on after a quote request that timed out: it looks
\* whether the intent holds a quote by now.
QuoteTimesOut(r) ==
    /\ pc[r] = "quote"
    /\ IF kind[r] = "helper"
       THEN /\ Goto(r, "resume")
            /\ UNCHANGED <<kind, quote, answer, reason, touched, pool, chain, relayVars>>
       ELSE GivesUp(r)

\* Polls the intent without a deadline.
RefusedWhenAsked(r) == pc[r] = "quote" /\ GivesUp(r)

QuoteRefused(r) == pc[r] \in {"quote", "resume"} /\ GivesUp(r)


\* quoteResponseFromDeploymentIntentStatus: only a quote that matches and whose
\* deadline is ahead; another is looked past until the resume deadline.
Reusable(s) == s # None /\ s \notin expired /\ Matches(s)

\* Checks the cap only for a fresh quote.
ResumeUnchecked(r) ==
    /\ pc[r] = "resume"
    /\ Reusable(intentQuote)
    /\ quote' = [quote EXCEPT ![r] = intentQuote]
    /\ Goto(r, "read")
    /\ UNCHANGED <<kind, answer, reason, touched, pool, chain, relayVars>>

ResumeQuote(r) ==
    /\ pc[r] = "resume"
    /\ Reusable(intentQuote)
    /\ TakeQuote(r, intentQuote)
    /\ UNCHANGED intentQuote

\* The approve call is for the amount of the quote, not for more.
ApproveAmount(s) == AmountOf[s]

Short(r) == chain.balance < AmountOf[quote[r]]

Covered(r) == chain.allowance >= AmountOf[quote[r]]

\* Balance and allowance are read together.  The helper does not look whether
\* the session is paid.
HelperAfterRead(r) ==
    IF Short(r) THEN "failed"
    ELSE IF kind[r] = "plan" THEN "planned"
    ELSE IF Covered(r) THEN "fund" ELSE "approve"

\* The other two read the session's developer as well, and stop when there is one.
Existing(r) == chain.payer[quote[r]] # None

DirectAfterRead(r) ==
    IF Existing(r) THEN "already"
    ELSE IF Short(r) THEN "failed"
    ELSE IF Covered(r) THEN "fund" ELSE "approve"

AfterRead(r) == IF kind[r] \in Helpers THEN HelperAfterRead(r) ELSE DirectAfterRead(r)

ReadChain(r) ==
    /\ pc[r] = "read"
    /\ Goto(r, AfterRead(r))
    /\ reason' = IF AfterRead(r) = "failed" THEN [reason EXCEPT ![r] = "refused"] ELSE reason
    /\ touched' = [touched EXCEPT ![r] = FALSE]
    /\ UNCHANGED <<kind, quote, answer, pool, chain, relayVars>>

SendApprove(r) ==
    /\ pc[r] = "approve"
    /\ Send(r, "approve")
    /\ Goto(r, "approving")
    /\ UNCHANGED <<kind, quote, reason, touched, chain, relayVars>>

SendFund(r) ==
    /\ pc[r] = "fund"
    /\ Send(r, "fund")
    /\ Goto(r, "funding")
    /\ UNCHANGED <<kind, quote, reason, touched, chain, relayVars>>

\* Too little native balance, a read that fails, a call the node refuses.
CannotSend(r) == pc[r] \in {"map", "read", "approve", "fund"} /\ GivesUp(r)

\* signAndSend settles with the first block, or with the dispatch error in it.
After(r) ==
    CASE pc[r] = "mapping"   -> "quote"
      [] pc[r] = "approving" -> "fund"
      [] OTHER               -> IF kind[r] \in Helpers THEN "readback" ELSE "paid"

Settles(r) ==
    /\ pc[r] \in Waiting
    /\ \/ answer[r] = "inBlock" /\ Goto(r, After(r)) /\ UNCHANGED reason
       \/ answer[r] = "dispatchError" /\ Fail(r, "dispatchError")
    /\ UNCHANGED <<kind, quote, answer, touched, pool, chain, relayVars>>

\* The timer of signAndSend, or the exit of cast: the extrinsic stays where it is.
TxTimesOut(r) ==
    /\ pc[r] \in Waiting
    /\ Fail(r, "unanswered")
    /\ UNCHANGED <<kind, quote, answer, touched, pool, chain, relayVars>>

Readback(r) ==
    /\ pc[r] = "readback"
    /\ \/ chain.payer[quote[r]] # None /\ Goto(r, "paid") /\ UNCHANGED reason
       \/ Fail(r, "unanswered")
    /\ UNCHANGED <<kind, quote, answer, touched, pool, chain, relayVars>>

(***************************************************************************)
(* The wallet on the chain, and the relay                                  *)
(***************************************************************************)

Allowed(x) ==
    CASE x.act = "map"     -> ~chain.mapped
      [] x.act = "approve" -> TRUE
      [] OTHER             -> /\ x.session \notin expired
                              /\ chain.payer[x.session] = None
                              /\ chain.allowance >= AmountOf[x.session]
                              /\ chain.balance >= AmountOf[x.session]

Applied(x) ==
    CASE x.act = "map"     -> [chain EXCEPT !.mapped = TRUE]
      [] x.act = "approve" -> [chain EXCEPT !.allowance = ApproveAmount(x.session)]
      [] OTHER             -> [chain EXCEPT !.allowance = @ - AmountOf[x.session],
                                            !.balance = @ - AmountOf[x.session],
                                            !.payer[x.session] = x.run]

Include ==
    /\ pool # <<>>
    /\ LET x == Head(pool) IN
        /\ pool' = Tail(pool)
        /\ chain' = IF Allowed(x) THEN Applied(x) ELSE chain
        /\ answer' = [answer EXCEPT ![x.run] = IF Allowed(x) THEN "inBlock" ELSE "dispatchError"]
        /\ touched' = [r \in Runs |-> touched[r] \/ (r # x.run /\ Allowed(x))]
    /\ UNCHANGED <<kind, pc, quote, reason, relayVars>>

\* The node drops the last extrinsic; signAndSend ignores that status.
Drop ==
    /\ pool # <<>>
    /\ pool' = Front(pool)
    /\ UNCHANGED <<kind, pc, quote, answer, reason, touched, chain, relayVars>>

LateQuote ==
    /\ \E r \in Runs : pc[r] = "resume"
    /\ intentQuote' \in Sessions \ expired
    /\ UNCHANGED <<kind, pc, quote, answer, reason, touched, pool, chain, expired>>

Expire ==
    /\ \E s \in Sessions : expired' = expired \cup {s} /\ s \notin expired
    /\ UNCHANGED <<kind, pc, quote, answer, reason, touched, pool, chain, intentQuote>>

Step(r) ==
    \/ BeginHelper(r) \/ BeginSubstrate(r) \/ BeginLedger(r) \/ MapAccount(r)
    \/ Quoted(r) \/ QuoteTimesOut(r) \/ QuoteRefused(r) \/ ResumeQuote(r)
    \/ ReadChain(r) \/ SendApprove(r) \/ SendFund(r) \/ CannotSend(r)
    \/ Settles(r) \/ TxTimesOut(r) \/ Readback(r)

Next == (\E r \in Runs : Step(r)) \/ Include \/ Drop \/ LateQuote \/ Expire

Spec == Init /\ [][Next]_vars

\* Each program runs on: every wait of the helper and of the Substrate program
\* has a timer.  The wait for cast has none, but cast ends by itself.
FairSpec == Spec /\ \A r \in Runs : WF_vars(Step(r))

(***************************************************************************)
(* Properties                                                              *)
(***************************************************************************)

\* What a run reports as paid it has paid itself: no other run's payment, and
\* no answer to an earlier extrinsic, passes for it.
PaidByItself == \A r \in Runs : pc[r] = "paid" => chain.payer[quote[r]] = r

\* The chain refuses a run's extrinsic only if another run changed the wallet
\* after this run read it, or the quote's deadline passed meanwhile, or the
\* helper pays a session that was paid before, for which it does not look.
RefusedOnlyIfTouched ==
    \A r \in Runs : reason[r] = "dispatchError" =>
        \/ touched[r]
        \/ quote[r] \in expired
        \/ kind[r] \in Helpers /\ quote[r] # None /\ chain.payer[quote[r]] # None

\* Runs that all went well, however they overlapped, leave no allowance with
\* the registry.
ApprovalIsSpent ==
    (pool = <<>> /\ \A r \in Runs : pc[r] \in Ended \ {"failed"}) => chain.allowance = 0

\* The helper and the script pay nothing above the cap and nothing they did not
\* ask for, whichever way they came by the quote.
PaysWhatItAskedFor ==
    \A s \in Sessions : LET r == chain.payer[s] IN
        (r # None /\ kind[r] \in Helpers) => (AmountOf[s] <= Cap /\ s \notin Odd)

\* A run that has begun ends, whatever the relay and the chain do.
FundingEnds == \A r \in Runs : pc[r] # "start" ~> pc[r] \in Ended

\* What concurrent runs of the funding helper do with one wallet's money: each
\* pays what it quoted, no approval is left over, and a refusal has a reason.
FundSafe == TypeOK /\ PaidByItself /\ RefusedOnlyIfTouched /\ ApprovalIsSpent /\ PaysWhatItAskedFor
=============================================================================
