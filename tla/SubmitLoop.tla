------------------------------ MODULE SubmitLoop ------------------------------
(***************************************************************************)
(* submitDeployExtrinsicHardened (cli/src/acurast-chain-submit.ts): one    *)
(* deploy extrinsic, from the call to the settlement of its promise, with  *)
(* the two subscriptions and the timer it leaves running meanwhile.        *)
(*                                                                         *)
(* The code runs on one thread.  An action is what runs from one await, or *)
(* one callback, to the next: the start of signAndSend, its answer, one    *)
(* status callback up to the subscription it awaits, the rest of it after  *)
(* that await, one job-status callback, the timer.  Between them the chain *)
(* and the connection move as they like.                                   *)
(*                                                                         *)
(* The chain, the transaction pool and the RPC client are not part of the  *)
(* repository; they are modelled from what the loop handles.  Statuses     *)
(* arrive in the order in which they happened.  The client fetches the     *)
(* block that a status names before it passes the status on, and may drop  *)
(* the status when a newer one arrives meanwhile (Supersedes).  A callback *)
(* that was queued before its subscription was closed still runs.          *)
(***************************************************************************)
EXTENDS Naturals, Sequences, SequencesExt

CONSTANTS
    MaxRetracts,   \* how often a block with the extrinsic is retracted
    Supersedes     \* whether a status can be dropped in favour of a newer one

ASSUME ConstantsOK == MaxRetracts \in Nat /\ Supersedes \in BOOLEAN

VARIABLES
    sign,        \* the signAndSend call: preparing, sent, resolved or rejected
    chain,       \* where the extrinsic is on the chain
    retracts,    \* number of retractions so far
    included,    \* history: the extrinsic has been in a block, without an error
    link,        \* the WebSocket connection is up
    watch,       \* the status subscription at the node: none, open or closed
    notes,       \* statuses received whose callback did not run yet
    outcome,     \* the promise: pending, resolved, or the error it rejects with
    timer,       \* the submit timer is running
    unsubTx,     \* the variable unsubTx holds the unsubscribe function
    jobSub,      \* the job-status subscription: none, opening, open, closed,
                 \* or failed when the call to open it threw
    unsubJob,    \* the variable unsubJobStatus holds the unsubscribe function
    suspended,   \* the status whose handler awaits the subscription, or "none"
    handled,     \* history: the statuses whose callback ran before settling
    told         \* the progress statuses passed to statusCallback

chainVars == <<chain, retracts, included, link>>
loopVars == <<sign, outcome, timer, unsubTx, jobSub, unsubJob, suspended, handled, told>>
vars == <<sign, chain, retracts, included, link, watch, notes, outcome, timer,
          unsubTx, jobSub, unsubJob, suspended, handled, told>>

Evictions == {"usurped", "dropped", "invalid"}

\* Ready, Broadcast and Future are all treated alike.
Statuses == Evictions \cup
    {"ready", "inBlock", "dispatchError", "retracted", "finalized", "finalityTimeout"}

\* The statuses after which the loop must settle: a final answer.
Terminal == Evictions \cup {"finalityTimeout", "dispatchError"}

\* The error code of a rejection.
ErrorOf(status) ==
    CASE status = "usurped"         -> "TxUsurped"
      [] status = "dropped"         -> "TxDropped"
      [] status = "invalid"         -> "TxInvalid"
      [] status = "finalityTimeout" -> "TxFinalityTimeout"
      [] OTHER                      -> "TransactionError"

Errors == {ErrorOf(s) : s \in Terminal}
          \cup {"SubmitTimeout", "SubmissionError", "SubscribeError"}

Settled == outcome # "pending"
Failed == outcome \in Errors

TypeOK ==
    /\ sign \in {"preparing", "sent", "resolved", "rejected"}
    /\ chain \in {"unsent", "pool", "block", "reverted", "final", "gone"}
    /\ retracts \in 0 .. MaxRetracts
    /\ included \in BOOLEAN
    /\ link \in BOOLEAN
    /\ watch \in {"none", "open", "closed"}
    /\ notes \in Seq(Statuses)
    /\ outcome \in Errors \cup {"pending", "resolved"}
    /\ timer \in BOOLEAN
    /\ unsubTx \in BOOLEAN
    /\ jobSub \in {"none", "opening", "open", "closed", "failed"}
    /\ unsubJob \in BOOLEAN
    /\ suspended \in Statuses \cup {"none"}
    /\ handled \subseteq Statuses
    /\ told \subseteq {"WaitingForMatch", "Matched", "Acknowledged"}

Init ==
    /\ sign = "preparing"
    /\ chain = "unsent"
    /\ retracts = 0
    /\ included = FALSE
    /\ link = TRUE
    /\ watch = "none"
    /\ notes = <<>>
    /\ outcome = "pending"
    /\ timer = TRUE
    /\ unsubTx = FALSE
    /\ jobSub = "none"
    /\ unsubJob = FALSE
    /\ suspended = "none"
    /\ handled = {}
    /\ told = {}

-------------------------------------------------------------------------------
\* The chain and the connection.

NamesBlock(status) == status \in {"inBlock", "dispatchError", "finalized"}

\* A status reaches the client if it still watches over a live connection; it
\* may take the place of the previous one, whose block is still being fetched.
Notify(status) ==
    IF watch = "open" /\ link
    THEN \/ notes' = Append(notes, status)
         \/ /\ Supersedes
            /\ notes # <<>>
            /\ NamesBlock(Last(notes))
            /\ notes' = Append(Front(notes), status)
    ELSE UNCHANGED notes

Include ==
    /\ chain = "pool"
    /\ \/ /\ chain' = "block"
          /\ included' = TRUE
          /\ Notify("inBlock")
       \/ /\ chain' = "reverted"
          /\ Notify("dispatchError")
          /\ UNCHANGED included
    /\ UNCHANGED <<retracts, link, watch, loopVars>>

Retract ==
    /\ chain \in {"block", "reverted"}
    /\ retracts < MaxRetracts
    /\ chain' = "pool"
    /\ retracts' = retracts + 1
    /\ Notify("retracted")
    /\ UNCHANGED <<included, link, watch, loopVars>>

\* The node ends the status subscription with its last status.
Finalize ==
    /\ chain \in {"block", "reverted"}
    /\ chain' = "final"
    /\ Notify(IF chain = "block" THEN "finalized" ELSE "dispatchError")
    /\ watch' = "closed"
    /\ UNCHANGED <<retracts, included, link, loopVars>>

FinalityTimesOut ==
    /\ chain \in {"block", "reverted"}
    /\ watch = "open"
    /\ Notify("finalityTimeout")
    /\ watch' = "closed"
    /\ UNCHANGED <<chainVars, loopVars>>

Evict ==
    /\ chain = "pool"
    /\ chain' = "gone"
    /\ \E status \in Evictions : Notify(status)
    /\ watch' = "closed"
    /\ UNCHANGED <<retracts, included, link, loopVars>>

\* The connection is lost; the client does not take up the watch again.
Disconnect ==
    /\ link
    /\ link' = FALSE
    /\ UNCHANGED <<chain, retracts, included, watch, notes, loopVars>>

-------------------------------------------------------------------------------
\* finish(undefined, txHash): only the first call has an effect.  unsubTx?.()
\* closes the watch; the job-status subscription stays.
Resolve ==
    IF Settled
    THEN UNCHANGED <<outcome, timer, watch, unsubTx>>
    ELSE /\ outcome' = "resolved"
         /\ timer' = FALSE
         /\ watch' = IF unsubTx THEN "closed" ELSE watch
         /\ unsubTx' = FALSE

\* Mistake: finish without its settled check.
RejectAgain(error) ==
    /\ outcome' = error
    /\ timer' = FALSE
    /\ watch' = IF unsubTx THEN "closed" ELSE watch
    /\ unsubTx' = FALSE
    /\ jobSub' = IF unsubJob THEN "closed" ELSE jobSub
    /\ unsubJob' = FALSE

\* finish(error): only the first call has an effect; it closes whichever of
\* the two subscriptions has an unsubscribe function by now.
Reject(error) ==
    IF Settled
    THEN UNCHANGED <<outcome, timer, watch, unsubTx, jobSub, unsubJob>>
    ELSE /\ outcome' = error
         /\ timer' = FALSE
         /\ watch' = IF unsubTx THEN "closed" ELSE watch
         /\ unsubTx' = FALSE
         /\ jobSub' = IF unsubJob THEN "closed" ELSE jobSub
         /\ unsubJob' = FALSE

\* signAndSend resolved the nonce, signed, and the node accepted the extrinsic.
SignSends ==
    /\ sign = "preparing"
    /\ link
    /\ sign' = "sent"
    /\ chain' = "pool"
    /\ watch' = "open"
    /\ notes' = <<"ready">>
    /\ UNCHANGED <<retracts, included, link, outcome, timer, unsubTx, jobSub,
                   unsubJob, suspended, handled, told>>

\* Mistake: an answer that comes after the end is not unsubscribed.
SignResolvesUnchecked ==
    /\ sign = "sent"
    /\ sign' = "resolved"
    /\ unsubTx' = TRUE
    /\ UNCHANGED <<chainVars, watch, notes, outcome, timer, jobSub, unsubJob, suspended,
                   handled, told>>

\* signAndSend answers with the unsubscribe function.  A loop that settled in
\* the meantime calls it at once.
SignResolves ==
    /\ sign = "sent"
    /\ sign' = "resolved"
    /\ IF Settled
       THEN watch' = "closed" /\ UNCHANGED unsubTx
       ELSE unsubTx' = TRUE /\ UNCHANGED watch
    /\ UNCHANGED <<chainVars, notes, outcome, timer, jobSub, unsubJob, suspended,
                   handled, told>>

\* signAndSend throws: the pool rejects the extrinsic, or the connection is
\* lost before the first answer, which ends the watch.  finish finds no
\* unsubscribe function to call.
SignRejects ==
    /\ sign = "preparing" \/ (sign = "sent" /\ ~link)
    /\ sign' = "rejected"
    /\ watch' = IF watch = "open" THEN "closed" ELSE watch
    /\ IF Settled
       THEN UNCHANGED <<outcome, timer>>
       ELSE outcome' = "SubmissionError" /\ timer' = FALSE
    /\ UNCHANGED <<chainVars, notes, unsubTx, jobSub, unsubJob, suspended, handled,
                   told>>

\* The end of handleEvent: what the status itself leads to.
React(status) ==
    IF status \in Terminal THEN Reject(ErrorOf(status))
    ELSE /\ IF status = "inBlock" THEN Resolve
                                  ELSE UNCHANGED <<outcome, timer, watch, unsubTx>>
         /\ UNCHANGED <<jobSub, unsubJob>>

\* The extrinsic's events are in the status and hold a JobRegistrationStoredV2.
CarriesJob(status) == status \in {"inBlock", "finalized"}

JobStatusSubscribed == "WaitingForMatch" \in told

\* handleEvent, up to its await: the first status that carries the job opens
\* the job-status subscription and waits for it; any other runs to the end.
HandleEvent ==
    /\ sign = "resolved"
    /\ notes # <<>>
    /\ notes' = Tail(notes)
    /\ handled' = IF Settled THEN handled ELSE handled \cup {Head(notes)}
    /\ IF CarriesJob(Head(notes)) /\ ~JobStatusSubscribed
       THEN /\ told' = told \cup {"WaitingForMatch"}
            /\ jobSub' = "opening"
            /\ suspended' = Head(notes)
            /\ UNCHANGED <<outcome, timer, watch, unsubTx, unsubJob>>
       ELSE /\ React(Head(notes))
            /\ UNCHANGED <<told, suspended>>
    /\ UNCHANGED <<chainVars, sign>>

\* handleEvent, after its await: a loop that failed in the meantime closes the
\* new subscription; the status is only now looked at.
JobSubOpens ==
    /\ jobSub = "opening"
    /\ link
    /\ IF Failed
       THEN /\ jobSub' = "closed"
            /\ UNCHANGED <<unsubJob, outcome, timer, watch, unsubTx>>
       ELSE /\ jobSub' = "open"
            /\ unsubJob' = TRUE
            /\ IF suspended = "inBlock" THEN Resolve
                                        ELSE UNCHANGED <<outcome, timer, watch, unsubTx>>
    /\ suspended' = "none"
    /\ UNCHANGED <<chainVars, sign, notes, handled, told>>

\* The subscription call throws, which rejects handleEvent: .catch(finish).
\* unsubJobStatus is still unset, so finish has only the watch to close.
JobSubFails ==
    /\ jobSub = "opening"
    /\ jobSub' = "failed"
    /\ suspended' = "none"
    /\ IF Settled
       THEN UNCHANGED <<outcome, timer, watch, unsubTx>>
       ELSE /\ outcome' = "SubscribeError"
            /\ timer' = FALSE
            /\ watch' = IF unsubTx THEN "closed" ELSE watch
            /\ unsubTx' = FALSE
    /\ UNCHANGED <<chainVars, sign, notes, unsubJob, handled, told>>

\* The job was matched with a processor.
JobMatched ==
    /\ jobSub = "open"
    /\ link
    /\ chain \in {"block", "final"}
    /\ told' = told \cup {"Matched"}
    /\ UNCHANGED <<chainVars, sign, watch, notes, outcome, timer, unsubTx, jobSub,
                   unsubJob, suspended, handled>>

\* A processor acknowledged the job: the callback reports it and closes its
\* own subscription.
JobAssigned ==
    /\ jobSub = "open"
    /\ link
    /\ chain \in {"block", "final"}
    /\ told' = told \cup {"Acknowledged"}
    /\ jobSub' = "closed"
    /\ UNCHANGED <<chainVars, sign, watch, notes, outcome, timer, unsubTx, unsubJob,
                   suspended, handled>>

TimerFires ==
    /\ timer
    /\ Reject("SubmitTimeout")
    /\ UNCHANGED <<chainVars, sign, notes, suspended, handled, told>>

ChainStep ==
    \/ Include \/ Retract \/ Finalize \/ FinalityTimesOut \/ Evict \/ Disconnect

CallStep ==
    \/ SignSends \/ SignResolves \/ SignRejects \/ JobSubOpens \/ JobSubFails

Next ==
    \/ ChainStep \/ CallStep \/ HandleEvent
    \/ JobMatched \/ JobAssigned \/ TimerFires

Spec == Init /\ [][Next]_vars

-------------------------------------------------------------------------------
\* The promise resolves only for an extrinsic that has been in a block and did
\* not fail there (finish(undefined, txHash) at isInBlock).
ResolvedWasIncluded == outcome = "resolved" => included

\* "on failure every subscription is torn down" (acurast-chain-submit.ts:191):
\* once the calls that were in flight at the failure have answered, neither
\* the status watch nor the job-status subscription is open.
FailureTearsDown ==
    Failed =>
        /\ sign # "sent" => watch # "open"
        /\ jobSub # "open"

\* After success the job-status subscription stays open until the job is
\* assigned (acurast-chain-submit.ts:188-191): no late status, timer or second
\* call of finish closes it under the env-var stage that it feeds.
JobSubEndsByAssignment ==
    outcome = "resolved" /\ jobSub = "closed" => "Acknowledged" \in told

\* A resolved submit has announced its job: the caller, which takes the
\* deployment id from that announcement (acurast-submit-adapter.ts:498), finds
\* one whatever order the statuses and the awaited subscription came in.
ResolvedKnowsJob == outcome = "resolved" => JobStatusSubscribed

\* "terminal transaction statuses reject ... instead of hanging"
\* (acurast-chain-submit.ts:34): no callback of a terminal status leaves the
\* promise pending, whatever was being awaited when it ran.
TerminalStatusSettles == handled \cap Terminal # {} => Settled

\* The outcome is final: neither the timer nor a late status, answer or
\* failing subscription changes it.
OutcomeFinal == [][Settled => UNCHANGED outcome]_vars

\* The promise of submitAcurastDeployExtrinsic and its two subscriptions: what
\* success and failure mean, what stays open after each, and that a terminal
\* status settles it.
SubmitSafe ==
    /\ TypeOK
    /\ ResolvedWasIncluded
    /\ ResolvedKnowsJob
    /\ FailureTearsDown
    /\ JobSubEndsByAssignment
    /\ TerminalStatusSettles
===============================================================================
