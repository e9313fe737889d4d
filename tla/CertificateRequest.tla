-------------------------- MODULE CertificateRequest --------------------------
(***************************************************************************)
(* requestCertificateWithRelay (src/runtime/index.ts): an application asks *)
(* the relay for its certificate.  One timer runs over the stages that     *)
(* make the request and send it; the application's onProgress callbacks    *)
(* are awaited between the stages, and the body of the answer is read when *)
(* the timer is already cleared.  What was sent cannot be taken back: the  *)
(* relay may place an order after the application gave up.                 *)
(*                                                                         *)
(* All attempts share one signer, which asks the processor for its address *)
(* once and keeps the promise, also one that was rejected.  The relay, the *)
(* processor and the callbacks are external.                               *)
(***************************************************************************)
EXTENDS FileContents, FiniteSets

CONSTANT Attempts    \* requests of one application

ASSUME AttemptsOK == IsFiniteSet(Attempts)

VARIABLES
    attempt,    \* each attempt: where it is, its timer and how it failed
    address,    \* the signer's promise of its address
    sent,       \* the requests that were sent
    reply,      \* what the relay answered
    orders      \* relay: the attempts for which an ACME order was placed

certVars == <<attempt, address, sent, reply, orders>>

Stages == {"csr", "address", "sign", "relay"}

\* Between the stages the callbacks are awaited.
Tells == {"tell_csr", "tell_sign", "tell_relay", "tell_reply"}

CertPlaces == {"start", "body", "ok", "failed"} \cup Stages \cup Tells

FailureStages ==
    {"certificate_config", "csr_generation", "request_signing", "relay_request",
     "certificate_lock", "certificate_authorization", "acme_issuance",
     "hostname_config", "relay_response", "unnamed"}

Replies == {"issued", "locked", "unauthorized", "issuance_failed", "invalid", "other"}

ASSUME NamesOK == Absent \notin Replies \cup FailureStages

CertTypeOK ==
    /\ attempt \in [Attempts -> [at : CertPlaces, timer : {"off", "armed", "fired"},
                                 stage : FailureStages \cup {Absent}]]
    /\ address \in {"none", "pending", "known", "rejected"}
    /\ sent \subseteq Attempts
    /\ reply \in [Attempts -> Replies \cup {Absent}]
    /\ orders \subseteq sent

CertInit ==
    /\ attempt = [a \in Attempts |-> [at |-> "start", timer |-> "off", stage |-> Absent]]
    /\ address = "none"
    /\ sent = {}
    /\ reply = [a \in Attempts |-> Absent]
    /\ orders = {}

-------------------------------------------------------------------------------

\* The stage that a failure names.
StageOf(at) ==
    CASE at = "csr" -> "csr_generation"
      [] at = "relay" -> "relay_request"
      [] OTHER -> "request_signing"

CertGoes(a, at) == attempt' = [attempt EXCEPT ![a].at = at]

\* The timer is cleared on the way out.
FailsAs(a, stage) ==
    attempt' = [attempt EXCEPT ![a] = [at |-> "failed", timer |-> "off", stage |-> stage]]

\* A stage starts whatever became of the timer.
EntersAnyway(a, at) ==
    /\ CertGoes(a, at)
    /\ address' = IF at = "address" /\ address = "none" THEN "pending" ELSE address
    /\ sent' = IF at = "relay" THEN sent \cup {a} ELSE sent

\* runSwitchboardCertificateStage: a stage that begins after the timer fired
\* fails at once; otherwise its work starts.
Enters(a, at) ==
    IF attempt[a].timer = "fired"
      THEN FailsAs(a, StageOf(at)) /\ UNCHANGED <<address, sent>>
      ELSE /\ CertGoes(a, at)
           /\ address' = IF at = "address" /\ address = "none" THEN "pending" ELSE address
           /\ sent' = IF at = "relay" THEN sent \cup {a} ELSE sent

\* The timer starts before the request is built.  A CSR that is given is not
\* made; a key algorithm that does not exist is refused.
StartAttempt(a, given) ==
    /\ attempt[a].at = "start"
    /\ attempt' = [attempt EXCEPT ![a].at = IF given THEN "tell_sign" ELSE "tell_csr",
                                  ![a].timer = "armed"]
    /\ UNCHANGED <<address, sent, reply, orders>>

BadConfig(a) ==
    /\ attempt[a].at = "start"
    /\ FailsAs(a, "certificate_config")
    /\ UNCHANGED <<address, sent, reply, orders>>

\* The callback returns and the stage that it announced begins.
Told(a) ==
    /\ \/ attempt[a].at = "tell_csr" /\ Enters(a, "csr")
       \/ attempt[a].at = "tell_sign" /\ Enters(a, "address")
       \/ attempt[a].at = "tell_relay" /\ Enters(a, "relay")
    /\ UNCHANGED <<reply, orders>>

\* A callback that throws ends the attempt with its own error.
CallbackThrows(a) ==
    /\ attempt[a].at \in Tells
    /\ FailsAs(a, "unnamed")
    /\ UNCHANGED <<address, sent, reply, orders>>

TimerFires(a) ==
    /\ attempt[a].timer = "armed"
    /\ IF attempt[a].at \in Stages
         THEN FailsAs(a, StageOf(attempt[a].at))
         ELSE attempt' = [attempt EXCEPT ![a].timer = "fired"]
    /\ UNCHANGED <<address, sent, reply, orders>>

\* The work of a stage ends: the key and CSR are made, the address is known, the
\* request is signed.
StageDone(a) ==
    /\ \/ /\ attempt[a].at = "csr"
          /\ CertGoes(a, "tell_sign") /\ UNCHANGED <<address, sent>>
       \/ attempt[a].at = "address" /\ address = "known" /\ Enters(a, "sign")
       \/ /\ attempt[a].at = "sign"
          /\ CertGoes(a, "tell_relay") /\ UNCHANGED <<address, sent>>
    /\ UNCHANGED <<reply, orders>>

\* Its error is thrown as it is.
StageFails(a) ==
    /\ \/ attempt[a].at \in {"csr", "sign"}
       \/ attempt[a].at = "address" /\ address = "rejected"
    /\ FailsAs(a, "unnamed")
    /\ UNCHANGED <<address, sent, reply, orders>>

\* getPublicKeys of the processor answers, once and for all attempts.
AddressAnswers(how) ==
    /\ address = "pending"
    /\ address' = how
    /\ UNCHANGED <<attempt, sent, reply, orders>>

\* The relay answers a request that was sent, whoever still waits.  It issues or
\* fails to issue only with an order.
RelayReplies(a, what) ==
    /\ a \in sent /\ reply[a] = Absent
    /\ reply' = [reply EXCEPT ![a] = what]
    /\ orders' = IF what \in {"issued", "issuance_failed"} THEN orders \cup {a} ELSE orders
    /\ UNCHANGED <<attempt, address, sent>>

\* fetch resolves with the headers, which clears the timer.
HeadersArrive(a) ==
    /\ attempt[a].at = "relay" /\ reply[a] # Absent
    /\ attempt' = [attempt EXCEPT ![a].at = "body", ![a].timer = "off"]
    /\ UNCHANGED <<address, sent, reply, orders>>

FetchFails(a) ==
    /\ attempt[a].at = "relay"
    /\ FailsAs(a, "relay_request")
    /\ UNCHANGED <<address, sent, reply, orders>>

\* responseJsonOrText has no timer: it ends, breaks off or never comes.
BodyArrives(a) ==
    /\ attempt[a].at = "body"
    /\ CertGoes(a, "tell_reply")
    /\ UNCHANGED <<address, sent, reply, orders>>

BodyBreaks(a) ==
    /\ attempt[a].at = "body"
    /\ FailsAs(a, "unnamed")
    /\ UNCHANGED <<address, sent, reply, orders>>

\* certificateFailureStageForRelayResponse
StageOfReply(what) ==
    CASE what = "locked" -> "certificate_lock"
      [] what = "unauthorized" -> "certificate_authorization"
      [] what = "issuance_failed" -> "acme_issuance"
      [] what = "invalid" -> "hostname_config"
      [] OTHER -> "relay_response"

AnswersCaller(a) ==
    /\ attempt[a].at = "tell_reply"
    /\ IF reply[a] = "issued" THEN CertGoes(a, "ok") ELSE FailsAs(a, StageOfReply(reply[a]))
    /\ UNCHANGED <<address, sent, reply, orders>>

CertStep(a) ==
    \/ \E given \in BOOLEAN : StartAttempt(a, given)
    \/ BadConfig(a) \/ Told(a) \/ CallbackThrows(a) \/ TimerFires(a)
    \/ StageDone(a) \/ StageFails(a)
    \/ HeadersArrive(a) \/ FetchFails(a) \/ BodyArrives(a) \/ BodyBreaks(a)
    \/ AnswersCaller(a)
    \/ \E what \in Replies : RelayReplies(a, what)

CertNext ==
    \/ \E a \in Attempts : CertStep(a)
    \/ \E how \in {"known", "rejected"} : AddressAnswers(how)

CertSpec == CertInit /\ [][CertNext]_certVars

-------------------------------------------------------------------------------
\* A failure that names a stage before the order was reached cost no order, and
\* can be retried without counting against the limits of the authority.
EarlyFailureIsFree ==
    \A a \in Attempts :
        attempt[a].stage \in {"certificate_config", "csr_generation", "request_signing",
                              "certificate_lock", "certificate_authorization",
                              "hostname_config"}
        => a \notin orders

\* An attempt whose time ran out sends nothing any more, even if it ran out while
\* the application's callback was awaited.
TimedOutSendsNothing ==
    [][\A a \in Attempts : a \in sent' \ sent => attempt[a].timer = "armed"]_certVars

\* A request for a certificate that failed early cost nothing, and one that
\* timed out sends nothing any more.
CertSafe == [](CertTypeOK /\ EarlyFailureIsFree) /\ TimedOutSendsNothing
===============================================================================
