------------------------------ MODULE RelayCalls ------------------------------
(***************************************************************************)
(* The requests of the commands to a relay (cli/src/index.ts), and at the  *)
(* end which relay validator launch sends its intent to.  The requests of  *)
(* the deploy workflow go through createDeployWorkflowReadbackRetryFetch,  *)
(* which repeats what reads an intent or a group back and nothing else;    *)
(* postSignedJson signs a body once and may send it again.  The relay and  *)
(* the proxy before it go down and come back.                              *)
(*                                                                         *)
(* A unit of time is a second.  Timers are in time, requests are not.      *)
(***************************************************************************)
EXTENDS Integers, Sequences, FiniteSets

CONSTANTS
    Calls,          \* calls of these functions
    SignedRetries,  \* how often postSignedJson may send again
    MaxSeconds,     \* bound
    MaxOutages      \* bound

ASSUME CallConstantsOK ==
    IsFiniteSet(Calls) /\ SignedRetries \in Nat /\ MaxSeconds \in Nat /\ MaxOutages \in Nat

VARIABLES second, server, call

callVars == <<second, server, call>>

Never == -1
\* "post": a request of the workflow that is no readback.
CallKinds == {"readback", "post", "signed"}
CallPlaces == {"send", "flight", "taken", "pause", "answered", "failed"}
ReadbackAttempts == 4

Running(k) == call[k].at \notin {"answered", "failed"}
InFlight(k) == call[k].at \in {"flight", "taken"}

CallsTypeOK ==
    /\ second \in 0..MaxSeconds
    /\ server.up \in BOOLEAN /\ server.outages \in 0..MaxOutages
    /\ server.length \in 0..second /\ server.longest \in server.length..second
    /\ \A k \in Calls :
          /\ call[k].kind \in CallKinds /\ call[k].at \in CallPlaces
          /\ call[k].attempt \in
                1..(CASE call[k].kind = "readback" -> ReadbackAttempts
                      [] call[k].kind = "signed" -> SignedRetries + 1
                      [] OTHER -> 1)
          /\ call[k].until \in 0..(MaxSeconds + 4) /\ call[k].aborted \in {Never} \cup 0..second
          /\ call[k].taken \in 0..call[k].attempt /\ call[k].refused \in 0..call[k].attempt
          /\ call[k].doomed \in BOOLEAN

\* "doomed": the relay was down while the request was on its way.
CallsInit ==
    /\ second = 0
    /\ server = [up |-> TRUE, outages |-> 0, length |-> 0, longest |-> 0]
    /\ \E kind \in [Calls -> CallKinds] :
          call = [k \in Calls |->
                    [kind |-> kind[k], at |-> "send", attempt |-> 1, until |-> 0, aborted |-> Never,
                     taken |-> 0, refused |-> 0, doomed |-> FALSE]]

(***************************************************************************)
(* The relay and time                                                      *)
(***************************************************************************)

GoesDown ==
    /\ server.up /\ server.outages < MaxOutages
    /\ server' = [server EXCEPT !.up = FALSE, !.outages = @ + 1, !.length = 0]
    /\ call' = [k \in Calls |-> [call[k] EXCEPT !.doomed = @ \/ InFlight(k)]]
    /\ UNCHANGED second

ComesBack ==
    /\ ~server.up
    /\ server' = [server EXCEPT !.up = TRUE]
    /\ UNCHANGED <<second, call>>

SecondPasses ==
    LET length == IF server.up THEN server.length ELSE server.length + 1 IN
    /\ second < MaxSeconds
    /\ \A k \in Calls :
          /\ call[k].at # "send"
          /\ call[k].at = "pause" => second < call[k].until
    /\ second' = second + 1
    /\ server' = [server EXCEPT !.length = length,
                     !.longest = IF length > @ THEN length ELSE @]
    /\ UNCHANGED call

(***************************************************************************)
(* The two functions; c is the call as the answer finds it                 *)
(***************************************************************************)

\* deployWorkflowReadbackRequest: GET, and of one intent or one group.
Repeats(c) == c.kind = "readback"

\* An error of the network is worth another try, whatever was asked for.
GivesUpUnlessError(c, answer) ==
    CASE Repeats(c) -> c.attempt >= ReadbackAttempts \/ (answer = "error" /\ c.aborted # Never)
      [] c.kind = "signed" -> c.attempt > SignedRetries
      [] OTHER -> TRUE

\* After a 502, 503 or 504 ("refusal") the signal is not looked at; after an
\* error of the network a signed body is not sent again.
GivesUp(c, answer) ==
    CASE Repeats(c) -> c.attempt >= ReadbackAttempts \/ (answer = "error" /\ c.aborted # Never)
      [] c.kind = "signed" -> answer = "error" \/ c.attempt > SignedRetries
      [] OTHER -> TRUE

\* DEPLOY_WORKFLOW_READBACK_RETRY_DELAYS_MS; postSignedJson has one delay.
PauseOf(c) == IF Repeats(c) THEN <<1, 2, 4>>[c.attempt] ELSE 1

\* A refusal of what is not repeated is an answer like another.
After(c, answer) ==
    CASE answer = "ok" -> "answered"
      [] answer # "ok" /\ ~GivesUp(c, answer) -> "pause"
      [] c.kind = "post" /\ answer = "refusal" -> "answered"
      [] OTHER -> "failed"

Ends(k, c, answer) ==
    /\ call' = [call EXCEPT ![k] =
          [c EXCEPT !.at = After(c, answer),
                    !.until = IF After(c, answer) = "pause" THEN second + PauseOf(c) ELSE 0]]
    /\ UNCHANGED <<second, server>>

\* With an aborted signal nothing is sent.
SendCall(k) ==
    /\ call[k].at = "send"
    /\ \/ call[k].aborted # Never /\ Ends(k, call[k], "error")
       \/ /\ call[k].aborted = Never
          /\ call' = [call EXCEPT ![k].at = "flight", ![k].doomed = ~server.up]
          /\ UNCHANGED <<second, server>>

\* The relay acts on it; its answer can still be lost.
RelayTakes(k) ==
    /\ call[k].at = "flight" /\ server.up
    /\ call' = [call EXCEPT ![k].at = "taken", ![k].taken = @ + 1]
    /\ UNCHANGED <<second, server>>

\* The answer, also one that says no.
RelayAnswers(k) == call[k].at = "taken" /\ server.up /\ Ends(k, call[k], "ok")

\* The proxy answers in its place, or nobody.
CallRefused(k) ==
    /\ InFlight(k) /\ call[k].doomed
    /\ \/ Ends(k, [call[k] EXCEPT !.refused = @ + 1], "refusal")
       \/ Ends(k, call[k], "error")

Resend(k) ==
    /\ call[k].at = "pause" /\ second >= call[k].until
    /\ call' = [call EXCEPT ![k].at = "send", ![k].attempt = @ + 1, ![k].doomed = FALSE]
    /\ UNCHANGED <<second, server>>

\* The signal of the caller ends a request on its way, and no pause;
\* postSignedJson has one for each request.
AbortCall(k) ==
    LET c == [call[k] EXCEPT !.aborted = second] IN
    /\ Running(k) /\ call[k].aborted = Never
    /\ \/ InFlight(k) /\ Ends(k, c, "error")
       \/ /\ ~InFlight(k) /\ call[k].kind # "signed"
          /\ call' = [call EXCEPT ![k] = c]
          /\ UNCHANGED <<second, server>>

CallsNext ==
    \/ GoesDown \/ ComesBack \/ SecondPasses
    \/ \E k \in Calls :
          SendCall(k) \/ RelayTakes(k) \/ RelayAnswers(k) \/ CallRefused(k) \/ Resend(k) \/ AbortCall(k)

CallsSpec == CallsInit /\ [][CallsNext]_callVars

(***************************************************************************)
(* Properties                                                              *)
(***************************************************************************)

\* A readback that its caller did not abort rides out any one outage of less
\* than seven seconds.
RidesOutOutage ==
    \A k \in Calls :
        call[k].kind = "readback" /\ call[k].at = "failed" /\ call[k].aborted = Never =>
            server.outages > 1 \/ server.longest >= 7

\* A call is over four seconds after its caller gave it up, at the latest.
AbortEndsSoon ==
    \A k \in Calls : Running(k) /\ call[k].aborted # Never => second <= call[k].aborted + 4

\* What changes something at the relay reaches it once more only after the
\* proxy refused it: one call makes no second intent because of a timeout, and
\* a request of the workflow makes none at all.
TakenOnceUnlessRefused ==
    \A k \in Calls :
        /\ call[k].kind = "signed" => call[k].taken <= call[k].refused + 1
        /\ call[k].kind = "post" => call[k].taken <= 1

\* The retries of requests to a relay: they ride out what they are there for,
\* an abort ends them, and nothing that was signed is taken twice.
CallsSafe == CallsTypeOK /\ RidesOutOutage /\ AbortEndsSoon /\ TakenOnceUnlessRefused

(***************************************************************************)
(* Which relay validator launch writes to (cli/src/index.ts,               *)
(* selectWritableControlRelayUrl): all candidates are asked at the same    *)
(* time, each for its health and then whether it has the authority to      *)
(* write, and the first that is fit is taken.  The intent is posted to it  *)
(* afterwards.  Relays change meanwhile.                                   *)
(*                                                                         *)
(* A relay that is up answers before the timeout.  Elapsed times are only  *)
(* compared: the order in which the probes end stands for them.            *)
(***************************************************************************)

CONSTANTS
    ControlRelays,    \* relays with a control plane
    MaxTurns          \* bound: how often they change

ASSUME WritableConstantsOK == IsFiniteSet(ControlRelays) /\ ControlRelays # {} /\ MaxTurns \in Nat

VARIABLES
    plane,     \* the relays
    turns,     \* how often they have changed
    probe,     \* what is asked of each
    ended,     \* the relays in the order in which their probes ended
    writer     \* the command

planeVars == <<plane, turns, probe, ended, writer>>

\* "tells": its readiness endpoint exists and answers.
PlaneStates == [up : BOOLEAN, writable : BOOLEAN, tells : BOOLEAN]
ProbePlaces == {"none", "health", "readiness", "fit", "unfit"}
WriterPlaces == {"idle", "asks", "chosen", "none", "accepted", "refused"}

WritableTypeOK ==
    /\ plane \in [ControlRelays -> PlaneStates] /\ turns \in 0..MaxTurns
    /\ \A r \in ControlRelays :
          /\ probe[r].at \in ProbePlaces /\ probe[r].slow \in BOOLEAN
          /\ probe[r].read \in BOOLEAN /\ probe[r].turned \in BOOLEAN
          /\ probe[r].at # "none" => r \in writer.candidates
    /\ {ended[i] : i \in DOMAIN ended} =
          {r \in ControlRelays : probe[r].at \in {"fit", "unfit"}}
    /\ Len(ended) <= Cardinality(ControlRelays)
    /\ writer.at \in WriterPlaces
    /\ writer.candidates \subseteq ControlRelays /\ writer.relay \in writer.candidates
    /\ writer.steady \subseteq writer.candidates

\* validatorLaunchControlRelayCandidates: the relay that the user names, or
\* the active ones of the manifest, or else its control endpoints too.
LaunchCandidates(pinned, requested, listed, endpoints) ==
    CASE pinned -> {requested}
      [] ~pinned /\ listed # {} -> listed
      [] OTHER -> {requested} \cup endpoints

WritableInit ==
    /\ plane \in [ControlRelays -> PlaneStates] /\ turns = 0
    /\ probe = [r \in ControlRelays |->
                  [at |-> "none", slow |-> FALSE, read |-> FALSE, turned |-> FALSE]]
    /\ ended = <<>>
    /\ \E pinned \in BOOLEAN, requested \in ControlRelays, listed \in SUBSET ControlRelays,
          endpoints \in SUBSET ControlRelays :
          LET candidates == LaunchCandidates(pinned, requested, listed, endpoints) IN
          writer = [at |-> "idle", candidates |-> candidates,
                    relay |-> CHOOSE r \in candidates : TRUE, steady |-> {}]

Fit(state) == state.up /\ state.writable

\* "slow": its relay was not up all the time that the probe waited; "turned":
\* nor what it said; "steady": the relays that were fit ever since.
PlaneTurns(r) ==
    /\ turns < MaxTurns /\ writer.at \notin {"none", "accepted", "refused"}
    /\ \E state \in PlaneStates \ {plane[r]} :
          /\ plane' = [plane EXCEPT ![r] = state]
          /\ probe' = [probe EXCEPT ![r].slow = @ \/ ~state.up, ![r].turned = TRUE]
          /\ writer' = [writer EXCEPT !.steady = IF Fit(state) THEN @ ELSE @ \ {r}]
    /\ turns' = turns + 1
    /\ UNCHANGED ended

(***************************************************************************)
(* selectWritableControlRelayUrl                                           *)
(***************************************************************************)

\* One candidate is taken as it is.
StartProbes ==
    /\ writer.at = "idle"
    /\ IF Cardinality(writer.candidates) = 1
       THEN /\ writer' = [writer EXCEPT !.at = "chosen"]
            /\ UNCHANGED probe
       ELSE /\ writer' = [writer EXCEPT !.at = "asks",
                             !.steady = {r \in writer.candidates : Fit(plane[r])}]
            /\ probe' = [r \in ControlRelays |->
                  IF r \in writer.candidates
                  THEN [at |-> "health", slow |-> ~plane[r].up, read |-> FALSE, turned |-> FALSE]
                  ELSE probe[r]]
    /\ UNCHANGED <<plane, turns, ended>>

ProbeEnds(r, place, read) ==
    /\ probe' = [probe EXCEPT ![r].at = place, ![r].read = read, ![r].turned = FALSE]
    /\ ended' = Append(ended, r)
    /\ UNCHANGED <<plane, turns, writer>>

HealthAnswers(r) ==
    /\ probe[r].at = "health" /\ plane[r].up
    /\ probe' = [probe EXCEPT ![r].at = "readiness", ![r].slow = FALSE]
    /\ UNCHANGED <<plane, turns, ended, writer>>

HealthFails(r) == probe[r].at = "health" /\ probe[r].slow /\ ProbeEnds(r, "unfit", FALSE)

\* A relay without the endpoint is ruled out.
ReadinessRequired(r) ==
    /\ probe[r].at = "readiness" /\ plane[r].up
    /\ ProbeEnds(r, IF plane[r].tells /\ plane[r].writable THEN "fit" ELSE "unfit", plane[r].tells)

\* authorityEligible: false rules a relay out, whatever the status; without an
\* endpoint, or an answer, its health is enough.
ReadinessAnswers(r) ==
    /\ probe[r].at = "readiness" /\ plane[r].up
    /\ ProbeEnds(r, IF plane[r].tells /\ ~plane[r].writable THEN "unfit" ELSE "fit", plane[r].tells)

ReadinessFails(r) == probe[r].at = "readiness" /\ probe[r].slow /\ ProbeEnds(r, "fit", FALSE)

FitOnes == {i \in DOMAIN ended : probe[ended[i]].at = "fit"}

\* Among those that are fit, the one whose probe ended first.
Take ==
    \/ FitOnes = {} /\ writer' = [writer EXCEPT !.at = "none"]
    \/ \E first \in FitOnes :
          /\ \A i \in FitOnes : first <= i
          /\ writer' = [writer EXCEPT !.at = "chosen", !.relay = ended[first]]

Select ==
    /\ writer.at = "asks"
    /\ \A r \in writer.candidates : probe[r].at \in {"fit", "unfit"}
    /\ Take
    /\ UNCHANGED <<plane, turns, probe, ended>>

\* POST /v1/validator-launch-intents
PostIntent ==
    /\ writer.at = "chosen"
    /\ writer' = [writer EXCEPT !.at = IF Fit(plane[writer.relay]) THEN "accepted" ELSE "refused"]
    /\ UNCHANGED <<plane, turns, probe, ended>>

WritableNext ==
    \/ StartProbes \/ Select \/ PostIntent
    \/ \E r \in ControlRelays :
          PlaneTurns(r) \/ HealthAnswers(r) \/ HealthFails(r) \/ ReadinessAnswers(r) \/ ReadinessFails(r)

WritableSpec == WritableInit /\ [][WritableNext]_planeVars

(***************************************************************************)
(* Properties                                                              *)
(***************************************************************************)

\* The relay that was chosen among several refuses the intent only if it could
\* not be asked for its authority, or has changed since it answered.
RefusesOnlyIfTurned ==
    writer.at = "refused" /\ Cardinality(writer.candidates) > 1 =>
        \/ probe[writer.relay].turned
        \/ probe[writer.relay].at = "fit" /\ ~probe[writer.relay].read

\* No relay is found only if none was up and writable all the time that the
\* probes took.
NoneOnlyIfNoneFit == writer.at = "none" => writer.steady = {}

\* What the probes of validator launch promise of the relay it writes to, and
\* of finding none.
WritableSafe == WritableTypeOK /\ RefusesOnlyIfTurned /\ NoneOnlyIfNoneFit
===============================================================================
