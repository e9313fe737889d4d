---------------------------- MODULE RelayReadiness ----------------------------
(***************************************************************************)
(* Waiting for a relay to be ready, watching it, and verifying it          *)
(* (cli/src/relay/readiness.ts, watch.ts, verify.ts, status.ts).  One      *)
(* attempt asks three endpoints at once; each answers as it is when the    *)
(* answer is sent, or not before the timeout.  Meanwhile the relay comes   *)
(* and goes.                                                               *)
(*                                                                         *)
(* Timers fire on time.  Of several relays that are watched in turn, this  *)
(* is the only one.                                                        *)
(***************************************************************************)
EXTENDS Integers

CONSTANTS
    Peers,        \* the other relays of the state file that count as peers
    Timeout,      \* of a request
    Interval,     \* between two attempts
    PollTimeout,
    StartAt,      \* when a deploy says that the relay starts, and the grace
    MaxToggles,   \* bound: how often the relay comes and goes
    MaxMoment     \* bound: the time

ASSUME ReadinessOK == /\ {StartAt, MaxToggles, MaxMoment} \subseteq Nat
                      /\ {Timeout, Interval, PollTimeout} \subseteq Nat \ {0}

VARIABLES
    moment,    \* the time
    up,        \* what answers, of the endpoints and of the peers' /health
    since,     \* history: when that last changed for the endpoints
    toggles,   \* how often it changed
    probe,     \* the command
    wasUp      \* history: what was up since the attempt began, or the verification

readyVars == <<moment, up, since, toggles, probe, wasUp>>

Probed == {"health", "relay-status", "service-catalogs"}
Things == Probed \cup Peers
Kinds == {"poll", "watch", "verify"}
ProbePlaces == {"asleep", "live", "asking", "peers", "ready", "failed"}
Commands == [kind : Kinds, place : ProbePlaces, wake : Nat, began : Nat, deadline : Nat,
             answers : [Probed -> {"none", "ok", "bad"}], left : SUBSET Peers,
             well : BOOLEAN, said : {"nothing", "ok", "fail"}]
NoAnswers == [e \in Probed |-> "none"]

\* "well" is that every check of a verification was passed so far.
ReadinessTypeOK ==
    /\ moment \in 0..MaxMoment
    /\ up \subseteq Things
    /\ since \in 0..MaxMoment
    /\ toggles \in 0..MaxToggles
    /\ probe \in Commands
    /\ wasUp \subseteq Things
    /\ probe.place = "asleep" => moment <= probe.wake

\* A poll waits for the scheduled start, if one was given.
ReadinessInit ==
    /\ moment = 0
    /\ up \in {{}, Things}
    /\ since = 0
    /\ toggles = 0
    /\ wasUp = up
    /\ \E kind \in Kinds, wait \in {0, StartAt} :
          /\ kind # "poll" => wait = 0
          /\ probe = [kind |-> kind, place |-> IF kind = "verify" THEN "live" ELSE "asleep",
                      wake |-> wait, began |-> 0, deadline |-> wait + PollTimeout,
                      answers |-> NoAnswers, left |-> Peers, well |-> TRUE, said |-> "nothing"]

Over == probe.place \in {"ready", "failed"}
Asked == {e \in Probed : probe.answers[e] = "none"}

(***************************************************************************)
(* The relay and the time                                                  *)
(***************************************************************************)

Toggle ==
    /\ ~Over /\ toggles < MaxToggles
    /\ \E t \in Things : up' = (up \ {t}) \cup ({t} \ up)
    /\ since' = IF up' \cap Probed = up \cap Probed THEN since ELSE moment
    /\ wasUp' = wasUp \cup up'
    /\ toggles' = toggles + 1
    /\ UNCHANGED <<moment, probe>>

\* Not past a timer.
Elapse ==
    /\ ~Over /\ moment < MaxMoment
    /\ probe.place = "asleep" => moment < probe.wake
    /\ probe.place = "asking" => Asked # {} /\ moment < probe.began + Timeout
    /\ moment' = moment + 1
    /\ UNCHANGED <<up, since, toggles, probe, wasUp>>

ProbeMoves(next) ==
    /\ probe' = next
    /\ UNCHANGED <<moment, up, since, toggles>>

(***************************************************************************)
(* An attempt                                                              *)
(***************************************************************************)

\* probeRelay asks for all three.
Asks(next) ==
    [next EXCEPT !.place = "asking", !.began = moment, !.answers = NoAnswers]

Wakes ==
    /\ probe.place = "asleep" /\ moment = probe.wake
    /\ wasUp' = up
    /\ ProbeMoves(Asks(probe))

EndpointAnswers ==
    /\ probe.place = "asking"
    /\ \E e \in Asked :
          ProbeMoves([probe EXCEPT !.answers[e] = IF e \in up THEN "ok" ELSE "bad"])
    /\ UNCHANGED wasUp

\* The controller aborts what has not answered.
AbortFires ==
    /\ probe.place = "asking"
    /\ moment = probe.began + Timeout
    /\ \E e \in Asked \ up : ProbeMoves([probe EXCEPT !.answers[e] = "bad"])
    /\ UNCHANGED wasUp

AllOk == \A e \in Probed : probe.answers[e] = "ok"

Least(a, b) == IF a < b THEN a ELSE b

\* No attempt that would not end in time.
PollsInTime ==
    IF AllOk THEN [probe EXCEPT !.place = "ready"]
    ELSE IF moment + Interval + Timeout > probe.deadline THEN [probe EXCEPT !.place = "failed"]
    ELSE [probe EXCEPT !.place = "asleep", !.wake = moment + Interval]

\* pollRelayReadiness: the last attempt is made at the deadline.
Polls ==
    IF AllOk THEN [probe EXCEPT !.place = "ready"]
    ELSE IF moment >= probe.deadline THEN [probe EXCEPT !.place = "failed"]
    ELSE [probe EXCEPT !.place = "asleep", !.wake = Least(moment + Interval, probe.deadline)]

\* runRelayWatch: a line when the state is another.
Watches ==
    [probe EXCEPT !.place = "asleep", !.wake = moment + Interval,
                  !.said = IF AllOk THEN "ok" ELSE "fail"]

AttemptEnds ==
    /\ probe.place = "asking" /\ Asked = {}
    /\ ProbeMoves(CASE probe.kind = "poll" -> Polls
                    [] probe.kind = "watch" -> Watches
                    [] OTHER -> [probe EXCEPT !.well = @ /\ AllOk, !.place = "peers"])
    /\ UNCHANGED wasUp

(***************************************************************************)
(* Verification                                                            *)
(***************************************************************************)

\* The published catalog lists the relay with the same url, or it does not, or
\* cannot be read; the rest is checked all the same.
LooksLive ==
    /\ probe.place = "live"
    /\ \E listed \in BOOLEAN : ProbeMoves(Asks([probe EXCEPT !.well = listed]))
    /\ UNCHANGED wasUp

\* A peer that answers with an error is there.
AnyAnswer(p) == TRUE

\* checkPeerReachability: response.ok
PeerAnswers(p) == p \in up

PeerIsAsked ==
    /\ probe.place = "peers"
    /\ \E p \in probe.left :
          ProbeMoves([probe EXCEPT !.left = @ \ {p}, !.well = @ /\ PeerAnswers(p)])
    /\ UNCHANGED wasUp

\* A relay that reports another id than the one asked for has failed; one that
\* reports none has not.
Verdict ==
    /\ probe.place = "peers" /\ probe.left = {}
    /\ \E own \in BOOLEAN :
          ProbeMoves([probe EXCEPT !.place = IF probe.well /\ own THEN "ready" ELSE "failed"])
    /\ UNCHANGED wasUp

ReadinessNext ==
    \/ Toggle \/ Elapse \/ Wakes \/ EndpointAnswers \/ AbortFires \/ AttemptEnds
    \/ LooksLive \/ PeerIsAsked \/ Verdict

ReadinessSpec == ReadinessInit /\ [][ReadinessNext]_readyVars

(***************************************************************************)
(* Properties                                                              *)
(***************************************************************************)

\* A relay is called ready, or verified, only when each of the endpoints, and
\* for a verification each of the peers, was up in the attempt that says so:
\* it is not pieced together of the answers of different attempts.
ReadyWasUp ==
    probe.place = "ready" =>
        (IF probe.kind = "verify" THEN Things ELSE Probed) \subseteq wasUp

\* A deploy is not given up for a relay that was up, and stayed up, since one
\* request's timeout before the deadline ("did not become ready within",
\* readiness.ts:114).
NoFalseAlarm ==
    probe.place = "failed" /\ probe.kind = "poll" =>
        ~ (Probed \subseteq up /\ since < probe.deadline - Timeout)

\* What the watch said last is how it is, once it has been so for an interval
\* and the time of two attempts: no outage of that length goes unsaid.
WatchNotices ==
    probe.kind = "watch" /\ moment - since > Interval + 2 * Timeout =>
        probe.said = IF Probed \subseteq up THEN "ok" ELSE "fail"

\* The three ways of waiting for a relay tell what is so: ready if it was up,
\* an alarm only if it was down, and a change within the interval.
ReadinessSafe == ReadinessTypeOK /\ ReadyWasUp /\ NoFalseAlarm /\ WatchNotices
===============================================================================
