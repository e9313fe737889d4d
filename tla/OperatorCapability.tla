-------------------------- MODULE OperatorCapability --------------------------
(***************************************************************************)
(* The capability reports of an operator's gateways                        *)
(* (src/operator-capability.ts).  A gateway signs what it offers, a relay  *)
(* verifies it and keeps it until it expires, and two functions select     *)
(* from what is kept: selectOperatorCapabilityCandidate the first          *)
(* processor for a route, selectOperatorCapacityMembers all that launch    *)
(* commands choose from.  Reports arrive late and in any order, and the    *)
(* operator's profile changes.                                             *)
(*                                                                         *)
(* There is one operator, and one thing at a time is wrong with a gateway. *)
(* Prices, classes and addresses are left out.                             *)
(***************************************************************************)
EXTENDS Integers, Sequences, FiniteSets, Functions

CONSTANTS
    Capables,        \* gateways
    CapableProcs,    \* processors
    CapableManagers, \* managers of processors
    ScopeLists,      \* what reports offer
    Profiles,        \* what the operator's profile may say
    ReportLife,      \* how long a report counts
    MaxMoments,      \* bound: units of time
    MaxSigned        \* bound: reports

NoManager == "none"
Nobody == "nobody"
Throws == "throws"

\* A scope offers "procs" without "out", for a manager or for none; a report
\* lists its scopes in order.
ASSUME CapabilityConstantsOK ==
    /\ IsFiniteSet(Capables) /\ IsFiniteSet(CapableProcs)
    /\ Nobody \notin Capables /\ Throws \notin Capables
    /\ ScopeLists \subseteq Seq([manager : CapableManagers \cup {NoManager}, procs : SUBSET CapableProcs,
                                     out : SUBSET CapableProcs])
    /\ Profiles \subseteq [active : BOOLEAN, signers : SUBSET Capables,
                           gateways : SUBSET Capables, managers : SUBSET CapableManagers,
                           procs : SUBSET CapableProcs, sink : BOOLEAN, routeState : BOOLEAN]
    /\ ReportLife \in Nat \ {0} /\ MaxMoments \in Nat /\ MaxSigned \in Nat

VARIABLES
    moment,        \* the time
    profile,       \* the operator's profile
    style,         \* how each gateway signs
    mail,          \* reports on their way
    kept,          \* what the relay keeps, in the order of arrival
    spurned        \* what it refused

capabilityVars == <<moment, profile, style, mail, kept, spurned>>

\* "stale": its own discovery of processors is; "blind": it cannot poll routes;
\* "mute": it publishes no URL for them.
Conditions == {"well", "full", "stale", "blind", "mute"}

\* "url": the report carries a routeIntentUrl, as those of old gateways do;
\* "over": the signature covers it.
Styles == {s \in [scheme : {"sr25519", "eip191"}, url : BOOLEAN, over : BOOLEAN] : s.over => s.url}

ReportsMade == Cardinality(mail) + Len(kept) + Cardinality(spurned)

Reports ==
    [id : 0..(MaxSigned - 1), gateway : Capables, at : 0..moment, condition : Conditions,
     scopes : ScopeLists]

CapabilityTypeOK ==
    /\ moment \in 0..MaxMoments /\ profile \in Profiles /\ style \in [Capables -> Styles]
    /\ mail \subseteq Reports /\ kept \in Seq(Reports) /\ spurned \subseteq Reports
    /\ IsInjective(kept) /\ (mail \cup spurned) \cap Range(kept) = {} /\ mail \cap spurned = {}
    /\ ReportsMade <= MaxSigned

CapabilityInit ==
    /\ moment = 0 /\ profile \in Profiles /\ style \in [Capables -> Styles]
    /\ mail = {} /\ kept = <<>> /\ spurned = {}

(***************************************************************************)
(* Signing and verifying                                                   *)
(***************************************************************************)

\* signGatewayCapabilityReport; the bound counts the reports.
SignReport(g) ==
    /\ ReportsMade < MaxSigned
    /\ \E c \in Conditions, scopes \in ScopeLists :
          mail' = mail \cup {[id |-> ReportsMade, gateway |-> g, at |-> moment, condition |-> c,
                              scopes |-> scopes]}
    /\ UNCHANGED <<moment, profile, style, kept, spurned>>

\* verifyReportSignature of the report with or without its routeIntentUrl: with
\* other content than was signed, one scheme throws and one names another signer.
Recovered(r, withUrl) ==
    LET s == style[r.gateway] IN
    IF s.over = (withUrl /\ s.url) THEN r.gateway
    ELSE IF s.scheme = "eip191" THEN Nobody
    ELSE Throws

SignerOf(r) ==
    IF Recovered(r, FALSE) \in {Throws, Nobody} /\ style[r.gateway].url THEN Recovered(r, TRUE)
    ELSE Recovered(r, FALSE)

ReportExpired(r) == r.at + ReportLife <= moment

Verified(r) == ~ReportExpired(r) /\ SignerOf(r) = r.gateway

ReportArrives(r) ==
    /\ mail' = mail \ {r}
    /\ IF Verified(r)
       THEN kept' = Append(kept, r) /\ UNCHANGED spurned
       ELSE spurned' = spurned \cup {r} /\ UNCHANGED kept
    /\ UNCHANGED <<moment, profile, style>>

ProfileChanges(p) ==
    /\ profile # p /\ profile' = p
    /\ UNCHANGED <<moment, style, mail, kept, spurned>>

MomentPasses ==
    /\ moment < MaxMoments /\ moment' = moment + 1
    /\ UNCHANGED <<profile, style, mail, kept, spurned>>

CapabilityNext ==
    \/ MomentPasses
    \/ \E g \in Capables : SignReport(g)
    \/ \E r \in mail : ReportArrives(r)
    \/ \E p \in Profiles : ProfileChanges(p)

CapabilitySpec == CapabilityInit /\ [][CapabilityNext]_capabilityVars

(***************************************************************************)
(* Selecting                                                               *)
(***************************************************************************)

\* wanted: the processors that are asked for, one or all; urls: whether the
\* gateway must poll the state of routes; sink: whether it must take intents.
Requests == [wanted : {CapableProcs} \cup {{p} : p \in CapableProcs}, urls : BOOLEAN, sink : BOOLEAN]

\* The newest first, and of those that were made together the one that came first.
ComesFirst(i, k) == kept[i].at > kept[k].at \/ (kept[i].at = kept[k].at /\ i < k)

FirstOf(places) == kept[CHOOSE i \in places : \A k \in places \ {i} : ComesFirst(i, k)]

\* operatorProfileRouteIntentUrlForGateway and its like: only the profile of a
\* single gateway says where that one is.
SpeaksFor(g) == profile.gateways = {g}
HasSink(r) == profile.sink /\ SpeaksFor(r.gateway)
HasRouteState(r) == r.condition # "mute" \/ (profile.routeState /\ SpeaksFor(r.gateway))

AcceptsGateway(r) ==
    /\ profile.active /\ ~ReportExpired(r) /\ r.gateway \in profile.signers
    /\ profile.gateways # {} => r.gateway \in profile.gateways

\* expandedReportProcessors: a scope excludes for itself only, and the first one
\* that offers a processor says whose it is.  A report that was verified is
\* normalized: its scopes have "processors", and "includeProcessors" go unread.
Offers(scope) == scope.procs \ scope.out
Expanded(r) == UNION {Offers(r.scopes[i]) : i \in DOMAIN r.scopes}
ManagerOf(r, p) ==
    LET i == CHOOSE i \in DOMAIN r.scopes :
                p \in Offers(r.scopes[i]) /\ \A k \in 1..(i - 1) : p \notin Offers(r.scopes[k])
    IN r.scopes[i].manager

AcceptsProc(r, p, q) ==
    /\ p \in q.wanted
    /\ profile.procs # {} => p \in profile.procs
    /\ profile.managers # {} => ManagerOf(r, p) \in profile.managers \cup {NoManager}

\* The conditions of selectOperatorCapabilityCandidate.
CandidateReport(r, q) ==
    /\ AcceptsGateway(r) /\ r.condition \notin {"full", "stale"}
    /\ q.urls => HasRouteState(r) /\ r.condition # "blind"
    /\ q.sink => HasSink(r)

\* Those of selectOperatorCapacityMembers, without the one about discovery.
MemberReportUnchecked(r, q) ==
    /\ AcceptsGateway(r) /\ r.condition # "full"
    /\ q.urls => HasRouteState(r) /\ r.condition # "blind"

\* Those of selectOperatorCapacityMembers, which knows no sink.
MemberReport(r, q) ==
    /\ AcceptsGateway(r) /\ r.condition \notin {"full", "stale"}
    /\ q.urls => HasRouteState(r) /\ r.condition # "blind"

Offering(r, q) == {p \in Expanded(r) : AcceptsProc(r, p, q)}

NoCandidate == [id |-> -1]

\* Where the reports are kept from which a candidate could come.
CandidatePlaces(q) == {i \in DOMAIN kept : CandidateReport(kept[i], q) /\ Offering(kept[i], q) # {}}

\* The report of the candidate, the first that offers one.
Candidate(q) == IF CandidatePlaces(q) = {} THEN NoCandidate ELSE FirstOf(CandidatePlaces(q))

\* The reports of the members, by their places.
Members(q) == {i \in DOMAIN kept : MemberReport(kept[i], q) /\ Offering(kept[i], q) # {}}

(***************************************************************************)
(* Properties                                                              *)
(***************************************************************************)

\* The two selections do not drift apart: without a sink, a route finds a
\* processor exactly when a launch is shown one, and in the same report first.
SelectionsAgree ==
    \A q \in {s \in Requests : ~s.sink} :
        /\ Candidate(q) = NoCandidate <=> Members(q) = {}
        /\ Candidate(q) # NoCandidate => Candidate(q) = FirstOf(Members(q))

\* However late reports arrive: no route goes by an older report of a gateway
\* while a newer one that is kept, and fit, offers what was asked for.
NewestSpeaks ==
    \A q \in Requests :
        Candidate(q) # NoCandidate =>
            \A r \in Range(kept) :
                CandidateReport(r, q) /\ Offering(r, q) # {} => r.at <= Candidate(q).at

\* A report that arrives in time is never refused, also from a gateway that
\* signs as the old ones did, with either kind of key.
HonestIsKept == \A r \in spurned : ReportExpired(r)

\* What routes and launches select from, in whatever order reports arrive:
\* both the same, the newest first, and of every report that was signed in
\* time.
CapabilitySafe == CapabilityTypeOK /\ SelectionsAgree /\ NewestSpeaks /\ HonestIsKept
===============================================================================
