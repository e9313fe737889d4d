----------------------------- MODULE DeployChecks -----------------------------
(***************************************************************************)
(* How a deployment is looked at after the deploy (cli/src/index.ts):      *)
(* `deployment-status` and `deploy doctor`.  Each makes one reading after  *)
(* the other of the registry, the relay and the endpoint, any of which     *)
(* moves meanwhile, and sums them up in one verdict at the end.            *)
(*                                                                         *)
(* The registry, the relay and the endpoint are modelled from the fields   *)
(* the commands read.  The texts of the output, and the identifiers, of    *)
(* which the doctor takes the first it finds, are left out.                *)
(***************************************************************************)
EXTENDS Naturals, FiniteSets

CONSTANT Horizon   \* bound: the clock

ASSUME HorizonOK == Horizon \in Nat \ {0}

VARIABLES
    clock,      \* the time
    hub,        \* the session in the registry
    route,      \* the intent's route at the relay
    dns,        \* the intent's DNS record at the relay
    cap,        \* until when the operator's last capability report is valid
    endpoint,   \* what answers at the hostname
    job,        \* what the run directory says
    look,       \* the command
    saw,        \* what it has read
    was         \* history: what was so at some time

checkVars == <<clock, hub, route, dns, cap, endpoint, job, look, saw, was>>

\* A time that is not said is 0.
Times == 0..Horizon
Probes == {"network", "challenge", "page"}   \* dns and tls, health and challenge, status and page
Hubs == [funded : BOOLEAN, registered : BOOLEAN, expires : Times]
Routes == [status : {"absent", "unsaid", "pending", "active"}, expires : Times]
Jobs == [end : Times, window : Times, active : BOOLEAN]
DnsStatuses == {"unsaid", "pending", "propagated", "failed"}

Unread == [hub |-> [funded |-> FALSE, registered |-> FALSE, expires |-> 0],
           route |-> [status |-> "absent", expires |-> 0], dns |-> "unsaid",
           funded |-> FALSE, available |-> TRUE, cap |-> 0, denied |-> FALSE,
           listed |-> FALSE, late |-> FALSE, passed |-> {}, left |-> {},
           secure |-> FALSE, tlsOk |-> FALSE, sshOk |-> FALSE]

\* What deployment-status recommends, and what the doctor calls the first thing
\* that is wrong, in the order in which they look.
Advices == <<"fund", "register", "lease_expired", "schedule_ended", "schedule_short",
             "route_inactive", "hostname", "dns", "validation", "public">>

Names == <<"late_funding_window", "capability_token_unauthorized",
           "stale_or_missing_capability", "upstream_public_egress", "funding_required",
           "runtime_not_claimed", "route_missing", "tls_probe_failed",
           "ssh_banner_missing", "needs_attention">>

Verdicts == {"nothing", "no_action", "healthy"} \cup
            {Advices[i] : i \in 1..10} \cup {Names[i] : i \in 1..10}

CheckTypeOK ==
    /\ clock \in Times
    /\ hub \in Hubs
    /\ route \in Routes
    /\ dns \in DnsStatuses
    /\ cap \in Times
    /\ endpoint \in {"down", "tls", "banner"}
    /\ job \in Jobs
    /\ look \in [kind : {"status", "doctor"}, hostname : BOOLEAN, probe : BOOLEAN,
                 place : {"begin", "hub", "intent", "probing", "sum", "observe", "capability",
                          "routeState", "sshProbe", "classify", "done", "error"},
                 ok : BOOLEAN, told : Verdicts, begun : Times]
    /\ saw.passed \subseteq Probes /\ saw.left \subseteq Probes
    /\ was \subseteq {"active", "banner"}

Nothing == [end |-> 0, window |-> 0, active |-> FALSE]

\* What the run directory says of the rest is chosen where it is looked at.
CheckInit ==
    /\ clock = 0
    /\ saw = Unread
    /\ endpoint = "down"
    /\ look \in [kind : {"status", "doctor"}, hostname : BOOLEAN, probe : BOOLEAN,
                 place : {"begin"}, ok : {FALSE}, told : {"nothing"}, begun : {0}]
    /\ job \in {[Nothing EXCEPT !.window = w] : w \in {0, 1}}
    /\ hub \in Hubs
    /\ route \in Routes
    /\ dns \in {"unsaid", "pending"}
    /\ dns = "pending" => look.hostname
    /\ cap \in Times
    /\ hub.registered \/ hub.expires > 0 => hub.funded
    /\ was = {w \in {"active"} : route.status = "active"}
    /\ look.kind = "status" =>
          /\ hub.expires # 1 /\ route.expires # 1 /\ cap = Horizon
          /\ job.window = 0 /\ ~look.probe
    /\ look.kind = "doctor" =>
          /\ ~hub.registered /\ hub.expires = 0 /\ dns = "unsaid" /\ cap < 2
          /\ route.expires = 0 /\ route.status \in {"absent", "active"}
          /\ look.hostname

(***************************************************************************)
(* The world                                                               *)
(***************************************************************************)

Tick ==
    /\ clock < Horizon
    /\ clock' = clock + 1
    /\ UNCHANGED <<hub, route, dns, cap, endpoint, job, look, saw, was>>

\* The session is paid for a lease, or registered.
HubMoves ==
    /\ \/ ~hub.funded /\ clock < Horizon /\ hub' = [hub EXCEPT !.funded = TRUE, !.expires = Horizon]
       \/ hub.funded /\ hub' = [hub EXCEPT !.registered = TRUE]
    /\ UNCHANGED <<clock, route, dns, cap, endpoint, job, look, saw, was>>

RelayMoves ==
    /\ \E s \in {"pending", "active"} : route' = [route EXCEPT !.status = s]
    /\ was' = IF route'.status = "active" THEN was \cup {"active"} ELSE was
    /\ UNCHANGED <<clock, hub, dns, cap, endpoint, job, look, saw>>

DnsMoves ==
    /\ dns # "unsaid"
    /\ dns' \in {"propagated", "failed"} \ {dns}
    /\ UNCHANGED <<clock, hub, route, cap, endpoint, job, look, saw, was>>

\* The operator reports again.
CapMoves ==
    /\ cap # Horizon
    /\ cap' = Horizon
    /\ UNCHANGED <<clock, hub, route, dns, endpoint, job, look, saw, was>>

EndpointMoves ==
    /\ endpoint' \in {"down", "tls", "banner"} \ {endpoint}
    /\ look.kind = "status" => endpoint' # "tls"
    /\ was' = IF endpoint' = "banner" THEN was \cup {"banner"} ELSE was
    /\ UNCHANGED <<clock, hub, route, dns, cap, job, look, saw>>

LookAt(kind, place) == look.kind = kind /\ look.place = place

\* What nobody is going to look at need not move.
CheckWorld ==
    \/ (look.place \in {"hub", "observe", "sum"} \/ LookAt("doctor", "begin")) /\ Tick
    \/ look.place \in {"hub", "intent"} /\ (HubMoves \/ RelayMoves \/ DnsMoves)
    \/ look.place \in {"observe", "capability", "routeState"} /\ (RelayMoves \/ CapMoves)
    \/ look.place = "observe" /\ HubMoves
    \/ look.place \in {"probing", "sshProbe"} /\ EndpointMoves

(***************************************************************************)
(* deployment-status                                                       *)
(***************************************************************************)

worldVars == <<clock, hub, route, dns, cap, endpoint, job, was>>

Moves(place) == look' = [look EXCEPT !.place = place] /\ UNCHANGED worldVars

\* The time is noted; the doctor takes it for that of the operator's report.
Begin ==
    /\ look.place = "begin"
    /\ look' = [look EXCEPT !.begun = clock,
                            !.place = IF look.kind = "status" THEN "hub" ELSE "observe"]
    /\ UNCHANGED <<worldVars, saw>>

\* Files that cannot be read, the RPC, and a chain that is not the expected one.
Throws ==
    /\ look.place \in {"begin", "hub"}
    /\ Moves("error")
    /\ UNCHANGED saw

ReadHub ==
    /\ LookAt("status", "hub")
    /\ saw' = [saw EXCEPT !.hub = hub]
    /\ Moves("intent")

\* No token, no relay and a failed request are answered by no route.
ReadIntent ==
    /\ LookAt("status", "intent")
    /\ \/ saw' = [saw EXCEPT !.route = route, !.dns = dns, !.left = Probes]
       \/ saw' = [saw EXCEPT !.left = Probes]
    /\ Moves(IF look.hostname /\ saw'.dns \in {"unsaid", "propagated"} THEN "probing" ELSE "sum")

\* The probes run beside each other; each ends by its answer or its timer.
Probe(p) ==
    /\ LookAt("status", "probing")
    /\ p \in saw.left
    /\ \/ endpoint # "down" /\ saw' = [saw EXCEPT !.left = @ \ {p}, !.passed = @ \cup {p}]
       \/ saw' = [saw EXCEPT !.left = @ \ {p}]
    /\ Moves(IF saw'.left = {} THEN "sum" ELSE "probing")

\* validateSwitchboardRoute, in the mode route_open.
Validated == {"network", "challenge"} \subseteq saw.passed

\* deploymentPublicChecksOk.
PublicOk == {"challenge", "page"} \subseteq saw.passed

RouteActive(r, now) ==
    /\ r.status # "absent"
    /\ IF r.expires > 0 THEN r.expires > now /\ r.status \in {"unsaid", "active"}
                        ELSE r.status = "active"

Ended(time, now) == time > 0 /\ time <= now

\* The run directory, which does not change, is read.
ChooseJob ==
    /\ job' \in {j \in Jobs : j.window = job.window}
    /\ look.kind = "status" => ~job'.active
    /\ look.kind = "doctor" => job'.end = 0

\* The schedule is known and ends no later than what it has to outlive.
Short(expires) == job'.end > 0 /\ expires > 0 /\ job'.end <= expires

LifecycleOk(now) ==
    /\ ~Ended(saw.hub.expires, now)
    /\ ~Ended(job'.end, now)
    /\ ~Short(saw.hub.expires) /\ ~Short(saw.route.expires)

StatusOk(now) ==
    /\ saw.hub.funded /\ saw.hub.registered
    /\ RouteActive(saw.route, now)
    /\ Validated /\ PublicOk
    /\ LifecycleOk(now)

\* The first thing that is wrong, in the order in which things come about.
Recommendation(now) ==
    LET wrong == <<~saw.hub.funded, ~saw.hub.registered, Ended(saw.hub.expires, now),
                   Ended(job'.end, now), Short(saw.hub.expires) \/ Short(saw.route.expires),
                   ~RouteActive(saw.route, now), ~look.hostname,
                   saw.dns \notin {"unsaid", "propagated"}, ~Validated, ~PublicOk>>
        found == {i \in DOMAIN wrong : wrong[i]}
    IN IF found = {} THEN "no_action"
       ELSE Advices[CHOOSE i \in found : \A j \in found : i <= j]

SumsAt(now) ==
    /\ LookAt("status", "sum")
    /\ ChooseJob
    /\ look' = [look EXCEPT !.place = "done", !.ok = StatusOk(now), !.told = Recommendation(now)]
    /\ UNCHANGED <<clock, hub, route, dns, cap, endpoint, was, saw>>

\* The time is taken before the readings.
SumAtBegin == SumsAt(look.begun)

\* The time is taken after the last reading.
Sum == SumsAt(clock)

(***************************************************************************)
(* deploy doctor                                                           *)
(***************************************************************************)

\* The observability of the intent: its route, the funding and the operator's
\* report.  If it cannot be read the local files are what there is.  The start
\* window is compared with the time now.
Observe ==
    /\ LookAt("doctor", "observe")
    /\ \E read \in BOOLEAN :
          saw' = [saw EXCEPT !.route = IF read THEN route ELSE @,
                             !.funded = read /\ hub.funded,
                             !.available = read => cap > clock,
                             !.cap = IF read THEN cap ELSE 0,
                             !.late = clock > job.window]
    /\ Moves("capability")

\* The reports are read again; they count where the intent named none.
ReadCapability ==
    /\ LookAt("doctor", "capability")
    /\ \/ saw' = [saw EXCEPT !.denied = TRUE]
       \/ saw' = [saw EXCEPT !.cap = IF @ = 0 THEN cap ELSE @]
       \/ UNCHANGED saw
    /\ Moves("routeState")

\* What the gateway serves, if there is a token for it.
ReadRouteState ==
    /\ LookAt("doctor", "routeState")
    /\ \/ saw' = [saw EXCEPT !.listed = (route.status = "active")]
       \/ UNCHANGED saw
    /\ Moves(IF look.probe THEN "sshProbe" ELSE "classify")

\* probeSshOverTls: the first of the events ends it.
SecureConnect ==
    /\ LookAt("doctor", "sshProbe")
    /\ ~saw.secure
    /\ endpoint # "down"
    /\ saw' = [saw EXCEPT !.secure = TRUE]
    /\ Moves("sshProbe")

Banner ==
    /\ LookAt("doctor", "sshProbe")
    /\ saw.secure
    /\ endpoint = "banner"
    /\ saw' = [saw EXCEPT !.tlsOk = TRUE, !.sshOk = TRUE]
    /\ Moves("classify")

\* Other bytes, an end of the stream, an error.
SocketFails ==
    /\ LookAt("doctor", "sshProbe")
    /\ saw' = [saw EXCEPT !.tlsOk = saw.secure]
    /\ Moves("classify")

\* The timer is for the connection only.
TimerUntilSecure ==
    /\ LookAt("doctor", "sshProbe")
    /\ ~saw.secure
    /\ UNCHANGED saw
    /\ Moves("classify")

ProbeTimer ==
    /\ LookAt("doctor", "sshProbe")
    /\ saw' = [saw EXCEPT !.tlsOk = saw.secure]
    /\ Moves("classify")

DoctorRouteActive == job'.active \/ saw.route.status = "active" \/ saw.listed

\* lateFundingWarningFromSummary, and nothing has been paid yet.
LateToFund(paid) == saw.late /\ ~paid

\* What is wrong, in the order in which the doctor looks, when the session was
\* paid or not, the snapshot is in this phase, and the runtime's upstream may be
\* a public address.
Symptoms(paid, phase, egress) ==
    <<LateToFund(paid),
      saw.denied,
      Ended(saw.cap, look.begun) \/ ~saw.available,
      egress,
      ~paid /\ phase = "quote",
      ~paid /\ phase # "claimed",
      paid /\ ~DoctorRouteActive,
      look.probe /\ ~saw.tlsOk,
      look.probe /\ ~saw.sshOk,
      ~DoctorRouteActive>>

Classified(symptoms) ==
    LET found == {i \in DOMAIN symptoms : symptoms[i]} IN
    IF found = {} THEN "healthy"
    ELSE Names[CHOOSE i \in found : \A j \in found : i <= j]

Concludes(told) ==
    look' = [look EXCEPT !.place = "done", !.ok = (told = "healthy"), !.told = told]

Classify ==
    /\ LookAt("doctor", "classify")
    /\ ChooseJob
    /\ \E told \in {Classified(Symptoms(paid \/ saw.funded, phase, egress)) :
                       paid \in BOOLEAN, phase \in {"quote", "claimed", "other"}, egress \in BOOLEAN} :
          Concludes(told)
    /\ saw' = Unread   \* it is over
    /\ UNCHANGED <<clock, hub, route, dns, cap, endpoint, was>>

StatusStep == ReadHub \/ ReadIntent \/ (\E p \in Probes : Probe(p)) \/ Sum

DoctorStep ==
    \/ Observe \/ ReadCapability \/ ReadRouteState
    \/ SecureConnect \/ Banner \/ SocketFails \/ ProbeTimer \/ Classify

CheckNext == CheckWorld \/ Begin \/ Throws \/ StatusStep \/ DoctorStep

CheckSpec == CheckInit /\ [][CheckNext]_checkVars

(***************************************************************************)
(* Properties                                                              *)
(***************************************************************************)

\* The verdict and the advice, which are two lists of the same ten facts, agree:
\* a deployment is ok when nothing is recommended, and only then (index.ts:9405
\* and deploymentStatusRecommendation).
RecommendsUnlessOk ==
    LookAt("status", "done") => (look.ok <=> look.told = "no_action")

\* When a deployment is called ok, its session is registered and not over, and
\* neither is its route or the job's schedule, by the clock of that moment: the
\* probes before it may have taken any time (nowSeconds, index.ts:9390).
OkIsNotOver ==
    [][LookAt("status", "sum") /\ look'.ok =>
          /\ hub.funded /\ hub.registered
          /\ ~Ended(hub.expires, clock) /\ ~Ended(job'.end, clock)
          /\ ~Ended(saw.route.expires, clock)]_checkVars

\* A deployment is not called ok or healthy without it ever having been so: the
\* route was active, by the relay or the run directory, and the endpoint answered,
\* as whoever asked understands it, if it was probed.
OkWasSo ==
    look.ok =>
        /\ "active" \in was \/ (look.kind = "doctor" /\ job.active) \/ saw.route.status = "unsaid"
        /\ look.kind = "status" \/ look.probe => "banner" \in was

\* Whoever is told to resume, which pays the quote, began to look before the
\* start window was over: the window goes before all other advice
\* (classifyDeployDoctor).
NoAdviceToFundLate ==
    look.told = "funding_required" => look.begun <= job.window

\* The probes end, by their timers if by nothing else.
ProbesSettle ==
    look.place \in {"probing", "sshProbe"} ~> look.place \notin {"probing", "sshProbe"}

\* What deployment-status and deploy doctor make of a deployment that moves
\* while they look.
ChecksSafe == [](CheckTypeOK /\ RecommendsUnlessOk /\ OkWasSo /\ NoAdviceToFundLate) /\ OkIsNotOver
===============================================================================
