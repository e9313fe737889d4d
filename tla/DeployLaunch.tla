------------------------------ MODULE DeployLaunch ------------------------------
(***************************************************************************)
(* launch-demo and deploy (launchDemoCommand and deployCommand in          *)
(* cli/src/index.ts) around the deploy workflow: capacity is read from all *)
(* control relays at the same time, candidates are merged and chosen, the  *)
(* choice is read again at its source, and only then a job is paid for.    *)
(* What the job became is read from its report, and launch-demo polls the  *)
(* public endpoint before it says that the demo is ready.                  *)
(*                                                                         *)
(* Gateways publish reports; relays learn of them late and drop them.  A   *)
(* report that may not be taken for another reason (health, expiry, class) *)
(* counts as one whose routes are all taken.  One operator stands for all. *)
(* LaunchProcs and relays are numbered in the order the code sorts them.    *)
(***************************************************************************)
EXTENDS Naturals, Sequences, FiniteSets

CONSTANTS
    NumRelays,      \* control relays
    GatewayOf,      \* the gateway of each processor
    RouteCapacity,  \* routes of a gateway
    MaxPublished,     \* bound on the reports published
    Launches,       \* the flags a command may be given
    MaxProbes       \* public checks until the deadline

ASSUME LaunchOK ==
    /\ NumRelays \in Nat \ {0} /\ RouteCapacity \in Nat \ {0} /\ MaxPublished \in Nat \ {0}
    /\ MaxProbes \in Nat \ {0}
    /\ GatewayOf \in Seq(Nat)
    /\ Launches \subseteq [demo : BOOLEAN, dry : BOOLEAN, count : Nat \ {0}, pin : Nat,
                           asked : (SUBSET (1 .. NumRelays)) \ {{}}]
    \* deploy asks for one processor; a relay that the user named is asked alone
    /\ \A l \in Launches : /\ l.demo \/ l.count = 1
                           /\ l.asked = 1 .. NumRelays \/ Cardinality(l.asked) = 1

VARIABLES
    modern,     \* relays that list members; the others list reports
    live,       \* the newest report of each gateway
    advertised,     \* the report of each gateway that a relay serves
    launch,     \* the command: where it is and what was asked of it
    answer,     \* what each relay answered
    chosen,     \* the members that were chosen, in their order
    checked,    \* the sources read again
    listed,     \* history: chosen members advertised by their source since the choice
    outcome     \* the job, the report file, and what the command said

launchVars == <<modern, live, advertised, launch, answer, chosen, checked, listed, outcome>>

ControlRelays == 1 .. NumRelays
LaunchProcs == DOMAIN GatewayOf
LaunchGateways == {GatewayOf[p] : p \in LaunchProcs}
ReportIds == 1 .. MaxPublished

NoReport == [id |-> 0, load |-> 0, procs |-> {}]

CapacityReports == {NoReport} \cup
    [id : ReportIds, load : 0 .. RouteCapacity, procs : SUBSET LaunchProcs]

Candidates == [proc : LaunchProcs, id : ReportIds, load : 0 .. RouteCapacity, src : ControlRelays]

LaunchPlaces == {"read", "recheck", "preview", "project", "snapshot", "install",
                 "run", "verify", "save", "dry", "done", "failed"}

LaunchTypeOK ==
    /\ modern \subseteq ControlRelays
    /\ live \in [LaunchGateways -> CapacityReports]
    /\ advertised \in [ControlRelays -> [LaunchGateways -> CapacityReports]]
    /\ launch \in [at : LaunchPlaces, flags : Launches, probes : 0 .. MaxProbes]
    /\ answer \in [ControlRelays -> [how : {"none", "given", "failed"}, members : SUBSET Candidates]]
    /\ chosen \in Seq(Candidates) /\ Len(chosen) <= launch.flags.count
    /\ checked \subseteq ControlRelays /\ listed \subseteq Candidates
    /\ outcome \in [spent : BOOLEAN, complete : BOOLEAN, public : BOOLEAN,
                    file : {"none", "ok", "failed"}, said : {"nothing", "ready", "failed"}]

\* Every gateway has published once, and every relay knows of it.
FirstReport(g) == [id |-> 1, load |-> 1, procs |-> {p \in LaunchProcs : GatewayOf[p] = g}]

LaunchInit ==
    /\ modern \in SUBSET ControlRelays
    /\ live = [g \in LaunchGateways |-> FirstReport(g)]
    /\ advertised = [r \in ControlRelays |-> live]
    /\ launch \in [at : {"read"}, flags : Launches, probes : {0}]
    /\ answer = [r \in ControlRelays |-> [how |-> "none", members |-> {}]]
    /\ chosen = <<>> /\ checked = {} /\ listed = {}
    /\ outcome = [spent |-> FALSE, complete |-> FALSE, public |-> FALSE,
                  file |-> "none", said |-> "nothing"]

-------------------------------------------------------------------------------
\* readLaunchDemoCapacityFromRelay: one member for each processor of a report.
Listing(r) ==
    UNION {{[proc |-> p, id |-> advertised[r][g].id, load |-> advertised[r][g].load, src |-> r] :
              p \in advertised[r][g].procs} : g \in LaunchGateways}

Gw(c) == GatewayOf[c.proc]

\* Reports matter only while the command reads them.
Reading == launch.at \in {"read", "recheck"}

\* A gateway reports again: other routes, or one processor less.
PublishReport(g) ==
    \E load \in 0 .. RouteCapacity, gone \in {{}} \cup {{p} : p \in live[g].procs} :
        /\ Reading
        /\ \A h \in LaunchGateways : live[h].id < MaxPublished
        /\ live' = [live EXCEPT ![g] = [id |-> @.id + 1, load |-> load, procs |-> @.procs \ gone]]
        /\ UNCHANGED <<modern, advertised, launch, answer, chosen, checked, listed, outcome>>

\* A relay learns of a report, or stops serving one.
RelayServes(r, g) ==
    \E report \in {live[g], NoReport} \ {advertised[r][g]} :
        /\ Reading
        /\ advertised' = [advertised EXCEPT ![r][g] = report]
        /\ listed' = listed \cup {chosen[i] : i \in {j \in DOMAIN chosen :
                                     chosen[j].src = r /\ Gw(chosen[j]) = g
                                     /\ chosen[j].id = report.id /\ chosen[j].proc \in report.procs}}
        /\ UNCHANGED <<modern, live, launch, answer, chosen, checked, outcome>>

-------------------------------------------------------------------------------
LaunchGoes(at) == launch' = [launch EXCEPT !.at = at]

LaunchRefuses ==
    /\ LaunchGoes("failed")
    /\ outcome' = [outcome EXCEPT !.said = "failed"]

\* readLaunchDemoCapacity: all relays at the same time.
RelayAnswers(r, works) ==
    /\ launch.at = "read"
    /\ r \in launch.flags.asked /\ answer[r].how = "none"
    /\ answer' = [answer EXCEPT ![r] = IF works THEN [how |-> "given", members |-> Listing(r)]
                                       ELSE [how |-> "failed", members |-> {}]]
    /\ UNCHANGED <<modern, live, advertised, launch, chosen, checked, listed, outcome>>

Successful == {r \in launch.flags.asked : answer[r].how = "given"}

\* newestLaunchDemoReportsByGateway: of relays with the same report the first one.
NewestReports ==
    LET all == UNION {answer[r].members : r \in Successful}
    IN  {c \in all : \A d \in all : Gw(d) = Gw(c) => d.id < c.id \/ (d.id = c.id /\ c.src <= d.src)}

\* One relay that lists members is enough: those that list reports do not count.
\* A member is told apart by its processor, its report and its source.
Capacity ==
    IF Successful \cap modern # {}
      THEN UNION {answer[r].members : r \in Successful \cap modern}
      ELSE NewestReports

Eligible ==
    {c \in Capacity : c.load < RouteCapacity /\ (launch.flags.pin = 0 \/ c.proc = launch.flags.pin)}

\* compareLaunchDemoMembers
SortsBefore(c, d) ==
    \/ c.load < d.load
    \/ c.load = d.load /\ c.proc < d.proc
    \/ c.load = d.load /\ c.proc = d.proc /\ c.src < d.src

\* The best candidate of each gateway.
FirstOfGateways(cands) ==
    {c \in cands : \A d \in cands : Gw(d) = Gw(c) /\ d # c => SortsBefore(c, d)}

\* Candidates in the order in which they are tried, when some are tried first.
Precedes(c, d, firsts) ==
    \/ c \in firsts /\ d \notin firsts
    \/ (c \in firsts <=> d \in firsts) /\ SortsBefore(c, d)

\* The candidates that are taken when they are tried so: as many as were asked for, and
\* whatever is left out comes after each of them.
TakenInOrder(cands, firsts) ==
    {s \in [1 .. launch.flags.count -> cands] :
        /\ \A i, j \in DOMAIN s : i < j => Precedes(s[i], s[j], firsts)
        /\ \A c \in cands : (\A i \in DOMAIN s : s[i] # c) =>
                              \A i \in DOMAIN s : Precedes(s[i], c, firsts)}

\* The best ones are taken, from whatever gateways they are.
PoolOfBest(cands) == TakenInOrder(cands, {})

\* selectLaunchDemoMembers: first one of each gateway, then whatever is left.  The
\* order is total, so one sequence at most is taken so; with enough candidates there is one.
Pool(cands) == TakenInOrder(cands, FirstOfGateways(cands))

\* selectLaunchDemoCapacity and selectDeployCapacity, when all have answered.
SelectMembers ==
    /\ launch.at = "read"
    /\ \A r \in launch.flags.asked : answer[r].how # "none"
    /\ IF \/ Cardinality(Eligible) < launch.flags.count
          \/ launch.flags.count > 1 /\ Cardinality({Gw(c) : c \in Eligible}) < 2
         THEN LaunchRefuses /\ UNCHANGED <<chosen, listed>>
         ELSE /\ LaunchGoes("recheck")
              /\ \E pool \in Pool(Eligible) : chosen' = pool
              /\ listed' = {c \in {chosen'[i] : i \in DOMAIN chosen'} : c \in Listing(c.src)}
              /\ UNCHANGED outcome
    /\ UNCHANGED <<modern, live, advertised, answer, checked>>

SourceRelays == {chosen[i].src : i \in DOMAIN chosen}

\* assertSelectedCapacityStillAdvertised: each source is read again.  Its routes
\* may all be taken by now: only the report and the processor are looked for.
Recheck(r, works) ==
    /\ launch.at = "recheck"
    /\ r \in SourceRelays \ checked
    /\ IF works /\ \A i \in DOMAIN chosen : chosen[i].src = r => chosen[i] \in Listing(r)
         THEN /\ checked' = checked \cup {r}
              /\ LaunchGoes(IF SourceRelays \subseteq checked' THEN
                              (IF launch.flags.demo THEN "preview" ELSE "snapshot") ELSE "recheck")
              /\ UNCHANGED outcome
         ELSE LaunchRefuses /\ UNCHANGED checked
    /\ UNCHANGED <<modern, live, advertised, answer, chosen, listed>>

\* The quote preview, the demo's project, its package: what fails spends nothing.
\* A dry run goes on without a preview and with any package.
Prepare(works) ==
    /\ \/ /\ launch.at = "preview"
          /\ IF works \/ launch.flags.dry THEN LaunchGoes("project") /\ UNCHANGED outcome ELSE LaunchRefuses
       \/ /\ launch.at = "project"
          /\ IF works \/ launch.flags.dry THEN LaunchGoes("snapshot") /\ UNCHANGED outcome ELSE LaunchRefuses
       \/ /\ launch.at = "install"
          /\ IF works THEN LaunchGoes("run") /\ UNCHANGED outcome ELSE LaunchRefuses
    /\ UNCHANGED <<modern, live, advertised, answer, chosen, checked, listed>>

\* workflow.advanceOnce records the choice; a dry run ends here.
RecordChoice ==
    /\ launch.at = "snapshot"
    /\ LaunchGoes(IF launch.flags.dry THEN "dry" ELSE IF launch.flags.demo THEN "install" ELSE "run")
    /\ UNCHANGED <<modern, live, advertised, answer, chosen, checked, listed, outcome>>

\* The runner.  The submission writes the report: ok or failed.  The workflow then
\* completes, stops short (it failed, or waits for somebody), or the polling
\* gives up and throws; none of this changes the ok of the report.
RunWorkflow(file, end) ==
    /\ launch.at = "run"
    /\ file = "failed" => end = "short"
    /\ outcome' = [outcome EXCEPT !.spent = TRUE, !.file = file, !.complete = (end = "complete"),
                                  !.said = IF end = "throws" THEN "failed" ELSE @]
    /\ LaunchGoes(IF end = "throws" THEN "failed"
                  ELSE IF launch.flags.demo /\ file = "ok" THEN "verify" ELSE "save")
    /\ UNCHANGED <<modern, live, advertised, answer, chosen, checked, listed>>

-------------------------------------------------------------------------------
\* pollDeploymentPublicReadiness: the checks are repeated until they are ok or the
\* deadline has passed.  Only a completed workflow gave the report a hostname.
PublicCheck(works) ==
    /\ launch.at = "verify"
    /\ outcome.complete /\ launch.probes < MaxProbes
    /\ launch' = [launch EXCEPT !.probes = @ + 1, !.at = IF works THEN "save" ELSE "verify"]
    /\ outcome' = [outcome EXCEPT !.public = works]
    /\ UNCHANGED <<modern, live, advertised, answer, chosen, checked, listed>>

\* failLaunchDemoPublicReadiness
NotReady ==
    /\ launch.at = "verify"
    /\ ~outcome.complete \/ launch.probes > 0
    /\ LaunchGoes("save")
    /\ outcome' = [outcome EXCEPT !.file = "failed"]
    /\ UNCHANGED <<modern, live, advertised, answer, chosen, checked, listed>>

\* saveProjectDeployment, then the last words.  deploy says the same for every
\* report.
SaveAndSay ==
    /\ launch.at = "save"
    /\ LaunchGoes("done")
    /\ outcome' = [outcome EXCEPT !.said = IF launch.flags.demo /\ outcome.file # "ok" THEN "failed"
                                           ELSE "ready"]
    /\ UNCHANGED <<modern, live, advertised, answer, chosen, checked, listed>>

LaunchNext ==
    \/ \E g \in LaunchGateways : PublishReport(g)
    \/ \E r \in ControlRelays, g \in LaunchGateways : RelayServes(r, g)
    \/ \E r \in ControlRelays, works \in BOOLEAN : RelayAnswers(r, works) \/ Recheck(r, works)
    \/ SelectMembers
    \/ \E works \in BOOLEAN : Prepare(works) \/ PublicCheck(works)
    \/ RecordChoice
    \/ \E file \in {"ok", "failed"}, end \in {"complete", "short", "throws"} : RunWorkflow(file, end)
    \/ NotReady \/ SaveAndSay

LaunchSpec == LaunchInit /\ [][LaunchNext]_launchVars

-------------------------------------------------------------------------------
\* A group leaves no gateway out that could have taken one of its members: it lies
\* on as many gateways as there were, whatever their routes.
GroupIsSpread ==
    launch.flags.count > 1 /\ chosen # <<>> =>
        LET taken == {Gw(chosen[i]) : i \in DOMAIN chosen}
            others == {Gw(c) : c \in Eligible} \ taken
        IN  others = {} \/ Cardinality(taken) = launch.flags.count

\* No job is paid for whose members were gone when they were chosen, from answers
\* that came long before: each one was advertised by its source after the choice.
SpendsOnListed ==
    outcome.spent => \A i \in DOMAIN chosen : chosen[i] \in listed

\* What one relay lists, or reports that are merged, never gives the same processor
\* twice to a group.
OneRelayIsDistinct ==
    Cardinality(launch.flags.asked) = 1 \/ Successful \cap modern = {} =>
        \A i, j \in DOMAIN chosen : chosen[i].proc = chosen[j].proc => i = j

\* "Demo ready" (index.ts:10463): the workflow completed, the report says ok, and
\* the last public check passed.
DemoReadyIsReady ==
    launch.flags.demo /\ outcome.said = "ready" =>
        outcome.complete /\ outcome.public /\ outcome.file = "ok"

\* "Deployment ready" (index.ts:10463): a command that says so has a report that
\* is ok.
ReadyMeansOk == outcome.said = "ready" => outcome.file = "ok"

\* What a launch takes from the capacity it was shown, and what launch-demo
\* calls ready.
LaunchSafe ==
    /\ LaunchTypeOK
    /\ GroupIsSpread
    /\ SpendsOnListed
    /\ OneRelayIsDistinct
    /\ DemoReadyIsReady
===============================================================================
