--------------------------- MODULE GatewayDiscovery ---------------------------
(***************************************************************************)
(* gateway discover (scripts/operator/discover.ts): sweeps over the        *)
(* processors of a manager.  A sweep loads the state file, picks the next  *)
(* processors that were not checked recently, checks the gateway with a    *)
(* temporary smoke route, classifies the processors, saves the state and   *)
(* may write suggested env values.  Minutes pass between load and save,    *)
(* nothing locks the file, and it is overwritten in place.                 *)
(*                                                                         *)
(* Heartbeats, schedules, TCP and TLS are what the network makes of them.  *)
(***************************************************************************)
EXTENDS FileContents, Integers, FiniteSets, Sequences, Functions

CONSTANTS
    Inventory,   \* the processors of the manager, in the order of the chain
    Sweeps,      \* runs of the command
    Limit,       \* --limit: processors per sweep, 0 for all
    CheckTtl,    \* --recent-check-ttl-ms
    ReadyTtl,    \* --ready-ttl-ms
    MaxTime      \* bound on the time that passes

Processors == Range(Inventory)

\* The chain lists a processor once.
ASSUME DiscoveryOK ==
    /\ Inventory \in Seq(Processors) /\ IsInjective(Inventory) /\ IsFiniteSet(Sweeps)
    /\ Limit \in Nat /\ CheckTtl \in Nat /\ ReadyTtl \in Nat /\ MaxTime \in Nat
    /\ Absent \notin Processors

VARIABLES
    clock,       \* Date.now()
    found,       \* the state file: an entry for each processor checked so far
    sweep,       \* each run: where it is, what it loaded, picked and saw
    wasReady,    \* history: when each processor was last seen ready
    overlapped   \* history: a run saved over what another had saved meanwhile

disVars == <<clock, found, sweep, wasReady, overlapped>>

Statuses == {"ready", "offline_stale", "schedule_conflicted", "route_failed", "config_blocked"}

Times == 0 .. MaxTime

\* OperatorDiscoveryProcessorState
Entries ==
    [checked : Times, status : Statuses,
     readyUntil : {Absent} \cup 0 .. MaxTime + ReadyTtl]

\* emptyDiscoveryState: no processor has an entry.
NoEntries == [p \in Processors |-> Absent]

DiscoveryStates == [Processors -> Entries \cup {Absent}]

\* Nothing, and what does not parse, are no entries.
ASSUME EntriesOK == Absent \notin Times \cup Entries /\ {Absent, Torn} \cap DiscoveryStates = {}

Places == {"idle", "gateway", "smoke", "save", "saving", "done", "failed"}

Gateways == [agent : BOOLEAN, tcp : {"ok", "skipped", "failed"}, smoke : BOOLEAN]

IdleSweep ==
    [at |-> "idle", loaded |-> NoEntries, picked |-> {}, since |-> 0,
     gateway |-> [agent |-> FALSE, tcp |-> "skipped", smoke |-> TRUE],
     result |-> NoEntries]

SweepStates ==
    [at : Places, loaded : DiscoveryStates, picked : SUBSET Processors, since : Times,
     gateway : Gateways, result : DiscoveryStates]

DisTypeOK ==
    /\ clock \in Times
    /\ found \in DiscoveryStates \cup {Absent, Torn}
    /\ sweep \in [Sweeps -> SweepStates]
    /\ wasReady \in [Processors -> Times \cup {Absent}]
    /\ overlapped \in BOOLEAN

DisInit ==
    /\ clock = 0
    /\ found = Absent
    /\ sweep = [s \in Sweeps |-> IdleSweep]
    /\ wasReady = [p \in Processors |-> Absent]
    /\ overlapped = FALSE

-------------------------------------------------------------------------------
\* loadDiscoveryState: no file is an empty state; a file that does not parse is
\* an error.
Entered == IF found = Absent THEN NoEntries ELSE found

\* processorCheckedRecently
CheckedRecently(p, state) ==
    state[p] # Absent /\ clock - state[p].checked < CheckTtl

\* selectNextProcessorRefs: the first Limit that were not checked recently.
SelectNext(state) ==
    LET due == {i \in DOMAIN Inventory : ~CheckedRecently(Inventory[i], state)}
        next == {i \in due : Cardinality({k \in due : k < i}) < Limit}
    IN IF Limit = 0 THEN Processors ELSE {Inventory[i] : i \in next}

Starts(s) ==
    /\ sweep[s].at = "idle"
    /\ IF found = Torn
         THEN sweep' = [sweep EXCEPT ![s].at = "failed"]
         ELSE sweep' = [sweep EXCEPT ![s] =
                          [IdleSweep EXCEPT !.at = "gateway",
                                            !.loaded = Entered,
                                            !.picked = SelectNext(Entered),
                                            !.since = clock]]
    /\ UNCHANGED <<clock, found, wasReady, overlapped>>

\* checkGateway: the agent's health and report, then the public address.  The
\* smoke route needs a public address.
ChecksGateway(s, agent, tcp) ==
    /\ sweep[s].at = "gateway"
    /\ \E wanted \in BOOLEAN :
         sweep' = [sweep EXCEPT ![s] =
                     [@ EXCEPT !.gateway = [agent |-> agent, tcp |-> tcp, smoke |-> TRUE],
                               !.at = IF wanted /\ tcp # "skipped" THEN "smoke" ELSE "save"]]
    /\ UNCHANGED <<clock, found, wasReady, overlapped>>

\* checkSmokeRoute: a route of its own is posted to the agent, probed and in the
\* end deleted; one that stays expires there, and never counts as ingress.
ProbesSmokeRoute(s, ok) ==
    /\ sweep[s].at = "smoke"
    /\ sweep' = [sweep EXCEPT ![s] = [@ EXCEPT !.gateway.smoke = ok, !.at = "save"]]
    /\ UNCHANGED <<clock, found, wasReady, overlapped>>

\* processorResult: a processor is ready only with the gateway in front of it.
StatusOf(readiness, gateway) ==
    IF readiness # "ready" THEN readiness
    ELSE IF ~gateway.agent \/ gateway.tcp = "skipped" THEN "config_blocked"
    ELSE IF gateway.tcp = "failed" \/ ~gateway.smoke THEN "route_failed"
    ELSE "ready"

\* Every check extends the time a processor counts as ready.
UpdatedAlways(loaded, picked, since, status) ==
    [p \in Processors |->
        IF p \notin picked THEN loaded[p]
        ELSE [checked |-> since, status |-> status[p], readyUntil |-> since + ReadyTtl]]

\* updateDiscoveryState: the entries of the processors that were checked; how
\* long a processor counts as ready only changes when it is ready.
Updated(loaded, picked, since, status) ==
    [p \in Processors |->
        IF p \notin picked THEN loaded[p]
        ELSE [checked |-> since,
              status |-> status[p],
              readyUntil |-> IF status[p] = "ready" THEN since + ReadyTtl
                             ELSE IF loaded[p] = Absent THEN Absent
                             ELSE loaded[p].readyUntil]]

\* Readiness by heartbeat and schedule (classifyProcessorReadiness).
Readiness == {"ready", "offline_stale", "schedule_conflicted"}

\* The processors are classified and the file is opened, which empties it.
StartsSaving(s, readiness) ==
    LET status == [p \in Processors |-> StatusOf(readiness[p], sweep[s].gateway)]
    IN  /\ sweep[s].at = "save"
        /\ sweep' = [sweep EXCEPT ![s] =
                        [@ EXCEPT !.at = "saving",
                                  !.result = Updated(sweep[s].loaded, sweep[s].picked,
                                                     sweep[s].since, status)]]
        /\ wasReady' = [p \in Processors |->
                          IF p \in sweep[s].picked /\ status[p] = "ready"
                          THEN sweep[s].since ELSE wasReady[p]]
        /\ overlapped' = (overlapped \/ Entered # sweep[s].loaded)
        /\ found' = Torn
        /\ UNCHANGED clock

Saves(s) ==
    /\ sweep[s].at = "saving"
    /\ found' = sweep[s].result
    /\ sweep' = [sweep EXCEPT ![s] = [IdleSweep EXCEPT !.at = "done"]]
    /\ UNCHANGED <<clock, wasReady, overlapped>>

\* The process is ended: whatever it has begun stays.
Killed(s) ==
    /\ sweep[s].at \in {"gateway", "smoke", "save", "saving"}
    /\ sweep' = [sweep EXCEPT ![s] = [IdleSweep EXCEPT !.at = "failed"]]
    /\ UNCHANGED <<clock, found, wasReady, overlapped>>

TimePasses ==
    /\ clock < MaxTime
    /\ clock' = clock + 1
    /\ UNCHANGED <<found, sweep, wasReady, overlapped>>

DisStep(s) ==
    \/ Starts(s)
    \/ \E agent \in BOOLEAN, tcp \in {"ok", "skipped", "failed"} : ChecksGateway(s, agent, tcp)
    \/ \E ok \in BOOLEAN : ProbesSmokeRoute(s, ok)
    \/ \E readiness \in [Processors -> Readiness] : StartsSaving(s, readiness)
    \/ Saves(s)

DisNext ==
    \/ \E s \in Sweeps : DisStep(s) \/ Killed(s)
    \/ TimePasses

DisSpec == DisInit /\ [][DisNext]_disVars

-------------------------------------------------------------------------------
\* A processor counts as ready only for ReadyTtl after a sweep saw it ready, and
\* that sweep is never forgotten: a later failure does not extend or shorten it.
ReadyIsBacked ==
    found \notin {Absent, Torn} /\ ~overlapped =>
        \A p \in Processors :
            found[p] # Absent =>
                found[p].readyUntil =
                    IF wasReady[p] = Absent THEN Absent ELSE wasReady[p] + ReadyTtl

\* "Test the next n processors not checked recently" (discover.ts:623): sweeps
\* with a limit that follow each other go through the whole fleet before they
\* come back to a processor, as long as no check has become old.
SweepsCoverFleet ==
    Limit > 0 /\ clock < CheckTtl /\ ~overlapped /\ found \notin {Absent, Torn} =>
        LET done == Cardinality({s \in Sweeps : sweep[s].at = "done"})
            seen == Cardinality({p \in Processors : found[p] # Absent})
        IN  seen >= IF done * Limit < Len(Inventory) THEN done * Limit ELSE Len(Inventory)

\* What sweeps that overlap write of the processors: a processor is ready for
\* a reason, and sweeps get through the fleet.
GatewaySafe == DisTypeOK /\ ReadyIsBacked /\ SweepsCoverFleet
===============================================================================
