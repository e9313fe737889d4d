------------------------------- MODULE DeployRun -------------------------------
(***************************************************************************)
(* A single-replica deploy workflow over its life: the run of the deploy   *)
(* command and the resumes after it, and what they leave in the run        *)
(* directory (cli/src/index.ts).  A run drives the workflow engine, which  *)
(* saves a snapshot after each step, submits the job through the submit    *)
(* adapter, funds the quote through a helper, and writes a report.  A run  *)
(* may end anywhere, and a file is empty between its opening and its       *)
(* writing.                                                                *)
(*                                                                         *)
(* The engine (SwitchboardDeployWorkflow) is external: only the steps at   *)
(* which something is created, submitted or paid are told apart.  The      *)
(* inside of a submit is the module DeployHardened.  Runs do not overlap.  *)
(***************************************************************************)
EXTENDS Naturals

CONSTANT MaxRuns   \* bound: the deploy and the resumes after it

ASSUME MaxRunsOK == MaxRuns \in Nat \ {0}

VARIABLES
    run,          \* the number of the run; the first is the deploy
    at,           \* where it is
    after,        \* where it goes on after the save or the report
    runner,       \* the run goes through the compatibility runner
    store,        \* the engine has a store
    lateAllowed,  \* --allow-late-funding
    mem,          \* the snapshot in memory
    rep,          \* the report in memory
    files,        \* the state of each file of the run directory
    redacted,     \* what is in the redacted snapshot when it is whole
    private,      \* what is in the private snapshot when it is whole
    report,       \* what is in the report when it is whole
    intents,      \* the deployment intents created at the relay
    jobs,         \* the jobs registered on the chain
    fundCalls,    \* the calls of the funding helper
    expired,      \* the start window of the last job is over
    inFlight,     \* what the run has begun and the engine not yet recorded
    cut           \* history: what was in flight when a run ended or was told
                  \* that it failed

control == <<run, at, after, runner, store, lateAllowed>>
disk == <<files, redacted, private, report>>
world == <<intents, jobs, fundCalls, expired>>
history == <<inFlight, cut>>
vars == <<control, mem, rep, disk, world, history>>

Steps == {"initialized", "capacity_selected", "intent_created",
          "deploy_action_required", "deploy_submitted", "quote_ready",
          "funding_submitted", "complete", "failed"}

BeforeIntent == {"initialized", "capacity_selected"}

\* requiredAction: none, with the payload for the adapter, or with the receipt
\* of a submit that failed.
Actions == {"none", "payload", "receipt"}

Snapshots == [step : Steps, action : Actions, token : BOOLEAN, job : Nat]

\* The workflow step a report shows is "none" until the runner attached it.
Reports == [ok : BOOLEAN, token : BOOLEAN, step : Steps \cup {"none"}]

Files == {"redacted", "private", "report"}

Places == {"ended", "loop", "submitting", "registered", "apply", "funding",
           "finish", "openRedacted", "writeRedacted", "openPrivate",
           "writePrivate", "openReport", "writeReport"}

Effects == {"deploy", "fund"}

TypeOK ==
    /\ run \in 1 .. MaxRuns
    /\ at \in Places
    /\ after \in {"loop", "apply", "finish", "ended"}
    /\ runner \in BOOLEAN
    /\ store \in BOOLEAN
    /\ lateAllowed \in BOOLEAN
    /\ mem \in Snapshots
    /\ rep \in Reports
    /\ files \in [Files -> {"none", "torn", "whole"}]
    /\ redacted \in Snapshots
    /\ private \in Snapshots
    /\ report \in Reports
    /\ intents \in Nat
    /\ jobs \in Nat
    /\ fundCalls \in Nat
    /\ expired \in BOOLEAN
    /\ inFlight \subseteq Effects
    /\ cut \subseteq Effects

NewSnapshot == [step |-> "initialized", action |-> "none", token |-> FALSE, job |-> 0]
NewReport == [ok |-> FALSE, token |-> FALSE, step |-> "none"]

\* The deploy command starts; without --run-dir and --report it has no store.
Init ==
    /\ run = 1
    /\ at = "loop"
    /\ after = "loop"
    /\ runner = TRUE
    /\ store \in BOOLEAN
    /\ lateAllowed = FALSE
    /\ mem = NewSnapshot
    /\ rep = NewReport
    /\ files = [f \in Files |-> "none"]
    /\ redacted = NewSnapshot
    /\ private = NewSnapshot
    /\ report = NewReport
    /\ intents = 0
    /\ jobs = 0
    /\ fundCalls = 0
    /\ expired = FALSE
    /\ inFlight = {}
    /\ cut = {}

-------------------------------------------------------------------------------
\* Files.  writeFile empties the file, then writes it.
Goto(place) == at' = place /\ UNCHANGED <<run, after, runner, store, lateAllowed>>

Open(f, from, to) ==
    /\ at = from
    /\ files' = [files EXCEPT ![f] = "torn"]
    /\ Goto(to)
    /\ UNCHANGED <<mem, rep, redacted, private, report, world, history>>

\* redactDeployWorkflowSnapshot: without the intent's token.
WriteRedacted ==
    /\ at = "writeRedacted"
    /\ files' = [files EXCEPT !["redacted"] = "whole"]
    /\ redacted' = [mem EXCEPT !.token = FALSE]
    /\ Goto("openPrivate")
    /\ UNCHANGED <<mem, rep, private, report, world, history>>

WritePrivate ==
    /\ at = "writePrivate"
    /\ files' = [files EXCEPT !["private"] = "whole"]
    /\ private' = mem
    /\ Goto(after)
    /\ inFlight' = {}
    /\ UNCHANGED <<mem, rep, redacted, report, world, cut>>

WriteReport ==
    /\ at = "writeReport"
    /\ files' = [files EXCEPT !["report"] = "whole"]
    /\ report' = rep
    /\ Goto(after)
    /\ UNCHANGED <<mem, rep, redacted, private, world, history>>

FileStep ==
    \/ Open("redacted", "openRedacted", "writeRedacted") \/ WriteRedacted
    \/ Open("private", "openPrivate", "writePrivate") \/ WritePrivate
    \/ Open("report", "openReport", "writeReport") \/ WriteReport

\* writeDeployWorkflowSnapshots, then on to place.
Save(place) ==
    /\ at' = "openRedacted"
    /\ after' = place
    /\ UNCHANGED <<run, runner, store, lateAllowed>>

\* The engine saves through its store, if it has one.
EngineSaves ==
    IF store THEN Save("loop") /\ UNCHANGED inFlight
             ELSE Goto("loop") /\ inFlight' = {}

-------------------------------------------------------------------------------
\* The engine, one step a time.  Each step ends with a save.
Advance(from, to) ==
    /\ at = "loop"
    /\ mem.step = from
    /\ mem' = [mem EXCEPT !.step = to]
    /\ EngineSaves
    /\ UNCHANGED <<rep, disk, world, cut>>

\* The relay creates an intent and answers with its token, or the answer is
\* lost and the run ends.
CreateIntent ==
    /\ at = "loop"
    /\ mem.step = "capacity_selected"
    /\ intents' = intents + 1
    /\ \/ /\ mem' = [mem EXCEPT !.step = "intent_created", !.token = TRUE]
          /\ EngineSaves
       \/ Goto("ended") /\ UNCHANGED <<mem, inFlight>>
    /\ UNCHANGED <<rep, disk, jobs, fundCalls, expired, cut>>

\* The submit adapter of the workflow only returns the action that is needed.
RequireAction ==
    /\ at = "loop"
    /\ mem.step = "intent_created"
    /\ mem' = [mem EXCEPT !.step = "deploy_action_required", !.action = "payload"]
    /\ EngineSaves
    /\ UNCHANGED <<rep, disk, world, cut>>

SelectCapacity == Advance("initialized", "capacity_selected")

QuoteReady == Advance("deploy_submitted", "quote_ready")

Complete == Advance("funding_submitted", "complete")

\* Late funding is refused in the resume's own loop only.
RefusesLateFunding == ~runner /\ ~lateAllowed /\ expired

\* fundQuote calls the funding helper, a child process.
Fund ==
    /\ at = "loop"
    /\ mem.step = "quote_ready"
    /\ ~RefusesLateFunding
    /\ fundCalls' = fundCalls + 1
    /\ inFlight' = inFlight \cup {"fund"}
    /\ Goto("funding")
    /\ UNCHANGED <<mem, rep, disk, intents, jobs, expired, cut>>

Funded ==
    /\ at = "funding"
    /\ mem' = [mem EXCEPT !.step = "funding_submitted"]
    /\ EngineSaves
    /\ UNCHANGED <<rep, disk, world, cut>>

\* The engine gives the workflow up.
EngineFails ==
    /\ at \in {"loop", "funding"}
    /\ mem.step \in {"deploy_submitted", "quote_ready", "funding_submitted"}
    /\ mem' = [mem EXCEPT !.step = "failed", !.action = "none"]
    /\ EngineSaves
    /\ cut' = cut \cup inFlight
    /\ UNCHANGED <<rep, disk, world>>

-------------------------------------------------------------------------------
\* The compatibility runner: submit, receipt, polling.

\* An action that holds the receipt of a failed submit has no payload the
\* adapter accepts, unless the engine makes a new one.
Submit ==
    /\ at = "loop"
    /\ mem.step = "deploy_action_required"
    /\ runner
    /\ Goto("submitting")
    /\ UNCHANGED <<mem, rep, disk, world, history>>

Register ==
    /\ at = "submitting"
    /\ jobs' = jobs + 1
    /\ expired' = FALSE
    /\ inFlight' = inFlight \cup {"deploy"}
    /\ Goto("registered")
    /\ UNCHANGED <<mem, rep, disk, intents, fundCalls, cut>>

\* The adapter's report, which it writes.  A submit can be reported as failed
\* although its job is registered.
SubmitAnswers ==
    /\ at \in {"submitting", "registered"}
    /\ \E ok \in BOOLEAN :
          /\ ok => at = "registered"
          /\ rep' = [ok |-> ok, token |-> TRUE, step |-> "none"]
          /\ cut' = IF ok THEN cut ELSE cut \cup inFlight
    /\ at' = "openReport"
    /\ after' = "apply"
    /\ UNCHANGED <<run, runner, store, lateAllowed, mem, disk, world,
                   inFlight>>

\* Mistake: the receipt has no deployment id.
ApplyWithoutDeployment ==
    /\ at = "apply"
    /\ rep.ok
    /\ mem' = [mem EXCEPT !.step = "deploy_submitted", !.action = "none"]
    /\ EngineSaves
    /\ UNCHANGED <<rep, disk, world, cut>>

ApplyReceipt ==
    /\ at = "apply"
    /\ rep.ok
    /\ mem' = [mem EXCEPT !.step = "deploy_submitted", !.action = "none",
                          !.job = jobs]
    /\ EngineSaves
    /\ UNCHANGED <<rep, disk, world, cut>>

\* completeDeployWorkflowSnapshotFromRunner: the snapshot gets the failed
\* report's deployment, which is empty, and an action with its receipt.
RunnerFails ==
    /\ at = "apply"
    /\ ~rep.ok
    /\ mem' = [mem EXCEPT !.step = "failed", !.action = "receipt", !.job = 0]
    /\ Save("finish")
    /\ UNCHANGED <<rep, disk, world, history>>

\* The polling loops end; the snapshot is saved again, now in any case.
Finish ==
    /\ at = "loop"
    /\ \/ mem.step \in {"complete", "failed"}
       \/ mem.step = "deploy_action_required" /\ ~runner
    /\ Save("finish")
    /\ UNCHANGED <<mem, rep, disk, world, history>>

\* The workflow is attached to the report.  The runner keeps the ok of the
\* submit; a resume through its own loop takes it from the workflow.
AttachWorkflow ==
    /\ at = "finish"
    /\ rep' = [rep EXCEPT !.step = mem.step,
                          !.ok = IF runner THEN @ ELSE mem.step = "complete"]
    /\ at' = "openReport"
    /\ after' = "ended"
    /\ UNCHANGED <<run, runner, store, lateAllowed, mem, disk, world, history>>

-------------------------------------------------------------------------------
\* deploy resume.  The private snapshot is taken if there is one.
Loaded == IF files["private"] = "none" THEN redacted ELSE private

LoadedState == IF files["private"] = "none" THEN files["redacted"] ELSE files["private"]

\* The token of the snapshot or of the report.
LoadedToken == Loaded.token \/ (files["report"] = "whole" /\ report.token)

\* A file that cannot be parsed, or an intent without its token, is an error.
Resumable ==
    /\ files["report"] # "torn"
    /\ LoadedState = "whole"
    /\ Loaded.step \in BeforeIntent \/ LoadedToken

\* Mistake: every failed workflow is resumed at the submit.
ResumeAtSubmit(snapshot) ==
    IF snapshot.step = "failed"
    THEN [snapshot EXCEPT !.step = "deploy_action_required"]
    ELSE snapshot

snapshotForResume(snapshot) ==
    IF snapshot.step = "failed" /\ snapshot.action # "none"
    THEN [snapshot EXCEPT !.step = "deploy_action_required"]
    ELSE snapshot

Resume ==
    /\ at = "ended"
    /\ run < MaxRuns
    /\ Resumable
    /\ run' = run + 1
    /\ mem' = snapshotForResume([Loaded EXCEPT !.token = LoadedToken])
    /\ rep' = IF files["report"] = "whole" THEN report ELSE NewReport
    /\ runner' = (mem'.step = "deploy_action_required")
    /\ store' = TRUE
    /\ lateAllowed' \in BOOLEAN
    /\ at' = "loop"
    /\ after' = "loop"
    /\ inFlight' = {}
    /\ UNCHANGED <<disk, world, cut>>

\* Mistake: the polling loops have no timeout.
HelperThrows ==
    /\ at = "funding"
    /\ Goto("ended")
    /\ cut' = cut \cup inFlight
    /\ UNCHANGED <<mem, rep, disk, world, inFlight>>

\* A polling loop times out, the engine, the adapter or the helper throws.
GiveUp ==
    /\ at \in {"loop", "funding"}
    /\ Goto("ended")
    /\ cut' = cut \cup inFlight
    /\ UNCHANGED <<mem, rep, disk, world, inFlight>>

\* The process ends.
Terminate ==
    /\ at # "ended"
    /\ Goto("ended")
    /\ cut' = cut \cup inFlight
    /\ UNCHANGED <<mem, rep, disk, world, inFlight>>

\* The private snapshot is not kept with the rest of the run directory.
LosePrivate ==
    /\ at = "ended"
    /\ files["private"] # "none"
    /\ files' = [files EXCEPT !["private"] = "none"]
    /\ UNCHANGED <<control, mem, rep, redacted, private, report, world, history>>

Expire ==
    /\ jobs > 0
    /\ ~expired
    /\ expired' = TRUE
    /\ UNCHANGED <<control, mem, rep, disk, intents, jobs, fundCalls, history>>

EngineStep ==
    \/ SelectCapacity \/ CreateIntent \/ RequireAction
    \/ QuoteReady \/ Fund \/ Funded \/ Complete \/ EngineFails

RunnerStep ==
    \/ Submit \/ Register \/ SubmitAnswers \/ ApplyReceipt \/ RunnerFails
    \/ Finish \/ AttachWorkflow

Next ==
    \/ FileStep \/ EngineStep \/ RunnerStep \/ GiveUp
    \/ Resume \/ Terminate \/ LosePrivate \/ Expire

Spec == Init /\ [][Next]_vars

\* A run that is not terminated goes on: files are written, a submit answers
\* (DeployHardened), and a polling loop ends by its timeout.  The engine and
\* the relay may never get anywhere, the helper may never answer.
FairSpec ==
    /\ Spec
    /\ WF_vars(FileStep)
    /\ WF_vars(RunnerStep)
    /\ WF_vars(at = "loop" /\ GiveUp)

-------------------------------------------------------------------------------
\* The snapshot a resume would take knows the last job on the chain, except
\* when a run ended, or was told of a failure, between the registration of a
\* job and the save that records it: the order of submit, receipt, snapshot and
\* report loses no job otherwise (runDeployWorkflowCompatibilityRunner).
SnapshotKnowsJob ==
    at = "ended" /\ Resumable /\ "deploy" \notin cut => Loaded.job = jobs

\* A job is registered a second time only after such a loss: no resume submits
\* again what the run directory records (snapshotForResume, the runner).
SubmittedOnceUnlessCut == jobs > 1 => "deploy" \in cut

\* The funding helper is called a second time only if the first call ended
\* without its answer being recorded, whichever runs did it.
FundedOnceUnlessCut == fundCalls > 1 => "fund" \in cut

\* "Missing unredacted deployment intent token" (index.ts:7097): what a resume
\* leaves private is as good as what the deploy left, also when it began from
\* the redacted snapshot.
PrivateHasToken ==
    files["private"] = "whole" /\ private.step \notin BeforeIntent => private.token

\* A report that shows a complete workflow is never ahead of the snapshots: it
\* says ok, the job was registered and paid, and no snapshot says otherwise.
CompleteReportIsBacked ==
    files["report"] = "whole" /\ report.step = "complete" =>
        /\ report.ok
        /\ jobs > 0 /\ fundCalls > 0
        /\ files["redacted"] # "none"
        /\ files["redacted"] = "whole" => redacted.step = "complete"
        /\ files["private"] = "whole" => private.step = "complete"

\* A run ends, unless the funding helper, for which there is no timeout, never
\* answers (runCliChild).
RunEnds == at # "ended" ~> at \in {"ended", "funding"}

\* What a run directory says, however often it is resumed: the last job, the
\* token in every private snapshot, and complete only what was paid and bound.
RunSafe == TypeOK /\ SnapshotKnowsJob /\ PrivateHasToken /\ CompleteReportIsBacked

\* No number of resumes registers a second job or pays a second time, unless
\* the process was cut off in that very step.
OnceUnlessCut == SubmittedOnceUnlessCut /\ FundedOnceUnlessCut
===============================================================================
