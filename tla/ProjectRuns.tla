------------------------------ MODULE ProjectRuns ------------------------------
(***************************************************************************)
(* A project on disk: the state file that names its deployments, the run   *)
(* directory of each with a workflow snapshot and a report, and the stage  *)
(* directory its bundle is built in; and the commands that use them:       *)
(* deploy, deploy resume and deploy status.  A command reads the project   *)
(* state when it starts and a deployment writes it when it ends, which may *)
(* be long after.  Nothing locks any of the files.                         *)
(*                                                                         *)
(* Run r has its own run directory, also named r: a fresh one, or the one  *)
(* given by --run-dir.  What a file holds is the run whose data it is.     *)
(***************************************************************************)
EXTENDS FileContents, Naturals, FiniteSets

CONSTANTS
    Runs,        \* the commands, and the run directories of the deployments among them
    MaxReports   \* how many reports the project state keeps: 20 in the code

\* The list of reports, newest first: the place of each run, 0 when it is not there.
Histories == [Runs -> 0 .. MaxReports]

ProjectStates == [latest : Runs, reports : Histories]

ASSUME ProjectOK ==
    /\ MaxReports \in Nat \ {0}
    /\ {Absent, Torn} \cap Runs = {} /\ {Absent, Torn} \cap ProjectStates = {}

VARIABLES
    project,   \* .switchboard/state.json: [latest, reports], Absent or Torn
    dirs,      \* each run directory: whose snapshot it has and whose report
    bundle,    \* the stage directory: whose bundle was built there last
    jobs,      \* the bundle each deployment submitted
    runs       \* each command: where it is, what it was given, what it read

projVars == <<project, dirs, bundle, jobs, runs>>

ProjKinds == {"deploy", "resume", "status"}
Sources == {"latest", "runDir", "report"}

NewRun == [at |-> "idle", kind |-> "deploy", prev |-> Absent, given |-> FALSE,
           dir |-> Absent, got |-> Absent, found |-> "unread",
           alone |-> TRUE, stageAlone |-> TRUE, sawTorn |-> FALSE]

ProjInit ==
    /\ project = Absent
    /\ dirs = [r \in Runs |-> [snap |-> Absent, report |-> Absent]]
    /\ bundle = Absent
    /\ jobs = [r \in Runs |-> Absent]
    /\ runs = [r \in Runs |-> NewRun]

Maybe(S) == S \cup {Absent}

RunRecords ==
    [at : {"idle", "loaded", "built", "submitted", "reported", "writing", "done",
           "resolved", "refused", "died", "tore"},
     kind : ProjKinds, prev : Maybe(ProjectStates), given : BOOLEAN,
     dir : Maybe(Runs), got : Maybe(Runs),
     found : {"unread", "two_sources", "nothing", "own_run", "other_run"},
     alone : BOOLEAN, stageAlone : BOOLEAN, sawTorn : BOOLEAN]

ProjTypeOK ==
    /\ project \in Maybe(ProjectStates) \cup {Torn}
    /\ dirs \in [Runs -> [snap : Maybe(Runs), report : Maybe(Runs)]]
    /\ bundle \in Maybe(Runs) /\ jobs \in [Runs -> Maybe(Runs)]
    /\ runs \in [Runs -> RunRecords]

Active(r) == runs[r].at \in {"loaded", "built", "submitted", "reported", "writing"}

\* readFirstProjectState: a file that is not there, or does not parse, is no state.
StateOrNone(file) == IF file = Torn THEN Absent ELSE file

Overlap(r, kind) ==
    [d \in Runs |->
        IF d = r THEN [runs[r] EXCEPT !.alone = \A x \in Runs : ~Active(x)]
        ELSE [runs[d] EXCEPT !.alone = @ /\ ~(Active(d) /\ kind = "deploy")]]

\* Where the workflow of a deployment is saved: the run directory it was given,
\* or the directory of --report, which is by default the latest of the project.
StoreDir(r, given, prev) ==
    IF given THEN r ELSE IF prev # Absent THEN prev.latest ELSE Absent

StartDeploy(r) ==
    /\ runs[r].at = "idle"
    /\ \E given \in BOOLEAN :
        LET prev == StateOrNone(project) IN
        runs' = [Overlap(r, "deploy") EXCEPT
            ![r] = [@ EXCEPT !.at = "loaded", !.given = given, !.sawTorn = (project = Torn),
                             !.prev = prev, !.dir = StoreDir(r, given, prev)]]
    /\ UNCHANGED <<project, dirs, bundle, jobs>>

\* The workflow saves itself whenever it advances.
SaveProgress(r) ==
    /\ runs[r].kind = "deploy" /\ runs[r].at \in {"loaded", "built", "submitted"}
    /\ runs[r].dir # Absent
    /\ dirs' = [dirs EXCEPT ![runs[r].dir].snap = r]
    /\ UNCHANGED <<project, bundle, jobs, runs>>

\* Keeps a bundle that is there.
BuildIfMissing(r) ==
    /\ runs[r].kind = "deploy" /\ runs[r].at = "loaded"
    /\ bundle' = IF bundle = Absent THEN r ELSE bundle
    /\ runs' = [d \in Runs |->
        IF d = r THEN [runs[r] EXCEPT !.at = "built", !.stageAlone = TRUE]
        ELSE [runs[d] EXCEPT !.stageAlone = @ /\ runs[d].at # "built"]]
    /\ UNCHANGED <<project, dirs, jobs>>

\* Empties the stage directory, builds the bundle there and encrypts it in place.
Build(r) ==
    /\ runs[r].kind = "deploy" /\ runs[r].at = "loaded"
    /\ bundle' = r
    /\ runs' = [d \in Runs |->
        IF d = r THEN [runs[r] EXCEPT !.at = "built", !.stageAlone = TRUE]
        ELSE [runs[d] EXCEPT !.stageAlone = @ /\ runs[d].at # "built"]]
    /\ UNCHANGED <<project, dirs, jobs>>

\* Uploads what is in the stage directory and submits a job for it, or fails;
\* either way the report is written.
SubmitJob(r) ==
    /\ runs[r].kind = "deploy" /\ runs[r].at = "built"
    /\ \/ jobs' = [jobs EXCEPT ![r] = bundle]
       \/ UNCHANGED jobs
    /\ dirs' = [dirs EXCEPT ![r].report = r]
    /\ runs' = [runs EXCEPT ![r].at = "submitted"]
    /\ UNCHANGED <<project, bundle>>

\* saveDeployWorkflowSnapshot: to the store if there is one, else beside the report.
SaveFinal(r) ==
    /\ runs[r].kind = "deploy" /\ runs[r].at = "submitted"
    /\ dirs' = [dirs EXCEPT ![IF runs[r].dir = Absent THEN r ELSE runs[r].dir].snap = r,
                            ![r].report = r]
    /\ runs' = [runs EXCEPT ![r].at = "reported"]
    /\ UNCHANGED <<project, bundle, jobs>>

Earlier(r) == IF runs[r].prev = Absent THEN [x \in Runs |-> 0] ELSE runs[r].prev.reports

\* Where a run of the history goes when r is put in front of it; r is not kept twice.
PlaceBehind(r, history, x) ==
    IF history[x] = 0 \/ history[r] \in 1 .. history[x] THEN history[x] ELSE history[x] + 1

\* The list with r in front, cut off after MaxReports.
WithFront(r, history) ==
    [x \in Runs |-> IF x = r THEN 1
                    ELSE IF PlaceBehind(r, history, x) > MaxReports THEN 0
                    ELSE PlaceBehind(r, history, x)]

\* The state a deployment saves, on top of the one it read when it started.
SavedState(r) == [latest |-> r, reports |-> WithFront(r, Earlier(r))]

StartSave(r) ==
    /\ runs[r].kind = "deploy" /\ runs[r].at = "reported"
    /\ project' = Torn
    /\ runs' = [runs EXCEPT ![r].at = "writing"]
    /\ UNCHANGED <<dirs, bundle, jobs>>

EndSave(r) ==
    /\ runs[r].kind = "deploy" /\ runs[r].at = "writing"
    /\ project' = SavedState(r)
    /\ runs' = [runs EXCEPT ![r] = [@ EXCEPT !.at = "done", !.prev = Absent, !.dir = Absent]]
    /\ UNCHANGED <<dirs, bundle, jobs>>

Kill(r) ==
    /\ runs[r].kind = "deploy" /\ Active(r)
    /\ runs' = [runs EXCEPT
            ![r] = [NewRun EXCEPT !.at = IF runs[r].at = "writing" THEN "tore" ELSE "died",
                                  !.given = runs[r].given, !.stageAlone = runs[r].stageAlone,
                                  !.sawTorn = runs[r].sawTorn]]
    /\ UNCHANGED <<project, dirs, bundle, jobs>>

(***************************************************************************)
(* deploy resume and deploy status                                         *)
(***************************************************************************)

\* applyRuntimeDefaults gives every command of a project that has a latest
\* report a --report; more than one source is refused.
ChosenDir(source, e, prev) ==
    CASE source = "runDir" -> IF prev # Absent THEN Absent ELSE e
      [] source = "report" -> e
      [] source = "latest" -> IF prev # Absent THEN prev.latest ELSE Absent

\* The workflow in a directory: the snapshot there, or the one in the report.
LoadedWorkflow(e) == IF dirs[e].snap # Absent THEN dirs[e].snap ELSE dirs[e].report

\* What a command finds in the directory e it was meant for.
Finding(source, prev, e, got) ==
    IF source = "runDir" /\ prev # Absent THEN "two_sources"
    ELSE IF got = Absent THEN "nothing"
    ELSE IF got = e THEN "own_run"
    ELSE "other_run"

\* status is done when it has read the workflow.
Resolve(r) ==
    /\ runs[r].at = "idle"
    /\ \E kind \in {"resume", "status"}, source \in Sources, e \in Runs \ {r} :
        LET prev == StateOrNone(project)
            dir == ChosenDir(source, e, prev)
            got == IF dir = Absent THEN Absent ELSE LoadedWorkflow(dir)
            goesOn == kind = "resume" /\ got # Absent
        IN  runs' = [Overlap(r, kind) EXCEPT
                ![r] = [@ EXCEPT
                    !.kind = kind, !.given = (source = "runDir"), !.sawTorn = (project = Torn),
                    !.found = Finding(source, prev, dir, got),
                    !.dir = IF goesOn THEN dir ELSE Absent, !.got = IF goesOn THEN got ELSE Absent,
                    !.at = IF goesOn THEN "resolved" ELSE IF got = Absent THEN "refused" ELSE "done"]]
    /\ UNCHANGED <<project, dirs, bundle, jobs>>

\* A resume that goes on with the workflow it read saves it, and writes the
\* report, in the directory it read it from.
Resume(r) ==
    /\ runs[r].at = "resolved"
    /\ dirs' = [dirs EXCEPT ![runs[r].dir] = [snap |-> runs[r].got, report |-> runs[r].got]]
    /\ runs' = [runs EXCEPT ![r] = [@ EXCEPT !.at = "done", !.dir = Absent, !.got = Absent]]
    /\ UNCHANGED <<project, bundle, jobs>>

Deploy(r) ==
    \/ StartDeploy(r) \/ SaveProgress(r) \/ Build(r) \/ SubmitJob(r)
    \/ SaveFinal(r) \/ StartSave(r) \/ EndSave(r) \/ Kill(r)

ProjNext == \E r \in Runs : Deploy(r) \/ Resolve(r) \/ Resume(r)

ProjSpec == ProjInit /\ [][ProjNext]_projVars

(***************************************************************************)
(* Properties                                                              *)
(***************************************************************************)

Deployed(r) == runs[r].kind = "deploy" /\ runs[r].at # "idle"

\* A deployment that no other overlapped stays in the history of its project as
\* long as no more than MaxReports - 1 others saved theirs, unless one of them
\* began while the file could not be parsed, which counts as no history.
HistoryIsKept ==
    \A r \in Runs :
        (/\ Deployed(r) /\ runs[r].at = "done" /\ runs[r].alone
         /\ project # Torn
         /\ \A d \in Runs : ~runs[d].sawTorn
         /\ Cardinality({d \in Runs : runs[d].kind = "deploy" /\ runs[d].at = "done"}) <= MaxReports)
            => project.reports[r] # 0

\* The run a project calls its latest has written its report.
LatestHasReport == project \notin {Absent, Torn} => dirs[project.latest].report # Absent

\* With a --run-dir of its own for every deployment, what resume and status read
\* in a directory is the workflow of the run that was deployed there.
OwnDirOwnWorkflow ==
    (\A r \in Runs : Deployed(r) => runs[r].given)
        => \A r \in Runs : runs[r].found # "other_run"

\* A job runs the bundle of its own deployment unless another of the project was
\* built between its build and its upload.
OwnBundle == \A r \in Runs : jobs[r] # Absent /\ runs[r].stageAlone => jobs[r] = r

\* The snapshot in a run directory is that of the run deployed there.
DirHoldsItsRun == \A r \in Runs : dirs[r].snap \in {r, Absent}

\* Whatever runs share a project: its history, its latest report, and the
\* directory, workflow and bundle of each.
ProjectSafe == ProjTypeOK /\ HistoryIsKept /\ LatestHasReport /\ OwnDirOwnWorkflow /\ OwnBundle
================================================================================
