---------------------------- MODULE ExpressHarness ----------------------------
(***************************************************************************)
(* The Express harness (scripts/acurast/express-harness.ts) and validator  *)
(* launch (validatorLaunchCommand of cli/src/index.ts), which runs it as   *)
(* two child processes: deploy-direct without its environment stage, then  *)
(* update-env with the id that the first one printed.                      *)
(*                                                                         *)
(* Everything a process leaves for another one is in the stage directory:  *)
(* the bundle and a record of each deployment, which names the environment *)
(* variables of its job.  Preparing a bundle deletes the records, and all  *)
(* commands but update-env, and deploy-direct and upload-script on an      *)
(* existing stage, prepare one.                                            *)
(*                                                                         *)
(* An environment is a number of variables; the chain takes MaxVars.  The  *)
(* chain, its processors and the relay are external.                       *)
(***************************************************************************)
EXTENDS FileContents, Naturals, FiniteSets

CONSTANTS
    Procs,     \* processes of one working directory
    MaxVars    \* ACURAST_RUNTIME_MAX_ENV_VARS

ASSUME HarnessOK == IsFiniteSet(Procs) /\ MaxVars \in Nat \ {0}

VARIABLES
    proc,        \* each process: its command, where it is and what it knows
    staged,      \* dist/bundle.cjs
    records,     \* .acurast/deploy: of each job the number of its variables
    unsettled,   \* processes whose deploy extrinsic may still be included
    jobs,        \* chain: which process registered the job
    acked,       \* chain: the jobs that are acknowledged by their processors
    jobEnv,      \* chain: the variables that were set for the job
    uploaded,    \* the bundle that each process uploaded
    enrolled,    \* relay: the launches and their jobs
    wiped        \* history: jobs whose record was deleted

harnessVars ==
    <<proc, staged, records, unsettled, jobs, acked, jobEnv, uploaded, enrolled, wiped>>

JobIds == 1 .. Cardinality(Procs)

HarnessKinds == {"prepare", "status", "deploy", "update", "launch"}

HarnessPlaces ==
    {"idle", "intent", "wipe", "build", "load", "upload", "submit", "sent",
     "store", "ack", "env", "enroll", "done", "failed", "audited"}

StagedBundles == {"plain", "loader"}

\* undefined is no process, no number and no bundle.
ASSUME HarnessNamesOK == Absent \notin Procs \cup Nat \cup StagedBundles

NoProc ==
    [kind |-> "prepare", at |-> "idle", vars |-> 0, explicit |-> FALSE,
     existing |-> FALSE, encrypted |-> FALSE, script |-> FALSE, skipEnv |-> FALSE,
     job |-> 0]

HarnessTypeOK ==
    /\ proc \in [Procs -> [kind : HarnessKinds, at : HarnessPlaces,
                           vars : 0 .. MaxVars + 2, explicit : BOOLEAN,
                           existing : BOOLEAN, encrypted : BOOLEAN,
                           script : BOOLEAN, skipEnv : BOOLEAN,
                           job : JobIds \cup {0}]]
    /\ staged \in StagedBundles \cup {Absent}
    /\ records \in [JobIds -> 0 .. MaxVars + 2 \cup {Absent}]
    /\ unsettled \subseteq Procs
    /\ jobs \in [JobIds -> Procs \cup {Absent}]
    /\ acked \subseteq JobIds
    /\ jobEnv \in [JobIds -> 0 .. MaxVars + 2 \cup {Absent}]
    /\ uploaded \in [Procs -> StagedBundles \cup {Absent}]
    /\ enrolled \in [Procs -> JobIds \cup {Absent}]
    /\ wiped \subseteq JobIds

HarnessInit ==
    /\ proc = [p \in Procs |-> NoProc]
    /\ staged = Absent
    /\ records = [j \in JobIds |-> Absent]
    /\ unsettled = {}
    /\ jobs = [j \in JobIds |-> Absent]
    /\ acked = {}
    /\ jobEnv = [j \in JobIds |-> Absent]
    /\ uploaded = [p \in Procs |-> Absent]
    /\ enrolled = [p \in Procs |-> Absent]
    /\ wiped = {}

-------------------------------------------------------------------------------
IsAt(p, place) == proc[p].at = place

Moves(p, place) == proc' = [proc EXCEPT ![p].at = place]

\* The command and the flags that make a difference.  A launch names its script
\* and all of its variables, as many as the chain takes.
StartCommand(p, kind, flags) ==
    /\ IsAt(p, "idle")
    /\ proc' = [proc EXCEPT ![p] =
                  [flags EXCEPT !.kind = kind,
                                !.at = IF kind = "update" THEN "env"
                                       ELSE IF kind = "launch" THEN "intent"
                                       ELSE IF flags.existing THEN "load" ELSE "wipe"]]
    /\ UNCHANGED <<staged, records, unsettled, jobs, acked, jobEnv, uploaded, enrolled, wiped>>

LaunchFlags ==
    [NoProc EXCEPT !.vars = MaxVars, !.explicit = TRUE, !.script = TRUE, !.skipEnv = TRUE]

DeployFlags(n, e, c, s) ==
    [NoProc EXCEPT !.vars = n, !.existing = e, !.encrypted = c, !.script = s]

\* The relay takes the launch intent and names the script.
TakeIntent(p) ==
    /\ IsAt(p, "intent")
    /\ Moves(p, "wipe")
    /\ UNCHANGED <<staged, records, unsettled, jobs, acked, jobEnv, uploaded, enrolled, wiped>>

RecordedJobs == {j \in JobIds : records[j] # Absent}

\* prepareAcurastProject: dist and .acurast are removed...
Wipe(p) ==
    /\ IsAt(p, "wipe")
    /\ staged' = Absent
    /\ records' = [j \in JobIds |-> Absent]
    /\ wiped' = wiped \cup RecordedJobs
    /\ Moves(p, "build")
    /\ UNCHANGED <<unsettled, jobs, acked, jobEnv, uploaded, enrolled>>

\* auditAcurastEnvSubmission
FitsRuntime(n) == n <= MaxVars

\* ... the bundle is built, unless the script is already uploaded, and the
\* environment is audited.
AfterPrepare(p) ==
    IF ~FitsRuntime(proc[p].vars) THEN "failed"
    ELSE CASE proc[p].kind = "prepare" -> "done"
           [] proc[p].kind = "status"  -> IF RecordedJobs # {} THEN "done" ELSE "failed"
           [] OTHER -> "upload"

BuildBundle(p, b) ==
    /\ IsAt(p, "build")
    /\ staged' = IF proc[p].kind = "launch" THEN staged ELSE b
    /\ proc' = [proc EXCEPT ![p].at = AfterPrepare(p)]
    /\ UNCHANGED <<records, unsettled, jobs, acked, jobEnv, uploaded, enrolled, wiped>>

\* assertStagedBundleIsEncryptedLoader
Encrypted(p) == proc[p].encrypted => staged = "loader"

\* loadExistingAcurastProject looks at the bundle and the config only.
LoadExisting(p) ==
    /\ IsAt(p, "load")
    /\ Moves(p, IF staged # Absent /\ Encrypted(p) THEN "upload" ELSE "failed")
    /\ UNCHANGED <<staged, records, unsettled, jobs, acked, jobEnv, uploaded, enrolled, wiped>>

\* Trusts the look at the bundle when the stage was loaded.
UploadUnseen(p) ==
    /\ IsAt(p, "upload")
    /\ Moves(p, IF proc[p].script \/ staged # Absent THEN "submit" ELSE "failed")
    /\ uploaded' = IF proc[p].script THEN uploaded ELSE [uploaded EXCEPT ![p] = staged]
    /\ UNCHANGED <<staged, records, unsettled, jobs, acked, jobEnv, enrolled, wiped>>

\* resolveDirectScriptIpfs: a script that is given is taken as it is; otherwise
\* the bundle of this moment is looked at again and uploaded.
Upload(p) ==
    /\ IsAt(p, "upload")
    /\ IF proc[p].script
         THEN Moves(p, "submit") /\ UNCHANGED uploaded
         ELSE IF staged # Absent /\ Encrypted(p)
                THEN Moves(p, "submit") /\ uploaded' = [uploaded EXCEPT ![p] = staged]
                ELSE Moves(p, "failed") /\ UNCHANGED uploaded
    /\ UNCHANGED <<staged, records, unsettled, jobs, acked, jobEnv, enrolled, wiped>>

\* applyDirectScheduleEndEnv adds a variable to those that are not named one by
\* one; then the extrinsic is sent.
WithScheduleEnd(p) == IF proc[p].explicit THEN proc[p].vars ELSE proc[p].vars + 1

SubmitDirect(p) ==
    /\ IsAt(p, "submit")
    /\ proc' = [proc EXCEPT ![p].at = "sent", ![p].vars = WithScheduleEnd(p)]
    /\ unsettled' = unsettled \cup {p}
    /\ UNCHANGED <<staged, records, jobs, acked, jobEnv, uploaded, enrolled, wiped>>

\* submitDirectDeployment resolves with the job of its own event.
SeesJob(p, j) ==
    /\ IsAt(p, "sent")
    /\ jobs[j] = p
    /\ proc' = [proc EXCEPT ![p].at = "store", ![p].job = j]
    /\ UNCHANGED <<staged, records, unsettled, jobs, acked, jobEnv, uploaded, enrolled, wiped>>

\* storeDirectDeployment, whose config counts the variables anew.
StoreRecord(p) ==
    /\ IsAt(p, "store")
    /\ records' = [records EXCEPT ![proc[p].job] = proc[p].vars]
    /\ Moves(p, IF proc[p].vars > 0 THEN "ack" ELSE "done")
    /\ UNCHANGED <<staged, unsettled, jobs, acked, jobEnv, uploaded, enrolled, wiped>>

\* waitForProcessorAcknowledgement.  A launch goes on with its second child.
SeesAck(p) ==
    /\ IsAt(p, "ack")
    /\ proc[p].job \in acked
    /\ Moves(p, IF proc[p].skipEnv /\ proc[p].kind # "launch" THEN "done" ELSE "env")
    /\ UNCHANGED <<staged, records, unsettled, jobs, acked, jobEnv, uploaded, enrolled, wiped>>

\* updateAcurastJobEnvWithSdk: the record says which variables there are.
\* Without a record there are none, which is no error.
UpdateJobEnv(p, j) ==
    LET n == IF records[j] = Absent THEN 0 ELSE records[j]
        next == IF proc[p].kind = "launch" THEN "enroll" ELSE "done"
    IN  /\ IsAt(p, "env")
        /\ jobs[j] # Absent
        /\ IF proc[p].kind = "update" THEN TRUE ELSE j = proc[p].job
        /\ jobEnv' = IF n > 0 /\ FitsRuntime(n) THEN [jobEnv EXCEPT ![j] = n] ELSE jobEnv
        /\ Moves(p, IF FitsRuntime(n) THEN next ELSE "audited")
        /\ UNCHANGED <<staged, records, unsettled, jobs, acked, uploaded, enrolled, wiped>>

\* postSignedJson sends the same body again after an answer that did not come;
\* answered says whether this one does.
Enroll(p, answered) ==
    /\ IsAt(p, "enroll")
    /\ enrolled' = [enrolled EXCEPT ![p] = proc[p].job]
    /\ IF answered THEN Moves(p, "done") ELSE UNCHANGED proc
    /\ UNCHANGED <<staged, records, unsettled, jobs, acked, jobEnv, uploaded, wiped>>

\* A timeout, an error or the end of the process: the extrinsic stays behind.
GivesUpHarness(p) ==
    /\ proc[p].at \notin {"idle", "done", "failed", "audited"}
    /\ Moves(p, "failed")
    /\ UNCHANGED <<staged, records, unsettled, jobs, acked, jobEnv, uploaded, enrolled, wiped>>

-------------------------------------------------------------------------------
\* The chain includes the extrinsic, whoever still waits for it.
IncludeJob(p) ==
    LET j == Cardinality({i \in JobIds : jobs[i] # Absent}) + 1
    IN  /\ p \in unsettled
        /\ unsettled' = unsettled \ {p}
        /\ jobs' = [jobs EXCEPT ![j] = p]
        /\ UNCHANGED <<proc, staged, records, acked, jobEnv, uploaded, enrolled, wiped>>

\* The processors of the job acknowledge it.
Acknowledge(j) ==
    /\ jobs[j] # Absent /\ j \notin acked
    /\ acked' = acked \cup {j}
    /\ UNCHANGED <<proc, staged, records, unsettled, jobs, jobEnv, uploaded, enrolled, wiped>>

HarnessStep(p) ==
    \/ StartCommand(p, "launch", LaunchFlags)
    \/ \E kind \in {"prepare", "status", "update"} : StartCommand(p, kind, NoProc)
    \/ \E n \in {0, MaxVars, MaxVars + 1}, e \in BOOLEAN, c \in BOOLEAN, s \in BOOLEAN :
          StartCommand(p, "deploy", DeployFlags(n, e, c, s))
    \/ TakeIntent(p) \/ Wipe(p) \/ LoadExisting(p)
    \/ \E b \in StagedBundles : BuildBundle(p, b)
    \/ Upload(p) \/ SubmitDirect(p)
    \/ \E j \in JobIds : SeesJob(p, j) \/ UpdateJobEnv(p, j)
    \/ StoreRecord(p) \/ SeesAck(p)
    \/ \E answered \in BOOLEAN : Enroll(p, answered)
    \/ GivesUpHarness(p)

HarnessNext ==
    \/ \E p \in Procs : HarnessStep(p) \/ IncludeJob(p)
    \/ \E j \in JobIds : Acknowledge(j)

HarnessSpec == HarnessInit /\ [][HarnessNext]_harnessVars

-------------------------------------------------------------------------------
\* "Exceeding them traps wasm during validate_transaction and silently burns the
\* schedule slot" (express-harness.ts:1241): no environment beyond the caps is
\* ever sent, whichever command, stage or record it came from.
ChainIsSpared == \A j \in JobIds : jobEnv[j] = Absent \/ jobEnv[j] <= MaxVars

\* A validator that the relay knows has its environment, and it was acknowledged
\* before: unless another process deleted the record between the two children.
EnrolledHasEnv ==
    \A p \in Procs : enrolled[p] # Absent /\ enrolled[p] \notin wiped =>
        /\ jobs[enrolled[p]] = p
        /\ enrolled[p] \in acked
        /\ jobEnv[enrolled[p]] = MaxVars

\* "Refusing to upload unencrypted Acurast relay bundle" (:454): what a process
\* that was told so uploads is encrypted, whatever was built in the stage since
\* the process looked at it first.
UploadIsEncrypted ==
    \A p \in Procs : proc[p].encrypted /\ uploaded[p] # Absent => uploaded[p] = "loader"

\* The Express harness spares the chain what cannot fit, enrols only what has
\* its variables, and uploads nothing in the clear.
HarnessSafe == HarnessTypeOK /\ ChainIsSpared /\ EnrolledHasEnv /\ UploadIsEncrypted
===============================================================================
