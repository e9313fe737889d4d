---------------------------- MODULE DeployHardened ----------------------------
(***************************************************************************)
(* One deploy of a prepared job by the CLI: deployProjectHardened          *)
(* (cli/src/acurast-chain-submit.ts) called by the submit adapter          *)
(* (cli/src/acurast-submit-adapter.ts).  The code is uploaded, the         *)
(* wallet's submit lock is taken, the submit loop of SubmitLoop runs under *)
(* it, the lock is released, the deployment is posted to the relay and a   *)
(* report is written.  The environment-variable stage runs beside it: the  *)
(* job-status callbacks of the loop start it, and it lives on after the    *)
(* report.                                                                 *)
(*                                                                         *)
(* The wallet lock itself is the module WalletLock; here only whether this *)
(* process holds it matters.  setEnvVars of the Acurast SDK is external:   *)
(* it submits an extrinsic of its own and answers, throws or hangs.        *)
(***************************************************************************)
EXTENDS SubmitLoop

CONSTANT Replicas   \* config.numberOfReplicas

ASSUME ReplicasOK == Replicas \in Nat \ {0}

VARIABLES
    stage,      \* how far the deploy is
    called,     \* registerJobHardened was called: the submit loop runs
    lockHeld,   \* this process holds the wallet's submit lock
    relayed,    \* history: the relay recorded the deployment
    report,     \* the report that was written: none, ok or failed
    clock,      \* the time relative to the start of the job
    envSet,     \* the variable envHasBeenSet
    envTimer,   \* the timer of the env-var stage is running
    envCall,    \* the env-var stage: none, running, set or failed
    envTx       \* the call of setEnvVars: none, pending, landed or threw

runVars == <<stage, called, lockHeld, relayed, report>>
envVars == <<envSet, envTimer, envCall, envTx>>
allVars == <<vars, runVars, clock, envVars>>

Stages == {"uploading", "locking", "submitting", "recording", "reported"}

\* Before, and within two minutes of, the start of the job; past the latest
\* start, when the env vars can no longer be of use.
Early == 0
WithinTwoMinutes == 1
PastLatestStart == 2

DeployTypeOK ==
    /\ TypeOK
    /\ stage \in Stages
    /\ called \in BOOLEAN
    /\ lockHeld \in BOOLEAN
    /\ relayed \in BOOLEAN
    /\ report \in {"none", "ok", "failed"}
    /\ clock \in Early .. PastLatestStart
    /\ envSet \in BOOLEAN
    /\ envTimer \in BOOLEAN
    /\ envCall \in {"none", "running", "set", "failed"}
    /\ envTx \in {"none", "pending", "landed", "threw"}

DeployInit ==
    /\ Init
    /\ stage = "uploading"
    /\ called = FALSE
    /\ lockHeld = FALSE
    /\ relayed = FALSE
    /\ report = "none"
    /\ clock \in Early .. PastLatestStart
    /\ envSet = FALSE
    /\ envTimer = FALSE
    /\ envCall = "none"
    /\ envTx = "none"

-------------------------------------------------------------------------------
\* The adapter's catch: whatever failed, the report says ok: false and its
\* deployment record is empty.
ReportFailure ==
    /\ stage' = "reported"
    /\ report' = "failed"

\* Connect, bundle and upload; a failure rejects deployProjectHardened.
Upload ==
    /\ stage = "uploading"
    /\ \/ stage' = "locking" /\ UNCHANGED report
       \/ ReportFailure
    /\ UNCHANGED <<vars, called, lockHeld, relayed, clock, envVars>>

\* options.acquireSubmitLock(): the lock, and with it the call of the submit
\* loop; or the lock's timeout.
AcquireSubmitLock ==
    /\ stage = "locking"
    /\ \/ stage' = "submitting" /\ called' = TRUE /\ lockHeld' = TRUE
          /\ UNCHANGED report
       \/ ReportFailure /\ UNCHANGED <<called, lockHeld>>
    /\ UNCHANGED <<vars, relayed, clock, envVars>>

\* Mistake: the release is not in a finally block.
ReleaseOnSuccess ==
    /\ stage = "submitting"
    /\ Settled
    /\ lockHeld' = Failed
    /\ IF Failed
       THEN ReportFailure
       ELSE stage' = "recording" /\ UNCHANGED report
    /\ UNCHANGED <<vars, called, relayed, clock, envVars>>

\* The finally block releases the lock once the submit loop settled.
ReleaseSubmitLock ==
    /\ stage = "submitting"
    /\ Settled
    /\ lockHeld' = FALSE
    /\ IF Failed
       THEN ReportFailure
       ELSE stage' = "recording" /\ UNCHANGED report
    /\ UNCHANGED <<vars, called, relayed, clock, envVars>>

\* Mistake: a post that fails is only logged.
RecordLeniently ==
    /\ stage = "recording"
    /\ stage' = "reported"
    /\ report' = "ok"
    /\ relayed' \in BOOLEAN
    /\ UNCHANGED <<vars, called, lockHeld, clock, envVars>>

\* The deployment is posted to the relay, with a timeout: the relay may record
\* it and the answer be lost.
RecordDeployment ==
    /\ stage = "recording"
    /\ \/ stage' = "reported" /\ report' = "ok" /\ relayed' = TRUE
       \/ ReportFailure /\ relayed' \in BOOLEAN
    /\ UNCHANGED <<vars, called, lockHeld, clock, envVars>>

-------------------------------------------------------------------------------
\* setEnv up to its await.  It needs the job id, which the callback wrapper
\* takes from the announcement of the job.
StartEnv ==
    /\ envSet' = TRUE
    /\ envTimer' = FALSE
    /\ IF JobStatusSubscribed
       THEN envCall' = "running" /\ envTx' = "pending"
       ELSE envCall' = "failed" /\ UNCHANGED envTx

\* statusCallbackWrapper on Acknowledged: with all replicas, or close to the
\* start, now; otherwise two minutes before the start.
OnAcknowledged(acknowledged) ==
    IF envSet THEN UNCHANGED envVars
    ELSE IF acknowledged >= Replicas \/ clock >= WithinTwoMinutes THEN StartEnv
    ELSE envTimer' = TRUE /\ UNCHANGED <<envSet, envCall, envTx>>

JobAcknowledged ==
    /\ JobAssigned
    /\ \E acknowledged \in 1 .. Replicas : OnAcknowledged(acknowledged)
    /\ UNCHANGED <<runVars, clock>>

EnvTimerFires ==
    /\ envTimer
    /\ clock >= WithinTwoMinutes
    /\ StartEnv
    /\ UNCHANGED <<vars, runVars, clock>>

\* setEnvVars answers or throws.  After the deadline nobody listens any more,
\* but its extrinsic can still land.
EnvAnswers ==
    /\ envTx = "pending"
    /\ envTx' \in {"landed", "threw"}
    /\ envCall' = IF envCall = "running"
                  THEN IF envTx' = "landed" THEN "set" ELSE "failed"
                  ELSE envCall
    /\ UNCHANGED <<vars, runVars, clock, envSet, envTimer>>

\* withDeadline: the stage is over past the latest start of the job.
EnvDeadline ==
    /\ envCall = "running"
    /\ clock = PastLatestStart
    /\ envCall' = "failed"
    /\ UNCHANGED <<vars, runVars, clock, envSet, envTimer, envTx>>

Advance ==
    /\ clock < PastLatestStart
    /\ clock' = clock + 1
    /\ UNCHANGED <<vars, runVars, envVars>>

\* A step of the submit loop.  What the loop leaves running, its calls and
\* subscriptions, goes on after it settled and the lock was released.
LoopStep ==
    /\ called
    /\ ChainStep \/ CallStep \/ HandleEvent \/ JobMatched \/ TimerFires
    /\ UNCHANGED <<runVars, clock, envVars>>

RunStep == Upload \/ AcquireSubmitLock \/ ReleaseSubmitLock \/ RecordDeployment

DeployNext ==
    \/ RunStep \/ LoopStep \/ JobAcknowledged
    \/ EnvTimerFires \/ EnvAnswers \/ EnvDeadline \/ Advance

DeploySpec == DeployInit /\ [][DeployNext]_allVars

\* Each step of the run has a timeout of its own, timers fire, queued callbacks
\* run, and time passes.  The node, the job and setEnvVars may never answer.
FairDeploySpec ==
    /\ DeploySpec
    /\ WF_allVars(RunStep)
    /\ WF_allVars(LoopStep /\ TimerFires)
    /\ WF_allVars(EnvTimerFires)
    /\ WF_allVars(EnvDeadline)
    /\ WF_allVars(Advance)

-------------------------------------------------------------------------------
\* A report that says ok is complete: the extrinsic was in a block, its job is
\* known, the relay recorded the deployment and the wallet is free again.
OkReportIsComplete ==
    report = "ok" => included /\ JobStatusSubscribed /\ relayed /\ ~lockHeld

\* The env vars are only set for a job whose submit succeeded: a deploy that
\* is reported as failed does not go on to spend a second extrinsic.  The one
\* exception is an extrinsic whose first status with the job is Finalized,
\* which announces the job and settles nothing (acurast-chain-submit.ts:310).
EnvOnlyAfterSuccess ==
    envSet => outcome = "resolved" \/ "finalized" \in handled

\* setEnv always has the job id it needs ("DeploymentId not set before env-var
\* submission" is never thrown), and the stage is entered or armed only by an
\* acknowledgement.
EnvKnowsJob == envSet \/ envTimer => {"WaitingForMatch", "Acknowledged"} \subseteq told

\* The wallet lock is not kept: whatever the node does, the submit loop settles
\* and the finally block frees the wallet for the next deploy.
LockIsReleased == lockHeld ~> ~lockHeld

\* A deploy is reported, whatever the node and the relay do.
DeployIsReported == <>(report # "none")

\* Once a processor acknowledged the job the env-var stage runs, at the latest
\* two minutes before the start, and ends: "Bound the whole stage"
\* (acurast-chain-submit.ts:403) although setEnvVars may hang.
EnvStageEnds == "Acknowledged" \in told ~> envCall \in {"set", "failed"}

\* What deployHardened reports and when it sends environment variables.
DeploySafe == DeployTypeOK /\ OkReportIsComplete /\ EnvOnlyAfterSuccess /\ EnvKnowsJob

\* Whatever the node, the relay and the processors do, the wallet lock is
\* released, the deploy is reported, and the stage of the variables ends.
DeployEnds == LockIsReleased /\ DeployIsReported /\ EnvStageEnds
===============================================================================
