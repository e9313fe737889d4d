---------------------------- MODULE DeployRunProofs ----------------------------
(***************************************************************************)
(* What the run directory guarantees for any number of resumes, each of    *)
(* which may end anywhere; what holds of the customer's hostname in front  *)
(* of what was deployed; of the requests to a relay, and the choice of one *)
(* to write to, for any number of calls and relays; and of what is said of *)
(* a deployment afterwards.                                                *)
(***************************************************************************)
EXTENDS DeployRun, CustomerHostname, RelayCalls, DeployChecks, FiniteSetTheorems, SequenceTheorems, TLAPS

-------------------------------------------------------------------------------
\* Where a run is in a save, in a report, in a submit.
Saving == at \in {"openRedacted", "writeRedacted", "openPrivate", "writePrivate"}

Reporting == at \in {"openReport", "writeReport"}

Submitted == at \in {"registered", "apply"} \/ (Reporting /\ after = "apply")

\* A snapshot whose workflow would go through the submit, or through the
\* funding, when it is resumed.
Unsubmitted(s) ==
    \/ s.step \in {"initialized", "capacity_selected", "intent_created",
                   "deploy_action_required"}
    \/ s.step = "failed" /\ s.action # "none"

Unpaid(s) == Unsubmitted(s) \/ s.step \in {"deploy_submitted", "quote_ready"}

\* What is in flight where.
Control ==
    /\ Saving => after \in {"loop", "finish"}
    /\ Reporting => after \in {"apply", "ended"}
    /\ at \in {"loop", "submitting", "finish"} => inFlight = {}
    /\ Reporting /\ after = "ended" => inFlight = {}
    /\ at = "submitting" \/ Submitted => mem.step = "deploy_action_required"
    /\ Submitted => inFlight \subseteq {"deploy"}
    /\ Submitted /\ at # "registered" /\ ~rep.ok => inFlight \subseteq cut
    /\ at = "funding" => mem.step = "quote_ready" /\ inFlight = {"fund"}
    /\ at = "ended" => inFlight \subseteq cut

\* Without a store there is no snapshot before the last save.
Unstored ==
    ~store => /\ Saving => after = "finish"
              /\ at \in {"loop", "submitting", "funding"} \/ Submitted =>
                    files["redacted"] = "none" /\ files["private"] = "none"

\* The redacted snapshot is written first, from the same memory.
RedactedFirst ==
    at \in {"openPrivate", "writePrivate"} =>
        redacted.step = mem.step /\ redacted.action = mem.action /\ redacted.job = mem.job

\* The job: a workflow that is not past the submit has none, and nothing else
\* hides the last job from memory and snapshots.
NoJobBeforeSubmit ==
    /\ Unsubmitted(mem) => mem.job = 0
    /\ Unsubmitted(redacted) => redacted.job = 0
    /\ Unsubmitted(private) => private.job = 0

JobRecorded ==
    "deploy" \notin cut =>
        /\ jobs <= 1
        /\ at # "ended" => mem.job = jobs \/ ("deploy" \in inFlight /\ ~Saving)
        /\ "deploy" \notin inFlight =>
              /\ files["redacted"] = "whole" => redacted.job = jobs
              /\ files["private"] = "whole" => private.job = jobs

\* The payment, likewise.
PaymentRecorded ==
    "fund" \notin cut =>
        /\ fundCalls <= 1
        /\ at \notin {"ended", "funding"} /\ Unpaid(mem) => fundCalls = 0
        /\ "fund" \notin inFlight =>
              /\ files["redacted"] = "whole" /\ Unpaid(redacted) => fundCalls = 0
              /\ files["private"] = "whole" /\ Unpaid(private) => fundCalls = 0

\* The token: it is in memory from the intent on.
TokenKept ==
    /\ at # "ended" /\ mem.step \notin BeforeIntent => mem.token
    /\ PrivateHasToken

IInv ==
    /\ TypeOK
    /\ Control
    /\ Unstored
    /\ RedactedFirst
    /\ NoJobBeforeSubmit
    /\ JobRecorded
    /\ PaymentRecorded
    /\ TokenKept
-------------------------------------------------------------------------------
\* Types.  A record keeps its type when a field gets a value of the field's.
LEMMA SnapshotExcept ==
    ASSUME NEW s \in Snapshots
    PROVE  /\ \A token \in BOOLEAN : [s EXCEPT !.token = token] \in Snapshots
           /\ \A step \in Steps :
                 /\ [s EXCEPT !.step = step] \in Snapshots
                 /\ [s EXCEPT !.step = step, !.token = TRUE] \in Snapshots
                 /\ \A action \in Actions :
                       /\ [s EXCEPT !.step = step, !.action = action] \in Snapshots
                       /\ \A last \in Nat :
                             [s EXCEPT !.step = step, !.action = action, !.job = last]
                                 \in Snapshots
BY DEF Snapshots

LEMMA NewInSnapshots == NewSnapshot \in Snapshots /\ NewReport \in Reports
BY DEF NewSnapshot, NewReport, Snapshots, Reports, Steps, Actions

LEMMA FileStepTypeOK == TypeOK /\ FileStep => TypeOK'
<1> SUFFICES ASSUME TypeOK, FileStep PROVE TypeOK'
  OBVIOUS
<1> USE DEF TypeOK, Goto, Files, Places, world, history
<1>1. ASSUME NEW f \in Files, NEW to \in Places, Open(f, at, to) PROVE TypeOK'
  BY <1>1 DEF Open
<1>2. CASE WriteRedacted
  <2>1. redacted' \in Snapshots
    BY <1>2, SnapshotExcept DEF WriteRedacted
  <2> QED
    BY <1>2, <2>1 DEF WriteRedacted
<1>3. CASE WritePrivate
  BY <1>3 DEF WritePrivate
<1>4. CASE WriteReport
  BY <1>4 DEF WriteReport
<1> QED
  BY <1>1, <1>2, <1>3, <1>4 DEF FileStep, Open

LEMMA EngineStepTypeOK == TypeOK /\ EngineStep => TypeOK'
<1> SUFFICES ASSUME TypeOK, EngineStep PROVE TypeOK'
  OBVIOUS
<1> USE DEF TypeOK, Goto, Save, EngineSaves, Places, disk, world
<1>1. ASSUME NEW from, NEW to \in Steps, Advance(from, to) PROVE TypeOK'
  <2>1. mem' \in Snapshots
    BY <1>1, SnapshotExcept DEF Advance
  <2> QED
    BY <1>1, <2>1 DEF Advance
<1>2. CASE CreateIntent
  <2>1. mem' \in Snapshots
    BY <1>2, SnapshotExcept DEF CreateIntent, Steps
  <2> QED
    BY <1>2, <2>1 DEF CreateIntent
<1>3. CASE RequireAction
  <2>1. mem' \in Snapshots
    BY <1>3, SnapshotExcept DEF RequireAction, Steps, Actions
  <2> QED
    BY <1>3, <2>1 DEF RequireAction
<1>4. CASE Fund
  BY <1>4 DEF Fund, Effects, RefusesLateFunding
<1>5. CASE Funded
  <2>1. mem' \in Snapshots
    BY <1>5, SnapshotExcept DEF Funded, Steps
  <2> QED
    BY <1>5, <2>1 DEF Funded
<1>6. CASE EngineFails
  <2>1. mem' \in Snapshots
    BY <1>6, SnapshotExcept DEF EngineFails, Steps, Actions
  <2> QED
    BY <1>6, <2>1 DEF EngineFails
<1> QED
  BY <1>1, <1>2, <1>3, <1>4, <1>5, <1>6
     DEF EngineStep, SelectCapacity, QuoteReady, Complete, Steps

LEMMA RunnerStepTypeOK == TypeOK /\ RunnerStep => TypeOK'
<1> SUFFICES ASSUME TypeOK, RunnerStep PROVE TypeOK'
  OBVIOUS
<1> USE DEF TypeOK, Goto, Save, EngineSaves, Places, disk, world, history
<1>1. CASE Submit
  BY <1>1 DEF Submit
<1>2. CASE Register
  <2>1. jobs' \in Nat /\ inFlight' \subseteq Effects
    BY <1>2 DEF Register, Effects
  <2> QED
    BY <1>2, <2>1 DEF Register
<1>3. CASE SubmitAnswers
  <2>1. rep' \in Reports
    BY <1>3 DEF SubmitAnswers, Reports
  <2> QED
    BY <1>3, <2>1 DEF SubmitAnswers
<1>4. CASE ApplyReceipt
  <2>1. mem' \in Snapshots
    BY <1>4, SnapshotExcept DEF ApplyReceipt, Steps, Actions
  <2> QED
    BY <1>4, <2>1 DEF ApplyReceipt
<1>5. CASE RunnerFails
  <2>1. mem' \in Snapshots
    BY <1>5, SnapshotExcept DEF RunnerFails, Steps, Actions
  <2> QED
    BY <1>5, <2>1 DEF RunnerFails
<1>6. CASE Finish
  BY <1>6 DEF Finish
<1>7. CASE AttachWorkflow
  <2>1. rep' \in Reports
    BY <1>7 DEF AttachWorkflow, Reports, Snapshots
  <2> QED
    BY <1>7, <2>1 DEF AttachWorkflow
<1> QED
  BY <1>1, <1>2, <1>3, <1>4, <1>5, <1>6, <1>7 DEF RunnerStep

LEMMA ResumeTypeOK == TypeOK /\ Resume => TypeOK'
<1> SUFFICES ASSUME TypeOK, Resume PROVE TypeOK'
  OBVIOUS
<1> USE DEF TypeOK, disk, world
<1>1. Loaded \in Snapshots /\ LoadedToken \in BOOLEAN
  BY DEF Loaded, LoadedToken, Reports, Snapshots
<1>2. mem' \in Snapshots
  <2>1. \A s \in Snapshots : snapshotForResume(s) \in Snapshots
    BY SnapshotExcept DEF snapshotForResume, Steps
  <2> QED
    BY <1>1, <2>1, SnapshotExcept DEF Resume
<1>3. rep' \in Reports
  BY NewInSnapshots DEF Resume
<1> QED
  BY <1>2, <1>3, MaxRunsOK DEF Resume, Places

LEMMA TypeOKNext == TypeOK /\ [Next]_vars => TypeOK'
<1> SUFFICES ASSUME TypeOK, [Next]_vars PROVE TypeOK'
  OBVIOUS
<1>1. CASE GiveUp \/ Terminate
  BY <1>1 DEF TypeOK, GiveUp, Terminate, Goto, Places, disk, world
<1>2. CASE LosePrivate
  BY <1>2 DEF TypeOK, LosePrivate, Files, control, world, history
<1>3. CASE Expire
  BY <1>3 DEF TypeOK, Expire, control, disk, history
<1>4. CASE UNCHANGED vars
  BY <1>4 DEF TypeOK, vars, control, disk, world, history
<1> QED
  BY <1>1, <1>2, <1>3, <1>4, FileStepTypeOK, EngineStepTypeOK, RunnerStepTypeOK,
     ResumeTypeOK DEF Next

-------------------------------------------------------------------------------
\* What is in flight where, step by step.
LEMMA ControlNext == IInv /\ [Next]_vars => (Control /\ Unstored /\ RedactedFirst)'
<1> SUFFICES ASSUME IInv, [Next]_vars PROVE (Control /\ Unstored /\ RedactedFirst)'
  OBVIOUS
<1> USE DEF IInv, TypeOK, Control, Unstored, RedactedFirst, Saving, Reporting, Submitted,
           control, disk, world, history, Goto, Save, EngineSaves
<1>1. ASSUME NEW f \in Files, NEW from, NEW to, Open(f, from, to),
             <<f, from, to>> \in {<<"redacted", "openRedacted", "writeRedacted">>,
                                  <<"private", "openPrivate", "writePrivate">>,
                                  <<"report", "openReport", "writeReport">>}
      PROVE  (Control /\ Unstored /\ RedactedFirst)'
  BY <1>1 DEF Open, Files
<1>2. CASE WriteRedacted
  BY <1>2 DEF WriteRedacted, Files, Snapshots
<1>3. CASE WritePrivate
  BY <1>3 DEF WritePrivate, Files
<1>4. CASE WriteReport
  BY <1>4 DEF WriteReport, Files
<1>5. ASSUME NEW from, NEW to, Advance(from, to),
             <<from, to>> \in {<<"initialized", "capacity_selected">>,
                              <<"deploy_submitted", "quote_ready">>,
                              <<"funding_submitted", "complete">>}
      PROVE  (Control /\ Unstored /\ RedactedFirst)'
  BY <1>5 DEF Advance
<1>6. CASE CreateIntent
  BY <1>6 DEF CreateIntent
<1>7. CASE RequireAction
  BY <1>7 DEF RequireAction
<1>8. CASE Fund
  BY <1>8 DEF Fund
<1>9. CASE Funded
  BY <1>9 DEF Funded
<1>10. CASE EngineFails
  BY <1>10 DEF EngineFails
<1>11. CASE Submit
  BY <1>11 DEF Submit
<1>12. CASE Register
  BY <1>12 DEF Register
<1>13. CASE SubmitAnswers
  BY <1>13 DEF SubmitAnswers
<1>14. CASE ApplyReceipt
  BY <1>14 DEF ApplyReceipt
<1>15. CASE RunnerFails
  BY <1>15 DEF RunnerFails
<1>16. CASE Finish
  BY <1>16 DEF Finish
<1>17. CASE AttachWorkflow
  BY <1>17 DEF AttachWorkflow
<1>18. CASE Resume
  BY <1>18 DEF Resume, Loaded, LoadedState, LoadedToken, Resumable, snapshotForResume
<1>19. CASE GiveUp
  BY <1>19 DEF GiveUp
<1>20. CASE Terminate
  BY <1>20 DEF Terminate
<1>21. CASE LosePrivate
  BY <1>21 DEF LosePrivate, Files
<1>22. CASE Expire
  BY <1>22 DEF Expire
<1>23. CASE UNCHANGED vars
  BY <1>23 DEF vars
<1> QED
  BY <1>1, <1>2, <1>3, <1>4, <1>5, <1>6, <1>7, <1>8, <1>9, <1>10, <1>11,
     <1>12, <1>13, <1>14, <1>15, <1>16, <1>17, <1>18, <1>19, <1>20, <1>21, <1>22, <1>23
     DEF Next, FileStep, EngineStep, RunnerStep, SelectCapacity,
         QuoteReady, Complete, Files

\* The job: only a submit adds one, and it is in flight until the save that
\* records it.
LEMMA JobNext == IInv /\ [Next]_vars => (NoJobBeforeSubmit /\ JobRecorded)'
<1> SUFFICES ASSUME IInv, [Next]_vars PROVE (NoJobBeforeSubmit /\ JobRecorded)'
  OBVIOUS
<1> USE DEF IInv, TypeOK, Control, Unstored, RedactedFirst, Saving, Reporting, Submitted,
           NoJobBeforeSubmit, JobRecorded, Unsubmitted, Snapshots,
           control, disk, world, history, Goto, Save, EngineSaves
<1>1. ASSUME NEW f \in Files, NEW from, NEW to, Open(f, from, to),
             <<f, from, to>> \in {<<"redacted", "openRedacted", "writeRedacted">>,
                                  <<"private", "openPrivate", "writePrivate">>,
                                  <<"report", "openReport", "writeReport">>}
      PROVE  (NoJobBeforeSubmit /\ JobRecorded)'
  BY <1>1 DEF Open, Files
<1>2. CASE WriteRedacted
  BY <1>2 DEF WriteRedacted, Files
<1>3. CASE WritePrivate
  BY <1>3 DEF WritePrivate, Files
<1>4. CASE WriteReport
  BY <1>4 DEF WriteReport, Files
<1>5. ASSUME NEW from, NEW to, Advance(from, to),
             <<from, to>> \in {<<"initialized", "capacity_selected">>,
                              <<"deploy_submitted", "quote_ready">>,
                              <<"funding_submitted", "complete">>}
      PROVE  (NoJobBeforeSubmit /\ JobRecorded)'
  BY <1>5 DEF Advance
<1>6. CASE CreateIntent
  BY <1>6 DEF CreateIntent
<1>7. CASE RequireAction
  BY <1>7 DEF RequireAction
<1>8. CASE Fund
  BY <1>8 DEF Fund
<1>9. CASE Funded
  BY <1>9 DEF Funded
<1>10. CASE EngineFails
  BY <1>10 DEF EngineFails
<1>11. CASE Submit
  BY <1>11 DEF Submit
<1>12. CASE Register
  BY <1>12 DEF Register
<1>13. CASE SubmitAnswers
  BY <1>13 DEF SubmitAnswers
<1>14. CASE ApplyReceipt
  BY <1>14 DEF ApplyReceipt
<1>15. CASE RunnerFails
  BY <1>15 DEF RunnerFails
<1>16. CASE Finish
  BY <1>16 DEF Finish
<1>17. CASE AttachWorkflow
  BY <1>17 DEF AttachWorkflow
<1>18. CASE Resume
  BY <1>18 DEF Resume, Loaded, LoadedState, LoadedToken, Resumable, snapshotForResume
<1>19. CASE GiveUp
  BY <1>19 DEF GiveUp
<1>20. CASE Terminate
  BY <1>20 DEF Terminate
<1>21. CASE LosePrivate
  BY <1>21 DEF LosePrivate, Files
<1>22. CASE Expire
  BY <1>22 DEF Expire
<1>23. CASE UNCHANGED vars
  BY <1>23 DEF vars
<1> QED
  BY <1>1, <1>2, <1>3, <1>4, <1>5, <1>6, <1>7, <1>8, <1>9, <1>10, <1>11,
     <1>12, <1>13, <1>14, <1>15, <1>16, <1>17, <1>18, <1>19, <1>20, <1>21, <1>22, <1>23
     DEF Next, FileStep, EngineStep, RunnerStep, SelectCapacity,
         QuoteReady, Complete, Files

\* The payment, likewise.
LEMMA PaymentNext == IInv /\ [Next]_vars => PaymentRecorded'
<1> SUFFICES ASSUME IInv, [Next]_vars PROVE PaymentRecorded'
  OBVIOUS
<1> USE DEF IInv, TypeOK, Control, Unstored, RedactedFirst, Saving, Reporting, Submitted,
           PaymentRecorded, Unpaid, Unsubmitted, Snapshots,
           control, disk, world, history, Goto, Save, EngineSaves
<1>1. ASSUME NEW f \in Files, NEW from, NEW to, Open(f, from, to),
             <<f, from, to>> \in {<<"redacted", "openRedacted", "writeRedacted">>,
                                  <<"private", "openPrivate", "writePrivate">>,
                                  <<"report", "openReport", "writeReport">>}
      PROVE  PaymentRecorded'
  BY <1>1 DEF Open, Files
<1>2. CASE WriteRedacted
  BY <1>2 DEF WriteRedacted, Files
<1>3. CASE WritePrivate
  BY <1>3 DEF WritePrivate, Files
<1>4. CASE WriteReport
  BY <1>4 DEF WriteReport, Files
<1>5. ASSUME NEW from, NEW to, Advance(from, to),
             <<from, to>> \in {<<"initialized", "capacity_selected">>,
                              <<"deploy_submitted", "quote_ready">>,
                              <<"funding_submitted", "complete">>}
      PROVE  PaymentRecorded'
  BY <1>5 DEF Advance
<1>6. CASE CreateIntent
  BY <1>6 DEF CreateIntent
<1>7. CASE RequireAction
  BY <1>7 DEF RequireAction
<1>8. CASE Fund
  BY <1>8 DEF Fund
<1>9. CASE Funded
  BY <1>9 DEF Funded
<1>10. CASE EngineFails
  BY <1>10 DEF EngineFails
<1>11. CASE Submit
  BY <1>11 DEF Submit
<1>12. CASE Register
  BY <1>12 DEF Register
<1>13. CASE SubmitAnswers
  BY <1>13 DEF SubmitAnswers
<1>14. CASE ApplyReceipt
  BY <1>14 DEF ApplyReceipt
<1>15. CASE RunnerFails
  BY <1>15 DEF RunnerFails
<1>16. CASE Finish
  BY <1>16 DEF Finish
<1>17. CASE AttachWorkflow
  BY <1>17 DEF AttachWorkflow
<1>18. CASE Resume
  BY <1>18 DEF Resume, Loaded, LoadedState, LoadedToken, Resumable, snapshotForResume
<1>19. CASE GiveUp
  BY <1>19 DEF GiveUp
<1>20. CASE Terminate
  BY <1>20 DEF Terminate
<1>21. CASE LosePrivate
  BY <1>21 DEF LosePrivate, Files
<1>22. CASE Expire
  BY <1>22 DEF Expire
<1>23. CASE UNCHANGED vars
  BY <1>23 DEF vars
<1> QED
  BY <1>1, <1>2, <1>3, <1>4, <1>5, <1>6, <1>7, <1>8, <1>9, <1>10, <1>11,
     <1>12, <1>13, <1>14, <1>15, <1>16, <1>17, <1>18, <1>19, <1>20, <1>21, <1>22, <1>23
     DEF Next, FileStep, EngineStep, RunnerStep, SelectCapacity,
         QuoteReady, Complete, Files

\* The token is never written back redacted.
LEMMA TokenNext == IInv /\ [Next]_vars => TokenKept'
<1> SUFFICES ASSUME IInv, [Next]_vars PROVE TokenKept'
  OBVIOUS
<1> USE DEF IInv, TypeOK, Control, Reporting, Submitted, TokenKept, PrivateHasToken,
           BeforeIntent, Snapshots, control, disk, world, history, Goto, Save, EngineSaves
<1>1. ASSUME NEW f \in Files, NEW from, NEW to, Open(f, from, to),
             <<f, from, to>> \in {<<"redacted", "openRedacted", "writeRedacted">>,
                                  <<"private", "openPrivate", "writePrivate">>,
                                  <<"report", "openReport", "writeReport">>}
      PROVE  TokenKept'
  BY <1>1 DEF Open, Files
<1>2. CASE WriteRedacted
  BY <1>2 DEF WriteRedacted, Files
<1>3. CASE WritePrivate
  BY <1>3 DEF WritePrivate, Files
<1>4. CASE WriteReport
  BY <1>4 DEF WriteReport, Files
<1>5. ASSUME NEW from, NEW to, Advance(from, to),
             <<from, to>> \in {<<"initialized", "capacity_selected">>,
                              <<"deploy_submitted", "quote_ready">>,
                              <<"funding_submitted", "complete">>}
      PROVE  TokenKept'
  BY <1>5 DEF Advance
<1>6. CASE CreateIntent
  BY <1>6 DEF CreateIntent
<1>7. CASE RequireAction
  BY <1>7 DEF RequireAction
<1>8. CASE Fund
  BY <1>8 DEF Fund
<1>9. CASE Funded
  BY <1>9 DEF Funded
<1>10. CASE EngineFails
  BY <1>10 DEF EngineFails
<1>11. CASE Submit
  BY <1>11 DEF Submit
<1>12. CASE Register
  BY <1>12 DEF Register
<1>13. CASE SubmitAnswers
  BY <1>13 DEF SubmitAnswers
<1>14. CASE ApplyReceipt
  BY <1>14 DEF ApplyReceipt
<1>15. CASE RunnerFails
  BY <1>15 DEF RunnerFails
<1>16. CASE Finish
  BY <1>16 DEF Finish
<1>17. CASE AttachWorkflow
  BY <1>17 DEF AttachWorkflow
<1>18. CASE Resume
  BY <1>18 DEF Resume, Loaded, LoadedState, LoadedToken, Resumable, snapshotForResume
<1>19. CASE GiveUp
  BY <1>19 DEF GiveUp
<1>20. CASE Terminate
  BY <1>20 DEF Terminate
<1>21. CASE LosePrivate
  BY <1>21 DEF LosePrivate, Files
<1>22. CASE Expire
  BY <1>22 DEF Expire
<1>23. CASE UNCHANGED vars
  BY <1>23 DEF vars
<1> QED
  BY <1>1, <1>2, <1>3, <1>4, <1>5, <1>6, <1>7, <1>8, <1>9, <1>10, <1>11,
     <1>12, <1>13, <1>14, <1>15, <1>16, <1>17, <1>18, <1>19, <1>20, <1>21, <1>22, <1>23
     DEF Next, FileStep, EngineStep, RunnerStep, SelectCapacity,
         QuoteReady, Complete, Files

-------------------------------------------------------------------------------
LEMMA IInvInit == Init => IInv
<1> SUFFICES ASSUME Init PROVE IInv
  OBVIOUS
<1> USE DEF Init
<1>1. TypeOK
  <2>1. run \in 1 .. MaxRuns
    BY MaxRunsOK
  <2>2. files \in [Files -> {"none", "torn", "whole"}]
    OBVIOUS
  <2> QED
    BY <2>1, <2>2, NewInSnapshots DEF TypeOK, Places
<1>2. Control /\ Unstored /\ RedactedFirst
  BY DEF Control, Unstored, RedactedFirst, Saving, Reporting, Submitted, Files
<1>3. NoJobBeforeSubmit /\ JobRecorded
  BY DEF NoJobBeforeSubmit, JobRecorded, Unsubmitted, NewSnapshot, Files
<1>4. PaymentRecorded
  BY DEF PaymentRecorded
<1>5. TokenKept
  BY DEF TokenKept, PrivateHasToken, BeforeIntent, NewSnapshot
<1> QED
  BY <1>1, <1>2, <1>3, <1>4, <1>5 DEF IInv

LEMMA IInvNext == IInv /\ [Next]_vars => IInv'
<1> SUFFICES ASSUME IInv, [Next]_vars PROVE IInv'
  OBVIOUS
<1>1. TypeOK'
  BY TypeOKNext DEF IInv
<1> QED
  BY <1>1, ControlNext, JobNext, PaymentNext, TokenNext DEF IInv

LEMMA Invariance == Spec => []IInv
BY IInvInit, IInvNext, PTL DEF Spec

\* Every variable keeps its type.
THEOREM TypeCorrect == Spec => []TypeOK
<1>1. IInv => TypeOK
  BY DEF IInv
<1> QED
  BY <1>1, Invariance, PTL

\* A private snapshot has its token, from wherever the resumes began.
THEOREM TokenIsKept == Spec => []PrivateHasToken
<1>1. IInv => PrivateHasToken
  BY DEF IInv, TokenKept
<1> QED
  BY <1>1, Invariance, PTL

\* A run directory that can be resumed knows the last job on the chain unless
\* the deploy was cut, however often it is resumed.
THEOREM JobIsKnown == Spec => []SnapshotKnowsJob
<1>1. IInv => SnapshotKnowsJob
  BY DEF IInv, Control, JobRecorded, SnapshotKnowsJob, Resumable, Loaded, LoadedState
<1> QED
  BY <1>1, Invariance, PTL

\* No number of resumes registers a second job unless the deploy was cut.
THEOREM SubmittedOnce == Spec => []SubmittedOnceUnlessCut
<1>1. IInv => SubmittedOnceUnlessCut
  BY DEF IInv, TypeOK, JobRecorded, SubmittedOnceUnlessCut
<1> QED
  BY <1>1, Invariance, PTL

\* No number of resumes pays a second time unless the payment was cut.
THEOREM FundedOnce == Spec => []FundedOnceUnlessCut
<1>1. IInv => FundedOnceUnlessCut
  BY DEF IInv, TypeOK, PaymentRecorded, FundedOnceUnlessCut
<1> QED
  BY <1>1, Invariance, PTL

\* Both together: nothing is registered or paid a second time unless cut.
THEOREM OnlyOnce == Spec => []OnceUnlessCut
  BY SubmittedOnce, FundedOnce, PTL DEF OnceUnlessCut

-------------------------------------------------------------------------------
\* What backs a complete report: that a step was taken is on the chain, and the
\* report is written after the snapshots, from the same memory.
PastSubmit == {"deploy_submitted", "quote_ready", "funding_submitted", "complete"}

\* What a step stands for on the chain.
Backed(step) ==
    /\ step \in PastSubmit => jobs > 0
    /\ step \in {"funding_submitted", "complete"} => fundCalls > 0

StepsAreBacked ==
    /\ Backed(mem.step) /\ Backed(redacted.step) /\ Backed(private.step)
    /\ at = "registered" => jobs > 0
    /\ Submitted /\ rep.ok => jobs > 0
    /\ at = "funding" => fundCalls > 0

\* A run that submitted holds the report of it.
RunnerHasReport == runner /\ at # "ended" /\ mem.step \in PastSubmit => rep.ok

\* The report is made after the save, from the same memory.
SavedFirst ==
    /\ at \in {"writeRedacted", "openPrivate", "writePrivate"} => files["redacted"] # "none"
    /\ at = "finish" \/ (Reporting /\ after = "ended") =>
          /\ files["redacted"] # "none"
          /\ redacted.step = mem.step /\ private.step = mem.step

ReportIsOfMemory ==
    /\ Submitted /\ at # "registered" => rep.step = "none"
    /\ Reporting /\ after = "ended" => rep.step = mem.step
    /\ rep.step = "complete" => rep.ok
    /\ report.step = "complete" => report.ok

\* Nothing leaves a complete workflow.
CompleteStays ==
    files["report"] = "whole" /\ report.step = "complete" =>
        /\ files["redacted"] # "none"
        /\ files["redacted"] = "whole" => redacted.step = "complete"
        /\ files["private"] = "whole" => private.step = "complete"
        /\ at # "ended" => mem.step = "complete"
        /\ jobs > 0 /\ fundCalls > 0

Backing ==
    /\ StepsAreBacked
    /\ RunnerHasReport
    /\ SavedFirst
    /\ ReportIsOfMemory
    /\ CompleteStays

LEMMA BackingNext == IInv /\ Backing /\ [Next]_vars => Backing'
<1> SUFFICES ASSUME IInv, Backing, [Next]_vars PROVE Backing'
  OBVIOUS
<1> USE DEF IInv, TypeOK, Control, RedactedFirst, Saving, Reporting, Submitted,
           Snapshots, Reports, Backing, StepsAreBacked, Backed, PastSubmit, RunnerHasReport,
           SavedFirst, ReportIsOfMemory, CompleteStays,
           control, disk, world, history, Goto, Save, EngineSaves
<1>1. ASSUME NEW f \in Files, NEW from, NEW to, Open(f, from, to),
             <<f, from, to>> \in {<<"redacted", "openRedacted", "writeRedacted">>,
                                  <<"private", "openPrivate", "writePrivate">>,
                                  <<"report", "openReport", "writeReport">>}
      PROVE  Backing'
  BY <1>1 DEF Open, Files
<1>2. CASE WriteRedacted
  BY <1>2 DEF WriteRedacted, Files
<1>3. CASE WritePrivate
  BY <1>3 DEF WritePrivate, Files
<1>4. CASE WriteReport
  BY <1>4 DEF WriteReport, Files
<1>5. ASSUME NEW from, NEW to, Advance(from, to),
             <<from, to>> \in {<<"initialized", "capacity_selected">>,
                              <<"deploy_submitted", "quote_ready">>,
                              <<"funding_submitted", "complete">>}
      PROVE  Backing'
  BY <1>5 DEF Advance
<1>6. CASE CreateIntent
  BY ZenonT(40), <1>6 DEF CreateIntent
<1>7. CASE RequireAction
  BY <1>7 DEF RequireAction
<1>8. CASE Fund
  BY <1>8 DEF Fund
<1>9. CASE Funded
  BY <1>9 DEF Funded
<1>10. CASE EngineFails
  BY <1>10 DEF EngineFails
<1>11. CASE Submit
  BY <1>11 DEF Submit
<1>12. CASE Register
  BY <1>12 DEF Register
<1>13. CASE SubmitAnswers
  BY <1>13 DEF SubmitAnswers
<1>14. CASE ApplyReceipt
  BY <1>14 DEF ApplyReceipt
<1>15. CASE RunnerFails
  BY <1>15 DEF RunnerFails
<1>16. CASE Finish
  BY <1>16 DEF Finish
<1>17. CASE AttachWorkflow
  BY <1>17 DEF AttachWorkflow
<1>18. CASE Resume
  BY <1>18 DEF Resume, Loaded, LoadedState, LoadedToken, Resumable, snapshotForResume, NewReport
<1>19. CASE GiveUp
  BY <1>19 DEF GiveUp
<1>20. CASE Terminate
  BY <1>20 DEF Terminate
<1>21. CASE LosePrivate
  BY <1>21 DEF LosePrivate, Files
<1>22. CASE Expire
  BY <1>22 DEF Expire
<1>23. CASE UNCHANGED vars
  BY <1>23 DEF vars
<1> QED
  BY <1>1, <1>2, <1>3, <1>4, <1>5, <1>6, <1>7, <1>8, <1>9, <1>10, <1>11,
     <1>12, <1>13, <1>14, <1>15, <1>16, <1>17, <1>18, <1>19, <1>20, <1>21, <1>22, <1>23
     DEF Next, FileStep, EngineStep, RunnerStep, SelectCapacity,
         QuoteReady, Complete, Files

\* A complete report is ok, paid for, and said by no snapshot to be otherwise.
THEOREM CompleteIsBacked == Spec => []CompleteReportIsBacked
<1>1. Init => Backing
  BY DEF Init, Backing, StepsAreBacked, Backed, PastSubmit, RunnerHasReport, SavedFirst,
         ReportIsOfMemory, CompleteStays, Reporting, Submitted, NewSnapshot, NewReport, Files
<1>2. Backing => CompleteReportIsBacked
  BY DEF Backing, ReportIsOfMemory, CompleteStays, CompleteReportIsBacked
<1> QED
  BY <1>1, <1>2, Invariance, BackingNext, PTL DEF Spec

\* What a run directory says, all of it.
THEOREM RunIsSafe == Spec => []RunSafe
  BY TypeCorrect, JobIsKnown, TokenIsKept, CompleteIsBacked, PTL DEF RunSafe
-------------------------------------------------------------------------------
(***************************************************************************)
(* The customer's hostname                                                 *)
(***************************************************************************)

Walks == [chain : Seq(Hosts), at : {"walking", "ok", "failed"}]

\* What is known of one walk: it began at the hostname and followed records
\* that there were; while it goes on it has a hop left and is not at the target.
WalkIsSound(w) ==
    /\ w.chain # <<>>
    /\ w.chain[1] = "customer"
    /\ Len(w.chain) <= MaxHops + 1
    /\ \A i \in 1..(Len(w.chain) - 1) : <<w.chain[i], w.chain[i + 1]>> \in records
    /\ w.at = "walking" => Len(w.chain) <= MaxHops /\ w.chain[Len(w.chain)] # "target"
    /\ w.at = "ok" => w.chain[Len(w.chain)] = "target"

\* The validation: the record of a name is one of those that were seen, and a
\* hostname that was called valid has every walk at the target.
WalksInv ==
    /\ walk \in [Resolvers -> Walks]
    /\ \A h \in DOMAIN cname : <<h, cname[h]>> \in records
    /\ \A r \in Resolvers : WalkIsSound(walk[r])
    /\ cnameOk = "ok" => EveryResolver(walk)

HostnameInv == HostTypeOK /\ RightKeySigns /\ WalksInv

\* A walk that is sound stays so when there are more records.
LEMMA MoreRecords ==
    ASSUME NEW w, WalkIsSound(w), records \subseteq records'
    PROVE  WalkIsSound(w)'
BY DEF WalkIsSound

\* The hop along the record of the last name keeps a walk sound.
LEMMA HopIsSound ==
    ASSUME NEW w \in Walks, WalkIsSound(w), w.at = "walking",
           NEW next \in Hosts, <<w.chain[Len(w.chain)], next>> \in records
    PROVE  LET v == [chain |-> Append(w.chain, next), at |-> AfterHop(Append(w.chain, next))]
           IN  v \in Walks /\ WalkIsSound(v)
<1> DEFINE c == w.chain
           d == Append(c, next)
           v == [chain |-> d, at |-> AfterHop(d)]
<1>1. c \in Seq(Hosts) /\ c # <<>> /\ Len(c) \in Nat \ {0}
  BY EmptySeq DEF Walks, WalkIsSound
<1>2. d \in Seq(Hosts) /\ Len(d) = Len(c) + 1 /\ d[Len(d)] = next /\ d # <<>>
  BY <1>1
<1>3. \A i \in 1..Len(c) : d[i] = c[i]
  BY <1>1
<1>4. AfterHop(d) \in {"walking", "ok", "failed"}
  BY DEF AfterHop
<1>5. v \in Walks
  BY <1>2, <1>4 DEF Walks
<1>6. Len(c) <= MaxHops /\ c[1] = "customer"
  BY DEF WalkIsSound
<1>7. \A i \in 1..(Len(d) - 1) : <<d[i], d[i + 1]>> \in records
  <2> SUFFICES ASSUME NEW i \in 1..Len(c) PROVE <<d[i], d[i + 1]>> \in records
    BY <1>1, <1>2
  <2>1. CASE i = Len(c)
    BY <2>1, <1>2, <1>3, <1>1
  <2>2. CASE i < Len(c)
    <3>1. i \in 1..(Len(c) - 1) /\ i + 1 \in 1..Len(c)
      BY <2>2, <1>1
    <3>2. <<c[i], c[i + 1]>> \in records
      BY <3>1 DEF WalkIsSound
    <3> QED
      BY <3>1, <3>2, <1>3
  <2> QED
    BY <2>1, <2>2, <1>1
<1>8. AfterHop(d) = "walking" => Len(d) <= MaxHops /\ d[Len(d)] # "target"
  BY <1>2, <1>1, HopsOK DEF AfterHop
<1>9. AfterHop(d) = "ok" => d[Len(d)] = "target"
  BY DEF AfterHop
<1>10. d[1] = "customer" /\ Len(d) <= MaxHops + 1
  BY <1>1, <1>2, <1>3, <1>6, HopsOK
<1>11. WalkIsSound(v)
  <2>1. v.chain = d /\ v.at = AfterHop(d)
    OBVIOUS
  <2> HIDE DEF v, d
  <2> QED
    BY <2>1, <1>2, <1>7, <1>8, <1>9, <1>10 DEF WalkIsSound
<1> QED
  BY <1>5, <1>11

LEMMA HostnameInitInv == HostInit /\ WalkInit => HostnameInv
<1> SUFFICES ASSUME HostInit, WalkInit PROVE HostnameInv
  OBVIOUS
<1>1. <<"customer">> \in Seq(Hosts) /\ Len(<<"customer">>) = 1 /\ <<"customer">>[1] = "customer"
  BY DEF Hosts
<1>2. walk \in [Resolvers -> Walks]
  BY <1>1 DEF WalkInit, Walks
<1>3. \A r \in Resolvers : walk[r].chain = <<"customer">> /\ walk[r].at = "walking"
  BY DEF WalkInit
<1>4. \A r \in Resolvers : WalkIsSound(walk[r])
  <2>1. 1 <= MaxHops /\ 1 <= MaxHops + 1
    BY HopsOK
  <2>2. <<"customer">> # <<>>
    BY <1>1
  <2>3. \A i \in 1..(1 - 1) : FALSE
    OBVIOUS
  <2> SUFFICES ASSUME NEW r \in Resolvers PROVE WalkIsSound(walk[r])
    OBVIOUS
  <2>4. \A i \in 1..(Len(walk[r].chain) - 1) :
           <<walk[r].chain[i], walk[r].chain[i + 1]>> \in records
    BY <2>3, <1>1, <1>3
  <2> QED
    BY <2>1, <2>2, <2>4, <1>1, <1>3 DEF WalkIsSound
<1>5. WalksInv
  BY <1>2, <1>4 DEF WalksInv, WalkInit
<1>6. HostTypeOK
  <2>1. \A r \in Resolvers : Len(walk[r].chain) <= MaxHops + 1
    BY <1>4 DEF WalkIsSound
  <2> QED
    BY <2>1, HopsOK DEF HostTypeOK, HostInit, WalkInit
<1>7. RightKeySigns
  BY DEF HostInit, RightKeySigns
<1> QED
  BY <1>5, <1>6, <1>7 DEF HostnameInv

\* The command: the signer is chosen once, by what fits.
LEMMA HostNextInv == HostnameInv /\ HostNext /\ UNCHANGED walkVars => HostnameInv'
<1> SUFFICES ASSUME HostnameInv, HostNext, UNCHANGED walkVars PROVE HostnameInv'
  OBVIOUS
<1> USE DEF HostnameInv
<1>1. WalksInv'
  BY DEF WalksInv, WalkIsSound, EveryResolver, walkVars
<1>2. /\ attached' \in HostStatuses /\ host' \in Commands
      /\ RightKeySigns'
  <2> host \in Commands /\ attached \in HostStatuses
    BY DEF HostTypeOK
  <2>1. CASE ResolveSigner
    <3>1. SignerOf \in Keys /\ (SignerOf # "none" => Fits(SignerOf))
      BY DEF SignerOf, Fits, Commands, Keys
    <3>2. SignerOf = "none" =>
             /\ host.evm # "developer"
             /\ ~host.explicit => "developer" \notin {host.first, host.second}
      BY DEF SignerOf, Fits
    <3>3. CASE host.op = "status"
      BY <2>1, <3>3 DEF ResolveSigner, HostMoves, Commands, RightKeySigns
    <3>4. CASE host.op # "status"
      <4> DEFINE place == IF SignerOf = "none" THEN "no signer" ELSE "post"
      <4>1. PICK key \in Keys : key = SignerOf
        BY <3>1
      <4>2. host' = [host EXCEPT !.signer = key, !.place = place] /\ attached' = attached
        BY <2>1, <3>4, <4>1 DEF ResolveSigner
      <4>3. place \in {"no signer", "post"} /\ (place = "no signer" => key = "none")
        BY <4>1
      <4> HIDE DEF place
      <4>4. host' \in Commands
        BY <4>2, <4>3 DEF Commands
      <4>5. key # "none" /\ host.known => key = "developer"
        BY <3>1, <4>1 DEF Fits
      <4> QED
        BY <4>2, <4>3, <4>4, <4>5, <3>2, <4>1 DEF RightKeySigns, Commands
    <3> QED
      BY <3>3, <3>4
  <2>2. CASE Post
    <3>1. attached' \in HostStatuses
      BY <2>2 DEF Post, HostStatuses
    <3>2. \E place \in {"error", "poll", "done"}, latest \in HostStatuses \cup {"unread"} :
             host' = [host EXCEPT !.latest = latest, !.place = place]
      <4>1. CASE HostMoves("error")
        <5>1. host' = [host EXCEPT !.latest = host.latest, !.place = "error"]
          BY <4>1 DEF HostMoves, Commands
        <5> QED
          BY <5>1 DEF Commands
      <4>2. CASE ~HostMoves("error")
        BY <2>2, <4>2, <3>1 DEF Post
      <4> QED
        BY <4>1, <4>2
    <3> QED
      BY <3>1, <3>2 DEF Commands, RightKeySigns
  <2>3. CASE Poll
    <3>1. \E place \in {"error", "sleep", "done"}, latest \in HostStatuses \cup {"unread"} :
             host' = [host EXCEPT !.latest = latest, !.place = place]
      <4>1. CASE HostMoves("error")
        <5>1. host' = [host EXCEPT !.latest = host.latest, !.place = "error"]
          BY <4>1 DEF HostMoves, Commands
        <5> QED
          BY <5>1 DEF Commands
      <4>2. CASE ~HostMoves("error")
        BY <2>3, <4>2 DEF Poll
      <4> QED
        BY <4>1, <4>2
    <3> QED
      BY <2>3, <3>1 DEF Commands, RightKeySigns, Poll
  <2>4. CASE Wake
    BY <2>4 DEF Wake, HostMoves, Commands, RightKeySigns
  <2>5. CASE RelayStep
    BY <2>5 DEF RelayStep, RightKeySigns
  <2> QED
    BY <2>1, <2>2, <2>3, <2>4, <2>5 DEF HostNext
<1>3. HostTypeOK'
  BY <1>2 DEF HostTypeOK, walkVars
<1> QED
  BY <1>1, <1>2, <1>3

\* The validation, record by record and hop by hop.
LEMMA WalkNextInv == HostnameInv /\ WalkNext /\ UNCHANGED hostVars => HostnameInv'
<1> SUFFICES ASSUME HostnameInv, WalkNext, UNCHANGED hostVars PROVE HostnameInv'
  OBVIOUS
<1> USE DEF HostnameInv
<1>1. RightKeySigns'
  BY DEF RightKeySigns, hostVars
<1> DEFINE WalkTypes ==
               /\ cname \in [Hosts \ {"target"} -> Hosts \cup {"none"}]
               /\ cnameOk \in {"open", "ok", "failed"}
               /\ dnsMoves \in 0..MaxDnsMoves
<1>2. WalkTypes' /\ WalksInv'
  <2> WalkTypes /\ WalksInv
    BY DEF HostTypeOK
  <2>1. CASE RecordsMove
    <3>1. PICK h \in DOMAIN cname, to \in Hosts \cup {"none"} :
             /\ cname' = [cname EXCEPT ![h] = to]
             /\ records' = records \cup {<<h, to>>}
      BY <2>1 DEF RecordsMove
    <3>2. walk' = walk /\ cnameOk' = cnameOk /\ cnameOk = "open"
      BY <2>1 DEF RecordsMove
    <3>3. dnsMoves' \in 0..MaxDnsMoves
      BY <2>1, HopsOK DEF RecordsMove
    <3>4. \A r \in Resolvers : WalkIsSound(walk[r])'
      BY <3>1, <3>2, MoreRecords DEF WalksInv
    <3>5. \A g \in DOMAIN cname' : <<g, cname'[g]>> \in records'
      BY <3>1 DEF WalksInv
    <3> QED
      BY <3>1, <3>2, <3>3, <3>4, <3>5 DEF WalksInv
  <2>2. ASSUME NEW r \in Resolvers, Hop(r) PROVE WalkTypes' /\ WalksInv'
    <3>1. PICK w \in Walks : w = walk[r]
      BY DEF WalksInv
    <3>2. /\ UNCHANGED <<cname, cnameOk, records, dnsMoves>>
          /\ w.at = "walking" /\ WalkIsSound(w)
      BY <2>2, <3>1 DEF Hop, WalksInv
    <3> DEFINE here == w.chain[Len(w.chain)]
    <3>3. here \in DOMAIN cname
      <4>1. Len(w.chain) \in 1..Len(w.chain) /\ w.chain \in Seq(Hosts)
        BY <3>2, EmptySeq DEF WalkIsSound, Walks
      <4>2. here \in Hosts /\ here # "target"
        BY <4>1, <3>2 DEF WalkIsSound
      <4> QED
        BY <4>2
    <3>4. PICK v \in Walks : walk' = [walk EXCEPT ![r] = v] /\ WalkIsSound(v)
      <4>1. CASE walk' = [walk EXCEPT ![r].at = "failed"]
        <5> DEFINE v == [w EXCEPT !.at = "failed"]
        <5>1. walk' = [walk EXCEPT ![r] = v]
          BY <4>1, <3>1
        <5>2. v \in Walks /\ v.chain = w.chain /\ v.at = "failed"
          BY DEF Walks
        <5>3. WalkIsSound(v)
          BY <5>2, <3>2 DEF WalkIsSound
        <5> QED
          BY <5>1, <5>2, <5>3
      <4>2. CASE ~(walk' = [walk EXCEPT ![r].at = "failed"])
        <5> DEFINE chain == Append(w.chain, cname[here])
                   v == [chain |-> chain, at |-> AfterHop(chain)]
        <5>1. cname[here] # "none" /\ walk' = [walk EXCEPT ![r] = v]
          BY <2>2, <4>2, <3>1 DEF Hop
        <5>2. PICK next \in Hosts : next = cname[here]
          BY <5>1, <3>3
        <5>3. <<here, next>> \in records
          BY <5>2, <3>3 DEF WalksInv
        <5>4. v \in Walks /\ WalkIsSound(v)
          BY <5>2, <5>3, <3>2, HopIsSound
        <5> QED
          BY <5>1, <5>4
      <4> QED
        BY <4>1, <4>2
    <3>5. WalkIsSound(v)'
      BY <3>2, <3>4, MoreRecords
    <3>6. \A q \in Resolvers : WalkIsSound(walk[q])'
      <4> SUFFICES ASSUME NEW q \in Resolvers PROVE WalkIsSound(walk[q])'
        OBVIOUS
      <4>1. PICK u \in Walks : u = walk[q] /\ WalkIsSound(u)
        BY DEF WalksInv
      <4>2. WalkIsSound(u)'
        BY <4>1, <3>2, MoreRecords
      <4>3. walk[q]' = IF q = r THEN v ELSE u
        BY <3>4, <4>1 DEF WalksInv
      <4> QED
        BY <4>2, <4>3, <3>5
    <3>7. walk' \in [Resolvers -> Walks]
      BY <3>4 DEF WalksInv
    <3>8. cnameOk # "ok"
      BY <3>1, <3>2 DEF WalksInv, EveryResolver
    <3> QED
      BY <3>2, <3>6, <3>7, <3>8 DEF WalksInv
  <2>3. CASE EndOfWalks
    BY <2>3 DEF EndOfWalks, WalksInv, WalkIsSound, EveryResolver
  <2> QED
    BY <2>1, <2>2, <2>3 DEF WalkNext
<1>3. HostTypeOK'
  <2>1. (\A r \in Resolvers : Len(walk[r].chain) <= MaxHops + 1)'
    BY <1>2 DEF WalksInv, WalkIsSound
  <2> QED
    BY <1>2, <2>1 DEF HostTypeOK, hostVars
<1> QED
  BY <1>1, <1>2, <1>3

\* A customer's hostname is bound with the developer's key, and called valid
\* only if every resolver was led to the target, for any number of resolvers,
\* hops and changes of the DNS (resolveCustomerHostnameSigner,
\* validateCnameTarget).
THEOREM HostnamesAreSafe == HostnameSpec => []HostnamesSafe
<1>1. HostnameInv /\ [ \/ HostNext /\ UNCHANGED walkVars
                       \/ WalkNext /\ UNCHANGED hostVars ]_<<hostVars, walkVars>> => HostnameInv'
  <2>1. HostnameInv /\ UNCHANGED <<hostVars, walkVars>> => HostnameInv'
    BY DEF HostnameInv, HostTypeOK, RightKeySigns, WalksInv, WalkIsSound, EveryResolver,
           hostVars, walkVars
  <2> QED
    BY <2>1, HostNextInv, WalkNextInv
<1>2. HostnameInv => HostnamesSafe
  BY DEF HostnameInv, HostnamesSafe, WalksInv, WalkIsSound, EveryResolver, ValidIsLedToTarget
<1> QED
  BY <1>1, <1>2, HostnameInitInv, PTL DEF HostnameSpec
-------------------------------------------------------------------------------
(***************************************************************************)
(* Requests to a relay                                                     *)
(***************************************************************************)

CallRecords ==
    [kind : CallKinds, at : CallPlaces, attempt : Nat \ {0}, until : Nat,
     aborted : {Never} \cup Nat, taken : Nat, refused : Nat, doomed : BOOLEAN]

ServerRecords == [up : BOOLEAN, outages : Nat, length : Nat, longest : Nat]

\* The seconds of pauses before an attempt of a readback.
Waited == <<0, 1, 3, 7>>

LastAttempt(c) ==
    CASE c.kind = "readback" -> ReadbackAttempts
      [] c.kind = "signed" -> SignedRetries + 1
      [] OTHER -> 1

OnItsWay(c) == c.at \in {"flight", "taken"}

\* How far a call has come: the attempts bound what the relay took and refused,
\* and a signed body that is to go out again was refused each time before.
CountsAreSound(c) ==
    /\ c.attempt <= LastAttempt(c)
    /\ c.at = "pause" => c.attempt < LastAttempt(c)
    /\ c.taken <= c.attempt /\ c.refused <= c.attempt
    /\ c.at \in {"send", "flight"} => c.taken < c.attempt
    /\ c.at \in {"send", "flight", "taken"} => c.refused < c.attempt
    /\ c.kind = "signed" =>
          /\ c.taken <= c.refused + 1
          /\ c.at \in {"send", "flight", "pause"} => c.taken <= c.refused

\* A pause is of four seconds at most, and only a call in a pause or about to
\* be sent goes on after its caller gave it up.
TimesAreSound(c) ==
    /\ c.until <= second + 4
    /\ c.aborted <= second
    /\ c.at = "pause" => second <= c.until
    /\ c.at = "pause" /\ c.aborted # Never => c.until <= c.aborted + 4
    /\ c.at \notin {"answered", "failed"} /\ c.aborted # Never =>
          c.at \in {"send", "pause"} /\ c.kind # "signed" /\ second <= c.aborted + 4

\* What an outage that is the only one has lasted, seen from a readback: all
\* the pauses since the attempt that it made fail first.
OutageIsSound(c) ==
    /\ c.attempt > 1 \/ c.at = "pause" \/ (OnItsWay(c) /\ c.doomed) => server.outages > 0
    /\ c.kind = "readback" /\ server.outages = 1 =>
          /\ c.at = "send" /\ ~server.up => server.length >= Waited[c.attempt]
          /\ OnItsWay(c) /\ c.doomed =>
                /\ server.longest >= Waited[c.attempt]
                /\ ~server.up => server.length >= Waited[c.attempt]
          /\ c.at = "pause" /\ ~server.up =>
                server.length + c.until >= second + Waited[c.attempt + 1]
    /\ c.kind = "readback" /\ c.at = "failed" /\ c.aborted = Never =>
          server.outages > 1 \/ server.longest >= 7

CallIsSound(c) == CountsAreSound(c) /\ TimesAreSound(c) /\ OutageIsSound(c)

ClockIsSound ==
    /\ second \in 0..MaxSeconds
    /\ server \in ServerRecords
    /\ server.outages <= MaxOutages
    /\ server.length <= server.longest /\ server.longest <= second
    /\ ~server.up => server.outages > 0

CallsInv ==
    /\ ClockIsSound
    /\ call \in [Calls -> CallRecords]
    /\ \A k \in Calls : CallIsSound(call[k])

\* The pauses add up.
LEMMA PausesAddUp ==
    /\ \A a \in {1, 2, 3} : <<1, 2, 4>>[a] \in 1..4 /\ Waited[a + 1] = Waited[a] + <<1, 2, 4>>[a]
    /\ \A a \in {1, 2, 3, 4} : Waited[a] \in 0..7
    /\ Waited[1] = 0 /\ Waited[4] = 7
<1>1. Waited[1] = 0 /\ Waited[2] = 1 /\ Waited[3] = 3 /\ Waited[4] = 7
  BY DEF Waited
<1>2. <<1, 2, 4>>[1] = 1 /\ <<1, 2, 4>>[2] = 2 /\ <<1, 2, 4>>[3] = 4
  OBVIOUS
<1>3. ASSUME NEW a \in {1, 2, 3}
      PROVE  <<1, 2, 4>>[a] \in 1..4 /\ Waited[a + 1] = Waited[a] + <<1, 2, 4>>[a]
  <2>1. CASE a = 1
    <3>1. a + 1 = 2
      BY <2>1
    <3> QED
      BY <1>1, <1>2, <2>1, <3>1
  <2>2. CASE a = 2
    <3>1. a + 1 = 3
      BY <2>2
    <3> QED
      BY <1>1, <1>2, <2>2, <3>1
  <2>3. CASE a = 3
    <3>1. a + 1 = 4
      BY <2>3
    <3> QED
      BY <1>1, <1>2, <2>3, <3>1
  <2> QED
    BY <2>1, <2>2, <2>3
<1> QED
  BY <1>1, <1>3

LEMMA CallsInitInv == CallsInit => CallsInv
<1> SUFFICES ASSUME CallsInit PROVE CallsInv
  OBVIOUS
<1>1. ClockIsSound
  BY CallConstantsOK DEF CallsInit, ClockIsSound, ServerRecords
<1>2. PICK kind \in [Calls -> CallKinds] :
         call = [k \in Calls |->
                    [kind |-> kind[k], at |-> "send", attempt |-> 1, until |-> 0, aborted |-> Never,
                     taken |-> 0, refused |-> 0, doomed |-> FALSE]]
  BY DEF CallsInit
<1>3. ASSUME NEW k \in Calls PROVE call[k] \in CallRecords /\ CallIsSound(call[k])
  <2>1. PICK c : c = call[k]
    OBVIOUS
  <2>2. /\ c.kind \in CallKinds /\ c.at = "send" /\ c.attempt = 1 /\ c.until = 0
        /\ c.aborted = Never /\ c.taken = 0 /\ c.refused = 0 /\ c.doomed = FALSE
        /\ c \in CallRecords
    BY <1>2, <2>1 DEF CallRecords, CallPlaces
  <2>3. 1 <= LastAttempt(c)
    BY CallConstantsOK DEF LastAttempt, ReadbackAttempts
  <2>4. CountsAreSound(c)
    BY <2>2, <2>3 DEF CountsAreSound
  <2>5. TimesAreSound(c)
    BY <2>2 DEF TimesAreSound, CallsInit, Never
  <2>6. OutageIsSound(c)
    BY <2>2 DEF OutageIsSound, OnItsWay, CallsInit
  <2> QED
    BY <2>1, <2>2, <2>4, <2>5, <2>6 DEF CallIsSound
<1>4. call \in [Calls -> CallRecords]
  BY <1>2, <1>3
<1> QED
  BY <1>1, <1>3, <1>4 DEF CallsInv

(***************************************************************************)
(* The relay and time                                                      *)
(***************************************************************************)

LEMMA GoesDownInv == CallsInv /\ GoesDown => CallsInv'
<1> SUFFICES ASSUME CallsInv, GoesDown PROVE CallsInv'
  OBVIOUS
<1>5. server \in ServerRecords /\ server.outages < MaxOutages /\ second' = second
  BY DEF CallsInv, GoesDown, ClockIsSound
<1>6. PICK outages \in Nat : outages = server.outages + 1
  BY <1>5 DEF ServerRecords
<1>7. server' = [server EXCEPT !.up = FALSE, !.outages = outages, !.length = 0]
  BY <1>6 DEF GoesDown
<1>8. /\ server' \in ServerRecords /\ server'.outages = outages
      /\ server'.length = 0 /\ server'.longest = server.longest
  BY <1>5, <1>7 DEF ServerRecords
<1>1. ClockIsSound'
  <2>1. outages <= MaxOutages /\ outages > 0
    BY <1>5, <1>6, CallConstantsOK DEF ServerRecords
  <2>2. 0 <= server.longest
    BY <1>5 DEF ServerRecords
  <2> QED
    BY <1>5, <1>8, <2>1, <2>2 DEF CallsInv, ClockIsSound
<1>2. /\ server.up /\ server'.up = FALSE /\ server'.outages = server.outages + 1
      /\ server'.length = 0 /\ server'.longest = server.longest /\ second' = second
      /\ server.outages \in Nat /\ server.longest \in Nat
  BY DEF CallsInv, GoesDown, ClockIsSound, ServerRecords
<1>3. ASSUME NEW k \in Calls PROVE call'[k] \in CallRecords /\ CallIsSound(call[k])'
  <2>1. PICK c \in CallRecords : c = call[k] /\ CallIsSound(c)
    BY DEF CallsInv
  <2>2. PICK doomed \in BOOLEAN : doomed = (c.doomed \/ OnItsWay(c))
    OBVIOUS
  <2>3. PICK d : d = [c EXCEPT !.doomed = doomed]
    OBVIOUS
  <2>4. call'[k] = d
    BY <2>1, <2>2, <2>3 DEF GoesDown, InFlight, OnItsWay
  <2>5. /\ d \in CallRecords /\ d.doomed = doomed
        /\ d.kind = c.kind /\ d.at = c.at /\ d.attempt = c.attempt /\ d.until = c.until
        /\ d.aborted = c.aborted /\ d.taken = c.taken /\ d.refused = c.refused
    BY <2>3 DEF CallRecords
  <2>6. CountsAreSound(d) /\ TimesAreSound(d)'
    BY <2>1, <2>5, <1>2 DEF CallIsSound, CountsAreSound, TimesAreSound, LastAttempt
  <2>8. CountsAreSound(d)'
    BY <2>6 DEF CountsAreSound, LastAttempt
  <2>7. OutageIsSound(d)'
    <3>1. server'.outages > 0
      BY <1>2
    <3>2. d.kind = "readback" /\ d.at = "failed" /\ d.aborted = Never =>
             server'.outages > 1 \/ server'.longest >= 7
      BY <1>2, <2>1, <2>5 DEF CallIsSound, OutageIsSound
    <3>3. CASE server.outages = 0
      <4>1. d.attempt = 1 /\ d.at # "pause" /\ Waited[1] = 0
        BY <2>1, <2>5, <3>3, PausesAddUp DEF CallIsSound, OutageIsSound, CallRecords
      <4> QED
        BY <1>2, <3>1, <3>2, <4>1 DEF OutageIsSound
    <3>4. CASE server.outages # 0
      <4>1. server'.outages # 1
        BY <1>2, <3>4
      <4> QED
        BY <3>1, <3>2, <4>1 DEF OutageIsSound
    <3> QED
      BY <3>3, <3>4
  <2> QED
    BY <2>4, <2>5, <2>6, <2>7, <2>8 DEF CallIsSound
<1>4. call' \in [Calls -> CallRecords]
  BY <1>3 DEF GoesDown
<1> QED
  BY <1>1, <1>3, <1>4 DEF CallsInv

LEMMA ComesBackInv == CallsInv /\ ComesBack => CallsInv'
<1> SUFFICES ASSUME CallsInv, ComesBack PROVE CallsInv'
  OBVIOUS
<1>1. ClockIsSound'
  BY DEF CallsInv, ComesBack, ClockIsSound, ServerRecords
<1>2. /\ server'.up = TRUE /\ server'.outages = server.outages
      /\ server'.longest = server.longest /\ second' = second /\ call' = call
  BY DEF CallsInv, ComesBack, ClockIsSound, ServerRecords
<1>3. ASSUME NEW k \in Calls PROVE CallIsSound(call[k])'
  <2>1. PICK c \in CallRecords : c = call[k] /\ CallIsSound(c)
    BY DEF CallsInv
  <2>2. CountsAreSound(c) /\ TimesAreSound(c)'
    BY <2>1, <1>2 DEF CallIsSound, TimesAreSound
  <2>3. OutageIsSound(c)'
    BY <2>1, <1>2 DEF CallIsSound, OutageIsSound
  <2> QED
    BY <2>1, <2>2, <2>3, <1>2 DEF CallIsSound, CountsAreSound, LastAttempt
<1> QED
  BY <1>1, <1>2, <1>3 DEF CallsInv

LEMMA SecondPassesInv == CallsInv /\ SecondPasses => CallsInv'
<1> SUFFICES ASSUME CallsInv, SecondPasses PROVE CallsInv'
  OBVIOUS
<1> DEFINE length == IF server.up THEN server.length ELSE server.length + 1
           longest == IF length > server.longest THEN length ELSE server.longest
<1>1. /\ server \in ServerRecords /\ second \in Nat
      /\ second < MaxSeconds /\ second' = second + 1 /\ call' = call
      /\ server' = [server EXCEPT !.length = length, !.longest = longest]
  BY CallConstantsOK DEF CallsInv, SecondPasses, ClockIsSound
<1>2. /\ length \in Nat /\ longest \in Nat /\ length <= longest /\ longest >= server.longest
      /\ longest <= second + 1 /\ length >= server.length
      /\ ~server.up => length = server.length + 1
  BY <1>1 DEF CallsInv, ClockIsSound, ServerRecords
<1> HIDE DEF length, longest
<1>3. /\ server' \in ServerRecords /\ server'.up = server.up /\ server'.outages = server.outages
      /\ server'.length = length /\ server'.longest = longest
  BY <1>1, <1>2 DEF ServerRecords
<1>4. ClockIsSound'
  BY <1>1, <1>2, <1>3, CallConstantsOK DEF CallsInv, ClockIsSound
<1>5. ASSUME NEW k \in Calls PROVE CallIsSound(call[k])'
  <2>1. PICK c \in CallRecords : c = call[k] /\ CallIsSound(c)
    BY DEF CallsInv
  <2>2. c.at # "send" /\ (c.at = "pause" => second < c.until)
    BY <2>1 DEF SecondPasses
  <2>3. c.until \in Nat /\ c.aborted \in {Never} \cup Nat /\ c.attempt \in Nat \ {0}
    BY DEF CallRecords
  <2>4. TimesAreSound(c)'
    BY <1>1, <2>1, <2>2, <2>3 DEF CallIsSound, TimesAreSound, Never
  <2>5. OutageIsSound(c)'
    <3>1. c.kind = "readback" => c.attempt \in {1, 2, 3, 4} /\ (c.at = "pause" => c.attempt \in {1, 2, 3})
      BY <2>1, <2>3 DEF CallIsSound, CountsAreSound, LastAttempt, ReadbackAttempts
    <3>2. c.kind = "readback" => Waited[c.attempt] \in 0..7
      BY <3>1, PausesAddUp
    <3>3. c.kind = "readback" /\ c.at = "pause" => c.attempt + 1 \in {1, 2, 3, 4}
      BY <3>1
    <3>4. c.kind = "readback" /\ c.at = "pause" => Waited[c.attempt + 1] \in 0..7
      BY <3>3, PausesAddUp
    <3>5. server.length \in Nat /\ server.longest \in Nat
      BY <1>1 DEF ServerRecords
    <3> QED
      BY <1>1, <1>2, <1>3, <2>1, <2>2, <2>3, <3>2, <3>4, <3>5
      DEF CallIsSound, OutageIsSound
  <2> QED
    BY <2>1, <2>4, <2>5, <1>1 DEF CallIsSound, CountsAreSound, LastAttempt
<1> QED
  BY <1>1, <1>4, <1>5 DEF CallsInv

(***************************************************************************)
(* The steps of a call                                                     *)
(***************************************************************************)

LEMMA CallMovesInv ==
    ASSUME CallsInv, NEW k \in Calls, NEW next \in CallRecords, CallIsSound(next),
           call' = [call EXCEPT ![k] = next], UNCHANGED <<second, server>>
    PROVE  CallsInv'
<1>1. ClockIsSound' /\ call' \in [Calls -> CallRecords]
  BY DEF CallsInv, ClockIsSound
<1>2. \A j \in Calls : CallIsSound(call'[j])
  BY DEF CallsInv
<1>3. \A j \in Calls : CallIsSound(call[j])'
  BY <1>2 DEF CallIsSound, CountsAreSound, TimesAreSound, OutageIsSound, LastAttempt, OnItsWay
<1> QED
  BY <1>1, <1>3 DEF CallsInv

\* A call that was sent ends or pauses: with an answer, after the relay was
\* down, or because its caller gave it up.
LEMMA CallEndsInv ==
    ASSUME CallsInv, NEW k \in Calls, NEW c \in CallRecords,
           NEW answer \in {"ok", "refusal", "error"}, Ends(k, c, answer),
           c.attempt <= LastAttempt(c), c.taken <= c.attempt, c.refused <= c.attempt,
           c.kind = "signed" =>
              c.taken <= c.refused + 1 /\ (answer = "refusal" => c.taken <= c.refused),
           c.aborted <= second,
           c.attempt > 1 => server.outages > 0,
           c.aborted = Never \/ answer = "error",
           c.aborted = Never /\ answer # "ok" =>
              /\ server.outages > 0
              /\ c.kind = "readback" /\ server.outages = 1 =>
                    /\ server.longest >= Waited[c.attempt]
                    /\ ~server.up => server.length >= Waited[c.attempt]
    PROVE  CallsInv'
<1>1. /\ second \in Nat /\ server.length \in Nat /\ server.longest \in Nat /\ server.outages \in Nat
      /\ c.attempt \in Nat \ {0} /\ c.taken \in Nat /\ c.refused \in Nat
      /\ c.aborted \in {Never} \cup Nat /\ c.kind \in CallKinds
  BY DEF CallsInv, ClockIsSound, ServerRecords, CallRecords
<1>2. After(c, answer) \in {"answered", "pause", "failed"}
  BY DEF After
<1>3. PICK place \in {"answered", "pause", "failed"} : place = After(c, answer)
  BY <1>2
<1>4. c.kind = "readback" => c.attempt \in {1, 2, 3, 4}
  BY <1>1 DEF LastAttempt, ReadbackAttempts
<1>5. place = "pause" =>
         /\ answer # "ok" /\ c.aborted = Never /\ c.attempt < LastAttempt(c)
         /\ c.kind = "signed" => answer = "refusal"
         /\ c.kind # "post"
  <2> SUFFICES ASSUME place = "pause"
               PROVE  /\ answer # "ok" /\ c.aborted = Never /\ c.attempt < LastAttempt(c)
                      /\ c.kind = "signed" => answer = "refusal"
                      /\ c.kind # "post"
    OBVIOUS
  <2>1. answer # "ok" /\ ~GivesUp(c, answer)
    BY <1>3 DEF After
  <2>2. CASE c.kind = "readback"
    BY <1>1, <2>1, <2>2 DEF GivesUp, Repeats, LastAttempt, ReadbackAttempts
  <2>3. CASE c.kind = "signed"
    BY <1>1, <2>1, <2>3, CallConstantsOK DEF GivesUp, Repeats, LastAttempt
  <2>4. CASE c.kind = "post"
    BY <2>1, <2>4 DEF GivesUp, Repeats
  <2> QED
    BY <1>1, <2>2, <2>3, <2>4 DEF CallKinds
<1>6. place = "failed" /\ c.kind = "readback" /\ c.aborted = Never => c.attempt = 4 /\ answer # "ok"
  BY <1>1, <1>3, <1>4 DEF After, GivesUp, Repeats, ReadbackAttempts
<1>7. place = "pause" =>
         /\ PauseOf(c) \in 1..4
         /\ c.kind = "readback" => /\ Waited[c.attempt + 1] = Waited[c.attempt] + PauseOf(c)
                                   /\ Waited[c.attempt] \in 0..7
  <2> SUFFICES ASSUME place = "pause"
               PROVE  /\ PauseOf(c) \in 1..4
                      /\ c.kind = "readback" =>
                            /\ Waited[c.attempt + 1] = Waited[c.attempt] + PauseOf(c)
                            /\ Waited[c.attempt] \in 0..7
    OBVIOUS
  <2>1. CASE c.kind = "readback"
    <3>1. c.attempt \in {1, 2, 3}
      BY <1>4, <1>5, <2>1 DEF LastAttempt, ReadbackAttempts
    <3>2. PauseOf(c) = <<1, 2, 4>>[c.attempt]
      BY <2>1 DEF PauseOf, Repeats
    <3> QED
      BY <3>1, <3>2, PausesAddUp
  <2>2. CASE c.kind # "readback"
    BY <2>2 DEF PauseOf, Repeats
  <2> QED
    BY <2>1, <2>2
<1>8. PICK until \in Nat : until = IF place = "pause" THEN second + PauseOf(c) ELSE 0
  BY <1>1, <1>7
<1>9. PICK next : next = [c EXCEPT !.at = place, !.until = until]
  OBVIOUS
<1>10. call' = [call EXCEPT ![k] = next] /\ UNCHANGED <<second, server>>
  BY <1>3, <1>8, <1>9 DEF Ends
<1>11. /\ next \in CallRecords /\ next.at = place /\ next.until = until
       /\ next.kind = c.kind /\ next.attempt = c.attempt /\ next.aborted = c.aborted
       /\ next.taken = c.taken /\ next.refused = c.refused
  BY <1>9, <1>3 DEF CallRecords, CallPlaces
<1>12. LastAttempt(next) = LastAttempt(c)
  BY <1>11 DEF LastAttempt
<1>13. CountsAreSound(next)
  BY <1>1, <1>3, <1>5, <1>11, <1>12 DEF CountsAreSound
<1>14. TimesAreSound(next)
  <2>1. place = "pause" => until \in (second + 1)..(second + 4)
    BY <1>1, <1>7, <1>8
  <2>2. place # "pause" => until = 0
    BY <1>8
  <2> QED
    BY <1>1, <1>3, <1>5, <1>11, <2>1, <2>2 DEF TimesAreSound
<1>15. OutageIsSound(next)
  <2>1. next.attempt > 1 \/ next.at = "pause" => server.outages > 0
    BY <1>5, <1>11
  <2>2. ~OnItsWay(next) /\ next.at # "send"
    BY <1>3, <1>11 DEF OnItsWay
  <2>3. ASSUME next.kind = "readback", server.outages = 1, next.at = "pause", ~server.up
        PROVE  server.length + next.until >= second + Waited[next.attempt + 1]
    <3>1. server.length >= Waited[c.attempt] /\ until = second + PauseOf(c)
      BY <1>5, <1>8, <1>11, <2>3
    <3>2. Waited[c.attempt + 1] = Waited[c.attempt] + PauseOf(c) /\ Waited[c.attempt] \in 0..7
          /\ PauseOf(c) \in 1..4
      BY <1>7, <1>11, <2>3
    <3> QED
      BY <1>1, <1>11, <3>1, <3>2
  <2>4. ASSUME next.kind = "readback", next.at = "failed", next.aborted = Never
        PROVE  server.outages > 1 \/ server.longest >= 7
    <3>1. c.attempt = 4 /\ answer # "ok"
      BY <1>6, <1>11, <2>4
    <3>2. server.outages > 0 /\ (server.outages = 1 => server.longest >= Waited[4])
      BY <1>11, <2>4, <3>1
    <3> QED
      BY <1>1, <3>2, PausesAddUp
  <2> QED
    BY <2>1, <2>2, <2>3, <2>4 DEF OutageIsSound
<1> QED
  BY <1>10, <1>11, <1>13, <1>14, <1>15, CallMovesInv DEF CallIsSound

\* What is known of a call on its way.
LEMMA OnTheWay ==
    ASSUME CallsInv, NEW k \in Calls, InFlight(k)
    PROVE  /\ call[k] \in CallRecords /\ second \in Nat
           /\ call[k].attempt <= LastAttempt(call[k])
           /\ call[k].taken <= call[k].attempt /\ call[k].refused < call[k].attempt
           /\ call[k].kind = "signed" => call[k].taken <= call[k].refused + 1
           /\ call[k].aborted = Never
           /\ call[k].attempt > 1 => server.outages > 0
           /\ call[k].doomed =>
                 /\ server.outages > 0
                 /\ call[k].kind = "readback" /\ server.outages = 1 =>
                       /\ server.longest >= Waited[call[k].attempt]
                       /\ ~server.up => server.length >= Waited[call[k].attempt]
<1>1. PICK c \in CallRecords : c = call[k] /\ CallIsSound(c) /\ OnItsWay(c)
  BY DEF CallsInv, InFlight, OnItsWay
<1>2. second \in Nat
  BY DEF CallsInv, ClockIsSound
<1>3. /\ c.attempt <= LastAttempt(c) /\ c.taken <= c.attempt /\ c.refused < c.attempt
      /\ c.kind = "signed" => c.taken <= c.refused + 1
  BY <1>1 DEF CallIsSound, CountsAreSound, OnItsWay
<1>4. c.aborted = Never
  BY <1>1 DEF CallIsSound, TimesAreSound, OnItsWay
<1>5. /\ c.attempt > 1 => server.outages > 0
      /\ c.doomed =>
            /\ server.outages > 0
            /\ c.kind = "readback" /\ server.outages = 1 =>
                  /\ server.longest >= Waited[c.attempt]
                  /\ ~server.up => server.length >= Waited[c.attempt]
  BY <1>1 DEF CallIsSound, OutageIsSound
<1> QED
  BY <1>1, <1>2, <1>3, <1>4, <1>5

LEMMA SendCallInv == ASSUME CallsInv, NEW k \in Calls, SendCall(k) PROVE CallsInv'
<1>1. PICK c \in CallRecords : c = call[k] /\ CallIsSound(c) /\ c.at = "send"
  BY DEF CallsInv, SendCall
<1>2. CASE c.aborted # Never
  <2>1. Ends(k, c, "error")
    BY <1>1, <1>2 DEF SendCall
  <2>2. /\ c.attempt <= LastAttempt(c) /\ c.taken <= c.attempt /\ c.refused <= c.attempt
        /\ c.kind = "signed" => c.taken <= c.refused + 1
    BY <1>1 DEF CallIsSound, CountsAreSound
  <2>3. c.aborted <= second /\ (c.attempt > 1 => server.outages > 0)
    BY <1>1 DEF CallIsSound, TimesAreSound, OutageIsSound
  <2> QED
    BY <1>2, <2>1, <2>2, <2>3, CallEndsInv
<1>3. CASE c.aborted = Never
  <2>1. PICK doomed \in BOOLEAN : doomed = ~server.up
    OBVIOUS
  <2>2. PICK next : next = [c EXCEPT !.at = "flight", !.doomed = doomed]
    OBVIOUS
  <2>3. call' = [call EXCEPT ![k] = next] /\ UNCHANGED <<second, server>>
    BY <1>1, <1>3, <2>1, <2>2 DEF SendCall, CallsInv
  <2>4. /\ next \in CallRecords /\ next.at = "flight" /\ next.doomed = doomed
        /\ next.kind = c.kind /\ next.attempt = c.attempt /\ next.aborted = c.aborted
        /\ next.taken = c.taken /\ next.refused = c.refused /\ next.until = c.until
    BY <2>2 DEF CallRecords, CallPlaces
  <2>5. CountsAreSound(next) /\ TimesAreSound(next)
    BY <1>1, <1>3, <2>4 DEF CallIsSound, CountsAreSound, TimesAreSound, LastAttempt
  <2>6. server.outages = 1 /\ next.kind = "readback" /\ next.doomed =>
           server.longest >= Waited[next.attempt] /\ server.length >= Waited[next.attempt]
    <3> SUFFICES ASSUME server.outages = 1, next.kind = "readback", next.doomed
                 PROVE  server.longest >= Waited[next.attempt] /\ server.length >= Waited[next.attempt]
      OBVIOUS
    <3>1. server.length >= Waited[c.attempt]
      BY <1>1, <2>1, <2>4 DEF CallIsSound, OutageIsSound
    <3>2. server.length \in Nat /\ server.longest \in Nat /\ server.length <= server.longest
      BY DEF CallsInv, ClockIsSound, ServerRecords
    <3>3. c.attempt \in {1, 2, 3, 4}
      BY <1>1, <2>4 DEF CallIsSound, CountsAreSound, LastAttempt, ReadbackAttempts, CallRecords
    <3>4. Waited[c.attempt] \in 0..7
      BY <3>3, PausesAddUp
    <3> QED
      BY <2>4, <3>1, <3>2, <3>4
  <2>7. next.doomed => server.outages > 0
    <3> SUFFICES ASSUME ~server.up PROVE server.outages > 0
      BY <2>1, <2>4
    <3> QED
      BY DEF CallsInv, ClockIsSound
  <2>8. OutageIsSound(next)
    BY <1>1, <2>4, <2>6, <2>7 DEF CallIsSound, OutageIsSound, OnItsWay
  <2> QED
    BY <2>3, <2>4, <2>5, <2>8, CallMovesInv DEF CallIsSound
<1> QED
  BY <1>2, <1>3

LEMMA RelayTakesInv == ASSUME CallsInv, NEW k \in Calls, RelayTakes(k) PROVE CallsInv'
<1>1. PICK c \in CallRecords : c = call[k] /\ CallIsSound(c) /\ c.at = "flight"
  BY DEF CallsInv, RelayTakes
<1>7. PICK taken \in Nat : taken = c.taken + 1
  BY DEF CallRecords
<1>2. PICK next : next = [c EXCEPT !.at = "taken", !.taken = taken]
  OBVIOUS
<1>3. call' = [call EXCEPT ![k] = next] /\ UNCHANGED <<second, server>>
  BY <1>1, <1>2, <1>7 DEF RelayTakes, CallsInv
<1>4. /\ next \in CallRecords /\ next.at = "taken" /\ next.doomed = c.doomed
      /\ next.kind = c.kind /\ next.attempt = c.attempt /\ next.aborted = c.aborted
      /\ next.taken = c.taken + 1 /\ next.refused = c.refused /\ next.until = c.until
      /\ c.taken \in Nat /\ c.attempt \in Nat /\ c.refused \in Nat
  BY <1>2, <1>7 DEF CallRecords, CallPlaces
<1>5. CountsAreSound(next)
  BY <1>1, <1>4 DEF CallIsSound, CountsAreSound, LastAttempt
<1>6. TimesAreSound(next) /\ OutageIsSound(next)
  BY <1>1, <1>4 DEF CallIsSound, TimesAreSound, OutageIsSound, OnItsWay
<1> QED
  BY <1>3, <1>4, <1>5, <1>6, CallMovesInv DEF CallIsSound

LEMMA RelayAnswersInv == ASSUME CallsInv, NEW k \in Calls, RelayAnswers(k) PROVE CallsInv'
<1>1. InFlight(k) /\ Ends(k, call[k], "ok")
  BY DEF RelayAnswers, InFlight
<1>2. PICK c \in CallRecords : c = call[k]
  BY DEF CallsInv
<1>3. /\ c.attempt <= LastAttempt(c) /\ c.taken <= c.attempt /\ c.refused < c.attempt
      /\ c.kind = "signed" => c.taken <= c.refused + 1
      /\ c.aborted = Never /\ second \in Nat
      /\ c.attempt > 1 => server.outages > 0
  BY <1>1, <1>2, OnTheWay
<1>4. c.refused <= c.attempt /\ c.aborted <= second
  BY <1>3 DEF CallRecords, Never
<1> QED
  BY <1>1, <1>2, <1>3, <1>4, CallEndsInv

LEMMA CallRefusedInv == ASSUME CallsInv, NEW k \in Calls, CallRefused(k) PROVE CallsInv'
<1>1. InFlight(k) /\ call[k].doomed
  BY DEF CallRefused
<1>2. PICK c \in CallRecords : c = call[k]
  BY DEF CallsInv
<1>3. /\ c.attempt <= LastAttempt(c) /\ c.taken <= c.attempt /\ c.refused < c.attempt
      /\ c.kind = "signed" => c.taken <= c.refused + 1
      /\ c.aborted = Never /\ second \in Nat
      /\ c.attempt > 1 => server.outages > 0
      /\ server.outages > 0
      /\ c.kind = "readback" /\ server.outages = 1 =>
            /\ server.longest >= Waited[c.attempt]
            /\ ~server.up => server.length >= Waited[c.attempt]
  BY <1>1, <1>2, OnTheWay
<1>4. c.refused \in Nat /\ c.attempt \in Nat /\ c.taken \in Nat /\ c.aborted <= second
  BY <1>3 DEF CallRecords, Never
<1>5. CASE Ends(k, c, "error")
  <2>1. c.refused <= c.attempt
    BY <1>3, <1>4
  <2> QED
    BY <1>3, <1>4, <1>5, <2>1, CallEndsInv
<1>6. CASE Ends(k, [c EXCEPT !.refused = c.refused + 1], "refusal")
  <2>1. PICK d : d = [c EXCEPT !.refused = c.refused + 1]
    OBVIOUS
  <2>2. /\ d \in CallRecords /\ d.refused = c.refused + 1 /\ d.attempt = c.attempt
        /\ d.kind = c.kind /\ d.taken = c.taken /\ d.aborted = c.aborted
    BY <2>1 DEF CallRecords
  <2>3. LastAttempt(d) = LastAttempt(c) /\ Ends(k, d, "refusal")
    BY <1>6, <2>1, <2>2 DEF LastAttempt
  <2>4. d.refused <= d.attempt /\ (d.kind = "signed" => d.taken <= d.refused)
    BY <1>3, <1>4, <2>2
  <2>5. d.kind = "signed" => d.taken <= d.refused + 1
    BY <1>4, <2>2, <2>4
  <2>6. /\ d.attempt <= LastAttempt(d) /\ d.taken <= d.attempt /\ d.aborted <= second
        /\ d.attempt > 1 => server.outages > 0
        /\ d.aborted = Never /\ server.outages > 0
        /\ d.kind = "readback" /\ server.outages = 1 =>
              /\ server.longest >= Waited[d.attempt]
              /\ ~server.up => server.length >= Waited[d.attempt]
    BY <1>3, <1>4, <2>2, <2>3
  <2> QED
    BY <2>2, <2>3, <2>4, <2>5, <2>6, CallEndsInv
<1> QED
  BY <1>2, <1>5, <1>6 DEF CallRefused

LEMMA ResendInv == ASSUME CallsInv, NEW k \in Calls, Resend(k) PROVE CallsInv'
<1>1. PICK c \in CallRecords : c = call[k] /\ CallIsSound(c) /\ c.at = "pause" /\ second >= c.until
  BY DEF CallsInv, Resend
<1>10. PICK attempt \in Nat \ {0} : attempt = c.attempt + 1
  BY DEF CallRecords
<1>2. PICK next : next = [c EXCEPT !.at = "send", !.attempt = attempt, !.doomed = FALSE]
  OBVIOUS
<1>3. call' = [call EXCEPT ![k] = next] /\ UNCHANGED <<second, server>>
  BY <1>1, <1>2, <1>10 DEF Resend, CallsInv
<1>4. /\ next \in CallRecords /\ next.at = "send"
      /\ next.kind = c.kind /\ next.attempt = c.attempt + 1 /\ next.aborted = c.aborted
      /\ next.taken = c.taken /\ next.refused = c.refused /\ next.until = c.until
      /\ c.taken \in Nat /\ c.attempt \in Nat \ {0} /\ c.refused \in Nat /\ c.until \in Nat
  BY <1>2, <1>10 DEF CallRecords, CallPlaces
<1>5. LastAttempt(next) = LastAttempt(c) /\ LastAttempt(c) \in Nat
  BY <1>4, CallConstantsOK DEF LastAttempt, ReadbackAttempts
<1>6. /\ c.attempt < LastAttempt(c) /\ c.taken <= c.attempt /\ c.refused <= c.attempt
      /\ c.kind = "signed" => c.taken <= c.refused
  BY <1>1 DEF CallIsSound, CountsAreSound
<1>7. CountsAreSound(next)
  BY <1>4, <1>5, <1>6 DEF CountsAreSound
<1>8. TimesAreSound(next)
  BY <1>1, <1>4 DEF CallIsSound, TimesAreSound
<1>9. OutageIsSound(next)
  <2>1. server.outages > 0 /\ second \in Nat /\ server.length \in Nat
    BY <1>1 DEF CallIsSound, OutageIsSound, CallsInv, ClockIsSound, ServerRecords
  <2>2. second = c.until
    BY <1>1, <1>4, <2>1 DEF CallIsSound, TimesAreSound
  <2>3. ASSUME c.kind = "readback", server.outages = 1, ~server.up
        PROVE  server.length >= Waited[next.attempt]
    <3>1. server.length + c.until >= second + Waited[c.attempt + 1]
      BY <1>1, <2>3 DEF CallIsSound, OutageIsSound
    <3>2. c.attempt + 1 \in {1, 2, 3, 4}
      BY <1>4, <1>6, <2>3 DEF LastAttempt, ReadbackAttempts
    <3>3. Waited[c.attempt + 1] \in 0..7
      BY <3>2, PausesAddUp
    <3>4. PICK w \in 0..7 : w = Waited[c.attempt + 1]
      BY <3>3
    <3> QED
      BY <1>4, <2>1, <2>2, <3>1, <3>4
  <2> QED
    BY <1>4, <2>1, <2>3 DEF OutageIsSound, OnItsWay
<1> QED
  BY <1>3, <1>4, <1>7, <1>8, <1>9, CallMovesInv DEF CallIsSound

LEMMA AbortCallInv == ASSUME CallsInv, NEW k \in Calls, AbortCall(k) PROVE CallsInv'
<1>1. PICK c \in CallRecords :
         /\ c = call[k] /\ CallIsSound(c) /\ c.aborted = Never
         /\ c.at \notin {"answered", "failed"}
  BY DEF CallsInv, AbortCall, Running
<1>2. second \in Nat
  BY DEF CallsInv, ClockIsSound
<1>3. PICK d : d = [c EXCEPT !.aborted = second]
  OBVIOUS
<1>4. /\ d \in CallRecords /\ d.aborted = second /\ d.at = c.at /\ d.doomed = c.doomed
      /\ d.kind = c.kind /\ d.attempt = c.attempt
      /\ d.taken = c.taken /\ d.refused = c.refused /\ d.until = c.until
      /\ d.aborted # Never /\ d.aborted <= second
      /\ LastAttempt(d) = LastAttempt(c)
  BY <1>2, <1>3 DEF CallRecords, Never, LastAttempt
<1>5. CASE InFlight(k)
  <2>1. Ends(k, d, "error")
    BY <1>1, <1>3, <1>5 DEF AbortCall
  <2>2. /\ c.attempt <= LastAttempt(c) /\ c.taken <= c.attempt /\ c.refused < c.attempt
        /\ c.kind = "signed" => c.taken <= c.refused + 1
        /\ c.attempt > 1 => server.outages > 0
    BY <1>1, <1>5, OnTheWay
  <2>3. d.refused <= d.attempt
    BY <1>4, <2>2 DEF CallRecords
  <2>4. /\ d.attempt <= LastAttempt(d) /\ d.taken <= d.attempt
        /\ d.kind = "signed" => d.taken <= d.refused + 1
        /\ d.attempt > 1 => server.outages > 0
    BY <1>4, <2>2
  <2> QED
    BY <1>4, <2>1, <2>3, <2>4, CallEndsInv
<1>6. CASE ~InFlight(k)
  <2>1. call' = [call EXCEPT ![k] = d] /\ UNCHANGED <<second, server>> /\ c.kind # "signed"
    BY <1>1, <1>3, <1>6 DEF AbortCall
  <2>2. c.at \in {"send", "pause"}
    BY <1>1, <1>6 DEF InFlight, CallRecords, CallPlaces
  <2>3. CountsAreSound(d)
    BY <1>1, <1>4 DEF CallIsSound, CountsAreSound
  <2>4. TimesAreSound(d)
    BY <1>1, <1>2, <1>4, <2>1, <2>2 DEF CallIsSound, TimesAreSound
  <2>5. OutageIsSound(d)
    BY <1>1, <1>4 DEF CallIsSound, OutageIsSound, OnItsWay
  <2> QED
    BY <1>4, <2>1, <2>3, <2>4, <2>5, CallMovesInv DEF CallIsSound
<1> QED
  BY <1>5, <1>6

LEMMA CallsNextInv == CallsInv /\ [CallsNext]_callVars => CallsInv'
<1> SUFFICES ASSUME CallsInv, [CallsNext]_callVars PROVE CallsInv'
  OBVIOUS
<1>1. CASE UNCHANGED callVars
  BY <1>1 DEF callVars, CallsInv, ClockIsSound, CallIsSound, CountsAreSound, TimesAreSound,
              OutageIsSound, LastAttempt, OnItsWay
<1> QED
  BY <1>1, GoesDownInv, ComesBackInv, SecondPassesInv, SendCallInv, RelayTakesInv,
     RelayAnswersInv, CallRefusedInv, ResendInv, AbortCallInv DEF CallsNext

\* For any number of calls, retries, seconds and outages: a readback that nobody
\* aborted rides out one outage of less than seven seconds, a call is over four
\* seconds after it was given up, and what was signed is taken again only after
\* a refusal (createDeployWorkflowReadbackRetryFetch, postSignedJson).
THEOREM CallsAreSafe == CallsSpec => []CallsSafe
<1>1. CallsInv => CallsSafe
  <2> SUFFICES ASSUME CallsInv PROVE CallsSafe
    OBVIOUS
  <2>1. CallsTypeOK
    <3>1. /\ second \in 0..MaxSeconds
          /\ server.up \in BOOLEAN /\ server.outages \in 0..MaxOutages
          /\ server.length \in 0..second /\ server.longest \in server.length..second
      BY CallConstantsOK DEF CallsInv, ClockIsSound, ServerRecords
    <3>2. ASSUME NEW k \in Calls
          PROVE  /\ call[k].kind \in CallKinds /\ call[k].at \in CallPlaces
                 /\ call[k].attempt \in
                       1..(CASE call[k].kind = "readback" -> ReadbackAttempts
                             [] call[k].kind = "signed" -> SignedRetries + 1
                             [] OTHER -> 1)
                 /\ call[k].until \in 0..(MaxSeconds + 4)
                 /\ call[k].aborted \in {Never} \cup 0..second
                 /\ call[k].taken \in 0..call[k].attempt /\ call[k].refused \in 0..call[k].attempt
                 /\ call[k].doomed \in BOOLEAN
      <4>1. PICK c \in CallRecords : c = call[k] /\ CallIsSound(c)
        BY DEF CallsInv
      <4>2. /\ c.kind \in CallKinds /\ c.at \in CallPlaces /\ c.doomed \in BOOLEAN
            /\ c.attempt \in Nat \ {0} /\ c.until \in Nat /\ c.aborted \in {Never} \cup Nat
            /\ c.taken \in Nat /\ c.refused \in Nat
        BY DEF CallRecords
      <4>3. c.attempt <= LastAttempt(c) /\ c.taken <= c.attempt /\ c.refused <= c.attempt
        BY <4>1 DEF CallIsSound, CountsAreSound
      <4>4. c.attempt \in 1..LastAttempt(c)
        <5>1. LastAttempt(c) \in Nat
          BY CallConstantsOK DEF LastAttempt, ReadbackAttempts
        <5> QED
          BY <4>2, <4>3, <5>1
      <4>5. c.until <= second + 4 /\ c.aborted <= second
        BY <4>1 DEF CallIsSound, TimesAreSound
      <4>6. c.until \in 0..(MaxSeconds + 4) /\ c.aborted \in {Never} \cup 0..second
        BY <3>1, <4>2, <4>5, CallConstantsOK
      <4> QED
        BY <4>1, <4>2, <4>3, <4>4, <4>6 DEF LastAttempt
    <3> QED
      BY <3>1, <3>2 DEF CallsTypeOK
  <2>2. RidesOutOutage
    BY DEF CallsInv, CallIsSound, OutageIsSound, RidesOutOutage
  <2>3. AbortEndsSoon
    BY DEF CallsInv, CallIsSound, TimesAreSound, AbortEndsSoon, Running
  <2>4. TakenOnceUnlessRefused
    <3> SUFFICES ASSUME NEW k \in Calls
                 PROVE  /\ call[k].kind = "signed" => call[k].taken <= call[k].refused + 1
                        /\ call[k].kind = "post" => call[k].taken <= 1
      BY DEF TakenOnceUnlessRefused
    <3>1. PICK c \in CallRecords : c = call[k] /\ CountsAreSound(c)
      BY DEF CallsInv, CallIsSound
    <3>2. c.kind = "post" => LastAttempt(c) = 1
      BY DEF LastAttempt
    <3>3. c.attempt \in Nat /\ c.taken \in Nat
      BY DEF CallRecords
    <3> QED
      BY <3>1, <3>2, <3>3 DEF CountsAreSound
  <2> QED
    BY <2>1, <2>2, <2>3, <2>4 DEF CallsSafe
<1> QED
  BY <1>1, CallsInitInv, CallsNextInv, PTL DEF CallsSpec
-------------------------------------------------------------------------------
(***************************************************************************)
(* The choice of a relay to write to                                       *)
(***************************************************************************)

ProbeRecords == [at : ProbePlaces, slow : BOOLEAN, read : BOOLEAN, turned : BOOLEAN]

WriterRecords ==
    [at : WriterPlaces, candidates : SUBSET ControlRelays, relay : ControlRelays,
     steady : SUBSET ControlRelays]

HasEnded(r) == \E i \in DOMAIN ended : ended[i] = r

\* A probe of a candidate.  One that found a relay fit, by what the relay said,
\* and has not been overtaken by a change, is right; and of a relay that was fit
\* ever since no probe says otherwise.
ProbeIsSound(r) ==
    /\ probe[r].at # "none" => r \in writer.candidates /\ writer.at # "idle"
    /\ HasEnded(r) <=> probe[r].at \in {"fit", "unfit"}
    /\ probe[r].at = "fit" /\ probe[r].read /\ ~probe[r].turned => Fit(plane[r])
    /\ writer.at = "asks" /\ r \in writer.steady =>
          Fit(plane[r]) /\ ~probe[r].slow /\ probe[r].at # "unfit"

\* The command: a relay that was chosen among several has a probe that found it
\* fit.
WriterIsSound ==
    /\ writer.relay \in writer.candidates /\ writer.steady \subseteq writer.candidates
    /\ writer.at \in {"chosen", "accepted", "refused"} /\ Cardinality(writer.candidates) > 1 =>
          probe[writer.relay].at = "fit"
    /\ RefusesOnlyIfTurned
    /\ NoneOnlyIfNoneFit

PlaneTypes ==
    /\ plane \in [ControlRelays -> PlaneStates] /\ turns \in 0..MaxTurns
    /\ probe \in [ControlRelays -> ProbeRecords]
    /\ writer \in WriterRecords
    /\ ended \in Seq(ControlRelays)

WritableInv ==
    /\ PlaneTypes
    /\ \A i, j \in DOMAIN ended : ended[i] = ended[j] => i = j
    /\ \A r \in ControlRelays : ProbeIsSound(r)
    /\ WriterIsSound

LEMMA WritableInitInv == WritableInit => WritableInv
<1> SUFFICES ASSUME WritableInit PROVE WritableInv
  OBVIOUS
<1>1. PICK candidates \in SUBSET ControlRelays :
         /\ candidates # {}
         /\ writer = [at |-> "idle", candidates |-> candidates,
                      relay |-> CHOOSE r \in candidates : TRUE, steady |-> {}]
  BY DEF WritableInit, LaunchCandidates
<1>2. (CHOOSE r \in candidates : TRUE) \in candidates
  BY <1>1
<1>3. PICK relay \in candidates : relay = CHOOSE r \in candidates : TRUE
  BY <1>2
<1>4. /\ writer \in WriterRecords /\ writer.at = "idle" /\ writer.relay \in writer.candidates
      /\ writer.steady = {}
  BY <1>1, <1>3 DEF WriterRecords, WriterPlaces
<1>5. probe \in [ControlRelays -> ProbeRecords] /\ \A r \in ControlRelays : probe[r].at = "none"
  BY DEF WritableInit, ProbeRecords, ProbePlaces
<1>6. ended = <<>> /\ DOMAIN ended = {} /\ ended \in Seq(ControlRelays)
  BY DEF WritableInit
<1>7. PlaneTypes
  BY <1>4, <1>5, <1>6, WritableConstantsOK DEF PlaneTypes, WritableInit
<1>8. \A r \in ControlRelays : ProbeIsSound(r)
  BY <1>4, <1>5, <1>6 DEF ProbeIsSound, HasEnded
<1>9. WriterIsSound
  BY <1>4 DEF WriterIsSound, RefusesOnlyIfTurned, NoneOnlyIfNoneFit
<1> QED
  BY <1>6, <1>7, <1>8, <1>9 DEF WritableInv

\* A step that only moves one probe, which has not ended before.
LEMMA ProbeMovesInv ==
    ASSUME WritableInv, NEW r \in ControlRelays, NEW next \in ProbeRecords,
           probe' = [probe EXCEPT ![r] = next],
           UNCHANGED <<plane, turns, writer>>,
           probe[r].at \in {"health", "readiness"},
           \/ next.at = "readiness" /\ ended' = ended
           \/ next.at \in {"fit", "unfit"} /\ ended' = Append(ended, r),
           next.at = "fit" /\ next.read => Fit(plane[r]),
           r \in writer.steady /\ writer.at = "asks" => ~next.slow /\ next.at # "unfit"
    PROVE  WritableInv'
<1>1. /\ PlaneTypes /\ \A q \in ControlRelays : ProbeIsSound(q)
      /\ \A i, j \in DOMAIN ended : ended[i] = ended[j] => i = j
      /\ WriterIsSound
  BY DEF WritableInv
<1>2. \A q \in ControlRelays : probe'[q] = IF q = r THEN next ELSE probe[q]
  BY <1>1 DEF PlaneTypes
<1>3. ~HasEnded(r)
  BY <1>1 DEF ProbeIsSound
<1>4. /\ ended' \in Seq(ControlRelays)
      /\ \A i, j \in DOMAIN ended' : ended'[i] = ended'[j] => i = j
      /\ \A q \in ControlRelays :
            HasEnded(q)' <=> HasEnded(q) \/ (q = r /\ next.at \in {"fit", "unfit"})
  <2>1. CASE ended' = ended /\ next.at = "readiness"
    BY <1>1, <2>1 DEF PlaneTypes, HasEnded
  <2>2. CASE ended' = Append(ended, r) /\ next.at \in {"fit", "unfit"}
    <3>1. ended \in Seq(ControlRelays)
      BY <1>1 DEF PlaneTypes
    <3>2. PICK s \in Seq(ControlRelays) : s = ended
      BY <3>1
    <3>3. /\ Append(s, r) \in Seq(ControlRelays)
          /\ DOMAIN s = 1..Len(s) /\ DOMAIN Append(s, r) = 1..(Len(s) + 1) /\ Len(s) \in Nat
          /\ Append(s, r)[Len(s) + 1] = r /\ \A i \in 1..Len(s) : Append(s, r)[i] = s[i]
      BY <3>2
    <3>4. PICK t \in Seq(ControlRelays) : t = Append(s, r)
      BY <3>3
    <3>5. /\ DOMAIN s = 1..Len(s) /\ DOMAIN t = 1..(Len(s) + 1) /\ Len(s) \in Nat
          /\ t[Len(s) + 1] = r /\ \A i \in 1..Len(s) : t[i] = s[i]
      BY <3>3, <3>4
    <3>6. \A i \in DOMAIN s : s[i] # r
      BY <1>3, <3>2 DEF HasEnded
    <3>7. \A i, j \in DOMAIN s : s[i] = s[j] => i = j
      BY <1>1, <3>2
    <3>8. \A i \in DOMAIN t : i \in DOMAIN s \/ i = Len(s) + 1
      BY <3>5
    <3>9. \A i, j \in DOMAIN t : t[i] = t[j] => i = j
      BY <3>5, <3>6, <3>7, <3>8
    <3>10. ended' = t
      BY <2>2, <3>2, <3>4
    <3>11. Len(s) + 1 \in DOMAIN t /\ \A i \in DOMAIN s : i \in DOMAIN t /\ t[i] = s[i]
      BY <3>5
    <3>12. \A q \in ControlRelays : HasEnded(q)' <=> HasEnded(q) \/ q = r
      BY <3>2, <3>5, <3>8, <3>10, <3>11 DEF HasEnded
    <3> QED
      BY <2>2, <3>9, <3>10, <3>12
  <2> QED
    BY <2>1, <2>2
<1>5. PlaneTypes'
  BY <1>1, <1>4 DEF PlaneTypes
<1>6. \A q \in ControlRelays : ProbeIsSound(q)'
  <2> SUFFICES ASSUME NEW q \in ControlRelays PROVE ProbeIsSound(q)'
    OBVIOUS
  <2>1. CASE q = r
    <3>1. (r \in writer.candidates /\ writer.at # "idle")'
      BY <1>1 DEF ProbeIsSound
    <3>2. (HasEnded(r) <=> probe[r].at \in {"fit", "unfit"})'
      BY <1>2, <1>3, <1>4
    <3>3. (probe[r].at = "fit" /\ probe[r].read /\ ~probe[r].turned => Fit(plane[r]))'
      BY <1>2
    <3>4. (writer.at = "asks" /\ r \in writer.steady =>
              Fit(plane[r]) /\ ~probe[r].slow /\ probe[r].at # "unfit")'
      BY <1>1, <1>2 DEF ProbeIsSound
    <3> QED
      BY <2>1, <3>1, <3>2, <3>3, <3>4 DEF ProbeIsSound
  <2>2. CASE q # r
    BY <1>1, <1>2, <1>4, <2>2 DEF ProbeIsSound
  <2> QED
    BY <2>1, <2>2
<1>7. WriterIsSound'
  <2>1. writer.relay \in ControlRelays
    BY <1>1 DEF PlaneTypes, WriterRecords
  <2>2. /\ writer.at \in {"chosen", "accepted", "refused"} /\ Cardinality(writer.candidates) > 1 =>
              writer.relay # r
    BY <1>1 DEF WriterIsSound
  <2> QED
    BY <1>1, <1>2, <2>1, <2>2 DEF WriterIsSound, RefusesOnlyIfTurned, NoneOnlyIfNoneFit
<1> QED
  BY <1>4, <1>5, <1>6, <1>7 DEF WritableInv

LEMMA PlaneTurnsInv == ASSUME WritableInv, NEW r \in ControlRelays, PlaneTurns(r) PROVE WritableInv'
<1>1. /\ PlaneTypes /\ \A q \in ControlRelays : ProbeIsSound(q)
      /\ \A i, j \in DOMAIN ended : ended[i] = ended[j] => i = j
      /\ WriterIsSound
  BY DEF WritableInv
<1>2. PICK state \in PlaneStates :
         /\ plane' = [plane EXCEPT ![r] = state]
         /\ probe' = [probe EXCEPT ![r].slow = @ \/ ~state.up, ![r].turned = TRUE]
         /\ writer' = [writer EXCEPT !.steady = IF Fit(state) THEN @ ELSE @ \ {r}]
  BY DEF PlaneTurns
<1>3. /\ turns < MaxTurns /\ turns' = turns + 1 /\ ended' = ended
      /\ writer.at \notin {"none", "accepted", "refused"}
  BY DEF PlaneTurns
<1>4. PICK slow \in BOOLEAN : slow = (probe[r].slow \/ ~state.up)
  OBVIOUS
<1>5. PICK next : next = [probe[r] EXCEPT !.slow = slow, !.turned = TRUE]
  OBVIOUS
<1>6. /\ next \in ProbeRecords /\ next.slow = slow /\ next.turned = TRUE
      /\ next.at = probe[r].at /\ next.read = probe[r].read
  <2>1. probe[r] \in ProbeRecords
    BY <1>1 DEF PlaneTypes
  <2> QED
    BY <1>5, <2>1 DEF ProbeRecords
<1>7. probe' = [probe EXCEPT ![r] = next]
  BY <1>1, <1>2, <1>4, <1>5 DEF PlaneTypes
<1>8. PICK steady \in SUBSET ControlRelays :
         steady = IF Fit(state) THEN writer.steady ELSE writer.steady \ {r}
  BY <1>1 DEF PlaneTypes, WriterRecords
<1>9. /\ writer' \in WriterRecords /\ writer'.at = writer.at /\ writer'.relay = writer.relay
      /\ writer'.candidates = writer.candidates /\ writer'.steady = steady
  <2>1. writer' = [writer EXCEPT !.steady = steady] /\ writer \in WriterRecords
    BY <1>1, <1>2, <1>8 DEF PlaneTypes
  <2> QED
    BY <2>1 DEF WriterRecords
<1>10. /\ \A q \in ControlRelays : probe'[q] = IF q = r THEN next ELSE probe[q]
       /\ \A q \in ControlRelays : plane'[q] = IF q = r THEN state ELSE plane[q]
  <2>1. probe \in [ControlRelays -> ProbeRecords] /\ plane \in [ControlRelays -> PlaneStates]
    BY <1>1 DEF PlaneTypes
  <2>2. \A q \in ControlRelays : probe'[q] = IF q = r THEN next ELSE probe[q]
    BY <1>7, <2>1
  <2>3. plane' = [plane EXCEPT ![r] = state]
    BY <1>2
  <2>4. \A q \in ControlRelays : plane'[q] = IF q = r THEN state ELSE plane[q]
    BY <2>1, <2>3
  <2> QED
    BY <2>2, <2>4
<1>11. PlaneTypes'
  <2>1. turns' \in 0..MaxTurns
    BY <1>1, <1>3, WritableConstantsOK DEF PlaneTypes
  <2>2. plane' \in [ControlRelays -> PlaneStates]
    BY <1>1, <1>2 DEF PlaneTypes
  <2>3. probe' \in [ControlRelays -> ProbeRecords]
    BY <1>1, <1>6, <1>7 DEF PlaneTypes
  <2> QED
    BY <1>1, <1>3, <1>9, <2>1, <2>2, <2>3 DEF PlaneTypes
<1>12. ASSUME NEW q \in ControlRelays PROVE ProbeIsSound(q)'
  <2>1. HasEnded(q)' <=> HasEnded(q)
    BY <1>3 DEF HasEnded
  <2>2. /\ probe'[q].at = probe[q].at /\ probe'[q].read = probe[q].read
        /\ ~probe'[q].turned => q # r /\ ~probe[q].turned
    BY <1>6, <1>10
  <2>3. q \in steady => q \in writer.steady /\ (q = r => Fit(state))
    BY <1>8
  <2>4. Fit(state) => (slow <=> probe[r].slow)
    BY <1>4 DEF Fit
  <2>5. q \in steady /\ writer.at = "asks" => Fit(plane'[q]) /\ ~probe'[q].slow
    BY <1>1, <1>6, <1>10, <2>3, <2>4 DEF ProbeIsSound
  <2>6. probe'[q].at = "fit" /\ probe'[q].read /\ ~probe'[q].turned => Fit(plane'[q])
    BY <1>1, <1>10, <2>2 DEF ProbeIsSound
  <2>7. writer.at = "asks" /\ q \in steady => probe[q].at # "unfit"
    BY <1>1, <2>3 DEF ProbeIsSound
  <2>8. probe[q].at # "none" => q \in writer.candidates /\ writer.at # "idle"
    BY <1>1 DEF ProbeIsSound
  <2>9. HasEnded(q) <=> probe[q].at \in {"fit", "unfit"}
    BY <1>1 DEF ProbeIsSound
  <2> QED
    BY <1>9, <2>1, <2>2, <2>5, <2>6, <2>7, <2>8, <2>9 DEF ProbeIsSound
<1>13. WriterIsSound'
  <2>1. writer.relay \in ControlRelays
    BY <1>1 DEF PlaneTypes, WriterRecords
  <2> QED
    BY <1>1, <1>3, <1>6, <1>8, <1>9, <1>10, <2>1
    DEF WriterIsSound, RefusesOnlyIfTurned, NoneOnlyIfNoneFit
<1> QED
  BY <1>1, <1>3, <1>11, <1>12, <1>13 DEF WritableInv

LEMMA StartProbesInv == ASSUME WritableInv, StartProbes PROVE WritableInv'
<1>1. /\ PlaneTypes /\ \A q \in ControlRelays : ProbeIsSound(q)
      /\ \A i, j \in DOMAIN ended : ended[i] = ended[j] => i = j
      /\ WriterIsSound /\ writer \in WriterRecords
  BY DEF WritableInv, PlaneTypes
<1>2. writer.at = "idle" /\ UNCHANGED <<plane, turns, ended>>
  BY DEF StartProbes
<1>3. \A q \in ControlRelays : probe[q].at = "none" /\ ~HasEnded(q) /\ ~HasEnded(q)'
  BY <1>1, <1>2 DEF ProbeIsSound, HasEnded
<1>4. CASE Cardinality(writer.candidates) = 1
  <2>1. writer' = [writer EXCEPT !.at = "chosen"] /\ probe' = probe
    BY <1>4 DEF StartProbes
  <2>2. /\ writer' \in WriterRecords /\ writer'.at = "chosen" /\ writer'.relay = writer.relay
        /\ writer'.candidates = writer.candidates /\ writer'.steady = writer.steady
    BY <1>1, <2>1 DEF WriterRecords, WriterPlaces
  <2>3. PlaneTypes'
    BY <1>1, <1>2, <2>1, <2>2 DEF PlaneTypes
  <2>4. \A q \in ControlRelays : ProbeIsSound(q)'
    BY <1>3, <2>1, <2>2 DEF ProbeIsSound
  <2>5. WriterIsSound'
    BY <1>1, <1>4, <2>2 DEF WriterIsSound, RefusesOnlyIfTurned, NoneOnlyIfNoneFit
  <2> QED
    BY <1>1, <1>2, <2>3, <2>4, <2>5 DEF WritableInv
<1>5. CASE Cardinality(writer.candidates) # 1
  <2> DEFINE fit == {r \in writer.candidates : Fit(plane[r])}
             asked(r) == [at |-> "health", slow |-> ~plane[r].up, read |-> FALSE, turned |-> FALSE]
  <2>1. /\ writer' = [writer EXCEPT !.at = "asks", !.steady = fit]
        /\ probe' = [r \in ControlRelays |->
                        IF r \in writer.candidates THEN asked(r) ELSE probe[r]]
    BY <1>5 DEF StartProbes
  <2>2. PICK steady \in SUBSET ControlRelays : steady = fit /\ steady \subseteq writer.candidates
    BY <1>1 DEF WriterRecords
  <2>3. /\ writer' \in WriterRecords /\ writer'.at = "asks" /\ writer'.relay = writer.relay
        /\ writer'.candidates = writer.candidates /\ writer'.steady = steady
    <3>1. writer' = [writer EXCEPT !.at = "asks", !.steady = steady]
      BY <2>1, <2>2
    <3> QED
      BY <1>1, <3>1 DEF WriterRecords, WriterPlaces
  <2>4. ASSUME NEW q \in ControlRelays
        PROVE  /\ probe'[q] \in ProbeRecords /\ probe'[q].at \in {"none", "health"}
               /\ probe'[q].at # "none" => q \in writer.candidates
               /\ q \in steady => Fit(plane[q]) /\ ~probe'[q].slow
    <3>1. probe[q] \in ProbeRecords
      BY <1>1 DEF PlaneTypes
    <3>2. CASE q \in writer.candidates
      <4>1. PICK slow \in BOOLEAN : slow = ~plane[q].up
        OBVIOUS
      <4>2. probe'[q] = [at |-> "health", slow |-> slow, read |-> FALSE, turned |-> FALSE]
        BY <2>1, <3>2, <4>1
      <4>3. probe'[q] \in ProbeRecords /\ probe'[q].at = "health" /\ probe'[q].slow = slow
        BY <4>2 DEF ProbeRecords, ProbePlaces
      <4>4. q \in steady => Fit(plane[q]) /\ plane[q].up
        BY <2>2 DEF Fit
      <4> QED
        BY <3>2, <4>1, <4>3, <4>4
    <3>3. CASE q \notin writer.candidates
      BY <1>3, <2>1, <2>2, <3>1, <3>3
    <3> QED
      BY <3>2, <3>3
  <2>5. PlaneTypes'
    <3>1. probe' \in [ControlRelays -> ProbeRecords]
      BY <2>1, <2>4
    <3> QED
      BY <1>1, <1>2, <2>3, <3>1 DEF PlaneTypes
  <2>6. \A q \in ControlRelays : ProbeIsSound(q)'
    BY <1>2, <1>3, <2>3, <2>4 DEF ProbeIsSound
  <2>7. WriterIsSound'
    BY <1>1, <2>2, <2>3 DEF WriterIsSound, RefusesOnlyIfTurned, NoneOnlyIfNoneFit
  <2> QED
    BY <1>1, <1>2, <2>5, <2>6, <2>7 DEF WritableInv
<1> QED
  BY <1>4, <1>5

LEMMA SelectInv == ASSUME WritableInv, Select PROVE WritableInv'
<1>1. /\ PlaneTypes /\ \A q \in ControlRelays : ProbeIsSound(q)
      /\ \A i, j \in DOMAIN ended : ended[i] = ended[j] => i = j
      /\ WriterIsSound /\ writer \in WriterRecords
  BY DEF WritableInv, PlaneTypes
<1>2. /\ writer.at = "asks" /\ UNCHANGED <<plane, turns, probe, ended>>
      /\ \A r \in writer.candidates : probe[r].at \in {"fit", "unfit"}
  BY DEF Select
<1>3. CASE FitOnes = {}
  <2>1. writer' = [writer EXCEPT !.at = "none"]
    BY <1>3 DEF Select, Take
  <2>2. /\ writer' \in WriterRecords /\ writer'.at = "none" /\ writer'.relay = writer.relay
        /\ writer'.candidates = writer.candidates /\ writer'.steady = writer.steady
    BY <1>1, <2>1 DEF WriterRecords, WriterPlaces
  <2>3. writer.steady = {}
    <3> SUFFICES ASSUME NEW r \in writer.steady PROVE FALSE
      OBVIOUS
    <3>1. r \in writer.candidates /\ r \in ControlRelays
      BY <1>1 DEF WriterIsSound, WriterRecords
    <3>2. probe[r].at = "fit"
      BY <1>1, <1>2, <3>1 DEF ProbeIsSound
    <3>3. PICK i \in DOMAIN ended : ended[i] = r
      BY <1>1, <3>1, <3>2 DEF ProbeIsSound, HasEnded
    <3> QED
      BY <1>3, <3>2, <3>3 DEF FitOnes
  <2>4. PlaneTypes'
    BY <1>1, <1>2, <2>2 DEF PlaneTypes
  <2>5. \A q \in ControlRelays : ProbeIsSound(q)'
    BY <1>1, <1>2, <2>2 DEF ProbeIsSound, HasEnded
  <2>6. WriterIsSound'
    BY <1>1, <2>2, <2>3 DEF WriterIsSound, RefusesOnlyIfTurned, NoneOnlyIfNoneFit
  <2> QED
    BY <1>1, <1>2, <2>4, <2>5, <2>6 DEF WritableInv
<1>4. CASE FitOnes # {}
  <2>1. PICK first \in FitOnes : writer' = [writer EXCEPT !.at = "chosen", !.relay = ended[first]]
    BY <1>4 DEF Select, Take
  <2>2. PICK relay : relay = ended[first]
    OBVIOUS
  <2>3. relay \in ControlRelays /\ probe[relay].at = "fit"
    BY <1>1, <2>1, <2>2 DEF PlaneTypes, FitOnes
  <2>4. relay \in writer.candidates
    BY <1>1, <2>3 DEF ProbeIsSound
  <2>5. writer' = [writer EXCEPT !.at = "chosen", !.relay = relay]
    BY <2>1, <2>2
  <2>6. /\ writer' \in WriterRecords /\ writer'.at = "chosen" /\ writer'.relay = relay
        /\ writer'.candidates = writer.candidates /\ writer'.steady = writer.steady
    BY <1>1, <2>3, <2>5 DEF WriterRecords, WriterPlaces
  <2>7. PlaneTypes'
    BY <1>1, <1>2, <2>6 DEF PlaneTypes
  <2>8. \A q \in ControlRelays : ProbeIsSound(q)'
    BY <1>1, <1>2, <2>6 DEF ProbeIsSound, HasEnded
  <2>9. WriterIsSound'
    BY <1>1, <1>2, <2>3, <2>4, <2>6 DEF WriterIsSound, RefusesOnlyIfTurned, NoneOnlyIfNoneFit
  <2> QED
    BY <1>1, <1>2, <2>7, <2>8, <2>9 DEF WritableInv
<1> QED
  BY <1>3, <1>4

LEMMA PostIntentInv == ASSUME WritableInv, PostIntent PROVE WritableInv'
<1>1. /\ PlaneTypes /\ \A q \in ControlRelays : ProbeIsSound(q)
      /\ \A i, j \in DOMAIN ended : ended[i] = ended[j] => i = j
      /\ WriterIsSound /\ writer \in WriterRecords
  BY DEF WritableInv, PlaneTypes
<1>2. writer.at = "chosen" /\ UNCHANGED <<plane, turns, probe, ended>>
  BY DEF PostIntent
<1>3. PICK place \in {"accepted", "refused"} :
         place = IF Fit(plane[writer.relay]) THEN "accepted" ELSE "refused"
  OBVIOUS
<1>4. writer' = [writer EXCEPT !.at = place]
  BY <1>3 DEF PostIntent
<1>5. /\ writer' \in WriterRecords /\ writer'.at = place /\ writer'.relay = writer.relay
      /\ writer'.candidates = writer.candidates /\ writer'.steady = writer.steady
  BY <1>1, <1>4 DEF WriterRecords, WriterPlaces
<1>6. PlaneTypes'
  BY <1>1, <1>2, <1>5 DEF PlaneTypes
<1>7. \A q \in ControlRelays : ProbeIsSound(q)'
  BY <1>1, <1>2, <1>5 DEF ProbeIsSound, HasEnded
<1>8. place = "refused" /\ Cardinality(writer.candidates) > 1 =>
         \/ probe[writer.relay].turned
         \/ probe[writer.relay].at = "fit" /\ ~probe[writer.relay].read
  <2>1. writer.relay \in ControlRelays
    BY <1>1 DEF WriterRecords
  <2> QED
    BY <1>1, <1>2, <1>3, <2>1 DEF WriterIsSound, ProbeIsSound
<1>9. WriterIsSound'
  BY <1>1, <1>2, <1>5, <1>8 DEF WriterIsSound, RefusesOnlyIfTurned, NoneOnlyIfNoneFit
<1> QED
  BY <1>1, <1>2, <1>6, <1>7, <1>9 DEF WritableInv

LEMMA ProbeStepInv ==
    ASSUME WritableInv, NEW r \in ControlRelays,
           HealthAnswers(r) \/ HealthFails(r) \/ ReadinessAnswers(r) \/ ReadinessFails(r)
    PROVE  WritableInv'
<1>1. PICK p \in ProbeRecords : p = probe[r]
  BY DEF WritableInv, PlaneTypes
<1>2. probe \in [ControlRelays -> ProbeRecords]
  BY DEF WritableInv, PlaneTypes
<1>3. r \in writer.steady /\ writer.at = "asks" => Fit(plane[r]) /\ ~p.slow
  BY <1>1 DEF WritableInv, ProbeIsSound
<1>4. plane[r].tells \in BOOLEAN
  BY DEF WritableInv, PlaneTypes, PlaneStates
\* How a probe ends.
<1>5. ASSUME NEW place \in {"fit", "unfit"}, NEW read \in BOOLEAN, ProbeEnds(r, place, read),
             p.at \in {"health", "readiness"},
             place = "fit" /\ read => Fit(plane[r]),
             r \in writer.steady /\ writer.at = "asks" => place # "unfit"
      PROVE  WritableInv'
  <2>1. PICK next : next = [p EXCEPT !.at = place, !.read = read, !.turned = FALSE]
    OBVIOUS
  <2>2. /\ next \in ProbeRecords /\ next.at = place /\ next.read = read /\ next.slow = p.slow
    BY <2>1 DEF ProbeRecords, ProbePlaces
  <2>3. /\ probe' = [probe EXCEPT ![r] = next] /\ ended' = Append(ended, r)
        /\ UNCHANGED <<plane, turns, writer>>
    BY <1>1, <1>2, <1>5, <2>1 DEF ProbeEnds
  <2> QED
    BY <1>1, <1>3, <1>5, <2>2, <2>3, ProbeMovesInv
<1>6. CASE HealthAnswers(r)
  <2>1. PICK next : next = [p EXCEPT !.at = "readiness", !.slow = FALSE]
    OBVIOUS
  <2>2. next \in ProbeRecords /\ next.at = "readiness" /\ next.slow = FALSE
    BY <2>1 DEF ProbeRecords, ProbePlaces
  <2>3. /\ probe' = [probe EXCEPT ![r] = next] /\ ended' = ended
        /\ UNCHANGED <<plane, turns, writer>> /\ p.at = "health"
    BY <1>1, <1>2, <1>6, <2>1 DEF HealthAnswers
  <2> QED
    BY <1>1, <2>2, <2>3, ProbeMovesInv
<1>7. CASE HealthFails(r)
  <2>1. p.at = "health" /\ p.slow /\ ProbeEnds(r, "unfit", FALSE)
    BY <1>1, <1>7 DEF HealthFails
  <2> QED
    BY <1>3, <1>5, <2>1
<1>8. CASE ReadinessFails(r)
  <2>1. p.at = "readiness" /\ ProbeEnds(r, "fit", FALSE)
    BY <1>1, <1>8 DEF ReadinessFails
  <2> QED
    BY <1>5, <2>1
<1>9. CASE ReadinessAnswers(r)
  <2>1. PICK place \in {"fit", "unfit"} :
           place = IF plane[r].tells /\ ~plane[r].writable THEN "unfit" ELSE "fit"
    OBVIOUS
  <2>2. PICK read \in BOOLEAN : read = plane[r].tells
    BY <1>4
  <2>3. p.at = "readiness" /\ plane[r].up /\ ProbeEnds(r, place, read)
    BY <1>1, <1>9, <2>1, <2>2 DEF ReadinessAnswers
  <2>4. place = "fit" /\ read => Fit(plane[r])
    BY <2>1, <2>2, <2>3 DEF Fit
  <2>5. r \in writer.steady /\ writer.at = "asks" => place # "unfit"
    BY <1>3, <2>1 DEF Fit
  <2> QED
    BY <1>5, <2>3, <2>4, <2>5
<1> QED
  BY <1>6, <1>7, <1>8, <1>9

LEMMA WritableNextInv == WritableInv /\ [WritableNext]_planeVars => WritableInv'
<1> SUFFICES ASSUME WritableInv, [WritableNext]_planeVars PROVE WritableInv'
  OBVIOUS
<1>1. CASE UNCHANGED planeVars
  BY <1>1 DEF planeVars, WritableInv, PlaneTypes, ProbeIsSound, HasEnded, WriterIsSound,
              RefusesOnlyIfTurned, NoneOnlyIfNoneFit
<1>2. CASE \E r \in ControlRelays :
              PlaneTurns(r) \/ HealthAnswers(r) \/ HealthFails(r) \/ ReadinessAnswers(r)
                 \/ ReadinessFails(r)
  BY <1>2, PlaneTurnsInv, ProbeStepInv
<1> QED
  BY <1>1, <1>2, StartProbesInv, SelectInv, PostIntentInv DEF WritableNext

\* Each relay is in the order once at most.
LEMMA OrderIsShort == WritableInv => Len(ended) <= Cardinality(ControlRelays)
<1> SUFFICES ASSUME WritableInv, ~(Len(ended) <= Cardinality(ControlRelays)) PROVE FALSE
  OBVIOUS
<1>1. PICK s \in Seq(ControlRelays) :
         s = ended /\ \A i, j \in DOMAIN s : s[i] = s[j] => i = j
  BY DEF WritableInv, PlaneTypes
<1>2. s \in [1..Len(s) -> ControlRelays] /\ Len(s) \in Nat
  BY <1>1
<1>3. IsFiniteSet(ControlRelays) /\ Cardinality(ControlRelays) \in Nat
  BY WritableConstantsOK, FS_CardinalityType
<1>4. IsFiniteSet(1..Len(s)) /\ Cardinality(1..Len(s)) = Len(s)
  <2>1. 1 \in Int /\ Len(s) \in Int
    BY <1>2
  <2>2. /\ IsFiniteSet(1..Len(s))
        /\ Cardinality(1..Len(s)) = IF 1 > Len(s) THEN 0 ELSE Len(s) - 1 + 1
    BY <2>1, FS_Interval
  <2> QED
    BY <1>2, <2>2
<1>5. Cardinality(ControlRelays) < Cardinality(1..Len(s))
  BY <1>1, <1>2, <1>3, <1>4
<1>6. \E x, y \in 1..Len(s) : x # y /\ s[x] = s[y]
  BY <1>2, <1>3, <1>4, <1>5, FS_PigeonHole
<1> QED
  BY <1>1, <1>2, <1>6

\* For any number of control relays that change as often as they like: the relay
\* that was chosen among several refuses the intent only if it could not be
\* asked or has changed since, and none is found only if none was fit all the
\* time (selectWritableControlRelayUrl).
THEOREM WritableIsSafe == WritableSpec => []WritableSafe
<1>1. WritableInv => WritableSafe
  <2> SUFFICES ASSUME WritableInv PROVE WritableSafe
    OBVIOUS
  <2>1. /\ plane \in [ControlRelays -> PlaneStates] /\ turns \in 0..MaxTurns
        /\ ended \in Seq(ControlRelays) /\ writer \in WriterRecords
    BY DEF WritableInv, PlaneTypes
  <2>2. \A r \in ControlRelays :
           /\ probe[r].at \in ProbePlaces /\ probe[r].slow \in BOOLEAN
           /\ probe[r].read \in BOOLEAN /\ probe[r].turned \in BOOLEAN
           /\ probe[r].at # "none" => r \in writer.candidates
    BY DEF WritableInv, PlaneTypes, ProbeRecords, ProbeIsSound
  <2>3. {ended[i] : i \in DOMAIN ended} = {r \in ControlRelays : probe[r].at \in {"fit", "unfit"}}
    <3>1. \A i \in DOMAIN ended : ended[i] \in ControlRelays
      BY <2>1
    <3>2. \A r \in ControlRelays : HasEnded(r) <=> probe[r].at \in {"fit", "unfit"}
      BY DEF WritableInv, ProbeIsSound
    <3> QED
      BY <3>1, <3>2 DEF HasEnded
  <2>4. WritableTypeOK
    BY <2>1, <2>2, <2>3, OrderIsShort
    DEF WritableTypeOK, WritableInv, WriterIsSound, WriterRecords
  <2> QED
    BY <2>4 DEF WritableSafe, WritableInv, WriterIsSound
<1> QED
  BY <1>1, WritableInitInv, WritableNextInv, PTL DEF WritableSpec
-------------------------------------------------------------------------------
(***************************************************************************)
(* deployment-status and deploy doctor                                     *)
(***************************************************************************)

SawRecords ==
    [hub : Hubs, route : Routes, dns : DnsStatuses, funded : BOOLEAN, available : BOOLEAN,
     cap : Times, denied : BOOLEAN, listed : BOOLEAN, late : BOOLEAN, passed : SUBSET Probes,
     left : SUBSET Probes, secure : BOOLEAN, tlsOk : BOOLEAN, sshOk : BOOLEAN]

LookPlaces ==
    {"begin", "hub", "intent", "probing", "sum", "observe", "capability", "routeState",
     "sshProbe", "classify", "done", "error"}

LookRecords ==
    [kind : {"status", "doctor"}, hostname : BOOLEAN, probe : BOOLEAN, place : LookPlaces,
     ok : BOOLEAN, told : Verdicts, begun : Times]

CheckTypes ==
    /\ clock \in Times /\ hub \in Hubs /\ route \in Routes /\ dns \in DnsStatuses
    /\ cap \in Times /\ endpoint \in {"down", "tls", "banner"} /\ job \in Jobs
    /\ look \in LookRecords /\ saw \in SawRecords /\ was \subseteq {"active", "banner"}

\* What was so at some time is remembered; a status command meets no endpoint
\* that answers without being the deployment.
WasIsSound ==
    /\ route.status = "active" => "active" \in was
    /\ endpoint = "banner" => "banner" \in was
    /\ look.kind = "status" => endpoint # "tls"

\* What was read of the registry still holds, since a session is only ever paid
\* for and registered; the rest was so when it was read.
SeenIsTrue(s) ==
    /\ s.hub.funded => hub.funded /\ hub.expires = s.hub.expires
    /\ s.hub.registered => hub.registered
    /\ s.route.status = "active" \/ s.listed => "active" \in was
    /\ s.passed # {} =>
          /\ look.kind = "status" /\ look.hostname /\ s.dns \in {"unsaid", "propagated"}
          /\ "banner" \in was
    /\ s.sshOk => "banner" \in was

\* Where the command is: it has said nothing before the end, probes only a
\* hostname that is there, and a doctor that has read the start window knows
\* whether it is over.
PlaceIsSound(l, s) ==
    /\ l.place # "done" => ~l.ok /\ l.told = "nothing"
    /\ l.begun <= clock
    /\ l.place \in {"begin", "hub", "intent"} => s.passed = {}
    /\ l.place = "probing" => l.kind = "status" /\ l.hostname /\ s.dns \in {"unsaid", "propagated"}
    /\ l.place \in {"capability", "routeState", "sshProbe", "classify"} /\ ~s.late =>
          l.begun <= job.window

ToldIsSound == RecommendsUnlessOk /\ OkWasSo /\ NoAdviceToFundLate

ChecksInv ==
    /\ CheckTypes
    /\ WasIsSound
    /\ SeenIsTrue(saw)
    /\ PlaceIsSound(look, saw)
    /\ ToldIsSound

\* Of the facts that are wrong one is the first.
LEMMA FirstFound ==
    ASSUME NEW S \in SUBSET (1..10), S # {}
    PROVE  \E i \in S : \A j \in S : i <= j
<1> SUFFICES ASSUME \A i \in S : \E j \in S : j < i PROVE FALSE
  OBVIOUS
<1>1. 1 \notin S
  OBVIOUS
<1>2. 2 \notin S
  BY <1>1
<1>3. 3 \notin S
  BY <1>1, <1>2
<1>4. 4 \notin S
  BY <1>1, <1>2, <1>3
<1>5. 5 \notin S
  BY <1>1, <1>2, <1>3, <1>4
<1>6. 6 \notin S
  BY <1>1, <1>2, <1>3, <1>4, <1>5
<1>7. 7 \notin S
  BY <1>1, <1>2, <1>3, <1>4, <1>5, <1>6
<1>8. 8 \notin S
  BY <1>1, <1>2, <1>3, <1>4, <1>5, <1>6, <1>7
<1>9. 9 \notin S
  BY <1>1, <1>2, <1>3, <1>4, <1>5, <1>6, <1>7, <1>8
<1>10. 10 \notin S
  BY <1>1, <1>2, <1>3, <1>4, <1>5, <1>6, <1>7, <1>8, <1>9
<1>11. \A i \in 1..10 : i \notin S
  BY <1>1, <1>2, <1>3, <1>4, <1>5, <1>6, <1>7, <1>8, <1>9, <1>10
<1> QED
  BY <1>11

\* What a list of facts is taken for: the first that is wrong.
LEMMA ClassifiedFirst ==
    ASSUME NEW symptoms, DOMAIN symptoms = 1..10
    PROVE  \/ Classified(symptoms) = "healthy" /\ \A i \in 1..10 : ~symptoms[i]
           \/ \E i \in 1..10 :
                 /\ Classified(symptoms) = Names[i] /\ symptoms[i]
                 /\ \A j \in 1..10 : symptoms[j] => i <= j
<1> DEFINE found == {i \in DOMAIN symptoms : symptoms[i]}
           first == CHOOSE i \in found : \A j \in found : i <= j
<1>1. CASE found = {}
  BY <1>1 DEF Classified
<1>2. CASE found # {}
  <2>1. Classified(symptoms) = Names[first]
    BY <1>2 DEF Classified
  <2>2. first \in found /\ \A j \in found : first <= j
    BY <1>2, FirstFound
  <2> HIDE DEF first
  <2> QED
    BY <2>1, <2>2
<1> QED
  BY <1>1, <1>2

\* The names are different.
LEMMA NamesDiffer ==
    \A i \in 1..10 : Names[i] # "healthy" /\ (Names[i] = "funding_required" => i = 5)
<1>1. \A i \in 1..10 : \/ i = 1 \/ i = 2 \/ i = 3 \/ i = 4 \/ i = 5
                       \/ i = 6 \/ i = 7 \/ i = 8 \/ i = 9 \/ i = 10
  OBVIOUS
<1>2. /\ Names[1] = "late_funding_window" /\ Names[2] = "capability_token_unauthorized"
      /\ Names[3] = "stale_or_missing_capability" /\ Names[4] = "upstream_public_egress"
      /\ Names[5] = "funding_required" /\ Names[6] = "runtime_not_claimed"
      /\ Names[7] = "route_missing" /\ Names[8] = "tls_probe_failed"
      /\ Names[9] = "ssh_banner_missing" /\ Names[10] = "needs_attention"
  BY DEF Names
<1> QED
  BY <1>1, <1>2

LEMMA AdvicesDiffer ==
    \A i \in 1..10 : Advices[i] # "funding_required" /\ Advices[i] # "no_action"
<1>1. \A i \in 1..10 : \/ i = 1 \/ i = 2 \/ i = 3 \/ i = 4 \/ i = 5
                       \/ i = 6 \/ i = 7 \/ i = 8 \/ i = 9 \/ i = 10
  OBVIOUS
<1>2. /\ Advices[1] = "fund" /\ Advices[2] = "register" /\ Advices[3] = "lease_expired"
      /\ Advices[4] = "schedule_ended" /\ Advices[5] = "schedule_short"
      /\ Advices[6] = "route_inactive" /\ Advices[7] = "hostname" /\ Advices[8] = "dns"
      /\ Advices[9] = "validation" /\ Advices[10] = "public"
  BY DEF Advices
<1> QED
  BY <1>1, <1>2

\* Whoever is told to resume was not too late and has not paid.
LEMMA FundingAdvised ==
    ASSUME NEW paid, NEW phase, NEW egress,
           Classified(Symptoms(paid, phase, egress)) = "funding_required"
    PROVE  ~saw.late
<1>1. PICK symptoms : symptoms = Symptoms(paid, phase, egress)
  OBVIOUS
<1>2. DOMAIN symptoms = 1..10
  BY <1>1 DEF Symptoms
<1>3. symptoms[1] <=> LateToFund(paid)
  BY <1>1 DEF Symptoms
<1>4. symptoms[5] <=> ~paid /\ phase = "quote"
  BY <1>1 DEF Symptoms
<1>5. PICK i \in 1..10 : /\ "funding_required" = Names[i] /\ symptoms[i]
                         /\ \A j \in 1..10 : symptoms[j] => i <= j
  BY <1>1, <1>2, ClassifiedFirst
<1>6. i = 5
  BY <1>5, NamesDiffer
<1>7. ~symptoms[1] /\ symptoms[5]
  BY <1>5, <1>6
<1> QED
  BY <1>3, <1>4, <1>7 DEF LateToFund

\* Whoever is called healthy has an active route, and an answer if one was asked
\* for.
LEMMA HealthyMeans ==
    ASSUME NEW paid, NEW phase, NEW egress,
           Classified(Symptoms(paid, phase, egress)) = "healthy"
    PROVE  ~(look.probe /\ ~saw.sshOk) /\ DoctorRouteActive
<1>1. PICK symptoms : symptoms = Symptoms(paid, phase, egress)
  OBVIOUS
<1>2. DOMAIN symptoms = 1..10
  BY <1>1 DEF Symptoms
<1>3. symptoms[9] <=> look.probe /\ ~saw.sshOk
  BY <1>1 DEF Symptoms
<1>4. symptoms[10] <=> ~DoctorRouteActive
  BY <1>1 DEF Symptoms
<1>5. \A i \in 1..10 : ~symptoms[i]
  BY <1>1, <1>2, ClassifiedFirst, NamesDiffer
<1>6. ~symptoms[9] /\ ~symptoms[10]
  BY <1>5
<1> QED
  BY <1>3, <1>4, <1>6

LEMMA ClassifiedIsVerdict ==
    ASSUME NEW paid, NEW phase, NEW egress
    PROVE  Classified(Symptoms(paid, phase, egress)) \in Verdicts
<1>1. PICK symptoms : symptoms = Symptoms(paid, phase, egress)
  OBVIOUS
<1>2. DOMAIN symptoms = 1..10
  BY <1>1 DEF Symptoms
<1> QED
  BY <1>1, <1>2, ClassifiedFirst DEF Verdicts

\* deployment-status recommends nothing when it finds nothing wrong, and only
\* then.
LEMMA RecommendsNothing ==
    ASSUME NEW now
    PROVE  /\ Recommendation(now) \in Verdicts
           /\ Recommendation(now) # "funding_required"
           /\ Recommendation(now) = "no_action" <=>
                 /\ saw.hub.funded /\ saw.hub.registered
                 /\ ~Ended(saw.hub.expires, now) /\ ~Ended(job'.end, now)
                 /\ ~Short(saw.hub.expires) /\ ~Short(saw.route.expires)
                 /\ RouteActive(saw.route, now) /\ look.hostname
                 /\ saw.dns \in {"unsaid", "propagated"} /\ Validated /\ PublicOk
<1> DEFINE wrong == <<~saw.hub.funded, ~saw.hub.registered, Ended(saw.hub.expires, now),
                      Ended(job'.end, now), Short(saw.hub.expires) \/ Short(saw.route.expires),
                      ~RouteActive(saw.route, now), ~look.hostname,
                      saw.dns \notin {"unsaid", "propagated"}, ~Validated, ~PublicOk>>
           found == {i \in DOMAIN wrong : wrong[i]}
           first == CHOOSE i \in found : \A j \in found : i <= j
<1>1. DOMAIN wrong = 1..10
  OBVIOUS
<1>3. /\ wrong[1] <=> ~saw.hub.funded
      /\ wrong[2] <=> ~saw.hub.registered
      /\ wrong[3] <=> Ended(saw.hub.expires, now)
      /\ wrong[4] <=> Ended(job'.end, now)
      /\ wrong[5] <=> Short(saw.hub.expires) \/ Short(saw.route.expires)
  OBVIOUS
<1>4. /\ wrong[6] <=> ~RouteActive(saw.route, now)
      /\ wrong[7] <=> ~look.hostname
      /\ wrong[8] <=> saw.dns \notin {"unsaid", "propagated"}
      /\ wrong[9] <=> ~Validated
      /\ wrong[10] <=> ~PublicOk
  OBVIOUS
<1>5. Recommendation(now) = IF found = {} THEN "no_action" ELSE Advices[first]
  BY DEF Recommendation
<1> HIDE DEF wrong
<1>6. found # {} => first \in 1..10
  BY <1>1, FirstFound
<1>7. /\ Recommendation(now) \in Verdicts /\ Recommendation(now) # "funding_required"
      /\ (Recommendation(now) = "no_action") <=> (found = {})
  BY <1>5, <1>6, AdvicesDiffer DEF Verdicts
<1>8. found = {} <=> \A i \in 1..10 : ~wrong[i]
  BY <1>1
<1>9. (\A i \in 1..10 : ~wrong[i]) <=>
         /\ ~wrong[1] /\ ~wrong[2] /\ ~wrong[3] /\ ~wrong[4] /\ ~wrong[5]
         /\ ~wrong[6] /\ ~wrong[7] /\ ~wrong[8] /\ ~wrong[9] /\ ~wrong[10]
  <2>1. \A i \in 1..10 : \/ i = 1 \/ i = 2 \/ i = 3 \/ i = 4 \/ i = 5
                         \/ i = 6 \/ i = 7 \/ i = 8 \/ i = 9 \/ i = 10
    OBVIOUS
  <2> QED
    BY <2>1
<1> QED
  BY <1>3, <1>4, <1>7, <1>8, <1>9

LEMMA ChecksInitInv == CheckInit => ChecksInv
<1> SUFFICES ASSUME CheckInit PROVE ChecksInv
  OBVIOUS
<1>1. /\ clock \in Times /\ hub \in Hubs /\ route \in Routes /\ dns \in DnsStatuses
      /\ cap \in Times /\ endpoint = "down" /\ was = {w \in {"active"} : route.status = "active"}
  BY HorizonOK DEF CheckInit, Times, DnsStatuses
<1>2. job \in Jobs
  <2>1. 0 \in Times /\ 1 \in Times
    BY HorizonOK DEF Times
  <2>2. PICK w \in {0, 1} : job = [Nothing EXCEPT !.window = w]
    BY DEF CheckInit
  <2> QED
    BY <2>1, <2>2 DEF Jobs, Nothing
<1>3. /\ look \in LookRecords /\ look.place = "begin" /\ look.ok = FALSE
      /\ look.told = "nothing" /\ look.begun = 0
  <2>1. "nothing" \in Verdicts /\ "begin" \in LookPlaces /\ 0 \in Times
    BY HorizonOK DEF Verdicts, LookPlaces, Times
  <2>2. look \in [kind : {"status", "doctor"}, hostname : BOOLEAN, probe : BOOLEAN,
                  place : {"begin"}, ok : {FALSE}, told : {"nothing"}, begun : {0}]
    BY DEF CheckInit
  <2> QED
    BY <2>1, <2>2 DEF LookRecords
<1>4. saw = Unread
  BY DEF CheckInit
<1>5. saw \in SawRecords
  <2>1. /\ [funded |-> FALSE, registered |-> FALSE, expires |-> 0] \in Hubs
        /\ [status |-> "absent", expires |-> 0] \in Routes
        /\ "unsaid" \in DnsStatuses /\ 0 \in Times
    BY HorizonOK DEF Hubs, Routes, DnsStatuses, Times
  <2> QED
    BY <1>4, <2>1 DEF Unread, SawRecords
<1>6. /\ saw.hub.funded = FALSE /\ saw.hub.registered = FALSE /\ saw.route.status = "absent"
      /\ saw.listed = FALSE /\ saw.passed = {} /\ saw.sshOk = FALSE
  BY <1>4 DEF Unread
<1>7. CheckTypes
  BY <1>1, <1>2, <1>3, <1>5 DEF CheckTypes
<1>8. WasIsSound
  BY <1>1 DEF WasIsSound
<1>9. SeenIsTrue(saw)
  BY <1>6 DEF SeenIsTrue
<1>10. PlaceIsSound(look, saw)
  <2>1. clock = 0
    BY DEF CheckInit
  <2> QED
    BY <1>3, <1>6, <2>1 DEF PlaceIsSound
<1>11. ToldIsSound
  BY <1>3 DEF ToldIsSound, RecommendsUnlessOk, OkWasSo, NoAdviceToFundLate, LookAt
<1> QED
  BY <1>7, <1>8, <1>9, <1>10, <1>11 DEF ChecksInv

\* The world moves.
LEMMA WorldMoves ==
    ASSUME ChecksInv, CheckWorld
    PROVE  /\ UNCHANGED <<look, saw, job>> /\ was \subseteq was' /\ clock <= clock'
           /\ CheckTypes' /\ WasIsSound'
           /\ hub.funded => hub'.funded /\ hub'.expires = hub.expires
           /\ hub.registered => hub'.registered
<1>1. /\ CheckTypes /\ WasIsSound
      /\ hub.funded \in BOOLEAN /\ hub.registered \in BOOLEAN /\ hub.expires \in Times
  BY DEF ChecksInv, CheckTypes, Hubs
<1>2. CASE Tick
  <2>1. clock' \in Times /\ clock <= clock'
    BY <1>1, <1>2, HorizonOK DEF Tick, CheckTypes, Times
  <2> QED
    BY <1>1, <1>2, <2>1 DEF Tick, CheckTypes, WasIsSound
<1>3. CASE HubMoves
  <2>1. /\ UNCHANGED <<clock, route, dns, cap, endpoint, job, look, saw, was>>
        /\ \/ ~hub.funded /\ hub' = [hub EXCEPT !.funded = TRUE, !.expires = Horizon]
           \/ hub.funded /\ hub' = [hub EXCEPT !.registered = TRUE]
    BY <1>3 DEF HubMoves
  <2>2. Horizon \in Times
    BY HorizonOK DEF Times
  <2>3. hub' \in Hubs
    BY <1>1, <2>1, <2>2 DEF CheckTypes, Hubs
  <2>4. /\ hub.funded => hub'.funded /\ hub'.expires = hub.expires
        /\ hub.registered => hub'.registered
    BY <1>1, <2>1 DEF CheckTypes, Hubs
  <2>5. clock <= clock
    BY <1>1 DEF CheckTypes, Times
  <2> QED
    BY <1>1, <2>1, <2>3, <2>4, <2>5 DEF CheckTypes, WasIsSound
<1>4. clock <= clock
  BY <1>1 DEF CheckTypes, Times
<1>5. CASE RelayMoves
  <2>1. PICK s \in {"pending", "active"} : route' = [route EXCEPT !.status = s]
    BY <1>5 DEF RelayMoves
  <2>2. route' \in Routes
    BY <1>1, <2>1 DEF CheckTypes, Routes
  <2>3. /\ UNCHANGED <<clock, hub, dns, cap, endpoint, job, look, saw>>
        /\ was' = IF route'.status = "active" THEN was \cup {"active"} ELSE was
    BY <1>5 DEF RelayMoves
  <2>4. /\ was \subseteq was' /\ was' \subseteq {"active", "banner"}
        /\ route'.status = "active" => "active" \in was'
    BY <1>1, <2>3 DEF CheckTypes
  <2>5. CheckTypes'
    BY <1>1, <2>2, <2>3, <2>4 DEF CheckTypes
  <2>6. WasIsSound'
    BY <1>1, <2>3, <2>4 DEF WasIsSound
  <2> QED
    BY <1>1, <1>4, <2>3, <2>4, <2>5, <2>6
<1>6. CASE DnsMoves
  <2>1. dns' \in DnsStatuses /\ UNCHANGED <<clock, hub, route, cap, endpoint, job, look, saw, was>>
    BY <1>6 DEF DnsMoves, DnsStatuses
  <2> QED
    BY <1>1, <1>4, <2>1 DEF CheckTypes, WasIsSound
<1>7. CASE CapMoves
  <2>1. cap' \in Times /\ UNCHANGED <<clock, hub, route, dns, endpoint, job, look, saw, was>>
    BY <1>7, HorizonOK DEF CapMoves, Times
  <2> QED
    BY <1>1, <1>4, <2>1 DEF CheckTypes, WasIsSound
<1>8. CASE EndpointMoves
  <2>1. /\ endpoint' \in {"down", "tls", "banner"} /\ (look.kind = "status" => endpoint' # "tls")
        /\ UNCHANGED <<clock, hub, route, dns, cap, job, look, saw>>
        /\ was' = IF endpoint' = "banner" THEN was \cup {"banner"} ELSE was
    BY <1>8 DEF EndpointMoves
  <2>2. /\ was \subseteq was' /\ was' \subseteq {"active", "banner"}
        /\ endpoint' = "banner" => "banner" \in was'
    BY <1>1, <2>1 DEF CheckTypes
  <2>3. CheckTypes'
    BY <1>1, <2>1, <2>2 DEF CheckTypes
  <2>4. WasIsSound'
    BY <1>1, <2>1, <2>2 DEF WasIsSound
  <2> QED
    BY <1>1, <1>4, <2>1, <2>2, <2>3, <2>4
<1> QED
  BY <1>2, <1>3, <1>5, <1>6, <1>7, <1>8 DEF CheckWorld

LEMMA WorldInv == ASSUME ChecksInv, CheckWorld PROVE ChecksInv'
<1>1. /\ UNCHANGED <<look, saw, job>> /\ was \subseteq was' /\ clock <= clock'
      /\ CheckTypes' /\ WasIsSound'
      /\ hub.funded => hub'.funded /\ hub'.expires = hub.expires
      /\ hub.registered => hub'.registered
  BY WorldMoves
<1>2. SeenIsTrue(saw)'
  BY <1>1 DEF ChecksInv, SeenIsTrue
<1>3. PlaceIsSound(look, saw)'
  <2>1. look.begun \in Nat /\ clock \in Nat /\ clock' \in Nat
    BY <1>1 DEF ChecksInv, CheckTypes, LookRecords, Times
  <2>2. look.begun <= clock => look.begun <= clock'
    BY <1>1, <2>1
  <2> QED
    BY <1>1, <2>2 DEF ChecksInv, PlaceIsSound
<1>4. ToldIsSound'
  BY <1>1 DEF ChecksInv, ToldIsSound, RecommendsUnlessOk, OkWasSo, NoAdviceToFundLate, LookAt
<1> QED
  BY <1>1, <1>2, <1>3, <1>4 DEF ChecksInv

\* The command reads something and goes to its next place.
LEMMA LookMoves ==
    ASSUME ChecksInv, UNCHANGED worldVars,
           NEW place \in LookPlaces \ {"done"}, look.place # "done",
           NEW begun \in Times, begun <= clock,
           look' = [look EXCEPT !.place = place, !.begun = begun],
           NEW s \in SawRecords, saw' = s, SeenIsTrue(s),
           place \in {"hub", "intent"} => s.passed = {},
           place # "begin",
           place = "probing" =>
               look.kind = "status" /\ look.hostname /\ s.dns \in {"unsaid", "propagated"},
           place \in {"capability", "routeState", "sshProbe", "classify"} /\ ~s.late =>
               begun <= job.window
    PROVE  ChecksInv'
<1>1. look \in LookRecords /\ ~look.ok /\ look.told = "nothing"
  BY DEF ChecksInv, CheckTypes, PlaceIsSound
<1>2. PICK l : l = [look EXCEPT !.place = place, !.begun = begun]
  OBVIOUS
<1>3. /\ l \in LookRecords /\ l.place = place /\ l.begun = begun /\ l.ok = look.ok
      /\ l.told = look.told /\ l.kind = look.kind /\ l.hostname = look.hostname
      /\ l.probe = look.probe
  BY <1>1, <1>2 DEF LookRecords
<1>4. look' = l
  BY <1>2
<1>5. CheckTypes'
  BY <1>3, <1>4 DEF ChecksInv, CheckTypes, worldVars
<1>6. WasIsSound'
  BY <1>3, <1>4 DEF ChecksInv, WasIsSound, worldVars
<1>7. SeenIsTrue(saw)'
  BY <1>3, <1>4 DEF SeenIsTrue, worldVars
<1>8. PlaceIsSound(look, saw)'
  BY <1>1, <1>3, <1>4 DEF PlaceIsSound, worldVars
<1>9. ToldIsSound'
  BY <1>1, <1>3, <1>4 DEF ToldIsSound, RecommendsUnlessOk, OkWasSo, NoAdviceToFundLate, LookAt
<1> QED
  BY <1>5, <1>6, <1>7, <1>8, <1>9 DEF ChecksInv

LEMMA MovesOn ==
    ASSUME ChecksInv, NEW place \in LookPlaces \ {"begin", "done"}, look.place # "done",
           Moves(place),
           NEW s \in SawRecords, saw' = s, SeenIsTrue(s),
           place \in {"hub", "intent"} => s.passed = {},
           place = "probing" =>
               look.kind = "status" /\ look.hostname /\ s.dns \in {"unsaid", "propagated"},
           place \in {"capability", "routeState", "sshProbe", "classify"} /\ ~s.late =>
               look.begun <= job.window
    PROVE  ChecksInv'
<1>1. look \in LookRecords /\ look.begun \in Times /\ look.begun <= clock
  BY DEF ChecksInv, CheckTypes, PlaceIsSound, LookRecords
<1>2. [look EXCEPT !.place = place] = [look EXCEPT !.place = place, !.begun = look.begun]
  BY <1>1 DEF LookRecords
<1>3. look' = [look EXCEPT !.place = place, !.begun = look.begun] /\ UNCHANGED worldVars
  BY <1>2 DEF Moves
<1> QED
  BY <1>1, <1>3, LookMoves

LEMMA BeginInv == ASSUME ChecksInv, Begin PROVE ChecksInv'
<1>1. PICK place \in {"hub", "observe"} : look' = [look EXCEPT !.begun = clock, !.place = place]
  BY DEF Begin
<1>2. /\ look.place = "begin" /\ UNCHANGED <<worldVars, saw>>
      /\ [look EXCEPT !.begun = clock, !.place = place] = [look EXCEPT !.place = place, !.begun = clock]
  BY DEF Begin, ChecksInv, CheckTypes, LookRecords
<1>3. saw \in SawRecords /\ saw.passed = {} /\ SeenIsTrue(saw) /\ clock \in Times /\ clock <= clock
  BY <1>2 DEF ChecksInv, CheckTypes, PlaceIsSound, Times
<1> QED
  BY <1>1, <1>2, <1>3, LookMoves DEF LookPlaces

LEMMA ThrowsInv == ASSUME ChecksInv, Throws PROVE ChecksInv'
  BY MovesOn DEF Throws, ChecksInv, CheckTypes, LookPlaces

\* The readings of deployment-status.
LEMMA StatusReadsInv ==
    ASSUME ChecksInv, ReadHub \/ ReadIntent \/ \E p \in Probes : Probe(p)
    PROVE  ChecksInv'
<1>1. /\ saw \in SawRecords /\ SeenIsTrue(saw) /\ hub \in Hubs /\ route \in Routes
      /\ dns \in DnsStatuses /\ WasIsSound /\ PlaceIsSound(look, saw)
      /\ saw.passed \in SUBSET Probes /\ saw.left \in SUBSET Probes
  BY DEF ChecksInv, CheckTypes, SawRecords
<1>2. CASE ReadHub
  <2>1. PICK s : s = [saw EXCEPT !.hub = hub]
    OBVIOUS
  <2>2. /\ s \in SawRecords /\ s.hub = hub /\ s.route = saw.route /\ s.listed = saw.listed
        /\ s.passed = saw.passed /\ s.dns = saw.dns /\ s.sshOk = saw.sshOk
    BY <1>1, <2>1 DEF SawRecords
  <2>3. look.place = "hub" /\ saw' = s /\ Moves("intent")
    BY <1>2, <2>1 DEF ReadHub, LookAt
  <2>4. s.passed = {}
    BY <1>1, <2>2, <2>3 DEF PlaceIsSound
  <2>5. SeenIsTrue(s)
    BY <1>1, <2>2 DEF SeenIsTrue
  <2> QED
    BY <2>2, <2>3, <2>4, <2>5, MovesOn DEF LookPlaces
<1>3. CASE ReadIntent
  <2>1. look.kind = "status" /\ look.place = "intent"
    BY <1>3 DEF ReadIntent, LookAt
  <2>2. saw.passed = {}
    BY <1>1, <2>1 DEF PlaceIsSound
  <2>3. PICK s : /\ s = [saw EXCEPT !.route = route, !.dns = dns, !.left = Probes]
                    \/ s = [saw EXCEPT !.left = Probes]
                 /\ saw' = s
    BY <1>3 DEF ReadIntent
  <2>4. /\ s \in SawRecords /\ s.hub = saw.hub /\ s.route \in {route, saw.route}
        /\ s.listed = saw.listed /\ s.passed = saw.passed /\ s.sshOk = saw.sshOk
    <3>1. CASE s = [saw EXCEPT !.route = route, !.dns = dns, !.left = Probes]
      BY <1>1, <3>1 DEF SawRecords
    <3>2. CASE s = [saw EXCEPT !.left = Probes]
      BY <1>1, <3>2 DEF SawRecords
    <3> QED
      BY <2>3, <3>1, <3>2
  <2>5. SeenIsTrue(s)
    BY <1>1, <2>2, <2>4 DEF SeenIsTrue, WasIsSound
  <2>6. PICK place \in {"probing", "sum"} :
           /\ place = "probing" => look.hostname /\ s.dns \in {"unsaid", "propagated"}
           /\ Moves(place)
    BY <1>3, <2>3 DEF ReadIntent
  <2> QED
    BY <2>1, <2>3, <2>4, <2>5, <2>6, MovesOn DEF LookPlaces
<1>4. ASSUME NEW p \in Probes, Probe(p) PROVE ChecksInv'
  <2>1. look.kind = "status" /\ look.place = "probing"
    BY <1>4 DEF Probe, LookAt
  <2>2. look.hostname /\ saw.dns \in {"unsaid", "propagated"}
    BY <1>1, <2>1 DEF PlaceIsSound
  <2>3. PICK s : /\ \/ endpoint # "down" /\ s = [saw EXCEPT !.left = @ \ {p}, !.passed = @ \cup {p}]
                    \/ s = [saw EXCEPT !.left = @ \ {p}]
                 /\ saw' = s
    BY <1>4 DEF Probe
  <2>4. /\ s \in SawRecords /\ s.hub = saw.hub /\ s.route = saw.route /\ s.dns = saw.dns
        /\ s.listed = saw.listed /\ s.sshOk = saw.sshOk
        /\ s.passed = saw.passed \/ endpoint # "down"
    <3>1. CASE endpoint # "down" /\ s = [saw EXCEPT !.left = @ \ {p}, !.passed = @ \cup {p}]
      BY <1>1, <1>4, <3>1 DEF SawRecords
    <3>2. CASE s = [saw EXCEPT !.left = @ \ {p}]
      BY <1>1, <3>2 DEF SawRecords
    <3> QED
      BY <2>3, <3>1, <3>2
  <2>5. endpoint # "down" => "banner" \in was
    BY <1>1, <2>1 DEF ChecksInv, CheckTypes, WasIsSound
  <2>6. SeenIsTrue(s)
    BY <1>1, <2>1, <2>2, <2>4, <2>5 DEF SeenIsTrue
  <2>7. PICK place \in {"probing", "sum"} : Moves(place)
    BY <1>4 DEF Probe
  <2> QED
    BY <2>1, <2>2, <2>3, <2>4, <2>6, <2>7, MovesOn DEF LookPlaces
<1> QED
  BY <1>2, <1>3, <1>4

\* The readings of the doctor.
LEMMA DoctorReadsInv ==
    ASSUME ChecksInv, Observe \/ ReadCapability \/ ReadRouteState
    PROVE  ChecksInv'
<1>1. /\ saw \in SawRecords /\ SeenIsTrue(saw) /\ hub.funded \in BOOLEAN /\ route \in Routes
      /\ cap \in Times /\ WasIsSound /\ PlaceIsSound(look, saw) /\ clock \in Times
      /\ look.begun \in Times /\ job.window \in Times /\ 0 \in Times
      /\ saw.route \in Routes
  BY HorizonOK DEF ChecksInv, CheckTypes, SawRecords, Hubs, Jobs, LookRecords, Times
<1>2. CASE Observe
  <2>1. look.place = "observe" /\ Moves("capability")
    BY <1>2 DEF Observe, LookAt
  <2>2. PICK read \in BOOLEAN :
           saw' = [saw EXCEPT !.route = IF read THEN route ELSE @,
                              !.funded = read /\ hub.funded,
                              !.available = read => cap > clock,
                              !.cap = IF read THEN cap ELSE 0,
                              !.late = clock > job.window]
    BY <1>2 DEF Observe
  <2>3. PICK r \in Routes, c \in Times :
           r = (IF read THEN route ELSE saw.route) /\ c = (IF read THEN cap ELSE 0)
    BY <1>1
  <2>4. /\ (read /\ hub.funded) \in BOOLEAN /\ (read => cap > clock) \in BOOLEAN
        /\ (clock > job.window) \in BOOLEAN
    OBVIOUS
  <2> PICK paid \in BOOLEAN : paid = (read /\ hub.funded)
    BY <2>4
  <2> PICK available \in BOOLEAN : available = (read => cap > clock)
    BY <2>4
  <2> PICK late \in BOOLEAN : late = (clock > job.window)
    BY <2>4
  <2>5. PICK s : s = [saw EXCEPT !.route = r, !.funded = paid, !.available = available,
                                 !.cap = c, !.late = late]
    OBVIOUS
  <2>6. saw' = s
    BY <2>2, <2>3, <2>4, <2>5
  <2>7. s \in SawRecords
    BY <1>1, <2>5 DEF SawRecords
  <2>8. /\ s.hub = saw.hub /\ s.route = r /\ s.dns = saw.dns /\ s.listed = saw.listed
        /\ s.sshOk = saw.sshOk /\ s.passed = saw.passed /\ s.late = late
    BY <1>1, <2>5 DEF SawRecords
  <2>9. SeenIsTrue(s)
    BY <1>1, <2>3, <2>8 DEF SeenIsTrue, WasIsSound
  <2>10. ~s.late => look.begun <= job.window
    <3>1. look.begun <= clock /\ (late <=> clock > job.window)
      BY <1>1, <2>4 DEF PlaceIsSound
    <3> QED
      BY <1>1, <2>8, <3>1 DEF Times
  <2> QED
    BY <2>1, <2>6, <2>7, <2>9, <2>10, MovesOn DEF LookPlaces
<1>3. CASE ReadCapability
  <2>1. look.place = "capability" /\ Moves("routeState")
    BY <1>3 DEF ReadCapability, LookAt
  <2>2. PICK s : /\ \/ s = [saw EXCEPT !.denied = TRUE]
                    \/ s = [saw EXCEPT !.cap = IF @ = 0 THEN cap ELSE @]
                    \/ s = saw
                 /\ saw' = s
    BY <1>3 DEF ReadCapability
  <2>3. /\ s \in SawRecords /\ s.hub = saw.hub /\ s.route = saw.route /\ s.dns = saw.dns
        /\ s.listed = saw.listed /\ s.sshOk = saw.sshOk /\ s.passed = saw.passed
        /\ s.late = saw.late
    BY <1>1, <2>2 DEF SawRecords
  <2>4. SeenIsTrue(s)
    BY <1>1, <2>3 DEF SeenIsTrue
  <2>5. ~s.late => look.begun <= job.window
    BY <1>1, <2>1, <2>3 DEF PlaceIsSound
  <2> QED
    BY <2>1, <2>2, <2>3, <2>4, <2>5, MovesOn DEF LookPlaces
<1>4. CASE ReadRouteState
  <2>1. look.place = "routeState"
    BY <1>4 DEF ReadRouteState, LookAt
  <2>2. PICK s : /\ s = [saw EXCEPT !.listed = (route.status = "active")] \/ s = saw
                 /\ saw' = s
    BY <1>4 DEF ReadRouteState
  <2>3. /\ s \in SawRecords /\ s.hub = saw.hub /\ s.route = saw.route /\ s.dns = saw.dns
        /\ s.listed => saw.listed \/ route.status = "active"
        /\ s.sshOk = saw.sshOk /\ s.passed = saw.passed /\ s.late = saw.late
    BY <1>1, <2>2 DEF SawRecords
  <2>4. SeenIsTrue(s)
    BY <1>1, <2>3 DEF SeenIsTrue, WasIsSound
  <2>5. ~s.late => look.begun <= job.window
    BY <1>1, <2>1, <2>3 DEF PlaceIsSound
  <2>6. PICK place \in {"sshProbe", "classify"} : Moves(place)
    BY <1>4 DEF ReadRouteState
  <2> QED
    BY <2>1, <2>2, <2>3, <2>4, <2>5, <2>6, MovesOn DEF LookPlaces
<1> QED
  BY <1>2, <1>3, <1>4

LEMMA SshProbeInv ==
    ASSUME ChecksInv, SecureConnect \/ Banner \/ SocketFails \/ ProbeTimer
    PROVE  ChecksInv'
<1>1. /\ saw \in SawRecords /\ SeenIsTrue(saw) /\ WasIsSound /\ PlaceIsSound(look, saw)
      /\ saw.secure \in BOOLEAN
  BY DEF ChecksInv, CheckTypes, SawRecords
<1>2. look.place = "sshProbe"
  BY DEF SecureConnect, Banner, SocketFails, ProbeTimer, LookAt
<1>3. PICK place \in {"sshProbe", "classify"} : Moves(place)
  BY DEF SecureConnect, Banner, SocketFails, ProbeTimer
<1>4. PICK s : /\ \/ s = [saw EXCEPT !.secure = TRUE]
                  \/ endpoint = "banner" /\ s = [saw EXCEPT !.tlsOk = TRUE, !.sshOk = TRUE]
                  \/ s = [saw EXCEPT !.tlsOk = saw.secure]
               /\ saw' = s
  BY DEF SecureConnect, Banner, SocketFails, ProbeTimer
<1>5. /\ s \in SawRecords /\ s.hub = saw.hub /\ s.route = saw.route /\ s.dns = saw.dns
      /\ s.listed = saw.listed /\ s.passed = saw.passed /\ s.late = saw.late
      /\ s.sshOk => saw.sshOk \/ endpoint = "banner"
  <2>1. CASE s = [saw EXCEPT !.secure = TRUE]
    BY <1>1, <2>1 DEF SawRecords
  <2>2. CASE endpoint = "banner" /\ s = [saw EXCEPT !.tlsOk = TRUE, !.sshOk = TRUE]
    BY <1>1, <2>2 DEF SawRecords
  <2>3. CASE s = [saw EXCEPT !.tlsOk = saw.secure]
    BY <1>1, <2>3 DEF SawRecords
  <2> QED
    BY <1>4, <2>1, <2>2, <2>3
<1>6. SeenIsTrue(s)
  BY <1>1, <1>5 DEF SeenIsTrue, WasIsSound
<1>7. ~s.late => look.begun <= job.window
  BY <1>1, <1>2, <1>5 DEF PlaceIsSound
<1> QED
  BY <1>2, <1>3, <1>4, <1>5, <1>6, <1>7, MovesOn DEF LookPlaces

\* What deployment-status calls ok was read so, and the readings last.
LEMMA StatusOkMeans ==
    ASSUME ChecksInv, LookAt("status", "sum"), StatusOk(clock)
    PROVE  /\ Recommendation(clock) = "no_action"
           /\ "active" \in was \/ saw.route.status = "unsaid"
           /\ "banner" \in was
           /\ hub.funded /\ hub.registered
           /\ ~Ended(hub.expires, clock) /\ ~Ended(job'.end, clock)
           /\ ~Ended(saw.route.expires, clock)
<1>1. /\ saw.hub.funded /\ saw.hub.registered /\ RouteActive(saw.route, clock)
      /\ Validated /\ PublicOk /\ LifecycleOk(clock)
  BY DEF StatusOk
<1>2. saw.passed # {}
  BY <1>1 DEF PublicOk
<1>3. /\ hub.funded /\ hub.registered /\ hub.expires = saw.hub.expires
      /\ saw.route.status = "active" => "active" \in was
      /\ look.hostname /\ saw.dns \in {"unsaid", "propagated"} /\ "banner" \in was
  BY <1>1, <1>2 DEF ChecksInv, SeenIsTrue
<1>4. /\ ~Ended(saw.hub.expires, clock) /\ ~Ended(job'.end, clock)
      /\ ~Short(saw.hub.expires) /\ ~Short(saw.route.expires)
  BY <1>1 DEF LifecycleOk
<1>5. Recommendation(clock) = "no_action"
  BY <1>1, <1>3, <1>4, RecommendsNothing
<1>6. /\ saw.route.status \in {"unsaid", "active"}
      /\ saw.route.expires > 0 => saw.route.expires > clock
  BY <1>1 DEF RouteActive
<1>7. ~Ended(saw.route.expires, clock)
  <2>1. saw.route.expires \in Nat /\ clock \in Nat
    BY DEF ChecksInv, CheckTypes, SawRecords, Routes, Times
  <2> QED
    BY <1>6, <2>1 DEF Ended
<1> QED
  BY <1>3, <1>4, <1>5, <1>6, <1>7

LEMMA SumInv == ASSUME ChecksInv, Sum PROVE ChecksInv'
<1>1. /\ look.kind = "status" /\ look.place = "sum" /\ look \in LookRecords
      /\ UNCHANGED <<clock, hub, route, dns, cap, endpoint, was, saw>>
      /\ job' \in Jobs
  BY DEF Sum, SumsAt, LookAt, ChooseJob, ChecksInv, CheckTypes
<1>2. PICK ok \in BOOLEAN : ok = StatusOk(clock)
  BY DEF StatusOk
<1>3. PICK told \in Verdicts : told = Recommendation(clock)
  BY RecommendsNothing
<1>4. PICK l : l = [look EXCEPT !.place = "done", !.ok = ok, !.told = told]
  OBVIOUS
<1>5. look' = l
  BY <1>2, <1>3, <1>4 DEF Sum, SumsAt
<1>6. /\ l \in LookRecords /\ l.place = "done" /\ l.ok = ok /\ l.told = told
      /\ l.kind = "status" /\ l.begun = look.begun /\ l.hostname = look.hostname
  BY <1>1, <1>4 DEF LookRecords, LookPlaces
<1>7. CheckTypes'
  BY <1>1, <1>5, <1>6 DEF ChecksInv, CheckTypes
<1>8. WasIsSound'
  BY <1>1, <1>5, <1>6 DEF ChecksInv, WasIsSound
<1>9. SeenIsTrue(saw)'
  BY <1>1, <1>5, <1>6 DEF ChecksInv, SeenIsTrue
<1>10. PlaceIsSound(look, saw)'
  BY <1>1, <1>5, <1>6 DEF ChecksInv, PlaceIsSound
<1>11. ToldIsSound'
  <2>1. ok => /\ told = "no_action" /\ "banner" \in was
              /\ "active" \in was \/ saw.route.status = "unsaid"
    BY <1>1, <1>2, <1>3, StatusOkMeans DEF LookAt
  <2>2. told = "no_action" => ok
    <3>1. told = "no_action" =>
                 /\ saw.hub.funded /\ saw.hub.registered
                 /\ ~Ended(saw.hub.expires, clock) /\ ~Ended(job'.end, clock)
                 /\ ~Short(saw.hub.expires) /\ ~Short(saw.route.expires)
                 /\ RouteActive(saw.route, clock) /\ Validated /\ PublicOk
      BY <1>3, RecommendsNothing
    <3> QED
      BY <1>2, <3>1 DEF StatusOk, LifecycleOk
  <2>3. told # "funding_required"
    BY <1>3, RecommendsNothing
  <2>4. RecommendsUnlessOk'
    BY <1>5, <1>6, <2>1, <2>2 DEF RecommendsUnlessOk, LookAt
  <2>5. OkWasSo'
    BY <1>1, <1>5, <1>6, <2>1 DEF OkWasSo
  <2>6. NoAdviceToFundLate'
    BY <1>5, <1>6, <2>3 DEF NoAdviceToFundLate
  <2> QED
    BY <2>4, <2>5, <2>6 DEF ToldIsSound
<1> QED
  BY <1>7, <1>8, <1>9, <1>10, <1>11 DEF ChecksInv

LEMMA ClassifyInv == ASSUME ChecksInv, Classify PROVE ChecksInv'
<1>1. /\ look.kind = "doctor" /\ look.place = "classify" /\ look \in LookRecords
      /\ UNCHANGED <<clock, hub, route, dns, cap, endpoint, was>>
      /\ job' \in Jobs /\ job'.window = job.window /\ saw' = Unread
  BY DEF Classify, LookAt, ChooseJob, ChecksInv, CheckTypes
<1>2. PICK told : /\ Concludes(told)
                  /\ \E paid, phase, egress : told = Classified(Symptoms(paid, phase, egress))
  <2>1. PICK told \in {Classified(Symptoms(paid \/ saw.funded, phase, egress)) :
                          paid \in BOOLEAN, phase \in {"quote", "claimed", "other"}, egress \in BOOLEAN} :
                Concludes(told)
    BY DEF Classify
  <2>2. PICK paid \in BOOLEAN, phase \in {"quote", "claimed", "other"}, egress \in BOOLEAN :
           told = Classified(Symptoms(paid \/ saw.funded, phase, egress))
    OBVIOUS
  <2>3. \E unpaid, p, e : told = Classified(Symptoms(unpaid, p, e))
    BY <2>2
  <2> QED
    BY <2>1, <2>3
<1>3. /\ told \in Verdicts
      /\ told = "healthy" => ~(look.probe /\ ~saw.sshOk) /\ DoctorRouteActive
      /\ told = "funding_required" => ~saw.late
  BY <1>2, ClassifiedIsVerdict, HealthyMeans, FundingAdvised
<1>4. PICK ok \in BOOLEAN : ok = (told = "healthy")
  OBVIOUS
<1>5. PICK l : l = [look EXCEPT !.place = "done", !.ok = ok, !.told = told]
  OBVIOUS
<1>6. look' = l
  BY <1>2, <1>3, <1>4, <1>5 DEF Concludes
<1>7. /\ l \in LookRecords /\ l.place = "done" /\ l.ok = ok /\ l.told = told
      /\ l.kind = "doctor" /\ l.begun = look.begun /\ l.probe = look.probe
  BY <1>1, <1>3, <1>5 DEF LookRecords, LookPlaces
<1>8. saw' \in SawRecords
  <2>1. /\ [funded |-> FALSE, registered |-> FALSE, expires |-> 0] \in Hubs
        /\ [status |-> "absent", expires |-> 0] \in Routes
        /\ "unsaid" \in DnsStatuses /\ 0 \in Times
    BY HorizonOK DEF Hubs, Routes, DnsStatuses, Times
  <2> QED
    BY <1>1, <2>1 DEF Unread, SawRecords
<1>9. /\ saw'.hub.funded = FALSE /\ saw'.hub.registered = FALSE /\ saw'.route.status = "absent"
      /\ saw'.listed = FALSE /\ saw'.passed = {} /\ saw'.sshOk = FALSE
  BY <1>1 DEF Unread
<1>10. CheckTypes'
  BY <1>1, <1>6, <1>7, <1>8 DEF ChecksInv, CheckTypes
<1>11. WasIsSound'
  BY <1>1, <1>6, <1>7 DEF ChecksInv, WasIsSound
<1>12. SeenIsTrue(saw)'
  BY <1>9 DEF SeenIsTrue
<1>13. PlaceIsSound(look, saw)'
  BY <1>1, <1>6, <1>7 DEF ChecksInv, PlaceIsSound
<1>14. ToldIsSound'
  <2>1. ok => /\ "active" \in was \/ job'.active
              /\ look.probe => "banner" \in was
    <3>1. SUFFICES ASSUME ok PROVE ("active" \in was \/ job'.active) /\ (look.probe => "banner" \in was)
      OBVIOUS
    <3>2. ~(look.probe /\ ~saw.sshOk) /\ DoctorRouteActive
      BY <1>3, <1>4, <3>1
    <3> QED
      BY <3>2 DEF DoctorRouteActive, ChecksInv, SeenIsTrue
  <2>2. told = "funding_required" => look.begun <= job.window
    <3>1. SUFFICES ASSUME told = "funding_required" PROVE look.begun <= job.window
      OBVIOUS
    <3>2. ~saw.late
      BY <1>3, <3>1
    <3> QED
      BY <1>1, <3>2 DEF ChecksInv, PlaceIsSound
  <2>3. RecommendsUnlessOk'
    BY <1>6, <1>7 DEF RecommendsUnlessOk, LookAt
  <2>4. OkWasSo'
    BY <1>1, <1>6, <1>7, <2>1 DEF OkWasSo
  <2>5. NoAdviceToFundLate'
    BY <1>1, <1>6, <1>7, <2>2 DEF NoAdviceToFundLate
  <2> QED
    BY <2>3, <2>4, <2>5 DEF ToldIsSound
<1> QED
  BY <1>10, <1>11, <1>12, <1>13, <1>14 DEF ChecksInv

LEMMA ChecksNextInv == ChecksInv /\ [CheckNext]_checkVars => ChecksInv'
<1> SUFFICES ASSUME ChecksInv, [CheckNext]_checkVars PROVE ChecksInv'
  OBVIOUS
<1>1. CASE UNCHANGED checkVars
  BY <1>1 DEF checkVars, ChecksInv, CheckTypes, WasIsSound, SeenIsTrue, PlaceIsSound,
              ToldIsSound, RecommendsUnlessOk, OkWasSo, NoAdviceToFundLate, LookAt
<1>2. CASE CheckNext
  BY <1>2, WorldInv, BeginInv, ThrowsInv, StatusReadsInv, SumInv, DoctorReadsInv, SshProbeInv,
     ClassifyInv DEF CheckNext, StatusStep, DoctorStep
<1> QED
  BY <1>1, <1>2

\* Until a command has summed up it calls nothing ok.
LEMMA OnlySumCallsOk ==
    ASSUME ChecksInv, ChecksInv', [CheckNext]_checkVars,
           LookAt("status", "sum"), look'.ok
    PROVE  Sum
<1>1. ~look.ok /\ look.place = "sum" /\ look.kind = "status" /\ look \in LookRecords
  BY DEF ChecksInv, PlaceIsSound, CheckTypes, LookAt
<1>2. look' # look
  BY <1>1
<1>3. ~CheckWorld
  BY <1>2, WorldMoves
<1>4. ~Begin /\ ~Throws /\ ~ReadHub /\ ~ReadIntent
  BY <1>1 DEF Begin, Throws, ReadHub, ReadIntent, LookAt
<1>5. \A p \in Probes : ~Probe(p)
  BY <1>1 DEF Probe, LookAt
<1>6. ~DoctorStep
  BY <1>1 DEF DoctorStep, LookAt, Observe, ReadCapability, ReadRouteState, SecureConnect, Banner,
              SocketFails, ProbeTimer, Classify
<1>7. CheckNext
  BY <1>2 DEF checkVars
<1> QED
  BY <1>3, <1>4, <1>5, <1>6, <1>7 DEF CheckNext, StatusStep

\* However the registry, the relay and the endpoint move while a command looks,
\* for any times: deployment-status recommends nothing if and only if it says ok,
\* what it calls ok is not over at that moment, nothing is called ok or healthy
\* that never was, and nobody is told to pay a quote whose window had passed
\* (deploymentStatusCommand, buildSwitchboardDeployDoctorReport).
THEOREM ChecksAreSafe == CheckSpec => ChecksSafe
<1>1. ChecksInv => CheckTypeOK /\ RecommendsUnlessOk /\ OkWasSo /\ NoAdviceToFundLate
  <2> SUFFICES ASSUME ChecksInv PROVE CheckTypeOK
    BY DEF ChecksInv, ToldIsSound
  <2> QED
    BY DEF ChecksInv, CheckTypes, CheckTypeOK, LookRecords, LookPlaces, SawRecords
<1>2. ChecksInv /\ ChecksInv' /\ [CheckNext]_checkVars =>
         [LookAt("status", "sum") /\ look'.ok =>
            /\ hub.funded /\ hub.registered
            /\ ~Ended(hub.expires, clock) /\ ~Ended(job'.end, clock)
            /\ ~Ended(saw.route.expires, clock)]_checkVars
  <2> SUFFICES ASSUME ChecksInv, ChecksInv', [CheckNext]_checkVars,
                      LookAt("status", "sum"), look'.ok
               PROVE  /\ hub.funded /\ hub.registered
                      /\ ~Ended(hub.expires, clock) /\ ~Ended(job'.end, clock)
                      /\ ~Ended(saw.route.expires, clock)
    OBVIOUS
  <2>1. Sum
    BY OnlySumCallsOk
  <2>2. StatusOk(clock)
    <3>1. look \in LookRecords /\ look'.ok = StatusOk(clock)
      BY <2>1 DEF Sum, SumsAt, ChecksInv, CheckTypes, LookRecords
    <3> QED
      BY <3>1
  <2> QED
    BY <2>2, StatusOkMeans
<1> QED
  BY <1>1, <1>2, ChecksInitInv, ChecksNextInv, PTL DEF CheckSpec, ChecksSafe, OkIsNotOver
===============================================================================
