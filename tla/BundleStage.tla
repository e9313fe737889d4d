----------------------------- MODULE BundleStage ------------------------------
(***************************************************************************)
(* What a deploy uploads (cli/src/acurast-submit-adapter.ts) and what its  *)
(* job runs (cli/src/relay/encrypted-code.ts).  The code is put together   *)
(* in a directory of the project that deploys share unless they are given  *)
(* another, before anything is locked; it is encrypted where it lies, with *)
(* a key that is new or that the environment gives, and uploaded later.    *)
(*                                                                         *)
(* A file is who built it and the keys it was encrypted with, the last one *)
(* outermost.  Of the environment variables there is only the key; the     *)
(* registration of the job is DeployHardened's.                            *)
(***************************************************************************)
EXTENDS Naturals, Sequences, FiniteSets

CONSTANT Deploys    \* deploys that stage in the same directory

ASSUME DeploysOK == IsFiniteSet(Deploys) /\ "given" \notin Deploys /\ "nobody" \notin Deploys

VARIABLES
    stageDir,  \* the files in the directory
    stager,    \* the deploys
    job        \* what runs of each

stageVars == <<stageDir, stager, job>>

ScriptFiles == {"entry", "lib"}
StageFiles == {"bundle"} \cup ScriptFiles
CodeKeys == Deploys \cup {"given"}
Contents == [is : {"none", "torn", "code"}, of : Deploys \cup {"nobody"}, keys : Seq(CodeKeys)]
Void == [is |-> "none", of |-> "nobody", keys |-> <<>>]
NoFiles == [f \in StageFiles |-> Void]

\* ACURAST_RUNTIME, ACURAST_ENCRYPTED_CODE, SWITCHBOARD_CODE_KEY: "plain" is
\* not encrypted, "fresh" with a key of its own, "given" with that of the
\* environment.
StageModes == {"plain", "fresh", "given", "script"}
StagePlaces == {"wipe", "build", "copy", "encrypt", "open", "fill", "upload", "done", "failed"}

StageTypeOK ==
    /\ DOMAIN stageDir = StageFiles
    /\ \A f \in StageFiles : stageDir[f] \in Contents
    /\ \A f \in StageFiles : Len(stageDir[f].keys) <= Cardinality(Deploys)
    /\ \A d \in Deploys :
          /\ stager[d].mode \in StageModes /\ stager[d].place \in StagePlaces
          /\ stager[d].files \subseteq ScriptFiles /\ stager[d].left \subseteq ScriptFiles
          /\ stager[d].read \in Contents
          /\ stager[d].built \in BOOLEAN /\ stager[d].touched \in BOOLEAN
          /\ job[d].state \in {"none", "waits", "runs"} /\ job[d].keyed \in BOOLEAN
          /\ job[d].code \subseteq Deploys

StageInit ==
    /\ stageDir = NoFiles
    /\ \E mode \in [Deploys -> StageModes], files \in [Deploys -> {{"entry"}, ScriptFiles}] :
          /\ \A d \in Deploys : mode[d] # "script" => files[d] = {"entry"}
          /\ stager = [d \in Deploys |->
                [mode |-> mode[d], files |-> files[d], left |-> files[d], place |-> "wipe",
                 read |-> Void, built |-> FALSE, touched |-> FALSE]]
    /\ job = [d \in Deploys |->
                [state |-> "none", keyed |-> FALSE, files |-> NoFiles, code |-> {}]]

Encrypts(d) == stager[d].mode \in {"fresh", "given"}

\* generateSwitchboardCodeKey, unless the environment has one.
CodeKey(d) == IF stager[d].mode = "given" THEN "given" ELSE d

Staging(d) == stager[d].place \notin {"wipe", "done", "failed"}
BeforeRead(d) == stager[d].place \in {"build", "encrypt"}

\* d goes on, and wrote: whoever is at it as well finds the files of another.
\* "built": before it read what it encrypts.
StageWrites(d, files, next) ==
    /\ stageDir' = files
    /\ stager' = [e \in Deploys |->
          IF e = d THEN next
          ELSE [stager[e] EXCEPT !.built = @ \/ BeforeRead(e), !.touched = @ \/ Staging(e)]]
    /\ UNCHANGED job

(***************************************************************************)
(* prepareSdkSubmit                                                        *)
(***************************************************************************)

AfterWipe(d) ==
    [stager[d] EXCEPT !.place = IF stager[d].mode = "script" THEN "copy" ELSE "build"]

\* Only what was built before is removed.
WipeStageDist(d) ==
    /\ stager[d].place = "wipe"
    /\ StageWrites(d, [stageDir EXCEPT !["bundle"] = Void], AfterWipe(d))

\* A script has the directory to itself; a bundle its dist.
WipeStage(d) ==
    /\ stager[d].place = "wipe"
    /\ StageWrites(d, IF stager[d].mode = "script" THEN NoFiles ELSE [stageDir EXCEPT !["bundle"] = Void],
              AfterWipe(d))

Own(d) == [is |-> "code", of |-> d, keys |-> <<>>]

\* stageScriptRuntimeFiles
CopyFile(d) ==
    /\ stager[d].place = "copy"
    /\ \E f \in stager[d].left :
          StageWrites(d, [stageDir EXCEPT ![f] = Own(d)],
                 [stager[d] EXCEPT !.left = @ \ {f},
                                   !.place = IF stager[d].left = {f} THEN "upload" ELSE @])

\* buildBundle, with the configuration of this deploy in it.
BuildOwn(d) ==
    /\ stager[d].place = "build"
    /\ StageWrites(d, [stageDir EXCEPT !["bundle"] = Own(d)],
              [stager[d] EXCEPT !.place = IF Encrypts(d) THEN "encrypt" ELSE "upload"])

\* encryptAcurastBundleFile reads what is there now,
ReadBundle(d) ==
    /\ stager[d].place = "encrypt"
    /\ stageDir["bundle"].is # "none"
    /\ stager' = [stager EXCEPT ![d].read = stageDir["bundle"], ![d].place = "open"]
    /\ UNCHANGED <<stageDir, job>>

\* empties the file,
OpenLoader(d) ==
    /\ stager[d].place = "open"
    /\ StageWrites(d, [stageDir EXCEPT !["bundle"] = [Void EXCEPT !.is = "torn"]],
              [stager[d] EXCEPT !.place = "fill"])

Loader(d) == [stager[d].read EXCEPT !.keys = Append(@, CodeKey(d))]

\* and writes the loader.
FillLoader(d) ==
    /\ stager[d].place = "fill"
    /\ StageWrites(d, [stageDir EXCEPT !["bundle"] = Loader(d)], [stager[d] EXCEPT !.place = "upload"])

(***************************************************************************)
(* The upload and the job                                                  *)
(***************************************************************************)

\* The zip is made after the chain was reached: of the directory, or the bundle.
UploadStage(d) ==
    /\ stager[d].place = "upload"
    /\ stager[d].mode # "script" => stageDir["bundle"].is # "none"
    /\ stager' = [stager EXCEPT ![d].place = "done"]
    /\ job' = [job EXCEPT ![d].state = "waits",
                  ![d].files = IF stager[d].mode = "script" THEN stageDir
                               ELSE [NoFiles EXCEPT !["bundle"] = stageDir["bundle"]]]
    /\ UNCHANGED stageDir

\* A build or an upload throws, the variables are too many, the process ends.
StagingFails(d) ==
    /\ Staging(d)
    /\ stager' = [stager EXCEPT ![d].place = "failed"]
    /\ UNCHANGED <<stageDir, job>>

KeyArrives(d) ==
    /\ job[d].state # "none" /\ Encrypts(d) /\ ~job[d].keyed
    /\ job' = [job EXCEPT ![d].keyed = TRUE]
    /\ UNCHANGED <<stageDir, stager>>

\* loadEncryptedBundle, one loader within another: each takes the key of the
\* job's environment, and the hash tells a wrong one.
Opens(d, file) ==
    /\ file.is = "code"
    /\ \A i \in DOMAIN file.keys : job[d].keyed /\ file.keys[i] = CodeKey(d)

\* A job that fails is started again.
StartJob(d) ==
    LET started == IF stager[d].mode = "script" THEN {"entry"} ELSE {"bundle"} IN
    /\ job[d].state = "waits"
    /\ \A f \in started : Opens(d, job[d].files[f])
    /\ job' = [job EXCEPT ![d].state = "runs", ![d].code = {job[d].files[f].of : f \in started}]
    /\ UNCHANGED <<stageDir, stager>>

StageNext ==
    \E d \in Deploys :
        \/ WipeStage(d) \/ CopyFile(d) \/ BuildOwn(d)
        \/ ReadBundle(d) \/ OpenLoader(d) \/ FillLoader(d)
        \/ UploadStage(d) \/ StagingFails(d) \/ KeyArrives(d) \/ StartJob(d)

StageSpec == StageInit /\ [][StageNext]_stageVars

(***************************************************************************)
(* Properties                                                              *)
(***************************************************************************)

\* A deploy that had the directory to itself from the time it emptied it
\* uploads what it staged, whole, and nothing that an earlier one left there.
UndisturbedIsOwn ==
    \A d \in Deploys :
        job[d].state # "none" /\ ~stager[d].touched =>
            job[d].files = [f \in StageFiles |->
                IF stager[d].mode = "script" /\ f \in stager[d].files THEN Own(d)
                ELSE IF stager[d].mode # "script" /\ f = "bundle" THEN
                    [Own(d) EXCEPT !.keys = IF Encrypts(d) THEN <<CodeKey(d)>> ELSE <<>>]
                ELSE Void]

\* A job whose key is new runs the code of another deploy, with that one's
\* intent in it, only if the other wrote before this one read what it encrypted,
\* or had not yet encrypted it when this one uploaded: a loader that is written
\* over this one's does not open.
FreshRunsOwn ==
    \A d \in Deploys :
        stager[d].mode = "fresh" /\ job[d].state = "runs" =>
            job[d].code = {d} \/ stager[d].built \/ job[d].files["bundle"].keys = <<>>

\* No deploy that encrypts uploads its own code in the clear, whatever others
\* do to the directory.
OwnCodeIsEncrypted ==
    \A d \in Deploys :
        Encrypts(d) => ~ (job[d].files["bundle"].is = "code" /\ job[d].files["bundle"].of = d
                             /\ job[d].files["bundle"].keys = <<>>)

\* What deploys that stage at the same time upload and run is their own, and
\* in the clear only where no keys were asked for.
StageSafe == StageTypeOK /\ UndisturbedIsOwn /\ FreshRunsOwn /\ OwnCodeIsEncrypted
===============================================================================
