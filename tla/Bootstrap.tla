------------------------------ MODULE Bootstrap -------------------------------
(***************************************************************************)
(* bootstrap host (cli/src/bootstrap/host.ts): sync, catalog build, push,  *)
(* env apply and deploy against the host that runs the control plane.      *)
(* Every command is a sequence of ssh and rsync calls; one that fails ends *)
(* the command, and the next one goes on from what the host then holds.    *)
(*                                                                         *)
(* A service of an old image keeps its deployment intents inside the       *)
(* container, a new one in the data volume: deploy copies them out before  *)
(* it recreates the container, and into the volume afterwards.  One intent *)
(* stands for all; its later version is one that was updated.  Dry runs,   *)
(* status and logs change nothing.                                         *)
(***************************************************************************)
EXTENDS FileContents, Naturals

CONSTANTS
    Signers,      \* keys that sign the service catalogs
    MaxCommands   \* bound on the commands

ASSUME HostOK == Absent \notin Signers /\ MaxCommands \in Nat

VARIABLES
    signer,      \* the signing key of the local environment
    catalog,     \* the signer of the local signed catalog
    remote,      \* on the host: code, catalog, env file, copied intents
    image,       \* which code the service's image was built from
    box,         \* the service's container: code, env and intents inside
    volume,      \* the intents in the data volume
    command,     \* the command in progress: what it does next
    hostCount,   \* how many commands were started
    accepted,    \* history: the service has accepted the intent
    missed,      \* history: docker cp failed, which deploy ignores, or the old
                 \* container took an intent between the copy and its end
    pushed,      \* history: the signers of the catalogs that were pushed
    partial      \* history: an apply left out the catalog

hostVars ==
    <<signer, catalog, remote, image, box, volume, command, hostCount, accepted,
      missed, pushed, partial>>

HostCodes == {"old", "new"}
Intents == {Absent, "first", "later"}

ASSUME IntentsOK == Absent \notin {"first", "later"}

HostRemotes == [code : HostCodes, catalog : Signers \cup {Absent},
            env : Signers \cup {Absent}, legacy : Intents]

HostContainers == [code : HostCodes, env : Signers \cup {Absent}, inside : Intents]

HostSteps == {"idle", "build", "push", "upsert", "snapshot", "up", "restore"}

HostCommands == [at : HostSteps, push : BOOLEAN, rows : BOOLEAN, noBuild : BOOLEAN]

HostIdle == [at |-> "idle", push |-> FALSE, rows |-> FALSE, noBuild |-> FALSE]

HostTypeOK ==
    /\ signer \in Signers
    /\ catalog \in Signers \cup {Absent}
    /\ remote \in HostRemotes
    /\ image \in HostCodes
    /\ box \in HostContainers
    /\ volume \in Intents
    /\ command \in HostCommands
    /\ hostCount \in 0 .. MaxCommands
    /\ accepted \in BOOLEAN /\ missed \in BOOLEAN
    /\ pushed \subseteq Signers /\ partial \in BOOLEAN

HostInit ==
    /\ signer \in Signers
    /\ catalog = Absent
    /\ remote = [code |-> "old", catalog |-> Absent, env |-> Absent, legacy |-> Absent]
    /\ image = "old"
    /\ box = [code |-> "old", env |-> Absent, inside |-> Absent]
    /\ volume = Absent
    /\ command = HostIdle
    /\ hostCount = 0
    /\ accepted = FALSE /\ missed = FALSE
    /\ pushed = {} /\ partial = FALSE

-------------------------------------------------------------------------------
Begins(next) ==
    /\ command = HostIdle /\ hostCount < MaxCommands
    /\ command' = next
    /\ hostCount' = hostCount + 1

HostGoto(at) == command' = IF at = "idle" THEN HostIdle ELSE [command EXCEPT !.at = at]

\* runSync: rsync --delete of the worktree, which leaves out what the host
\* keeps for itself (.control-plane/ and the env files).
Sync ==
    /\ Begins(HostIdle)
    /\ remote' = [remote EXCEPT !.code = "new"]
    /\ UNCHANGED <<signer, catalog, image, box, volume, accepted, missed, pushed, partial>>

\* The env rows go before the catalog.
AfterBuildEnvFirst(push, rows) == IF rows THEN "upsert" ELSE IF push THEN "push" ELSE "idle"

\* Where an apply goes after it built, or not, and after it pushed, or not.
AfterBuild(push, rows) == IF push THEN "push" ELSE IF rows THEN "upsert" ELSE "idle"

\* env apply refuses missing values, then builds and pushes the catalog unless
\* --env-only, --no-build or --no-push says otherwise, then sends the env rows
\* unless --catalog-only.
StartApply(build, push, rows) ==
    /\ Begins([at |-> IF build THEN "build" ELSE AfterBuild(push, rows),
               push |-> push, rows |-> rows, noBuild |-> FALSE])
    /\ partial' = (partial \/ (rows /\ ~(build /\ push)))
    /\ UNCHANGED <<signer, catalog, remote, image, box, volume, accepted, missed, pushed>>

\* catalog build and catalog push are the same steps, alone.
StartCatalog(at) ==
    /\ Begins([HostIdle EXCEPT !.at = at])
    /\ UNCHANGED <<signer, catalog, remote, image, box, volume, accepted, missed, pushed, partial>>

BuildCatalog ==
    /\ command.at = "build"
    /\ catalog' = signer
    /\ HostGoto(AfterBuild(command.push, command.rows))
    /\ UNCHANGED <<signer, remote, image, box, volume, hostCount, accepted, missed, pushed, partial>>

PushCatalog ==
    /\ command.at = "push"
    /\ remote' = [remote EXCEPT !.catalog = catalog]
    /\ pushed' = IF catalog = Absent THEN pushed ELSE pushed \cup {catalog}
    /\ HostGoto(AfterBuild(FALSE, command.rows))
    /\ UNCHANGED <<signer, catalog, image, box, volume, hostCount, accepted, missed, partial>>

\* buildEnvPlan: the rows are all derived from the local environment; what is
\* kept of them is the signer of the catalogs.
EnvRows == signer

\* The env rows replace those on the host.
UpsertEnv ==
    /\ command.at = "upsert"
    /\ remote' = [remote EXCEPT !.env = EnvRows]
    /\ HostGoto("idle")
    /\ UNCHANGED <<signer, catalog, image, box, volume, hostCount, accepted, missed, pushed, partial>>

StartHostDeploy(noBuild) ==
    /\ Begins([HostIdle EXCEPT !.at = "snapshot", !.noBuild = noBuild])
    /\ UNCHANGED <<signer, catalog, remote, image, box, volume, accepted, missed, pushed, partial>>

\* snapshotLegacyDeploymentIntents: copies what the container holds next to
\* earlier copies; "|| true" hides a copy that fails.
Snapshot(copies) ==
    /\ command.at = "snapshot"
    /\ remote' = [remote EXCEPT !.legacy =
                    IF copies /\ box.inside # Absent THEN box.inside ELSE @]
    /\ missed' = (missed \/ (~copies /\ box.inside # Absent))
    /\ HostGoto("up")
    /\ UNCHANGED <<signer, catalog, image, box, volume, hostCount, accepted, pushed, partial>>

\* docker compose up --force-recreate: a new container with the env file of that
\* moment; what was inside the old one is gone.
ComposeUp ==
    /\ command.at = "up"
    /\ image' = IF command.noBuild THEN image ELSE remote.code
    /\ box' = [code |-> image', env |-> remote.env, inside |-> Absent]
    /\ HostGoto("restore")
    /\ UNCHANGED <<signer, catalog, remote, volume, hostCount, accepted, missed, pushed, partial>>

\* restoreLegacyDeploymentIntents: the copies go over what the volume holds and
\* stay where they are, for the next deploy too.
Restore ==
    /\ command.at = "restore"
    /\ volume' = IF remote.legacy # Absent THEN remote.legacy ELSE volume
    /\ HostGoto("idle")
    /\ UNCHANGED <<signer, catalog, remote, image, box, hostCount, accepted, missed, pushed, partial>>

\* An ssh or rsync call fails, or the command is interrupted.
CommandFails ==
    /\ command # HostIdle
    /\ command' = HostIdle
    /\ UNCHANGED <<signer, catalog, remote, image, box, volume, hostCount, accepted, missed, pushed, partial>>

-------------------------------------------------------------------------------
\* The service accepts the intent, or updates one that it has.
Accept ==
    /\ accepted' = TRUE
    /\ missed' = (missed \/ (box.code = "old" /\ command.at = "up"))
    /\ IF box.code = "old"
         THEN /\ box' = [box EXCEPT !.inside = IF @ = Absent THEN "first" ELSE "later"]
              /\ UNCHANGED volume
         ELSE /\ volume' = IF volume = Absent THEN "first" ELSE "later"
              /\ UNCHANGED box
    /\ UNCHANGED <<signer, catalog, remote, image, command, hostCount, pushed, partial>>

\* The signing key is rotated, not while a command runs.
RotateKey ==
    /\ command = HostIdle
    /\ signer' \in Signers \ {signer}
    /\ UNCHANGED <<catalog, remote, image, box, volume, command, hostCount, accepted, missed, pushed, partial>>

HostNext ==
    \/ Sync
    \/ \E build, push, rows \in BOOLEAN :
         (build \/ push \/ rows) /\ StartApply(build, push, rows)
    \/ \E at \in {"build", "push"} : StartCatalog(at)
    \/ BuildCatalog \/ PushCatalog \/ UpsertEnv
    \/ \E noBuild \in BOOLEAN : StartHostDeploy(noBuild)
    \/ \E copies \in BOOLEAN : Snapshot(copies)
    \/ ComposeUp \/ Restore \/ CommandFails
    \/ Accept \/ RotateKey

HostSpec == HostInit /\ [][HostNext]_hostVars

-------------------------------------------------------------------------------
\* An intent that was accepted is in the container, in the copies or in the
\* volume, whichever step of whichever deploy was the last: only a copy that
\* failed unnoticed, or that was taken too early, loses it.
IntentSurvives ==
    accepted /\ ~missed =>
        Absent # box.inside \/ Absent # remote.legacy \/ Absent # volume

\* The env file of the host names the signer of a catalog that was pushed
\* before: the service that reads both never waits for a catalog that is not
\* there.  An apply that leaves out the catalog gives no such promise.
EnvNamesPushedCatalog ==
    remote.env # Absent /\ ~partial => remote.env \in pushed

\* An apply that ends anywhere leaves the intents on the host and an
\* environment that names a catalog which was pushed.
HostSafe == HostTypeOK /\ IntentSurvives /\ EnvNamesPushedCatalog

(***************************************************************************)
(* bootstrap acurast (cli/src/bootstrap/acurast.ts): the state file that   *)
(* records the endpoint of a short-lived relay, and the commands that send *)
(* signed documents to it.  The file is overwritten in place, and one that *)
(* cannot be read counts as none.                                          *)
(***************************************************************************)

CONSTANTS
    Endpoints,    \* URLs of relays
    SpecUrl,      \* the URL in the relay's deployment spec
    MaxRelayCommands

ASSUME RelayOK == {Absent, Torn, SpecUrl} \cap Endpoints = {} /\ MaxRelayCommands \in Nat

VARIABLES
    relayFile,    \* bootstrap-acurast.json
    relayWrite,   \* what the command in progress is writing
    relayCount,   \* how many commands were started
    sentTo,       \* where the last publish went
    used,         \* history: the endpoint of the last use that began to write
    cut           \* history: a write was cut off

relayVars == <<relayFile, relayWrite, relayCount, sentTo, used, cut>>

\* BootstrapAcurastState: tornDown stands for tornDownAt.
RelayStates ==
    [url : Endpoints, status : {"active", "teardown-requested"}, tornDown : BOOLEAN]

ASSUME RelayStatesOK == {Absent, Torn} \cap RelayStates = {}

RelayTypeOK ==
    /\ relayFile \in RelayStates \cup {Absent, Torn}
    /\ relayWrite \in RelayStates \cup {Absent}
    /\ relayCount \in 0 .. MaxRelayCommands
    /\ sentTo \in Endpoints \cup {SpecUrl, Absent}
    /\ used \in Endpoints \cup {Absent}
    /\ cut \in BOOLEAN

RelayInit ==
    /\ relayFile = Absent
    /\ relayWrite = Absent
    /\ relayCount = 0
    /\ sentTo = Absent
    /\ used = Absent
    /\ cut = FALSE

\* loadState, with the catch that every caller puts behind it.
Recorded == IF relayFile \in {Absent, Torn} THEN Absent ELSE relayFile

BeginsRelay == relayWrite = Absent /\ relayCount < MaxRelayCommands
               /\ relayCount' = relayCount + 1

\* resolveEndpointUrl without --url: the recorded endpoint, whatever its status,
\* then the spec's.
ResolvedEndpoint == IF Recorded # Absent THEN Recorded.url ELSE SpecUrl

\* The endpoint recorded first stays.
UsedStateFirst(u) ==
    [url |-> IF Recorded = Absent THEN u ELSE Recorded.url, status |-> "active", tornDown |-> FALSE]

\* runUse: the endpoint and the status are new, all else stays.
UsedState(u) ==
    [url |-> u, status |-> "active",
     tornDown |-> IF Recorded = Absent THEN FALSE ELSE Recorded.tornDown]

UseEndpoint(u) ==
    /\ BeginsRelay
    /\ relayWrite' = UsedState(u)
    /\ relayFile' = Torn
    /\ used' = u
    /\ UNCHANGED <<sentTo, cut>>

\* runTeardown is refused when nothing is recorded; it only records the wish.
Teardown ==
    /\ BeginsRelay
    /\ Recorded # Absent
    /\ relayWrite' = [Recorded EXCEPT !.status = "teardown-requested", !.tornDown = TRUE]
    /\ relayFile' = Torn
    /\ UNCHANGED <<sentTo, used, cut>>

\* writeState ends.
EndsRelayWrite ==
    /\ relayWrite # Absent
    /\ relayFile' = relayWrite
    /\ relayWrite' = Absent
    /\ UNCHANGED <<relayCount, sentTo, used, cut>>

CutsRelayWrite ==
    /\ relayWrite # Absent
    /\ relayWrite' = Absent
    /\ cut' = TRUE
    /\ UNCHANGED <<relayFile, relayCount, sentTo, used>>

\* runPublish
Publish ==
    /\ BeginsRelay
    /\ sentTo' = ResolvedEndpoint
    /\ UNCHANGED <<relayFile, relayWrite, used, cut>>

RelayNext ==
    \/ \E u \in Endpoints : UseEndpoint(u)
    \/ Teardown \/ EndsRelayWrite \/ CutsRelayWrite \/ Publish

RelaySpec == RelayInit /\ [][RelayNext]_relayVars

\* A document is sent to the endpoint that the last use recorded, through any
\* teardown after it: unless a write was cut off, which falls back to the spec.
PublishFollowsUse ==
    [][sentTo' # sentTo /\ ~cut /\ used # Absent => sentTo' = used]_relayVars

\* publish and teardown go to the relay that the last launch used.
BootstrapSafe == [](RelayTypeOK) /\ PublishFollowsUse
===============================================================================
