--------------------------- MODULE OperationsProofs ---------------------------
(***************************************************************************)
(* What the files and the commands of operations guarantee for any number  *)
(* of commands, attempts, readers and calls: the request for a             *)
(* certificate, the bootstrap of the host and of Acurast relays, the       *)
(* discovery of services, waiting for a relay, the document store, the     *)
(* builder contexts, and the runs that share a project.                    *)
(***************************************************************************)
EXTENDS CertificateRequest, Bootstrap, DocStore, ServiceDiscovery, RelayReadiness, ContextStore,
        ProjectRuns, FiniteSetTheorems, TLAPS

(***************************************************************************)
(* The request for a certificate                                           *)
(***************************************************************************)

\* Where an attempt has sent nothing yet.
BeforeSent == {"start", "tell_csr", "csr", "tell_sign", "address", "sign", "tell_relay"}

\* The failures that the answer of the relay names.
Rejections == {"certificate_lock", "certificate_authorization", "hostname_config"}

\* The failures that nothing was sent before.
OwnFailures == {"certificate_config", "csr_generation", "request_signing"}

\* What an attempt has sent, been answered and timed by where it is.
AttemptIsAhead(a) ==
    /\ attempt[a].at \in BeforeSent \/ attempt[a].stage \in OwnFailures => a \notin sent
    /\ attempt[a].at \in (BeforeSent \ {"start"}) \cup {"relay"} => attempt[a].timer # "off"
    /\ attempt[a].at \in {"body", "tell_reply"} => reply[a] # Absent
    /\ attempt[a].stage # Absent => attempt[a].at = "failed"

\* An order was placed for what the relay issued, or failed to issue, and a
\* rejection is the answer of the relay.
OrderIsAnswered(a) ==
    /\ a \in orders => a \in sent /\ reply[a] \in {"issued", "issuance_failed"}
    /\ attempt[a].stage \in Rejections => reply[a] \in {"locked", "unauthorized", "invalid"}

CertInv ==
    /\ CertTypeOK
    /\ \A a \in Attempts : AttemptIsAhead(a) /\ OrderIsAnswered(a)

LEMMA CertInit0 == CertInit => CertInv
BY NamesOK
DEF NamesOK, Replies, CertInit, CertInv, CertTypeOK, AttemptIsAhead, OrderIsAnswered, CertPlaces, BeforeSent,
    OwnFailures, Rejections, FailureStages

USE DEF CertTypeOK, CertPlaces, Stages, Tells, FailureStages, Replies

LEMMA CertStepKeeps == CertInv /\ [CertNext]_certVars => CertInv'
<1> SUFFICES ASSUME CertInv, [CertNext]_certVars PROVE CertInv'
  OBVIOUS
<1> USE NamesOK DEF NamesOK, CertInv, AttemptIsAhead, OrderIsAnswered, BeforeSent, OwnFailures, Rejections
<1>1. CASE UNCHANGED certVars
  BY <1>1 DEF certVars
<1>2. ASSUME NEW how \in {"known", "rejected"}, AddressAnswers(how) PROVE CertInv'
  BY <1>2 DEF AddressAnswers
<1>3. ASSUME NEW a \in Attempts, CertStep(a) PROVE CertInv'
  <2> USE DEF FailsAs, CertGoes, Enters
  <2>1. ASSUME NEW given \in BOOLEAN, StartAttempt(a, given) PROVE CertInv'
    <3>1. PICK at \in {"tell_csr", "tell_sign"} :
              attempt' = [attempt EXCEPT ![a].at = at, ![a].timer = "armed"]
      BY <2>1 DEF StartAttempt
    <3>2. attempt[a].at = "start" /\ UNCHANGED <<address, sent, reply, orders>>
      BY <2>1 DEF StartAttempt
    <3>3. /\ attempt'[a].at = at /\ attempt'[a].timer = "armed" /\ attempt'[a].stage = attempt[a].stage
          /\ \A b \in Attempts \ {a} : attempt'[b] = attempt[b]
      BY <3>1
    <3>4. attempt' \in [Attempts -> [at : CertPlaces, timer : {"off", "armed", "fired"},
                                     stage : FailureStages \cup {Absent}]]
      <4> DEFINE moved == [attempt EXCEPT ![a].at = at]
                 All == [Attempts -> [at : CertPlaces, timer : {"off", "armed", "fired"},
                                      stage : FailureStages \cup {Absent}]]
      <4>1. moved \in All
        OBVIOUS
      <4>2. attempt' = [moved EXCEPT ![a].timer = "armed"]
        BY <3>1
      <4> HIDE DEF moved
      <4> QED
        BY <4>1, <4>2
    <3> QED
      BY <3>2, <3>3, <3>4
  <2>2. CASE BadConfig(a)
    BY <2>2 DEF BadConfig
  <2>3. CASE Told(a)
    BY <2>3 DEF Told, Enters, StageOf
  <2>4. CASE CallbackThrows(a)
    BY <2>4 DEF CallbackThrows
  <2>5. CASE TimerFires(a)
    BY <2>5 DEF TimerFires, StageOf
  <2>6. CASE StageDone(a)
    BY <2>6 DEF StageDone, Enters, StageOf
  <2>7. CASE StageFails(a)
    BY <2>7 DEF StageFails
  <2>8. CASE HeadersArrive(a)
    BY <2>8 DEF HeadersArrive
  <2>9. CASE FetchFails(a)
    BY <2>9 DEF FetchFails
  <2>10. CASE BodyArrives(a)
    BY <2>10 DEF BodyArrives
  <2>11. CASE BodyBreaks(a)
    BY <2>11 DEF BodyBreaks
  <2>12. CASE AnswersCaller(a)
    BY <2>12 DEF AnswersCaller, StageOfReply
  <2>13. ASSUME NEW what \in Replies, RelayReplies(a, what) PROVE CertInv'
    BY <2>13 DEF RelayReplies
  <2> QED
    BY <1>3, <2>1, <2>2, <2>3, <2>4, <2>5, <2>6, <2>7, <2>8, <2>9, <2>10, <2>11, <2>12, <2>13
    DEF CertStep
<1> QED
  BY <1>1, <1>2, <1>3 DEF CertNext

THEOREM CertInvAlways == CertSpec => []CertInv
BY CertInit0, CertStepKeeps, PTL DEF CertSpec

\* A request is sent only by the callback's return, before the timer fired.
LEMMA SentInTime ==
    ASSUME CertInv, CertNext, NEW a \in Attempts, a \in sent' \ sent
    PROVE  attempt[a].timer = "armed"
<1>1. ASSUME NEW b \in Attempts, CertStep(b) PROVE attempt[a].timer = "armed"
  <2>1. CASE Told(b)
    BY <1>1, <2>1 DEF CertInv, AttemptIsAhead, BeforeSent, Told, Enters, FailsAs, CertGoes
  <2>2. CASE ~Told(b)
    BY <1>1, <2>2
    DEF CertStep, StartAttempt, BadConfig, CallbackThrows, TimerFires, StageDone, StageFails,
        HeadersArrive, FetchFails, BodyArrives, BodyBreaks, AnswersCaller, RelayReplies, Enters,
        FailsAs, CertGoes
  <2> QED
    BY <2>1, <2>2
<1> QED
  BY <1>1 DEF CertNext, AddressAnswers

\* A failure that names a stage before the order cost no order, and a request
\* whose time ran out sends nothing any more, whatever the callbacks do.
THEOREM CertificatesAreSafe == CertSpec => CertSafe
<1>1. CertInv => CertTypeOK /\ EarlyFailureIsFree
  BY DEF CertInv, EarlyFailureIsFree, AttemptIsAhead, OrderIsAnswered, OwnFailures, Rejections
<1>2. CertInv /\ [CertNext]_certVars
        => [\A a \in Attempts : a \in sent' \ sent => attempt[a].timer = "armed"]_certVars
  BY SentInTime DEF certVars
<1> QED
  BY <1>1, <1>2, CertInvAlways, PTL DEF CertSpec, CertSafe, TimedOutSendsNothing

(***************************************************************************)
(* The bootstrap of the host                                               *)
(***************************************************************************)

\* While a deploy is about to recreate the container, the intent is elsewhere.
IntentIsOutside ==
    command.at = "up" /\ accepted /\ ~missed => Absent # remote.legacy \/ Absent # volume

\* What an apply that leaves nothing out has done when it comes to the rows.
ApplyIsAhead ==
    command.rows /\ ~partial =>
        /\ command.at = "build" => command.push
        /\ command.at = "push" => catalog = signer
        /\ command.at = "upsert" => signer \in pushed

RowsAreMeant == command.at = "upsert" => command.rows

HostInv ==
    /\ HostTypeOK /\ IntentSurvives /\ EnvNamesPushedCatalog
    /\ IntentIsOutside /\ ApplyIsAhead /\ RowsAreMeant

USE DEF HostTypeOK, HostRemotes, HostContainers, HostCommands, HostSteps, HostCodes, Intents, HostIdle

LEMMA HostInvInit == HostInit => HostInv
<1> SUFFICES ASSUME HostInit PROVE HostInv
  OBVIOUS
<1>1. HostTypeOK
  <2>1. hostCount \in 0 .. MaxCommands
    BY HostOK DEF HostOK, HostInit
  <2>2. accepted \in BOOLEAN /\ missed \in BOOLEAN /\ partial \in BOOLEAN
    BY Zenon DEF HostInit
  <2>3. command \in HostCommands
    BY Zenon DEF HostInit
  <2> QED
    BY <2>1, <2>2, <2>3 DEF HostInit
<1>2. ~accepted /\ remote.env = Absent /\ command.at = "idle"
  BY DEF HostInit
<1> QED
  BY <1>1, <1>2
  DEF HostInv, IntentSurvives, EnvNamesPushedCatalog, IntentIsOutside, ApplyIsAhead, RowsAreMeant

LEMMA HostInvNext == HostInv /\ [HostNext]_hostVars => HostInv'
<1> SUFFICES ASSUME HostInv, [HostNext]_hostVars PROVE HostInv'
  OBVIOUS
<1> USE HostOK, IntentsOK
    DEF HostOK, IntentsOK, HostInv, IntentSurvives, EnvNamesPushedCatalog, IntentIsOutside, ApplyIsAhead,
        RowsAreMeant
<1>1. CASE UNCHANGED hostVars
  BY <1>1 DEF hostVars
<1>2. CASE Sync
  BY <1>2 DEF Sync, Begins
<1>3. ASSUME NEW build \in BOOLEAN, NEW push \in BOOLEAN, NEW rows \in BOOLEAN,
             build \/ push \/ rows, StartApply(build, push, rows)
      PROVE  HostInv'
  BY <1>3 DEF StartApply, Begins, AfterBuild
<1>4. ASSUME NEW at \in {"build", "push"}, StartCatalog(at) PROVE HostInv'
  <2>1. command' = [at |-> at, push |-> FALSE, rows |-> FALSE, noBuild |-> FALSE]
    BY <1>4 DEF StartCatalog, Begins
  <2>2. command' \in HostCommands
    BY <2>1, Zenon
  <2>3. HostTypeOK'
    BY <1>4, <2>2 DEF StartCatalog, Begins
  <2> QED
    BY <1>4, <2>1, <2>3 DEF StartCatalog
<1>5. CASE BuildCatalog
  BY <1>5 DEF BuildCatalog, HostGoto, AfterBuild
<1>6. CASE PushCatalog
  BY <1>6 DEF PushCatalog, HostGoto, AfterBuild
<1>7. CASE UpsertEnv
  BY <1>7 DEF UpsertEnv, HostGoto, EnvRows
<1>8. ASSUME NEW noBuild \in BOOLEAN, StartHostDeploy(noBuild) PROVE HostInv'
  <2>1. command' = [at |-> "snapshot", push |-> FALSE, rows |-> FALSE, noBuild |-> noBuild]
    BY <1>8 DEF StartHostDeploy, Begins
  <2>2. command' \in HostCommands
    BY <2>1, Zenon
  <2>3. HostTypeOK'
    BY <1>8, <2>2 DEF StartHostDeploy, Begins
  <2> QED
    BY <1>8, <2>1, <2>3 DEF StartHostDeploy
<1>9. ASSUME NEW copies \in BOOLEAN, Snapshot(copies) PROVE HostInv'
  BY <1>9 DEF Snapshot, HostGoto
<1>10. CASE ComposeUp
  BY <1>10 DEF ComposeUp, HostGoto
<1>11. CASE Restore
  BY <1>11 DEF Restore, HostGoto
<1>12. CASE CommandFails
  BY <1>12 DEF CommandFails
<1>13. CASE Accept
  <2>1. HostTypeOK'
    BY <1>13 DEF Accept
  <2>2. CASE box.code = "old"
    <3>1. box'.inside # Absent /\ (command.at = "up" => missed')
      BY <1>13, <2>2 DEF Accept
    <3> QED
      BY <1>13, <2>1, <3>1 DEF Accept
  <2>3. CASE box.code # "old"
    <3>1. volume' # Absent
      BY <1>13, <2>3 DEF Accept
    <3> QED
      BY <1>13, <2>1, <3>1 DEF Accept
  <2> QED
    BY <2>2, <2>3
<1>14. CASE RotateKey
  BY <1>14 DEF RotateKey
<1> QED
  BY <1>1, <1>2, <1>3, <1>4, <1>5, <1>6, <1>7, <1>8, <1>9, <1>10, <1>11, <1>12, <1>13, <1>14
  DEF HostNext

\* However many commands end at whatever step, an intent that the service
\* accepted is in the container, the copies or the volume unless a copy was
\* missed, and the env file names a catalog that was pushed.
THEOREM HostIsSafe == HostSpec => []HostSafe
<1>1. HostInv => HostSafe
  BY DEF HostInv, HostSafe
<1> QED
  BY <1>1, HostInvInit, HostInvNext, PTL DEF HostSpec

(***************************************************************************)
(* The bootstrap of Acurast relays                                         *)
(***************************************************************************)

\* What was used last is what is being written, or what is written.
LastUseIsKept ==
    ~cut /\ used # Absent =>
        \/ relayWrite # Absent /\ relayWrite.url = used
        \/ relayWrite = Absent /\ relayFile \in RelayStates /\ relayFile.url = used

RelayInv ==
    /\ RelayTypeOK /\ LastUseIsKept
    /\ relayWrite = Absent /\ relayFile = Torn => cut

LEMMA RelayInvInit == RelayInit => RelayInv
<1> SUFFICES ASSUME RelayInit PROVE RelayInv
  OBVIOUS
<1>1. RelayTypeOK
  <2>1. relayCount \in 0 .. MaxRelayCommands
    BY RelayOK DEF RelayOK, RelayInit
  <2>2. cut \in BOOLEAN
    BY Zenon DEF RelayInit
  <2> QED
    BY <2>1, <2>2 DEF RelayInit, RelayTypeOK
<1>2. used = Absent /\ relayFile # Torn
  BY ContentsOK DEF ContentsOK, RelayInit
<1> QED
  BY <1>1, <1>2 DEF RelayInv, LastUseIsKept

LEMMA RelayInvNext == RelayInv /\ [RelayNext]_relayVars => RelayInv'
<1> SUFFICES ASSUME RelayInv, [RelayNext]_relayVars PROVE RelayInv'
  OBVIOUS
<1> USE RelayOK, RelayStatesOK DEF RelayOK, RelayStatesOK, RelayInv, RelayTypeOK, LastUseIsKept
<1>1. CASE UNCHANGED relayVars
  BY <1>1 DEF relayVars
<1>2. ASSUME NEW u \in Endpoints, UseEndpoint(u) PROVE RelayInv'
  <2>1. relayWrite' \in RelayStates /\ relayWrite'.url = u
    BY <1>2 DEF UseEndpoint, UsedState, Recorded, RelayStates
  <2> QED
    BY <1>2, <2>1 DEF UseEndpoint, BeginsRelay
<1>3. CASE Teardown
  <2>1. relayFile \in RelayStates /\ Recorded = relayFile
    BY <1>3 DEF Teardown, Recorded
  <2>2. relayWrite' \in RelayStates /\ relayWrite'.url = relayFile.url
    BY <1>3, <2>1 DEF Teardown, RelayStates
  <2> QED
    BY <1>3, <2>1, <2>2 DEF Teardown, BeginsRelay
<1>4. CASE EndsRelayWrite
  BY <1>4 DEF EndsRelayWrite
<1>5. CASE CutsRelayWrite
  BY <1>5 DEF CutsRelayWrite
<1>6. CASE Publish
  BY <1>6 DEF Publish, BeginsRelay, ResolvedEndpoint, Recorded, RelayStates
<1> QED
  BY <1>1, <1>2, <1>3, <1>4, <1>5, <1>6 DEF RelayNext

\* publish and teardown go to the relay that the last launch used, however many
\* commands came between, unless a write of the state file was cut off.
THEOREM BootstrapIsSafe == RelaySpec => BootstrapSafe
<1>1. RelayInv => RelayTypeOK
  BY DEF RelayInv
<1>2. RelayInv /\ [RelayNext]_relayVars
        => [sentTo' # sentTo /\ ~cut /\ used # Absent => sentTo' = used]_relayVars
  BY RelayStatesOK
  DEF RelayStatesOK, RelayInv, LastUseIsKept, RelayNext, relayVars, UseEndpoint, Teardown,
      EndsRelayWrite, CutsRelayWrite, Publish, BeginsRelay, ResolvedEndpoint, Recorded
<1> QED
  BY <1>1, <1>2, RelayInvInit, RelayInvNext, PTL DEF RelaySpec, BootstrapSafe, PublishFollowsUse

(***************************************************************************)
(* The discovery of relays                                                 *)
(***************************************************************************)

\* The reader as a record.
ReaderType ==
    [place : ReaderPlaces, tries : 0 .. Candidates, now : Days,
     manifest : Papers \cup {NoPaper}, catalog : Papers \cup {NoPaper},
     answer : [Members -> MemberStates \cup {"out"}]]

DiscoveryTypes ==
    /\ day \in Days /\ listings \in [Days -> Listings] /\ settings \in Settings
    /\ reader \in ReaderType
    /\ reader.place = "manifest" => reader.tries # 0

\* A reader goes on with a manifest of PROOF that held when it arrived, and one
\* that reads no catalog is done by then.
ManifestHeld ==
    /\ reader.place \in {"catalog", "done"} =>
          /\ reader.manifest \in Papers /\ reader.manifest.key = "root"
          /\ reader.manifest.day <= day
          /\ reader.manifest.day + ManifestTtl > reader.now
    /\ reader.place \in {"manifest", "catalog"} => reader.catalog = NoPaper
    /\ reader.place = "catalog" => settings.kind # "registry"

DiscoveryInv ==
    /\ DiscoveryTypes /\ ManifestHeld
    /\ AnswerIsOneListing /\ DisabledGoesAway /\ RequiredIsRead

LEMMA DiscoveryInvInit == DiscoveryInit => DiscoveryInv
<1> SUFFICES ASSUME DiscoveryInit PROVE DiscoveryInv
  OBVIOUS
<1>1. day \in Days /\ listings \in [Days -> Listings] /\ settings \in Settings
  BY TtlsOK DEF TtlsOK, DiscoveryInit, Days
<1>2. PICK n \in 1 .. Candidates : reader = [NewReader EXCEPT !.tries = n]
  BY TtlsOK DEF TtlsOK, DiscoveryInit, NewReader
<1>3. reader \in ReaderType /\ reader.place = "manifest" /\ reader.tries # 0 /\ reader.catalog = NoPaper
  BY <1>2, TtlsOK DEF TtlsOK, NewReader, ReaderType, ReaderPlaces, Days
<1> QED
  BY <1>1, <1>3
  DEF DiscoveryInv, DiscoveryTypes, ManifestHeld, AnswerIsOneListing, DisabledGoesAway, RequiredIsRead

\* A catalog that is accepted is one that PROOF signed and that held.
LEMMA CatalogHeld ==
    ASSUME DiscoveryInv, reader.place = "catalog", NEW paper \in Served, GoodCatalog(paper)
    PROVE  /\ paper \in Papers /\ paper.key = "root" /\ paper.day \in 0 .. day
           /\ paper.day + CatalogTtl > reader.now
<1>1. paper \in Papers /\ paper.day <= day /\ paper.day \in Nat
  BY TtlsOK DEF TtlsOK, Served, Papers, Days
<1>2. paper.key = "root"
  BY DEF GoodCatalog, DiscoveryInv, DiscoveryTypes, ManifestHeld, Settings
<1> QED
  BY <1>1, <1>2, TtlsOK
  DEF TtlsOK, GoodCatalog, Expired, DiscoveryInv, DiscoveryTypes, ReaderType, Days

\* The active members of a day.
ActiveOn(d) == [m \in Members |-> IF listings[d][m] = "active" THEN "active" ELSE "out"]

\* Whom a document of PROOF lists as active is active in it, and nobody else.
LEMMA ActiveIsListed ==
    ASSUME DiscoveryTypes, NEW paper \in Papers, paper.key = "root"
    PROVE  /\ ActiveIn(paper) \in [Members -> MemberStates \cup {"out"}]
           /\ ListedIn(paper) = listings[paper.day]
           /\ listings[paper.day] \in [Members -> MemberStates \cup {"out"}]
           /\ \A m \in Members : ActiveIn(paper)[m] = "active" <=> listings[paper.day][m] = "active"
           /\ ActiveIn(paper) = NoMember => \A m \in Members : listings[paper.day][m] # "active"
           /\ ActiveIn(paper) = ActiveOn(paper.day)
<1>1. ListedIn(paper) = listings[paper.day] /\ paper.day \in Days
  BY DEF ListedIn, Papers
<1>2. listings[paper.day] \in [Members -> MemberStates]
  BY <1>1 DEF DiscoveryTypes, Listings
<1>3. ActiveIn(paper) = [m \in Members |-> IF listings[paper.day][m] = "active" THEN "active" ELSE "out"]
  BY <1>1 DEF ActiveIn
<1>4. ActiveIn(paper) = ActiveOn(paper.day)
  BY <1>3 DEF ActiveOn
<1>5. \A m \in Members : ActiveIn(paper)[m] = "active" <=> listings[paper.day][m] = "active"
  BY <1>3
<1>6. ActiveIn(paper) = NoMember => \A m \in Members : listings[paper.day][m] # "active"
  BY <1>5 DEF NoMember
<1> QED
  BY <1>1, <1>2, <1>3, <1>4, <1>5, <1>6 DEF MemberStates

\* The step in which a reader is done: its answer is that of a document that
\* held.
LEMMA DoneKeeps ==
    ASSUME DiscoveryInv, reader.place \in {"manifest", "catalog"},
           UNCHANGED <<day, listings, settings>>,
           NEW manifest \in Papers, manifest.key = "root", manifest.day <= day,
           NEW time \in Days, manifest.day + ManifestTtl > time,
           NEW list \in Papers \cup {NoPaper},
           list = NoPaper \/ (list \in Papers /\ list.key = "root" /\ list.day <= day
                                   /\ list.day + CatalogTtl > time),
           NEW answer,
           \/ answer = ActiveIn(manifest)
              /\ (list = NoPaper \/ ActiveIn(list) = NoMember)
           \/ list # NoPaper /\ answer = ActiveIn(list) /\ answer # NoMember
           \/ settings.kind = "inventory" /\ list # NoPaper /\ answer = ListedIn(list)
           \/ settings.kind = "inventory" /\ list = NoPaper /\ answer = ListedIn(manifest),
           settings.kind # "registry" /\ (settings.required \/ settings.demanded)
              => list # NoPaper,
           reader' \in ReaderType, reader'.place = "done",
           reader'.manifest = manifest, reader'.now = time, reader'.catalog = list,
           reader'.answer = answer
    PROVE  DiscoveryInv'
<1> USE TtlsOK DEF TtlsOK
<1>1. DiscoveryTypes' /\ ManifestHeld'
  BY DEF DiscoveryInv, DiscoveryTypes, ManifestHeld
<1>2. DiscoveryTypes /\ day \in Nat /\ time \in Nat /\ manifest.day \in 0 .. day
  BY DEF DiscoveryInv, DiscoveryTypes, Papers, Days
<1>3. list.key = "none" <=> list = NoPaper
  BY DEF NoPaper, Papers, Keys
<1>4. list # NoPaper => list \in Papers /\ list.key = "root" /\ list.day \in 0 .. day
  BY <1>2 DEF Papers, Days
<1>5. RequiredIsRead'
  BY <1>3 DEF RequiredIsRead
<1> DEFINE Held(d) ==
        d + (IF list.key = "none" THEN ManifestTtl
             ELSE IF ManifestTtl > CatalogTtl THEN ManifestTtl ELSE CatalogTtl) > time
<1>6. Held(manifest.day) /\ (list # NoPaper => Held(list.day))
  BY <1>2, <1>3, <1>4
<1>7. ActiveIn(manifest) = ActiveOn(manifest.day)
      /\ ListedIn(manifest) = listings[manifest.day]
      /\ \A m \in Members :
             ActiveIn(manifest)[m] = "active" <=> listings[manifest.day][m] = "active"
  BY <1>2, ActiveIsListed
<1>8. list # NoPaper =>
          /\ ActiveIn(list) = ActiveOn(list.day)
          /\ ListedIn(list) = listings[list.day]
          /\ \A m \in Members :
                 ActiveIn(list)[m] = "active" <=> listings[list.day][m] = "active"
          /\ ActiveIn(list) = NoMember => \A m \in Members : listings[list.day][m] # "active"
  BY <1>2, <1>4, ActiveIsListed
<1> DEFINE Says(d) == Held(d) /\ (answer = ActiveOn(d) \/ (settings.kind = "inventory" /\ answer = listings[d]))
<1> HIDE DEF Held
<1>9. \E d \in 0 .. day : Says(d)
  <2>1. manifest.day \in 0 .. day /\ Held(manifest.day)
    BY <1>2, <1>6
  <2>2. list # NoPaper => list.day \in 0 .. day /\ Held(list.day)
    BY <1>4, <1>6
  <2>3. Says(manifest.day) \/ (list # NoPaper /\ Says(list.day))
    BY <1>7, <1>8, <2>1, <2>2
  <2> HIDE DEF Says
  <2> QED
    BY <2>1, <2>2, <2>3
<1>10. ASSUME NEW paper PROVE ActiveIn(paper)' = ActiveIn(paper)
  BY DEF ActiveIn, ListedIn
<1>11. AnswerIsOneListing'
  <2>1. PICK d \in 0 .. day : Says(d)
    BY <1>9
  <2>2. ActiveIn([day |-> d, key |-> "root"])' = ActiveOn(d)
    BY DEF ActiveIn, ListedIn, ActiveOn
  <2>3. /\ d + (IF reader'.catalog.key = "none" THEN ManifestTtl
                ELSE IF ManifestTtl > CatalogTtl THEN ManifestTtl ELSE CatalogTtl) > reader'.now
        /\ \/ reader'.answer = ActiveIn([day |-> d, key |-> "root"])'
           \/ settings'.kind = "inventory" /\ reader'.answer = listings'[d]
    BY <2>1, <2>2 DEF Held
  <2>4. d \in 0 .. day'
    BY <2>1
  <2> QED
    BY <2>3, <2>4, Zenon DEF AnswerIsOneListing
<1>12. ASSUME NEW m \in Members, answer[m] = "active"
       PROVE  \E d \in 0 .. day :
                 /\ listings[d][m] = "active"
                 /\ d + (IF list.key # "none" /\ ActiveIn(list) # NoMember
                         THEN CatalogTtl ELSE ManifestTtl) > time
  <2>1. CASE list = NoPaper
    BY <1>2, <1>3, <1>7, <1>12, <2>1
  <2>2. CASE list # NoPaper /\ ActiveIn(list) = NoMember
    BY <1>2, <1>3, <1>7, <1>8, <1>12, <2>2
  <2>3. CASE list # NoPaper /\ ActiveIn(list) # NoMember
    BY <1>2, <1>3, <1>4, <1>8, <1>12, <2>3
  <2> QED
    BY <2>1, <2>2, <2>3
<1>13. DisabledGoesAway'
  BY <1>10, <1>12 DEF DisabledGoesAway, NoMember
<1> QED
  BY <1>1, <1>5, <1>11, <1>13 DEF DiscoveryInv

LEMMA DiscoveryInvNext == DiscoveryInv /\ [DiscoveryNext]_discoveryVars => DiscoveryInv'
<1> SUFFICES ASSUME DiscoveryInv, [DiscoveryNext]_discoveryVars PROVE DiscoveryInv'
  OBVIOUS
<1> USE TtlsOK DEF TtlsOK
<1>0. /\ DiscoveryTypes /\ ManifestHeld /\ reader \in ReaderType /\ day \in Days /\ day \in Nat
      /\ listings \in [Days -> Listings]
  BY DEF DiscoveryInv, DiscoveryTypes, Days
\* Before a reader is done there is nothing to say of its answer.
<1>1. ASSUME DiscoveryTypes', ManifestHeld', reader'.place # "done" PROVE DiscoveryInv'
  BY <1>1 DEF DiscoveryInv, AnswerIsOneListing, DisabledGoesAway, RequiredIsRead
<1>2. CASE UNCHANGED discoveryVars
  BY <1>2
  DEF discoveryVars, DiscoveryInv, DiscoveryTypes, ManifestHeld, AnswerIsOneListing,
      DisabledGoesAway, RequiredIsRead, ActiveIn, ListedIn
<1>3. CASE NextDay
  <2>1. day' \in Days /\ day' > day
    BY <1>0, <1>3 DEF NextDay, Days
  <2>2. PICK listing \in Listings : listings' = [d \in Days |-> IF d > day THEN listing ELSE listings[d]]
    BY <1>3 DEF NextDay
  <2>3. listings' \in [Days -> Listings]
    BY <1>0, <2>2
  <2>4. DiscoveryTypes' /\ reader'.place # "done"
    BY <1>0, <1>3, <2>1, <2>3 DEF NextDay, DiscoveryTypes
  <2>5. ManifestHeld'
    BY <1>0, <1>3, <2>1 DEF NextDay, ManifestHeld, Papers, Days
  <2> QED
    BY <1>1, <2>4, <2>5
<1>4. CASE ManifestFails
  <2>1. /\ reader' \in ReaderType
        /\ reader'.place \in {"manifest", "failed"} /\ reader'.catalog = reader.catalog
        /\ reader'.place = "manifest" => reader'.tries # 0
    <3>1. reader.tries \in 1 .. Candidates /\ reader.tries - 1 \in 0 .. Candidates
      BY <1>0, <1>4 DEF ManifestFails, DiscoveryTypes, ReaderType
    <3>2. CASE reader.tries = 1
      <4>1. reader' = [reader EXCEPT !.tries = reader.tries - 1, !.place = "failed"]
        BY <1>4, <3>2 DEF ManifestFails
      <4> QED
        BY <1>0, <3>1, <4>1 DEF ReaderType, ReaderPlaces
    <3>3. CASE reader.tries # 1
      <4>1. reader' = [reader EXCEPT !.tries = reader.tries - 1]
        BY <1>0, <1>4, <3>3 DEF ManifestFails, ReaderType
      <4> QED
        BY <1>0, <1>4, <3>1, <3>3, <4>1 DEF ManifestFails, ReaderType, ReaderPlaces
    <3> QED
      BY <3>2, <3>3
  <2> QED
    BY <1>0, <1>1, <1>4, <2>1 DEF ManifestFails, DiscoveryTypes, ManifestHeld
<1>5. CASE ManifestArrives
  <2>1. PICK paper \in Served :
          /\ GoodManifest(paper)
          /\ reader' = [reader EXCEPT
                !.manifest = paper, !.now = day,
                !.answer = IF settings.kind = "registry" THEN ActiveIn(paper) ELSE @,
                !.place = IF settings.kind # "registry" THEN "catalog"
                          ELSE IF ActiveIn(paper) = NoMember THEN "failed" ELSE "done"]
    BY <1>5 DEF ManifestArrives
  <2>2. /\ paper \in Papers /\ paper.key = "root" /\ paper.day <= day
        /\ paper.day + ManifestTtl > day
    BY <1>0, <2>1 DEF GoodManifest, Served, Expired, Papers, Days
  <2>3. UNCHANGED <<day, listings, settings>> /\ reader.place = "manifest" /\ reader.catalog = NoPaper
    BY <1>0, <1>5 DEF ManifestArrives, ManifestHeld
  <2>4. ActiveIn(paper) \in [Members -> MemberStates \cup {"out"}]
    BY <1>0, <2>2, ActiveIsListed
  <2> DEFINE place == IF settings.kind # "registry" THEN "catalog"
                      ELSE IF ActiveIn(paper) = NoMember THEN "failed" ELSE "done"
             answer == IF settings.kind = "registry" THEN ActiveIn(paper) ELSE reader.answer
  <2>5. /\ settings.kind # "registry" => place = "catalog" /\ answer = reader.answer
        /\ settings.kind = "registry" => place \in {"failed", "done"} /\ answer = ActiveIn(paper)
        /\ place \in {"catalog", "failed", "done"}
    OBVIOUS
  <2>6. /\ reader'.place = place /\ reader'.manifest = paper /\ reader'.now = day
        /\ reader'.answer = answer /\ reader'.catalog = NoPaper
    BY <1>0, <2>1, <2>3 DEF ReaderType
  <2>7. reader' \in ReaderType
    BY <1>0, <2>1, <2>2, <2>4 DEF ReaderType, ReaderPlaces
  <2> HIDE DEF place, answer
  <2>8. CASE place = "done"
    BY <1>0, <2>2, <2>3, <2>5, <2>6, <2>7, <2>8, DoneKeeps
  <2>9. CASE place # "done"
    BY <1>0, <1>1, <2>2, <2>3, <2>5, <2>6, <2>7, <2>9 DEF DiscoveryTypes, ManifestHeld
  <2> QED
    BY <2>8, <2>9
<1>6. CASE CatalogArrives
  <2>1. PICK paper \in Served :
          /\ GoodCatalog(paper)
          /\ reader' = [reader EXCEPT !.catalog = paper, !.answer = Answer(paper), !.place = "done"]
    BY <1>6 DEF CatalogArrives
  <2>2. UNCHANGED <<day, listings, settings>> /\ reader.place = "catalog"
    BY <1>6 DEF CatalogArrives
  <2>3. /\ paper \in Papers /\ paper.key = "root" /\ paper.day <= day /\ paper # NoPaper
        /\ paper.day + CatalogTtl > reader.now
    BY <2>1, <2>2, CatalogHeld DEF Served, NoPaper
  <2>4. /\ reader.manifest \in Papers /\ reader.manifest.key = "root" /\ reader.manifest.day <= day
        /\ reader.manifest.day + ManifestTtl > reader.now /\ reader.now \in Days
        /\ settings.kind \in {"relays", "inventory"}
    BY <1>0, <2>2 DEF ManifestHeld, ReaderType, DiscoveryTypes, Settings, Readers
  <2>5. \/ Answer(paper) = ActiveIn(reader.manifest) /\ ActiveIn(paper) = NoMember
        \/ Answer(paper) = ActiveIn(paper) /\ ActiveIn(paper) # NoMember
        \/ settings.kind = "inventory" /\ Answer(paper) = ListedIn(paper)
    BY <2>3, <2>4 DEF Answer, ActiveMembers, InventoryMembers
  <2>6. Answer(paper) \in [Members -> MemberStates \cup {"out"}]
    <3>1. /\ ActiveIn(reader.manifest) \in [Members -> MemberStates \cup {"out"}]
          /\ ActiveIn(paper) \in [Members -> MemberStates \cup {"out"}]
          /\ ListedIn(paper) \in [Members -> MemberStates \cup {"out"}]
      <4>1. ActiveIn(reader.manifest) \in [Members -> MemberStates \cup {"out"}]
        BY <1>0, <2>4, ActiveIsListed
      <4>2. /\ ActiveIn(paper) \in [Members -> MemberStates \cup {"out"}]
            /\ ListedIn(paper) = listings[paper.day]
            /\ listings[paper.day] \in [Members -> MemberStates \cup {"out"}]
        BY <1>0, <2>3, ActiveIsListed
      <4> QED
        BY <4>1, <4>2
    <3> QED
      BY <2>5, <3>1
  <2>7. /\ reader'.place = "done" /\ reader'.manifest = reader.manifest /\ reader'.now = reader.now
        /\ reader'.answer = Answer(paper) /\ reader'.catalog = paper
    BY <1>0, <2>1 DEF ReaderType
  <2>8. reader' \in ReaderType
    BY <1>0, <2>1, <2>3, <2>6 DEF ReaderType, ReaderPlaces
  <2> QED
    BY <2>2, <2>3, <2>4, <2>5, <2>7, <2>8, DoneKeeps
<1>7. CASE CatalogFails
  <2>1. UNCHANGED <<day, listings, settings>> /\ reader.place = "catalog" /\ reader.catalog = NoPaper
    BY <1>0, <1>7 DEF CatalogFails, ManifestHeld
  <2>2. CASE Demanded
    <3>1. reader' = [reader EXCEPT !.place = "failed"]
      BY <1>7, <2>2 DEF CatalogFails
    <3>2. reader' \in ReaderType /\ reader'.place = "failed"
      BY <1>0, <3>1 DEF ReaderType, ReaderPlaces
    <3> QED
      BY <1>0, <1>1, <2>1, <3>2 DEF DiscoveryTypes, ManifestHeld
  <2>3. CASE ~Demanded
    <3>1. reader' = [reader EXCEPT !.answer = Answer(NoPaper), !.place = "done"]
      BY <1>7, <2>3 DEF CatalogFails
    <3>2. /\ reader.manifest \in Papers /\ reader.manifest.key = "root" /\ reader.manifest.day <= day
          /\ reader.manifest.day + ManifestTtl > reader.now /\ reader.now \in Days
          /\ settings.kind \in {"relays", "inventory"}
      BY <1>0, <2>1 DEF ManifestHeld, ReaderType, DiscoveryTypes, Settings, Readers
    <3>3. \/ Answer(NoPaper) = ActiveIn(reader.manifest)
          \/ settings.kind = "inventory" /\ Answer(NoPaper) = ListedIn(reader.manifest)
      BY <3>2 DEF Answer, ActiveMembers, InventoryMembers
    <3>4. Answer(NoPaper) \in [Members -> MemberStates \cup {"out"}]
      <4>1. /\ ActiveIn(reader.manifest) \in [Members -> MemberStates \cup {"out"}]
            /\ ListedIn(reader.manifest) \in [Members -> MemberStates \cup {"out"}]
        BY <1>0, <3>2, ActiveIsListed
      <4> QED
        BY <3>3, <4>1
    <3>5. /\ reader'.place = "done" /\ reader'.manifest = reader.manifest /\ reader'.now = reader.now
          /\ reader'.answer = Answer(NoPaper) /\ reader'.catalog = NoPaper
      BY <1>0, <2>1, <3>1 DEF ReaderType
    <3>6. reader' \in ReaderType
      BY <1>0, <3>1, <3>4 DEF ReaderType, ReaderPlaces
    <3> QED
      BY <2>1, <2>3, <3>2, <3>3, <3>5, <3>6, DoneKeeps DEF Demanded
  <2> QED
    BY <2>2, <2>3
<1> QED
  BY <1>2, <1>3, <1>4, <1>5, <1>6, <1>7 DEF DiscoveryNext

\* Whatever the caches serve and whatever the operator lists in the meantime, a
\* reader is told one listing that held, and nobody who was disabled too long.
THEOREM DiscoveryIsSafe == DiscoverySpec => []DiscoverySafe
<1>1. DiscoveryInv => DiscoverySafe
  BY DEF DiscoveryInv, DiscoverySafe, DiscoveryTypes, ReaderType, DiscoveryTypeOK
<1> QED
  BY <1>1, DiscoveryInvInit, DiscoveryInvNext, PTL DEF DiscoverySpec

(***************************************************************************)
(* Waiting for relays                                                      *)
(***************************************************************************)

ReadinessTypes ==
    /\ moment \in 0 .. MaxMoment /\ since \in 0 .. moment /\ toggles \in 0 .. MaxToggles
    /\ up \subseteq Things /\ wasUp \subseteq Things /\ up \subseteq wasUp
    /\ probe \in Commands

\* The places of each kind of command.
PlacesOfKinds ==
    /\ probe.kind = "watch" => probe.place \in {"asleep", "asking"}
    /\ probe.kind = "verify" => probe.place # "asleep"
    /\ probe.kind # "verify" => probe.place \notin {"live", "peers"}

\* A command sleeps no longer than its timer, and one that watches no longer
\* than the interval.
SleepsInTime ==
    probe.place = "asleep" =>
        /\ moment <= probe.wake
        /\ probe.kind = "watch" => probe.wake <= moment + Interval

\* An answer that is no longer true was true in this attempt.
AnswersHeld ==
    probe.place = "asking" =>
        /\ probe.began <= moment /\ moment <= probe.began + Timeout
        /\ \A e \in Probed :
              /\ probe.answers[e] = "ok" => e \in wasUp
              /\ probe.answers[e] = "ok" /\ e \notin up => since >= probe.began
              /\ probe.answers[e] = "bad" /\ e \in up => since >= probe.began

SaidIsSo == probe.said = IF Probed \subseteq up THEN "ok" ELSE "fail"

\* What a watch said last is so, or has changed since an attempt ended.
WatchIsCurrent ==
    probe.kind = "watch" =>
        /\ probe.place = "asleep" => SaidIsSo \/ since + Interval + Timeout >= probe.wake
        /\ probe.place = "asking" => SaidIsSo \/ since + Interval + Timeout >= probe.began

\* What a verification found well was up in it.
VerifiedWasUp ==
    probe.kind = "verify" =>
        /\ probe.place \in {"live", "asking"} => probe.left = Peers
        /\ probe.place = "peers" /\ probe.well => Probed \cup (Peers \ probe.left) \subseteq wasUp

ReadinessInv ==
    /\ ReadinessTypes /\ PlacesOfKinds /\ SleepsInTime /\ AnswersHeld /\ WatchIsCurrent
    /\ VerifiedWasUp /\ ReadyWasUp /\ NoFalseAlarm

USE ReadinessOK DEF ReadinessOK

LEMMA ReadinessInvInit == ReadinessInit => ReadinessInv
<1> SUFFICES ASSUME ReadinessInit PROVE ReadinessInv
  OBVIOUS
<1>1. PICK kind \in Kinds, wait \in {0, StartAt} :
          /\ kind # "poll" => wait = 0
          /\ probe = [kind |-> kind, place |-> IF kind = "verify" THEN "live" ELSE "asleep",
                      wake |-> wait, began |-> 0, deadline |-> wait + PollTimeout,
                      answers |-> NoAnswers, left |-> Peers, well |-> TRUE, said |-> "nothing"]
  BY DEF ReadinessInit
<1>2. NoAnswers \in [Probed -> {"none", "ok", "bad"}]
  BY DEF NoAnswers
<1>3. wait \in Nat /\ wait + PollTimeout \in Nat
  OBVIOUS
<1>4. probe \in Commands
  BY <1>1, <1>2, <1>3 DEF Commands, ProbePlaces, Kinds
<1>5. ReadinessTypes
  BY <1>4 DEF ReadinessTypes, ReadinessInit
<1>6. /\ probe.kind = "verify" <=> probe.place = "live"
      /\ probe.kind # "verify" <=> probe.place = "asleep"
      /\ probe.wake = wait /\ probe.left = Peers /\ (probe.kind = "watch" => probe.wake = 0)
  BY <1>1 DEF Kinds
<1> QED
  BY <1>3, <1>5, <1>6
  DEF ReadinessInit, ReadinessInv, PlacesOfKinds, SleepsInTime, AnswersHeld, WatchIsCurrent,
      VerifiedWasUp, ReadyWasUp, NoFalseAlarm

\* What comes and goes, and the time, leave it so.
LEMMA ToggleKeeps == ReadinessInv /\ Toggle => ReadinessInv'
<1> SUFFICES ASSUME ReadinessInv, Toggle PROVE ReadinessInv'
  OBVIOUS
<1> USE DEF ReadinessInv, ReadinessTypes
<1>1. /\ UNCHANGED <<moment, probe>> /\ probe.place \notin {"ready", "failed"}
      /\ up' \subseteq Things /\ wasUp' = wasUp \cup up' /\ toggles' \in 0 .. MaxToggles
  BY DEF Toggle, Over
<1>2. \/ since' = since /\ \A e \in Probed : e \in up' <=> e \in up
      \/ since' = moment
  BY DEF Toggle
<1>3. ReadinessTypes'
  BY <1>1, <1>2
<1>4. /\ probe.wake \in Nat /\ probe.began \in Nat
  BY DEF Commands
<1>5. AnswersHeld'
  BY <1>1, <1>2, <1>4 DEF AnswersHeld
<1>6. WatchIsCurrent'
  <2>1. CASE since' = since /\ \A e \in Probed : e \in up' <=> e \in up
    <3>1. SaidIsSo' <=> SaidIsSo
      BY <1>1, <2>1 DEF SaidIsSo
    <3> QED
      BY <1>1, <2>1, <3>1 DEF WatchIsCurrent
  <2>2. CASE since' = moment
    BY <1>1, <1>4, <2>2 DEF WatchIsCurrent, SleepsInTime, AnswersHeld
  <2> QED
    BY <1>2, <2>1, <2>2
<1>7. PlacesOfKinds' /\ SleepsInTime' /\ VerifiedWasUp' /\ ReadyWasUp' /\ NoFalseAlarm'
  BY <1>1 DEF PlacesOfKinds, SleepsInTime, VerifiedWasUp, ReadyWasUp, NoFalseAlarm
<1> QED
  BY <1>3, <1>5, <1>6, <1>7

LEMMA ElapseKeeps == ReadinessInv /\ Elapse => ReadinessInv'
<1> SUFFICES ASSUME ReadinessInv, Elapse PROVE ReadinessInv'
  OBVIOUS
<1> USE DEF ReadinessInv, ReadinessTypes
<1>1. /\ UNCHANGED <<up, since, toggles, probe, wasUp>> /\ probe.place \notin {"ready", "failed"}
      /\ moment' = moment + 1 /\ moment' \in 0 .. MaxMoment
      /\ probe.place = "asleep" => moment < probe.wake
      /\ probe.place = "asking" => moment < probe.began + Timeout
  BY DEF Elapse, Over
<1>2. probe.wake \in Nat /\ probe.began \in Nat
  BY DEF Commands
<1>3. ReadinessTypes' /\ SleepsInTime'
  BY <1>1, <1>2 DEF SleepsInTime
<1>4. AnswersHeld'
  BY <1>1, <1>2 DEF AnswersHeld
<1>5. PlacesOfKinds' /\ WatchIsCurrent' /\ VerifiedWasUp' /\ ReadyWasUp' /\ NoFalseAlarm'
  BY <1>1
  DEF PlacesOfKinds, WatchIsCurrent, SaidIsSo, VerifiedWasUp, ReadyWasUp, NoFalseAlarm
<1> QED
  BY <1>3, <1>4, <1>5

\* An attempt begins without answers.
LEMMA AsksKeeps ==
    ASSUME ReadinessInv, NEW next \in Commands, ProbeMoves(Asks(next)),
           next.kind = probe.kind, next.said = probe.said, next.left = probe.left,
           wasUp' \in {up, wasUp},
           \/ probe.place = "asleep" /\ moment = probe.wake
           \/ probe.place = "live"
    PROVE  ReadinessInv'
<1> USE DEF ReadinessInv, ReadinessTypes
<1>1. /\ probe' = [next EXCEPT !.place = "asking", !.began = moment, !.answers = NoAnswers]
      /\ UNCHANGED <<moment, up, since, toggles>>
  BY DEF ProbeMoves, Asks
<1>2. NoAnswers \in [Probed -> {"none", "ok", "bad"}] /\ \A e \in Probed : NoAnswers[e] = "none"
  BY DEF NoAnswers
<1>3. /\ probe'.place = "asking" /\ probe'.began = moment /\ probe'.answers = NoAnswers
      /\ probe'.kind = probe.kind /\ probe'.said = probe.said /\ probe'.left = probe.left
  BY <1>1 DEF Commands
<1>4. probe' \in Commands
  <2> DEFINE placed == [next EXCEPT !.place = "asking"]
             begun == [placed EXCEPT !.began = moment]
  <2>1. placed \in Commands
    BY DEF Commands, ProbePlaces
  <2> HIDE DEF placed
  <2>2. begun \in Commands
    BY <2>1 DEF Commands
  <2> HIDE DEF begun
  <2>3. [begun EXCEPT !.answers = NoAnswers] \in Commands
    BY <1>2, <2>2 DEF Commands
  <2> QED
    BY <1>1, <2>3 DEF placed, begun
<1>5. ReadinessTypes' /\ PlacesOfKinds' /\ SleepsInTime' /\ ReadyWasUp' /\ NoFalseAlarm'
  BY <1>1, <1>3, <1>4 DEF PlacesOfKinds, SleepsInTime, ReadyWasUp, NoFalseAlarm
<1>6. AnswersHeld'
  BY <1>1, <1>2, <1>3 DEF AnswersHeld
<1>7. WatchIsCurrent'
  BY <1>1, <1>3 DEF WatchIsCurrent, SaidIsSo, PlacesOfKinds
<1>8. VerifiedWasUp'
  BY <1>3 DEF VerifiedWasUp, PlacesOfKinds
<1> QED
  BY <1>5, <1>6, <1>7, <1>8

\* An answer is as the endpoint is.
LEMMA AnswerKeeps ==
    ASSUME ReadinessInv, probe.place = "asking", NEW e \in Probed, NEW how \in {"ok", "bad"},
           (how = "ok") <=> e \in up,
           ProbeMoves([probe EXCEPT !.answers[e] = how]), UNCHANGED wasUp
    PROVE  ReadinessInv'
<1> USE DEF ReadinessInv, ReadinessTypes
<1>1. UNCHANGED <<moment, up, since, toggles, wasUp>> /\ probe' = [probe EXCEPT !.answers[e] = how]
  BY DEF ProbeMoves
<1>2. /\ probe'.answers = [probe.answers EXCEPT ![e] = how]
      /\ probe'.place = "asking" /\ probe'.began = probe.began
      /\ probe'.kind = probe.kind /\ probe'.said = probe.said /\ probe'.left = probe.left
  BY <1>1 DEF Commands
<1>3. probe.answers \in [Probed -> {"none", "ok", "bad"}]
  BY DEF Commands
<1>4. probe' \in Commands
  BY <1>1, <1>3 DEF Commands
<1>5. AnswersHeld'
  BY <1>1, <1>2, <1>3 DEF AnswersHeld
<1> QED
  BY <1>1, <1>2, <1>4, <1>5
  DEF PlacesOfKinds, SleepsInTime, WatchIsCurrent, SaidIsSo, VerifiedWasUp, ReadyWasUp, NoFalseAlarm

LEMMA AttemptEndsKeeps == ReadinessInv /\ AttemptEnds => ReadinessInv'
<1> SUFFICES ASSUME ReadinessInv, AttemptEnds PROVE ReadinessInv'
  OBVIOUS
<1> USE DEF ReadinessInv, ReadinessTypes
<1>1. /\ UNCHANGED <<moment, up, since, toggles, wasUp>> /\ probe.place = "asking"
      /\ \A e \in Probed : probe.answers[e] # "none"
  BY DEF AttemptEnds, ProbeMoves, Asked
<1>2. /\ probe.began \in Nat /\ probe.deadline \in Nat /\ moment \in Nat /\ since \in Nat
      /\ probe.kind \in Kinds
      /\ \A e \in Probed : probe.answers[e] \in {"ok", "bad"}
      /\ moment <= probe.began + Timeout
  BY <1>1 DEF Commands, AnswersHeld
<1>3. AllOk => Probed \subseteq wasUp
  BY <1>1 DEF AllOk, AnswersHeld
<1>4. ~AllOk /\ Probed \subseteq up => since >= probe.began
  BY <1>1, <1>2 DEF AllOk, AnswersHeld
<1>5. AllOk /\ ~(Probed \subseteq up) => since >= probe.began
  BY <1>1, <1>2 DEF AllOk, AnswersHeld
<1>6. CASE probe.kind = "poll"
  <2>1. probe' = Polls
    BY <1>6 DEF AttemptEnds, ProbeMoves
  <2>2. CASE AllOk
    <3>1. probe' = [probe EXCEPT !.place = "ready"]
      BY <2>1, <2>2 DEF Polls
    <3>2. probe' \in Commands /\ probe'.place = "ready" /\ probe'.kind = "poll"
      BY <1>6, <3>1 DEF Commands, ProbePlaces
    <3> QED
      BY <1>1, <1>3, <2>2, <3>2
      DEF PlacesOfKinds, SleepsInTime, AnswersHeld, WatchIsCurrent, VerifiedWasUp, ReadyWasUp,
          NoFalseAlarm
  <2>3. CASE ~AllOk /\ moment >= probe.deadline
    <3>1. probe' = [probe EXCEPT !.place = "failed"]
      BY <2>1, <2>3 DEF Polls
    <3>2. probe' \in Commands /\ probe'.place = "failed" /\ probe'.kind = "poll"
          /\ probe'.deadline = probe.deadline
      BY <1>6, <3>1 DEF Commands, ProbePlaces
    <3>3. NoFalseAlarm'
      BY <1>1, <1>2, <1>4, <2>3, <3>2 DEF NoFalseAlarm
    <3> QED
      BY <1>1, <3>2, <3>3
      DEF PlacesOfKinds, SleepsInTime, AnswersHeld, WatchIsCurrent, VerifiedWasUp, ReadyWasUp
  <2>4. CASE ~AllOk /\ moment < probe.deadline
    <3> DEFINE wake == Least(moment + Interval, probe.deadline)
    <3>1. probe' = [probe EXCEPT !.place = "asleep", !.wake = wake]
      BY <1>2, <2>1, <2>4 DEF Polls
    <3>2. wake \in Nat /\ moment <= wake
      BY <1>2, <2>4 DEF Least
    <3> HIDE DEF wake
    <3>3. probe' \in Commands /\ probe'.place = "asleep" /\ probe'.kind = "poll" /\ probe'.wake = wake
      BY <1>6, <3>1, <3>2 DEF Commands, ProbePlaces
    <3> QED
      BY <1>1, <3>2, <3>3
      DEF PlacesOfKinds, SleepsInTime, AnswersHeld, WatchIsCurrent, VerifiedWasUp, ReadyWasUp,
          NoFalseAlarm
  <2> QED
    BY <1>2, <2>2, <2>3, <2>4
<1>7. CASE probe.kind = "watch"
  <2> DEFINE said == IF AllOk THEN "ok" ELSE "fail"
  <2>1. probe' = [probe EXCEPT !.place = "asleep", !.wake = moment + Interval, !.said = said]
    BY <1>7 DEF AttemptEnds, ProbeMoves, Watches
  <2>2. said \in {"ok", "fail"} /\ (said = "ok" <=> AllOk)
    OBVIOUS
  <2> HIDE DEF said
  <2>3. /\ probe' \in Commands /\ probe'.place = "asleep" /\ probe'.kind = "watch"
        /\ probe'.wake = moment + Interval /\ probe'.said = said
    <3> DEFINE placed == [probe EXCEPT !.place = "asleep"]
               woken == [placed EXCEPT !.wake = moment + Interval]
    <3>1. placed \in Commands /\ placed.place = "asleep" /\ placed.kind = "watch"
      BY <1>7 DEF Commands, ProbePlaces
    <3>2. probe' = [woken EXCEPT !.said = said]
      BY <2>1
    <3> HIDE DEF placed
    <3>3. /\ woken \in Commands /\ woken.place = "asleep" /\ woken.kind = "watch"
          /\ woken.wake = moment + Interval
      BY <1>2, <3>1 DEF Commands
    <3> HIDE DEF woken
    <3> QED
      BY <2>2, <3>2, <3>3 DEF Commands
  <2>4. WatchIsCurrent'
    BY <1>1, <1>2, <1>4, <1>5, <2>2, <2>3 DEF WatchIsCurrent, SaidIsSo
  <2> QED
    BY <1>1, <1>2, <2>3, <2>4
    DEF PlacesOfKinds, SleepsInTime, AnswersHeld, VerifiedWasUp, ReadyWasUp, NoFalseAlarm
<1>8. CASE probe.kind = "verify"
  <2> DEFINE well == probe.well /\ AllOk
  <2>1. probe' = [probe EXCEPT !.well = well, !.place = "peers"]
    BY <1>8 DEF AttemptEnds, ProbeMoves
  <2>2. well \in BOOLEAN
    BY Zenon DEF AllOk
  <2>3. well => AllOk
    OBVIOUS
  <2> HIDE DEF well
  <2>4. /\ probe' \in Commands /\ probe'.place = "peers" /\ probe'.kind = "verify"
        /\ probe'.well = well /\ probe'.left = probe.left
    BY <1>8, <2>1, <2>2 DEF Commands, ProbePlaces
  <2>5. VerifiedWasUp'
    BY <1>1, <1>3, <1>8, <2>3, <2>4 DEF VerifiedWasUp
  <2> QED
    BY <1>1, <2>4, <2>5
    DEF PlacesOfKinds, SleepsInTime, AnswersHeld, WatchIsCurrent, ReadyWasUp, NoFalseAlarm
<1> QED
  BY <1>2, <1>6, <1>7, <1>8 DEF Kinds

LEMMA PeersKeep == ReadinessInv /\ (PeerIsAsked \/ Verdict) => ReadinessInv'
<1> SUFFICES ASSUME ReadinessInv, PeerIsAsked \/ Verdict PROVE ReadinessInv'
  OBVIOUS
<1> USE DEF ReadinessInv, ReadinessTypes
<1>1. /\ UNCHANGED <<moment, up, since, toggles, wasUp>> /\ probe.place = "peers"
      /\ probe.kind = "verify" /\ probe.left \subseteq Peers
  BY DEF PeerIsAsked, Verdict, ProbeMoves, PlacesOfKinds, Commands, Kinds
<1>2. CASE PeerIsAsked
  <2>1. PICK p \in probe.left :
            probe' = [probe EXCEPT !.left = @ \ {p}, !.well = @ /\ PeerAnswers(p)]
    BY <1>2 DEF PeerIsAsked, ProbeMoves
  <2> DEFINE well == probe.well /\ PeerAnswers(p)
             left == probe.left \ {p}
  <2>2. well \in BOOLEAN /\ (well => probe.well /\ p \in up)
    BY Zenon DEF PeerAnswers
  <2>3. probe' = [probe EXCEPT !.left = left, !.well = well]
    BY <2>1
  <2>4. left \subseteq Peers /\ Peers \ left \subseteq (Peers \ probe.left) \cup {p}
    BY <1>1
  <2> HIDE DEF well, left
  <2>5. /\ probe' \in Commands /\ probe'.place = "peers" /\ probe'.kind = "verify"
        /\ probe'.left = left /\ probe'.well = well
    BY <1>1, <2>2, <2>3, <2>4 DEF Commands
  <2>6. VerifiedWasUp'
    BY <1>1, <2>2, <2>4, <2>5 DEF VerifiedWasUp
  <2> QED
    BY <1>1, <2>5, <2>6
    DEF PlacesOfKinds, SleepsInTime, AnswersHeld, WatchIsCurrent, ReadyWasUp, NoFalseAlarm
<1>3. CASE Verdict
  <2>1. PICK place \in {"ready", "failed"} :
            probe' = [probe EXCEPT !.place = place] /\ (place = "ready" => probe.well)
    BY <1>3 DEF Verdict, ProbeMoves
  <2>2. probe' \in Commands /\ probe'.place = place /\ probe'.kind = "verify"
    BY <1>1, <2>1 DEF Commands, ProbePlaces
  <2>3. ReadyWasUp'
    BY <1>1, <1>3, <2>1, <2>2 DEF Verdict, ReadyWasUp, VerifiedWasUp, Things
  <2> QED
    BY <1>1, <2>1, <2>2, <2>3
    DEF PlacesOfKinds, SleepsInTime, AnswersHeld, WatchIsCurrent, VerifiedWasUp, NoFalseAlarm
<1> QED
  BY <1>2, <1>3

LEMMA ReadinessInvNext == ReadinessInv /\ [ReadinessNext]_readyVars => ReadinessInv'
<1> SUFFICES ASSUME ReadinessInv, [ReadinessNext]_readyVars PROVE ReadinessInv'
  OBVIOUS
<1>1. CASE UNCHANGED readyVars
  BY <1>1
  DEF readyVars, ReadinessInv, ReadinessTypes, PlacesOfKinds, SleepsInTime, AnswersHeld,
      WatchIsCurrent, SaidIsSo, VerifiedWasUp, ReadyWasUp, NoFalseAlarm
<1>2. CASE Wakes
  <2>1. /\ probe \in Commands /\ ProbeMoves(Asks(probe)) /\ wasUp' = up
        /\ probe.place = "asleep" /\ moment = probe.wake
    BY <1>2 DEF Wakes, ReadinessInv, ReadinessTypes
  <2> QED
    BY <2>1, AsksKeeps
<1>3. CASE LooksLive
  <2>1. PICK listed \in BOOLEAN : ProbeMoves(Asks([probe EXCEPT !.well = listed]))
    BY <1>3 DEF LooksLive
  <2> DEFINE next == [probe EXCEPT !.well = listed]
  <2>2. /\ next \in Commands /\ next.kind = probe.kind /\ next.said = probe.said
        /\ next.left = probe.left
    BY DEF ReadinessInv, ReadinessTypes, Commands
  <2>3. ProbeMoves(Asks(next)) /\ probe.place = "live" /\ wasUp' = wasUp
    BY <1>3, <2>1 DEF LooksLive
  <2> HIDE DEF next
  <2> QED
    BY <2>2, <2>3, AsksKeeps
<1>4. CASE EndpointAnswers
  <2>1. PICK e \in Asked : ProbeMoves([probe EXCEPT !.answers[e] = IF e \in up THEN "ok" ELSE "bad"])
    BY <1>4 DEF EndpointAnswers
  <2> DEFINE how == IF e \in up THEN "ok" ELSE "bad"
  <2>2. /\ how \in {"ok", "bad"} /\ ((how = "ok") <=> e \in up) /\ e \in Probed
        /\ probe.place = "asking" /\ UNCHANGED wasUp
    BY <1>4 DEF Asked, EndpointAnswers
  <2>3. ProbeMoves([probe EXCEPT !.answers[e] = how])
    BY <2>1
  <2> HIDE DEF how
  <2> QED
    BY <2>2, <2>3, AnswerKeeps
<1>5. CASE AbortFires
  <2>1. PICK e \in Asked \ up : ProbeMoves([probe EXCEPT !.answers[e] = "bad"])
    BY <1>5 DEF AbortFires
  <2>2. e \in Probed /\ e \notin up /\ probe.place = "asking" /\ UNCHANGED wasUp
    BY <1>5 DEF Asked, AbortFires
  <2> QED
    BY <2>1, <2>2, AnswerKeeps
<1> QED
  BY <1>1, <1>2, <1>3, <1>4, <1>5, ToggleKeeps, ElapseKeeps, AttemptEndsKeeps, PeersKeep
  DEF ReadinessNext

\* However often the relay comes and goes: ready is said only of what was up in
\* one attempt, an alarm is raised only for what was down, and the watch says
\* every change that lasts.
THEOREM WaitingIsSafe == ReadinessSpec => []ReadinessSafe
<1>1. ReadinessInv => ReadinessSafe
  <2> SUFFICES ASSUME ReadinessInv PROVE ReadinessSafe
    OBVIOUS
  <2>1. ReadinessTypeOK
    BY DEF ReadinessInv, ReadinessTypes, SleepsInTime, ReadinessTypeOK
  <2>2. /\ probe.began \in Nat /\ probe.wake \in Nat /\ moment \in Nat /\ since \in Nat
    BY DEF ReadinessInv, ReadinessTypes, Commands
  <2>3. WatchNotices
    <3>1. probe.kind = "watch" /\ moment - since > Interval + 2 * Timeout => SaidIsSo
      BY <2>2
      DEF ReadinessInv, PlacesOfKinds, SleepsInTime, AnswersHeld, WatchIsCurrent
    <3> QED
      BY <3>1 DEF WatchNotices, SaidIsSo
  <2> QED
    BY <2>1, <2>3 DEF ReadinessInv, ReadinessSafe
<1> QED
  BY <1>1, ReadinessInvInit, ReadinessInvNext, PTL DEF ReadinessSpec

(***************************************************************************)
(* The document store                                                      *)
(***************************************************************************)

CallTypes ==
    [at : DocPlaces, kind : DocKinds, arg : Owners \cup Calls \cup Revisions \cup {Absent},
     seen : Snapshots \cup {Absent, Torn}, out : Snapshots \cup {Absent}, alone : BOOLEAN]

Instances == {InstanceOf[c] : c \in Calls}

\* The part of the types that a call depends on: what it read and writes are
\* snapshots, and the owner of a lease is one.
CallHasData(c) ==
    /\ calls[c].at \in {"read", "making", "writing", "tore"} => calls[c].seen \in Snapshots
    /\ calls[c].at = "writing" => calls[c].out \in Snapshots
    /\ calls[c].kind = "acquire" => calls[c].arg \in Owners

\* A file that is half written was left so by somebody.
TornByWriter == file = Torn => \E c \in Calls : calls[c].at \in {"writing", "tore"}

\* A call that began alone and still is.
AloneIsAlone ==
    \A c, d \in Calls : Going(c) /\ calls[c].alone /\ Going(d) => d = c

\* A put that is alone writes a document, and an acquisition a lease.
IsWrittenAlone(c) ==
    calls[c].alone /\ calls[c].kind \in {"put", "acquire"} =>
        /\ calls[c].at = "making" =>
              /\ calls[c].kind = "put" => memory[InstanceOf[c]].doc # Absent
              /\ calls[c].kind = "acquire" => memory[InstanceOf[c]].lease # Absent
        /\ calls[c].at \in {"writing", "done"} =>
              /\ calls[c].out \in Snapshots
              /\ calls[c].kind = "put" => calls[c].out.doc # Absent
              /\ calls[c].kind = "acquire" => calls[c].out.lease # Absent

\* What a put that nobody overlapped wrote is in the feed of every snapshot that
\* can still reach the file.
KeptPut(c) == calls[c].kind = "put" /\ calls[c].at = "done" /\ calls[c].alone

HasPut(c, s) == calls[c].out.doc.rev \in s.feed

PutIsEverywhere(c) ==
    KeptPut(c) =>
        /\ file # Torn => HasPut(c, file)
        /\ \A d \in Calls :
              /\ calls[d].at = "read" => HasPut(c, calls[d].seen)
              /\ calls[d].at = "making" => HasPut(c, memory[InstanceOf[d]])
              /\ calls[d].at = "writing" => HasPut(c, calls[d].out)

\* A lease that stands in a snapshot is that of the call that drew its token.
LeaseIsDrawn(s) ==
    s.lease # Absent =>
        /\ calls[s.lease.token].kind = "acquire"
        /\ calls[s.lease.token].at \notin {"idle", "reading", "read"}
        /\ s.lease.owner = calls[s.lease.token].arg
        /\ s.lease.until <= now + Ttl

LeasesAreDrawn ==
    /\ file # Torn => LeaseIsDrawn(file)
    /\ \A i \in Instances : LeaseIsDrawn(memory[i])
    /\ \A c \in Calls : calls[c].at = "read" => LeaseIsDrawn(calls[c].seen)
    /\ \A c \in Calls : calls[c].at = "writing" \/ Granted(c) => LeaseIsDrawn(calls[c].out)

NoRelease == \A d \in Calls : ~(calls[d].kind = "release" /\ calls[d].at # "idle")

\* A lease that was granted alone and has not run out stands, or one of the same
\* owner that lasts longer, in every snapshot that can still reach the file.
KeptLease(c) == Granted(c) /\ calls[c].out.lease.until > now /\ NoRelease

HasLease(c, s) ==
    s.lease # Absent /\ s.lease.owner = calls[c].arg /\ s.lease.until >= calls[c].out.lease.until

LeaseIsEverywhere(c) ==
    KeptLease(c) =>
        /\ file # Torn => HasLease(c, file)
        /\ \A d \in Calls :
              /\ calls[d].at = "read" => HasLease(c, calls[d].seen)
              /\ calls[d].at = "making" => HasLease(c, memory[InstanceOf[d]])
              /\ calls[d].at = "writing" => HasLease(c, calls[d].out)

DocTypes ==
    /\ serial \in BOOLEAN /\ now \in 0 .. MaxNow
    /\ file \in Snapshots \cup {Torn}
    /\ memory \in [Instances -> Snapshots]
    /\ calls \in [Calls -> CallTypes]
    /\ \A c \in Calls : CallHasData(c)
    /\ TornByWriter

DocKeeps ==
    /\ AloneIsAlone
    /\ \A c \in Calls : IsWrittenAlone(c) /\ PutIsEverywhere(c) /\ LeaseIsEverywhere(c)
    /\ LeasesAreDrawn

(***************************************************************************)
(* Callers that wait for each other                                        *)
(***************************************************************************)

\* The snapshot t is s, or what an operation of DocSpec makes of it.
Follows(s, t) ==
    \/ t = s
    \/ \E v \in Calls : t = Abs!AfterPut(s, v)
    \/ s.doc # Absent /\ t = Abs!AfterDelete(s)
    \/ \E o \in Owners, k \in Calls, at \in 0 .. now :
          ~Abs!Refused(s, o, at) /\ t = Abs!AfterAcquire(s, o, k, at)
    \/ s.lease # Absent /\ t = [s EXCEPT !.lease = Absent]

\* One call is under way; it read what the file holds, or held before the write,
\* and writes what follows.
SerialHolds ==
    serial =>
        /\ \A c, d \in Calls : Going(c) /\ Going(d) => c = d
        /\ \A c, d \in Calls :
              calls[c].at \in {"writing", "tore"} /\ calls[d].at \in {"writing", "tore"} => c = d
        /\ \A c \in Calls :
              /\ calls[c].at \in {"writing", "tore"} => file = Torn
              /\ calls[c].at \in {"read", "making"} => file = calls[c].seen
              /\ calls[c].at = "making" => Follows(calls[c].seen, memory[InstanceOf[c]])
              /\ calls[c].at = "writing" => Follows(calls[c].seen, calls[c].out)

DocInv == DocTypes /\ DocKeeps /\ SerialHolds

-------------------------------------------------------------------------------
\* What a snapshot of no document and no lease is.
LEMMA EmptyIsSnapshot ==
    /\ Abs!Empty \in Snapshots
    /\ Abs!Empty.doc = Absent /\ Abs!Empty.lease = Absent
BY NoSnapshotOK DEF NoSnapshotOK, Abs!Empty, Snapshots

\* What a put, a deletion and a lease make of a snapshot.
LEMMA WithDocumentIs ==
    ASSUME NEW s \in Snapshots, NEW v \in Calls, NEW deleted \in BOOLEAN
    PROVE  LET t == Abs!WithDocument(s, v, deleted) IN
           /\ t \in Snapshots /\ t.doc # Absent /\ t.lease = s.lease /\ s.feed \subseteq t.feed
<1> DEFINE seq == s.seq + 1
           rev == Abs!Revision(Abs!GenOf(s.doc) + 1, seq, v)
           doc == [rev |-> rev, value |-> v, deleted |-> deleted]
           feed == s.feed \cup {rev}
<1>1. s \in [seq : Nat, doc : Documents \cup {Absent}, lease : Leases \cup {Absent},
             feed : SUBSET Revisions]
  BY DEF Snapshots
<1>2. seq \in Nat
  BY <1>1
<1>3. Abs!GenOf(s.doc) \in Nat
  BY <1>1 DEF Abs!GenOf, Documents, Revisions
<1>4. rev \in Revisions
  <2>1. Abs!GenOf(s.doc) + 1 \in Nat
    BY <1>3
  <2> HIDE DEF seq
  <2> QED
    BY <1>2, <2>1 DEF Abs!Revision, Revisions
<1>5. Abs!WithDocument(s, v, deleted) = [s EXCEPT !.seq = seq, !.doc = doc, !.feed = feed]
  BY DEF Abs!WithDocument
<1> HIDE DEF seq, rev
<1>6. doc \in Documents /\ doc.rev = rev
  BY <1>4 DEF Documents
<1>7. feed \in SUBSET Revisions /\ rev \in feed /\ s.feed \subseteq feed
  BY <1>1, <1>4
<1> HIDE DEF doc, feed
<1> DEFINE t == [s EXCEPT !.seq = seq, !.doc = doc, !.feed = feed]
<1>8. /\ t.doc = doc /\ t.feed = feed /\ t.lease = s.lease
      /\ t \in [seq : Nat, doc : Documents \cup {Absent}, lease : Leases \cup {Absent},
                feed : SUBSET Revisions]
  BY <1>1, <1>2, <1>6, <1>7
<1> HIDE DEF t
<1>9. t \in Snapshots
  BY <1>6, <1>7, <1>8 DEF Snapshots
<1> QED
  BY <1>5, <1>6, <1>7, <1>8, <1>9, NoSnapshotOK DEF t, NoSnapshotOK

LEMMA AfterAcquireIs ==
    ASSUME NEW s \in Snapshots, NEW o \in Owners, NEW c \in Calls, NEW time \in Nat
    PROVE  LET t == Abs!AfterAcquire(s, o, c, time) IN
           /\ t \in Snapshots /\ t.doc = s.doc /\ t.feed = s.feed
           /\ t.lease # Absent /\ t.lease.owner = o /\ t.lease.token = c
           /\ t.lease.until = time + Ttl
<1> DEFINE lease == [owner |-> o, token |-> c, until |-> time + Ttl]
           t == [s EXCEPT !.lease = lease]
<1>1. s \in [seq : Nat, doc : Documents \cup {Absent}, lease : Leases \cup {Absent},
             feed : SUBSET Revisions] /\ (s.doc # Absent => s.doc.rev \in s.feed)
  BY DEF Snapshots
<1>2. time + Ttl \in Nat
  BY DocConstants DEF DocConstants
<1>3. lease \in Leases /\ lease.owner = o /\ lease.token = c /\ lease.until = time + Ttl
  BY <1>2 DEF Leases
<1>4. Abs!AfterAcquire(s, o, c, time) = t
  BY DEF Abs!AfterAcquire
<1> HIDE DEF lease
<1>5. /\ t.doc = s.doc /\ t.feed = s.feed /\ t.lease = lease
      /\ t \in [seq : Nat, doc : Documents \cup {Absent}, lease : Leases \cup {Absent},
                feed : SUBSET Revisions]
  BY <1>1, <1>3
<1> HIDE DEF t
<1>6. t \in Snapshots
  BY <1>1, <1>5 DEF Snapshots
<1> QED
  BY <1>3, <1>4, <1>5, <1>6, NoSnapshotOK DEF NoSnapshotOK

LEMMA ReleasedIs ==
    ASSUME NEW s \in Snapshots
    PROVE  LET t == [s EXCEPT !.lease = Absent] IN
           t \in Snapshots /\ t.doc = s.doc /\ t.feed = s.feed /\ t.lease = Absent
BY DEF Snapshots

\* What a call makes of the snapshot that it read.
LEMMA ChangedIs ==
    ASSUME DocTypes, NEW c \in Calls, calls[c].at = "read", ~Throws(c, calls[c].seen)
    PROVE  LET s == calls[c].seen
               t == Changed(c, s)
           IN  /\ s \in Snapshots /\ t \in Snapshots /\ s.feed \subseteq t.feed /\ Follows(s, t)
               /\ calls[c].kind = "put" => t.doc # Absent
               /\ calls[c].kind = "acquire" => t.lease # Absent
               /\ \/ t.lease = s.lease
                  \/ /\ calls[c].kind = "acquire" /\ ~Abs!Refused(s, calls[c].arg, now)
                     /\ t.lease # Absent /\ t.lease.token = c /\ t.lease.owner = calls[c].arg
                     /\ t.lease.until = now + Ttl
                  \/ calls[c].kind = "release" /\ t.lease = Absent
<1> DEFINE s == calls[c].seen
           t == Changed(c, s)
<1>1. /\ s \in Snapshots /\ calls[c].kind \in DocKinds /\ now \in Nat /\ now \in 0 .. now
      /\ calls[c].kind = "acquire" => calls[c].arg \in Owners
  BY DocConstants DEF DocConstants, DocTypes, CallTypes, CallHasData
<1>2. ~(calls[c].kind = "delete" /\ s.doc = Absent)
  BY DEF Throws
<1> HIDE DEF s
<1>3. CASE calls[c].kind = "put"
  <2>1. t = Abs!AfterPut(s, c)
    BY <1>3 DEF Changed
  <2>2. t = Abs!WithDocument(s, c, FALSE)
    BY <2>1 DEF Abs!AfterPut
  <2>3. /\ t \in Snapshots /\ t.doc # Absent /\ t.lease = s.lease /\ s.feed \subseteq t.feed
    BY <1>1, <2>2, WithDocumentIs
  <2> QED
    BY <1>1, <1>3, <2>1, <2>3 DEF Follows, s
<1>4. CASE calls[c].kind = "delete"
  <2>1. t = Abs!AfterDelete(s)
    BY <1>4 DEF Changed
  <2>2. t = Abs!WithDocument(s, s.doc.value, TRUE)
    BY <2>1 DEF Abs!AfterDelete
  <2>3. s.doc.value \in Calls
    BY <1>1, <1>2, <1>4 DEF Snapshots, Documents
  <2>4. /\ t \in Snapshots /\ t.lease = s.lease /\ s.feed \subseteq t.feed
    BY <1>1, <2>2, <2>3, WithDocumentIs
  <2> QED
    BY <1>1, <1>2, <1>4, <2>1, <2>4 DEF Follows, s
<1>5. CASE calls[c].kind = "acquire"
  <2>1. t = IF Abs!Refused(s, calls[c].arg, now) THEN s ELSE Abs!AfterAcquire(s, calls[c].arg, c, now)
    BY <1>5 DEF Changed
  <2>2. CASE Abs!Refused(s, calls[c].arg, now)
    BY <1>1, <1>5, <2>1, <2>2 DEF Follows, s, Abs!Refused
  <2>3. CASE ~Abs!Refused(s, calls[c].arg, now)
    <3>1. t = Abs!AfterAcquire(s, calls[c].arg, c, now)
      BY <2>1, <2>3
    <3>2. /\ t \in Snapshots /\ t.feed = s.feed
          /\ t.lease # Absent /\ t.lease.owner = calls[c].arg /\ t.lease.token = c
          /\ t.lease.until = now + Ttl
      BY <1>1, <1>5, <3>1, AfterAcquireIs
    <3>3. Follows(s, t)
      BY <1>1, <1>5, <2>3, <3>1 DEF Follows
    <3> QED
      BY <1>1, <1>5, <2>3, <3>2, <3>3 DEF s
  <2> QED
    BY <2>2, <2>3
<1>6. CASE calls[c].kind = "release"
  <2>1. t = IF HoldsToken(c, s) THEN [s EXCEPT !.lease = Absent] ELSE s
    BY <1>6 DEF Changed
  <2>2. CASE HoldsToken(c, s)
    <3>1. t = [s EXCEPT !.lease = Absent] /\ s.lease # Absent
      BY <2>1, <2>2 DEF HoldsToken
    <3>2. t \in Snapshots /\ t.feed = s.feed /\ t.lease = Absent
      BY <1>1, <3>1, ReleasedIs
    <3> QED
      BY <1>1, <1>6, <3>1, <3>2 DEF Follows, s
  <2>3. CASE ~HoldsToken(c, s)
    BY <1>1, <1>6, <2>1, <2>3 DEF Follows, s
  <2> QED
    BY <2>2, <2>3
<1>7. CASE calls[c].kind = "get"
  <2>1. t = s
    BY <1>7 DEF Changed
  <2> QED
    BY <1>1, <1>7, <2>1 DEF Follows, s
<1> QED
  BY <1>1, <1>3, <1>4, <1>5, <1>6, <1>7 DEF DocKinds, s

\* What the file held is a snapshot.
LEMMA StoredIs == DocTypes => Stored \in Snapshots
<1> SUFFICES ASSUME DocTypes PROVE Stored \in Snapshots
  OBVIOUS
<1>1. CASE file # Torn
  BY <1>1 DEF DocTypes, Stored
<1>2. CASE file = Torn
  <2> DEFINE w == CHOOSE c \in Calls : calls[c].at \in {"writing", "tore"}
  <2>1. w \in Calls /\ calls[w].at \in {"writing", "tore"}
    BY <1>2, Zenon DEF DocTypes, TornByWriter
  <2>2. Stored = calls[w].seen
    BY <1>2 DEF Stored
  <2> HIDE DEF w
  <2> QED
    BY <2>1, <2>2 DEF DocTypes, CallHasData
<1> QED
  BY <1>1, <1>2

LEMMA ArgumentsAre ==
    ASSUME DocTypes, NEW k \in DocKinds, NEW a \in Arguments(k)
    PROVE  /\ a \in Owners \cup Calls \cup Revisions \cup {Absent}
           /\ k = "acquire" => a \in Owners
<1>1. Abs!RevOf(Stored.doc) \in Revisions \cup {Absent}
  <2>1. Stored.doc \in Documents \cup {Absent}
    BY StoredIs DEF Snapshots
  <2> QED
    BY <2>1 DEF Abs!RevOf, Documents
<1>2. \/ k \in {"put", "delete"} /\ a \in {Absent, Abs!RevOf(Stored.doc)}
      \/ k = "acquire" /\ a \in Owners
      \/ k = "release" /\ a \in Calls
      \/ k = "get" /\ a = Absent
  BY DEF Arguments, DocKinds
<1> QED
  BY <1>1, <1>2

-------------------------------------------------------------------------------
\* The lease of s is drawn after the step.
DrawnNext(s) ==
    s.lease # Absent =>
        /\ calls'[s.lease.token].kind = "acquire"
        /\ calls'[s.lease.token].at \notin {"idle", "reading", "read"}
        /\ s.lease.owner = calls'[s.lease.token].arg
        /\ s.lease.until <= now' + Ttl

\* A lease stays drawn while calls go on and the clock does.
LEMMA DrawnStays ==
    ASSUME NEW s \in Snapshots, LeaseIsDrawn(s), now \in Nat, now' \in Nat, now <= now',
           \A d \in Calls : calls[d].at \notin {"idle", "reading", "read"} =>
               /\ calls'[d].kind = calls[d].kind /\ calls'[d].arg = calls[d].arg
               /\ calls'[d].at \notin {"idle", "reading", "read"}
    PROVE  DrawnNext(s)
<1> SUFFICES ASSUME s.lease # Absent PROVE DrawnNext(s)
  BY DEF DrawnNext
<1>1. s.lease.token \in Calls /\ s.lease.until \in Nat
  BY DEF Snapshots, Leases
<1> QED
  BY <1>1, DocConstants DEF DocConstants, LeaseIsDrawn, DrawnNext

LEMMA LeasesStayDrawn ==
    /\ file' # Torn => DrawnNext(file')
    /\ \A i \in Instances : DrawnNext(memory'[i])
    /\ \A c \in Calls : calls'[c].at = "read" => DrawnNext(calls'[c].seen)
    /\ \A c \in Calls : calls'[c].at = "writing" \/ Granted(c)' => DrawnNext(calls'[c].out)
    => LeasesAreDrawn'
BY DEF DrawnNext, LeasesAreDrawn, LeaseIsDrawn

\* What a step of the call c does to the calls.
CallBecomes(c, next) ==
    /\ calls' = [calls EXCEPT ![c] = next]
    /\ next \in CallTypes
    /\ next.kind = calls[c].kind /\ next.arg = calls[c].arg /\ next.alone = calls[c].alone

LEMMA DocInvInit == DocInit => DocInv
<1> SUFFICES ASSUME DocInit PROVE DocInv
  OBVIOUS
<1>1. Idle \in CallTypes /\ Idle.at = "idle" /\ Idle.kind = "get"
  <2>1. TRUE \in BOOLEAN
    OBVIOUS
  <2> QED
    BY <2>1 DEF Idle, CallTypes, DocPlaces, Ongoing, DocKinds
<1>2. \A c \in Calls : calls[c] = Idle
  BY DEF DocInit
<1>3. \A i \in Instances : memory[i] = Abs!Empty
  BY DEF DocInit, Instances
<1>4. file = Abs!Empty /\ file # Torn
  BY EmptyIsSnapshot, NoSnapshotOK DEF DocInit, NoSnapshotOK
<1>5. DocTypes
  <2>1. memory \in [Instances -> Snapshots] /\ calls \in [Calls -> CallTypes] /\ file \in Snapshots
    BY <1>1, EmptyIsSnapshot DEF DocInit, Instances
  <2>2. now \in 0 .. MaxNow /\ serial \in BOOLEAN
    BY DocConstants DEF DocConstants, DocInit
  <2> QED
    BY <1>1, <1>2, <1>4, <2>1, <2>2 DEF DocTypes, CallHasData, TornByWriter
<1>6. DocKeeps
  BY <1>1, <1>2, <1>3, <1>4, EmptyIsSnapshot
  DEF DocKeeps, AloneIsAlone, Going, Ongoing, IsWrittenAlone, PutIsEverywhere, KeptPut,
      LeaseIsEverywhere, KeptLease, Granted, LeasesAreDrawn, LeaseIsDrawn
<1>7. SerialHolds
  BY <1>1, <1>2 DEF SerialHolds, Going, Ongoing
<1> QED
  BY <1>5, <1>6, <1>7 DEF DocInv

LEMMA TickKeeps == DocInv /\ DocTick => DocInv'
<1> SUFFICES ASSUME DocInv, DocTick PROVE DocInv'
  OBVIOUS
<1>1. /\ UNCHANGED <<serial, file, memory, calls>> /\ now \in Nat /\ now' \in Nat /\ now <= now'
      /\ now' \in 0 .. MaxNow
  BY DocConstants DEF DocConstants, DocTick, DocInv, DocTypes
<1>2. DocTypes'
  BY <1>1 DEF DocInv, DocTypes, CallHasData, TornByWriter
<1>3. AloneIsAlone' /\ \A c \in Calls : IsWrittenAlone(c)' /\ PutIsEverywhere(c)'
  BY <1>1
  DEF DocInv, DocKeeps, AloneIsAlone, Going, IsWrittenAlone, PutIsEverywhere, KeptPut, HasPut
<1>4. LeasesAreDrawn'
  <2>1. ASSUME NEW s \in Snapshots, LeaseIsDrawn(s) PROVE DrawnNext(s)
    BY <1>1, <2>1, DrawnStays
  <2>2. \A c \in Calls : Granted(c)' <=> Granted(c)
    BY <1>1 DEF Granted
  <2>3. \A c \in Calls : /\ calls[c].at = "read" => calls[c].seen \in Snapshots
                         /\ calls[c].at = "writing" => calls[c].out \in Snapshots
                         /\ Granted(c) => calls[c].out \in Snapshots
    BY DEF DocInv, DocTypes, CallHasData, DocKeeps, IsWrittenAlone, Granted
  <2> QED
    BY <1>1, <2>1, <2>2, <2>3, LeasesStayDrawn DEF DocInv, DocTypes, DocKeeps, LeasesAreDrawn
<1>5. ASSUME NEW c \in Calls PROVE LeaseIsEverywhere(c)'
  <2>1. KeptLease(c)' => KeptLease(c)
    <3>1. Granted(c)' => Granted(c) /\ calls[c].out.lease.until \in Nat
      BY <1>1
      DEF Granted, DocInv, DocKeeps, IsWrittenAlone, Snapshots, Leases
    <3> QED
      BY <1>1, <3>1 DEF KeptLease, NoRelease
  <2> QED
    BY <1>1, <2>1 DEF DocInv, DocKeeps, LeaseIsEverywhere, HasLease
<1>6. SerialHolds'
  <2>1. ASSUME NEW s, NEW t, Follows(s, t) PROVE Follows(s, t)'
    BY <1>1, <2>1 DEF Follows
  <2>2. \A c \in Calls :
           /\ calls'[c].at = "making" /\ Follows(calls[c].seen, memory[InstanceOf[c]]) =>
                 Follows(calls[c].seen, memory[InstanceOf[c]])'
           /\ calls'[c].at = "writing" /\ Follows(calls[c].seen, calls[c].out) =>
                 Follows(calls[c].seen, calls[c].out)'
    BY <1>1 DEF Follows
  <2> QED
    BY <1>1, <2>2 DEF DocInv, SerialHolds, Going
<1> QED
  BY <1>2, <1>3, <1>4, <1>5, <1>6 DEF DocInv, DocKeeps

LEMMA BecomesIs ==
    ASSUME DocTypes, NEW c \in Calls, NEW next, CallBecomes(c, next)
    PROVE  /\ calls' \in [Calls -> CallTypes] /\ calls'[c] = next
           /\ \A d \in Calls : d # c => calls'[d] = calls[d]
           /\ \A d \in Calls : /\ calls'[d].kind = calls[d].kind /\ calls'[d].arg = calls[d].arg
                               /\ calls'[d].alone = calls[d].alone
BY DEF DocTypes, CallBecomes

\* The snapshots that a drawn lease is in.
LEMMA SnapshotsAre ==
    ASSUME DocInv
    PROVE  /\ file # Torn => file \in Snapshots
           /\ \A c \in Calls : InstanceOf[c] \in Instances /\ memory[InstanceOf[c]] \in Snapshots
           /\ \A i \in Instances : memory[i] \in Snapshots
           /\ \A c \in Calls :
                 /\ calls[c].at \in {"read", "making", "writing", "tore"} => calls[c].seen \in Snapshots
                 /\ calls[c].at = "writing" \/ Granted(c) => calls[c].out \in Snapshots
                 /\ Granted(c) => calls[c].out.lease # Absent
BY DEF DocInv, DocTypes, CallHasData, DocKeeps, IsWrittenAlone, Granted, Instances

LEMMA DieKeeps == ASSUME DocInv, NEW c \in Calls, Die(c) PROVE DocInv'
<1> USE DEF Going, Ongoing
<1> DEFINE at == IF calls[c].at = "writing" THEN "tore" ELSE "died"
           next == [calls[c] EXCEPT !.at = at]
<1>1. calls[c] \in CallTypes /\ at \in {"tore", "died"} /\ (at = "tore" <=> calls[c].at = "writing")
  BY DEF DocInv, DocTypes
<1>2. calls' = [calls EXCEPT ![c] = next]
  BY DEF Die
<1> HIDE DEF at
<1>3. /\ next \in CallTypes /\ next.at = at /\ next.kind = calls[c].kind /\ next.arg = calls[c].arg
      /\ next.alone = calls[c].alone /\ next.seen = calls[c].seen /\ next.out = calls[c].out
  BY <1>1 DEF CallTypes, DocPlaces
<1> HIDE DEF next
<1>4. CallBecomes(c, next)
  BY <1>2, <1>3 DEF CallBecomes
<1>5. /\ calls' \in [Calls -> CallTypes] /\ calls'[c] = next
      /\ \A d \in Calls : d # c => calls'[d] = calls[d]
      /\ \A d \in Calls : /\ calls'[d].kind = calls[d].kind /\ calls'[d].arg = calls[d].arg
                          /\ calls'[d].alone = calls[d].alone
      /\ \A d \in Calls : calls'[d].seen = calls[d].seen /\ calls'[d].out = calls[d].out
      /\ \A d \in Calls : calls'[d].at \in {"tore", "died"} \/ calls'[d].at = calls[d].at
      /\ UNCHANGED <<serial, now, file, memory>> /\ now \in Nat
  <2>1. UNCHANGED <<serial, now, file, memory>> /\ now \in Nat
    BY DocConstants DEF DocConstants, Die, DocInv, DocTypes
  <2> QED
    BY <1>1, <1>3, <1>4, <2>1, BecomesIs DEF DocInv
<1>6. DocTypes'
  <2>1. ASSUME NEW d \in Calls PROVE CallHasData(d)'
    BY <1>1, <1>3, <1>5 DEF DocInv, DocTypes, CallHasData
  <2>2. TornByWriter'
    <3>1. SUFFICES ASSUME file = Torn PROVE \E d \in Calls : calls'[d].at \in {"writing", "tore"}
      BY <1>5 DEF TornByWriter
    <3>2. PICK d \in Calls : calls[d].at \in {"writing", "tore"}
      BY <3>1 DEF DocInv, DocTypes, TornByWriter
    <3>3. d = c => calls[c].at = "writing"
      BY <3>2 DEF Die
    <3>4. calls'[d].at \in {"writing", "tore"}
      BY <1>1, <1>3, <1>5, <3>2, <3>3
    <3> QED
      BY <3>4
  <2> QED
    BY <1>5, <2>1, <2>2 DEF DocInv, DocTypes
<1>7. AloneIsAlone'
  BY <1>5 DEF DocInv, DocKeeps, AloneIsAlone
<1>8. ASSUME NEW d \in Calls PROVE IsWrittenAlone(d)' /\ PutIsEverywhere(d)'
  BY <1>5 DEF DocInv, DocKeeps, IsWrittenAlone, PutIsEverywhere, KeptPut, HasPut
<1>9. \A d \in Calls : Granted(d)' => Granted(d)
  BY <1>5 DEF Granted
<1>10. LeasesAreDrawn'
  <2>1. ASSUME NEW s \in Snapshots, LeaseIsDrawn(s) PROVE DrawnNext(s)
    <3>1. \A d \in Calls : calls[d].at \notin {"idle", "reading", "read"} =>
              calls'[d].at \notin {"idle", "reading", "read"}
      BY <1>5
    <3> QED
      BY <1>5, <2>1, <3>1, DrawnStays
  <2> QED
    BY <1>5, <1>9, <2>1, SnapshotsAre, LeasesStayDrawn DEF DocInv, DocTypes, DocKeeps, LeasesAreDrawn
<1>11. ASSUME NEW d \in Calls PROVE LeaseIsEverywhere(d)'
  <2>1. KeptLease(d)' => KeptLease(d)
    BY <1>1, <1>3, <1>5, <1>9 DEF KeptLease, NoRelease
  <2> QED
    BY <1>5, <2>1 DEF DocInv, DocKeeps, LeaseIsEverywhere, HasLease
<1>12. SerialHolds'
  <2>1. ASSUME NEW s, NEW t, Follows(s, t) PROVE Follows(s, t)'
    BY <1>5, <2>1 DEF Follows
  <2> QED
    BY <1>1, <1>3, <1>5 DEF DocInv, SerialHolds, Follows
<1> QED
  BY <1>6, <1>7, <1>8, <1>10, <1>11, <1>12 DEF DocInv, DocKeeps

LEMMA ReadKeeps == ASSUME DocInv, NEW c \in Calls, Read(c) PROVE DocInv'
<1> USE DEF Going, Ongoing
<1> DEFINE at == IF file = Torn THEN "threw" ELSE "read"
           moved == [calls[c] EXCEPT !.at = at]
           next == [moved EXCEPT !.seen = file]
<1>1. /\ calls[c] \in CallTypes /\ at \in {"threw", "read"} /\ (at = "read" <=> file # Torn)
      /\ calls[c].at = "reading" /\ file \in Snapshots \cup {Torn}
  BY DEF DocInv, DocTypes, Read
<1>2. calls' = [calls EXCEPT ![c] = next]
  BY DEF Read
<1> HIDE DEF at
<1>3. /\ moved \in CallTypes /\ moved.at = at /\ moved.kind = calls[c].kind /\ moved.arg = calls[c].arg
      /\ moved.alone = calls[c].alone /\ moved.out = calls[c].out
  BY <1>1 DEF CallTypes, DocPlaces
<1> HIDE DEF moved
<1>4. /\ next \in CallTypes /\ next.at = at /\ next.kind = calls[c].kind /\ next.arg = calls[c].arg
      /\ next.alone = calls[c].alone /\ next.seen = file /\ next.out = calls[c].out
  BY <1>1, <1>3 DEF CallTypes
<1> HIDE DEF next
<1>5. CallBecomes(c, next)
  BY <1>2, <1>4 DEF CallBecomes
<1>6. /\ calls' \in [Calls -> CallTypes] /\ calls'[c] = next
      /\ \A d \in Calls : d # c => calls'[d] = calls[d]
      /\ \A d \in Calls : /\ calls'[d].kind = calls[d].kind /\ calls'[d].arg = calls[d].arg
                          /\ calls'[d].alone = calls[d].alone
      /\ UNCHANGED <<serial, now, file, memory>> /\ now \in Nat
  <2>1. UNCHANGED <<serial, now, file, memory>> /\ now \in Nat
    BY DocConstants DEF DocConstants, Read, DocInv, DocTypes
  <2> QED
    BY <1>5, <2>1, BecomesIs DEF DocInv
<1>7. DocTypes'
  <2>1. ASSUME NEW d \in Calls PROVE CallHasData(d)'
    BY <1>1, <1>4, <1>6 DEF DocInv, DocTypes, CallHasData
  <2>2. TornByWriter'
    BY <1>1, <1>4, <1>6 DEF DocInv, DocTypes, TornByWriter
  <2> QED
    BY <1>6, <2>1, <2>2 DEF DocInv, DocTypes
<1>8. AloneIsAlone'
  BY <1>1, <1>4, <1>6 DEF DocInv, DocKeeps, AloneIsAlone
<1>9. ASSUME NEW d \in Calls PROVE IsWrittenAlone(d)' /\ PutIsEverywhere(d)'
  <2>1. IsWrittenAlone(d)'
    BY <1>1, <1>4, <1>6 DEF DocInv, DocKeeps, IsWrittenAlone
  <2>2. KeptPut(d)' => KeptPut(d) /\ d # c
    BY <1>1, <1>4, <1>6 DEF KeptPut
  <2>3. PutIsEverywhere(d)'
    BY <1>1, <1>4, <1>6, <2>2 DEF DocInv, DocKeeps, PutIsEverywhere, HasPut
  <2> QED
    BY <2>1, <2>3
<1>10. \A d \in Calls : Granted(d)' => Granted(d) /\ d # c
  BY <1>1, <1>4, <1>6 DEF Granted
<1>11. LeasesAreDrawn'
  <2>1. ASSUME NEW s \in Snapshots, LeaseIsDrawn(s) PROVE DrawnNext(s)
    <3>1. \A d \in Calls : calls[d].at \notin {"idle", "reading", "read"} =>
              calls'[d].at \notin {"idle", "reading", "read"}
      BY <1>1, <1>6
    <3> QED
      BY <1>6, <2>1, <3>1, DrawnStays
  <2> QED
    BY <1>1, <1>4, <1>6, <1>10, <2>1, SnapshotsAre, LeasesStayDrawn
    DEF DocInv, DocTypes, DocKeeps, LeasesAreDrawn
<1>12. ASSUME NEW d \in Calls PROVE LeaseIsEverywhere(d)'
  <2>1. KeptLease(d)' => KeptLease(d) /\ d # c
    BY <1>1, <1>4, <1>6, <1>10 DEF KeptLease, NoRelease
  <2> QED
    BY <1>1, <1>4, <1>6, <2>1 DEF DocInv, DocKeeps, LeaseIsEverywhere, HasLease
<1>13. SerialHolds'
  BY <1>1, <1>4, <1>6 DEF DocInv, SerialHolds, Follows
<1> QED
  BY <1>7, <1>8, <1>9, <1>11, <1>12, <1>13 DEF DocInv, DocKeeps

LEMMA StartWriteKeeps == ASSUME DocInv, NEW c \in Calls, StartWrite(c) PROVE DocInv'
<1> USE DEF Going, Ongoing
<1> DEFINE out == memory[InstanceOf[c]]
           moved == [calls[c] EXCEPT !.at = "writing"]
           next == [moved EXCEPT !.out = out]
<1>1. /\ calls[c] \in CallTypes /\ out \in Snapshots /\ calls[c].at = "making"
      /\ calls[c].seen \in Snapshots /\ InstanceOf[c] \in Instances
  BY DEF DocInv, DocTypes, CallHasData, StartWrite, Instances
<1>2. calls' = [calls EXCEPT ![c] = next]
  BY DEF StartWrite
<1>o. out = memory[InstanceOf[c]]
  OBVIOUS
<1> HIDE DEF out
<1>3. /\ moved \in CallTypes /\ moved.at = "writing" /\ moved.kind = calls[c].kind /\ moved.arg = calls[c].arg
      /\ moved.alone = calls[c].alone /\ moved.seen = calls[c].seen
  BY <1>1 DEF CallTypes, DocPlaces
<1> HIDE DEF moved
<1>4. /\ next \in CallTypes /\ next.at = "writing" /\ next.kind = calls[c].kind /\ next.arg = calls[c].arg
      /\ next.alone = calls[c].alone /\ next.out = out /\ next.seen = calls[c].seen
  BY <1>1, <1>3 DEF CallTypes
<1> HIDE DEF next
<1>5. CallBecomes(c, next)
  BY <1>2, <1>4 DEF CallBecomes
<1>6. /\ calls' \in [Calls -> CallTypes] /\ calls'[c] = next
      /\ \A d \in Calls : d # c => calls'[d] = calls[d]
      /\ \A d \in Calls : /\ calls'[d].kind = calls[d].kind /\ calls'[d].arg = calls[d].arg
                          /\ calls'[d].alone = calls[d].alone
      /\ UNCHANGED <<serial, now, memory>> /\ file' = Torn /\ now \in Nat
  <2>1. UNCHANGED <<serial, now, memory>> /\ file' = Torn /\ now \in Nat
    BY DocConstants DEF DocConstants, StartWrite, DocInv, DocTypes
  <2> QED
    BY <1>5, <2>1, BecomesIs DEF DocInv
<1>7. DocTypes'
  <2>1. ASSUME NEW d \in Calls PROVE CallHasData(d)'
    BY <1>1, <1>4, <1>6 DEF DocInv, DocTypes, CallHasData
  <2>2. TornByWriter'
    BY <1>4, <1>6 DEF TornByWriter
  <2> QED
    BY <1>6, <2>1, <2>2 DEF DocInv, DocTypes
<1>8. AloneIsAlone'
  BY <1>1, <1>4, <1>6 DEF DocInv, DocKeeps, AloneIsAlone
<1>9. ASSUME NEW d \in Calls PROVE IsWrittenAlone(d)' /\ PutIsEverywhere(d)'
  <2>1. IsWrittenAlone(d)'
    BY <1>1, <1>o, <1>4, <1>6 DEF DocInv, DocKeeps, IsWrittenAlone
  <2>2. KeptPut(d)' => KeptPut(d) /\ d # c
    BY <1>1, <1>4, <1>6 DEF KeptPut
  <2>3. PutIsEverywhere(d)'
    BY <1>1, <1>o, <1>4, <1>6, <2>2 DEF DocInv, DocKeeps, PutIsEverywhere, HasPut
  <2> QED
    BY <2>1, <2>3
<1>10. \A d \in Calls : Granted(d)' => Granted(d) /\ d # c
  BY <1>1, <1>4, <1>6 DEF Granted
<1>11. LeasesAreDrawn'
  <2>1. ASSUME NEW s \in Snapshots, LeaseIsDrawn(s) PROVE DrawnNext(s)
    <3>1. \A d \in Calls : calls[d].at \notin {"idle", "reading", "read"} =>
              calls'[d].at \notin {"idle", "reading", "read"}
      BY <1>1, <1>4, <1>6
    <3> QED
      BY <1>6, <2>1, <3>1, DrawnStays
  <2> QED
    BY <1>1, <1>o, <1>4, <1>6, <1>10, <2>1, SnapshotsAre, LeasesStayDrawn
    DEF DocInv, DocTypes, DocKeeps, LeasesAreDrawn
<1>12. ASSUME NEW d \in Calls PROVE LeaseIsEverywhere(d)'
  <2>1. KeptLease(d)' => KeptLease(d) /\ d # c
    BY <1>1, <1>4, <1>6, <1>10 DEF KeptLease, NoRelease
  <2> QED
    BY <1>1, <1>o, <1>4, <1>6, <2>1 DEF DocInv, DocKeeps, LeaseIsEverywhere, HasLease
<1>13. SerialHolds'
  <2>1. file # Torn \/ ~serial
    BY <1>1, NoSnapshotOK DEF NoSnapshotOK, DocInv, SerialHolds
  <2>2. serial => Follows(calls[c].seen, out)
    BY <1>1, <1>o DEF DocInv, SerialHolds
  <2>3. serial => \A d \in Calls : d # c => ~Going(d) /\ calls[d].at # "tore"
    BY <1>1, <2>1 DEF DocInv, SerialHolds
  <2>4. serial => \A d \in Calls : d # c => calls'[d].at \notin {"reading", "read", "making", "writing", "tore"}
    BY <1>6, <2>3
  <2>5. serial' = serial /\ calls'[c].at = "writing" /\ file' = Torn
        /\ calls'[c].seen = calls[c].seen /\ calls'[c].out = out
    BY <1>4, <1>6
  <2>7. Follows(calls[c].seen, out) => Follows(calls[c].seen, calls[c].out)'
    BY <1>6, <2>5 DEF Follows
  <2> QED
    BY <2>2, <2>4, <2>5, <2>7 DEF SerialHolds
<1> QED
  BY <1>7, <1>8, <1>9, <1>11, <1>12, <1>13 DEF DocInv, DocKeeps

LEMMA EndWriteKeeps == ASSUME DocInv, NEW c \in Calls, EndWrite(c) PROVE DocInv'
<1> USE DEF Going, Ongoing
<1> DEFINE next == [calls[c] EXCEPT !.at = "done"]
<1>1. /\ calls[c] \in CallTypes /\ calls[c].at = "writing" /\ calls[c].out \in Snapshots
  BY DEF DocInv, DocTypes, CallHasData, EndWrite
<1>2. calls' = [calls EXCEPT ![c] = next]
  BY DEF EndWrite
<1>3. /\ next \in CallTypes /\ next.at = "done" /\ next.kind = calls[c].kind /\ next.arg = calls[c].arg
      /\ next.alone = calls[c].alone /\ next.seen = calls[c].seen /\ next.out = calls[c].out
  BY <1>1 DEF CallTypes, DocPlaces
<1> HIDE DEF next
<1>4. CallBecomes(c, next)
  BY <1>2, <1>3 DEF CallBecomes
<1>5. /\ calls' \in [Calls -> CallTypes] /\ calls'[c] = next
      /\ \A d \in Calls : d # c => calls'[d] = calls[d]
      /\ \A d \in Calls : /\ calls'[d].kind = calls[d].kind /\ calls'[d].arg = calls[d].arg
                          /\ calls'[d].alone = calls[d].alone
      /\ \A d \in Calls : calls'[d].seen = calls[d].seen /\ calls'[d].out = calls[d].out
      /\ UNCHANGED <<serial, now, memory>> /\ file' = calls[c].out /\ file' # Torn /\ now \in Nat
  <2>1. UNCHANGED <<serial, now, memory>> /\ file' = calls[c].out /\ file' # Torn /\ now \in Nat
    BY <1>1, DocConstants, NoSnapshotOK DEF DocConstants, NoSnapshotOK, EndWrite, DocInv, DocTypes
  <2> QED
    BY <1>3, <1>4, <2>1, BecomesIs DEF DocInv
<1>6. DocTypes'
  <2>1. ASSUME NEW d \in Calls PROVE CallHasData(d)'
    BY <1>3, <1>5 DEF DocInv, DocTypes, CallHasData
  <2>2. TornByWriter'
    BY <1>5 DEF TornByWriter
  <2> QED
    BY <1>1, <1>5, <2>1, <2>2 DEF DocInv, DocTypes
<1>7. AloneIsAlone'
  BY <1>3, <1>5 DEF DocInv, DocKeeps, AloneIsAlone
<1>8. calls[c].alone => \A d \in Calls : d # c => ~Going(d)
  BY <1>1 DEF DocInv, DocKeeps, AloneIsAlone
<1>9. ASSUME NEW d \in Calls PROVE IsWrittenAlone(d)' /\ PutIsEverywhere(d)'
  <2>1. IsWrittenAlone(d)'
    BY <1>1, <1>3, <1>5 DEF DocInv, DocKeeps, IsWrittenAlone
  <2>2. CASE d # c
    <3>1. KeptPut(d)' => KeptPut(d)
      BY <1>5, <2>2 DEF KeptPut
    <3>2. PutIsEverywhere(d)'
      BY <1>1, <1>3, <1>5, <2>2, <3>1 DEF DocInv, DocKeeps, PutIsEverywhere, HasPut
    <3> QED
      BY <2>1, <3>2
  <2>3. CASE d = c
    <3>1. SUFFICES ASSUME KeptPut(c)' PROVE PutIsEverywhere(c)'
      BY <2>1, <2>3 DEF PutIsEverywhere
    <3>2. calls[c].kind = "put" /\ calls[c].alone
      BY <1>5, <3>1 DEF KeptPut
    <3>3. calls[c].out.doc.rev \in calls[c].out.feed
      BY <1>1, <3>2 DEF DocInv, DocKeeps, IsWrittenAlone, Snapshots
    <3>4. \A e \in Calls : calls'[e].at \notin {"read", "making", "writing"}
      BY <1>3, <1>5, <1>8, <3>2
    <3> QED
      BY <1>5, <3>3, <3>4 DEF PutIsEverywhere, HasPut
  <2> QED
    BY <2>2, <2>3
<1>10. \A d \in Calls : d # c /\ Granted(d)' => Granted(d)
  BY <1>5 DEF Granted
<1>11. LeasesAreDrawn'
  <2>1. ASSUME NEW s \in Snapshots, LeaseIsDrawn(s) PROVE DrawnNext(s)
    <3>1. \A d \in Calls : calls[d].at \notin {"idle", "reading", "read"} =>
              calls'[d].at \notin {"idle", "reading", "read"}
      BY <1>3, <1>5
    <3> QED
      BY <1>5, <2>1, <3>1, DrawnStays
  <2>2. DrawnNext(calls[c].out)
    BY <1>1, <2>1 DEF DocInv, DocKeeps, LeasesAreDrawn
  <2> QED
    BY <1>3, <1>5, <1>10, <2>1, <2>2, SnapshotsAre, LeasesStayDrawn
    DEF DocInv, DocTypes, DocKeeps, LeasesAreDrawn
<1>12. ASSUME NEW d \in Calls PROVE LeaseIsEverywhere(d)'
  <2>1. NoRelease' => NoRelease
    BY <1>1, <1>3, <1>5 DEF NoRelease
  <2>2. CASE d # c
    <3>1. KeptLease(d)' => KeptLease(d)
      BY <1>5, <1>10, <2>1, <2>2 DEF KeptLease
    <3> QED
      BY <1>1, <1>3, <1>5, <2>2, <3>1 DEF DocInv, DocKeeps, LeaseIsEverywhere, HasLease
  <2>3. CASE d = c
    <3>1. SUFFICES ASSUME KeptLease(c)' PROVE LeaseIsEverywhere(c)'
      BY <2>3 DEF LeaseIsEverywhere
    <3>2. calls[c].kind = "acquire" /\ calls[c].alone /\ calls[c].out.lease.token = c
      BY <1>5, <3>1 DEF KeptLease, Granted
    <3>3. calls[c].out.lease # Absent
      BY <1>1, <3>2 DEF DocInv, DocKeeps, IsWrittenAlone
    <3>4. calls[c].out.lease.owner = calls[c].arg /\ calls[c].out.lease.until \in Nat
      BY <1>1, <3>2, <3>3 DEF DocInv, DocKeeps, LeasesAreDrawn, LeaseIsDrawn, Snapshots, Leases
    <3>5. \A e \in Calls : calls'[e].at \notin {"read", "making", "writing"}
      BY <1>3, <1>5, <1>8, <3>2
    <3> QED
      BY <1>5, <3>3, <3>4, <3>5 DEF LeaseIsEverywhere, HasLease
  <2> QED
    BY <2>2, <2>3
<1>13. SerialHolds'
  <2>1. serial => \A d \in Calls : d # c => ~Going(d) /\ calls[d].at # "tore"
    BY <1>1 DEF DocInv, SerialHolds
  <2>2. serial => \A d \in Calls : calls'[d].at \notin {"reading", "read", "making", "writing", "tore"}
    BY <1>3, <1>5, <2>1
  <2> QED
    BY <1>5, <2>2 DEF SerialHolds
<1> QED
  BY <1>6, <1>7, <1>9, <1>11, <1>12, <1>13 DEF DocInv, DocKeeps

\* The call c makes of what it read the snapshot t of its instance.
AppliesTo(c, t, at) ==
    LET s == calls[c].seen IN
    /\ calls[c].at = "read" /\ s \in Snapshots /\ t \in Snapshots /\ at \in {"refused", "making", "done"}
    /\ memory' = [memory EXCEPT ![InstanceOf[c]] = t]
    /\ CallBecomes(c, [calls[c] EXCEPT !.at = at])
    /\ UNCHANGED <<serial, now, file>>
    /\ s.feed \subseteq t.feed /\ (at = "making" => Follows(s, t))
    /\ calls[c].kind = "put" => at # "done" /\ (at = "making" => t.doc # Absent)
    /\ calls[c].kind = "acquire" => at # "done" /\ (at = "making" => t.lease # Absent)
    /\ \/ t.lease = s.lease
       \/ /\ at = "making" /\ calls[c].kind = "acquire" /\ ~Abs!Refused(s, calls[c].arg, now)
          /\ t.lease # Absent /\ t.lease.token = c /\ t.lease.owner = calls[c].arg
          /\ t.lease.until = now + Ttl
       \/ calls[c].kind = "release" /\ t.lease = Absent

LEMMA ApplyIs ==
    ASSUME DocInv, NEW c \in Calls, Apply(c)
    PROVE  \E t \in Snapshots, at \in {"refused", "making", "done"} : AppliesTo(c, t, at)
<1> DEFINE s == calls[c].seen
<1>1. calls[c] \in CallTypes /\ calls[c].at = "read" /\ s \in Snapshots /\ DocTypes
      /\ UNCHANGED <<serial, now, file>>
  BY DEF DocInv, DocTypes, CallHasData, Apply
<1>2. ASSUME NEW at \in {"refused", "making", "done"},
             calls' = [calls EXCEPT ![c] = [calls[c] EXCEPT !.at = at]]
      PROVE  CallBecomes(c, [calls[c] EXCEPT !.at = at])
  <2> DEFINE next == [calls[c] EXCEPT !.at = at]
  <2>1. /\ next \in CallTypes /\ next.kind = calls[c].kind /\ next.arg = calls[c].arg
        /\ next.alone = calls[c].alone
    <3>1. at \in DocPlaces
      BY <1>2 DEF DocPlaces, Ongoing
    <3> QED
      BY <1>1, <3>1 DEF CallTypes
  <2>2. calls' = [calls EXCEPT ![c] = next]
    BY <1>2
  <2> HIDE DEF next
  <2>3. CallBecomes(c, next)
    BY <2>1, <2>2 DEF CallBecomes
  <2> QED
    BY <2>3 DEF next
<1>3. CASE Throws(c, s)
  <2>1. /\ memory' = [memory EXCEPT ![InstanceOf[c]] = s]
        /\ calls' = [calls EXCEPT ![c] = [calls[c] EXCEPT !.at = "refused"]]
    BY <1>3 DEF Apply
  <2>2. AppliesTo(c, s, "refused")
    BY <1>1, <1>2, <2>1 DEF AppliesTo
  <2> QED
    BY <1>1, <2>2
<1>4. CASE ~Throws(c, s)
  <2> DEFINE t == Changed(c, s)
             at == IF Writes(c, s) THEN "making" ELSE "done"
  <2>1. /\ memory' = [memory EXCEPT ![InstanceOf[c]] = t]
        /\ calls' = [calls EXCEPT ![c] = [calls[c] EXCEPT !.at = at]]
    BY <1>4 DEF Apply
  <2>2. /\ at \in {"making", "done"}
        /\ calls[c].kind \in {"put", "delete", "acquire"} => at = "making"
    BY DEF Writes
  <2>3. /\ t \in Snapshots /\ s.feed \subseteq t.feed /\ Follows(s, t)
        /\ calls[c].kind = "put" => t.doc # Absent
        /\ calls[c].kind = "acquire" => t.lease # Absent
        /\ \/ t.lease = s.lease
           \/ /\ calls[c].kind = "acquire" /\ ~Abs!Refused(s, calls[c].arg, now)
              /\ t.lease # Absent /\ t.lease.token = c /\ t.lease.owner = calls[c].arg
              /\ t.lease.until = now + Ttl
           \/ calls[c].kind = "release" /\ t.lease = Absent
    BY <1>1, <1>4, ChangedIs
  <2> HIDE DEF t, at
  <2>4. AppliesTo(c, t, at)
    BY <1>1, <1>2, <2>1, <2>2, <2>3 DEF AppliesTo
  <2> QED
    BY <2>2, <2>3, <2>4
<1> QED
  BY <1>3, <1>4

LEMMA ApplyKeeps == ASSUME DocInv, NEW c \in Calls, Apply(c) PROVE DocInv'
<1> USE DEF Going, Ongoing
<1>1. PICK t \in Snapshots, at \in {"refused", "making", "done"} : AppliesTo(c, t, at)
  BY ApplyIs
<1> DEFINE s == calls[c].seen
           next == [calls[c] EXCEPT !.at = at]
<1>2. /\ calls[c] \in CallTypes /\ calls[c].at = "read" /\ s \in Snapshots
      /\ InstanceOf[c] \in Instances /\ CallBecomes(c, next)
      /\ memory' = [memory EXCEPT ![InstanceOf[c]] = t] /\ UNCHANGED <<serial, now, file>>
      /\ now \in Nat
  BY <1>1, DocConstants DEF DocConstants, DocInv, DocTypes, Instances, AppliesTo
<1>3. /\ next.at = at /\ next.seen = calls[c].seen /\ next.out = calls[c].out
  BY <1>2 DEF CallTypes
<1>4. /\ s.feed \subseteq t.feed /\ (at = "making" => Follows(s, t))
      /\ calls[c].kind = "put" => at # "done" /\ (at = "making" => t.doc # Absent)
      /\ calls[c].kind = "acquire" => at # "done" /\ (at = "making" => t.lease # Absent)
      /\ \/ t.lease = s.lease
         \/ /\ at = "making" /\ calls[c].kind = "acquire" /\ ~Abs!Refused(s, calls[c].arg, now)
            /\ t.lease # Absent /\ t.lease.token = c /\ t.lease.owner = calls[c].arg
            /\ t.lease.until = now + Ttl
         \/ calls[c].kind = "release" /\ t.lease = Absent
  BY <1>1 DEF AppliesTo
<1> HIDE DEF next
<1>5. /\ calls' \in [Calls -> CallTypes] /\ calls'[c].at = at
      /\ \A d \in Calls : d # c => calls'[d] = calls[d]
      /\ \A d \in Calls : /\ calls'[d].kind = calls[d].kind /\ calls'[d].arg = calls[d].arg
                          /\ calls'[d].alone = calls[d].alone
                          /\ calls'[d].seen = calls[d].seen /\ calls'[d].out = calls[d].out
  BY <1>2, <1>3, BecomesIs DEF DocInv
<1>6. /\ memory' \in [Instances -> Snapshots] /\ memory'[InstanceOf[c]] = t
      /\ \A i \in Instances : memory'[i] = t \/ memory'[i] = memory[i]
      /\ \A d \in Calls : InstanceOf[d] \in Instances
      /\ \A d \in Calls : memory'[InstanceOf[d]] = t \/ memory'[InstanceOf[d]] = memory[InstanceOf[d]]
  BY <1>2 DEF DocInv, DocTypes, Instances
<1>7. DocTypes'
  <2>1. ASSUME NEW d \in Calls PROVE CallHasData(d)'
    BY <1>2, <1>5 DEF DocInv, DocTypes, CallHasData
  <2>2. TornByWriter'
    BY <1>2, <1>5 DEF DocInv, DocTypes, TornByWriter
  <2> QED
    BY <1>2, <1>5, <1>6, <2>1, <2>2 DEF DocInv, DocTypes
<1>8. AloneIsAlone'
  BY <1>2, <1>5 DEF DocInv, DocKeeps, AloneIsAlone
<1>9. ASSUME NEW d \in Calls PROVE IsWrittenAlone(d)' /\ PutIsEverywhere(d)'
  <2>1. IsWrittenAlone(d)'
    <3>1. CASE d = c
      BY <1>4, <1>5, <1>6, <3>1 DEF IsWrittenAlone
    <3>2. CASE d # c
      <4>1. ~(calls[d].at = "making" /\ calls[d].alone)
        BY <1>2, <3>2 DEF DocInv, DocKeeps, AloneIsAlone
      <4> QED
        BY <1>5, <3>2, <4>1 DEF DocInv, DocKeeps, IsWrittenAlone
    <3> QED
      BY <3>1, <3>2
  <2>2. SUFFICES ASSUME KeptPut(d)' PROVE PutIsEverywhere(d)'
    BY <2>1 DEF PutIsEverywhere
  <2>3. KeptPut(d) /\ d # c
    BY <1>4, <1>5, <2>2 DEF KeptPut
  <2>4. HasPut(d, s) /\ HasPut(d, t)
    BY <1>2, <1>4, <2>3 DEF DocInv, DocKeeps, PutIsEverywhere, HasPut
  <2>5. HasPut(d, t)'
    BY <1>5, <2>4 DEF HasPut
  <2>6. ASSUME NEW e \in Calls, calls'[e].at = "making" PROVE HasPut(d, memory[InstanceOf[e]])'
    <3>1. CASE e = c
      BY <1>6, <2>5, <3>1 DEF HasPut
    <3>2. CASE e # c
      <4>1. HasPut(d, memory[InstanceOf[e]])
        BY <1>5, <2>3, <2>6, <3>2 DEF DocInv, DocKeeps, PutIsEverywhere
      <4> QED
        BY <1>5, <1>6, <2>5, <4>1 DEF HasPut
    <3> QED
      BY <3>1, <3>2
  <2> QED
    BY <1>2, <1>4, <1>5, <2>3, <2>6 DEF DocInv, DocKeeps, PutIsEverywhere, HasPut
<1>10. \A d \in Calls : Granted(d)' => Granted(d) /\ d # c
  BY <1>4, <1>5 DEF Granted
<1>11. LeasesAreDrawn'
  <2>1. ASSUME NEW x \in Snapshots, LeaseIsDrawn(x) PROVE DrawnNext(x)
    <3>1. \A d \in Calls : calls[d].at \notin {"idle", "reading", "read"} =>
              calls'[d].at \notin {"idle", "reading", "read"}
      BY <1>2, <1>5
    <3> QED
      BY <1>2, <1>5, <2>1, <3>1, DrawnStays
  <2>2. DrawnNext(s)
    BY <1>2, <2>1 DEF DocInv, DocKeeps, LeasesAreDrawn
  <2>3. DrawnNext(t)
    BY <1>2, <1>4, <1>5, <2>2, DocConstants DEF DocConstants, DrawnNext
  <2> QED
    BY <1>2, <1>5, <1>6, <1>10, <2>1, <2>3, SnapshotsAre, LeasesStayDrawn
    DEF DocInv, DocTypes, DocKeeps, LeasesAreDrawn
<1>12. ASSUME NEW d \in Calls PROVE LeaseIsEverywhere(d)'
  <2>1. SUFFICES ASSUME KeptLease(d)' PROVE LeaseIsEverywhere(d)'
    BY DEF LeaseIsEverywhere
  <2>2. KeptLease(d) /\ d # c /\ calls[c].kind # "release"
    BY <1>2, <1>4, <1>5, <1>10, <2>1 DEF KeptLease, NoRelease
  <2>3. HasLease(d, s)
    BY <1>2, <2>2 DEF DocInv, DocKeeps, LeaseIsEverywhere
  <2>4. HasLease(d, t)
    <3>1. CASE t.lease = s.lease
      BY <2>3, <3>1 DEF HasLease
    <3>2. CASE t.lease # s.lease
      <4>1. /\ ~Abs!Refused(s, calls[c].arg, now) /\ t.lease # Absent /\ t.lease.owner = calls[c].arg
            /\ t.lease.until = now + Ttl
        BY <1>4, <2>2, <3>2
      <4>2. s.lease # Absent /\ s.lease.until \in Nat
        BY <1>2, <2>3 DEF HasLease, Snapshots, Leases
      <4>3. /\ calls[d].out.lease # Absent /\ calls[d].out.lease.until \in Nat
            /\ LeaseIsDrawn(calls[d].out)
        <5>1. Granted(d) /\ calls[d].out \in Snapshots /\ calls[d].out.lease # Absent
          BY <2>2, SnapshotsAre DEF KeptLease
        <5> QED
          BY <5>1 DEF Snapshots, Leases, DocInv, DocKeeps, LeasesAreDrawn
      <4>4. calls[d].out.lease.until > now
        BY <2>2 DEF KeptLease
      <4>5. s.lease.owner = calls[c].arg
        BY <1>2, <2>3, <4>1, <4>2, <4>3, <4>4 DEF Abs!Refused, HasLease
      <4>6. calls[d].out.lease.until <= now + Ttl
        BY <4>3 DEF LeaseIsDrawn
      <4> QED
        BY <1>2, <2>3, <4>1, <4>3, <4>5, <4>6, DocConstants DEF DocConstants, HasLease
    <3> QED
      BY <3>1, <3>2
  <2>5. HasLease(d, t)'
    BY <1>5, <2>4 DEF HasLease
  <2>6. ASSUME NEW e \in Calls, calls'[e].at = "making" PROVE HasLease(d, memory[InstanceOf[e]])'
    <3>1. CASE e = c
      BY <1>6, <2>5, <3>1 DEF HasLease
    <3>2. CASE e # c
      <4>1. HasLease(d, memory[InstanceOf[e]])
        BY <1>5, <2>2, <2>6, <3>2 DEF DocInv, DocKeeps, LeaseIsEverywhere
      <4> QED
        BY <1>5, <1>6, <2>5, <4>1 DEF HasLease
    <3> QED
      BY <3>1, <3>2
  <2> QED
    BY <1>2, <1>5, <2>2, <2>6 DEF DocInv, DocKeeps, LeaseIsEverywhere, HasLease
<1>13. SerialHolds'
  <2>1. serial => \A d \in Calls : d # c => ~Going(d) /\ calls[d].at \notin {"writing", "tore"}
    BY <1>2, NoSnapshotOK DEF NoSnapshotOK, DocInv, SerialHolds
  <2>2. serial => \A d \in Calls : d # c =>
            calls'[d].at \notin {"reading", "read", "making", "writing", "tore"}
    BY <1>5, <2>1
  <2>3. serial => file = s
    BY <1>2 DEF DocInv, SerialHolds
  <2>4. at = "making" => Follows(calls[c].seen, memory[InstanceOf[c]])'
    BY <1>2, <1>4, <1>5, <1>6 DEF Follows
  <2>5. calls'[c].at \in {"refused", "making", "done"} /\ calls'[c].seen = s
        /\ UNCHANGED <<serial, file>>
    BY <1>2, <1>5
  <2> QED
    BY <1>5, <2>2, <2>3, <2>4, <2>5 DEF SerialHolds
<1> QED
  BY <1>7, <1>8, <1>9, <1>11, <1>12, <1>13 DEF DocInv, DocKeeps

LEMMA BeginKeeps == ASSUME DocInv, NEW c \in Calls, Begin(c) PROVE DocInv'
<1> USE DEF Going, Ongoing
<1> DEFINE nobody == \A x \in Calls : ~Going(x)
<1>k. PICK k \in DocKinds : \E a \in Arguments(k) :
          calls' = [d \in Calls |->
              IF d = c
              THEN [Idle EXCEPT !.at = "reading", !.kind = k, !.arg = a, !.alone = nobody]
              ELSE [calls[d] EXCEPT !.alone = @ /\ ~Going(d)]]
  BY DEF Begin
<1>1. PICK a \in Arguments(k) :
          calls' = [d \in Calls |->
              IF d = c
              THEN [Idle EXCEPT !.at = "reading", !.kind = k, !.arg = a, !.alone = nobody]
              ELSE [calls[d] EXCEPT !.alone = @ /\ ~Going(d)]]
  BY <1>k
<1>2. /\ calls[c].at = "idle" /\ (serial => nobody) /\ UNCHANGED <<serial, now, file, memory>>
      /\ now \in Nat /\ calls \in [Calls -> CallTypes]
  <2>1. serial => nobody
    BY Zenon DEF Begin
  <2>2. now \in Nat
    BY DocConstants DEF DocConstants, DocInv, DocTypes
  <2> HIDE DEF nobody
  <2> QED
    BY <2>1, <2>2, Zenon DEF Begin, DocInv, DocTypes
<1>3. /\ a \in Owners \cup Calls \cup Revisions \cup {Absent}
      /\ k = "acquire" => a \in Owners
  BY <1>1, ArgumentsAre DEF DocInv
<1> DEFINE next == [Idle EXCEPT !.at = "reading", !.kind = k, !.arg = a, !.alone = nobody]
<1>4. /\ next \in CallTypes /\ next.at = "reading" /\ next.kind = k /\ next.arg = a
      /\ next.alone = nobody
  <2>1. nobody \in BOOLEAN
    BY Zenon
  <2> HIDE DEF nobody
  <2> DEFINE first == [Idle EXCEPT !.at = "reading", !.kind = k, !.arg = a]
  <2>2. next = [first EXCEPT !.alone = nobody]
    OBVIOUS
  <2> HIDE DEF nobody, next
  <2>3. first \in CallTypes /\ first.at = "reading" /\ first.kind = k /\ first.arg = a
    <3>1. TRUE \in BOOLEAN
      OBVIOUS
    <3> QED
      BY <1>3, <3>1 DEF Idle, CallTypes, DocPlaces
  <2> HIDE DEF first
  <2> QED
    BY <2>1, <2>2, <2>3 DEF CallTypes
<1>5. ASSUME NEW d \in Calls, d # c
      PROVE  /\ calls'[d] \in CallTypes
             /\ calls'[d].at = calls[d].at /\ calls'[d].kind = calls[d].kind
             /\ calls'[d].arg = calls[d].arg /\ calls'[d].seen = calls[d].seen
             /\ calls'[d].out = calls[d].out /\ (calls'[d].alone <=> calls[d].alone /\ ~Going(d))
  <2> DEFINE alone == calls[d].alone /\ ~Going(d)
  <2>1. alone \in BOOLEAN
    BY Zenon
  <2>2. calls'[d] = [calls[d] EXCEPT !.alone = alone]
    BY <1>1, <1>5
  <2>3. alone <=> calls[d].alone /\ ~Going(d)
    OBVIOUS
  <2> HIDE DEF alone
  <2>4. calls[d] \in CallTypes
    BY <1>2
  <2> QED
    BY <2>1, <2>2, <2>3, <2>4 DEF CallTypes
<1>6. calls'[c] = next
  BY <1>1
<1> HIDE DEF next
<1>7. calls' \in [Calls -> CallTypes]
  <2>1. \A d \in Calls : calls'[d] \in CallTypes
    BY <1>4, <1>5, <1>6
  <2>2. calls' = [d \in Calls |-> calls'[d]]
    BY <1>1
  <2> QED
    BY <2>1, <2>2
<1> HIDE DEF nobody
<1>8. \A d \in Calls : calls'[d].at \notin {"idle", "reading"} =>
          /\ d # c /\ calls'[d].at = calls[d].at /\ calls'[d].kind = calls[d].kind
          /\ calls'[d].arg = calls[d].arg /\ calls'[d].seen = calls[d].seen
          /\ calls'[d].out = calls[d].out
          /\ (calls'[d].alone => calls[d].alone /\ ~Going(d))
  BY <1>4, <1>5, <1>6
<1>9. DocTypes'
  <2>1. ASSUME NEW d \in Calls PROVE CallHasData(d)'
    BY <1>3, <1>4, <1>5, <1>6 DEF DocInv, DocTypes, CallHasData
  <2>2. TornByWriter'
    BY <1>2, <1>5 DEF DocInv, DocTypes, TornByWriter
  <2> QED
    BY <1>2, <1>7, <2>1, <2>2 DEF DocInv, DocTypes
<1>10. AloneIsAlone'
  BY <1>4, <1>5, <1>6 DEF AloneIsAlone, nobody
<1>11. ASSUME NEW d \in Calls PROVE IsWrittenAlone(d)' /\ PutIsEverywhere(d)'
  <2>1. IsWrittenAlone(d)'
    BY <1>2, <1>8 DEF DocInv, DocKeeps, IsWrittenAlone
  <2>2. SUFFICES ASSUME KeptPut(d)' PROVE PutIsEverywhere(d)'
    BY <2>1 DEF PutIsEverywhere
  <2>3. KeptPut(d) /\ calls'[d].out = calls[d].out
    BY <1>8, <2>2 DEF KeptPut
  <2> QED
    BY <1>2, <1>8, <2>3 DEF DocInv, DocKeeps, PutIsEverywhere, HasPut
<1>12. \A d \in Calls : Granted(d)' => Granted(d) /\ calls'[d].out = calls[d].out
                                       /\ calls'[d].arg = calls[d].arg
  BY <1>8 DEF Granted
<1>13. LeasesAreDrawn'
  <2>1. ASSUME NEW x \in Snapshots, LeaseIsDrawn(x) PROVE DrawnNext(x)
    <3>1. \A d \in Calls : calls[d].at \notin {"idle", "reading", "read"} =>
              /\ calls'[d].kind = calls[d].kind /\ calls'[d].arg = calls[d].arg
              /\ calls'[d].at \notin {"idle", "reading", "read"}
      BY <1>2, <1>5
    <3> QED
      BY <1>2, <2>1, <3>1, DrawnStays
  <2> QED
    BY <1>2, <1>8, <1>12, <2>1, SnapshotsAre, LeasesStayDrawn
    DEF DocInv, DocTypes, DocKeeps, LeasesAreDrawn
<1>14. ASSUME NEW d \in Calls PROVE LeaseIsEverywhere(d)'
  <2>1. SUFFICES ASSUME KeptLease(d)' PROVE LeaseIsEverywhere(d)'
    BY DEF LeaseIsEverywhere
  <2>2. NoRelease
    BY <1>2, <1>5, <2>1 DEF KeptLease, NoRelease
  <2>3. KeptLease(d) /\ calls'[d].out = calls[d].out /\ calls'[d].arg = calls[d].arg
    BY <1>2, <1>12, <2>1, <2>2 DEF KeptLease
  <2> QED
    BY <1>2, <1>8, <2>3 DEF DocInv, DocKeeps, LeaseIsEverywhere, HasLease
<1>15. SerialHolds'
  <2>1. \A d \in Calls : calls'[d].at = "tore" <=> calls[d].at = "tore"
    BY <1>2, <1>4, <1>5, <1>6
  <2>2. serial => \A d \in Calls : d # c => calls'[d].at \notin Ongoing
    BY <1>2, <1>5 DEF nobody
  <2>3. serial => \A d, e \in Calls : calls[d].at = "tore" /\ calls[e].at = "tore" => d = e
    BY DEF DocInv, SerialHolds
  <2>4. serial => \A d \in Calls : calls[d].at = "tore" => file = Torn
    BY DEF DocInv, SerialHolds
  <2> QED
    BY <1>2, <1>4, <1>6, <2>1, <2>2, <2>3, <2>4 DEF SerialHolds
<1> QED
  BY <1>9, <1>10, <1>11, <1>13, <1>14, <1>15 DEF DocInv, DocKeeps

LEMMA DocInvNext == DocInv /\ [DocNext]_docVars => DocInv'
<1> SUFFICES ASSUME DocInv, [DocNext]_docVars PROVE DocInv'
  OBVIOUS
<1>1. ASSUME NEW c \in Calls, DocCall(c) PROVE DocInv'
  BY <1>1, BeginKeeps, ReadKeeps, ApplyKeeps, StartWriteKeeps, EndWriteKeeps, DieKeeps DEF DocCall
<1>2. CASE DocTick
  BY <1>2, TickKeeps
<1>3. CASE UNCHANGED docVars
  <2>1. UNCHANGED <<serial, now, file, memory, calls>>
    BY <1>3 DEF docVars
  <2> QED
    BY <2>1
    DEF DocInv, DocTypes, CallHasData, TornByWriter, DocKeeps, AloneIsAlone, Going, IsWrittenAlone,
        PutIsEverywhere, KeptPut, HasPut, LeaseIsEverywhere, KeptLease, HasLease, NoRelease, Granted,
        LeasesAreDrawn, LeaseIsDrawn, SerialHolds, Follows
<1> QED
  BY <1>1, <1>2, <1>3 DEF DocNext

\* What DocSpec sees of a call that writes: the snapshot that it read.
LEMMA StoredOfWriter ==
    ASSUME DocInv, serial, NEW c \in Calls, calls[c].at \in {"writing", "tore"}
    PROVE  file = Torn /\ Stored = calls[c].seen
<1>1. file = Torn
  BY DEF DocInv, SerialHolds
<1>2. (CHOOSE d \in Calls : calls[d].at \in {"writing", "tore"}) = c
  BY DEF DocInv, SerialHolds
<1> QED
  BY <1>1, <1>2 DEF Stored

\* A step that leaves the file and who writes it leaves what DocSpec sees.
LEMMA StoredStays ==
    ASSUME DocInv, DocInv', serial, serial', file' = file, now' = now,
           \A d \in Calls : calls[d].at \in {"writing", "tore"} =>
               calls'[d].at \in {"writing", "tore"} /\ calls'[d].seen = calls[d].seen
    PROVE  UNCHANGED <<Stored, now>>
<1>1. CASE file # Torn
  BY <1>1 DEF Stored
<1>2. CASE file = Torn
  <2>1. PICK d \in Calls : calls[d].at \in {"writing", "tore"}
    BY <1>2 DEF DocInv, DocTypes, TornByWriter
  <2>2. Stored = calls[d].seen
    BY <2>1, StoredOfWriter
  <2>3. Stored' = calls'[d].seen
    <3>1. (CHOOSE e \in Calls : calls'[e].at \in {"writing", "tore"}) = d
      BY <2>1 DEF DocInv, SerialHolds
    <3>2. file' = Torn
      BY <1>2
    <3> QED
      BY <3>1, <3>2 DEF Stored
  <2> QED
    BY <2>1, <2>2, <2>3
<1> QED
  BY <1>1, <1>2

LEMMA SerialStep ==
    ASSUME DocInv, [DocNext]_docVars, serial
    PROVE  Abs!Next \/ UNCHANGED <<Stored, now>>
<1>1. DocInv'
  BY DocInvNext
<1>2. serial'
  BY DEF DocNext, DocCall, docVars, Begin, Read, Apply, StartWrite, EndWrite, Die, DocTick
<1>3. calls \in [Calls -> CallTypes]
  BY DEF DocInv, DocTypes
<1>4. ASSUME NEW c \in Calls, Begin(c) PROVE UNCHANGED <<Stored, now>>
  <2>1. UNCHANGED <<file, now>>
    BY <1>4 DEF Begin
  <2>2. ASSUME NEW d \in Calls, calls[d].at \in {"writing", "tore"}
        PROVE  calls'[d].at = calls[d].at /\ calls'[d].seen = calls[d].seen
    <3>1. d # c
      BY <1>4, <2>2 DEF Begin
    <3>2. calls'[d] = [calls[d] EXCEPT !.alone = @ /\ ~Going(d)]
      BY <1>4, <3>1 DEF Begin
    <3> HIDE DEF Going
    <3> QED
      BY <1>3, <3>2 DEF CallTypes
  <2> QED
    BY <1>1, <1>2, <2>1, <2>2, StoredStays
<1>5. ASSUME NEW c \in Calls, Read(c) \/ Apply(c) PROVE UNCHANGED <<Stored, now>>
  <2>1. UNCHANGED <<file, now>> /\ calls[c].at \in {"reading", "read"}
    BY <1>5 DEF Read, Apply
  <2>2. ASSUME NEW d \in Calls, d # c PROVE calls'[d] = calls[d]
    BY <1>3, <1>5, <2>2 DEF Read, Apply
  <2> QED
    BY <1>1, <1>2, <2>1, <2>2, StoredStays
<1>6. ASSUME NEW c \in Calls, Die(c) PROVE UNCHANGED <<Stored, now>>
  <2>1. UNCHANGED <<file, now>>
    BY <1>6 DEF Die
  <2>2. ASSUME NEW d \in Calls, calls[d].at \in {"writing", "tore"}
        PROVE  calls'[d].at \in {"writing", "tore"} /\ calls'[d].seen = calls[d].seen
    <3>1. CASE d = c
      BY <1>3, <1>6, <2>2, <3>1 DEF Die, CallTypes, Going, Ongoing
    <3>2. CASE d # c
      BY <1>3, <1>6, <2>2, <3>2 DEF Die
    <3> QED
      BY <3>1, <3>2
  <2> QED
    BY <1>1, <1>2, <2>1, <2>2, StoredStays
<1>7. ASSUME NEW c \in Calls, StartWrite(c) PROVE UNCHANGED <<Stored, now>>
  <2>1. file = calls[c].seen /\ file # Torn /\ now' = now
    BY <1>7, NoSnapshotOK
    DEF NoSnapshotOK, StartWrite, DocInv, DocTypes, CallHasData, SerialHolds
  <2>2. calls'[c].at = "writing" /\ calls'[c].seen = calls[c].seen
    BY <1>3, <1>7 DEF StartWrite, CallTypes
  <2>3. (CHOOSE e \in Calls : calls'[e].at \in {"writing", "tore"}) = c
    BY <1>1, <1>2, <2>2 DEF DocInv, SerialHolds
  <2>4. Stored' = calls'[c].seen
    BY <1>7, <2>3 DEF Stored, StartWrite
  <2>5. Stored = file
    BY <2>1 DEF Stored
  <2> QED
    BY <2>1, <2>2, <2>4, <2>5
<1>8. ASSUME NEW c \in Calls, EndWrite(c) PROVE Abs!Next \/ UNCHANGED <<Stored, now>>
  <2>1. /\ calls[c].at = "writing" /\ file' = calls[c].out /\ now' = now
        /\ calls[c].seen \in Snapshots /\ calls[c].out \in Snapshots
        /\ Follows(calls[c].seen, calls[c].out)
    BY <1>8 DEF EndWrite, DocInv, DocTypes, CallHasData, SerialHolds
  <2>2. Stored = calls[c].seen
    BY <2>1, StoredOfWriter
  <2>3. Stored' = calls[c].out
    BY <2>1, NoSnapshotOK DEF NoSnapshotOK, Stored
  <2>4. Follows(Stored, Stored')
    BY <2>1, <2>2, <2>3
  <2> HIDE DEF Stored
  <2>5. CASE Stored' = Stored
    BY <2>1, <2>5
  <2>6. CASE \E v \in Calls : Stored' = Abs!AfterPut(Stored, v)
    BY <2>1, <2>6 DEF Abs!Next, Abs!Change, Abs!Put
  <2>7. CASE Stored.doc # Absent /\ Stored' = Abs!AfterDelete(Stored)
    BY <2>1, <2>7 DEF Abs!Next, Abs!Change, Abs!Delete
  <2>8. CASE \E o \in Owners, k \in Calls, at \in 0 .. now :
               ~Abs!Refused(Stored, o, at) /\ Stored' = Abs!AfterAcquire(Stored, o, k, at)
    BY <2>1, <2>8 DEF Abs!Next, Abs!Change, Abs!Acquire
  <2>9. CASE Stored.lease # Absent /\ Stored' = [Stored EXCEPT !.lease = Absent]
    BY <2>1, <2>9 DEF Abs!Next, Abs!Change, Abs!Release
  <2> QED
    BY <2>4, <2>5, <2>6, <2>7, <2>8, <2>9 DEF Follows
<1>9. CASE DocTick
  BY <1>9 DEF DocTick, Stored, Abs!Next, Abs!Tick
<1>10. CASE UNCHANGED docVars
  BY <1>10 DEF docVars, Stored
<1> QED
  BY <1>4, <1>5, <1>6, <1>7, <1>8, <1>9, <1>10 DEF DocNext, DocCall

LEMMA DocInvIsSound == DocInv => DocTypeOK /\ AloneIsKept /\ LeaseIsKept
<1> SUFFICES ASSUME DocInv PROVE DocTypeOK /\ AloneIsKept /\ LeaseIsKept
  OBVIOUS
<1>1. DocTypeOK
  BY DEF DocInv, DocTypes, DocTypeOK, CallTypes, Instances
<1>2. AloneIsKept
  BY DEF DocInv, DocKeeps, PutIsEverywhere, KeptPut, HasPut, AloneIsKept
<1>3. LeaseIsKept
  BY DEF DocInv, DocKeeps, LeaseIsEverywhere, KeptLease, HasLease, NoRelease, LeaseIsKept
<1> QED
  BY <1>1, <1>2, <1>3

\* Whatever calls on whatever instances of the document store overlap: a put that
\* nobody overlapped stays in the feed, a lease that was granted so stays its
\* owner's until it runs out or is released; and the calls of callers that wait
\* for each other are the steps of DocSpec, also when a process ends within one
\* (src/replicated-doc-store.ts).
THEOREM DocumentsAreSound == DocSpecification => DocStoreSound
<1>1. DocInit => DocInv
  BY DocInvInit
<1>2. DocInv /\ [DocNext]_docVars => DocInv'
  BY DocInvNext
<1>3. DocInv => DocTypeOK /\ AloneIsKept /\ LeaseIsKept
  BY DocInvIsSound
<1>4. DocInv /\ [DocNext]_docVars => [serial => (Abs!Next \/ UNCHANGED <<Stored, now>>)]_docVars
  BY SerialStep
<1> QED
  BY <1>1, <1>2, <1>3, <1>4, PTL DEF DocSpecification, DocStoreSound, SerialIsAtomic

(***************************************************************************)
(* The builder contexts                                                    *)
(***************************************************************************)

CtxPlaces == {"idle", "loaded", "decided", "writing", "done", "refused", "died", "tore"}

CtxRecords ==
    [at : CtxPlaces, kind : CtxKinds, name : Names \cup {Absent}, use : BOOLEAN,
     first : Stores \cup {Absent}, out : Stores \cup {Absent}, alone : BOOLEAN]

\* A field stands in the context that its command was about, and that command
\* is done, or one of those that write this store.
HeldBy(n, f, own) == (cmds[f].at = "done" \/ f \in own) /\ cmds[f].name = n

OneToken(fields) ==
    \A f, g \in fields : cmds[f].kind = "dnsSet" /\ cmds[g].kind = "dnsSet" => f = g

\* What every store is that somebody wrote or has in memory.
StoreIsSound(s, own) ==
    /\ s \in Stores
    /\ \A n \in DOMAIN s.contexts :
          /\ \A f \in s.contexts[n] : HeldBy(n, f, own)
          /\ OneToken(s.contexts[n])
    /\ s.current # Absent => Knows(s, s.current)

\* A change that a later command may not undo.
Gives(c) == cmds[c].kind \in {"add", "set"}

Lasting(c) == cmds[c].at = "done" /\ cmds[c].alone /\ Gives(c)

\* A store in memory has the change of its own command, and all that last.
OutIsSound(c) ==
    InWindow(c) =>
        /\ StoreIsSound(cmds[c].out, {c})
        /\ Gives(c) => c \in Fields(cmds[c].out, cmds[c].name)
        /\ \A d \in CtxCmds : Lasting(d) => d \in Fields(cmds[c].out, cmds[d].name)

CtxInv ==
    /\ cmds \in [CtxCmds -> CtxRecords]
    /\ \A c \in CtxCmds : cmds[c].at \in {"loaded", "decided", "writing"} => cmds[c].name \in Names
    /\ store \notin {Absent, Torn} => StoreIsSound(store, {})
    /\ \A c \in CtxCmds : OutIsSound(c)
    /\ \A c, d \in CtxCmds : InWindow(c) /\ InWindow(d) /\ cmds[c].alone => c = d
    /\ \A c \in CtxCmds : Lasting(c) /\ store # Torn => c \in Fields(Parsed(store), cmds[c].name)

\* A store stays sound while the commands that hold its fields stay done, or
\* in it, and what they were.
LEMMA SoundStays ==
    ASSUME NEW s, NEW own, NEW own2, StoreIsSound(s, own),
           \A f \in CtxCmds :
              cmds[f].at = "done" \/ f \in own =>
                  /\ cmds'[f].at = "done" \/ f \in own2
                  /\ cmds'[f].name = cmds[f].name
                  /\ cmds'[f].kind = cmds[f].kind
    PROVE  StoreIsSound(s, own2)'
<1>1. \A n \in DOMAIN s.contexts : s.contexts[n] \subseteq CtxCmds
  BY DEF StoreIsSound, Stores
<1>2. s \in Stores /\ (s.current # Absent => Knows(s, s.current))'
  BY DEF StoreIsSound, Knows
<1>3. \A n \in DOMAIN s.contexts : \A f \in s.contexts[n] : HeldBy(n, f, own2)'
  BY <1>1 DEF StoreIsSound, HeldBy
<1>4. \A n \in DOMAIN s.contexts : OneToken(s.contexts[n])'
  BY <1>1 DEF StoreIsSound, OneToken, HeldBy
<1> QED
  BY <1>2, <1>3, <1>4 DEF StoreIsSound

LEMMA EmptyIsSound == StoreIsSound(EmptyStore, {})
<1>1. EmptyStore.contexts \in [{} -> SUBSET CtxCmds] /\ {} \in SUBSET Names
  BY DEF EmptyStore
<1>2. EmptyStore \in Stores
  BY <1>1 DEF EmptyStore, Stores
<1>3. DOMAIN EmptyStore.contexts = {} /\ EmptyStore.current = Absent
  BY DEF EmptyStore
<1> QED
  BY <1>2, <1>3 DEF StoreIsSound

\* A store in which a context got a value.
LEMMA WithHas ==
    ASSUME NEW s, NEW n, NEW value
    PROVE  /\ DOMAIN With(s, n, value) = DOMAIN s.contexts \cup {n}
           /\ With(s, n, value)[n] = value
           /\ \A m \in DOMAIN s.contexts : m # n => With(s, n, value)[m] = s.contexts[m]
BY DEF With

LEMMA WithInStores ==
    ASSUME NEW s \in Stores, NEW n \in Names, NEW value \in SUBSET CtxCmds
    PROVE  With(s, n, value) \in UNION {[known -> SUBSET CtxCmds] : known \in SUBSET Names}
<1>1. PICK known \in SUBSET Names : s.contexts \in [known -> SUBSET CtxCmds]
  BY DEF Stores
<1>2. With(s, n, value) \in [known \cup {n} -> SUBSET CtxCmds] /\ known \cup {n} \in SUBSET Names
  BY <1>1 DEF With
<1> QED
  BY <1>2 DEF With

LEMMA StoreOf ==
    ASSUME NEW s \in Stores,
           NEW contexts \in UNION {[known -> SUBSET CtxCmds] : known \in SUBSET Names}
    PROVE  /\ [s EXCEPT !.contexts = contexts] \in Stores
           /\ [s EXCEPT !.contexts = contexts].contexts = contexts
           /\ [s EXCEPT !.contexts = contexts].current = s.current
           /\ \A current \in Names \cup {Absent} :
                 [current |-> current, contexts |-> contexts] \in Stores
<1> DEFINE Maps == UNION {[known -> SUBSET CtxCmds] : known \in SUBSET Names}
<1>1. Stores = [current : Names \cup {Absent}, contexts : Maps] /\ contexts \in Maps
  BY DEF Stores
<1> HIDE DEF Maps
<1> QED
  BY <1>1

\* The change of a command to a sound store makes one that is sound with it,
\* has what the command gives and keeps what others gave.
LEMMA ChangeIsSound ==
    ASSUME cmds \in [CtxCmds -> CtxRecords],
           NEW c \in CtxCmds, cmds[c].name \in Names,
           NEW s, StoreIsSound(s, {}), ~Misses(c, s)
    PROVE  LET o == ChangedStore(c, s)
           IN  /\ StoreIsSound(o, {c})
               /\ Gives(c) => c \in Fields(o, cmds[c].name)
               /\ \A d \in CtxCmds :
                     Gives(d) /\ d \in Fields(s, cmds[d].name) => d \in Fields(o, cmds[d].name)
<1> DEFINE n == cmds[c].name
           f == Fields(s, n)
           o == ChangedStore(c, s)
<1>1. s \in Stores /\ s.current \in Names \cup {Absent}
  BY DEF StoreIsSound, Stores
<1>2. f \in SUBSET CtxCmds
  BY <1>1 DEF Fields, Knows, Stores
<1>3. /\ \A g \in f : HeldBy(n, g, {})
      /\ OneToken(f)
  BY DEF StoreIsSound, Fields, Knows, OneToken
<1>4. \A m \in DOMAIN s.contexts :
         /\ \A g \in s.contexts[m] : HeldBy(m, g, {c})
         /\ OneToken(s.contexts[m])
  BY DEF StoreIsSound, HeldBy
<1>5. s.current # Absent => s.current \in DOMAIN s.contexts
  BY DEF StoreIsSound, Knows
<1>6. CASE cmds[c].kind = "use"
  <2>1. o = [s EXCEPT !.current = n] /\ n \in DOMAIN s.contexts
    BY <1>6 DEF ChangedStore, Misses, Knows
  <2>2. o \in Stores /\ o.contexts = s.contexts /\ o.current = n
    BY <2>1, <1>1 DEF Stores
  <2> HIDE DEF o
  <2>3. StoreIsSound(o, {c})
    BY <2>1, <2>2, <1>4 DEF StoreIsSound, Knows
  <2> QED
    BY <2>2, <2>3, <1>6 DEF Gives, Fields, Knows, o
<1>7. CASE cmds[c].kind # "use"
  <2>1. PICK value \in SUBSET CtxCmds, current \in Names \cup {Absent} :
           /\ o.contexts = With(s, n, value) /\ o.current = current /\ o \in Stores
           /\ value \subseteq f \cup {c}
           /\ OneToken(value)
           /\ Gives(c) => c \in value
           /\ \A d \in f : Gives(d) => d \in value
           /\ current \in {s.current, n}
    <3>1. CASE cmds[c].kind = "dnsSet"
      <4> DEFINE value == (f \ Token(f)) \cup {c}
      <4>1. value \in SUBSET CtxCmds
        BY <1>2
      <4>2. o = [s EXCEPT !.contexts = With(s, n, value)]
        BY <3>1 DEF ChangedStore
      <4>3. PICK w \in UNION {[known -> SUBSET CtxCmds] : known \in SUBSET Names} :
               w = With(s, n, value)
        BY <4>1, <1>1, WithInStores
      <4>6. o.contexts = w /\ o.current = s.current /\ o \in Stores
        <5>1. o = [s EXCEPT !.contexts = w]
          BY <4>2, <4>3
        <5> HIDE DEF o
        <5> QED
          BY <5>1, <1>1, StoreOf
      <4>4. OneToken(value)
        BY DEF OneToken, Token
      <4>5. \A d \in f : Gives(d) => d \in value
        BY DEF Gives, Token
      <4> QED
        BY <4>1, <4>3, <4>4, <4>5, <4>6, <1>1
    <3>2. CASE cmds[c].kind = "dnsClear"
      <4> DEFINE value == f \ Token(f)
      <4>1. value \in SUBSET CtxCmds
        BY <1>2
      <4>2. o = [s EXCEPT !.contexts = With(s, n, value)]
        BY <3>2 DEF ChangedStore
      <4>3. PICK w \in UNION {[known -> SUBSET CtxCmds] : known \in SUBSET Names} :
               w = With(s, n, value)
        BY <4>1, <1>1, WithInStores
      <4>6. o.contexts = w /\ o.current = s.current /\ o \in Stores
        <5>1. o = [s EXCEPT !.contexts = w]
          BY <4>2, <4>3
        <5> HIDE DEF o
        <5> QED
          BY <5>1, <1>1, StoreOf
      <4>4. OneToken(value)
        BY DEF OneToken, Token
      <4>5. \A d \in f : Gives(d) => d \in value
        BY DEF Gives, Token
      <4>7. ~Gives(c)
        BY <3>2 DEF Gives
      <4> QED
        BY <4>1, <4>3, <4>4, <4>5, <4>6, <4>7, <1>1
    <3>3. CASE cmds[c].kind \notin {"dnsSet", "dnsClear"}
      <4> DEFINE value == f \cup {c}
                 current == ChosenCurrent(c, s)
      <4>1. value \in SUBSET CtxCmds
        BY <1>2
      <4>2. o = [current |-> current, contexts |-> With(s, n, value)]
        BY <3>3, <1>7 DEF ChangedStore
      <4>3. current \in Names \cup {Absent} /\ current \in {s.current, n}
        BY <1>1 DEF ChosenCurrent
      <4>6. PICK w \in UNION {[known -> SUBSET CtxCmds] : known \in SUBSET Names} :
               w = With(s, n, value)
        BY <4>1, <1>1, WithInStores
      <4>4. o.contexts = w /\ o.current = current /\ o \in Stores
        <5>1. o = [current |-> current, contexts |-> w]
          BY <4>2, <4>6
        <5> HIDE DEF o, current
        <5> QED
          BY <5>1, <4>3, <1>1, StoreOf
      <4>5. OneToken(value)
        BY <3>3, <1>3 DEF OneToken
      <4> QED
        BY <4>1, <4>3, <4>4, <4>5, <4>6
    <3> QED
      BY <3>1, <3>2, <3>3
  <2> HIDE DEF o
  <2>2. /\ DOMAIN o.contexts = DOMAIN s.contexts \cup {n}
        /\ o.contexts[n] = value
        /\ \A m \in DOMAIN s.contexts : m # n => o.contexts[m] = s.contexts[m]
    <3>1. /\ DOMAIN With(s, n, value) = DOMAIN s.contexts \cup {n}
          /\ With(s, n, value)[n] = value
          /\ \A m \in DOMAIN s.contexts : m # n => With(s, n, value)[m] = s.contexts[m]
      BY DEF With
    <3>2. o.contexts = With(s, n, value)
      BY <2>1
    <3> QED
      BY <3>1, <3>2
  <2>3. \A g \in value : HeldBy(n, g, {c})
    BY <2>1, <1>3 DEF HeldBy
  <2>4. StoreIsSound(o, {c})
    <3>1. \A m \in DOMAIN o.contexts :
             /\ \A g \in o.contexts[m] : HeldBy(m, g, {c})
             /\ OneToken(o.contexts[m])
      BY <2>1, <2>2, <2>3, <1>4
    <3>2. o.current # Absent => o.current \in DOMAIN o.contexts
      BY <2>1, <2>2, <1>5
    <3> QED
      BY <2>1, <3>1, <3>2 DEF StoreIsSound, Knows
  <2>5. Gives(c) => c \in Fields(o, n)
    BY <2>1, <2>2 DEF Fields, Knows
  <2>6. \A d \in CtxCmds :
           Gives(d) /\ d \in Fields(s, cmds[d].name) => d \in Fields(o, cmds[d].name)
    <3> SUFFICES ASSUME NEW d \in CtxCmds, Gives(d), d \in Fields(s, cmds[d].name)
                 PROVE  d \in Fields(o, cmds[d].name)
      OBVIOUS
    <3>1. cmds[d].name \in DOMAIN s.contexts
      BY DEF Fields, Knows
    <3>2. CASE cmds[d].name = n
      <4>1. d \in value
        BY <3>2, <2>1
      <4> QED
        BY <3>2, <4>1, <2>2 DEF Fields, Knows
    <3>3. CASE cmds[d].name # n
      BY <3>1, <3>3, <2>2 DEF Fields, Knows
    <3> QED
      BY <3>2, <3>3
  <2> QED
    BY <2>4, <2>5, <2>6 DEF o
<1> QED
  BY <1>6, <1>7

LEMMA CtxInitInv == CtxInit => CtxInv
<1> SUFFICES ASSUME CtxInit PROVE CtxInv
  OBVIOUS
<1>1. NewCmd \in CtxRecords
  BY DEF NewCmd, CtxRecords, CtxPlaces, CtxKinds
<1>2. cmds \in [CtxCmds -> CtxRecords]
  BY <1>1 DEF CtxInit
<1>3. \A c \in CtxCmds : cmds[c].at = "idle"
  BY DEF CtxInit, NewCmd
<1> QED
  BY <1>2, <1>3 DEF CtxInv, CtxInit, OutIsSound, InWindow, Lasting

\* A step of a command that is neither in its window nor done, before and
\* after, and does not touch the store.
LEMMA OutsideInv ==
    ASSUME CtxInv, NEW c \in CtxCmds, cmds[c].at # "done", NEW next \in CtxRecords,
           cmds' = [cmds EXCEPT ![c] = next], store' = store,
           next.at \notin {"decided", "writing", "done"},
           next.at = "loaded" => next.name \in Names
    PROVE  CtxInv'
<1>1. cmds' \in [CtxCmds -> CtxRecords]
  BY DEF CtxInv
<1>2. \A d \in CtxCmds : cmds'[d] = IF d = c THEN next ELSE cmds[d]
  BY DEF CtxInv
<1>3. \A d \in CtxCmds : cmds'[d].at \in {"loaded", "decided", "writing"} => cmds'[d].name \in Names
  BY <1>2 DEF CtxInv
<1>4. store' \notin {Absent, Torn} => StoreIsSound(store, {})'
  <2> SUFFICES ASSUME store \notin {Absent, Torn} PROVE StoreIsSound(store, {})'
    OBVIOUS
  <2>1. PICK s : s = store
    OBVIOUS
  <2>2. StoreIsSound(s, {})
    BY <2>1 DEF CtxInv
  <2>3. StoreIsSound(s, {})'
    BY <2>2, <1>2, SoundStays
  <2> QED
    BY <2>1, <2>3
<1>5. \A d \in CtxCmds : Lasting(d)' => Lasting(d) /\ d # c
  BY <1>2 DEF Lasting, Gives
<1>6. \A d \in CtxCmds : OutIsSound(d)'
  <2> SUFFICES ASSUME NEW d \in CtxCmds, InWindow(d)' PROVE OutIsSound(d)'
    BY DEF OutIsSound
  <2>1. d # c /\ cmds'[d] = cmds[d] /\ InWindow(d)
    BY <1>2 DEF InWindow
  <2>2. PICK o : o = cmds[d].out
    OBVIOUS
  <2>3. StoreIsSound(o, {d})
    BY <2>1, <2>2 DEF CtxInv, OutIsSound
  <2>4. StoreIsSound(o, {d})'
    BY <2>1, <2>3, <1>2, SoundStays
  <2>5. (Gives(d) => d \in Fields(cmds[d].out, cmds[d].name))'
    BY <2>1 DEF CtxInv, OutIsSound, Gives, Fields, Knows
  <2>6. \A e \in CtxCmds : Lasting(e)' => e \in Fields(o, cmds[e].name)'
    <3> SUFFICES ASSUME NEW e \in CtxCmds, Lasting(e)' PROVE e \in Fields(o, cmds[e].name)'
      OBVIOUS
    <3>1. Lasting(e) /\ cmds'[e] = cmds[e]
      BY <1>2, <1>5
    <3> QED
      BY <3>1, <2>1, <2>2 DEF CtxInv, OutIsSound, Fields, Knows
  <2>7. cmds'[d].out = o
    BY <2>1, <2>2
  <2> QED
    BY <2>4, <2>5, <2>6, <2>7 DEF OutIsSound
<1>7. \A d, e \in CtxCmds : InWindow(d)' /\ InWindow(e)' /\ cmds'[d].alone => d = e
  BY <1>2 DEF CtxInv, InWindow
<1>8. \A d \in CtxCmds : Lasting(d)' /\ store' # Torn => d \in Fields(Parsed(store), cmds[d].name)'
  BY <1>2, <1>5 DEF CtxInv, Fields, Knows, Parsed
<1> QED
  BY <1>1, <1>3, <1>4, <1>6, <1>7, <1>8 DEF CtxInv

LEMMA EndsInv ==
    ASSUME CtxInv, NEW c \in CtxCmds, cmds[c].at # "done",
           NEW at \in {"refused", "died", "tore"}, Ends(c, at), store' = store
    PROVE  CtxInv'
<1> DEFINE next == [NewCmd EXCEPT !.at = at, !.kind = cmds[c].kind]
<1>1. next \in CtxRecords /\ next.at = at
  BY DEF CtxInv, CtxRecords, CtxPlaces, NewCmd
<1>2. cmds' = [cmds EXCEPT ![c] = next]
  BY DEF Ends
<1> HIDE DEF next
<1> QED
  BY <1>1, <1>2, OutsideInv

\* What is read parses, and is sound, unless a write is under way or was cut.
LEMMA ParsedIsSound == CtxInv /\ store # Torn => StoreIsSound(Parsed(store), {})
BY EmptyIsSound DEF CtxInv, Parsed

LEMMA LoadInv == ASSUME CtxInv, NEW c \in CtxCmds, Load(c) PROVE CtxInv'
<1> DEFINE s == Parsed(store)
<1>1. StoreIsSound(s, {}) /\ cmds[c].at = "idle" /\ store' = store
  BY ParsedIsSound DEF Load
<1>2. s \in Stores /\ s.current \in Names \cup {Absent}
  BY <1>1 DEF StoreIsSound, Stores
<1>3. PICK k \in CtxKinds, named \in Names \cup {Absent}, env \in Names \cup {Absent}, u \in BOOLEAN :
         /\ named = Absent \/ env = Absent
         /\ k = "add" => named # Absent /\ ~Knows(s, named)
         /\ k \in {"add", "set"} \/ ~u
         /\ Target(k, s, named, env) # Absent /\ Allowed(k, s, named)
         /\ cmds' = [cmds EXCEPT ![c].kind = k, ![c].name = Target(k, s, named, env), ![c].use = u,
                                 ![c].first = IF k = "add" THEN s ELSE Absent,
                                 ![c].at = "loaded"]
  BY Zenon DEF Load
<1>4. Target(k, s, named, env) \in Names
  BY <1>2, <1>3 DEF Target
<1> HIDE DEF s
<1> DEFINE t == Target(k, s, named, env)
           first == IF k = "add" THEN s ELSE Absent
           next == [cmds[c] EXCEPT !.kind = k, !.name = t, !.use = u, !.first = first,
                                   !.at = "loaded"]
<1>5. first \in Stores \cup {Absent} /\ t \in Names /\ cmds[c] \in CtxRecords
  BY <1>2, <1>4 DEF CtxInv
<1>6. cmds' = [cmds EXCEPT ![c] = next]
  BY <1>3 DEF CtxInv
<1>7. next \in CtxRecords /\ next.at = "loaded" /\ next.name \in Names
  <2> HIDE DEF first, t
  <2> QED
    BY <1>5 DEF CtxRecords, CtxPlaces
<1> HIDE DEF next
<1> QED
  BY <1>1, <1>6, <1>7, OutsideInv

\* The second read: whoever is in its window from here on is alone in it only
\* if nobody else is.
LEMMA DecideInv == ASSUME CtxInv, NEW c \in CtxCmds, Decide(c) PROVE CtxInv'
<1>1. PICK s : s = Parsed(store)
  OBVIOUS
<1>2. StoreIsSound(s, {}) /\ cmds[c].at = "loaded" /\ store' = store /\ store # Torn
  BY <1>1, ParsedIsSound DEF Decide
<1>3. CASE Misses(c, s)
  <2>1. Ends(c, "refused")
    BY <1>1, <1>3 DEF Decide
  <2> QED
    BY <2>1, <1>2, EndsInv
<1>4. CASE ~Misses(c, s)
  <2>1. EntersWindow(c, ChangedStore(c, s))
    BY <1>1, <1>4 DEF Decide
  <2>2. cmds \in [CtxCmds -> CtxRecords] /\ cmds[c].name \in Names
    BY <1>2 DEF CtxInv
  <2>3. /\ StoreIsSound(ChangedStore(c, s), {c})
        /\ Gives(c) => c \in Fields(ChangedStore(c, s), cmds[c].name)
        /\ \A d \in CtxCmds : Gives(d) /\ d \in Fields(s, cmds[d].name)
                                 => d \in Fields(ChangedStore(c, s), cmds[d].name)
    BY <1>2, <1>4, <2>2, ChangeIsSound
  <2>4. PICK o : o = ChangedStore(c, s)
    OBVIOUS
  <2>5. PICK lone \in BOOLEAN : lone = \A x \in CtxCmds : ~InWindow(x)
    OBVIOUS
  <2>6. /\ cmds'[c] = [cmds[c] EXCEPT !.at = "decided", !.first = Absent, !.out = o,
                                      !.alone = lone]
        /\ \A d \in CtxCmds : d # c => cmds'[d] = [cmds[d] EXCEPT !.alone = @ /\ ~InWindow(d)]
        /\ DOMAIN cmds' = CtxCmds /\ cmds' = [d \in CtxCmds |-> cmds'[d]]
    BY <2>1, <2>4, <2>5 DEF EntersWindow
  <2>7. o \in Stores
    BY <2>3, <2>4 DEF StoreIsSound
  <2>8. /\ cmds'[c] \in CtxRecords
        /\ cmds'[c].at = "decided" /\ cmds'[c].out = o /\ cmds'[c].alone = lone
        /\ cmds'[c].name = cmds[c].name /\ cmds'[c].kind = cmds[c].kind
    <3>1. cmds[c] \in CtxRecords
      BY <2>2
    <3> QED
      BY <2>6, <2>7, <3>1 DEF CtxRecords, CtxPlaces
  <2>9. ASSUME NEW d \in CtxCmds, d # c
        PROVE  /\ cmds'[d] \in CtxRecords
               /\ cmds'[d].at = cmds[d].at /\ cmds'[d].out = cmds[d].out
               /\ cmds'[d].name = cmds[d].name /\ cmds'[d].kind = cmds[d].kind
               /\ cmds'[d].alone => cmds[d].alone /\ ~InWindow(d)
    <3>1. PICK other \in BOOLEAN : other = (cmds[d].alone /\ ~InWindow(d))
      OBVIOUS
    <3>2. cmds'[d] = [cmds[d] EXCEPT !.alone = other] /\ cmds[d] \in CtxRecords
      BY <2>6, <2>2, <2>9, <3>1
    <3> QED
      BY <3>1, <3>2 DEF CtxRecords
  <2>10. cmds' \in [CtxCmds -> CtxRecords]
    BY <2>6, <2>8, <2>9
  <2>11. \A d \in CtxCmds : cmds'[d].at \in {"loaded", "decided", "writing"} => cmds'[d].name \in Names
    BY <2>2, <2>8, <2>9 DEF CtxInv
  <2>12. store' \notin {Absent, Torn} => StoreIsSound(store, {})'
    <3> SUFFICES ASSUME store \notin {Absent, Torn} PROVE StoreIsSound(store, {})'
      BY <1>2
    <3>1. s = store
      BY <1>1 DEF Parsed
    <3>2. StoreIsSound(s, {})'
      BY <1>2, <2>8, <2>9, SoundStays
    <3> QED
      BY <3>1, <3>2, <1>2
  <2>13. \A d \in CtxCmds : Lasting(d)' => Lasting(d) /\ d # c
    BY <2>8, <2>9 DEF Lasting, Gives
  <2>14. \A d \in CtxCmds : Lasting(d) => d \in Fields(s, cmds[d].name)
    BY <1>1, <1>2 DEF CtxInv
  <2>15. OutIsSound(c)'
    <3>1. StoreIsSound(o, {c})'
      BY <2>3, <2>4, <2>8, <2>9, SoundStays
    <3>2. (Gives(c) => c \in Fields(o, cmds[c].name))'
      BY <2>3, <2>4, <2>8 DEF Gives, Fields, Knows
    <3>3. \A d \in CtxCmds : Lasting(d)' => d \in Fields(o, cmds[d].name)'
      <4> SUFFICES ASSUME NEW d \in CtxCmds, Lasting(d)' PROVE d \in Fields(o, cmds[d].name)'
        OBVIOUS
      <4>1. Lasting(d) /\ cmds'[d].name = cmds[d].name
        BY <2>9, <2>13
      <4>2. d \in Fields(o, cmds[d].name)
        BY <4>1, <2>3, <2>4, <2>14 DEF Lasting
      <4> QED
        BY <4>1, <4>2 DEF Fields, Knows
    <3> QED
      BY <3>1, <3>2, <3>3, <2>8 DEF OutIsSound
  <2>16. ASSUME NEW d \in CtxCmds, d # c PROVE OutIsSound(d)'
    <3> SUFFICES ASSUME InWindow(d)' PROVE OutIsSound(d)'
      BY DEF OutIsSound
    <3>1. InWindow(d)
      BY <2>9, <2>16 DEF InWindow
    <3>2. PICK p : p = cmds[d].out
      OBVIOUS
    <3>3. StoreIsSound(p, {d})
      BY <3>1, <3>2 DEF CtxInv, OutIsSound
    <3>4. StoreIsSound(p, {d})'
      BY <3>3, <2>8, <2>9, <1>2, SoundStays
    <3>5. (Gives(d) => d \in Fields(cmds[d].out, cmds[d].name))'
      BY <3>1, <2>9, <2>16 DEF CtxInv, OutIsSound, Gives, Fields, Knows
    <3>6. \A e \in CtxCmds : Lasting(e)' => e \in Fields(p, cmds[e].name)'
      <4> SUFFICES ASSUME NEW e \in CtxCmds, Lasting(e)' PROVE e \in Fields(p, cmds[e].name)'
        OBVIOUS
      <4>1. Lasting(e) /\ cmds'[e].name = cmds[e].name
        BY <2>9, <2>13
      <4> QED
        BY <4>1, <3>1, <3>2 DEF CtxInv, OutIsSound, Fields, Knows
    <3>7. cmds'[d].out = p
      BY <3>2, <2>9, <2>16
    <3> QED
      BY <3>4, <3>5, <3>6, <3>7 DEF OutIsSound
  <2>17. \A d, e \in CtxCmds : InWindow(d)' /\ InWindow(e)' /\ cmds'[d].alone => d = e
    <3> SUFFICES ASSUME NEW d \in CtxCmds, NEW e \in CtxCmds,
                        InWindow(d)', InWindow(e)', cmds'[d].alone
                 PROVE  d = e
      OBVIOUS
    <3>1. d = c
      BY <2>9 DEF InWindow
    <3>2. \A x \in CtxCmds : ~InWindow(x)
      BY <3>1, <2>8, <2>5
    <3>3. e = c
      BY <3>2, <2>9 DEF InWindow
    <3> QED
      BY <3>1, <3>3
  <2>18. \A d \in CtxCmds : Lasting(d)' /\ store' # Torn => d \in Fields(Parsed(store), cmds[d].name)'
    <3> SUFFICES ASSUME NEW d \in CtxCmds, Lasting(d)'
                 PROVE  d \in Fields(Parsed(store), cmds[d].name)'
      OBVIOUS
    <3>1. Lasting(d) /\ cmds'[d].name = cmds[d].name
      BY <2>9, <2>13
    <3> QED
      BY <3>1, <2>14, <1>1, <1>2 DEF Fields, Knows, Parsed
  <2> QED
    BY <2>10, <2>11, <2>12, <2>15, <2>16, <2>17, <2>18 DEF CtxInv
<1> QED
  BY <1>3, <1>4

LEMMA StartWriteStoreInv == ASSUME CtxInv, NEW c \in CtxCmds, StartWriteStore(c) PROVE CtxInv'
<1>1. cmds[c].at = "decided" /\ store' = Torn /\ cmds[c] \in CtxRecords
  BY DEF StartWriteStore, CtxInv
<1> DEFINE next == [cmds[c] EXCEPT !.at = "writing"]
<1>2. cmds' = [cmds EXCEPT ![c] = next]
  BY DEF StartWriteStore, CtxInv
<1>3. /\ next \in CtxRecords /\ next.at = "writing" /\ next.out = cmds[c].out
      /\ next.name = cmds[c].name /\ next.kind = cmds[c].kind /\ next.alone = cmds[c].alone
  BY <1>1 DEF CtxRecords, CtxPlaces
<1> HIDE DEF next
<1>4. cmds' \in [CtxCmds -> CtxRecords]
  BY <1>2, <1>3 DEF CtxInv
<1>5. \A d \in CtxCmds :
         /\ cmds'[d].at = IF d = c THEN "writing" ELSE cmds[d].at
         /\ cmds'[d].out = cmds[d].out /\ cmds'[d].name = cmds[d].name
         /\ cmds'[d].kind = cmds[d].kind /\ cmds'[d].alone = cmds[d].alone
  BY <1>2, <1>3 DEF CtxInv
<1>6. \A d \in CtxCmds : (InWindow(d)' <=> InWindow(d)) /\ (Lasting(d)' <=> Lasting(d))
  BY <1>1, <1>5 DEF InWindow, Lasting, Gives
<1>7. \A d \in CtxCmds : cmds'[d].at \in {"loaded", "decided", "writing"} => cmds'[d].name \in Names
  BY <1>1, <1>5 DEF CtxInv
<1>8. ASSUME NEW d \in CtxCmds PROVE OutIsSound(d)'
  <2> SUFFICES ASSUME InWindow(d)' PROVE OutIsSound(d)'
    BY DEF OutIsSound
  <2>1. InWindow(d)
    BY <1>6
  <2>2. PICK o : o = cmds[d].out
    OBVIOUS
  <2>3. StoreIsSound(o, {d})
    BY <2>1, <2>2 DEF CtxInv, OutIsSound
  <2>4. StoreIsSound(o, {d})'
    BY <2>3, <1>1, <1>5, SoundStays
  <2>5. (Gives(d) => d \in Fields(cmds[d].out, cmds[d].name))'
    BY <2>1, <1>5 DEF CtxInv, OutIsSound, Gives, Fields, Knows
  <2>6. \A e \in CtxCmds : Lasting(e)' => e \in Fields(o, cmds[e].name)'
    BY <2>1, <2>2, <1>5, <1>6 DEF CtxInv, OutIsSound, Fields, Knows
  <2>7. cmds'[d].out = o
    BY <2>2, <1>5
  <2> QED
    BY <2>4, <2>5, <2>6, <2>7 DEF OutIsSound
<1>9. \A d, e \in CtxCmds : InWindow(d)' /\ InWindow(e)' /\ cmds'[d].alone => d = e
  BY <1>5, <1>6 DEF CtxInv
<1> QED
  BY <1>1, <1>4, <1>7, <1>8, <1>9 DEF CtxInv

\* The file holds what the command had in memory, and nobody who lasts is lost:
\* its own change is in it, and what lasted before is too.
LEMMA EndWriteStoreInv == ASSUME CtxInv, NEW c \in CtxCmds, EndWriteStore(c) PROVE CtxInv'
<1>1. PICK o : o = cmds[c].out
  OBVIOUS
<1>2. cmds[c].at = "writing" /\ store' = o /\ cmds[c] \in CtxRecords /\ InWindow(c)
  BY <1>1 DEF EndWriteStore, CtxInv, InWindow
<1>3. /\ StoreIsSound(o, {c})
      /\ Gives(c) => c \in Fields(o, cmds[c].name)
      /\ \A d \in CtxCmds : Lasting(d) => d \in Fields(o, cmds[d].name)
  BY <1>1, <1>2 DEF CtxInv, OutIsSound
<1> DEFINE next == [cmds[c] EXCEPT !.at = "done", !.out = Absent]
<1>4. cmds' = [cmds EXCEPT ![c] = next]
  BY DEF EndWriteStore, CtxInv
<1>5. /\ next \in CtxRecords /\ next.at = "done"
      /\ next.name = cmds[c].name /\ next.kind = cmds[c].kind /\ next.alone = cmds[c].alone
  BY <1>2 DEF CtxRecords, CtxPlaces
<1> HIDE DEF next
<1>6. cmds' \in [CtxCmds -> CtxRecords]
  BY <1>4, <1>5 DEF CtxInv
<1>7. \A d \in CtxCmds :
         /\ cmds'[d].at = IF d = c THEN "done" ELSE cmds[d].at
         /\ d # c => cmds'[d].out = cmds[d].out
         /\ cmds'[d].name = cmds[d].name
         /\ cmds'[d].kind = cmds[d].kind /\ cmds'[d].alone = cmds[d].alone
  BY <1>4, <1>5 DEF CtxInv
<1>8. \A d \in CtxCmds : cmds'[d].at \in {"loaded", "decided", "writing"} => cmds'[d].name \in Names
  BY <1>7 DEF CtxInv
<1>9. StoreIsSound(o, {})'
  BY <1>3, <1>7, SoundStays
<1>10. \A d \in CtxCmds : Lasting(d)' => Lasting(d) \/ (d = c /\ Gives(c) /\ cmds[c].alone)
  BY <1>7 DEF Lasting, Gives
<1>11. ASSUME NEW d \in CtxCmds PROVE OutIsSound(d)'
  <2> SUFFICES ASSUME InWindow(d)' PROVE OutIsSound(d)'
    BY DEF OutIsSound
  <2>1. InWindow(d) /\ d # c
    BY <1>7 DEF InWindow
  <2>2. PICK p : p = cmds[d].out
    OBVIOUS
  <2>3. StoreIsSound(p, {d})
    BY <2>1, <2>2 DEF CtxInv, OutIsSound
  <2>4. StoreIsSound(p, {d})'
    BY <2>3, <1>7, SoundStays
  <2>5. (Gives(d) => d \in Fields(cmds[d].out, cmds[d].name))'
    BY <2>1, <1>7 DEF CtxInv, OutIsSound, Gives, Fields, Knows
  <2>6. ~cmds[c].alone
    BY <2>1, <1>2 DEF CtxInv
  <2>7. \A e \in CtxCmds : Lasting(e)' => e \in Fields(p, cmds[e].name)'
    <3> SUFFICES ASSUME NEW e \in CtxCmds, Lasting(e)' PROVE e \in Fields(p, cmds[e].name)'
      OBVIOUS
    <3>1. Lasting(e)
      BY <1>10, <2>6
    <3> QED
      BY <3>1, <2>1, <2>2, <1>7 DEF CtxInv, OutIsSound, Fields, Knows
  <2>8. cmds'[d].out = p
    BY <2>1, <2>2, <1>7
  <2> QED
    BY <2>4, <2>5, <2>7, <2>8 DEF OutIsSound
<1>12. \A d, e \in CtxCmds : InWindow(d)' /\ InWindow(e)' /\ cmds'[d].alone => d = e
  BY <1>7 DEF CtxInv, InWindow
<1>13. Parsed(store)' = o
  BY <1>2, <1>3, NoStoreOK DEF StoreIsSound, Parsed
<1>14. \A d \in CtxCmds : Lasting(d)' => d \in Fields(Parsed(store), cmds[d].name)'
  <2> SUFFICES ASSUME NEW d \in CtxCmds, Lasting(d)'
               PROVE  d \in Fields(Parsed(store), cmds[d].name)'
    OBVIOUS
  <2>1. d \in Fields(o, cmds[d].name) /\ cmds'[d].name = cmds[d].name
    BY <1>3, <1>7, <1>10
  <2> QED
    BY <2>1, <1>13 DEF Fields, Knows
<1> QED
  BY <1>2, <1>6, <1>8, <1>9, <1>11, <1>12, <1>14 DEF CtxInv

LEMMA CtxNextInv == CtxInv /\ [CtxNext]_ctxVars => CtxInv'
<1> SUFFICES ASSUME CtxInv, [CtxNext]_ctxVars PROVE CtxInv'
  OBVIOUS
<1>1. ASSUME NEW c \in CtxCmds, Unreadable(c) PROVE CtxInv'
  BY <1>1, EndsInv DEF Unreadable
<1>2. ASSUME NEW c \in CtxCmds, Stop(c) PROVE CtxInv'
  BY <1>2, EndsInv DEF Stop
<1>3. CASE UNCHANGED ctxVars
  BY <1>3 DEF ctxVars, CtxInv, StoreIsSound, HeldBy, OneToken, OutIsSound, InWindow, Lasting,
              Gives, Fields, Knows, Parsed
<1> QED
  BY <1>1, <1>2, <1>3, LoadInv, DecideInv, StartWriteStoreInv, EndWriteStoreInv DEF CtxNext

\* Of the fields of a context, one at most is a token.
LEMMA OneTokenCounts ==
    ASSUME NEW fields, OneToken(fields) PROVE Cardinality(Token(fields)) <= 1
<1>1. CASE Token(fields) = {}
  BY <1>1, FS_EmptySet
<1>2. CASE Token(fields) # {}
  <2>1. PICK f : f \in Token(fields)
    BY <1>2
  <2>2. Token(fields) = {f}
    BY <2>1 DEF Token, OneToken
  <2>3. Cardinality({f}) = 1
    BY FS_Singleton
  <2> QED
    BY <2>2, <2>3
<1> QED
  BY <1>1, <1>2

\* For any number of commands that share contexts.json and may end anywhere,
\* the current context is one of it, each context has what commands on it gave
\* it and one token at most, and a change that no other command overlapped is
\* kept (contextAddCommand, contextSetCommand, contextUseCommand, the dns
\* commands).
THEOREM ContextsAreSafe == CtxSpec => []ContextSafe
<1>1. CtxInv => ContextSafe
  <2> SUFFICES ASSUME CtxInv PROVE ContextSafe
    OBVIOUS
  <2>1. CtxTypeOK
    <3>1. \A c \in CtxCmds : cmds[c].at \in CtxPlaces /\ cmds[c].kind \in CtxKinds
      BY DEF CtxInv, CtxRecords
    <3>2. ASSUME store \notin {Absent, Torn}
          PROVE  /\ store.current \in Names \cup {Absent}
                 /\ \A n \in DOMAIN store.contexts :
                       /\ store.contexts[n] \subseteq
                             {c \in CtxCmds : cmds[c].at = "done" /\ cmds[c].name = n}
                       /\ Cardinality(Token(store.contexts[n])) <= 1
      <4>1. StoreIsSound(store, {})
        BY <3>2 DEF CtxInv
      <4>2. store.current \in Names \cup {Absent}
        BY <4>1 DEF StoreIsSound, Stores
      <4>3. \A n \in DOMAIN store.contexts : store.contexts[n] \subseteq CtxCmds
        BY <4>1 DEF StoreIsSound, Stores
      <4> QED
        BY <4>1, <4>2, <4>3, OneTokenCounts DEF StoreIsSound, HeldBy
    <3> QED
      BY <3>1, <3>2 DEF CtxTypeOK, CtxPlaces
  <2>2. CurrentIsThere
    BY DEF CtxInv, CurrentIsThere, StoreIsSound
  <2>3. ContextChangeIsKept
    BY DEF CtxInv, ContextChangeIsKept, Lasting, Gives
  <2> QED
    BY <2>1, <2>2, <2>3 DEF ContextSafe
<1> QED
  BY <1>1, CtxInitInv, CtxNextInv, PTL DEF CtxSpec

(***************************************************************************)
(* The runs that share a project                                           *)
(***************************************************************************)

Finished == {d \in Runs : runs[d].kind = "deploy" /\ runs[d].at = "done"}

\* The runs of a history that are not behind x.
UpTo(history, x) == {y \in Runs : history[y] \in 1 .. history[x]}

\* A history lists deployments that have finished, without gaps.
IsTight(history, finished) ==
    \A x \in Runs : history[x] # 0 =>
        x \in finished /\ history[x] <= Cardinality(UpTo(history, x))

StateIsSound(state, finished) ==
    state \notin {Absent, Torn} =>
        state.latest \in finished /\ IsTight(state.reports, finished)

HistoriesAreSound ==
    /\ IsFiniteSet(Finished)
    /\ StateIsSound(project, Finished)
    /\ \A r \in Runs : StateIsSound(runs[r].prev, Finished)

\* Where a run is says which files it has written; a run that is alone is the
\* only one on its way.
RunIsPlaced(r) ==
    /\ runs[r].at = "idle" => runs[r].kind = "deploy" /\ ~runs[r].sawTorn
    /\ Active(r) => runs[r].kind = "deploy"
    /\ runs[r].at = "resolved" => runs[r].kind = "resume" /\ runs[r].dir # Absent /\ runs[r].got # Absent
    /\ runs[r].kind = "deploy" /\ runs[r].at \in {"submitted", "reported", "writing", "done"}
          => dirs[r].report # Absent
    /\ runs[r].alone /\ Active(r) => \A x \in Runs \ {r} : ~Active(x)

BundleIsSound(r) ==
    /\ jobs[r] # Absent => runs[r].at \notin {"idle", "loaded", "built"}
    /\ jobs[r] # Absent /\ runs[r].stageAlone => jobs[r] = r
    /\ runs[r].at = "built" /\ runs[r].stageAlone => bundle = r

\* While every deployment has a run directory of its own, directories hold theirs.
DirIsOwn(r) ==
    /\ dirs[r].snap \in {r, Absent} /\ dirs[r].report \in {r, Absent}
    /\ Active(r) => runs[r].dir \in {r, Absent}
    /\ runs[r].at = "resolved" => runs[r].got = runs[r].dir
    /\ runs[r].found # "other_run"

AllGiven == \A r \in Runs : Deployed(r) => runs[r].given

\* What has to be in the history is in that of the project, and in that of each
\* deployment which will save its own on top.
Keeps(r) ==
    /\ project # Torn => project # Absent /\ project.reports[r] # 0
    /\ \A d \in Runs : Active(d) => runs[d].prev # Absent /\ runs[d].prev.reports[r] # 0

NobodySawTorn == \A d \in Runs : ~runs[d].sawTorn

ProjInv ==
    /\ ProjTypeOK
    /\ HistoriesAreSound
    /\ \A r \in Runs : RunIsPlaced(r)
    /\ \A r \in Runs : BundleIsSound(r)
    /\ AllGiven => \A r \in Runs : DirIsOwn(r)
    /\ NobodySawTorn /\ Cardinality(Finished) <= MaxReports =>
          \A r \in Finished : runs[r].alone => Keeps(r)

\* What a step of another run leaves of a run: it may no longer be alone.
Untouched(d) ==
    /\ runs'[d].at = runs[d].at /\ runs'[d].kind = runs[d].kind /\ runs'[d].prev = runs[d].prev
    /\ runs'[d].given = runs[d].given /\ runs'[d].dir = runs[d].dir /\ runs'[d].got = runs[d].got
    /\ runs'[d].found = runs[d].found /\ runs'[d].sawTorn = runs[d].sawTorn
    /\ runs'[d].alone => runs[d].alone
    /\ runs'[d].stageAlone => runs[d].stageAlone

OnlyRun(r) == runs' \in [Runs -> RunRecords] /\ \A d \in Runs \ {r} : Untouched(d)

LEMMA ProjInitInv == ProjInit => ProjInv
<1> SUFFICES ASSUME ProjInit PROVE ProjInv
  OBVIOUS
<1>1. /\ project = Absent /\ bundle = Absent
      /\ dirs = [r \in Runs |-> [snap |-> Absent, report |-> Absent]]
      /\ jobs = [r \in Runs |-> Absent]
      /\ runs = [r \in Runs |-> NewRun]
  BY DEF ProjInit
<1>2. NewRun \in RunRecords
  BY DEF NewRun, RunRecords, Maybe, ProjKinds
<1>3. /\ NewRun.at = "idle" /\ NewRun.kind = "deploy" /\ ~NewRun.sawTorn /\ NewRun.prev = Absent
      /\ NewRun.found = "unread"
  BY DEF NewRun
<1>4. ProjTypeOK
  BY <1>1, <1>2 DEF ProjTypeOK, Maybe
<1>5. Finished = {}
  BY <1>1, <1>3 DEF Finished
<1>6. HistoriesAreSound
  BY <1>1, <1>3, <1>5, FS_EmptySet DEF HistoriesAreSound, StateIsSound
<1>7. \A r \in Runs : RunIsPlaced(r)
  BY <1>1, <1>3 DEF RunIsPlaced, Active
<1>8. \A r \in Runs : BundleIsSound(r)
  BY <1>1, <1>3 DEF BundleIsSound
<1>9. \A r \in Runs : DirIsOwn(r)
  BY <1>1, <1>3 DEF DirIsOwn, Active
<1> QED
  BY <1>4, <1>5, <1>6, <1>7, <1>8, <1>9 DEF ProjInv

\* What each step does to the run that takes it.
LEMMA OverlapShape ==
    ASSUME ProjTypeOK, NEW r \in Runs, NEW kind \in ProjKinds,
           NEW next, runs' = [Overlap(r, kind) EXCEPT ![r] = next], next \in RunRecords
    PROVE  /\ OnlyRun(r) /\ runs'[r] = next
           /\ \A d \in Runs \ {r} : kind = "deploy" /\ runs'[d].alone => ~Active(d)
<1>1. PICK o : o = Overlap(r, kind)
  OBVIOUS
<1>2. o = [d \in Runs |->
            IF d = r THEN [runs[r] EXCEPT !.alone = \A x \in Runs : ~Active(x)]
            ELSE [runs[d] EXCEPT !.alone = runs[d].alone /\ ~(Active(d) /\ kind = "deploy")]]
  BY <1>1 DEF Overlap
<1>3. runs' = [o EXCEPT ![r] = next] /\ runs \in [Runs -> RunRecords]
  BY <1>1 DEF ProjTypeOK
<1>4. ASSUME NEW d \in Runs \ {r}
      PROVE  Untouched(d) /\ runs'[d] \in RunRecords
             /\ (kind = "deploy" /\ runs'[d].alone => ~Active(d))
  <2>1. PICK a \in BOOLEAN : a <=> runs[d].alone /\ ~(Active(d) /\ kind = "deploy")
    OBVIOUS
  <2>2. runs[d].alone \in BOOLEAN /\ runs[d] \in RunRecords
    BY <1>3 DEF RunRecords
  <2>3. o[d] = [runs[d] EXCEPT !.alone = a]
    BY <1>2, <2>1, <2>2
  <2>4. runs'[d] = o[d]
    BY <1>2, <1>3
  <2> QED
    BY <2>1, <2>2, <2>3, <2>4 DEF Untouched, RunRecords
<1> QED
  BY <1>2, <1>3, <1>4 DEF OnlyRun

LEMMA StartDeployShape ==
    ASSUME ProjTypeOK, NEW r \in Runs, StartDeploy(r)
    PROVE  /\ OnlyRun(r) /\ UNCHANGED <<project, dirs, bundle, jobs>> /\ runs[r].at = "idle"
           /\ runs'[r].at = "loaded" /\ runs'[r].kind = runs[r].kind
           /\ runs'[r].sawTorn = (project = Torn)
           /\ runs'[r].prev = StateOrNone(project)
           /\ runs'[r].given => runs'[r].dir = r
           /\ runs'[r].got = runs[r].got /\ runs'[r].found = runs[r].found
           /\ runs'[r].stageAlone = runs[r].stageAlone
           /\ runs'[r].alone => \A x \in Runs \ {r} : ~Active(x)
           /\ \A d \in Runs \ {r} : runs'[d].alone => ~Active(d)
<1>1. PICK given \in BOOLEAN :
         runs' = [Overlap(r, "deploy") EXCEPT
            ![r] = [@ EXCEPT !.at = "loaded", !.given = given, !.sawTorn = (project = Torn),
                             !.prev = StateOrNone(project),
                             !.dir = StoreDir(r, given, StateOrNone(project))]]
  BY DEF StartDeploy
<1>2. PICK o : o = Overlap(r, "deploy")
  OBVIOUS
<1>3. PICK a \in BOOLEAN : a <=> \A x \in Runs : ~Active(x)
  OBVIOUS
<1>4. o[r] = [runs[r] EXCEPT !.alone = a] /\ r \in DOMAIN o /\ runs[r] \in RunRecords
  BY <1>2, <1>3 DEF Overlap, ProjTypeOK
<1>5. PICK prev \in Maybe(ProjectStates) : prev = StateOrNone(project)
  BY DEF StateOrNone, ProjTypeOK, Maybe
<1>6. PICK dir \in Maybe(Runs) : dir = StoreDir(r, given, prev) /\ (given => dir = r)
  BY <1>5 DEF StoreDir, Maybe, ProjectStates
<1>7. PICK torn \in BOOLEAN : torn = (project = Torn)
  OBVIOUS
<1>8. PICK next : next = [o[r] EXCEPT !.at = "loaded", !.given = given, !.sawTorn = torn,
                                      !.prev = prev, !.dir = dir]
  OBVIOUS
<1>9. o[r] \in RunRecords /\ o[r].alone = a /\ o[r].kind = runs[r].kind
      /\ o[r].got = runs[r].got /\ o[r].found = runs[r].found /\ o[r].stageAlone = runs[r].stageAlone
  BY <1>4 DEF RunRecords
<1>10. next \in RunRecords
  BY <1>8, <1>9 DEF RunRecords
<1>11. /\ next.at = "loaded" /\ next.given = given /\ next.sawTorn = torn /\ next.prev = prev
       /\ next.dir = dir /\ next.alone = a /\ next.kind = runs[r].kind /\ next.got = runs[r].got
       /\ next.found = runs[r].found /\ next.stageAlone = runs[r].stageAlone
  BY <1>8, <1>9 DEF RunRecords
<1>12. runs' = [Overlap(r, "deploy") EXCEPT ![r] = next]
  BY <1>1, <1>2, <1>5, <1>6, <1>7, <1>8
<1>13. /\ OnlyRun(r) /\ runs'[r] = next
       /\ \A d \in Runs \ {r} : runs'[d].alone => ~Active(d)
  BY <1>10, <1>12, OverlapShape DEF ProjKinds
<1> QED
  BY <1>3, <1>5, <1>6, <1>7, <1>11, <1>13 DEF StartDeploy

\* A step that changes only the record of its run.
LEMMA OneShape ==
    ASSUME ProjTypeOK, NEW r \in Runs, NEW next \in RunRecords, runs' = [runs EXCEPT ![r] = next]
    PROVE  OnlyRun(r) /\ runs'[r] = next
  BY DEF OnlyRun, Untouched, ProjTypeOK

\* The places a deployment passes through: all else of its record stays.
LEMMA GoesShape ==
    ASSUME ProjTypeOK, NEW r \in Runs, NEW at \in {"submitted", "reported", "writing"},
           runs' = [runs EXCEPT ![r].at = at]
    PROVE  /\ OnlyRun(r) /\ runs'[r].at = at /\ runs'[r].kind = runs[r].kind
           /\ runs'[r].prev = runs[r].prev /\ runs'[r].dir = runs[r].dir
           /\ runs'[r].got = runs[r].got /\ runs'[r].found = runs[r].found
           /\ runs'[r].sawTorn = runs[r].sawTorn /\ runs'[r].given = runs[r].given
           /\ runs'[r].alone = runs[r].alone /\ runs'[r].stageAlone = runs[r].stageAlone
  BY DEF OnlyRun, Untouched, ProjTypeOK, RunRecords

LEMMA BuildShape ==
    ASSUME ProjTypeOK, NEW r \in Runs, Build(r)
    PROVE  /\ OnlyRun(r) /\ runs'[r].at = "built" /\ runs'[r].kind = runs[r].kind
           /\ runs'[r].prev = runs[r].prev /\ runs'[r].dir = runs[r].dir
           /\ runs'[r].got = runs[r].got /\ runs'[r].found = runs[r].found
           /\ runs'[r].sawTorn = runs[r].sawTorn /\ runs'[r].given = runs[r].given
           /\ runs'[r].alone = runs[r].alone
           /\ \A d \in Runs \ {r} : runs'[d].stageAlone => runs[d].at # "built"
           /\ \A d \in Runs \ {r} : runs'[d].alone = runs[d].alone
<1>1. runs' = [d \in Runs |->
        IF d = r THEN [runs[r] EXCEPT !.at = "built", !.stageAlone = TRUE]
        ELSE [runs[d] EXCEPT !.stageAlone = runs[d].stageAlone /\ runs[d].at # "built"]]
  BY DEF Build
<1>2. runs \in [Runs -> RunRecords]
  BY DEF ProjTypeOK
<1>3. runs'[r] = [runs[r] EXCEPT !.at = "built", !.stageAlone = TRUE]
  BY <1>1
<1>4. /\ runs'[r] \in RunRecords /\ runs'[r].at = "built" /\ runs'[r].kind = runs[r].kind
      /\ runs'[r].prev = runs[r].prev /\ runs'[r].dir = runs[r].dir
      /\ runs'[r].got = runs[r].got /\ runs'[r].found = runs[r].found
      /\ runs'[r].sawTorn = runs[r].sawTorn /\ runs'[r].given = runs[r].given
      /\ runs'[r].alone = runs[r].alone
  <2>1. PICK own : own = runs[r]
    OBVIOUS
  <2>2. own \in RunRecords
    BY <2>1, <1>2
  <2>3. PICK next : next = [own EXCEPT !.at = "built", !.stageAlone = TRUE]
    OBVIOUS
  <2>4. next \in RunRecords
    BY <2>2, <2>3 DEF RunRecords
  <2>5. /\ next.at = "built" /\ next.kind = own.kind /\ next.prev = own.prev
        /\ next.dir = own.dir /\ next.got = own.got /\ next.found = own.found
        /\ next.sawTorn = own.sawTorn /\ next.given = own.given /\ next.alone = own.alone
    BY <2>2, <2>3 DEF RunRecords
  <2>6. runs'[r] = next
    BY <1>3, <2>1, <2>3
  <2> QED
    BY <2>1, <2>4, <2>5, <2>6
<1>5. ASSUME NEW d \in Runs \ {r}
      PROVE  Untouched(d) /\ runs'[d] \in RunRecords /\ runs'[d].alone = runs[d].alone
             /\ (runs'[d].stageAlone => runs[d].at # "built")
  <2>1. runs[d] \in RunRecords /\ runs[d].stageAlone \in BOOLEAN
    BY <1>2 DEF RunRecords
  <2>2. PICK a \in BOOLEAN : a <=> runs[d].stageAlone /\ runs[d].at # "built"
    OBVIOUS
  <2>3. runs'[d] = [runs[d] EXCEPT !.stageAlone = a]
    BY <1>1, <2>1, <2>2
  <2> QED
    BY <2>1, <2>2, <2>3 DEF Untouched, RunRecords
<1> QED
  BY <1>1, <1>4, <1>5 DEF OnlyRun

LEMMA EndSaveShape ==
    ASSUME ProjTypeOK, NEW r \in Runs, EndSave(r)
    PROVE  /\ OnlyRun(r) /\ runs'[r].at = "done" /\ runs'[r].kind = "deploy"
           /\ runs'[r].prev = Absent /\ runs'[r].dir = Absent
           /\ runs'[r].got = runs[r].got /\ runs'[r].found = runs[r].found
           /\ runs'[r].sawTorn = runs[r].sawTorn /\ runs'[r].given = runs[r].given
           /\ runs'[r].alone = runs[r].alone /\ runs'[r].stageAlone = runs[r].stageAlone
<1>1. PICK next : next = [runs[r] EXCEPT !.at = "done", !.prev = Absent, !.dir = Absent]
  OBVIOUS
<1>2. runs[r] \in RunRecords /\ runs[r].kind = "deploy" /\ runs' = [runs EXCEPT ![r] = next]
  BY <1>1 DEF EndSave, ProjTypeOK
<1>3. /\ next \in RunRecords /\ next.at = "done" /\ next.kind = "deploy"
      /\ next.prev = Absent /\ next.dir = Absent
      /\ next.got = runs[r].got /\ next.found = runs[r].found
      /\ next.sawTorn = runs[r].sawTorn /\ next.given = runs[r].given
      /\ next.alone = runs[r].alone /\ next.stageAlone = runs[r].stageAlone
  BY <1>1, <1>2 DEF RunRecords, Maybe
<1> QED
  BY <1>2, <1>3, OneShape

LEMMA KillShape ==
    ASSUME ProjTypeOK, NEW r \in Runs, Kill(r)
    PROVE  /\ OnlyRun(r) /\ runs'[r].at \in {"tore", "died"} /\ runs'[r].kind = "deploy"
           /\ runs'[r].prev = Absent /\ runs'[r].dir = Absent
           /\ runs'[r].got = Absent /\ runs'[r].found = "unread"
           /\ runs'[r].sawTorn = runs[r].sawTorn /\ runs'[r].given = runs[r].given
           /\ runs'[r].stageAlone = runs[r].stageAlone
<1>1. PICK at \in {"tore", "died"} : at = IF runs[r].at = "writing" THEN "tore" ELSE "died"
  OBVIOUS
<1>2. PICK next : next = [NewRun EXCEPT !.at = at, !.given = runs[r].given,
                            !.stageAlone = runs[r].stageAlone, !.sawTorn = runs[r].sawTorn]
  OBVIOUS
<1>3. runs' = [runs EXCEPT ![r] = next]
  BY <1>1, <1>2 DEF Kill
<1>4. /\ runs[r].given \in BOOLEAN /\ runs[r].stageAlone \in BOOLEAN
      /\ runs[r].sawTorn \in BOOLEAN
  BY DEF ProjTypeOK, RunRecords
<1>5. /\ next.at = at /\ next.kind = "deploy" /\ next.prev = Absent /\ next.dir = Absent
      /\ next.got = Absent /\ next.found = "unread" /\ next.sawTorn = runs[r].sawTorn
      /\ next.given = runs[r].given /\ next.stageAlone = runs[r].stageAlone
  BY <1>2 DEF NewRun
<1>6. next \in RunRecords
  BY <1>2, <1>4 DEF NewRun, RunRecords, Maybe, ProjKinds
<1> QED
  BY <1>3, <1>5, <1>6, OneShape

LEMMA ResumeShape ==
    ASSUME ProjTypeOK, NEW r \in Runs, Resume(r)
    PROVE  /\ OnlyRun(r) /\ runs'[r].at = "done" /\ runs'[r].kind = runs[r].kind
           /\ runs'[r].prev = runs[r].prev /\ runs'[r].dir = Absent
           /\ runs'[r].got = Absent /\ runs'[r].found = runs[r].found
           /\ runs'[r].sawTorn = runs[r].sawTorn /\ runs'[r].given = runs[r].given
           /\ runs'[r].alone = runs[r].alone /\ runs'[r].stageAlone = runs[r].stageAlone
<1>1. PICK next : next = [runs[r] EXCEPT !.at = "done", !.dir = Absent, !.got = Absent]
  OBVIOUS
<1>2. runs[r] \in RunRecords /\ runs' = [runs EXCEPT ![r] = next]
  BY <1>1 DEF Resume, ProjTypeOK
<1>3. /\ next \in RunRecords /\ next.at = "done" /\ next.kind = runs[r].kind
      /\ next.prev = runs[r].prev /\ next.dir = Absent
      /\ next.got = Absent /\ next.found = runs[r].found
      /\ next.sawTorn = runs[r].sawTorn /\ next.given = runs[r].given
      /\ next.alone = runs[r].alone /\ next.stageAlone = runs[r].stageAlone
  BY <1>1, <1>2 DEF RunRecords, Maybe
<1> QED
  BY <1>2, <1>3, OneShape

LEMMA ResolveShape ==
    ASSUME ProjTypeOK, NEW r \in Runs, Resolve(r)
    PROVE  /\ OnlyRun(r) /\ UNCHANGED <<project, dirs, bundle, jobs>> /\ runs[r].at = "idle"
           /\ runs'[r].at \in {"resolved", "refused", "done"}
           /\ runs'[r].kind \in {"resume", "status"}
           /\ runs'[r].at = "resolved" => runs'[r].kind = "resume"
           /\ runs'[r].at = "resolved" => runs'[r].dir \in Runs /\ runs'[r].got # Absent
           /\ runs'[r].at = "resolved" => runs'[r].got = LoadedWorkflow(runs'[r].dir)
           /\ runs'[r].sawTorn \in BOOLEAN
           /\ runs'[r].prev = runs[r].prev
           /\ runs'[r].found = "other_run" =>
                 \E e \in Runs : LoadedWorkflow(e) # Absent /\ LoadedWorkflow(e) # e
           /\ runs'[r].stageAlone = runs[r].stageAlone
<1>1. PICK kind \in {"resume", "status"}, source \in Sources, e \in Runs \ {r} :
        LET prev == StateOrNone(project)
            dir == ChosenDir(source, e, prev)
            got == IF dir = Absent THEN Absent ELSE LoadedWorkflow(dir)
            goesOn == kind = "resume" /\ got # Absent
        IN  runs' = [Overlap(r, kind) EXCEPT
                ![r] = [@ EXCEPT
                    !.kind = kind, !.given = (source = "runDir"), !.sawTorn = (project = Torn),
                    !.found = Finding(source, prev, dir, got),
                    !.dir = IF goesOn THEN dir ELSE Absent, !.got = IF goesOn THEN got ELSE Absent,
                    !.at = IF goesOn THEN "resolved" ELSE IF got = Absent THEN "refused" ELSE "done"]]
  BY DEF Resolve
<1>2. PICK prev \in Maybe(ProjectStates) : prev = StateOrNone(project)
  BY DEF StateOrNone, ProjTypeOK, Maybe
<1>3. PICK dir \in Maybe(Runs) : dir = ChosenDir(source, e, prev)
  BY <1>2 DEF ChosenDir, Sources, Maybe, ProjectStates
<1>4. PICK got \in Maybe(Runs) : got = IF dir = Absent THEN Absent ELSE LoadedWorkflow(dir)
  BY <1>3 DEF LoadedWorkflow, Maybe, ProjTypeOK
<1>5. PICK found \in {"two_sources", "nothing", "own_run", "other_run"} :
         found = Finding(source, prev, dir, got)
  BY DEF Finding
<1>6. PICK goesOn \in BOOLEAN : goesOn <=> kind = "resume" /\ got # Absent
  OBVIOUS
<1>7. PICK at \in {"resolved", "refused", "done"} :
         at = IF goesOn THEN "resolved" ELSE IF got = Absent THEN "refused" ELSE "done"
  OBVIOUS
<1>8. PICK dir2 \in Maybe(Runs), got2 \in Maybe(Runs) :
         dir2 = (IF goesOn THEN dir ELSE Absent) /\ got2 = (IF goesOn THEN got ELSE Absent)
  BY DEF Maybe
<1>9. PICK given \in BOOLEAN, torn \in BOOLEAN :
         given = (source = "runDir") /\ torn = (project = Torn)
  OBVIOUS
<1>10. PICK o : o = Overlap(r, kind)
  OBVIOUS
<1>11. PICK next : next = [o[r] EXCEPT !.kind = kind, !.given = given, !.sawTorn = torn,
                             !.found = found, !.dir = dir2, !.got = got2, !.at = at]
  OBVIOUS
<1>12. runs' = [o EXCEPT ![r] = next]
  BY <1>1, <1>2, <1>3, <1>4, <1>5, <1>6, <1>7, <1>8, <1>9, <1>10, <1>11
<1>13. PICK a \in BOOLEAN : a <=> \A x \in Runs : ~Active(x)
  OBVIOUS
<1>14. o[r] = [runs[r] EXCEPT !.alone = a] /\ runs[r] \in RunRecords
  BY <1>10, <1>13 DEF Overlap, ProjTypeOK
<1>15. o[r] \in RunRecords /\ o[r].stageAlone = runs[r].stageAlone /\ o[r].prev = runs[r].prev
  BY <1>14 DEF RunRecords
<1>16. next \in RunRecords
  BY <1>11, <1>15 DEF RunRecords, ProjKinds
<1>17. /\ next.kind = kind /\ next.given = given /\ next.sawTorn = torn /\ next.found = found
       /\ next.dir = dir2 /\ next.got = got2 /\ next.at = at
       /\ next.stageAlone = runs[r].stageAlone /\ next.prev = runs[r].prev
  BY <1>11, <1>15 DEF RunRecords
<1>18. OnlyRun(r) /\ runs'[r] = next
  BY <1>10, <1>12, <1>16, OverlapShape DEF ProjKinds
<1>19. goesOn => dir \in Runs /\ got = LoadedWorkflow(dir)
  BY <1>3, <1>4, <1>6 DEF Maybe
<1>20. at = "resolved" => goesOn
  BY <1>7
<1>21. found = "other_run" => dir \in Runs /\ got # Absent /\ got # dir /\ got = LoadedWorkflow(dir)
  BY <1>3, <1>4, <1>5 DEF Finding, Maybe
<1> QED
  BY <1>6, <1>8, <1>9, <1>17, <1>18, <1>19, <1>20, <1>21 DEF Resolve

\* What is put in front of a history moves the others by at most one place, so
\* that nothing falls out before the list is full.
LEMMA FrontIsTight ==
    ASSUME NEW h \in Histories, NEW r \in Runs, NEW S, IsFiniteSet(S), IsTight(h, S)
    PROVE  /\ WithFront(r, h) \in Histories
           /\ WithFront(r, h)[r] = 1
           /\ IsTight(WithFront(r, h), S \cup {r})
           /\ Cardinality(S \cup {r}) <= MaxReports =>
                 \A x \in Runs : h[x] # 0 => WithFront(r, h)[x] # 0
<1> DEFINE P(x) == PlaceBehind(r, h, x)
<1>1. MaxReports \in Nat /\ MaxReports >= 1 /\ \A x \in Runs : h[x] \in 0..MaxReports
  BY ProjectOK DEF Histories
<1>2. \A x \in Runs : /\ P(x) \in Nat
                      /\ P(x) = IF h[x] = 0 \/ h[r] \in 1..h[x] THEN h[x] ELSE h[x] + 1
                      /\ P(x) = 0 <=> h[x] = 0
  BY <1>1 DEF PlaceBehind
<1>3. PICK g : g = WithFront(r, h)
  OBVIOUS
<1>4. /\ g = [x \in Runs |-> IF x = r THEN 1 ELSE IF P(x) > MaxReports THEN 0 ELSE P(x)]
  BY <1>3 DEF WithFront
<1> HIDE DEF P
<1>5. g \in Histories /\ g[r] = 1
  BY <1>1, <1>2, <1>4 DEF Histories
<1>6. IsFiniteSet(S \cup {r}) /\ Cardinality(S \cup {r}) \in Nat
  BY FS_AddElement, FS_CardinalityType
<1>7. \A y \in Runs : h[y] # 0 => y \in S
  BY DEF IsTight
<1>8. \A y \in Runs : g[y] # 0 => y \in S \cup {r}
  BY <1>2, <1>4, <1>7
<1>9. ASSUME NEW x \in Runs, h[x] # 0
      PROVE  /\ UpTo(h, x) \subseteq S /\ IsFiniteSet(UpTo(h, x) \cup {r})
             /\ P(x) <= Cardinality(UpTo(h, x) \cup {r})
             /\ Cardinality(UpTo(h, x) \cup {r}) <= Cardinality(S \cup {r})
             /\ Cardinality(UpTo(h, x) \cup {r}) \in Nat
  <2>1. UpTo(h, x) \subseteq S
    <3>1. \A y \in Runs : h[y] \in 1..h[x] => h[y] # 0
      BY <1>1
    <3> QED
      BY <1>7, <3>1 DEF UpTo
  <2>2. IsFiniteSet(UpTo(h, x)) /\ Cardinality(UpTo(h, x)) \in Nat
    BY <2>1, FS_Subset, FS_CardinalityType
  <2>3. /\ IsFiniteSet(UpTo(h, x) \cup {r})
        /\ Cardinality(UpTo(h, x) \cup {r}) =
              IF r \in UpTo(h, x) THEN Cardinality(UpTo(h, x)) ELSE Cardinality(UpTo(h, x)) + 1
    BY <2>2, FS_AddElement
  <2>4. Cardinality(UpTo(h, x) \cup {r}) <= Cardinality(S \cup {r})
    BY <1>6, <2>1, FS_Subset
  <2>5. h[x] <= Cardinality(UpTo(h, x))
    BY <1>9 DEF IsTight
  <2>6. r \in UpTo(h, x) <=> h[r] \in 1..h[x]
    BY DEF UpTo
  <2> QED
    BY <1>1, <1>2, <1>9, <2>1, <2>2, <2>3, <2>4, <2>5, <2>6
<1>10. ASSUME NEW x \in Runs, g[x] # 0
      PROVE  x \in S \cup {r} /\ g[x] <= Cardinality(UpTo(g, x))
  <2>1. UpTo(g, x) \subseteq S \cup {r}
    <3>1. \A y \in Runs : g[y] \in 1..g[x] => g[y] # 0
      BY <1>5 DEF Histories
    <3> QED
      BY <1>8, <3>1 DEF UpTo
  <2>2. IsFiniteSet(UpTo(g, x)) /\ Cardinality(UpTo(g, x)) \in Nat
    BY <1>6, <2>1, FS_Subset, FS_CardinalityType
  <2>3. CASE x = r
    <3>1. {r} \subseteq UpTo(g, x)
      BY <1>5, <2>3 DEF UpTo
    <3>2. Cardinality({r}) = 1
      BY FS_Singleton
    <3>3. 1 <= Cardinality(UpTo(g, x))
      BY <2>2, <3>1, <3>2, FS_Subset
    <3> QED
      BY <1>5, <2>3, <3>3
  <2>4. CASE x # r
    <3>1. g[x] = P(x) /\ h[x] # 0 /\ P(x) \in Nat
      BY <1>2, <1>4, <1>10, <2>4
    <3>2. UpTo(h, x) \cup {r} \subseteq UpTo(g, x)
      <4>1. r \in UpTo(g, x)
        BY <1>2, <1>5, <3>1 DEF UpTo
      <4>2. ASSUME NEW y \in UpTo(h, x), y # r PROVE y \in UpTo(g, x)
        <5>1. y \in Runs /\ h[y] >= 1 /\ h[y] <= h[x]
          BY <1>1, <4>2 DEF UpTo
        <5>2. P(y) <= P(x) /\ P(y) >= 1
          BY <1>1, <1>2, <5>1
        <5>3. P(x) <= MaxReports
          BY <1>1, <1>4, <1>10, <2>4, <3>1
        <5>4. g[y] = P(y)
          BY <1>1, <1>2, <1>4, <4>2, <5>1, <5>2, <5>3
        <5> QED
          BY <1>2, <3>1, <5>1, <5>2, <5>4 DEF UpTo
      <4> QED
        BY <4>1, <4>2
    <3>3. Cardinality(UpTo(h, x) \cup {r}) <= Cardinality(UpTo(g, x))
      BY <2>2, <3>2, FS_Subset
    <3>4. P(x) <= Cardinality(UpTo(h, x) \cup {r}) /\ Cardinality(UpTo(h, x) \cup {r}) \in Nat
      BY <1>9, <3>1
    <3>5. x \in S
      BY <3>1 DEF IsTight
    <3> QED
      BY <2>2, <3>1, <3>3, <3>4, <3>5
  <2> QED
    BY <2>3, <2>4
<1>11. ASSUME Cardinality(S \cup {r}) <= MaxReports, NEW x \in Runs, h[x] # 0 PROVE g[x] # 0
  <2>3. /\ P(x) <= Cardinality(UpTo(h, x) \cup {r}) /\ P(x) \in Nat
        /\ Cardinality(UpTo(h, x) \cup {r}) <= Cardinality(S \cup {r})
        /\ Cardinality(UpTo(h, x) \cup {r}) \in Nat
    BY <1>2, <1>9, <1>11
  <2>1. P(x) <= MaxReports
    BY <1>1, <1>6, <1>11, <2>3
  <2> QED
    BY <1>1, <1>2, <1>4, <1>11, <2>1
<1> QED
  BY <1>3, <1>5, <1>10, <1>11 DEF IsTight

\* The state that a deployment saves.
LEMMA SavedIsSound ==
    ASSUME ProjInv, NEW r \in Runs, EndSave(r)
    PROVE  /\ project' = SavedState(r) /\ SavedState(r) \in ProjectStates
           /\ SavedState(r).latest = r /\ SavedState(r).reports[r] = 1
           /\ IsTight(SavedState(r).reports, Finished \cup {r})
           /\ Cardinality(Finished \cup {r}) <= MaxReports /\ runs[r].prev # Absent =>
                 \A x \in Runs : runs[r].prev.reports[x] # 0 => SavedState(r).reports[x] # 0
<1>1. runs[r].prev \in Maybe(ProjectStates) /\ StateIsSound(runs[r].prev, Finished)
      /\ IsFiniteSet(Finished)
  BY DEF ProjInv, HistoriesAreSound, ProjTypeOK, RunRecords
<1>2. PICK h : h = Earlier(r)
  OBVIOUS
<1>3. h \in Histories /\ IsTight(h, Finished) /\ (runs[r].prev # Absent => h = runs[r].prev.reports)
  <2>1. CASE runs[r].prev = Absent
    <3>1. h = [x \in Runs |-> 0]
      BY <1>2, <2>1 DEF Earlier
    <3> QED
      BY <2>1, <3>1, ProjectOK DEF Histories, IsTight
  <2>2. CASE runs[r].prev # Absent
    <3>1. runs[r].prev \in ProjectStates /\ runs[r].prev \notin {Absent, Torn}
      BY <1>1, <2>2, ProjectOK DEF Maybe
    <3> QED
      BY <1>1, <1>2, <2>2, <3>1 DEF Earlier, StateIsSound, ProjectStates
  <2> QED
    BY <2>1, <2>2
<1>4. SavedState(r) = [latest |-> r, reports |-> WithFront(r, h)]
  BY <1>2 DEF SavedState
<1>5. /\ WithFront(r, h) \in Histories /\ WithFront(r, h)[r] = 1
      /\ IsTight(WithFront(r, h), Finished \cup {r})
      /\ Cardinality(Finished \cup {r}) <= MaxReports =>
            \A x \in Runs : h[x] # 0 => WithFront(r, h)[x] # 0
  BY <1>1, <1>3, FrontIsTight
<1> QED
  BY <1>3, <1>4, <1>5 DEF EndSave, ProjectStates

\* Which files a step changes.
LEMMA SaveProgressDirs ==
    ASSUME ProjTypeOK, NEW r \in Runs, SaveProgress(r)
    PROVE  /\ dirs' \in [Runs -> [snap : Maybe(Runs), report : Maybe(Runs)]]
           /\ \A e \in Runs : /\ dirs'[e].report = dirs[e].report
                              /\ dirs'[e].snap = IF e = runs[r].dir THEN r ELSE dirs[e].snap
<1>1. runs[r].dir \in Runs /\ dirs' = [dirs EXCEPT ![runs[r].dir].snap = r]
  BY DEF SaveProgress, ProjTypeOK, RunRecords, Maybe
<1>2. dirs \in [Runs -> [snap : Maybe(Runs), report : Maybe(Runs)]] /\ r \in Maybe(Runs)
  BY DEF ProjTypeOK, Maybe
<1> QED
  BY <1>1, <1>2

LEMMA SubmitJobDirs ==
    ASSUME ProjTypeOK, NEW r \in Runs, SubmitJob(r)
    PROVE  /\ dirs' \in [Runs -> [snap : Maybe(Runs), report : Maybe(Runs)]]
           /\ \A e \in Runs : /\ dirs'[e].snap = dirs[e].snap
                              /\ dirs'[e].report = IF e = r THEN r ELSE dirs[e].report
<1>1. dirs' = [dirs EXCEPT ![r].report = r]
  BY DEF SubmitJob
<1>2. dirs \in [Runs -> [snap : Maybe(Runs), report : Maybe(Runs)]] /\ r \in Maybe(Runs)
  BY DEF ProjTypeOK, Maybe
<1> QED
  BY <1>1, <1>2

LEMMA SaveFinalDirs ==
    ASSUME ProjTypeOK, NEW r \in Runs, SaveFinal(r)
    PROVE  /\ dirs' \in [Runs -> [snap : Maybe(Runs), report : Maybe(Runs)]]
           /\ \A e \in Runs :
                /\ dirs'[e].report = IF e = r THEN r ELSE dirs[e].report
                /\ dirs'[e].snap = IF e = runs[r].dir \/ (e = r /\ runs[r].dir = Absent)
                                     THEN r ELSE dirs[e].snap
<1>1. PICK to \in Runs : to = IF runs[r].dir = Absent THEN r ELSE runs[r].dir
  BY DEF ProjTypeOK, RunRecords, Maybe
<1>2. dirs \in [Runs -> [snap : Maybe(Runs), report : Maybe(Runs)]] /\ r \in Maybe(Runs)
  BY DEF ProjTypeOK, Maybe
<1>3. PICK mid : mid = [dirs EXCEPT ![to].snap = r]
  OBVIOUS
<1>4. /\ mid \in [Runs -> [snap : Maybe(Runs), report : Maybe(Runs)]]
      /\ \A e \in Runs : /\ mid[e].report = dirs[e].report
                         /\ mid[e].snap = IF e = to THEN r ELSE dirs[e].snap
  BY <1>2, <1>3
<1>5. dirs' = [mid EXCEPT ![r].report = r]
  BY <1>1, <1>3 DEF SaveFinal
<1>6. /\ dirs' \in [Runs -> [snap : Maybe(Runs), report : Maybe(Runs)]]
      /\ \A e \in Runs : /\ dirs'[e].report = IF e = r THEN r ELSE mid[e].report
                         /\ dirs'[e].snap = mid[e].snap
  BY <1>2, <1>4, <1>5
<1>7. Absent \notin Runs
  BY ProjectOK
<1> QED
  BY <1>1, <1>4, <1>6, <1>7

LEMMA ResumeDirs ==
    ASSUME ProjTypeOK, NEW r \in Runs, Resume(r), runs[r].dir # Absent
    PROVE  /\ dirs' \in [Runs -> [snap : Maybe(Runs), report : Maybe(Runs)]]
           /\ \A e \in Runs :
                /\ dirs'[e].report = IF e = runs[r].dir THEN runs[r].got ELSE dirs[e].report
                /\ dirs'[e].snap = IF e = runs[r].dir THEN runs[r].got ELSE dirs[e].snap
<1>1. PICK e \in Runs, got \in Maybe(Runs) : e = runs[r].dir /\ got = runs[r].got
  BY DEF ProjTypeOK, RunRecords, Maybe
<1>2. dirs \in [Runs -> [snap : Maybe(Runs), report : Maybe(Runs)]]
  BY DEF ProjTypeOK
<1>3. dirs' = [dirs EXCEPT ![e] = [snap |-> got, report |-> got]]
  BY <1>1 DEF Resume
<1> QED
  BY <1>1, <1>2, <1>3

LEMMA ProjTypeStep ==
    ASSUME ProjInv, NEW r \in Runs, Deploy(r) \/ Resolve(r) \/ Resume(r)
    PROVE  ProjTypeOK' /\ OnlyRun(r)
<1>1. ProjTypeOK /\ RunIsPlaced(r)
  BY DEF ProjInv
<1>2. CASE StartDeploy(r) \/ Resolve(r)
  BY <1>1, <1>2, StartDeployShape, ResolveShape DEF ProjTypeOK, OnlyRun
<1>3. CASE SaveProgress(r)
  BY <1>1, <1>3, SaveProgressDirs DEF SaveProgress, ProjTypeOK, OnlyRun, Untouched
<1>4. CASE Build(r)
  BY <1>1, <1>4, BuildShape DEF Build, ProjTypeOK, OnlyRun, Maybe
<1>5. CASE SubmitJob(r)
  <2>1. OnlyRun(r)
    BY <1>1, <1>5, GoesShape DEF SubmitJob
  <2>2. jobs' \in [Runs -> Maybe(Runs)]
    BY <1>1, <1>5 DEF SubmitJob, ProjTypeOK
  <2> QED
    BY <1>1, <1>5, <2>1, <2>2, SubmitJobDirs DEF SubmitJob, ProjTypeOK, OnlyRun
<1>6. CASE SaveFinal(r)
  <2>1. OnlyRun(r)
    BY <1>1, <1>6, GoesShape DEF SaveFinal
  <2> QED
    BY <1>1, <1>6, <2>1, SaveFinalDirs DEF SaveFinal, ProjTypeOK, OnlyRun
<1>7. CASE StartSave(r)
  <2>1. OnlyRun(r)
    BY <1>1, <1>7, GoesShape DEF StartSave
  <2> QED
    BY <1>1, <1>7, <2>1 DEF StartSave, ProjTypeOK, OnlyRun
<1>8. CASE EndSave(r)
  <2>1. OnlyRun(r) /\ project' \in ProjectStates
    BY <1>1, <1>8, EndSaveShape, SavedIsSound
  <2> QED
    BY <1>1, <1>8, <2>1 DEF EndSave, ProjTypeOK, OnlyRun, Maybe
<1>9. CASE Kill(r)
  BY <1>1, <1>9, KillShape DEF Kill, ProjTypeOK, OnlyRun
<1>10. CASE Resume(r)
  <2>1. OnlyRun(r) /\ runs[r].dir # Absent
    BY <1>1, <1>10, ResumeShape DEF Resume, RunIsPlaced
  <2> QED
    BY <1>1, <1>10, <2>1, ResumeDirs DEF Resume, ProjTypeOK, OnlyRun
<1> QED
  BY <1>2, <1>3, <1>4, <1>5, <1>6, <1>7, <1>8, <1>9, <1>10 DEF Deploy

\* Only the end of a deployment adds to those that have finished.
LEMMA FinishedStep ==
    ASSUME ProjInv, NEW r \in Runs, Deploy(r) \/ Resolve(r) \/ Resume(r)
    PROVE  /\ EndSave(r) => Finished' = Finished \cup {r}
           /\ ~EndSave(r) => Finished' = Finished
<1>1. OnlyRun(r) /\ ProjTypeOK /\ RunIsPlaced(r)
  BY ProjTypeStep DEF ProjInv
<1>2. \A d \in Runs \ {r} : d \in Finished' <=> d \in Finished
  BY <1>1 DEF OnlyRun, Untouched, Finished
<1>3. CASE EndSave(r)
  <2>1. r \in Finished'
    BY <1>1, <1>3, EndSaveShape DEF Finished
  <2>2. Finished' \subseteq Runs /\ Finished \subseteq Runs
    BY DEF Finished
  <2> QED
    BY <1>2, <1>3, <2>1, <2>2
<1>4. CASE ~EndSave(r)
  <2>1. r \in Finished' <=> r \in Finished
    <3>1. CASE StartDeploy(r) \/ Resolve(r)
      BY <1>1, <3>1, StartDeployShape, ResolveShape DEF Finished
    <3>2. CASE SaveProgress(r)
      BY <3>2 DEF SaveProgress, Finished
    <3>3. CASE Build(r)
      BY <1>1, <3>3, BuildShape DEF Build, Finished
    <3>4. CASE SubmitJob(r) \/ SaveFinal(r) \/ StartSave(r)
      BY <1>1, <3>4, GoesShape DEF SubmitJob, SaveFinal, StartSave, Finished
    <3>5. CASE Kill(r)
      BY <1>1, <3>5, KillShape DEF Kill, Active, Finished
    <3>6. CASE Resume(r)
      BY <1>1, <3>6, ResumeShape DEF Resume, RunIsPlaced, Finished
    <3> QED
      BY <1>4, <3>1, <3>2, <3>3, <3>4, <3>5, <3>6 DEF Deploy
  <2>2. Finished' \subseteq Runs /\ Finished \subseteq Runs
    BY DEF Finished
  <2> QED
    BY <1>2, <1>4, <2>1, <2>2
<1> QED
  BY <1>3, <1>4

LEMMA TightGrows ==
    ASSUME NEW state, NEW S, NEW T, S \subseteq T, StateIsSound(state, S) PROVE StateIsSound(state, T)
  BY DEF StateIsSound, IsTight

LEMMA HistoriesStep ==
    ASSUME ProjInv, NEW r \in Runs, Deploy(r) \/ Resolve(r) \/ Resume(r)
    PROVE  HistoriesAreSound'
<1>1. OnlyRun(r) /\ ProjTypeOK /\ HistoriesAreSound
  BY ProjTypeStep DEF ProjInv
<1>2. IsFiniteSet(Finished') /\ Finished \subseteq Finished'
  BY <1>1, FinishedStep, FS_AddElement DEF HistoriesAreSound
<1>3. PICK F : F = Finished'
  OBVIOUS
<1>4. StateIsSound(project, F) /\ \A d \in Runs : StateIsSound(runs[d].prev, F)
  BY <1>1, <1>2, <1>3, TightGrows DEF HistoriesAreSound
<1>5. StateIsSound(Absent, F) /\ StateIsSound(Torn, F)
  BY DEF StateIsSound
<1>6. StateIsSound(project', F)
  <2>1. CASE EndSave(r)
    BY <1>3, <2>1, FinishedStep, SavedIsSound DEF StateIsSound
  <2>2. CASE ~EndSave(r)
    BY <1>4, <1>5, <2>2 DEF Deploy, StartDeploy, SaveProgress, Build, SubmitJob, SaveFinal,
          StartSave, Kill, Resolve, Resume
  <2> QED
    BY <2>1, <2>2
<1>7. StateIsSound(runs'[r].prev, F)
  <2>1. CASE StartDeploy(r)
    BY <1>1, <1>4, <1>5, <2>1, StartDeployShape DEF StateOrNone
  <2>2. CASE SaveProgress(r)
    BY <1>4, <2>2 DEF SaveProgress
  <2>3. CASE Build(r)
    BY <1>1, <1>4, <2>3, BuildShape
  <2>4. CASE SubmitJob(r) \/ SaveFinal(r) \/ StartSave(r)
    BY <1>1, <1>4, <2>4, GoesShape DEF SubmitJob, SaveFinal, StartSave
  <2>5. CASE EndSave(r) \/ Kill(r)
    BY <1>1, <1>5, <2>5, EndSaveShape, KillShape
  <2>6. CASE Resolve(r) \/ Resume(r)
    BY <1>1, <1>4, <2>6, ResolveShape, ResumeShape
  <2> QED
    BY <2>1, <2>2, <2>3, <2>4, <2>5, <2>6 DEF Deploy
<1>8. \A d \in Runs : StateIsSound(runs'[d].prev, F)
  BY <1>1, <1>4, <1>7 DEF OnlyRun, Untouched
<1>9. HistoriesAreSound' <=> /\ IsFiniteSet(F)
                             /\ StateIsSound(project', F)
                             /\ \A d \in Runs : StateIsSound(runs'[d].prev, F)
  BY <1>3 DEF HistoriesAreSound, StateIsSound
<1> QED
  BY <1>2, <1>3, <1>6, <1>8, <1>9

LEMMA PlacedStep ==
    ASSUME ProjInv, NEW r \in Runs, Deploy(r) \/ Resolve(r) \/ Resume(r), NEW d \in Runs
    PROVE  RunIsPlaced(d)'
<1>1. OnlyRun(r) /\ ProjTypeOK /\ RunIsPlaced(r) /\ RunIsPlaced(d) /\ Absent \notin Runs
  BY ProjTypeStep, ProjectOK DEF ProjInv
<1>2. \A e \in Runs : dirs[e].report # Absent => dirs'[e].report # Absent
  <2>1. CASE SaveProgress(r) \/ SubmitJob(r) \/ SaveFinal(r)
    BY <1>1, <2>1, SaveProgressDirs, SubmitJobDirs, SaveFinalDirs
  <2>2. CASE Resume(r)
    BY <1>1, <2>2, ResumeDirs DEF Resume, RunIsPlaced
  <2> QED
    BY <2>1, <2>2 DEF Deploy, StartDeploy, Build, StartSave, EndSave, Kill, Resolve
<1>3. ASSUME d # r PROVE RunIsPlaced(d)'
  <2>1. /\ runs'[d].at = runs[d].at /\ runs'[d].kind = runs[d].kind /\ runs'[d].dir = runs[d].dir
        /\ runs'[d].got = runs[d].got /\ runs'[d].sawTorn = runs[d].sawTorn
        /\ runs'[d].alone => runs[d].alone
    BY <1>1, <1>3 DEF OnlyRun, Untouched
  <2>2. ASSUME runs'[d].alone, Active(d), NEW x \in Runs \ {d} PROVE ~Active(x)'
    <3>1. CASE x # r
      BY <1>1, <2>1, <2>2, <3>1 DEF OnlyRun, Untouched, RunIsPlaced, Active
    <3>2. CASE x = r
      <4>1. ~Active(r)
        BY <1>1, <2>1, <2>2, <3>2 DEF RunIsPlaced
      <4>2. ~StartDeploy(r)
        BY <1>1, <1>3, <2>2, StartDeployShape
      <4>3. CASE Resolve(r) \/ Resume(r)
        BY <1>1, <3>2, <4>3, ResolveShape, ResumeShape DEF Active
      <4> QED
        BY <4>1, <4>2, <4>3
           DEF Deploy, SaveProgress, Build, SubmitJob, SaveFinal, StartSave, EndSave, Kill, Active
    <3> QED
      BY <3>1, <3>2
  <2> QED
    BY <1>1, <1>2, <2>1, <2>2 DEF RunIsPlaced, Active
<1>4. ASSUME \A x \in Runs \ {r} : Active(x)' => Active(x),
             runs'[r].alone => runs[r].alone, Active(r)
      PROVE  runs'[r].alone => \A x \in Runs \ {r} : ~Active(x)'
  BY <1>1, <1>4 DEF RunIsPlaced
<1>5. \A x \in Runs \ {r} : Active(x)' => Active(x)
  BY <1>1 DEF OnlyRun, Untouched, Active
<1>6. CASE d = r /\ StartDeploy(r)
  BY <1>1, <1>5, <1>6, StartDeployShape DEF RunIsPlaced, Active
<1>7. CASE d = r /\ SaveProgress(r)
  BY <1>1, <1>2, <1>4, <1>5, <1>7 DEF SaveProgress, RunIsPlaced, Active
<1>8. CASE d = r /\ Build(r)
  <2>1. Active(r)
    BY <1>8 DEF Build, Active
  <2> QED
    BY <1>1, <1>4, <1>5, <1>8, <2>1, BuildShape DEF Build, RunIsPlaced, Active
<1>9. CASE d = r /\ SubmitJob(r)
  <2>2. dirs'[r].report = r
    BY <1>1, <1>9, SubmitJobDirs
  <2>1. Active(r) /\ dirs'[r].report # Absent
    BY <1>1, <1>9, <2>2 DEF SubmitJob, Active
  <2> QED
    BY <1>1, <1>4, <1>5, <1>9, <2>1, GoesShape DEF SubmitJob, RunIsPlaced, Active
<1>10. CASE d = r /\ SaveFinal(r)
  <2>2. dirs'[r].report = r
    BY <1>1, <1>10, SaveFinalDirs
  <2>1. Active(r) /\ dirs'[r].report # Absent
    BY <1>1, <1>10, <2>2 DEF SaveFinal, Active
  <2> QED
    BY <1>1, <1>4, <1>5, <1>10, <2>1, GoesShape DEF SaveFinal, RunIsPlaced, Active
<1>11. CASE d = r /\ StartSave(r)
  <2>1. Active(r)
    BY <1>11 DEF StartSave, Active
  <2> QED
    BY <1>1, <1>2, <1>4, <1>5, <1>11, <2>1, GoesShape DEF StartSave, RunIsPlaced, Active
<1>12. CASE d = r /\ EndSave(r)
  BY <1>1, <1>2, <1>12, EndSaveShape DEF EndSave, RunIsPlaced, Active
<1>13. CASE d = r /\ Kill(r)
  BY <1>1, <1>13, KillShape DEF RunIsPlaced, Active
<1>14. CASE d = r /\ Resolve(r)
  BY <1>1, <1>14, ResolveShape DEF RunIsPlaced, Active
<1>15. CASE d = r /\ Resume(r)
  BY <1>1, <1>15, ResumeShape DEF Resume, RunIsPlaced, Active
<1> QED
  BY <1>3, <1>6, <1>7, <1>8, <1>9, <1>10, <1>11, <1>12, <1>13, <1>14, <1>15 DEF Deploy

LEMMA BundleStep ==
    ASSUME ProjInv, NEW r \in Runs, Deploy(r) \/ Resolve(r) \/ Resume(r), NEW d \in Runs
    PROVE  BundleIsSound(d)'
<1>1. OnlyRun(r) /\ ProjTypeOK /\ BundleIsSound(r) /\ BundleIsSound(d)
  BY ProjTypeStep DEF ProjInv
<1>2. CASE d # r
  <2>1. /\ runs'[d].at = runs[d].at /\ (runs'[d].stageAlone => runs[d].stageAlone)
    BY <1>1, <1>2 DEF OnlyRun, Untouched
  <2>2. jobs'[d] = jobs[d]
    BY <1>1, <1>2 DEF Deploy, StartDeploy, SaveProgress, Build, SubmitJob, SaveFinal, StartSave,
          EndSave, Kill, Resolve, Resume, ProjTypeOK
  <2>3. CASE Build(r)
    BY <1>1, <1>2, <2>1, <2>2, <2>3, BuildShape DEF BundleIsSound
  <2>4. CASE ~Build(r)
    <3>1. bundle' = bundle
      BY <2>4 DEF Deploy, StartDeploy, SaveProgress, SubmitJob, SaveFinal, StartSave,
          EndSave, Kill, Resolve, Resume
    <3> QED
      BY <1>1, <2>1, <2>2, <3>1 DEF BundleIsSound
  <2> QED
    BY <2>3, <2>4
<1>3. CASE d = r /\ StartDeploy(r)
  BY <1>1, <1>3, StartDeployShape DEF BundleIsSound
<1>4. CASE d = r /\ SaveProgress(r)
  BY <1>1, <1>4 DEF SaveProgress, BundleIsSound
<1>5. CASE d = r /\ Build(r)
  BY <1>1, <1>5, BuildShape DEF Build, BundleIsSound
<1>6. CASE d = r /\ SubmitJob(r)
  <2>1. jobs[r] = Absent /\ jobs'[r] \in {Absent, bundle}
    BY <1>1, <1>6 DEF SubmitJob, BundleIsSound, ProjTypeOK
  <2> QED
    BY <1>1, <1>6, <2>1, GoesShape DEF SubmitJob, BundleIsSound
<1>7. CASE d = r /\ (SaveFinal(r) \/ StartSave(r))
  BY <1>1, <1>7, GoesShape DEF SaveFinal, StartSave, BundleIsSound
<1>8. CASE d = r /\ EndSave(r)
  BY <1>1, <1>8, EndSaveShape DEF EndSave, BundleIsSound
<1>9. CASE d = r /\ Kill(r)
  BY <1>1, <1>9, KillShape DEF Kill, BundleIsSound
<1>10. CASE d = r /\ Resolve(r)
  BY <1>1, <1>10, ResolveShape DEF BundleIsSound
<1>11. CASE d = r /\ Resume(r)
  BY <1>1, <1>11, ResumeShape DEF Resume, BundleIsSound
<1> QED
  BY <1>2, <1>3, <1>4, <1>5, <1>6, <1>7, <1>8, <1>9, <1>10, <1>11 DEF Deploy

LEMMA AllGivenBefore ==
    ASSUME ProjInv, NEW r \in Runs, Deploy(r) \/ Resolve(r) \/ Resume(r), AllGiven'
    PROVE  AllGiven
<1>1. OnlyRun(r) /\ ProjTypeOK /\ RunIsPlaced(r)
  BY ProjTypeStep DEF ProjInv
<1>2. SUFFICES ASSUME NEW d \in Runs, Deployed(d) PROVE runs[d].given
  BY DEF AllGiven
<1>3. Deployed(d)' => runs'[d].given
  BY DEF AllGiven
<1>4. CASE d # r
  BY <1>1, <1>2, <1>3, <1>4 DEF OnlyRun, Untouched, Deployed
<1>5. CASE d = r /\ ~StartDeploy(r) /\ ~Resolve(r)
  <2>1. runs'[r].kind = "deploy" /\ runs'[r].at # "idle" /\ runs'[r].given = runs[r].given
    BY <1>1, <1>2, <1>5, BuildShape, GoesShape, EndSaveShape, KillShape, ResumeShape
       DEF Deploy, SaveProgress, SubmitJob, SaveFinal, StartSave, Deployed
  <2> QED
    BY <1>3, <1>5, <2>1 DEF Deployed
<1>6. CASE d = r /\ (StartDeploy(r) \/ Resolve(r))
  BY <1>2, <1>6 DEF StartDeploy, Resolve, Deployed
<1> QED
  BY <1>4, <1>5, <1>6

LEMMA DirStep ==
    ASSUME ProjInv, NEW r \in Runs, Deploy(r) \/ Resolve(r) \/ Resume(r), AllGiven', NEW d \in Runs
    PROVE  DirIsOwn(d)'
<1>1. OnlyRun(r) /\ ProjTypeOK /\ RunIsPlaced(r) /\ Absent \notin Runs
  BY ProjTypeStep, ProjectOK DEF ProjInv
<1>2. \A e \in Runs : DirIsOwn(e)
  BY AllGivenBefore DEF ProjInv
<1>3. dirs'[d].snap \in {d, Absent} /\ dirs'[d].report \in {d, Absent}
  <2>1. dirs[d].snap \in {d, Absent} /\ dirs[d].report \in {d, Absent}
    BY <1>2 DEF DirIsOwn
  <2>2. Active(r) => runs[r].dir \in {r, Absent}
    BY <1>2 DEF DirIsOwn
  <2>3. CASE SaveProgress(r)
    <3>1. runs[r].dir = r
      BY <2>2, <2>3 DEF SaveProgress, Active
    <3> QED
      BY <1>1, <2>1, <2>3, <3>1, SaveProgressDirs
  <2>4. CASE SubmitJob(r)
    BY <1>1, <2>1, <2>4, SubmitJobDirs
  <2>5. CASE SaveFinal(r)
    <3>1. runs[r].dir \in {r, Absent}
      BY <2>2, <2>5 DEF SaveFinal, Active
    <3> QED
      BY <1>1, <2>1, <2>5, <3>1, SaveFinalDirs
  <2>6. CASE Resume(r)
    <3>1. runs[r].got = runs[r].dir /\ runs[r].dir # Absent
      BY <1>1, <1>2, <2>6 DEF Resume, DirIsOwn, RunIsPlaced
    <3> QED
      BY <1>1, <2>1, <2>6, <3>1, ResumeDirs
  <2>7. CASE UNCHANGED dirs
    BY <2>1, <2>7
  <2> QED
    BY <2>3, <2>4, <2>5, <2>6, <2>7 DEF Deploy, StartDeploy, Build, StartSave, EndSave, Kill, Resolve
<1>4. DirIsOwn(d)' <=>
        /\ dirs'[d].snap \in {d, Absent} /\ dirs'[d].report \in {d, Absent}
        /\ Active(d)' => runs'[d].dir \in {d, Absent}
        /\ runs'[d].at = "resolved" => runs'[d].got = runs'[d].dir
        /\ runs'[d].found # "other_run"
  BY DEF DirIsOwn
<1>5. CASE d # r
  BY <1>1, <1>2, <1>3, <1>4, <1>5 DEF OnlyRun, Untouched, DirIsOwn, Active
<1>6. /\ Active(r) => runs[r].dir \in {r, Absent}
      /\ runs[r].at = "resolved" => runs[r].got = runs[r].dir
      /\ runs[r].found # "other_run"
  BY <1>2 DEF DirIsOwn
<1>7. CASE d = r /\ StartDeploy(r)
  <2>1. runs'[r].at = "loaded" /\ runs'[r].kind = "deploy"
    BY <1>1, <1>7, StartDeployShape DEF RunIsPlaced
  <2>2. runs'[r].given
    BY <2>1 DEF AllGiven, Deployed
  <2> QED
    BY <1>1, <1>3, <1>4, <1>6, <1>7, <2>1, <2>2, StartDeployShape
<1>8. CASE d = r /\ SaveProgress(r)
  BY <1>3, <1>4, <1>6, <1>8 DEF SaveProgress, Active
<1>9. CASE d = r /\ Build(r)
  BY <1>1, <1>3, <1>4, <1>6, <1>9, BuildShape DEF Build, Active
<1>10. CASE d = r /\ (SubmitJob(r) \/ SaveFinal(r) \/ StartSave(r))
  BY <1>1, <1>3, <1>4, <1>6, <1>10, GoesShape DEF SubmitJob, SaveFinal, StartSave, Active
<1>11. CASE d = r /\ (EndSave(r) \/ Kill(r))
  BY <1>1, <1>3, <1>4, <1>6, <1>11, EndSaveShape, KillShape
<1>12. CASE d = r /\ Resume(r)
  BY <1>1, <1>3, <1>4, <1>6, <1>12, ResumeShape DEF Active
<1>13. CASE d = r /\ Resolve(r)
  <2>1. \A e \in Runs : LoadedWorkflow(e) \in {e, Absent}
    BY <1>2 DEF DirIsOwn, LoadedWorkflow
  <2> QED
    BY <1>1, <1>3, <1>4, <1>13, <2>1, ResolveShape DEF Active
<1> QED
  BY <1>5, <1>7, <1>8, <1>9, <1>10, <1>11, <1>12, <1>13 DEF Deploy

\* Nobody saw half a file, before this step either, and no more had finished.
LEMMA KeptBefore ==
    ASSUME ProjInv, NEW r \in Runs, Deploy(r) \/ Resolve(r) \/ Resume(r),
           NobodySawTorn', Cardinality(Finished') <= MaxReports
    PROVE  NobodySawTorn /\ Cardinality(Finished) <= MaxReports
<1>1. OnlyRun(r) /\ ProjTypeOK /\ RunIsPlaced(r)
  BY ProjTypeStep DEF ProjInv
<1>2. NobodySawTorn
  <2>1. \A d \in Runs \ {r} : ~runs[d].sawTorn
    BY <1>1 DEF NobodySawTorn, OnlyRun, Untouched
  <2>2. CASE StartDeploy(r) \/ Resolve(r)
    BY <1>1, <2>1, <2>2 DEF StartDeploy, Resolve, RunIsPlaced, NobodySawTorn
  <2>3. CASE ~StartDeploy(r) /\ ~Resolve(r)
    <3>1. runs'[r].sawTorn = runs[r].sawTorn
      BY <1>1, <2>3, BuildShape, GoesShape, EndSaveShape, KillShape, ResumeShape
         DEF Deploy, SaveProgress, SubmitJob, SaveFinal, StartSave
    <3> QED
      BY <2>1, <3>1 DEF NobodySawTorn
  <2> QED
    BY <2>2, <2>3
<1>3. IsFiniteSet(Finished') /\ IsFiniteSet(Finished)
  BY HistoriesStep DEF ProjInv, HistoriesAreSound
<1>4. Finished \subseteq Finished'
  BY FinishedStep
<1>5. /\ Cardinality(Finished) <= Cardinality(Finished')
      /\ Cardinality(Finished) \in Nat /\ Cardinality(Finished') \in Nat
  BY <1>3, <1>4, FS_Subset, FS_CardinalityType
<1> QED
  BY <1>2, <1>5, ProjectOK

LEMMA KeepsStep ==
    ASSUME ProjInv, NEW r \in Runs, Deploy(r) \/ Resolve(r) \/ Resume(r),
           NobodySawTorn', Cardinality(Finished') <= MaxReports,
           NEW d \in Finished', runs'[d].alone
    PROVE  Keeps(d)'
<1>1. OnlyRun(r) /\ ProjTypeOK /\ RunIsPlaced(r) /\ RunIsPlaced(d) /\ d \in Runs
  BY ProjTypeStep DEF ProjInv, Finished
<1>2. \A x \in Runs \ {r} : Active(x)' => Active(x) /\ runs'[x].prev = runs[x].prev
  BY <1>1 DEF OnlyRun, Untouched, Active
<1>3. CASE d \notin Finished
  <2>1. EndSave(r) /\ d = r
    BY <1>3, FinishedStep
  <2>2. runs[r].alone /\ Active(r)
    BY <1>1, <2>1, EndSaveShape DEF EndSave, Active
  <2>3. \A x \in Runs : ~Active(x)'
    BY <1>1, <1>2, <2>1, <2>2, EndSaveShape DEF RunIsPlaced, Active
  <2>4. project' # Absent /\ project'.reports[r] # 0
    <3>1. project' \in ProjectStates /\ project'.reports[r] = 1
      BY <2>1, SavedIsSound
    <3> QED
      BY <3>1, ProjectOK
  <2> QED
    BY <2>1, <2>3, <2>4 DEF Keeps
<1>4. CASE d \in Finished
  <2>1. runs[d].at = "done" /\ runs[d].alone
    <3>1. d # r
      BY <1>1, <1>4 DEF Finished, Deploy, StartDeploy, SaveProgress, Build, SubmitJob, SaveFinal,
         StartSave, EndSave, Kill, Resolve, Resume, Active
    <3> QED
      BY <1>1, <1>4, <3>1 DEF OnlyRun, Untouched, Finished
  <2>2. Keeps(d)
    BY <1>4, <2>1, KeptBefore DEF ProjInv
  <2>3. project' # Torn => project' # Absent /\ project'.reports[d] # 0
    <3>1. CASE EndSave(r)
      <4>1. runs[r].prev # Absent /\ runs[r].prev.reports[d] # 0
        BY <1>1, <2>2, <3>1 DEF Keeps, EndSave, Active
      <4>2. Cardinality(Finished \cup {r}) <= MaxReports
        BY <3>1, FinishedStep
      <4> QED
        BY <1>1, <3>1, <4>1, <4>2, SavedIsSound, ProjectOK
    <3>2. CASE ~EndSave(r)
      BY <2>2, <3>2 DEF Keeps, Deploy, StartDeploy, SaveProgress, Build, SubmitJob, SaveFinal,
         StartSave, Kill, Resolve, Resume
    <3> QED
      BY <3>1, <3>2
  <2>4. ASSUME Active(r)' PROVE runs'[r].prev # Absent /\ runs'[r].prev.reports[d] # 0
    <3>1. CASE StartDeploy(r)
      <4>1. project # Torn /\ runs'[r].prev = project
        BY <1>1, <3>1, StartDeployShape DEF NobodySawTorn, StateOrNone
      <4> QED
        BY <2>2, <4>1 DEF Keeps
    <3>2. CASE ~StartDeploy(r)
      <4>1. Active(r) /\ runs'[r].prev = runs[r].prev
        BY <1>1, <2>4, <3>2, BuildShape, GoesShape, EndSaveShape, KillShape, ResolveShape, ResumeShape
           DEF Deploy, SaveProgress, Build, SubmitJob, SaveFinal, StartSave, Active
      <4> QED
        BY <1>1, <2>2, <4>1 DEF Keeps
    <3> QED
      BY <3>1, <3>2
  <2>5. ASSUME NEW x \in Runs, Active(x)'
        PROVE  runs'[x].prev # Absent /\ runs'[x].prev.reports[d] # 0
    BY <1>2, <2>2, <2>4, <2>5 DEF Keeps
  <2>6. Keeps(d)' <=>
          /\ project' # Torn => project' # Absent /\ project'.reports[d] # 0
          /\ \A x \in Runs : Active(x)' => runs'[x].prev # Absent /\ runs'[x].prev.reports[d] # 0
    BY DEF Keeps, Active
  <2> QED
    BY <2>3, <2>5, <2>6
<1> QED
  BY <1>3, <1>4

LEMMA ProjNextInv == ProjInv /\ [ProjNext]_projVars => ProjInv'
<1> SUFFICES ASSUME ProjInv, [ProjNext]_projVars PROVE ProjInv'
  OBVIOUS
<1>1. CASE ProjNext
  <2>1. PICK r \in Runs : Deploy(r) \/ Resolve(r) \/ Resume(r)
    BY <1>1 DEF ProjNext
  <2>2. ProjTypeOK' /\ HistoriesAreSound'
    BY <2>1, ProjTypeStep, HistoriesStep
  <2>3. \A d \in Runs : RunIsPlaced(d)' /\ BundleIsSound(d)'
    BY <2>1, PlacedStep, BundleStep
  <2>4. AllGiven' => \A d \in Runs : DirIsOwn(d)'
    BY <2>1, DirStep
  <2>5. NobodySawTorn' /\ Cardinality(Finished') <= MaxReports =>
          \A d \in Finished' : runs'[d].alone => Keeps(d)'
    BY <2>1, KeepsStep
  <2> QED
    BY <2>2, <2>3, <2>4, <2>5 DEF ProjInv
<1>2. CASE UNCHANGED projVars
  <2>1. /\ project' = project /\ dirs' = dirs /\ bundle' = bundle /\ jobs' = jobs /\ runs' = runs
        /\ Finished' = Finished /\ \A d \in Runs : Active(d)' <=> Active(d)
    BY <1>2 DEF projVars, Finished, Active
  <2>2. ProjTypeOK' /\ HistoriesAreSound'
    BY <2>1 DEF ProjInv, ProjTypeOK, HistoriesAreSound, StateIsSound
  <2>3. \A d \in Runs : RunIsPlaced(d)' /\ BundleIsSound(d)'
    BY <2>1 DEF ProjInv, RunIsPlaced, BundleIsSound
  <2>4. AllGiven' => \A d \in Runs : DirIsOwn(d)'
    BY <2>1 DEF ProjInv, AllGiven, Deployed, DirIsOwn
  <2>5. NobodySawTorn' /\ Cardinality(Finished') <= MaxReports =>
          \A d \in Finished' : runs'[d].alone => Keeps(d)'
    BY <2>1 DEF ProjInv, NobodySawTorn, Keeps
  <2> QED
    BY <2>2, <2>3, <2>4, <2>5 DEF ProjInv
<1> QED
  BY <1>1, <1>2

\* However many runs share a project directory that nothing locks
\* (saveProjectDeployment, buildDeployWorkflowStore and the resume and status
\* commands of cli/src/index.ts): a deployment that no other overlapped stays in the
\* history, the latest run has its report, a directory of its own keeps the
\* workflow of its run, and a job runs the bundle of its own deployment unless
\* another was built in between.
THEOREM ProjectsAreSafe == ProjSpec => []ProjectSafe
<1>1. ProjInit => ProjInv
  BY ProjInitInv
<1>2. ProjInv /\ [ProjNext]_projVars => ProjInv'
  BY ProjNextInv
<1>3. ProjInv => ProjectSafe
  <2> SUFFICES ASSUME ProjInv PROVE ProjectSafe
    OBVIOUS
  <2>1. ProjTypeOK
    BY DEF ProjInv
  <2>2. HistoryIsKept
    BY DEF ProjInv, HistoryIsKept, Deployed, NobodySawTorn, Finished, Keeps
  <2>3. LatestHasReport
    BY DEF ProjInv, HistoriesAreSound, StateIsSound, LatestHasReport, RunIsPlaced, Finished
  <2>4. OwnDirOwnWorkflow
    BY DEF ProjInv, OwnDirOwnWorkflow, AllGiven, DirIsOwn
  <2>5. OwnBundle
    BY DEF ProjInv, OwnBundle, BundleIsSound
  <2> QED
    BY <2>1, <2>2, <2>3, <2>4, <2>5 DEF ProjectSafe
<1> QED
  BY <1>1, <1>2, <1>3, PTL DEF ProjSpec

===============================================================================
