---------------------------- MODULE CargoBootstrap ----------------------------
(***************************************************************************)
(* What the SSH template runs inside a deployment (cli/src/index.ts: the   *)
(* texts of sshTemplateEntrypoint, sshTemplateBootstrap and                *)
(* sshTemplateBootstrapPython).  The entrypoint prepares: it claims the    *)
(* deployment intent at the relay, waits until it is funded, registers,    *)
(* orders certificates and writes one of them; then it starts dropbear and *)
(* stunnel in the background, has the gateway admit the upstream, reports  *)
(* "ready" and waits for stunnel.  Any failure ends it and what it started *)
(* (set -e, trap on_exit); the job is started again on the same disk, under*)
(* RestartPolicy.OnFailure, with nothing but its files.                    *)
(*                                                                         *)
(* switchboard-cargo-bridge-doctor may run at any time beside it, and both *)
(* rewrite the diagnostic file from what they read there.                  *)
(*                                                                         *)
(* The relay, the gateway and the bridge to the signer are external.  A    *)
(* request is answered, or takes effect without an answer, or is refused.  *)
(***************************************************************************)
EXTENDS FileContents, Naturals

CONSTANTS
    Doctors,      \* runs of the diagnostic command
    NumHosts,     \* hostnames of the certificate mode job-acme
    MaxBoots      \* bound on the starts of the job

ASSUME CargoOK == NumHosts \in Nat \ {0} /\ MaxBoots \in Nat \ {0}

VARIABLES
    jobAcme,    \* the relay asks the job for certificates
    pull,       \* the relay pulls admissions, else the gateway is asked
    cargo,      \* the entrypoint: where it is, how often it started, its next hostname
    disk,       \* the diagnostic file, the certificate, its key, the saved state
    stunnel,    \* stunnel: whether it runs, and the pair it read when it started
    intent,     \* relay: the deployment intent
    doctor,     \* each diagnostic run: where it is and what it read
    overlap     \* history: the diagnostic file was written while another one
                \* was between its reading and its writing

cargoVars == <<jobAcme, pull, cargo, disk, stunnel, intent, doctor, overlap>>

HealthStates == {"none", "waiting_funding", "config_received", "registering",
                 "registered", "certificate_requesting", "ready"}

\* A pair is named by the start of the job and the hostname it was made for.
Pairs == (1 .. MaxBoots) \X (1 .. NumHosts)

\* What the diagnostic file tells besides the socket: whether it names the signer.
DiagContents == {"key", "signer"}

ASSUME NoDiagOK == {Absent, Torn} \cap DiagContents = {}

Preparing == {"install", "bridge", "diag", "diag_write", "claim", "tell_claimed", "poll",
              "tell_waiting", "sleep", "tell_config", "diag_signer", "diag_signer_write",
              "tell_registering", "challenge", "register", "tell_registered",
              "tell_certificate", "order_challenge", "order", "write_cert", "write_key", "save"}

Serving == {"start", "admit", "admit_challenge", "observe", "submit_admission",
            "tell_ready", "wait"}

CargoTypeOK ==
    /\ cargo \in [at : {"down", "ended"} \cup Preparing \cup Serving, boot : 0 .. MaxBoots,
                  host : 1 .. NumHosts + 1]
    /\ disk \in [diag : DiagContents \cup {Absent, Torn}, cert : Pairs \cup {Absent},
                 key : Pairs \cup {Absent}, saved : 0 .. MaxBoots]
    /\ stunnel \in [up : BOOLEAN, cert : Pairs \cup {Absent}, key : Pairs \cup {Absent}]
    /\ intent \in [funded : BOOLEAN, claimed : BOOLEAN, registered : BOOLEAN,
                   admitted : {"no", "asked", "yes"}, health : HealthStates]
    /\ doctor \in [Doctors -> [at : {"idle", "signs", "reads", "tears", "writes", "done", "failed"},
                               read : DiagContents \cup {Absent}]]
    /\ jobAcme \in BOOLEAN /\ pull \in BOOLEAN /\ overlap \in BOOLEAN

NoTunnel == [up |-> FALSE, cert |-> Absent, key |-> Absent]

CargoInit ==
    /\ jobAcme \in BOOLEAN /\ pull \in BOOLEAN
    /\ cargo = [at |-> "down", boot |-> 0, host |-> 1]
    /\ disk = [diag |-> Absent, cert |-> Absent, key |-> Absent, saved |-> 0]
    /\ stunnel = NoTunnel
    /\ intent = [funded |-> FALSE, claimed |-> FALSE, registered |-> FALSE,
                 admitted |-> "no", health |-> "none"]
    /\ doctor = [x \in Doctors |-> [at |-> "idle", read |-> Absent]]
    /\ overlap = FALSE

-------------------------------------------------------------------------------
Outcomes == {"answered", "unanswered", "refused"}

GoesTo(at) == cargo' = [cargo EXCEPT !.at = at]

\* set -e and on_exit: the entrypoint ends and takes stunnel with it.
Stops ==
    /\ GoesTo("down")
    /\ stunnel' = NoTunnel

\* A request of the job: what it does at the relay and where an answer leads.
\* No error is retried.
Asks(from, to, effect, how) ==
    /\ cargo.at = from
    /\ intent' = IF how = "refused" THEN intent ELSE effect
    /\ IF how = "answered" THEN GoesTo(to) /\ UNCHANGED stunnel ELSE Stops

\* post_health raises on an answer that is not a success.
Tells(from, to, state, how) == Asks(from, to, [intent EXCEPT !.health = state], how)

\* A step without the relay may fail, or be the last before the job is killed.
Does(from, to, works) ==
    /\ cargo.at = from
    /\ IF works THEN GoesTo(to) /\ UNCHANGED stunnel ELSE Stops

\* The job starts again after a failure.
StartJob ==
    /\ cargo.at = "down" /\ cargo.boot < MaxBoots
    /\ cargo' = [at |-> "install", boot |-> cargo.boot + 1, host |-> 1]
    /\ UNCHANGED <<jobAcme, pull, disk, stunnel, intent, doctor, overlap>>

\* bootstrap_*: curl, packages, the override and the diagnostic command; then the
\* public key and the id of the deployment from the bridge.
Install(works) ==
    /\ \/ Does("install", "bridge", works)
       \/ Does("bridge", "diag", works)
    /\ UNCHANGED <<jobAcme, pull, disk, intent, doctor, overlap>>

\* save_bridge_diagnostic_state merges into what it can read and writes in place.
\* The job has all of its own fields, so what it could not read is not missed.
Busy(x) == doctor[x].at \in {"tears", "writes"}

JobWritesDiag(works) ==
    /\ \/ Does("diag", "diag_write", works) /\ disk' = [disk EXCEPT !.diag = Torn]
       \/ /\ Does("diag_write", "claim", works)
          /\ disk' = [disk EXCEPT !.diag = IF works THEN "key" ELSE Torn]
       \/ Does("diag_signer", "diag_signer_write", works) /\ disk' = [disk EXCEPT !.diag = Torn]
       \/ /\ Does("diag_signer_write", "tell_registering", works)
          /\ disk' = [disk EXCEPT !.diag = IF works THEN "signer" ELSE Torn]
    /\ overlap' = (overlap \/ \E x \in Doctors : Busy(x))
    /\ UNCHANGED <<jobAcme, pull, intent, doctor>>

Claim(how) ==
    /\ \/ Asks("claim", "tell_claimed", [intent EXCEPT !.claimed = TRUE], how)
       \/ Tells("tell_claimed", "poll", "waiting_funding", how)
    /\ UNCHANGED <<jobAcme, pull, disk, doctor, overlap>>

\* wait_for_runtime_config: 202 while the intent waits; the config when it is
\* funded.  Every answer is reported, and a report that fails ends the job.
Poll(how) ==
    /\ \/ Asks("poll", IF intent.funded THEN "tell_config" ELSE "tell_waiting", intent, how)
       \/ Tells("tell_waiting", "sleep", "waiting_funding", how)
       \/ cargo.at = "sleep" /\ how = "answered" /\ GoesTo("poll") /\ UNCHANGED <<stunnel, intent>>
       \/ Tells("tell_config", "diag_signer", "config_received", how)
    /\ UNCHANGED <<jobAcme, pull, disk, doctor, overlap>>

\* With SWITCHBOARD_INTENT_MAX_ATTEMPTS it gives up.
GivesUpWaiting ==
    /\ cargo.at = "sleep"
    /\ Stops
    /\ UNCHANGED <<jobAcme, pull, disk, intent, doctor, overlap>>

\* A certificate that an earlier start left is used again.
RegisterReusing(how) ==
    /\ \/ Tells("tell_registering", "challenge", "registering", how)
       \/ Asks("challenge", "register", intent, how)
       \/ Asks("register", "tell_registered", [intent EXCEPT !.registered = TRUE], how)
       \/ Tells("tell_registered",
                IF jobAcme /\ disk.cert = Absent THEN "tell_certificate" ELSE "save",
                "registered", how)
    /\ UNCHANGED <<jobAcme, pull, disk, doctor, overlap>>

\* register_ingress: the challenge, its signature by the bridge, the registration.
RegisterJob(how) ==
    /\ \/ Tells("tell_registering", "challenge", "registering", how)
       \/ Asks("challenge", "register", intent, how)
       \/ Asks("register", "tell_registered", [intent EXCEPT !.registered = TRUE], how)
       \/ Tells("tell_registered", IF jobAcme THEN "tell_certificate" ELSE "save",
                "registered", how)
    /\ UNCHANGED <<jobAcme, pull, disk, doctor, overlap>>

\* request_certificates: for each hostname a key and a request are made and signed.
\* Only the first certificate is written.
OrderCertificate(how) ==
    /\ \/ Tells("tell_certificate", "order_challenge", "certificate_requesting", how)
       \/ Asks("order_challenge", "order", intent, how)
       \/ /\ cargo.at = "order"
          /\ UNCHANGED intent
          /\ IF how # "answered" THEN Stops
             ELSE /\ cargo' = [cargo EXCEPT !.host = @ + 1,
                                 !.at = IF cargo.host = NumHosts THEN "write_cert"
                                        ELSE "tell_certificate"]
                  /\ UNCHANGED stunnel
    /\ UNCHANGED <<jobAcme, pull, disk, doctor, overlap>>

WriteCert(works) ==
    /\ Does("write_cert", "write_key", works)
    /\ disk' = IF works THEN [disk EXCEPT !.cert = <<cargo.boot, 1>>] ELSE disk
    /\ UNCHANGED <<jobAcme, pull, intent, doctor, overlap>>

WriteKey(works) ==
    /\ Does("write_key", "save", works)
    /\ disk' = IF works THEN [disk EXCEPT !.key = <<cargo.boot, 1>>] ELSE disk
    /\ UNCHANGED <<jobAcme, pull, intent, doctor, overlap>>

SaveState(works) ==
    /\ Does("save", "start", works)
    /\ disk' = IF works THEN [disk EXCEPT !.saved = cargo.boot] ELSE disk
    /\ UNCHANGED <<jobAcme, pull, intent, doctor, overlap>>

-------------------------------------------------------------------------------
\* stunnel runs in the background: nobody notices when it has no pair to read.
StartServers ==
    /\ cargo.at = "start"
    /\ GoesTo("admit")
    /\ stunnel' = IF disk.cert # Absent /\ disk.cert = disk.key
                    THEN [up |-> TRUE, cert |-> disk.cert, key |-> disk.key]
                    ELSE NoTunnel
    /\ UNCHANGED <<jobAcme, pull, disk, intent, doctor, overlap>>

\* stunnel ends by itself.
TunnelDies ==
    /\ stunnel.up
    /\ stunnel' = NoTunnel
    /\ UNCHANGED <<jobAcme, pull, cargo, disk, intent, doctor, overlap>>

\* admit_gateway_upstream, in the mode the relay asked for; without a gateway to
\* ask there is nothing to do.  The state that prepare saved is read first.
Admit(how, gateway) ==
    /\ \/ cargo.at = "admit" /\ ~pull /\ ~gateway /\ how = "answered"
          /\ GoesTo("tell_ready") /\ UNCHANGED <<stunnel, intent>>
       \/ (pull \/ gateway) /\ Tells("admit", "admit_challenge", "registered", how)
       \/ Asks("admit_challenge", IF pull THEN "submit_admission" ELSE "observe", intent, how)
       \/ Asks("observe", "submit_admission", intent, how)
       \/ Asks("submit_admission", "tell_ready",
               [intent EXCEPT !.admitted = IF pull THEN "asked" ELSE "yes"], how)
    /\ UNCHANGED <<jobAcme, pull, disk, doctor, overlap>>

Ready(how) ==
    /\ Tells("tell_ready", "wait", "ready", how)
    /\ UNCHANGED <<jobAcme, pull, disk, doctor, overlap>>

\* wait: stunnel has ended.  Only a status that is not 0 lets the job start again.
TunnelEnded(clean) ==
    /\ cargo.at = "wait" /\ ~stunnel.up
    /\ GoesTo(IF clean THEN "ended" ELSE "down")
    /\ UNCHANGED <<jobAcme, pull, disk, stunnel, intent, doctor, overlap>>

Killed ==
    /\ cargo.at \notin {"down", "ended"}
    /\ Stops
    /\ UNCHANGED <<jobAcme, pull, disk, intent, doctor, overlap>>

-------------------------------------------------------------------------------
\* bridge_doctor.  Without BRIDGE_SOCKET it takes the socket from the diagnostic
\* file and saves nothing.
StartDoctor(x, socket) ==
    /\ doctor[x].at = "idle"
    /\ doctor' = [doctor EXCEPT ![x].at = IF socket THEN "reads"
                                          ELSE IF disk.diag \in {Absent, Torn} THEN "failed"
                                          ELSE "signs"]
    /\ UNCHANGED <<jobAcme, pull, cargo, disk, stunnel, intent, overlap>>

DoctorReports(x) ==
    /\ doctor[x].at = "signs"
    /\ doctor' = [doctor EXCEPT ![x].at = "done"]
    /\ UNCHANGED <<jobAcme, pull, cargo, disk, stunnel, intent, overlap>>

\* What cannot be read counts as empty.
Readable == IF disk.diag = Torn THEN Absent ELSE disk.diag

DoctorReads(x) ==
    /\ doctor[x].at = "reads"
    /\ doctor' = [doctor EXCEPT ![x] = [at |-> "tears", read |-> Readable]]
    /\ UNCHANGED <<jobAcme, pull, cargo, disk, stunnel, intent, overlap>>

\* Another writer is between its reading and its writing.
Meets(x) ==
    \/ cargo.at \in {"diag_write", "diag_signer_write"}
    \/ \E y \in Doctors \ {x} : Busy(y)

DoctorTears(x) ==
    /\ doctor[x].at = "tears"
    /\ doctor' = [doctor EXCEPT ![x].at = "writes"]
    /\ disk' = [disk EXCEPT !.diag = Torn]
    /\ overlap' = (overlap \/ Meets(x))
    /\ UNCHANGED <<jobAcme, pull, cargo, stunnel, intent>>

\* The fields it does not know stay as they were read.
Kept(read) == IF read = Absent THEN "key" ELSE read

DoctorWrites(x) ==
    /\ doctor[x].at = "writes"
    /\ doctor' = [doctor EXCEPT ![x].at = "done"]
    /\ disk' = [disk EXCEPT !.diag = Kept(doctor[x].read)]
    /\ overlap' = (overlap \/ Meets(x))
    /\ UNCHANGED <<jobAcme, pull, cargo, stunnel, intent>>

-------------------------------------------------------------------------------
\* relay: the session of the intent is funded
FundIntent ==
    /\ ~intent.funded
    /\ intent' = [intent EXCEPT !.funded = TRUE]
    /\ UNCHANGED <<jobAcme, pull, cargo, disk, stunnel, doctor, overlap>>

\* relay: the gateway took an admission that it was asked for
GatewayAdmits ==
    /\ intent.admitted = "asked"
    /\ intent' = [intent EXCEPT !.admitted = "yes"]
    /\ UNCHANGED <<jobAcme, pull, cargo, disk, stunnel, doctor, overlap>>

\* Steps of the job: its requests have a timeout, and the bridge is taken to answer.
JobSteps ==
    \/ \E works \in BOOLEAN : \/ JobWritesDiag(works)
                              \/ WriteCert(works) \/ WriteKey(works) \/ SaveState(works)
    \/ \E how \in Outcomes : Claim(how) \/ Poll(how) \/ RegisterJob(how) \/ OrderCertificate(how)
    \/ StartServers
    \/ \E how \in Outcomes, gateway \in BOOLEAN : Admit(how, gateway)
    \/ \E how \in Outcomes : Ready(how)

CargoNext ==
    \/ StartJob \/ JobSteps
    \/ \E works \in BOOLEAN : Install(works)
    \/ GivesUpWaiting \/ TunnelDies \/ Killed
    \/ \E clean \in BOOLEAN : TunnelEnded(clean)
    \/ \E x \in Doctors :
         \/ \E socket \in BOOLEAN : StartDoctor(x, socket)
         \/ DoctorReports(x) \/ DoctorReads(x) \/ DoctorTears(x) \/ DoctorWrites(x)
    \/ FundIntent \/ GatewayAdmits

CargoSpec == CargoInit /\ [][CargoNext]_cargoVars

CargoFairness == WF_cargoVars(JobSteps)

FairCargoSpec == CargoSpec /\ CargoFairness

-------------------------------------------------------------------------------
\* What the reported health says has happened, whichever earlier start of the job
\* it happened in.
HealthIsTrue ==
    /\ intent.health \in {"config_received", "registering", "registered",
                          "certificate_requesting", "ready"} => intent.funded
    /\ intent.health \in {"registered", "certificate_requesting", "ready"} => intent.registered
    /\ intent.health = "ready" /\ pull => intent.admitted # "no"

\* What stunnel serves belongs together and was ordered by the start of the job
\* that serves it, whatever earlier starts left on the disk.
ServesOwnPair ==
    stunnel.up /\ jobAcme => stunnel.cert = stunnel.key /\ stunnel.cert = <<cargo.boot, 1>>

\* A job that asks for certificates reports "ready" only when the pair that stunnel
\* was started with, and the state it reports, are of this very start.
ReadyWasServed ==
    [][/\ intent.health # "ready" /\ intent'.health = "ready" /\ jobAcme
       => disk.cert = disk.key /\ disk.cert = <<cargo.boot, 1>> /\ disk.saved = cargo.boot]_cargoVars

\* The diagnostic file names the signer from the registration on, if no two
\* writers of it met.
DoctorKnowsSigner ==
    /\ cargo.at \in Serving \cup {"challenge", "register", "tell_registered"}
    /\ ~overlap /\ disk.diag # Torn
    => disk.diag = "signer"

\* A job that has begun to wait does not wait for ever once it is funded.
FundedJobSettles ==
    (intent.funded /\ cargo.at = "poll") ~> (cargo.at \in {"down", "ended", "wait"})

\* The bootstrap of a deployment, through its restarts: its health is true, it
\* serves its own certificate and key, and the diagnostic file names the signer.
CargoSafe ==
    /\ [](CargoTypeOK /\ HealthIsTrue /\ ServesOwnPair /\ DoctorKnowsSigner)
    /\ ReadyWasServed
===============================================================================
