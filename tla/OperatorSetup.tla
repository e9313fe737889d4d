---------------------------- MODULE OperatorSetup -----------------------------
(***************************************************************************)
(* The gateway of an operator: gateway setup, upgrade and status           *)
(* (scripts/operator/setup.ts).  A setup resolves its configuration from   *)
(* flags, the operator env file and an admission bundle, installs Docker,  *)
(* writes the env file and an admission request, launches the compose      *)
(* stack, and checks what the relay and the gateway agent then say.  Every *)
(* step can fail or be the last one of the process, and the next setup     *)
(* goes on from the files it finds.                                        *)
(*                                                                         *)
(* Of the configuration only what decides is kept: the report seed (a seed *)
(* also stands for the signer derived from it), the two tokens, whether    *)
(* the operator is known, the mode, the agent's port and the image.  A dry *)
(* run changes nothing and is left out.  Docker, the gateway agent, the    *)
(* relay and PROOF, which issues bundles, are external.                    *)
(***************************************************************************)
EXTENDS FileContents, Naturals

CONSTANTS
    Seeds,       \* report seeds from which a signer can be derived
    BadSeed,     \* a seed from which none can be derived
    Tokens,      \* bearer tokens of the relay
    MaxSetups    \* bound on the setups and upgrades

ASSUME OperatorOK ==
    /\ BadSeed \notin Seeds
    /\ Absent \notin Seeds \cup Tokens \cup {BadSeed}
    /\ MaxSetups \in Nat

VARIABLES
    mainnet,     \* config.network is mainnet
    env,         \* the operator env file
    request,     \* the seed whose signer the admission request names
    bundle,      \* the admission bundle that PROOF issued
    stack,       \* the environment the compose stack was last started with
    relay,       \* the seeds the relay admits, and that of the report it lists
    setup,       \* the setup or upgrade in progress, and where it is
    opCount,     \* how many were started
    seedGiven,   \* history: a seed was given explicitly, or the env file torn
    ended        \* history: how the last one ended

opVars ==
    <<mainnet, env, request, bundle, stack, relay, setup, opCount, seedGiven, ended>>

Modes == {"local-only", "pre-admission", "admitted"}
Ports == {"default", "other"}
Images == {"legacy", "current"}

\* The keys of the env file that the model keeps.
Envs ==
    [mode : Modes \cup {Absent}, seed : Seeds \cup {BadSeed, Absent},
     cap : Tokens \cup {Absent}, rs : Tokens \cup {Absent},
     operator : BOOLEAN, port : Ports, image : Images]

NoEnv ==
    [mode |-> Absent, seed |-> Absent, cap |-> Absent, rs |-> Absent,
     operator |-> FALSE, port |-> "default", image |-> "current"]

Bundles == [seed : Seeds, cap : Tokens, rs : Tokens]

Steps == {"write", "request", "launch", "register", "verify",
          "upgrade", "pull"}

Setups ==
    [at : Steps, config : Envs, prepare : BOOLEAN, skip : BOOLEAN]

\* undefined is neither an environment nor a setup.
ASSUME OperatorRecordsOK == Absent \notin Envs \cup Setups

Ends == {"none", "failed", "ok", "verified"}

OpTypeOK ==
    /\ mainnet \in BOOLEAN
    /\ env \in Envs \cup {Absent}
    /\ request \in Seeds \cup {Absent}
    /\ bundle \in Bundles \cup {Absent}
    /\ stack \in Envs \cup {Absent}
    /\ relay \in [admits : SUBSET Seeds, lists : Seeds \cup {Absent}]
    /\ setup \in Setups \cup {Absent}
    /\ opCount \in 0 .. MaxSetups
    /\ seedGiven \in BOOLEAN
    /\ ended \in Ends

\* The env file of an earlier version names images of another registry.
LegacyEnv(s, t) ==
    [NoEnv EXCEPT !.image = "legacy", !.seed = s, !.cap = t, !.rs = t, !.operator = TRUE]

OpInit ==
    /\ mainnet \in BOOLEAN
    /\ env = Absent \/ \E s \in Seeds, t \in Tokens : env = LegacyEnv(s, t)
    /\ request = Absent
    /\ bundle = Absent
    /\ stack = Absent
    /\ relay = [admits |-> {}, lists |-> Absent]
    /\ setup = Absent
    /\ opCount = 0
    /\ seedGiven = FALSE
    /\ ended = "none"

-------------------------------------------------------------------------------
\* a ?? b
Either(a, b) == IF a # Absent THEN a ELSE b

\* readEnvFileMap: no file holds no value.
Existing == IF env = Absent THEN NoEnv ELSE env

Signer(seed) == IF seed \in Seeds THEN seed ELSE Absent

\* A generated seed goes before the one of the env file.
ResolvedSeedFresh(given, fresh) == Either(Either(given, fresh), Existing.seed)

\* resolveReportSeed: a seed that is configured is never generated anew.
ResolvedSeed(given, fresh) == Either(Either(given, Existing.seed), fresh)

\* The relay's material that mainnet asks for and the configuration lacks; the
\* URLs have defaults once the seed and the operator are known.
MissesMaterial(c) ==
    mainnet /\ (~c.operator \/ c.seed = Absent \/ c.cap = Absent \/ c.rs = Absent)

\* The configuration a setup resolves: what was given, then the env file, then
\* the bundle (f.apply), then a default.  The route-state token falls back to
\* the capability token.
Resolved(f) ==
    LET b(x) == IF f.apply THEN x ELSE Absent
        cap  == Either(Either(f.cap, Existing.cap), b(bundle.cap))
    IN  [mode     |-> IF f.local THEN "local-only"
                      ELSE IF f.prepare THEN "pre-admission" ELSE "admitted",
         seed     |-> ResolvedSeed(f.seed, f.fresh),
         cap      |-> cap,
         rs       |-> Either(Either(Existing.rs, b(bundle.rs)), cap),
         operator |-> f.operator \/ Existing.operator \/ f.apply,
         port     |-> f.port,
         image    |-> "current"]

\* validateAdmissionBundleSigner
WrongBundle(f, c) == f.apply /\ Signer(c.seed) \notin {Absent, bundle.seed}

\* What setup refuses before it changes anything: a bundle for another signer,
\* missing material, a seed without a signer.
Refuses(f, c) ==
    \/ WrongBundle(f, c)
    \/ MissesMaterial(c) /\ ~f.local /\ ~f.prepare
    \/ f.prepare /\ Signer(c.seed) = Absent
    \/ c.seed # Absent /\ Signer(c.seed) = Absent /\ ~f.local

\* Seeds nobody has seen yet, from which a generated one is drawn.
UnusedSeeds ==
    Seeds \ ({Existing.seed, request} \cup relay.admits)

Flags ==
    [seed : {Absent, BadSeed} \cup Seeds, fresh : {Absent} \cup UnusedSeeds,
     cap : {Absent} \cup Tokens, operator : BOOLEAN, apply : {bundle # Absent, FALSE},
     local : BOOLEAN, prepare : BOOLEAN, port : {Existing.port, "other"}]

StartSetup(f, skip) ==
    /\ setup = Absent /\ opCount < MaxSetups
    /\ ~Refuses(f, Resolved(f))
    /\ setup' = [at |-> "write", config |-> Resolved(f),
                 prepare |-> f.prepare, skip |-> skip]
    /\ opCount' = opCount + 1
    /\ seedGiven' = (seedGiven \/ f.seed # Absent)
    /\ ended' = "none"
    /\ UNCHANGED <<mainnet, env, request, bundle, stack, relay>>

At(s) == setup # Absent /\ setup.at = s

Goto(s) == setup' = [setup EXCEPT !.at = s]

End(how) == setup' = Absent /\ ended' = how

\* mergeOperatorEnv: a value that is undefined leaves the line of the file.
Merged(c) ==
    [c EXCEPT !.seed = Either(c.seed, Existing.seed),
              !.cap  = Either(c.cap, Existing.cap),
              !.rs   = Either(c.rs, Existing.rs)]

WriteEnvFile ==
    /\ At("write")
    /\ env' = Merged(setup.config)
    /\ Goto("request")
    /\ UNCHANGED <<mainnet, request, bundle, stack, relay, opCount, seedGiven, ended>>

\* The process ends while the file is overwritten in place: what was written
\* of it still parses, and may lack every key.
TearEnvFile ==
    /\ At("write") \/ At("upgrade")
    /\ env' = NoEnv
    /\ seedGiven' = TRUE
    /\ End("failed")
    /\ UNCHANGED <<mainnet, request, bundle, stack, relay, opCount>>

\* buildAdmissionRequest: redacted, it names the signer and not the seed.
Requested(c) == Signer(c.seed)

\* buildAdmissionRequest is written after the seed it names is in the env file.
WriteRequest ==
    /\ At("request")
    /\ request' = IF setup.prepare THEN Requested(setup.config) ELSE request
    /\ Goto("launch")
    /\ UNCHANGED <<mainnet, env, bundle, stack, relay, opCount, seedGiven, ended>>

SkipsCompose ==
    setup.skip \/ (setup.prepare /\ MissesMaterial(setup.config))

\* Compose is skipped, not ready or declined: the setup ends without a launch.
SkipLaunch ==
    /\ At("launch")
    /\ End("ok")
    /\ UNCHANGED <<mainnet, env, request, bundle, stack, relay, opCount, seedGiven>>

\* docker compose pull, then up: the stack gets the env file of that moment.
Launch ==
    /\ At("launch") /\ ~SkipsCompose
    /\ stack' = env
    /\ Goto("register")
    /\ UNCHANGED <<mainnet, env, request, bundle, relay, opCount, seedGiven, ended>>

\* A step throws, or the process is interrupted at it.
StepFails ==
    /\ setup # Absent
    /\ End("failed")
    /\ UNCHANGED <<mainnet, env, request, bundle, stack, relay, opCount, seedGiven>>

-------------------------------------------------------------------------------

\* The relay takes the report of a signer it admits and of a token it issued.
RelayAccepts(e) == e.seed \in relay.admits /\ e.cap \in Tokens

ChecksRegistration(c) == c.operator /\ c.seed # Absent

\* The agent is asked at the default port, whatever port was configured.
AgentAnswers == stack # Absent /\ stack.port = "default"

\* checkCapabilityRegistration: the agent's report is posted to the relay, in
\* every mode.  A refusal is an error for an admitted gateway, else a warning;
\* an agent that does not answer is a warning.
Register ==
    /\ At("register")
    /\ ChecksRegistration(setup.config)
    /\ AgentAnswers
    /\ IF RelayAccepts(stack)
         THEN relay' = [relay EXCEPT !.lists = stack.seed]
              /\ Goto("verify") /\ UNCHANGED ended
         ELSE /\ UNCHANGED relay
              /\ IF setup.config.mode = "admitted"
                   THEN End("failed")
                   ELSE Goto("verify") /\ UNCHANGED ended
    /\ UNCHANGED <<mainnet, env, request, bundle, stack, opCount, seedGiven>>

\* There is nothing to post, the agent does not answer, or the relay does not
\* answer a gateway that is not admitted: a warning at most.
SkipRegistration ==
    /\ At("register")
    /\ \/ ~ChecksRegistration(setup.config)
       \/ ~AgentAnswers
       \/ setup.config.mode # "admitted"
    /\ Goto("verify")
    /\ UNCHANGED <<mainnet, env, request, bundle, stack, relay, opCount, seedGiven, ended>>

\* localGatewayVerificationIssues: the agent must report what was configured.
LooksVerified(c) ==
    AgentAnswers /\ stack.seed = c.seed /\ Signer(stack.seed) # Absent

\* verifyLocalGatewayAfterLaunch: only an admitted gateway is verified.
Verify ==
    /\ At("verify")
    /\ IF setup.config.mode # "admitted"
         THEN End("ok")
         ELSE End(IF LooksVerified(setup.config) THEN "verified" ELSE "failed")
    /\ UNCHANGED <<mainnet, env, request, bundle, stack, relay, opCount, seedGiven>>

-------------------------------------------------------------------------------
\* runOperatorUpgrade: plans the images to migrate, asks, writes the env file,
\* pulls and recreates the stack.
StartUpgrade(keep) ==
    /\ setup = Absent /\ opCount < MaxSetups
    /\ setup' = [at |-> IF Existing.image = "legacy" /\ ~keep THEN "upgrade" ELSE "pull",
                 config |-> Existing, prepare |-> FALSE, skip |-> FALSE]
    /\ opCount' = opCount + 1
    /\ ended' = "none"
    /\ UNCHANGED <<mainnet, env, request, bundle, stack, relay, seedGiven>>

MigrateImages ==
    /\ At("upgrade")
    /\ env' = [Existing EXCEPT !.image = "current"]
    /\ Goto("pull")
    /\ UNCHANGED <<mainnet, request, bundle, stack, relay, opCount, seedGiven, ended>>

Upgrade ==
    /\ At("pull")
    /\ env # Absent
    /\ stack' = env
    /\ End("ok")
    /\ UNCHANGED <<mainnet, env, request, bundle, relay, opCount, seedGiven>>

\* PROOF admits the signer of the request and issues a bundle for it.
IssueBundle(t) ==
    /\ request # Absent
    /\ bundle' = [seed |-> request, cap |-> t, rs |-> t]
    /\ relay' = [relay EXCEPT !.admits = @ \cup {request}]
    /\ UNCHANGED <<mainnet, env, request, stack, setup, opCount, seedGiven, ended>>

\* The report that the relay lists expires, which takes longer than a setup.
ReportExpires ==
    /\ relay.lists # Absent /\ setup = Absent
    /\ relay' = [relay EXCEPT !.lists = Absent]
    /\ ended' = "none"
    /\ UNCHANGED <<mainnet, env, request, bundle, stack, setup, opCount, seedGiven>>

OpNext ==
    \/ \E f \in Flags, skip \in BOOLEAN : StartSetup(f, skip)
    \/ WriteEnvFile \/ TearEnvFile \/ WriteRequest
    \/ SkipLaunch \/ Launch \/ StepFails
    \/ Register \/ SkipRegistration \/ Verify
    \/ \E keep \in BOOLEAN : StartUpgrade(keep)
    \/ MigrateImages \/ Upgrade
    \/ \E t \in Tokens : IssueBundle(t)
    \/ ReportExpires

OpSpec == OpInit /\ [][OpNext]_opVars

-------------------------------------------------------------------------------
\* classifyOperatorStatus, for a gateway whose agent answers and whose route
\* state is healthy.
Classified ==
    IF Existing.mode = "local-only" THEN "local-only"
    ELSE IF Existing.mode = "pre-admission" \/ MissesMaterial(Existing)
           THEN "pre-admission"
    ELSE IF ~Existing.operator \/ relay.lists = Absent THEN "relay-missing"
    ELSE "admitted"

\* The signer that an operator asked admission for can be used: its seed is in
\* the env file, unless another seed was given or the env file was torn.
RequestIsSignable ==
    request # Absent /\ ~seedGiven => env # Absent /\ env.seed = request

\* "Generate and store a local report seed" (gateway/setup.ts:36): the seed that
\* is stored, and perhaps admitted, is never replaced by a generated one.
SeedIsKept ==
    [][env # Absent /\ env.seed # Absent /\ ~seedGiven' => env'.seed = env.seed]_opVars

\* "A gateway launched without this material can be locally healthy but absent
\* from relay capacity" (setup.ts:1529): a setup never launches one on mainnet
\* unless it is local.
LaunchesWithMaterial ==
    At("register") /\ MissesMaterial(stack) => setup.config.mode = "local-only"

\* What setup verified, status confirms: both read the env file and the relay.
\* Off mainnet setup does not ask for the operator that status needs.
VerifiedIsAdmitted ==
    ended = "verified" /\ mainnet => Classified = "admitted"

\* However often setup is run and wherever it ends: the seed, the request, the
\* material of a launch and what verify confirms.
OperatorSafe ==
    /\ [](OpTypeOK /\ RequestIsSignable /\ LaunchesWithMaterial /\ VerifiedIsAdmitted)
    /\ SeedIsKept
===============================================================================
