---------------------------- MODULE OperatorProofs ----------------------------
(***************************************************************************)
(* What operators rely on, for any number of setups, processes, jobs, DNS  *)
(* commands, records, deploys, relays and sweeps: the invariants of        *)
(* OperatorSetup, ExpressHarness, DnsRecords, BundleStage, RelayAuthority  *)
(* and GatewayDiscovery, and that their properties follow.                 *)
(***************************************************************************)
EXTENDS OperatorSetup, ExpressHarness, DnsRecords, BundleStage, RelayAuthority,
        GatewayDiscovery, FiniteSetTheorems, SequenceTheorems, WellFoundedInduction, TLAPS

(***************************************************************************)
(* The setup of an operator                                                *)
(***************************************************************************)
\* The env file holds what a setup with configuration c wrote.
EnvHolds(c) ==
    /\ env # Absent
    /\ env.mode = c.mode /\ env.operator = c.operator
    /\ c.seed # Absent => env.seed = c.seed
    /\ c.cap # Absent => env.cap = c.cap
    /\ c.rs # Absent => env.rs = c.rs

\* A setup began only with what its mode asks for.
SetupIsAllowed(s) ==
    /\ s.config.mode \in Modes
    /\ s.config.mode = "local-only" \/ s.prepare \/ ~MissesMaterial(s.config)
    /\ s.config.mode = "admitted" => ~s.prepare
    /\ s.prepare => s.config.seed \in Seeds

\* No seed was given, so the one of the env file is the one it will write.
KeepsSeed(s) ==
    ~seedGiven /\ Existing.seed # Absent => s.config.seed = Existing.seed

\* Where a setup is says what it wrote, what it launched, and what the relay
\* lists of it.
SetupIsSound(s) ==
    /\ ended = "none"
    /\ s.at \notin {"upgrade", "pull"} => SetupIsAllowed(s)
    /\ s.at = "write" => KeepsSeed(s)
    /\ s.at \in {"request", "launch", "register", "verify"} => EnvHolds(s.config)
    /\ s.at = "register" =>
          /\ stack = env
          /\ s.config.mode = "local-only" \/ ~MissesMaterial(s.config)
    /\ s.at = "verify" /\ s.config.mode = "admitted" /\ mainnet /\ AgentAnswers =>
          relay.lists # Absent

\* What a setup that was verified leaves behind.
VerifiedLeaves ==
    ended = "verified" /\ mainnet =>
        /\ env # Absent /\ env.mode = "admitted"
        /\ ~MissesMaterial(env)
        /\ relay.lists # Absent

OpInv ==
    /\ OpTypeOK /\ RequestIsSignable /\ VerifiedLeaves
    /\ setup # Absent => SetupIsSound(setup)

LEMMA NoRecordIsAbsent ==
    Absent \notin Seeds /\ Absent \notin Tokens /\ Absent # BadSeed
    /\ Absent \notin Envs /\ Absent \notin Setups /\ BadSeed \notin Seeds
  BY OperatorOK, OperatorRecordsOK

\* An env file that is not there is read as one without values.
LEMMA ExistingIsEnv ==
    ASSUME OpTypeOK
    PROVE  Existing \in Envs
<1>1. NoEnv \in Envs
  BY DEF NoEnv, Envs, Modes, Ports, Images
<1> QED
  BY <1>1 DEF Existing, OpTypeOK

LEMMA ResolvedIsEnv ==
    ASSUME OpTypeOK, NEW f \in Flags
    PROVE  /\ Resolved(f) \in Envs
           /\ Resolved(f).mode \in Modes
           /\ Resolved(f).mode = "admitted" => ~f.prepare /\ ~f.local
           /\ f.local => Resolved(f).mode = "local-only"
           /\ Resolved(f).seed = ResolvedSeed(f.seed, f.fresh)
<1> DEFINE b(x) == IF f.apply THEN x ELSE Absent
           cap == Either(Either(f.cap, Existing.cap), b(bundle.cap))
           rs == Either(Either(Existing.rs, b(bundle.rs)), cap)
           mode == IF f.local THEN "local-only"
                   ELSE IF f.prepare THEN "pre-admission" ELSE "admitted"
           operator == f.operator \/ Existing.operator \/ f.apply
<1>1. /\ f.seed \in {Absent, BadSeed} \cup Seeds /\ f.fresh \in {Absent} \cup Seeds
      /\ f.cap \in {Absent} \cup Tokens /\ f.operator \in BOOLEAN
      /\ f.local \in BOOLEAN /\ f.prepare \in BOOLEAN
      /\ f.apply \in {bundle # Absent, FALSE} /\ f.port \in {Existing.port, "other"}
  BY DEF Flags, UnusedSeeds
<1>2. /\ Existing.seed \in Seeds \cup {BadSeed, Absent}
      /\ Existing.cap \in Tokens \cup {Absent} /\ Existing.rs \in Tokens \cup {Absent}
      /\ Existing.operator \in BOOLEAN /\ Existing.port \in Ports
  BY ExistingIsEnv DEF Envs
<1>3. f.apply => bundle.cap \in Tokens /\ bundle.rs \in Tokens
  BY <1>1 DEF OpTypeOK, Bundles
<1>4. b(bundle.cap) \in Tokens \cup {Absent} /\ b(bundle.rs) \in Tokens \cup {Absent}
  BY <1>3
<1>5. cap \in Tokens \cup {Absent}
  BY <1>1, <1>2, <1>4 DEF Either
<1>6. rs \in Tokens \cup {Absent}
  BY <1>2, <1>4, <1>5 DEF Either
<1>7. ResolvedSeed(f.seed, f.fresh) \in Seeds \cup {BadSeed, Absent}
  BY <1>1, <1>2 DEF ResolvedSeed, Either
<1>8. /\ mode \in Modes /\ (mode = "admitted" => ~f.prepare /\ ~f.local)
      /\ f.local => mode = "local-only"
  BY DEF Modes
<1>9. operator \in BOOLEAN
  OBVIOUS
<1>10. f.port \in Ports
  BY <1>1, <1>2 DEF Ports
<1>11. Resolved(f) = [mode |-> mode, seed |-> ResolvedSeed(f.seed, f.fresh), cap |-> cap,
                      rs |-> rs, operator |-> operator, port |-> f.port,
                      image |-> "current"]
  BY DEF Resolved
<1> HIDE DEF b, cap, rs, mode, operator
<1> QED
  BY <1>5, <1>6, <1>7, <1>8, <1>9, <1>10, <1>11 DEF Envs, Images

\* A setup writes its configuration, and of the file what it does not configure.
LEMMA MergedHolds ==
    ASSUME OpTypeOK, NEW c \in Envs
    PROVE  /\ Merged(c) \in Envs
           /\ Merged(c).mode = c.mode /\ Merged(c).operator = c.operator
           /\ Merged(c).seed = Either(c.seed, Existing.seed)
           /\ c.cap # Absent => Merged(c).cap = c.cap
           /\ c.rs # Absent => Merged(c).rs = c.rs
<1>1. /\ Either(c.seed, Existing.seed) \in Seeds \cup {BadSeed, Absent}
      /\ Either(c.cap, Existing.cap) \in Tokens \cup {Absent}
      /\ Either(c.rs, Existing.rs) \in Tokens \cup {Absent}
  BY ExistingIsEnv DEF Either, Envs
<1>2. /\ Merged(c).mode = c.mode /\ Merged(c).operator = c.operator
      /\ Merged(c).seed = Either(c.seed, Existing.seed)
      /\ Merged(c).cap = Either(c.cap, Existing.cap)
      /\ Merged(c).rs = Either(c.rs, Existing.rs)
  BY DEF Merged, Envs
<1>3. Merged(c) \in Envs
  BY <1>1 DEF Merged, Envs
<1> QED
  BY <1>2, <1>3 DEF Either

LEMMA GotoMovesOnly ==
    ASSUME OpTypeOK, setup # Absent, NEW s \in Steps, Goto(s)
    PROVE  /\ setup' \in Setups /\ setup' # Absent
           /\ setup'.at = s /\ setup'.config = setup.config
           /\ setup'.prepare = setup.prepare /\ setup'.skip = setup.skip
<1>1. setup \in Setups /\ setup' = [setup EXCEPT !.at = s]
  BY DEF OpTypeOK, Goto
<1>2. setup' \in Setups /\ setup'.at = s /\ setup'.config = setup.config
      /\ setup'.prepare = setup.prepare /\ setup'.skip = setup.skip
  BY <1>1 DEF Setups
<1> QED
  BY <1>2, NoRecordIsAbsent

LEMMA OpInvInit == OpInit => OpInv
<1> SUFFICES ASSUME OpInit
             PROVE  OpInv
  OBVIOUS
<1>1. env \in Envs \cup {Absent}
  <2>1. CASE env = Absent
    BY <2>1
  <2>2. ASSUME NEW s \in Seeds, NEW t \in Tokens, env = LegacyEnv(s, t)
        PROVE  env \in Envs
    <3>1. NoEnv \in Envs
      BY DEF NoEnv, Envs, Modes, Ports, Images
    <3> QED
      BY <2>2, <3>1 DEF LegacyEnv, Envs, Images
  <2> QED
    BY <2>1, <2>2 DEF OpInit
<1>2. opCount \in 0 .. MaxSetups
  BY OperatorOK DEF OpInit
<1>3. OpTypeOK
  BY <1>1, <1>2 DEF OpInit, OpTypeOK, Ends
<1> QED
  BY <1>3 DEF OpInv, OpInit, RequestIsSignable, VerifiedLeaves

\* The material that a setup's configuration has, the env file has too.
LEMMA MaterialIsWritten ==
    ASSUME NEW c, EnvHolds(c), ~MissesMaterial(c)
    PROVE  ~MissesMaterial(env)
  BY DEF EnvHolds, MissesMaterial

LEMMA OpInvNext == OpInv /\ [OpNext]_opVars => OpInv'
<1> SUFFICES ASSUME OpInv, [OpNext]_opVars
             PROVE  OpInv'
  OBVIOUS
<1>0. /\ OpTypeOK /\ RequestIsSignable /\ VerifiedLeaves
      /\ setup # Absent => SetupIsSound(setup)
  BY DEF OpInv
<1> USE DEF At
<1>1. ASSUME NEW f \in Flags, NEW skip \in BOOLEAN, StartSetup(f, skip)
      PROVE  OpInv'
  <2> DEFINE new == [at |-> "write", config |-> Resolved(f),
                     prepare |-> f.prepare, skip |-> skip]
  <2>1. /\ setup' = new /\ ended' = "none" /\ opCount' = opCount + 1
        /\ opCount < MaxSetups /\ seedGiven' = (seedGiven \/ f.seed # Absent)
        /\ UNCHANGED <<mainnet, env, request, bundle, stack, relay>>
        /\ ~Refuses(f, Resolved(f))
    BY <1>1 DEF StartSetup
  <2>2. /\ Resolved(f) \in Envs /\ Resolved(f).mode \in Modes
        /\ Resolved(f).mode = "admitted" => ~f.prepare /\ ~f.local
        /\ f.local => Resolved(f).mode = "local-only"
        /\ Resolved(f).seed = ResolvedSeed(f.seed, f.fresh)
        /\ f.prepare \in BOOLEAN /\ f.local \in BOOLEAN
    BY <1>0, ResolvedIsEnv DEF Flags
  <2>3. new \in Setups /\ new.at = "write" /\ new.config = Resolved(f)
        /\ new.prepare = f.prepare
    BY <2>2 DEF Setups, Steps
  <2>4. new # Absent
    BY <2>3, NoRecordIsAbsent
  <2> HIDE DEF new
  <2>5. OpTypeOK'
    BY <1>0, <2>1, <2>3, OperatorOK DEF OpTypeOK, Ends
  <2>6. RequestIsSignable' /\ VerifiedLeaves'
    BY <1>0, <2>1 DEF RequestIsSignable, VerifiedLeaves, OpTypeOK
  <2>7. SetupIsAllowed(new)
    <3>1. f.local \/ f.prepare \/ ~MissesMaterial(Resolved(f))
      BY <2>1 DEF Refuses
    <3>2. f.prepare => Resolved(f).seed \in Seeds
      BY <2>1, NoRecordIsAbsent DEF Refuses, Signer
    <3> QED
      BY <2>2, <2>3, <3>1, <3>2 DEF SetupIsAllowed
  <2>8. ~seedGiven' /\ Existing.seed # Absent => new.config.seed = Existing.seed
    BY <2>1, <2>2, <2>3 DEF ResolvedSeed, Either
  <2>9. Existing' = Existing
    BY <2>1 DEF Existing
  <2>10. SetupIsSound(setup)'
    BY <2>1, <2>3, <2>7, <2>8, <2>9 DEF SetupIsSound, KeepsSeed, SetupIsAllowed, MissesMaterial
  <2> QED
    BY <2>5, <2>6, <2>10 DEF OpInv
<1>2. CASE WriteEnvFile
  <2>1. /\ setup # Absent /\ setup.at = "write" /\ env' = Merged(setup.config)
        /\ Goto("request")
        /\ UNCHANGED <<mainnet, request, bundle, stack, relay, opCount, seedGiven, ended>>
    BY <1>2 DEF WriteEnvFile
  <2>2. /\ setup' \in Setups /\ setup' # Absent
        /\ setup'.at = "request" /\ setup'.config = setup.config
        /\ setup'.prepare = setup.prepare
    BY <1>0, <2>1, GotoMovesOnly DEF Steps
  <2>3. setup.config \in Envs
    BY <1>0, <2>1 DEF OpTypeOK, Setups
  <2>4. /\ env' \in Envs
        /\ env'.mode = setup.config.mode /\ env'.operator = setup.config.operator
        /\ env'.seed = Either(setup.config.seed, Existing.seed)
        /\ setup.config.cap # Absent => env'.cap = setup.config.cap
        /\ setup.config.rs # Absent => env'.rs = setup.config.rs
    BY <1>0, <2>1, <2>3, MergedHolds
  <2>5. OpTypeOK'
    BY <1>0, <2>1, <2>2, <2>4 DEF OpTypeOK
  <2>6. SetupIsAllowed(setup) /\ KeepsSeed(setup) /\ ended = "none"
    BY <1>0, <2>1 DEF SetupIsSound
  <2>7. RequestIsSignable'
    BY <1>0, <2>1, <2>4, <2>6, NoRecordIsAbsent
       DEF RequestIsSignable, KeepsSeed, Existing, Either, OpTypeOK
  <2>8. VerifiedLeaves'
    BY <2>1, <2>6 DEF VerifiedLeaves
  <2>9. EnvHolds(setup.config)'
    BY <2>4, <2>2, NoRecordIsAbsent DEF EnvHolds, Either
  <2>10. SetupIsSound(setup)'
    BY <2>1, <2>2, <2>6, <2>9 DEF SetupIsSound, SetupIsAllowed, MissesMaterial
  <2> QED
    BY <2>5, <2>7, <2>8, <2>10 DEF OpInv
<1>3. CASE TearEnvFile
  <2>1. NoEnv \in Envs
    BY DEF NoEnv, Envs, Modes, Ports, Images
  <2> QED
    BY <1>0, <1>3, <2>1
       DEF OpInv, TearEnvFile, End, OpTypeOK, Ends, RequestIsSignable, VerifiedLeaves
<1>4. CASE WriteRequest
  <2>1. /\ setup # Absent /\ setup.at = "request" /\ Goto("launch")
        /\ request' = IF setup.prepare THEN Signer(setup.config.seed) ELSE request
        /\ UNCHANGED <<mainnet, env, bundle, stack, relay, opCount, seedGiven, ended>>
    BY <1>4 DEF WriteRequest, Requested
  <2>2. /\ setup' \in Setups /\ setup' # Absent
        /\ setup'.at = "launch" /\ setup'.config = setup.config
        /\ setup'.prepare = setup.prepare
    BY <1>0, <2>1, GotoMovesOnly DEF Steps
  <2>3. SetupIsAllowed(setup) /\ EnvHolds(setup.config) /\ ended = "none"
    BY <1>0, <2>1 DEF SetupIsSound
  <2>4. OpTypeOK'
    BY <1>0, <2>1, <2>2 DEF OpTypeOK, Signer
  <2>5. RequestIsSignable'
    BY <1>0, <2>1, <2>3, NoRecordIsAbsent
       DEF RequestIsSignable, Signer, SetupIsAllowed, EnvHolds
  <2>6. SetupIsSound(setup)'
    BY <2>1, <2>2, <2>3 DEF SetupIsSound, SetupIsAllowed, MissesMaterial, EnvHolds
  <2> QED
    BY <2>1, <2>3, <2>4, <2>5, <2>6 DEF OpInv, VerifiedLeaves
<1>5. CASE SkipLaunch \/ StepFails
  BY <1>0, <1>5
     DEF OpInv, SkipLaunch, StepFails, End, OpTypeOK, Ends, RequestIsSignable, VerifiedLeaves
<1>6. CASE Launch
  <2>1. /\ setup # Absent /\ setup.at = "launch" /\ Goto("register")
        /\ stack' = env /\ ~SkipsCompose
        /\ UNCHANGED <<mainnet, env, request, bundle, relay, opCount, seedGiven, ended>>
    BY <1>6 DEF Launch
  <2>2. /\ setup' \in Setups /\ setup' # Absent
        /\ setup'.at = "register" /\ setup'.config = setup.config
        /\ setup'.prepare = setup.prepare
    BY <1>0, <2>1, GotoMovesOnly DEF Steps
  <2>3. SetupIsAllowed(setup) /\ EnvHolds(setup.config) /\ ended = "none"
    BY <1>0, <2>1 DEF SetupIsSound
  <2>4. setup.config.mode = "local-only" \/ ~MissesMaterial(setup.config)
    BY <2>1, <2>3 DEF SetupIsAllowed, SkipsCompose
  <2>5. OpTypeOK'
    BY <1>0, <2>1, <2>2 DEF OpTypeOK
  <2>6. SetupIsSound(setup)'
    BY <2>1, <2>2, <2>3, <2>4 DEF SetupIsSound, SetupIsAllowed, MissesMaterial, EnvHolds
  <2> QED
    BY <1>0, <2>1, <2>3, <2>5, <2>6 DEF OpInv, VerifiedLeaves, RequestIsSignable
<1>7. CASE Register
  <2>1. /\ setup # Absent /\ setup.at = "register" /\ AgentAnswers
        /\ UNCHANGED <<mainnet, env, request, bundle, stack, opCount, seedGiven>>
    BY <1>7 DEF Register
  <2>2. SetupIsAllowed(setup) /\ EnvHolds(setup.config) /\ ended = "none"
    BY <1>0, <2>1 DEF SetupIsSound
  <2>3. CASE RelayAccepts(stack)
    <3>1. /\ relay' = [relay EXCEPT !.lists = stack.seed] /\ Goto("verify")
          /\ ended' = ended
      BY <1>7, <2>3 DEF Register
    <3>2. stack.seed \in Seeds
      BY <1>0, <2>3 DEF RelayAccepts, OpTypeOK
    <3>3. relay' \in [admits : SUBSET Seeds, lists : Seeds \cup {Absent}]
          /\ relay'.lists # Absent
      BY <1>0, <3>1, <3>2, NoRecordIsAbsent DEF OpTypeOK
    <3>4. /\ setup' \in Setups /\ setup' # Absent
          /\ setup'.at = "verify" /\ setup'.config = setup.config
          /\ setup'.prepare = setup.prepare
      BY <1>0, <2>1, <3>1, GotoMovesOnly DEF Steps
    <3>5. OpTypeOK'
      BY <1>0, <2>1, <3>1, <3>3, <3>4 DEF OpTypeOK
    <3>6. SetupIsSound(setup)'
      BY <2>1, <2>2, <3>1, <3>3, <3>4
         DEF SetupIsSound, SetupIsAllowed, MissesMaterial, EnvHolds
    <3> QED
      BY <1>0, <2>1, <2>2, <3>1, <3>5, <3>6 DEF OpInv, VerifiedLeaves, RequestIsSignable
  <2>4. CASE ~RelayAccepts(stack) /\ setup.config.mode = "admitted"
    BY <1>0, <1>7, <2>1, <2>4
       DEF OpInv, Register, End, OpTypeOK, Ends, RequestIsSignable, VerifiedLeaves
  <2>5. CASE ~RelayAccepts(stack) /\ setup.config.mode # "admitted"
    <3>1. relay' = relay /\ Goto("verify") /\ ended' = ended
      BY <1>7, <2>5 DEF Register
    <3>2. /\ setup' \in Setups /\ setup' # Absent
          /\ setup'.at = "verify" /\ setup'.config = setup.config
          /\ setup'.prepare = setup.prepare
      BY <1>0, <2>1, <3>1, GotoMovesOnly DEF Steps
    <3>3. OpTypeOK'
      BY <1>0, <2>1, <3>1, <3>2 DEF OpTypeOK
    <3>4. SetupIsSound(setup)'
      BY <2>1, <2>2, <2>5, <3>1, <3>2
         DEF SetupIsSound, SetupIsAllowed, MissesMaterial, EnvHolds
    <3> QED
      BY <1>0, <2>1, <2>2, <3>1, <3>3, <3>4 DEF OpInv, VerifiedLeaves, RequestIsSignable
  <2> QED
    BY <2>3, <2>4, <2>5
<1>8. CASE SkipRegistration
  <2>1. /\ setup # Absent /\ setup.at = "register" /\ Goto("verify")
        /\ UNCHANGED <<mainnet, env, request, bundle, stack, relay, opCount, seedGiven, ended>>
        /\ \/ ~ChecksRegistration(setup.config)
           \/ ~AgentAnswers
           \/ setup.config.mode # "admitted"
    BY <1>8 DEF SkipRegistration
  <2>2. /\ SetupIsAllowed(setup) /\ EnvHolds(setup.config) /\ ended = "none"
        /\ setup.config.mode = "local-only" \/ ~MissesMaterial(setup.config)
    BY <1>0, <2>1 DEF SetupIsSound
  <2>3. /\ setup' \in Setups /\ setup' # Absent
        /\ setup'.at = "verify" /\ setup'.config = setup.config
        /\ setup'.prepare = setup.prepare
    BY <1>0, <2>1, GotoMovesOnly DEF Steps
  <2>4. setup.config.mode = "admitted" /\ mainnet => ~AgentAnswers
    BY <2>1, <2>2 DEF ChecksRegistration, MissesMaterial
  <2>5. OpTypeOK'
    BY <1>0, <2>1, <2>3 DEF OpTypeOK
  <2>6. SetupIsSound(setup)'
    BY <2>1, <2>2, <2>3, <2>4
       DEF SetupIsSound, SetupIsAllowed, MissesMaterial, EnvHolds, AgentAnswers
  <2> QED
    BY <1>0, <2>1, <2>2, <2>5, <2>6 DEF OpInv, VerifiedLeaves, RequestIsSignable
<1>9. CASE Verify
  <2>1. /\ setup # Absent /\ setup.at = "verify" /\ setup' = Absent
        /\ UNCHANGED <<mainnet, env, request, bundle, stack, relay, opCount, seedGiven>>
        /\ ended' \in {"ok", "verified", "failed"}
        /\ ended' = "verified" => setup.config.mode = "admitted" /\ AgentAnswers
    BY <1>9 DEF Verify, End, LooksVerified
  <2>2. /\ SetupIsAllowed(setup) /\ EnvHolds(setup.config)
        /\ setup.config.mode = "admitted" /\ mainnet /\ AgentAnswers => relay.lists # Absent
    BY <1>0, <2>1 DEF SetupIsSound
  <2>3. setup.config.mode = "admitted" => ~MissesMaterial(setup.config)
    BY <2>2 DEF SetupIsAllowed
  <2>4. setup.config.mode = "admitted" => ~MissesMaterial(env) /\ env.mode = "admitted"
    BY <2>2, <2>3, MaterialIsWritten DEF EnvHolds
  <2>5. VerifiedLeaves'
    BY <2>1, <2>2, <2>4 DEF VerifiedLeaves, MissesMaterial, EnvHolds
  <2> QED
    BY <1>0, <2>1, <2>5 DEF OpInv, OpTypeOK, Ends, RequestIsSignable
<1>10. ASSUME NEW keep \in BOOLEAN, StartUpgrade(keep)
       PROVE  OpInv'
  <2> DEFINE new == [at |-> IF Existing.image = "legacy" /\ ~keep THEN "upgrade" ELSE "pull",
                     config |-> Existing, prepare |-> FALSE, skip |-> FALSE]
  <2>1. new \in Setups /\ new.at \in {"upgrade", "pull"}
    BY <1>0, ExistingIsEnv DEF Setups, Steps
  <2> HIDE DEF new
  <2>2. /\ setup' = new /\ opCount' = opCount + 1 /\ ended' = "none" /\ opCount < MaxSetups
        /\ UNCHANGED <<mainnet, env, request, bundle, stack, relay, seedGiven>>
    BY <1>10 DEF StartUpgrade, new
  <2>3. OpTypeOK'
    BY <1>0, <2>1, <2>2, OperatorOK DEF OpTypeOK, Ends
  <2>4. SetupIsSound(setup)'
    BY <2>1, <2>2 DEF SetupIsSound
  <2> QED
    BY <1>0, <2>2, <2>3, <2>4 DEF OpInv, VerifiedLeaves, RequestIsSignable
<1>11. CASE MigrateImages
  <2>1. /\ setup # Absent /\ setup.at = "upgrade" /\ Goto("pull")
        /\ env' = [Existing EXCEPT !.image = "current"]
        /\ UNCHANGED <<mainnet, request, bundle, stack, relay, opCount, seedGiven, ended>>
    BY <1>11 DEF MigrateImages
  <2>2. env' \in Envs /\ env'.seed = Existing.seed
    BY <1>0, <2>1, ExistingIsEnv DEF Envs, Images
  <2>3. setup' \in Setups /\ setup' # Absent /\ setup'.at = "pull" /\ ended = "none"
    BY <1>0, <2>1, GotoMovesOnly DEF Steps, SetupIsSound
  <2>4. OpTypeOK'
    BY <1>0, <2>1, <2>2, <2>3 DEF OpTypeOK
  <2>5. RequestIsSignable'
    BY <1>0, <2>1, <2>2, NoRecordIsAbsent DEF RequestIsSignable, Existing
  <2>6. SetupIsSound(setup)'
    BY <2>1, <2>3 DEF SetupIsSound
  <2> QED
    BY <2>1, <2>3, <2>4, <2>5, <2>6 DEF OpInv, VerifiedLeaves
<1>12. CASE Upgrade
  BY <1>0, <1>12
     DEF OpInv, Upgrade, End, OpTypeOK, Ends, RequestIsSignable, VerifiedLeaves
<1>13. ASSUME NEW t \in Tokens, IssueBundle(t)
       PROVE  OpInv'
  <2>1. /\ request # Absent /\ bundle' = [seed |-> request, cap |-> t, rs |-> t]
        /\ relay' = [relay EXCEPT !.admits = @ \cup {request}]
        /\ UNCHANGED <<mainnet, env, request, stack, setup, opCount, seedGiven, ended>>
    BY <1>13 DEF IssueBundle
  <2>2. /\ relay' \in [admits : SUBSET Seeds, lists : Seeds \cup {Absent}]
        /\ relay'.lists = relay.lists /\ bundle' \in Bundles
    BY <1>0, <2>1 DEF OpTypeOK, Bundles
  <2>3. OpTypeOK'
    BY <1>0, <2>1, <2>2 DEF OpTypeOK
  <2>4. setup # Absent => SetupIsSound(setup)'
    BY <1>0, <2>1, <2>2
       DEF SetupIsSound, SetupIsAllowed, MissesMaterial, EnvHolds, KeepsSeed, Existing,
           AgentAnswers
  <2> QED
    BY <1>0, <2>1, <2>2, <2>3, <2>4
       DEF OpInv, VerifiedLeaves, RequestIsSignable, MissesMaterial
<1>14. CASE ReportExpires
  BY <1>0, <1>14
     DEF OpInv, ReportExpires, OpTypeOK, Ends, RequestIsSignable, VerifiedLeaves
<1>15. CASE UNCHANGED opVars
  BY <1>0, <1>15
     DEF OpInv, opVars, OpTypeOK, RequestIsSignable, VerifiedLeaves, MissesMaterial,
         SetupIsSound, SetupIsAllowed, EnvHolds, KeepsSeed, Existing, AgentAnswers
<1> QED
  BY <1>1, <1>2, <1>3, <1>4, <1>5, <1>6, <1>7, <1>8, <1>9, <1>10, <1>11, <1>12, <1>13,
     <1>14, <1>15 DEF OpNext

\* However often setup is run and wherever it ends: the signer that asked for
\* admission can be used, no stack is launched on mainnet without its material
\* unless it is local, status confirms what setup verified, and a generated
\* seed never replaces one that is stored.
THEOREM OperatorIsSafe == OpSpec => OperatorSafe
<1>1. OpInv => OpTypeOK /\ RequestIsSignable /\ LaunchesWithMaterial /\ VerifiedIsAdmitted
  <2> SUFFICES ASSUME OpInv
               PROVE  LaunchesWithMaterial /\ VerifiedIsAdmitted
    BY DEF OpInv
  <2>1. LaunchesWithMaterial
    <3> SUFFICES ASSUME At("register"), MissesMaterial(stack),
                        setup.config.mode # "local-only"
                 PROVE  FALSE
      BY DEF LaunchesWithMaterial
    <3>1. EnvHolds(setup.config) /\ ~MissesMaterial(setup.config) /\ stack = env
      BY DEF OpInv, At, SetupIsSound
    <3> QED
      BY <3>1, MaterialIsWritten
  <2>2. VerifiedIsAdmitted
    BY DEF OpInv, VerifiedLeaves, VerifiedIsAdmitted, Classified, Existing, MissesMaterial
  <2> QED
    BY <2>1, <2>2
<1>2. OpInv /\ [OpNext]_opVars =>
        (env # Absent /\ env.seed # Absent /\ ~seedGiven' => env'.seed = env.seed)
  <2> SUFFICES ASSUME OpInv, [OpNext]_opVars, env # Absent, env.seed # Absent, ~seedGiven'
               PROVE  env'.seed = env.seed
    OBVIOUS
  <2>1. OpTypeOK /\ (setup # Absent => SetupIsSound(setup)) /\ Existing = env
    BY DEF OpInv, Existing
  <2>2. CASE WriteEnvFile
    <3>1. setup # Absent /\ setup.at = "write" /\ env' = Merged(setup.config) /\ ~seedGiven
      BY <2>2 DEF WriteEnvFile, At
    <3>2. setup.config.seed = env.seed /\ setup.config \in Envs
      BY <2>1, <3>1 DEF SetupIsSound, KeepsSeed, OpTypeOK, Setups
    <3> QED
      BY <2>1, <3>1, <3>2, MergedHolds DEF Either
  <2>3. CASE MigrateImages
    BY <2>1, <2>3, ExistingIsEnv DEF MigrateImages, Envs
  <2>4. CASE TearEnvFile
    BY <2>4 DEF TearEnvFile
  <2>5. CASE UNCHANGED env
    BY <2>5
  <2> QED
    BY <2>2, <2>3, <2>4, <2>5
       DEF OpNext, opVars, StartSetup, WriteRequest, SkipLaunch, Launch, StepFails, Register,
           SkipRegistration, Verify, StartUpgrade, Upgrade, IssueBundle, ReportExpires
<1>3. OpInv /\ [OpNext]_opVars =>
        [env # Absent /\ env.seed # Absent /\ ~seedGiven' => env'.seed = env.seed]_opVars
  BY <1>2
<1> QED
  BY <1>1, <1>3, OpInvInit, OpInvNext, PTL DEF OpSpec, OperatorSafe, SeedIsKept

(***************************************************************************)
(* The Express harness                                                     *)
(***************************************************************************)
BeforeSubmit == {"intent", "wipe", "build", "load", "upload", "submit"}

\* The chain numbers the jobs as it includes them.
JobsArePrefix ==
    \E k \in 0 .. Cardinality(Procs) :
        \A j \in JobIds : jobs[j] # Absent <=> j <= k

\* A record is of a job that there is.
RecordsAreOfJobs == \A j \in JobIds : jobs[j] = Absent => records[j] = Absent

\* A process that has not begun left nothing behind; the job that one stores,
\* waits for or enrols is its own.
RunIsSound(p) ==
    /\ proc[p].at = "idle" =>
          /\ p \notin unsettled /\ \A j \in JobIds : jobs[j] # p
          /\ uploaded[p] = Absent /\ enrolled[p] = Absent
    /\ proc[p].at \in BeforeSubmit => proc[p].vars <= MaxVars + 1
    /\ proc[p].at \in {"store", "ack"} => jobs[proc[p].job] = p /\ proc[p].job \in JobIds
    /\ proc[p].at = "enroll" => proc[p].kind = "launch"

\* A launch names as many variables as the chain takes, so that none is added;
\* whoever writes the record of its job writes that many.
LaunchIsSound(p) ==
    /\ proc[p].vars = MaxVars /\ proc[p].explicit /\ proc[p].script
    /\ \A j \in JobIds : jobs[j] = p => records[j] \in {Absent, MaxVars}
    /\ proc[p].at \in {"ack", "env", "enroll"} =>
          /\ proc[p].job \in JobIds /\ jobs[proc[p].job] = p
          /\ records[proc[p].job] = MaxVars \/ proc[p].job \in wiped
    /\ proc[p].at \in {"env", "enroll"} => proc[p].job \in acked
    /\ proc[p].at = "enroll" =>
          jobEnv[proc[p].job] = MaxVars \/ proc[p].job \in wiped

\* What the relay enrolled.
EnrolledIsSound(p) ==
    /\ proc[p].kind = "launch"
    /\ enrolled[p] \in JobIds /\ jobs[enrolled[p]] = p
    /\ enrolled[p] \in acked
    /\ jobEnv[enrolled[p]] = MaxVars \/ enrolled[p] \in wiped

ProcessIsSound(p) ==
    /\ RunIsSound(p)
    /\ proc[p].kind = "launch" => LaunchIsSound(p)
    /\ enrolled[p] # Absent => EnrolledIsSound(p)

HarnessInv ==
    /\ HarnessTypeOK /\ ChainIsSpared /\ UploadIsEncrypted
    /\ JobsArePrefix /\ RecordsAreOfJobs
    /\ \A p \in Procs : ProcessIsSound(p)

HarnessProcs ==
    [kind : HarnessKinds, at : HarnessPlaces, vars : 0 .. MaxVars + 2, explicit : BOOLEAN,
     existing : BOOLEAN, encrypted : BOOLEAN, script : BOOLEAN, skipEnv : BOOLEAN,
     job : JobIds \cup {0}]

LEMMA NumbersOfHarness ==
    /\ Absent \notin Procs /\ Absent \notin Nat /\ Absent \notin StagedBundles
    /\ MaxVars \in Nat \ {0} /\ Cardinality(Procs) \in Nat
    /\ JobIds \subseteq Nat \ {0}
  BY HarnessOK, HarnessNamesOK, FS_CardinalityType DEF JobIds

LEMMA ProcessesHaveType ==
    ASSUME HarnessTypeOK, NEW p \in Procs
    PROVE  /\ proc \in [Procs -> HarnessProcs] /\ proc[p] \in HarnessProcs
           /\ proc[p].vars \in Nat /\ proc[p].vars <= MaxVars + 2
  BY NumbersOfHarness DEF HarnessTypeOK, HarnessProcs

LEMMA MovesAtOnly ==
    ASSUME HarnessTypeOK, NEW p \in Procs, NEW place \in HarnessPlaces, Moves(p, place)
    PROVE  /\ proc' \in [Procs -> HarnessProcs]
           /\ proc'[p].at = place /\ proc'[p].kind = proc[p].kind
           /\ proc'[p].vars = proc[p].vars /\ proc'[p].job = proc[p].job
           /\ proc'[p].explicit = proc[p].explicit /\ proc'[p].script = proc[p].script
           /\ proc'[p].encrypted = proc[p].encrypted
           /\ \A q \in Procs \ {p} : proc'[q] = proc[q]
<1>1. proc \in [Procs -> HarnessProcs] /\ proc' = [proc EXCEPT ![p].at = place]
  BY ProcessesHaveType DEF Moves
<1> QED
  BY <1>1 DEF HarnessProcs

\* A step of one process alone: the others are as sound as they were.
LEMMA OneProcessSteps ==
    ASSUME HarnessInv, NEW p \in Procs, UNCHANGED <<records, jobs, acked, jobEnv, wiped>>,
           \A q \in Procs \ {p} :
               /\ proc'[q] = proc[q] /\ uploaded'[q] = uploaded[q]
               /\ enrolled'[q] = enrolled[q] /\ (q \in unsettled' => q \in unsettled),
           HarnessTypeOK', ProcessIsSound(p)',
           proc'[p].encrypted /\ uploaded'[p] # Absent => uploaded'[p] = "loader"
    PROVE  HarnessInv'
<1>1. ChainIsSpared' /\ JobsArePrefix' /\ RecordsAreOfJobs'
  BY DEF HarnessInv, ChainIsSpared, JobsArePrefix, RecordsAreOfJobs
<1>2. UploadIsEncrypted'
  BY DEF HarnessInv, UploadIsEncrypted
<1>3. ASSUME NEW q \in Procs \ {p}
      PROVE  ProcessIsSound(q)'
  <2>1. ProcessIsSound(q)
    BY DEF HarnessInv
  <2> QED
    BY <1>3, <2>1 DEF ProcessIsSound, RunIsSound, LaunchIsSound, EnrolledIsSound
<1> QED
  BY <1>1, <1>2, <1>3 DEF HarnessInv

LEMMA HarnessInvInit == HarnessInit => HarnessInv
<1> SUFFICES ASSUME HarnessInit
             PROVE  HarnessInv
  OBVIOUS
<1>1. HarnessTypeOK
  BY NumbersOfHarness DEF HarnessInit, HarnessTypeOK, NoProc, HarnessKinds, HarnessPlaces
<1>2. JobsArePrefix
  <2>1. 0 \in 0 .. Cardinality(Procs) /\ \A j \in JobIds : ~(j <= 0)
    BY NumbersOfHarness DEF JobIds
  <2> QED
    BY <2>1 DEF JobsArePrefix, HarnessInit
<1>3. \A p \in Procs : ProcessIsSound(p)
  BY NumbersOfHarness
     DEF HarnessInit, ProcessIsSound, RunIsSound, NoProc, BeforeSubmit
<1> QED
  BY <1>1, <1>2, <1>3
     DEF HarnessInv, HarnessInit, ChainIsSpared, UploadIsEncrypted, RecordsAreOfJobs

\* A command begins where it prepares a bundle, loads one, or updates.
LEMMA StartKeepsInv ==
    ASSUME HarnessInv, NEW p \in Procs, NEW kind \in HarnessKinds,
           NEW flags \in HarnessProcs, StartCommand(p, kind, flags),
           flags.vars <= MaxVars + 1,
           kind = "launch" => flags.vars = MaxVars /\ flags.explicit /\ flags.script
    PROVE  HarnessInv'
<1> DEFINE at == IF kind = "update" THEN "env"
                 ELSE IF kind = "launch" THEN "intent"
                 ELSE IF flags.existing THEN "load" ELSE "wipe"
           new == [flags EXCEPT !.kind = kind, !.at = at]
<1>1. /\ proc[p].at = "idle" /\ proc' = [proc EXCEPT ![p] = new]
      /\ UNCHANGED <<staged, records, unsettled, jobs, acked, jobEnv, uploaded, enrolled, wiped>>
  BY DEF StartCommand, IsAt
<1>2. at \in {"env", "intent", "load", "wipe"} /\ (at = "env" => kind # "launch")
  OBVIOUS
<1> HIDE DEF at
<1>3. /\ new \in HarnessProcs /\ new.at = at /\ new.kind = kind /\ new.vars = flags.vars
      /\ new.explicit = flags.explicit /\ new.script = flags.script
  BY <1>2 DEF HarnessProcs, HarnessPlaces
<1> HIDE DEF new
<1>4. HarnessTypeOK /\ ProcessIsSound(p)
  BY DEF HarnessInv
<1>5. /\ proc' \in [Procs -> HarnessProcs] /\ proc'[p] = new
      /\ \A q \in Procs \ {p} : proc'[q] = proc[q]
  BY <1>1, <1>3, <1>4, ProcessesHaveType
<1>6. HarnessTypeOK'
  BY <1>1, <1>4, <1>5 DEF HarnessTypeOK, HarnessProcs
<1>7. /\ p \notin unsettled /\ uploaded[p] = Absent /\ enrolled[p] = Absent
      /\ \A j \in JobIds : jobs[j] # p
  BY <1>1, <1>4 DEF ProcessIsSound, RunIsSound
<1>8. ProcessIsSound(p)'
  BY <1>1, <1>2, <1>3, <1>5, <1>7
     DEF ProcessIsSound, RunIsSound, LaunchIsSound, BeforeSubmit
<1> QED
  BY <1>1, <1>5, <1>6, <1>7, <1>8, OneProcessSteps

\* A process goes on or gives up, and does nothing else.
LEMMA MoveKeepsInv ==
    ASSUME HarnessInv, NEW p \in Procs, NEW place \in HarnessPlaces, Moves(p, place),
           UNCHANGED <<records, unsettled, jobs, acked, jobEnv, uploaded, enrolled, wiped>>,
           staged' \in StagedBundles \cup {Absent}, place # "idle", proc[p].at # "idle",
           place \in BeforeSubmit => proc[p].at \in BeforeSubmit,
           place \in {"done", "failed"} \cup BeforeSubmit
    PROVE  HarnessInv'
<1>1. HarnessTypeOK /\ ProcessIsSound(p)
  BY DEF HarnessInv
<1>2. /\ proc' \in [Procs -> HarnessProcs]
      /\ proc'[p].at = place /\ proc'[p].kind = proc[p].kind
      /\ proc'[p].vars = proc[p].vars /\ proc'[p].job = proc[p].job
      /\ proc'[p].explicit = proc[p].explicit /\ proc'[p].script = proc[p].script
      /\ proc'[p].encrypted = proc[p].encrypted
      /\ \A q \in Procs \ {p} : proc'[q] = proc[q]
  BY <1>1, MovesAtOnly
<1>3. HarnessTypeOK'
  BY <1>1, <1>2 DEF HarnessTypeOK, HarnessProcs
<1>4. ProcessIsSound(p)'
  BY <1>1, <1>2
     DEF ProcessIsSound, RunIsSound, LaunchIsSound, EnrolledIsSound, BeforeSubmit
<1>5. proc'[p].encrypted /\ uploaded'[p] # Absent => uploaded'[p] = "loader"
  BY <1>2 DEF HarnessInv, UploadIsEncrypted
<1> QED
  BY <1>2, <1>3, <1>4, <1>5, OneProcessSteps

LEMMA UploadKeepsInv ==
    ASSUME HarnessInv, NEW p \in Procs, Upload(p)
    PROVE  HarnessInv'
<1>1. HarnessTypeOK /\ ProcessIsSound(p) /\ proc[p].at = "upload"
      /\ UNCHANGED <<staged, records, unsettled, jobs, acked, jobEnv, enrolled, wiped>>
  BY DEF HarnessInv, Upload, IsAt
<1>2. CASE UNCHANGED uploaded
  <2>1. PICK place \in {"submit", "failed"} : Moves(p, place)
    BY DEF Upload
  <2>2. place \in HarnessPlaces
    BY DEF HarnessPlaces
  <2>3. staged' \in StagedBundles \cup {Absent}
    BY <1>1 DEF HarnessTypeOK
  <2> QED
    BY <1>1, <1>2, <2>1, <2>2, <2>3, MoveKeepsInv DEF BeforeSubmit
<1>3. CASE /\ staged # Absent /\ Encrypted(p)
           /\ Moves(p, "submit") /\ uploaded' = [uploaded EXCEPT ![p] = staged]
  <2>1. /\ proc' \in [Procs -> HarnessProcs]
        /\ proc'[p].at = "submit" /\ proc'[p].kind = proc[p].kind
        /\ proc'[p].vars = proc[p].vars /\ proc'[p].job = proc[p].job
        /\ proc'[p].explicit = proc[p].explicit /\ proc'[p].script = proc[p].script
        /\ proc'[p].encrypted = proc[p].encrypted
        /\ \A q \in Procs \ {p} : proc'[q] = proc[q]
    BY <1>1, <1>3, MovesAtOnly DEF HarnessPlaces
  <2>2. /\ uploaded' \in [Procs -> StagedBundles \cup {Absent}] /\ uploaded'[p] = staged
        /\ \A q \in Procs \ {p} : uploaded'[q] = uploaded[q]
    BY <1>1, <1>3 DEF HarnessTypeOK
  <2>3. HarnessTypeOK'
    BY <1>1, <2>1, <2>2 DEF HarnessTypeOK, HarnessProcs
  <2>4. ProcessIsSound(p)'
    BY <1>1, <2>1 DEF ProcessIsSound, RunIsSound, LaunchIsSound, EnrolledIsSound, BeforeSubmit
  <2>5. proc'[p].encrypted /\ uploaded'[p] # Absent => uploaded'[p] = "loader"
    BY <1>3, <2>1, <2>2 DEF Encrypted
  <2> QED
    BY <1>1, <2>1, <2>2, <2>3, <2>4, <2>5, OneProcessSteps
<1> QED
  BY <1>2, <1>3 DEF Upload

LEMMA SubmitKeepsInv ==
    ASSUME HarnessInv, NEW p \in Procs, SubmitDirect(p)
    PROVE  HarnessInv'
<1>1. /\ HarnessTypeOK /\ ProcessIsSound(p) /\ proc[p].at = "submit"
      /\ proc' = [proc EXCEPT ![p].at = "sent", ![p].vars = WithScheduleEnd(p)]
      /\ unsettled' = unsettled \cup {p}
      /\ UNCHANGED <<staged, records, jobs, acked, jobEnv, uploaded, enrolled, wiped>>
  BY DEF HarnessInv, SubmitDirect, IsAt
<1>2. proc \in [Procs -> HarnessProcs] /\ proc[p].vars \in Nat /\ MaxVars \in Nat
  BY <1>1, ProcessesHaveType, NumbersOfHarness
<1>3. proc[p].vars <= MaxVars + 1
  BY <1>1 DEF ProcessIsSound, RunIsSound, BeforeSubmit
<1>4. /\ WithScheduleEnd(p) \in 0 .. MaxVars + 2
      /\ proc[p].explicit => WithScheduleEnd(p) = proc[p].vars
  BY <1>2, <1>3 DEF WithScheduleEnd
<1>5. /\ proc' \in [Procs -> HarnessProcs]
      /\ proc'[p].at = "sent" /\ proc'[p].kind = proc[p].kind
      /\ proc'[p].vars = WithScheduleEnd(p) /\ proc'[p].job = proc[p].job
      /\ proc'[p].explicit = proc[p].explicit /\ proc'[p].script = proc[p].script
      /\ proc'[p].encrypted = proc[p].encrypted
      /\ \A q \in Procs \ {p} : proc'[q] = proc[q]
  <2> DEFINE next == [proc[p] EXCEPT !.at = "sent", !.vars = WithScheduleEnd(p)]
  <2>1. proc[p] \in HarnessProcs /\ "sent" \in HarnessPlaces
    BY <1>2 DEF HarnessPlaces
  <2>2. /\ next \in HarnessProcs /\ next.at = "sent" /\ next.vars = WithScheduleEnd(p)
        /\ next.kind = proc[p].kind /\ next.job = proc[p].job
        /\ next.explicit = proc[p].explicit /\ next.script = proc[p].script
        /\ next.encrypted = proc[p].encrypted
    BY <1>4, <2>1 DEF HarnessProcs
  <2>3. proc' = [proc EXCEPT ![p] = next]
    BY <1>1, <1>2
  <2> HIDE DEF next
  <2> QED
    BY <1>2, <2>2, <2>3
<1>6. HarnessTypeOK'
  BY <1>1, <1>5 DEF HarnessTypeOK, HarnessProcs
<1>7. ProcessIsSound(p)'
  BY <1>1, <1>4, <1>5
     DEF ProcessIsSound, RunIsSound, LaunchIsSound, EnrolledIsSound, BeforeSubmit
<1>8. proc'[p].encrypted /\ uploaded'[p] # Absent => uploaded'[p] = "loader"
  BY <1>1, <1>5 DEF HarnessInv, UploadIsEncrypted
<1> QED
  BY <1>1, <1>5, <1>6, <1>7, <1>8, OneProcessSteps

LEMMA SeesJobKeepsInv ==
    ASSUME HarnessInv, NEW p \in Procs, NEW j \in JobIds, SeesJob(p, j)
    PROVE  HarnessInv'
<1>1. /\ HarnessTypeOK /\ ProcessIsSound(p) /\ proc[p].at = "sent" /\ jobs[j] = p
      /\ proc' = [proc EXCEPT ![p].at = "store", ![p].job = j]
      /\ UNCHANGED <<staged, records, unsettled, jobs, acked, jobEnv, uploaded, enrolled, wiped>>
  BY DEF HarnessInv, SeesJob, IsAt
<1>2. proc \in [Procs -> HarnessProcs]
  BY <1>1, ProcessesHaveType
<1>3. /\ proc' \in [Procs -> HarnessProcs]
      /\ proc'[p].at = "store" /\ proc'[p].kind = proc[p].kind
      /\ proc'[p].vars = proc[p].vars /\ proc'[p].job = j
      /\ proc'[p].explicit = proc[p].explicit /\ proc'[p].script = proc[p].script
      /\ proc'[p].encrypted = proc[p].encrypted
      /\ \A q \in Procs \ {p} : proc'[q] = proc[q]
  <2> DEFINE next == [proc[p] EXCEPT !.at = "store", !.job = j]
  <2>1. proc[p] \in HarnessProcs /\ j \in JobIds \cup {0} /\ "store" \in HarnessPlaces
    BY <1>2 DEF HarnessPlaces
  <2>2. /\ next \in HarnessProcs /\ next.at = "store" /\ next.job = j
        /\ next.kind = proc[p].kind /\ next.vars = proc[p].vars
        /\ next.explicit = proc[p].explicit /\ next.script = proc[p].script
        /\ next.encrypted = proc[p].encrypted
    BY <2>1 DEF HarnessProcs
  <2>3. proc' = [proc EXCEPT ![p] = next]
    BY <1>1, <1>2
  <2> HIDE DEF next
  <2> QED
    BY <1>2, <2>2, <2>3
<1>4. HarnessTypeOK'
  BY <1>1, <1>3 DEF HarnessTypeOK, HarnessProcs
<1>5. ProcessIsSound(p)'
  BY <1>1, <1>3 DEF ProcessIsSound, RunIsSound, LaunchIsSound, EnrolledIsSound, BeforeSubmit
<1>6. proc'[p].encrypted /\ uploaded'[p] # Absent => uploaded'[p] = "loader"
  BY <1>1, <1>3 DEF HarnessInv, UploadIsEncrypted
<1> QED
  BY <1>1, <1>3, <1>4, <1>5, <1>6, OneProcessSteps

LEMMA SeesAckKeepsInv ==
    ASSUME HarnessInv, NEW p \in Procs, SeesAck(p)
    PROVE  HarnessInv'
<1>1. /\ HarnessTypeOK /\ ProcessIsSound(p) /\ proc[p].at = "ack" /\ proc[p].job \in acked
      /\ UNCHANGED <<staged, records, unsettled, jobs, acked, jobEnv, uploaded, enrolled, wiped>>
  BY DEF HarnessInv, SeesAck, IsAt
<1>2. PICK place \in {"done", "env"} : Moves(p, place)
  BY DEF SeesAck
<1>3. place \in HarnessPlaces
  BY DEF HarnessPlaces
<1>4. /\ proc' \in [Procs -> HarnessProcs]
      /\ proc'[p].at = place /\ proc'[p].kind = proc[p].kind
      /\ proc'[p].vars = proc[p].vars /\ proc'[p].job = proc[p].job
      /\ proc'[p].explicit = proc[p].explicit /\ proc'[p].script = proc[p].script
      /\ proc'[p].encrypted = proc[p].encrypted
      /\ \A q \in Procs \ {p} : proc'[q] = proc[q]
  BY <1>1, <1>2, <1>3, MovesAtOnly
<1>5. HarnessTypeOK'
  BY <1>1, <1>4 DEF HarnessTypeOK, HarnessProcs
<1>6. ProcessIsSound(p)'
  BY <1>1, <1>4 DEF ProcessIsSound, RunIsSound, LaunchIsSound, EnrolledIsSound, BeforeSubmit
<1>7. proc'[p].encrypted /\ uploaded'[p] # Absent => uploaded'[p] = "loader"
  BY <1>1, <1>4 DEF HarnessInv, UploadIsEncrypted
<1> QED
  BY <1>1, <1>4, <1>5, <1>6, <1>7, OneProcessSteps

LEMMA EnrollKeepsInv ==
    ASSUME HarnessInv, NEW p \in Procs, NEW answered \in BOOLEAN, Enroll(p, answered)
    PROVE  HarnessInv'
<1>1. /\ HarnessTypeOK /\ ProcessIsSound(p) /\ proc[p].at = "enroll"
      /\ enrolled' = [enrolled EXCEPT ![p] = proc[p].job]
      /\ UNCHANGED <<staged, records, unsettled, jobs, acked, jobEnv, uploaded, wiped>>
  BY DEF HarnessInv, Enroll, IsAt
<1>2. proc[p].kind = "launch" /\ LaunchIsSound(p) /\ proc[p].job \in JobIds
  BY <1>1 DEF ProcessIsSound, RunIsSound, LaunchIsSound
<1>3. /\ enrolled' \in [Procs -> JobIds \cup {Absent}] /\ enrolled'[p] = proc[p].job
      /\ \A q \in Procs \ {p} : enrolled'[q] = enrolled[q]
  BY <1>1, <1>2 DEF HarnessTypeOK
<1>4. PICK place \in {"done", "enroll"} :
        /\ proc' \in [Procs -> HarnessProcs]
        /\ proc'[p].at = place /\ proc'[p].kind = proc[p].kind
        /\ proc'[p].vars = proc[p].vars /\ proc'[p].job = proc[p].job
        /\ proc'[p].explicit = proc[p].explicit /\ proc'[p].script = proc[p].script
        /\ proc'[p].encrypted = proc[p].encrypted
        /\ \A q \in Procs \ {p} : proc'[q] = proc[q]
  <2>1. CASE Moves(p, "done")
    BY <1>1, <2>1, MovesAtOnly DEF HarnessPlaces
  <2>2. CASE UNCHANGED proc
    BY <1>1, <2>2, ProcessesHaveType
  <2> QED
    BY <2>1, <2>2 DEF Enroll
<1>5. HarnessTypeOK'
  BY <1>1, <1>3, <1>4 DEF HarnessTypeOK, HarnessProcs
<1>6. ProcessIsSound(p)'
  BY <1>1, <1>2, <1>3, <1>4
     DEF ProcessIsSound, RunIsSound, LaunchIsSound, EnrolledIsSound, BeforeSubmit
<1>7. proc'[p].encrypted /\ uploaded'[p] # Absent => uploaded'[p] = "loader"
  BY <1>1, <1>4 DEF HarnessInv, UploadIsEncrypted
<1> QED
  BY <1>1, <1>3, <1>4, <1>5, <1>6, <1>7, OneProcessSteps

\* Preparing a bundle deletes the records of all jobs, which were wiped then.
LEMMA WipeKeepsInv ==
    ASSUME HarnessInv, NEW p \in Procs, Wipe(p)
    PROVE  HarnessInv'
<1>1. /\ HarnessTypeOK /\ proc[p].at = "wipe" /\ staged' = Absent /\ Moves(p, "build")
      /\ records' = [j \in JobIds |-> Absent] /\ wiped' = wiped \cup RecordedJobs
      /\ UNCHANGED <<unsettled, jobs, acked, jobEnv, uploaded, enrolled>>
      /\ \A q \in Procs : ProcessIsSound(q)
  BY DEF HarnessInv, Wipe, IsAt
<1>2. /\ proc' \in [Procs -> HarnessProcs]
      /\ proc'[p].at = "build" /\ proc'[p].kind = proc[p].kind
      /\ proc'[p].vars = proc[p].vars /\ proc'[p].job = proc[p].job
      /\ proc'[p].explicit = proc[p].explicit /\ proc'[p].script = proc[p].script
      /\ proc'[p].encrypted = proc[p].encrypted
      /\ \A q \in Procs \ {p} : proc'[q] = proc[q]
  BY <1>1, MovesAtOnly DEF HarnessPlaces
<1>3. HarnessTypeOK'
  BY <1>1, <1>2 DEF HarnessTypeOK, HarnessProcs, RecordedJobs
<1>4. ChainIsSpared' /\ JobsArePrefix' /\ RecordsAreOfJobs'
  BY <1>1 DEF HarnessInv, ChainIsSpared, JobsArePrefix, RecordsAreOfJobs
<1>5. UploadIsEncrypted'
  BY <1>1, <1>2 DEF HarnessInv, UploadIsEncrypted
<1>6. ASSUME NEW j \in JobIds, records[j] = MaxVars
      PROVE  j \in wiped'
  BY <1>1, <1>6, NumbersOfHarness DEF RecordedJobs
<1>7. wiped \subseteq wiped' /\ \A j \in JobIds : records'[j] = Absent
  BY <1>1
<1>8. ProcessIsSound(p)'
  BY <1>1, <1>2, <1>7
     DEF ProcessIsSound, RunIsSound, LaunchIsSound, EnrolledIsSound, BeforeSubmit
<1>9. ASSUME NEW q \in Procs \ {p}
      PROVE  ProcessIsSound(q)'
  <2>1. ProcessIsSound(q) /\ proc'[q] = proc[q]
    BY <1>1, <1>2
  <2> QED
    BY <1>1, <1>6, <1>7, <2>1
       DEF ProcessIsSound, RunIsSound, LaunchIsSound, EnrolledIsSound
<1> QED
  BY <1>3, <1>4, <1>5, <1>8, <1>9 DEF HarnessInv

\* A process records its own job only.
LEMMA StoreKeepsInv ==
    ASSUME HarnessInv, NEW p \in Procs, StoreRecord(p)
    PROVE  HarnessInv'
<1> DEFINE mine == proc[p].job
<1>1. /\ HarnessTypeOK /\ proc[p].at = "store"
      /\ records' = [records EXCEPT ![mine] = proc[p].vars]
      /\ UNCHANGED <<staged, unsettled, jobs, acked, jobEnv, uploaded, enrolled, wiped>>
      /\ \A q \in Procs : ProcessIsSound(q)
  BY DEF HarnessInv, StoreRecord, IsAt
<1>2. PICK place \in {"ack", "done"} : Moves(p, place)
  BY DEF StoreRecord
<1>3. place \in HarnessPlaces
  BY DEF HarnessPlaces
<1>4. /\ proc' \in [Procs -> HarnessProcs]
      /\ proc'[p].at = place /\ proc'[p].kind = proc[p].kind
      /\ proc'[p].vars = proc[p].vars /\ proc'[p].job = proc[p].job
      /\ proc'[p].explicit = proc[p].explicit /\ proc'[p].script = proc[p].script
      /\ proc'[p].encrypted = proc[p].encrypted
      /\ \A q \in Procs \ {p} : proc'[q] = proc[q]
  BY <1>1, <1>2, <1>3, MovesAtOnly
<1>5. mine \in JobIds /\ jobs[mine] = p /\ jobs[mine] # Absent
  BY <1>1, NumbersOfHarness DEF ProcessIsSound, RunIsSound
<1>6. proc[p].vars \in 0 .. MaxVars + 2
  BY <1>1, ProcessesHaveType DEF HarnessProcs
<1>7. /\ records' \in [JobIds -> 0 .. MaxVars + 2 \cup {Absent}]
      /\ records'[mine] = proc[p].vars
      /\ \A j \in JobIds \ {mine} : records'[j] = records[j]
  BY <1>1, <1>5, <1>6 DEF HarnessTypeOK
<1> HIDE DEF mine
<1>8. HarnessTypeOK'
  BY <1>1, <1>4, <1>7 DEF HarnessTypeOK, HarnessProcs
<1>9. ChainIsSpared' /\ JobsArePrefix'
  BY <1>1 DEF HarnessInv, ChainIsSpared, JobsArePrefix
<1>10. RecordsAreOfJobs'
  BY <1>1, <1>5, <1>7 DEF HarnessInv, RecordsAreOfJobs
<1>11. UploadIsEncrypted'
  BY <1>1, <1>4 DEF HarnessInv, UploadIsEncrypted
<1>12. ProcessIsSound(p)'
  BY <1>1, <1>4, <1>5, <1>7
     DEF ProcessIsSound, RunIsSound, LaunchIsSound, EnrolledIsSound, BeforeSubmit, mine
<1>13. ASSUME NEW q \in Procs \ {p}
       PROVE  ProcessIsSound(q)'
  <2>1. ProcessIsSound(q) /\ proc'[q] = proc[q] /\ jobs[mine] # q
    BY <1>1, <1>4, <1>5
  <2>2. \A j \in JobIds : jobs[j] = q => records'[j] = records[j]
    BY <1>7, <2>1
  <2> QED
    BY <1>1, <2>1, <2>2 DEF ProcessIsSound, RunIsSound, LaunchIsSound, EnrolledIsSound
<1> QED
  BY <1>8, <1>9, <1>10, <1>11, <1>12, <1>13 DEF HarnessInv

\* Whoever sets the environment of a job takes the record of it, which names as
\* many variables as its launch did.
LEMMA UpdateKeepsInv ==
    ASSUME HarnessInv, NEW p \in Procs, NEW j \in JobIds, UpdateJobEnv(p, j)
    PROVE  HarnessInv'
<1> DEFINE n == IF records[j] = Absent THEN 0 ELSE records[j]
           next == IF proc[p].kind = "launch" THEN "enroll" ELSE "done"
           place == IF FitsRuntime(n) THEN next ELSE "audited"
<1>1. /\ HarnessTypeOK /\ proc[p].at = "env" /\ jobs[j] # Absent
      /\ proc[p].kind = "launch" => j = proc[p].job
      /\ jobEnv' = IF n > 0 /\ FitsRuntime(n) THEN [jobEnv EXCEPT ![j] = n] ELSE jobEnv
      /\ Moves(p, place)
      /\ UNCHANGED <<staged, records, unsettled, jobs, acked, uploaded, enrolled, wiped>>
      /\ \A q \in Procs : ProcessIsSound(q)
  BY DEF HarnessInv, UpdateJobEnv, IsAt
<1>2. n \in 0 .. MaxVars + 2 /\ MaxVars \in Nat \ {0} /\ Absent \notin Nat
  BY <1>1, NumbersOfHarness DEF HarnessTypeOK
<1>3. records[j] = MaxVars => n = MaxVars
  BY <1>2
<1>4. place \in {"enroll", "done", "audited"} /\ (place = "enroll" => proc[p].kind = "launch")
      /\ place \in HarnessPlaces
  BY DEF HarnessPlaces
<1>5. records[j] = Absent => n = 0
  OBVIOUS
<1> HIDE DEF n, next, place
<1>6. /\ proc' \in [Procs -> HarnessProcs]
      /\ proc'[p].at = place /\ proc'[p].kind = proc[p].kind
      /\ proc'[p].vars = proc[p].vars /\ proc'[p].job = proc[p].job
      /\ proc'[p].explicit = proc[p].explicit /\ proc'[p].script = proc[p].script
      /\ proc'[p].encrypted = proc[p].encrypted
      /\ \A q \in Procs \ {p} : proc'[q] = proc[q]
  BY <1>1, <1>4, MovesAtOnly
<1>7. /\ jobEnv' \in [JobIds -> 0 .. MaxVars + 2 \cup {Absent}]
      /\ \A i \in JobIds \ {j} : jobEnv'[i] = jobEnv[i]
      /\ jobEnv'[j] = IF n > 0 /\ FitsRuntime(n) THEN n ELSE jobEnv[j]
  BY <1>1, <1>2 DEF HarnessTypeOK
<1>8. HarnessTypeOK'
  BY <1>1, <1>6, <1>7 DEF HarnessTypeOK, HarnessProcs
<1>9. ChainIsSpared'
  BY <1>7 DEF HarnessInv, ChainIsSpared, FitsRuntime
<1>10. JobsArePrefix' /\ RecordsAreOfJobs' /\ UploadIsEncrypted'
  BY <1>1, <1>6 DEF HarnessInv, JobsArePrefix, RecordsAreOfJobs, UploadIsEncrypted
<1>11. /\ n = MaxVars => jobEnv'[j] = MaxVars
       /\ n = 0 => jobEnv'[j] = jobEnv[j]
  BY <1>2, <1>7 DEF FitsRuntime
<1>12. ASSUME NEW q \in Procs, proc[q].kind = "launch", NEW i \in JobIds, jobs[i] = q
       PROVE  jobEnv'[i] \in {jobEnv[i], MaxVars}
  <2>1. records[i] \in {Absent, MaxVars}
    BY <1>1, <1>12 DEF ProcessIsSound, LaunchIsSound
  <2> QED
    BY <1>3, <1>5, <1>7, <1>11, <2>1
<1>13. ProcessIsSound(p)'
  <2>1. ProcessIsSound(p)
    BY <1>1
  <2>2. RunIsSound(p)'
    BY <1>1, <1>4, <1>6, <2>1 DEF ProcessIsSound, RunIsSound, BeforeSubmit
  <2>3. ASSUME proc[p].kind = "launch"
        PROVE  LaunchIsSound(p)'
    <3>1. /\ j = proc[p].job /\ jobs[j] = p /\ (records[j] = MaxVars \/ j \in wiped)
          /\ LaunchIsSound(p) /\ j \in acked
      BY <1>1, <2>1, <2>3 DEF ProcessIsSound, LaunchIsSound
    <3>2. jobEnv'[j] = MaxVars \/ j \in wiped
      BY <1>3, <1>11, <3>1
    <3> QED
      BY <1>1, <1>4, <1>6, <3>1, <3>2 DEF LaunchIsSound
  <2>4. enrolled[p] # Absent => EnrolledIsSound(p)'
    BY <1>1, <1>6, <1>12, <2>1 DEF ProcessIsSound, EnrolledIsSound
  <2> QED
    BY <1>1, <1>6, <2>2, <2>3, <2>4 DEF ProcessIsSound
<1>14. ASSUME NEW q \in Procs \ {p}
       PROVE  ProcessIsSound(q)'
  <2>1. ProcessIsSound(q) /\ proc'[q] = proc[q]
    BY <1>1, <1>6
  <2>2. RunIsSound(q)'
    BY <1>1, <2>1 DEF ProcessIsSound, RunIsSound
  <2>3. proc[q].kind = "launch" => LaunchIsSound(q)'
    BY <1>1, <1>12, <2>1 DEF ProcessIsSound, LaunchIsSound
  <2>4. enrolled[q] # Absent => EnrolledIsSound(q)'
    BY <1>1, <1>12, <2>1 DEF ProcessIsSound, EnrolledIsSound
  <2> QED
    BY <1>1, <2>1, <2>2, <2>3, <2>4 DEF ProcessIsSound
<1> QED
  BY <1>8, <1>9, <1>10, <1>13, <1>14 DEF HarnessInv

\* The chain gives the next number to the job that it includes.
LEMMA IncludeKeepsInv ==
    ASSUME HarnessInv, NEW p \in Procs, IncludeJob(p)
    PROVE  HarnessInv'
<1> DEFINE given == {i \in JobIds : jobs[i] # Absent}
           new == Cardinality(given) + 1
<1>1. /\ HarnessTypeOK /\ p \in unsettled /\ unsettled' = unsettled \ {p}
      /\ jobs' = [jobs EXCEPT ![new] = p]
      /\ UNCHANGED <<proc, staged, records, acked, jobEnv, uploaded, enrolled, wiped>>
      /\ \A q \in Procs : ProcessIsSound(q)
  BY DEF HarnessInv, IncludeJob
<1>2. PICK k \in 0 .. Cardinality(Procs) : \A j \in JobIds : jobs[j] # Absent <=> j <= k
  BY DEF HarnessInv, JobsArePrefix
<1>3. given = 1 .. k
  BY <1>2, NumbersOfHarness DEF JobIds
<1>4. new = k + 1 /\ k \in Nat
  <2>1. k \in Nat
    BY <1>2, NumbersOfHarness
  <2>2. Cardinality(1 .. k) = k
    BY <2>1, FS_Interval
  <2> QED
    BY <1>3, <2>1, <2>2
<1> HIDE DEF given, new
<1>5. /\ \A j \in JobIds : j # new => jobs'[j] = jobs[j]
      /\ new \in JobIds => jobs'[new] = p /\ jobs[new] = Absent
      /\ jobs' \in [JobIds -> Procs \cup {Absent}]
  <2>1. jobs \in [JobIds -> Procs \cup {Absent}]
    BY <1>1 DEF HarnessTypeOK
  <2>2. ASSUME new \in JobIds
        PROVE  jobs[new] = Absent
    <3>1. ~(new <= k)
      BY <1>4
    <3> QED
      BY <1>2, <2>2, <3>1
  <2> QED
    BY <1>1, <2>1, <2>2
<1>6. HarnessTypeOK'
  BY <1>1, <1>5 DEF HarnessTypeOK
<1>7. JobsArePrefix'
  <2>1. CASE new \in JobIds
    <3>1. new \in 0 .. Cardinality(Procs)
      BY <1>4, <2>1, NumbersOfHarness DEF JobIds
    <3>2. \A j \in JobIds : jobs'[j] # Absent <=> j <= new
      BY <1>2, <1>4, <1>5, <2>1, NumbersOfHarness
    <3> QED
      BY <3>1, <3>2 DEF JobsArePrefix
  <2>2. CASE new \notin JobIds
    BY <1>2, <1>5, <2>2 DEF JobsArePrefix
  <2> QED
    BY <2>1, <2>2
<1>8. RecordsAreOfJobs'
  BY <1>1, <1>5, NumbersOfHarness DEF HarnessInv, RecordsAreOfJobs
<1>9. ChainIsSpared' /\ UploadIsEncrypted'
  BY <1>1 DEF HarnessInv, ChainIsSpared, UploadIsEncrypted
<1>10. ASSUME NEW q \in Procs
       PROVE  ProcessIsSound(q)'
  <2>1. ProcessIsSound(q) /\ proc' = proc
    BY <1>1
  <2>2. ASSUME NEW j \in JobIds, jobs[j] = q
        PROVE  jobs'[j] = q
    BY <1>5, <2>2, NumbersOfHarness
  <2>3. ASSUME NEW j \in JobIds, jobs'[j] = q
        PROVE  \/ jobs[j] = q
               \/ records[j] = Absent /\ q = p
    BY <1>5, <2>3 DEF HarnessInv, RecordsAreOfJobs
  <2>4. q = p => proc[q].at # "idle"
    BY <1>1, <2>1 DEF ProcessIsSound, RunIsSound
  <2>5. RunIsSound(q)'
    BY <1>1, <2>1, <2>2, <2>3, <2>4 DEF ProcessIsSound, RunIsSound
  <2>6. proc[q].kind = "launch" => LaunchIsSound(q)'
    BY <1>1, <2>1, <2>2, <2>3 DEF ProcessIsSound, LaunchIsSound
  <2>7. enrolled[q] # Absent => EnrolledIsSound(q)'
    BY <1>1, <2>1, <2>2 DEF ProcessIsSound, EnrolledIsSound
  <2> QED
    BY <1>1, <2>5, <2>6, <2>7 DEF ProcessIsSound
<1> QED
  BY <1>6, <1>7, <1>8, <1>9, <1>10 DEF HarnessInv

LEMMA HarnessInvNext == HarnessInv /\ [HarnessNext]_harnessVars => HarnessInv'
<1> SUFFICES ASSUME HarnessInv, [HarnessNext]_harnessVars
             PROVE  HarnessInv'
  OBVIOUS
<1>1. HarnessTypeOK /\ \A p \in Procs : ProcessIsSound(p)
  BY DEF HarnessInv
<1>2. NoProc \in HarnessProcs /\ NoProc.vars = 0
  BY NumbersOfHarness DEF HarnessProcs, NoProc, HarnessKinds, HarnessPlaces
<1>3. ASSUME NEW p \in Procs, StartCommand(p, "launch", LaunchFlags)
      PROVE  HarnessInv'
  <2>1. /\ LaunchFlags \in HarnessProcs /\ LaunchFlags.vars = MaxVars
        /\ LaunchFlags.explicit /\ LaunchFlags.script
    <3>1. MaxVars \in 0 .. MaxVars + 2
      BY NumbersOfHarness
    <3> QED
      BY <1>2, <3>1 DEF LaunchFlags, HarnessProcs
  <2>2. "launch" \in HarnessKinds /\ LaunchFlags.vars <= MaxVars + 1
    BY <2>1, NumbersOfHarness DEF HarnessKinds
  <2> QED
    BY <1>3, <2>1, <2>2, StartKeepsInv
<1>4. ASSUME NEW p \in Procs, NEW kind \in {"prepare", "status", "update"},
             StartCommand(p, kind, NoProc)
      PROVE  HarnessInv'
  <2>1. kind \in HarnessKinds /\ kind # "launch" /\ NoProc.vars <= MaxVars + 1
    BY <1>2, NumbersOfHarness DEF HarnessKinds
  <2> QED
    BY <1>2, <1>4, <2>1, StartKeepsInv
<1>5. ASSUME NEW p \in Procs, NEW n \in {0, MaxVars, MaxVars + 1}, NEW e \in BOOLEAN,
             NEW c \in BOOLEAN, NEW s \in BOOLEAN,
             StartCommand(p, "deploy", DeployFlags(n, e, c, s))
      PROVE  HarnessInv'
  <2>1. n \in 0 .. MaxVars + 2 /\ n <= MaxVars + 1
    BY NumbersOfHarness
  <2>2. DeployFlags(n, e, c, s) \in HarnessProcs /\ DeployFlags(n, e, c, s).vars = n
    BY <1>2, <2>1 DEF DeployFlags, HarnessProcs
  <2>3. "deploy" \in HarnessKinds
    BY DEF HarnessKinds
  <2> QED
    BY <1>5, <2>1, <2>2, <2>3, StartKeepsInv
<1>6. ASSUME NEW p \in Procs, TakeIntent(p) \/ LoadExisting(p)
      PROVE  HarnessInv'
  <2>1. PICK place \in {"wipe", "upload", "failed"} : Moves(p, place)
    BY <1>6 DEF TakeIntent, LoadExisting
  <2>2. /\ proc[p].at \in {"intent", "load"} /\ staged' \in StagedBundles \cup {Absent}
        /\ UNCHANGED <<records, unsettled, jobs, acked, jobEnv, uploaded, enrolled, wiped>>
    BY <1>1, <1>6 DEF TakeIntent, LoadExisting, IsAt, HarnessTypeOK
  <2>3. /\ place \in HarnessPlaces /\ place # "idle"
        /\ place \in {"done", "failed"} \cup BeforeSubmit
        /\ proc[p].at \in BeforeSubmit /\ proc[p].at # "idle"
    BY <2>2 DEF HarnessPlaces, BeforeSubmit
  <2> QED
    BY <2>1, <2>2, <2>3, MoveKeepsInv
<1>7. ASSUME NEW p \in Procs, NEW b \in StagedBundles, BuildBundle(p, b)
      PROVE  HarnessInv'
  <2>1. /\ proc[p].at = "build" /\ staged' \in StagedBundles \cup {Absent}
        /\ UNCHANGED <<records, unsettled, jobs, acked, jobEnv, uploaded, enrolled, wiped>>
        /\ Moves(p, AfterPrepare(p))
    BY <1>1, <1>7 DEF BuildBundle, IsAt, HarnessTypeOK, Moves
  <2>2. AfterPrepare(p) \in {"failed", "done", "upload"}
    BY DEF AfterPrepare
  <2>3. /\ AfterPrepare(p) \in HarnessPlaces /\ AfterPrepare(p) # "idle"
        /\ AfterPrepare(p) \in {"done", "failed"} \cup BeforeSubmit
        /\ proc[p].at \in BeforeSubmit /\ proc[p].at # "idle"
    BY <2>1, <2>2 DEF HarnessPlaces, BeforeSubmit
  <2> QED
    BY <2>1, <2>3, MoveKeepsInv
<1>8. ASSUME NEW p \in Procs, GivesUpHarness(p)
      PROVE  HarnessInv'
  <2>1. /\ proc[p].at # "idle" /\ staged' \in StagedBundles \cup {Absent}
        /\ UNCHANGED <<records, unsettled, jobs, acked, jobEnv, uploaded, enrolled, wiped>>
        /\ Moves(p, "failed")
    BY <1>1, <1>8 DEF GivesUpHarness, HarnessTypeOK
  <2>2. "failed" \in HarnessPlaces /\ "failed" \notin BeforeSubmit
    BY DEF HarnessPlaces, BeforeSubmit
  <2> QED
    BY <2>1, <2>2, MoveKeepsInv
<1>9. ASSUME NEW j \in JobIds, Acknowledge(j)
      PROVE  HarnessInv'
  <2>1. /\ acked' = acked \cup {j} /\ j \in JobIds
        /\ UNCHANGED <<proc, staged, records, unsettled, jobs, jobEnv, uploaded, enrolled,
                       wiped>>
    BY <1>9 DEF Acknowledge
  <2>2. HarnessTypeOK'
    BY <1>1, <2>1 DEF HarnessTypeOK
  <2>3. ASSUME NEW q \in Procs
        PROVE  ProcessIsSound(q)'
    BY <1>1, <2>1 DEF ProcessIsSound, RunIsSound, LaunchIsSound, EnrolledIsSound
  <2> QED
    BY <2>1, <2>2, <2>3
       DEF HarnessInv, ChainIsSpared, UploadIsEncrypted, JobsArePrefix, RecordsAreOfJobs
<1>10. CASE UNCHANGED harnessVars
  BY <1>10
     DEF HarnessInv, harnessVars, HarnessTypeOK, ChainIsSpared, UploadIsEncrypted,
         JobsArePrefix, RecordsAreOfJobs, ProcessIsSound, RunIsSound, LaunchIsSound,
         EnrolledIsSound
<1>11. ASSUME NEW p \in Procs, HarnessStep(p)
       PROVE  HarnessInv'
  BY <1>3, <1>4, <1>5, <1>6, <1>7, <1>8, <1>11, UploadKeepsInv, SubmitKeepsInv,
     SeesJobKeepsInv, SeesAckKeepsInv, EnrollKeepsInv, WipeKeepsInv, StoreKeepsInv,
     UpdateKeepsInv DEF HarnessStep
<1> QED
  BY <1>9, <1>10, <1>11, IncludeKeepsInv DEF HarnessNext

\* However the processes of a working directory interleave, and wherever they
\* end: no environment beyond the caps is sent, what the relay enrolled has its
\* environment unless its record was deleted, and a process that was told to
\* uploads nothing in the clear.
THEOREM HarnessIsSafe == HarnessSpec => []HarnessSafe
<1>1. HarnessInv => HarnessSafe
  <2> SUFFICES ASSUME HarnessInv
               PROVE  EnrolledHasEnv
    BY DEF HarnessInv, HarnessSafe
  <2> QED
    BY DEF HarnessInv, ProcessIsSound, EnrolledIsSound, EnrolledHasEnv
<1> QED
  BY <1>1, HarnessInvInit, HarnessInvNext, PTL DEF HarnessSpec

(***************************************************************************)
(* Records at the DNS provider                                             *)
(***************************************************************************)
\* Ids are given once, and a CNAME stands alone.
ZoneIsSound ==
    /\ \A r \in zone : r.id < nextId
    /\ \A r, s \in zone : r.id = s.id \/ r.type = "CNAME" => r = s

\* What a command remembers of the zone: the type of the record it will change,
\* and the records in the way, which are all there as long as no other command
\* came between.
ZoneIsKnown(c) ==
    /\ dnsCmd[c].at = "idle" => dnsCmd[c].kind = "apply"
    /\ dnsCmd[c].at = "patch" =>
          /\ dnsCmd[c].kind # "remove" /\ dnsCmd[c].id < nextId
          /\ \A r \in zone : r.id = dnsCmd[c].id => r.type = Written(c)
    /\ dnsCmd[c].at \in {"clearA", "clearAAAA"} =>
          /\ dnsCmd[c].kind = "apply"
          /\ shared = {} => \A i \in dnsCmd[c].todo : \E r \in zone : r.id = i
    /\ dnsCmd[c].at = "delete" => dnsCmd[c].kind = "remove"
    /\ dnsCmd[c].at \in {"create", "wait", "validate", "clean"} => dnsCmd[c].kind = "challenge"

\* A name may be without records while or after c is at it.
Excuses(c) ==
    \/ dnsCmd[c].kind = "remove" /\ dnsCmd[c].at # "none"
    \/ dnsCmd[c].at \in {"clearA", "clearAAAA", "post"}

Challenging(c) == dnsCmd[c].at \in {"wait", "validate", "clean"}

\* A challenge record that was not cut off is the one its command remembers,
\* until it is deleted; the record is up from before the wait to the end of the
\* validation, and no two commands remember the same one.
TxtIsSound ==
    /\ \A t \in txt : t.id < nextId
    /\ \A t \in txt : t.by \in unsure \/ (Challenging(t.by) /\ t.id = dnsCmd[t.by].id)
    /\ \A c \in DnsCmds : dnsCmd[c].at \in {"wait", "validate"} =>
          [id |-> dnsCmd[c].id, by |-> c] \in txt
    /\ \A c \in DnsCmds : Challenging(c) => dnsCmd[c].id < nextId
    /\ \A c, d \in DnsCmds :
          Challenging(c) /\ Challenging(d) /\ dnsCmd[c].id = dnsCmd[d].id =>
              c = d \/ dnsCmd[c].id = 0

DnsInv ==
    /\ DnsTypeOK /\ StaysServed
    /\ ZoneIsSound /\ TxtIsSound
    /\ \A c \in DnsCmds : ZoneIsKnown(c)

DnsCommands ==
    [kind : DnsKinds, content : DnsTargets, at : DnsPlaces, id : Ids \cup {0},
     todo : SUBSET Ids, issued : BOOLEAN]

LEMMA NumbersOfDns ==
    /\ MaxRecords \in Nat /\ MaxRecords >= 2 /\ Ids \subseteq Nat \ {0} /\ 1 \in Ids /\ 2 \in Ids
    /\ AnyTarget \in DnsTargets
  BY DnsOK DEF Ids, AnyTarget

LEMMA CommandsHaveType ==
    ASSUME DnsTypeOK
    PROVE  /\ dnsCmd \in [DnsCmds -> DnsCommands] /\ nextId \in Nat \ {0}
           /\ nextId <= MaxRecords => nextId \in Ids
           /\ \A r \in zone : r \in DnsRecord /\ r.id \in Nat \ {0}
           /\ \A t \in txt : t.id \in Nat \ {0} /\ t.by \in DnsCmds
           /\ \A d \in DnsCmds : dnsCmd[d].id \in Nat
<1>1. dnsCmd \in [DnsCmds -> DnsCommands]
  BY DEF DnsTypeOK, DnsCommands
<1>2. ASSUME NEW d \in DnsCmds
      PROVE  dnsCmd[d].id \in Nat
  <2>1. dnsCmd[d] \in DnsCommands
    BY <1>1
  <2>2. dnsCmd[d].id \in Ids \cup {0}
    BY <2>1 DEF DnsCommands
  <2> QED
    BY <2>2, NumbersOfDns DEF Ids
<1> QED
  BY <1>1, <1>2, NumbersOfDns DEF DnsTypeOK, DnsRecord, Ids

LEMMA DnsGoesOnly ==
    ASSUME DnsTypeOK, NEW c \in DnsCmds, NEW at \in DnsPlaces, NEW id \in Ids \cup {0},
           NEW todo \in SUBSET Ids, DnsGoes(c, at, id, todo)
    PROVE  /\ dnsCmd' \in [DnsCmds -> DnsCommands]
           /\ dnsCmd'[c].at = at /\ dnsCmd'[c].id = id /\ dnsCmd'[c].todo = todo
           /\ dnsCmd'[c].kind = dnsCmd[c].kind /\ dnsCmd'[c].content = dnsCmd[c].content
           /\ \A d \in DnsCmds \ {c} : dnsCmd'[d] = dnsCmd[d]
<1> DEFINE next == [dnsCmd[c] EXCEPT !.at = at, !.id = id, !.todo = todo]
<1>1. dnsCmd \in [DnsCmds -> DnsCommands] /\ dnsCmd[c] \in DnsCommands
  BY CommandsHaveType
<1>2. /\ next \in DnsCommands
      /\ next.at = at /\ next.id = id /\ next.todo = todo
      /\ next.kind = dnsCmd[c].kind /\ next.content = dnsCmd[c].content
  BY <1>1 DEF DnsCommands
<1>3. dnsCmd' = [dnsCmd EXCEPT ![c] = next]
  BY <1>1 DEF DnsGoes
<1> HIDE DEF next
<1> QED
  BY <1>1, <1>2, <1>3

LEMMA DnsInvInit == DnsInit => DnsInv
<1> SUFFICES ASSUME DnsInit
             PROVE  DnsInv
  OBVIOUS
<1>1. DnsTypeOK
  <2>1. zone \subseteq DnsRecord
    BY NumbersOfDns DEF DnsInit, DnsRecord, RecordTypes
  <2>2. nextId \in 1 .. MaxRecords + 1
    BY NumbersOfDns DEF DnsInit
  <2>3. dnsCmd \in [DnsCmds -> DnsCommands]
    BY NumbersOfDns DEF DnsInit, DnsCommands, DnsKinds, DnsPlaces
  <2> QED
    BY <2>1, <2>2, <2>3 DEF DnsInit, DnsTypeOK, DnsCommands
<1>2. StaysServed
  BY DEF DnsInit, StaysServed
<1>3. ZoneIsSound
  BY DEF DnsInit, ZoneIsSound
<1>4. TxtIsSound
  BY DEF DnsInit, TxtIsSound, Challenging
<1>5. \A c \in DnsCmds : ZoneIsKnown(c)
  BY DEF DnsInit, ZoneIsKnown
<1> QED
  BY <1>1, <1>2, <1>3, <1>4, <1>5 DEF DnsInv

\* A command that is no challenge moves on: nothing of the challenges changes.
LEMMA TxtStaysSound ==
    ASSUME DnsInv, NEW c \in DnsCmds, ~Challenging(c), ~Challenging(c)',
           \A d \in DnsCmds \ {c} : dnsCmd'[d] = dnsCmd[d],
           txt' = txt, nextId' \in Nat, nextId <= nextId', unsure \subseteq unsure'
    PROVE  TxtIsSound'
<1>1. DnsTypeOK /\ TxtIsSound
  BY DEF DnsInv
<1>2. /\ \A d \in DnsCmds : dnsCmd[d].id \in Nat
      /\ nextId \in Nat /\ \A t \in txt : t.id \in Nat /\ t.by \in DnsCmds
  BY <1>1, CommandsHaveType
<1>3. \A d \in DnsCmds : Challenging(d)' <=> d # c /\ Challenging(d)
  BY DEF Challenging
<1>4. \A d \in DnsCmds : Challenging(d) => dnsCmd'[d] = dnsCmd[d]
  OBVIOUS
<1>5. \A d \in DnsCmds : dnsCmd'[d].at \in {"wait", "validate"} => Challenging(d)'
  BY DEF Challenging
<1> HIDE DEF Challenging
<1>6. \A t \in txt' : t.id < nextId'
  BY <1>1, <1>2 DEF TxtIsSound
<1>7. \A t \in txt' : t.by \in unsure' \/ (Challenging(t.by)' /\ t.id = dnsCmd'[t.by].id)
  BY <1>1, <1>2, <1>3, <1>4 DEF TxtIsSound
<1>8. \A d \in DnsCmds : dnsCmd'[d].at \in {"wait", "validate"} =>
          [id |-> dnsCmd'[d].id, by |-> d] \in txt'
  BY <1>1, <1>3, <1>4, <1>5 DEF TxtIsSound
<1>9. \A d \in DnsCmds : Challenging(d)' => dnsCmd'[d].id < nextId'
  BY <1>1, <1>2, <1>3, <1>4 DEF TxtIsSound
<1>10. \A d, e \in DnsCmds :
          Challenging(d)' /\ Challenging(e)' /\ dnsCmd'[d].id = dnsCmd'[e].id =>
              d = e \/ dnsCmd'[d].id = 0
  BY <1>1, <1>3, <1>4 DEF TxtIsSound
<1> QED
  BY <1>6, <1>7, <1>8, <1>9, <1>10 DEF TxtIsSound


\* A step of one command keeps what the others know, and the name is served or
\* there is an excuse.
LEMMA DnsStepKeepsInv ==
    ASSUME DnsInv, NEW c \in DnsCmds,
           \A d \in DnsCmds \ {c} : dnsCmd'[d] = dnsCmd[d],
           DnsTypeOK', TxtIsSound', ZoneIsSound', ZoneIsKnown(c)',
           nextId <= nextId', unsure \subseteq unsure',
           (zone' = zone /\ UNCHANGED <<shared, served>>) \/ Changes(c),
           \A r \in zone' :
               (\E s \in zone : s.id = r.id /\ s.type = r.type) \/ ~(r.id < nextId),
           zone' = {} =>
               \/ Excuses(c)' \/ unsure' # {} \/ shared # {}
               \/ zone = {} /\ ~Excuses(c)
    PROVE  DnsInv'
<1>1. DnsTypeOK /\ StaysServed /\ \A d \in DnsCmds : ZoneIsKnown(d)
  BY DEF DnsInv
<1>2. shared \subseteq shared'
  BY DEF Changes
<1>3. StaysServed'
  <2> SUFFICES ASSUME served', zone' = {}, unsure' = {}, shared' = {}
               PROVE  \E d \in DnsCmds : Excuses(d)'
    BY DEF StaysServed, Excuses
  <2>1. CASE Excuses(c)'
    BY <2>1
  <2>2. CASE zone = {} /\ ~Excuses(c)
    <3>1. served /\ unsure = {} /\ shared = {}
      BY <1>2, <2>2 DEF Changes
    <3>2. PICK d \in DnsCmds : Excuses(d)
      BY <1>1, <2>2, <3>1 DEF StaysServed, Excuses
    <3> QED
      BY <2>2, <3>2 DEF Excuses
  <2> QED
    BY <1>2, <2>1, <2>2
<1>4. ASSUME NEW d \in DnsCmds \ {c}
      PROVE  ZoneIsKnown(d)'
  <2>1. ZoneIsKnown(d) /\ dnsCmd'[d] = dnsCmd[d]
    BY <1>1
  <2>2. nextId \in Nat /\ nextId' \in Nat /\ dnsCmd[d].id \in Nat
    <3>1. nextId' \in Nat
      BY NumbersOfDns DEF DnsTypeOK
    <3> QED
      BY <1>1, <3>1, CommandsHaveType
  <2>3. dnsCmd[d].at = "patch" =>
          dnsCmd[d].id < nextId' /\
          \A r \in zone' : r.id = dnsCmd[d].id => r.type = Written(d)
    BY <2>1, <2>2 DEF ZoneIsKnown
  <2>4. Written(d)' = Written(d)
    BY <2>1 DEF Written
  <2>5. dnsCmd[d].at \in {"clearA", "clearAAAA"} /\ shared' = {} =>
          zone' = zone /\ shared = {}
    BY <1>2, <1>4 DEF Changes, Within
  <2> QED
    BY <2>1, <2>3, <2>4, <2>5 DEF ZoneIsKnown
<1> QED
  BY <1>3, <1>4 DEF DnsInv

\* The command goes on or ends and changes no record of the name.
LEMMA DnsMoveKeepsInv ==
    ASSUME DnsInv, NEW c \in DnsCmds,
           \A d \in DnsCmds \ {c} : dnsCmd'[d] = dnsCmd[d],
           dnsCmd' \in [DnsCmds -> DnsCommands],
           nextId' \in Nat, nextId <= nextId', nextId' <= MaxRecords + 1,
           txt' \in SUBSET [id : Ids, by : DnsCmds],
           unsure \subseteq unsure', unsure' \subseteq DnsCmds,
           UNCHANGED <<zone, known, shared, served>>,
           TxtIsSound', ZoneIsKnown(c)',
           Excuses(c) => Excuses(c)' \/ unsure' # {} \/ zone # {} \/ shared # {}
    PROVE  DnsInv'
<1>1. DnsTypeOK /\ ZoneIsSound
  BY DEF DnsInv
<1>2. nextId \in Nat \ {0} /\ \A r \in zone : r.id \in Nat \ {0}
  BY <1>1, CommandsHaveType
<1>3. DnsTypeOK'
  BY <1>1, <1>2, NumbersOfDns DEF DnsTypeOK, DnsCommands
<1>4. ZoneIsSound'
  BY <1>1, <1>2 DEF ZoneIsSound
<1> QED
  BY <1>3, <1>4, DnsStepKeepsInv


LEMMA ListedAreThere ==
    ASSUME DnsTypeOK, NEW type
    PROVE  /\ OfType(type) \subseteq Ids
           /\ \A i \in OfType(type) : \E r \in zone : r.id = i /\ r.type = type
  BY DEF OfType, DnsTypeOK, DnsRecord

\* A command begins: it takes up its kind and its content, and remembers what
\* it found.
LEMMA BeginKeepsInv ==
    ASSUME DnsInv, NEW c \in DnsCmds, dnsCmd[c].at = "idle",
           NEW next \in DnsCommands, dnsCmd' = [dnsCmd EXCEPT ![c] = next],
           UNCHANGED <<zone, txt, nextId, known, unsure, shared, served>>,
           next.at \notin {"idle", "wait", "validate", "clean"},
           next.at = "patch" =>
               /\ next.kind # "remove"
               /\ \E r \in zone : r.id = next.id /\ r.type = IF next.kind = "apply" THEN "CNAME" ELSE "A",
           next.at = "delete" => next.kind = "remove",
           next.at = "create" => next.kind = "challenge",
           next.at \in {"clearA", "clearAAAA"} =>
               /\ next.kind = "apply"
               /\ \A i \in next.todo : \E r \in zone : r.id = i
    PROVE  DnsInv'
<1>1. DnsTypeOK /\ ZoneIsSound /\ ZoneIsKnown(c)
  BY DEF DnsInv
<1>2. /\ dnsCmd' \in [DnsCmds -> DnsCommands] /\ dnsCmd'[c] = next
      /\ \A d \in DnsCmds \ {c} : dnsCmd'[d] = dnsCmd[d]
      /\ nextId \in Nat
  BY <1>1, CommandsHaveType
<1>3. TxtIsSound'
  BY <1>2, TxtStaysSound DEF Challenging
<1>4. ZoneIsKnown(c)'
  BY <1>1, <1>2 DEF ZoneIsKnown, ZoneIsSound, Written
<1>5. ~Excuses(c)
  BY <1>1 DEF ZoneIsKnown, Excuses
<1> QED
  BY <1>1, <1>2, <1>3, <1>4, <1>5, DnsMoveKeepsInv DEF DnsTypeOK

LEMMA ListKeepsInv ==
    ASSUME DnsInv, NEW c \in DnsCmds, NEW content \in DnsTargets,
           ListCnames(c, content) \/ ListAddresses(c, content)
    PROVE  DnsInv'
<1>1. /\ DnsTypeOK /\ dnsCmd[c].at = "idle"
      /\ UNCHANGED <<zone, txt, nextId, known, unsure, shared, served>>
  BY DEF DnsInv, ListCnames, ListAddresses
<1>2. dnsCmd[c] \in DnsCommands
  BY <1>1, CommandsHaveType
<1>3. dnsCmd[c].kind = "apply"
  BY <1>1 DEF DnsInv, ZoneIsKnown
<1>4. CASE ListCnames(c, content)
  <2> DEFINE begun == [dnsCmd[c] EXCEPT !.kind = "apply", !.content = content]
  <2>1. begun \in DnsCommands /\ begun.kind = "apply"
    BY <1>2 DEF DnsCommands, DnsKinds
  <2>2. \/ dnsCmd' = [dnsCmd EXCEPT ![c] = [begun EXCEPT !.at = "clearA", !.todo = OfType("A")]]
        \/ \E i \in OfType("CNAME") :
             dnsCmd' = [dnsCmd EXCEPT ![c] = [begun EXCEPT !.at = "patch", !.id = i]]
    BY <1>4 DEF ListCnames
  <2> HIDE DEF begun
  <2>3. CASE dnsCmd' = [dnsCmd EXCEPT ![c] = [begun EXCEPT !.at = "clearA", !.todo = OfType("A")]]
    <3> DEFINE next == [begun EXCEPT !.at = "clearA", !.todo = OfType("A")]
    <3>1. /\ next \in DnsCommands /\ next.at = "clearA" /\ next.todo = OfType("A")
          /\ next.kind = "apply"
      BY <1>1, <2>1, ListedAreThere DEF DnsCommands, DnsPlaces
    <3>2. dnsCmd' = [dnsCmd EXCEPT ![c] = next]
      BY <2>3
    <3> HIDE DEF next
    <3>3. \A i \in next.todo : \E r \in zone : r.id = i
      BY <1>1, <3>1, ListedAreThere
    <3> QED
      BY <1>1, <3>1, <3>2, <3>3, BeginKeepsInv
  <2>4. ASSUME NEW i \in OfType("CNAME"),
               dnsCmd' = [dnsCmd EXCEPT ![c] = [begun EXCEPT !.at = "patch", !.id = i]]
        PROVE  DnsInv'
    <3> DEFINE next == [begun EXCEPT !.at = "patch", !.id = i]
    <3>1. i \in Ids /\ \E r \in zone : r.id = i /\ r.type = "CNAME"
      BY <1>1, ListedAreThere
    <3>2. next \in DnsCommands /\ next.at = "patch" /\ next.id = i /\ next.kind = "apply"
      BY <2>1, <3>1 DEF DnsCommands, DnsPlaces
    <3>3. dnsCmd' = [dnsCmd EXCEPT ![c] = next]
      BY <2>4
    <3> HIDE DEF next
    <3> QED
      BY <1>1, <3>1, <3>2, <3>3, BeginKeepsInv
  <2> QED
    BY <2>2, <2>3, <2>4
<1>5. CASE ListAddresses(c, content)
  <2> DEFINE begun == [dnsCmd[c] EXCEPT !.kind = "address", !.content = content]
  <2>1. begun \in DnsCommands /\ begun.kind = "address"
    BY <1>2 DEF DnsCommands, DnsKinds
  <2>2. \/ dnsCmd' = [dnsCmd EXCEPT ![c] = [begun EXCEPT !.at = "post"]]
        \/ \E i \in OfType("A") :
             dnsCmd' = [dnsCmd EXCEPT ![c] = [begun EXCEPT !.at = "patch", !.id = i]]
    BY <1>5 DEF ListAddresses
  <2> HIDE DEF begun
  <2>3. CASE dnsCmd' = [dnsCmd EXCEPT ![c] = [begun EXCEPT !.at = "post"]]
    <3> DEFINE next == [begun EXCEPT !.at = "post"]
    <3>1. next \in DnsCommands /\ next.at = "post" /\ next.kind = "address"
      BY <2>1 DEF DnsCommands, DnsPlaces
    <3>2. dnsCmd' = [dnsCmd EXCEPT ![c] = next]
      BY <2>3
    <3> HIDE DEF next
    <3> QED
      BY <1>1, <3>1, <3>2, BeginKeepsInv
  <2>4. ASSUME NEW i \in OfType("A"),
               dnsCmd' = [dnsCmd EXCEPT ![c] = [begun EXCEPT !.at = "patch", !.id = i]]
        PROVE  DnsInv'
    <3> DEFINE next == [begun EXCEPT !.at = "patch", !.id = i]
    <3>1. i \in Ids /\ \E r \in zone : r.id = i /\ r.type = "A"
      BY <1>1, ListedAreThere
    <3>2. next \in DnsCommands /\ next.at = "patch" /\ next.id = i /\ next.kind = "address"
      BY <2>1, <3>1 DEF DnsCommands, DnsPlaces
    <3>3. dnsCmd' = [dnsCmd EXCEPT ![c] = next]
      BY <2>4
    <3> HIDE DEF next
    <3> QED
      BY <1>1, <3>1, <3>2, <3>3, BeginKeepsInv
  <2> QED
    BY <2>2, <2>3, <2>4
<1> QED
  BY <1>4, <1>5

LEMMA ListForRemovalKeepsInv ==
    ASSUME DnsInv, NEW c \in DnsCmds, NEW listed \in BOOLEAN, ListForRemoval(c, listed)
    PROVE  DnsInv'
<1> DEFINE begun == [dnsCmd[c] EXCEPT !.kind = "remove"]
<1>1. /\ DnsTypeOK /\ dnsCmd[c].at = "idle"
      /\ UNCHANGED <<zone, txt, nextId, known, unsure, shared, served>>
      /\ \/ dnsCmd' = [dnsCmd EXCEPT ![c] = [begun EXCEPT !.at = "none", !.todo = OfType("CNAME")]]
         \/ \E i \in OfType("CNAME") :
              dnsCmd' = [dnsCmd EXCEPT ![c] = [begun EXCEPT !.at = "delete", !.id = i]]
  BY DEF DnsInv, ListForRemoval
<1>2. begun \in DnsCommands /\ begun.kind = "remove"
  <2>1. dnsCmd[c] \in DnsCommands
    BY <1>1, CommandsHaveType
  <2> QED
    BY <2>1 DEF DnsCommands, DnsKinds
<1> HIDE DEF begun
<1>3. CASE dnsCmd' = [dnsCmd EXCEPT ![c] = [begun EXCEPT !.at = "none", !.todo = OfType("CNAME")]]
  <2> DEFINE next == [begun EXCEPT !.at = "none", !.todo = OfType("CNAME")]
  <2>1. next \in DnsCommands /\ next.at = "none"
    BY <1>1, <1>2, ListedAreThere DEF DnsCommands, DnsPlaces
  <2>2. dnsCmd' = [dnsCmd EXCEPT ![c] = next]
    BY <1>3
  <2> HIDE DEF next
  <2> QED
    BY <1>1, <2>1, <2>2, BeginKeepsInv
<1>4. ASSUME NEW i \in OfType("CNAME"),
             dnsCmd' = [dnsCmd EXCEPT ![c] = [begun EXCEPT !.at = "delete", !.id = i]]
      PROVE  DnsInv'
  <2> DEFINE next == [begun EXCEPT !.at = "delete", !.id = i]
  <2>1. i \in Ids
    BY <1>1, ListedAreThere
  <2>2. next \in DnsCommands /\ next.at = "delete" /\ next.kind = "remove"
    BY <1>2, <2>1 DEF DnsCommands, DnsPlaces
  <2>3. dnsCmd' = [dnsCmd EXCEPT ![c] = next]
    BY <1>4
  <2> HIDE DEF next
  <2> QED
    BY <1>1, <2>2, <2>3, BeginKeepsInv
<1> QED
  BY <1>1, <1>3, <1>4

LEMMA BeginChallengeKeepsInv ==
    ASSUME DnsInv, NEW c \in DnsCmds, BeginChallenge(c)
    PROVE  DnsInv'
<1> DEFINE next == [dnsCmd[c] EXCEPT !.kind = "challenge", !.at = "create"]
<1>1. /\ DnsTypeOK /\ dnsCmd[c].at = "idle"
      /\ dnsCmd' = [dnsCmd EXCEPT ![c].kind = "challenge", ![c].at = "create"]
      /\ UNCHANGED <<zone, txt, nextId, known, unsure, shared, served>>
  BY DEF DnsInv, BeginChallenge
<1>2. next \in DnsCommands /\ next.at = "create" /\ next.kind = "challenge"
  BY <1>1, CommandsHaveType DEF DnsCommands, DnsKinds, DnsPlaces
<1>3. dnsCmd' = [dnsCmd EXCEPT ![c] = next]
  BY <1>1, CommandsHaveType
<1> HIDE DEF next
<1> QED
  BY <1>1, <1>2, <1>3, BeginKeepsInv


\* The commands that work on the records of the name.
LEMMA DeleteConflictKeepsInv ==
    ASSUME DnsInv, NEW c \in DnsCmds, DeleteConflict(c)
    PROVE  DnsInv'
<1>1. DnsTypeOK /\ ZoneIsSound /\ ZoneIsKnown(c) /\ dnsCmd[c] \in DnsCommands
  BY CommandsHaveType DEF DnsInv
<1>2. PICK i \in dnsCmd[c].todo :
        /\ dnsCmd[c].at \in {"clearA", "clearAAAA"}
        /\ zone' = {r \in zone : r.id # i}
        /\ IF i \in {r.id : r \in zone}
             THEN DnsGoes(c, dnsCmd[c].at, 0, dnsCmd[c].todo \ {i})
             ELSE DnsGoes(c, "failed", 0, {})
        /\ Changes(c)
        /\ UNCHANGED <<txt, nextId, known, unsure>>
  BY DEF DeleteConflict
<1>3. dnsCmd[c].todo \subseteq Ids /\ dnsCmd[c].at \in DnsPlaces
  BY <1>1 DEF DnsCommands
<1>4. /\ shared \subseteq shared' /\ shared' \subseteq DnsCmds /\ served' \in BOOLEAN
      /\ zone' \subseteq zone /\ nextId \in Nat
  BY <1>1, <1>2, CommandsHaveType DEF Changes, DnsTypeOK
<1>5. ZoneIsSound'
  BY <1>1, <1>2, <1>4 DEF ZoneIsSound
<1>6. CASE i \in {r.id : r \in zone}
  <2>1. /\ dnsCmd' \in [DnsCmds -> DnsCommands] /\ dnsCmd'[c].at = dnsCmd[c].at
        /\ dnsCmd'[c].todo = dnsCmd[c].todo \ {i} /\ dnsCmd'[c].kind = dnsCmd[c].kind
        /\ \A d \in DnsCmds \ {c} : dnsCmd'[d] = dnsCmd[d]
    <3>1. PICK at, todo : at = dnsCmd[c].at /\ todo = dnsCmd[c].todo \ {i}
      OBVIOUS
    <3>2. DnsGoes(c, at, 0, todo) /\ at \in DnsPlaces /\ todo \in SUBSET Ids
      BY <1>2, <1>3, <1>6, <3>1
    <3>3. /\ dnsCmd' \in [DnsCmds -> DnsCommands]
          /\ dnsCmd'[c].at = at /\ dnsCmd'[c].todo = todo /\ dnsCmd'[c].kind = dnsCmd[c].kind
          /\ \A d \in DnsCmds \ {c} : dnsCmd'[d] = dnsCmd[d]
      BY <1>1, <3>2, DnsGoesOnly
    <3> QED
      BY <3>1, <3>3
  <2>2. DnsTypeOK'
    BY <1>1, <1>2, <1>4, <2>1 DEF DnsTypeOK, DnsCommands
  <2>3. TxtIsSound'
    BY <1>2, <1>4, <2>1, TxtStaysSound DEF Challenging
  <2>4. ASSUME shared' = {}, NEW j \in dnsCmd'[c].todo
        PROVE  \E r \in zone' : r.id = j
    <3>1. PICK r \in zone : r.id = j
      BY <1>1, <1>2, <1>4, <2>1, <2>4 DEF ZoneIsKnown
    <3> QED
      BY <1>2, <2>1, <2>4, <3>1
  <2>5. ZoneIsKnown(c)'
    BY <1>1, <1>2, <2>1, <2>4 DEF ZoneIsKnown
  <2>6. Excuses(c)'
    BY <1>2, <2>1 DEF Excuses
  <2> QED
    BY <1>2, <1>4, <1>5, <2>1, <2>2, <2>3, <2>5, <2>6, DnsStepKeepsInv
<1>7. CASE i \notin {r.id : r \in zone}
  <2>1. /\ dnsCmd' \in [DnsCmds -> DnsCommands] /\ dnsCmd'[c].at = "failed"
        /\ \A d \in DnsCmds \ {c} : dnsCmd'[d] = dnsCmd[d]
    BY <1>1, <1>2, <1>7, DnsGoesOnly DEF DnsPlaces
  <2>2. DnsTypeOK'
    BY <1>1, <1>2, <1>4, <2>1 DEF DnsTypeOK, DnsCommands
  <2>3. TxtIsSound'
    BY <1>2, <1>4, <2>1, TxtStaysSound DEF Challenging
  <2>4. ZoneIsKnown(c)'
    BY <2>1 DEF ZoneIsKnown
  <2>5. shared # {}
    BY <1>1, <1>2, <1>7 DEF ZoneIsKnown
  <2> QED
    BY <1>2, <1>4, <1>5, <2>1, <2>2, <2>3, <2>4, <2>5, DnsStepKeepsInv
<1> QED
  BY <1>6, <1>7

LEMMA ListMoreKeepsInv ==
    ASSUME DnsInv, NEW c \in DnsCmds, ListMore(c)
    PROVE  DnsInv'
<1>1. /\ DnsTypeOK /\ ZoneIsKnown(c) /\ dnsCmd[c].at \in {"clearA", "clearAAAA"}
      /\ UNCHANGED <<zone, txt, nextId, known, unsure, shared, served>>
      /\ nextId \in Nat
  BY CommandsHaveType DEF DnsInv, ListMore
<1>2. /\ dnsCmd' \in [DnsCmds -> DnsCommands] /\ dnsCmd'[c].at \in {"clearAAAA", "post"}
      /\ dnsCmd'[c].kind = dnsCmd[c].kind
      /\ dnsCmd'[c].at = "clearAAAA" => dnsCmd'[c].todo = OfType("AAAA")
      /\ \A d \in DnsCmds \ {c} : dnsCmd'[d] = dnsCmd[d]
  <2>1. CASE DnsGoes(c, "clearAAAA", 0, OfType("AAAA"))
    BY <1>1, <2>1, ListedAreThere, DnsGoesOnly DEF DnsPlaces
  <2>2. CASE DnsGoes(c, "post", 0, {})
    BY <1>1, <2>2, DnsGoesOnly DEF DnsPlaces
  <2> QED
    BY <2>1, <2>2 DEF ListMore
<1>3. TxtIsSound'
  BY <1>1, <1>2, TxtStaysSound DEF Challenging
<1>4. ZoneIsKnown(c)'
  BY <1>1, <1>2, ListedAreThere DEF ZoneIsKnown
<1>5. Excuses(c)'
  BY <1>2 DEF Excuses
<1> QED
  BY <1>1, <1>2, <1>3, <1>4, <1>5, DnsMoveKeepsInv DEF DnsTypeOK

LEMMA PatchKeepsInv ==
    ASSUME DnsInv, NEW c \in DnsCmds, Patch(c)
    PROVE  DnsInv'
<1> DEFINE id == dnsCmd[c].id
           content == dnsCmd[c].content
           old == {r \in zone : r.id = id}
           place == IF old = {} THEN "failed" ELSE "done"
<1>1. /\ DnsTypeOK /\ ZoneIsSound /\ ZoneIsKnown(c) /\ dnsCmd[c] \in DnsCommands
      /\ dnsCmd[c].at = "patch"
      /\ zone' = (zone \ old) \cup {[r EXCEPT !.content = content] : r \in old}
      /\ DnsGoes(c, place, 0, {})
      /\ Changes(c)
      /\ UNCHANGED <<txt, nextId, known, unsure>> /\ nextId \in Nat
  BY CommandsHaveType DEF DnsInv, Patch
<1>2. content \in DnsTargets
  BY <1>1 DEF DnsCommands
<1>3. place \in {"failed", "done"} /\ place \in DnsPlaces
  BY DEF DnsPlaces
<1>4. /\ dnsCmd' \in [DnsCmds -> DnsCommands] /\ dnsCmd'[c].at = place
      /\ \A d \in DnsCmds \ {c} : dnsCmd'[d] = dnsCmd[d]
  BY <1>1, <1>3, DnsGoesOnly
<1>5. ASSUME NEW r \in zone'
      PROVE  /\ r \in DnsRecord
             /\ \E s \in zone :
                   /\ s.id = r.id /\ s.type = r.type
                   /\ r = IF s.id = id THEN [s EXCEPT !.content = content] ELSE s
  <2>1. CASE r \in zone \ old
    BY <1>1, <2>1 DEF DnsTypeOK
  <2>2. ASSUME NEW s \in old, r = [s EXCEPT !.content = content]
        PROVE  /\ r \in DnsRecord /\ s.id = r.id /\ s.type = r.type
               /\ r = IF s.id = id THEN [s EXCEPT !.content = content] ELSE s
    <3>1. s \in DnsRecord /\ s.id = id
      BY <1>1, <2>2 DEF DnsTypeOK
    <3> QED
      BY <1>2, <2>2, <3>1 DEF DnsRecord
  <2> QED
    BY <1>1, <2>1, <2>2
<1> HIDE DEF place, id, content
<1>6. DnsTypeOK'
  BY <1>1, <1>4, <1>5 DEF DnsTypeOK, DnsCommands, Changes
<1>7. TxtIsSound'
  BY <1>1, <1>3, <1>4, TxtStaysSound DEF Challenging
<1>8. ZoneIsSound'
  <2>1. \A r \in zone' : r.id < nextId'
    BY <1>1, <1>5 DEF ZoneIsSound
  <2>2. ASSUME NEW r \in zone', NEW s \in zone', r.id = s.id \/ r.type = "CNAME"
        PROVE  r = s
    <3>1. PICK u \in zone :
             /\ u.id = r.id /\ u.type = r.type
             /\ r = IF u.id = id THEN [u EXCEPT !.content = content] ELSE u
      BY <1>5
    <3>2. PICK v \in zone :
             /\ v.id = s.id /\ v.type = s.type
             /\ s = IF v.id = id THEN [v EXCEPT !.content = content] ELSE v
      BY <1>5
    <3>3. u = v
      BY <1>1, <2>2, <3>1, <3>2 DEF ZoneIsSound
    <3> QED
      BY <3>1, <3>2, <3>3
  <2> QED
    BY <2>1, <2>2 DEF ZoneIsSound
<1>9. ZoneIsKnown(c)'
  BY <1>3, <1>4 DEF ZoneIsKnown
<1>10. zone' = {} => zone = {} /\ ~Excuses(c)
  <2>1. ASSUME NEW r \in zone
        PROVE  zone' # {}
    <3>1. CASE r \in old
      <4>1. [r EXCEPT !.content = content] \in zone'
        BY <1>1, <3>1
      <4> QED
        BY <4>1
    <3>2. CASE r \notin old
      BY <1>1, <3>2
    <3> QED
      BY <3>1, <3>2
  <2> QED
    BY <1>1, <2>1 DEF Excuses, ZoneIsKnown
<1> QED
  BY <1>1, <1>4, <1>5, <1>6, <1>7, <1>8, <1>9, <1>10, DnsStepKeepsInv

LEMMA PostKeepsInv ==
    ASSUME DnsInv, NEW c \in DnsCmds, Post(c)
    PROVE  DnsInv'
<1>1. /\ DnsTypeOK /\ ZoneIsSound /\ dnsCmd[c] \in DnsCommands
      /\ dnsCmd[c].at = "post" /\ nextId <= MaxRecords
      /\ UNCHANGED <<txt, known, unsure>> /\ nextId \in Nat \ {0} /\ nextId \in Ids
      /\ dnsCmd[c].content \in DnsTargets
  BY CommandsHaveType DEF DnsInv, Post, DnsCommands
<1>2. CASE Refused(Written(c), dnsCmd[c].content)
  <2>1. DnsGoes(c, "failed", 0, {}) /\ UNCHANGED <<zone, nextId, shared, served>>
    BY <1>2 DEF Post
  <2>2. /\ dnsCmd' \in [DnsCmds -> DnsCommands] /\ dnsCmd'[c].at = "failed"
        /\ \A d \in DnsCmds \ {c} : dnsCmd'[d] = dnsCmd[d]
    <3>1. "failed" \in DnsPlaces /\ {} \in SUBSET Ids /\ 0 \in Ids \cup {0} /\ DnsTypeOK
      BY <1>1 DEF DnsPlaces
    <3>2. DnsGoes(c, "failed", 0, {})
      BY <2>1
    <3> QED
      BY <3>1, <3>2, DnsGoesOnly
  <2>3. TxtIsSound' /\ ZoneIsKnown(c)'
    BY <1>1, <2>1, <2>2, TxtStaysSound DEF Challenging, ZoneIsKnown
  <2>4. zone # {}
    BY <1>2 DEF Refused
  <2> QED
    BY <1>1, <2>1, <2>2, <2>3, <2>4, DnsMoveKeepsInv DEF DnsTypeOK
<1>3. CASE ~Refused(Written(c), dnsCmd[c].content)
  <2> DEFINE new == [id |-> nextId, type |-> Written(c), content |-> dnsCmd[c].content]
  <2>1. /\ zone' = zone \cup {new} /\ nextId' = nextId + 1 /\ DnsGoes(c, "done", 0, {})
        /\ Changes(c)
    BY <1>3 DEF Post
  <2>2. new \in DnsRecord /\ new.id = nextId /\ new.type = Written(c)
    BY <1>1 DEF DnsRecord, RecordTypes, Written
  <2> HIDE DEF new
  <2>3. /\ dnsCmd' \in [DnsCmds -> DnsCommands] /\ dnsCmd'[c].at = "done"
        /\ \A d \in DnsCmds \ {c} : dnsCmd'[d] = dnsCmd[d]
    <3>1. "done" \in DnsPlaces /\ {} \in SUBSET Ids /\ 0 \in Ids \cup {0} /\ DnsTypeOK
      BY <1>1 DEF DnsPlaces
    <3> QED
      BY <2>1, <3>1, DnsGoesOnly
  <2>4. nextId' \in 1 .. MaxRecords + 1 /\ nextId' \in Nat /\ nextId <= nextId'
    BY <1>1, <2>1, NumbersOfDns
  <2>5. DnsTypeOK'
    BY <1>1, <2>1, <2>2, <2>3, <2>4 DEF DnsTypeOK, DnsCommands, Changes
  <2>6. TxtIsSound' /\ ZoneIsKnown(c)'
    BY <1>1, <2>3, <2>4, TxtStaysSound DEF Challenging, ZoneIsKnown
  <2>7. ZoneIsSound'
    <3>1. \A r \in zone : r.type # "CNAME" /\ new.type # "CNAME" /\ r.id < nextId
                            /\ r.id \in Nat
      BY <1>1, <1>3, <2>2, CommandsHaveType DEF Refused, ZoneIsSound
    <3>2. \A r \in zone' : r.id < nextId'
      BY <1>1, <2>1, <2>2, <3>1
    <3>3. \A r \in zone : r.id # new.id
      BY <1>1, <2>2, <3>1
    <3>4. ASSUME NEW r \in zone', NEW s \in zone', r.id = s.id \/ r.type = "CNAME"
          PROVE  r = s
      BY <1>1, <2>1, <3>1, <3>3, <3>4 DEF ZoneIsSound
    <3> QED
      BY <3>2, <3>4 DEF ZoneIsSound
  <2>8. /\ zone' # {} /\ unsure' = unsure
        /\ \A r \in zone' : (\E s \in zone : s.id = r.id /\ s.type = r.type) \/ ~(r.id < nextId)
    BY <1>1, <2>1, <2>2
  <2> QED
    BY <2>1, <2>3, <2>4, <2>5, <2>6, <2>7, <2>8, DnsStepKeepsInv
<1> QED
  BY <1>2, <1>3

LEMMA DeleteCnameKeepsInv ==
    ASSUME DnsInv, NEW c \in DnsCmds, DeleteCname(c)
    PROVE  DnsInv'
<1>1. /\ DnsTypeOK /\ ZoneIsSound /\ ZoneIsKnown(c)
      /\ dnsCmd[c].at = "delete" /\ zone' = {r \in zone : r.id # dnsCmd[c].id}
      /\ Changes(c)
      /\ UNCHANGED <<txt, nextId, known, unsure>> /\ nextId \in Nat
  BY CommandsHaveType DEF DnsInv, DeleteCname
<1>2. PICK place \in {"failed", "done"} : DnsGoes(c, place, 0, {})
  BY DEF DeleteCname
<1>3. /\ dnsCmd' \in [DnsCmds -> DnsCommands] /\ dnsCmd'[c].at = place
      /\ dnsCmd'[c].kind = dnsCmd[c].kind
      /\ \A d \in DnsCmds \ {c} : dnsCmd'[d] = dnsCmd[d]
  <2>1. place \in DnsPlaces
    BY DEF DnsPlaces
  <2> QED
    BY <1>1, <1>2, <2>1, DnsGoesOnly
<1>4. DnsTypeOK'
  BY <1>1, <1>3 DEF DnsTypeOK, DnsCommands, Changes
<1>5. TxtIsSound' /\ ZoneIsKnown(c)'
  BY <1>1, <1>3, TxtStaysSound DEF Challenging, ZoneIsKnown
<1>6. ZoneIsSound'
  BY <1>1 DEF ZoneIsSound
<1>7. Excuses(c)'
  BY <1>1, <1>3 DEF Excuses, ZoneIsKnown
<1> QED
  BY <1>1, <1>3, <1>4, <1>5, <1>6, <1>7, DnsStepKeepsInv

LEMMA DnsFailsKeepsInv ==
    ASSUME DnsInv, NEW c \in DnsCmds, DnsFails(c)
    PROVE  DnsInv'
<1>1. /\ DnsTypeOK /\ ~Challenging(c) /\ DnsGoes(c, "failed", 0, {})
      /\ unsure' = unsure \cup {c}
      /\ UNCHANGED <<zone, txt, nextId, known, shared, served>> /\ nextId \in Nat
  BY CommandsHaveType DEF DnsInv, DnsFails, Challenging
<1>2. /\ dnsCmd' \in [DnsCmds -> DnsCommands] /\ dnsCmd'[c].at = "failed"
      /\ \A d \in DnsCmds \ {c} : dnsCmd'[d] = dnsCmd[d]
  BY <1>1, DnsGoesOnly DEF DnsPlaces
<1>3. TxtIsSound' /\ ZoneIsKnown(c)'
  BY <1>1, <1>2, TxtStaysSound DEF Challenging, ZoneIsKnown
<1>4. unsure \subseteq unsure' /\ unsure' \subseteq DnsCmds /\ unsure' # {}
  BY <1>1 DEF DnsTypeOK
<1> QED
  BY <1>1, <1>2, <1>3, <1>4, DnsMoveKeepsInv DEF DnsTypeOK


(***************************************************************************)
(* The challenge                                                           *)
(***************************************************************************)
\* A step of a challenge leaves the records of the name as they are.
LEMMA ChallengeStepKeepsInv ==
    ASSUME DnsInv, NEW c \in DnsCmds, Challenging(c) \/ dnsCmd[c].at = "create",
           \A d \in DnsCmds \ {c} : dnsCmd'[d] = dnsCmd[d],
           dnsCmd' \in [DnsCmds -> DnsCommands], dnsCmd'[c].kind = dnsCmd[c].kind,
           dnsCmd'[c].at \in {"wait", "validate", "clean", "done", "failed"},
           nextId' \in Nat, nextId <= nextId', nextId' <= MaxRecords + 1,
           txt' \in SUBSET [id : Ids, by : DnsCmds],
           unsure \subseteq unsure', unsure' \subseteq DnsCmds,
           UNCHANGED <<zone, known, shared, served>>,
           TxtIsSound'
    PROVE  DnsInv'
<1>1. ZoneIsKnown(c)'
  BY DEF DnsInv, ZoneIsKnown, Challenging
<1>2. Excuses(c) => Excuses(c)'
  BY DEF Excuses, Challenging
<1> QED
  BY <1>1, <1>2, DnsMoveKeepsInv

\* What a challenge does to the challenge records keeps those of the others:
\* it adds one with a new id, or deletes the one it remembers.
LEMMA CreateTxtKeepsInv ==
    ASSUME DnsInv, NEW c \in DnsCmds, NEW answered \in BOOLEAN, CreateTxt(c, answered)
    PROVE  DnsInv'
<1> DEFINE new == [id |-> nextId, by |-> c]
           id == IF answered THEN nextId ELSE 0
           place == IF answered THEN "wait" ELSE "clean"
<1>1. /\ DnsTypeOK /\ TxtIsSound /\ dnsCmd[c].at = "create" /\ nextId <= MaxRecords
      /\ txt' = txt \cup {new} /\ nextId' = nextId + 1
      /\ DnsGoes(c, place, id, {})
      /\ unsure' = IF answered THEN unsure ELSE unsure \cup {c}
      /\ UNCHANGED <<zone, known, shared, served>>
  BY DEF DnsInv, CreateTxt
<1>2. /\ nextId \in Nat \ {0} /\ nextId \in Ids
      /\ \A t \in txt : t.id \in Nat /\ t.by \in DnsCmds
      /\ \A d \in DnsCmds : dnsCmd[d].id \in Nat
  BY <1>1, CommandsHaveType
<1>3. place \in DnsPlaces /\ id \in Ids \cup {0}
  BY <1>2 DEF DnsPlaces
<1>4. /\ dnsCmd' \in [DnsCmds -> DnsCommands] /\ dnsCmd'[c].at = place
      /\ dnsCmd'[c].id = id /\ dnsCmd'[c].kind = dnsCmd[c].kind
      /\ \A d \in DnsCmds \ {c} : dnsCmd'[d] = dnsCmd[d]
  BY <1>1, <1>3, DnsGoesOnly
<1>5. /\ new.id = nextId /\ new.by = c /\ new \in [id : Ids, by : DnsCmds]
  BY <1>2
<1>6. /\ ~Challenging(c) /\ Challenging(c)'
      /\ \A d \in DnsCmds \ {c} : Challenging(d)' <=> Challenging(d)
  BY <1>1, <1>4 DEF Challenging
<1>7. /\ txt' \in SUBSET [id : Ids, by : DnsCmds]
      /\ unsure \subseteq unsure' /\ unsure' \subseteq DnsCmds
      /\ nextId' \in Nat /\ nextId <= nextId' /\ nextId' <= MaxRecords + 1
  BY <1>1, <1>2, <1>5, NumbersOfDns DEF DnsTypeOK
<1>8. TxtIsSound'
  <2>1. \A t \in txt' : t.id < nextId'
    BY <1>1, <1>2, <1>5 DEF TxtIsSound
  <2>2. ASSUME NEW t \in txt'
        PROVE  t.by \in unsure' \/ (Challenging(t.by)' /\ t.id = dnsCmd'[t.by].id)
    <3>1. CASE t = new
      BY <1>1, <1>4, <1>5, <1>6, <3>1
    <3>2. CASE t \in txt
      <4>1. t.by \in unsure \/ (Challenging(t.by) /\ t.id = dnsCmd[t.by].id)
        BY <1>1, <3>2 DEF TxtIsSound
      <4>2. t.by \in DnsCmds
        BY <1>2, <3>2
      <4> QED
        BY <1>4, <1>6, <1>7, <4>1, <4>2
    <3> QED
      BY <1>1, <3>1, <3>2
  <2>3. ASSUME NEW d \in DnsCmds, dnsCmd'[d].at \in {"wait", "validate"}
        PROVE  [id |-> dnsCmd'[d].id, by |-> d] \in txt'
    <3>1. CASE d = c
      BY <1>1, <1>4, <2>3, <3>1
    <3>2. CASE d # c
      BY <1>1, <1>4, <2>3, <3>2 DEF TxtIsSound
    <3> QED
      BY <3>1, <3>2
  <2>4. \A d \in DnsCmds : Challenging(d)' => dnsCmd'[d].id < nextId'
    BY <1>1, <1>2, <1>4, <1>6 DEF TxtIsSound
  <2>5. ASSUME NEW d \in DnsCmds, NEW e \in DnsCmds, Challenging(d)', Challenging(e)',
               dnsCmd'[d].id = dnsCmd'[e].id, d # e
        PROVE  dnsCmd'[d].id = 0
    <3>1. \A f \in DnsCmds \ {c} : Challenging(f)' => dnsCmd[f].id < nextId
      BY <1>1, <1>6 DEF TxtIsSound
    <3>2. CASE d # c /\ e # c
      BY <1>1, <1>4, <1>6, <2>5, <3>2 DEF TxtIsSound
    <3>3. CASE d = c \/ e = c
      BY <1>2, <1>4, <2>5, <3>1, <3>3
    <3> QED
      BY <3>2, <3>3
  <2> QED
    BY <2>1, <2>2, <2>3, <2>4, <2>5 DEF TxtIsSound
<1> QED
  BY <1>1, <1>4, <1>7, <1>8, ChallengeStepKeepsInv


LEMMA ChallengeGoesOnKeepsInv ==
    ASSUME DnsInv, NEW c \in DnsCmds, Resolved01(c) \/ WaitTimesOut(c) \/ Validate(c)
    PROVE  DnsInv'
<1>1. /\ DnsTypeOK /\ TxtIsSound /\ dnsCmd[c].at \in {"wait", "validate"}
      /\ UNCHANGED <<zone, txt, nextId, known, unsure, shared, served>>
      /\ nextId \in Nat /\ dnsCmd[c] \in DnsCommands
      /\ \A t \in txt : t.by \in DnsCmds
  BY CommandsHaveType DEF DnsInv, Resolved01, WaitTimesOut, Validate
<1>2. /\ dnsCmd' \in [DnsCmds -> DnsCommands] /\ dnsCmd'[c].at \in {"validate", "clean"}
      /\ dnsCmd'[c].id = dnsCmd[c].id /\ dnsCmd'[c].kind = dnsCmd[c].kind
      /\ \A d \in DnsCmds \ {c} : dnsCmd'[d] = dnsCmd[d]
  <2>1. dnsCmd[c].id \in Ids \cup {0} /\ {} \in SUBSET Ids
    BY <1>1 DEF DnsCommands
  <2>2. CASE Resolved01(c) \/ WaitTimesOut(c)
    <3>1. PICK place \in {"validate", "clean"} : DnsGoes(c, place, dnsCmd[c].id, {})
      BY <2>2 DEF Resolved01, WaitTimesOut
    <3>2. place \in DnsPlaces
      BY DEF DnsPlaces
    <3> QED
      BY <1>1, <2>1, <3>1, <3>2, DnsGoesOnly
  <2>3. CASE Validate(c)
    <3> DEFINE issued == \E t \in txt : t.by = c
               next == [dnsCmd[c] EXCEPT !.at = "clean", !.issued = issued]
    <3>1. dnsCmd \in [DnsCmds -> DnsCommands]
      BY <1>1, CommandsHaveType
    <3>2. dnsCmd' = [dnsCmd EXCEPT ![c] = next]
      BY <2>3, <3>1 DEF Validate
    <3>3. issued \in BOOLEAN
      OBVIOUS
    <3> HIDE DEF issued
    <3>4. /\ next \in DnsCommands /\ next.at = "clean" /\ next.id = dnsCmd[c].id
          /\ next.kind = dnsCmd[c].kind
      BY <1>1, <3>3 DEF DnsCommands, DnsPlaces
    <3> HIDE DEF next
    <3> QED
      BY <3>1, <3>2, <3>4
  <2> QED
    BY <2>2, <2>3
<1>3. /\ \A d \in DnsCmds : Challenging(d)' <=> Challenging(d)
      /\ \A d \in DnsCmds : dnsCmd'[d].id = dnsCmd[d].id
      /\ \A d \in DnsCmds : dnsCmd'[d].at \in {"wait", "validate"} =>
                               dnsCmd[d].at \in {"wait", "validate"}
  BY <1>1, <1>2 DEF Challenging
<1>4. TxtIsSound'
  <2> HIDE DEF Challenging
  <2>1. \A t \in txt : t.by \in unsure \/ (Challenging(t.by)' /\ t.id = dnsCmd'[t.by].id)
    BY <1>1, <1>3 DEF TxtIsSound
  <2>2. \A d \in DnsCmds : dnsCmd'[d].at \in {"wait", "validate"} =>
            [id |-> dnsCmd'[d].id, by |-> d] \in txt
    BY <1>1, <1>3 DEF TxtIsSound
  <2>3. \A d \in DnsCmds : Challenging(d)' => dnsCmd'[d].id < nextId
    BY <1>1, <1>3 DEF TxtIsSound
  <2>4. \A d, e \in DnsCmds :
            Challenging(d)' /\ Challenging(e)' /\ dnsCmd'[d].id = dnsCmd'[e].id =>
                d = e \/ dnsCmd'[d].id = 0
    BY <1>1, <1>3 DEF TxtIsSound
  <2> QED
    BY <1>1, <2>1, <2>2, <2>3, <2>4 DEF TxtIsSound
<1> QED
  BY <1>1, <1>2, <1>4, ChallengeStepKeepsInv DEF Challenging, DnsTypeOK

\* However a challenge ends, the records of the others are up.
LEMMA ChallengeEndKeepsInv ==
    ASSUME DnsInv, NEW c \in DnsCmds,
           \/ \E deleted \in BOOLEAN : RemoveChallenge(c, deleted)
           \/ ChallengeDies(c)
    PROVE  DnsInv'
<1>1. /\ DnsTypeOK /\ TxtIsSound
      /\ Challenging(c) \/ dnsCmd[c].at = "create"
      /\ UNCHANGED <<zone, nextId, known, shared, served>> /\ nextId \in Nat
      /\ \A t \in txt : t.id \in Nat \ {0} /\ t.by \in DnsCmds
  BY CommandsHaveType DEF DnsInv, RemoveChallenge, ChallengeDies, Challenging
<1>2. /\ txt' = txt \/ (Challenging(c) /\ txt' = {t \in txt : t.id # dnsCmd[c].id})
      /\ unsure' = unsure \/ unsure' = unsure \cup {c}
      /\ txt' = txt => c \in unsure' \/ txt' = {t \in txt : t.id # dnsCmd[c].id}
  BY DEF RemoveChallenge, ChallengeDies, Challenging
<1>3. PICK place \in {"done", "failed"} : DnsGoes(c, place, 0, {})
  BY DEF RemoveChallenge, ChallengeDies
<1>4. /\ dnsCmd' \in [DnsCmds -> DnsCommands] /\ dnsCmd'[c].at = place
      /\ dnsCmd'[c].kind = dnsCmd[c].kind
      /\ \A d \in DnsCmds \ {c} : dnsCmd'[d] = dnsCmd[d]
  <2>1. place \in DnsPlaces /\ {} \in SUBSET Ids
    BY DEF DnsPlaces
  <2> QED
    BY <1>1, <1>3, <2>1, DnsGoesOnly
<1>5. /\ ~Challenging(c)' /\ \A d \in DnsCmds \ {c} : Challenging(d)' <=> Challenging(d)
  BY <1>4 DEF Challenging
<1>6. txt' \subseteq txt /\ unsure \subseteq unsure' /\ unsure' \subseteq DnsCmds
  BY <1>1, <1>2 DEF DnsTypeOK
<1>7. TxtIsSound'
  <2>1. ASSUME NEW t \in txt'
        PROVE  /\ t.id < nextId'
               /\ t.by \in unsure' \/ (Challenging(t.by)' /\ t.id = dnsCmd'[t.by].id)
    <3>1. /\ t \in txt /\ t.id < nextId /\ t.by \in DnsCmds
          /\ t.by \in unsure \/ (Challenging(t.by) /\ t.id = dnsCmd[t.by].id)
      BY <1>1, <1>6 DEF TxtIsSound
    <3>2. CASE t.by = c
      BY <1>1, <1>2, <1>6, <2>1, <3>1, <3>2
    <3>3. CASE t.by # c
      BY <1>1, <1>4, <1>5, <1>6, <3>1, <3>3
    <3> QED
      BY <3>2, <3>3
  <2>2. ASSUME NEW d \in DnsCmds, dnsCmd'[d].at \in {"wait", "validate"}
        PROVE  [id |-> dnsCmd'[d].id, by |-> d] \in txt'
    <3>1. d # c
      BY <1>4, <2>2
    <3>2. /\ dnsCmd'[d] = dnsCmd[d] /\ Challenging(d)
          /\ [id |-> dnsCmd[d].id, by |-> d] \in txt
      BY <1>1, <1>4, <2>2, <3>1 DEF TxtIsSound, Challenging
    <3>3. dnsCmd[d].id # 0
      BY <1>1, <3>2
    <3>4. Challenging(c) => dnsCmd[d].id # dnsCmd[c].id
      BY <1>1, <3>1, <3>2, <3>3 DEF TxtIsSound
    <3> QED
      BY <1>2, <3>2, <3>4
  <2>3. \A d \in DnsCmds : Challenging(d)' => dnsCmd'[d].id < nextId'
    BY <1>1, <1>4, <1>5 DEF TxtIsSound
  <2>4. \A d, e \in DnsCmds :
            Challenging(d)' /\ Challenging(e)' /\ dnsCmd'[d].id = dnsCmd'[e].id =>
                d = e \/ dnsCmd'[d].id = 0
    BY <1>1, <1>4, <1>5 DEF TxtIsSound
  <2> QED
    BY <2>1, <2>2, <2>3, <2>4 DEF TxtIsSound
<1> QED
  BY <1>1, <1>4, <1>6, <1>7, ChallengeStepKeepsInv DEF DnsTypeOK

LEMMA DnsInvNext == DnsInv /\ [DnsNext]_dnsVars => DnsInv'
<1> SUFFICES ASSUME DnsInv, [DnsNext]_dnsVars
             PROVE  DnsInv'
  OBVIOUS
<1>1. ASSUME NEW c \in DnsCmds, DnsStep(c)
      PROVE  DnsInv'
  BY <1>1, ListKeepsInv, DeleteConflictKeepsInv, ListMoreKeepsInv, PatchKeepsInv,
     PostKeepsInv, ListForRemovalKeepsInv, DeleteCnameKeepsInv, DnsFailsKeepsInv,
     BeginChallengeKeepsInv, CreateTxtKeepsInv, ChallengeGoesOnKeepsInv,
     ChallengeEndKeepsInv DEF DnsStep
<1>2. ASSUME UNCHANGED <<zone, txt, nextId, dnsCmd, unsure, shared, served>>,
             known' \in [Resolvers -> SUBSET DnsCmds]
      PROVE  DnsInv'
  <2>1. DnsTypeOK' /\ StaysServed'
    BY <1>2 DEF DnsInv, DnsTypeOK, StaysServed
  <2>2. ZoneIsSound' /\ TxtIsSound'
    BY <1>2 DEF DnsInv, ZoneIsSound, TxtIsSound, Challenging
  <2>3. \A c \in DnsCmds : ZoneIsKnown(c)'
    BY <1>2 DEF DnsInv, ZoneIsKnown, Written
  <2> QED
    BY <2>1, <2>2, <2>3 DEF DnsInv
<1>3. ASSUME NEW r \in Resolvers, Refresh(r)
      PROVE  DnsInv'
  <2>1. {t.by : t \in txt} \subseteq DnsCmds
    BY DEF DnsInv, DnsTypeOK
  <2>2. known' \in [Resolvers -> SUBSET DnsCmds]
    BY <1>3, <2>1 DEF DnsInv, DnsTypeOK, Refresh
  <2> QED
    BY <1>2, <1>3, <2>2 DEF Refresh
<1>4. CASE UNCHANGED dnsVars
  BY <1>2, <1>4 DEF dnsVars, DnsInv, DnsTypeOK
<1> QED
  BY <1>1, <1>3, <1>4 DEF DnsNext


LEMMA DnsGoesTo ==
    ASSUME dnsCmd \in [DnsCmds -> DnsCommands], NEW c \in DnsCmds, NEW at, NEW id, NEW todo,
           DnsGoes(c, at, id, todo)
    PROVE  dnsCmd'[c].at = at
<1> DEFINE next == [dnsCmd[c] EXCEPT !.at = at, !.id = id, !.todo = todo]
<1>1. dnsCmd[c] \in DnsCommands
  OBVIOUS
<1>2. next.at = at
  BY <1>1 DEF DnsCommands
<1>3. dnsCmd' = [dnsCmd EXCEPT ![c] = next]
  BY DEF DnsGoes
<1> HIDE DEF next
<1> QED
  BY <1>2, <1>3

\* Only a step that sends the record reports an apply.
LEMMA AppliesBySending ==
    ASSUME DnsInv, NEW c \in DnsCmds, DnsStep(c), dnsCmd[c].kind = "apply",
           dnsCmd'[c].kind = "apply", dnsCmd'[c].at = "done"
    PROVE  Patch(c) \/ Post(c)
<1>1. /\ dnsCmd \in [DnsCmds -> DnsCommands] /\ dnsCmd[c] \in DnsCommands
      /\ ZoneIsKnown(c)
  BY CommandsHaveType DEF DnsInv
<1>2. dnsCmd[c].at \notin {"create", "wait", "validate", "clean", "delete"}
  BY <1>1 DEF ZoneIsKnown
<1>3. ASSUME NEW t \in DnsTargets, ListCnames(c, t) \/ ListAddresses(c, t)
      PROVE  FALSE
  <2>1. dnsCmd'[c].at \in {"clearA", "patch", "post"}
    <3> DEFINE apply == [dnsCmd[c] EXCEPT !.kind = "apply", !.content = t]
               address == [dnsCmd[c] EXCEPT !.kind = "address", !.content = t]
    <3>1. apply \in DnsCommands /\ address \in DnsCommands
      BY <1>1 DEF DnsCommands, DnsKinds
    <3>2. \/ dnsCmd' = [dnsCmd EXCEPT ![c] = [apply EXCEPT !.at = "clearA", !.todo = OfType("A")]]
          \/ dnsCmd' = [dnsCmd EXCEPT ![c] = [address EXCEPT !.at = "post"]]
          \/ \E i : \/ dnsCmd' = [dnsCmd EXCEPT ![c] = [apply EXCEPT !.at = "patch", !.id = i]]
                   \/ dnsCmd' = [dnsCmd EXCEPT ![c] = [address EXCEPT !.at = "patch", !.id = i]]
      BY <1>3 DEF ListCnames, ListAddresses
    <3> HIDE DEF apply, address
    <3>3. /\ [apply EXCEPT !.at = "clearA", !.todo = OfType("A")].at = "clearA"
          /\ [address EXCEPT !.at = "post"].at = "post"
      BY <3>1 DEF DnsCommands
    <3>4. ASSUME NEW i, \/ dnsCmd' = [dnsCmd EXCEPT ![c] = [apply EXCEPT !.at = "patch", !.id = i]]
                        \/ dnsCmd' = [dnsCmd EXCEPT ![c] = [address EXCEPT !.at = "patch", !.id = i]]
          PROVE  dnsCmd'[c].at = "patch"
      <4>1. /\ [apply EXCEPT !.at = "patch", !.id = i].at = "patch"
            /\ [address EXCEPT !.at = "patch", !.id = i].at = "patch"
        BY <3>1 DEF DnsCommands
      <4> QED
        BY <1>1, <3>4, <4>1
    <3> QED
      BY <1>1, <3>2, <3>3, <3>4
  <2> QED
    BY <2>1
<1>4. ASSUME NEW listed \in BOOLEAN, ListForRemoval(c, listed)
      PROVE  FALSE
  <2> DEFINE begun == [dnsCmd[c] EXCEPT !.kind = "remove"]
  <2>1. begun \in DnsCommands
    BY <1>1 DEF DnsCommands, DnsKinds
  <2>2. \/ dnsCmd' = [dnsCmd EXCEPT ![c] = [begun EXCEPT !.at = "none", !.todo = OfType("CNAME")]]
        \/ \E i : dnsCmd' = [dnsCmd EXCEPT ![c] = [begun EXCEPT !.at = "delete", !.id = i]]
    BY <1>4 DEF ListForRemoval
  <2> HIDE DEF begun
  <2>3. /\ [begun EXCEPT !.at = "none", !.todo = OfType("CNAME")].at = "none"
        /\ \A i : [begun EXCEPT !.at = "delete", !.id = i].at = "delete"
    BY <2>1 DEF DnsCommands
  <2> QED
    BY <1>1, <2>2, <2>3
<1>5. ASSUME BeginChallenge(c)
      PROVE  FALSE
  BY <1>1, <1>5 DEF BeginChallenge, DnsCommands
<1>6. ASSUME DeleteConflict(c) \/ ListMore(c) \/ DnsFails(c)
      PROVE  FALSE
  <2>1. \E at \in {"clearA", "clearAAAA", "post", "failed"} :
             \E id, todo : DnsGoes(c, at, id, todo)
    BY <1>6 DEF DeleteConflict, ListMore, DnsFails
  <2> QED
    BY <1>1, <2>1, DnsGoesTo
<1> QED
  BY <1>2, <1>3, <1>4, <1>5, <1>6
     DEF DnsStep, DeleteCname, CreateTxt, Resolved01, WaitTimesOut, Validate,
         RemoveChallenge, ChallengeDies

\* Whichever DNS commands meet, and wherever they end: a name stays served unless
\* it was to be removed or a command ended or overlapped while it replaced its
\* addresses, a challenge is up while it is validated and is cleared, and an
\* apply leaves one CNAME and nothing besides.
THEOREM DnsIsSafe == DnsSpec => DnsSafe
<1> DEFINE Leaves(c) ==
        (/\ dnsCmd[c].kind = "apply" /\ dnsCmd'[c].kind = "apply"
         /\ dnsCmd[c].at # "done" /\ dnsCmd'[c].at = "done")
        => \E i \in Ids : zone' = {[id |-> i, type |-> "CNAME", content |-> dnsCmd[c].content]}
<1>1. DnsInv => DnsTypeOK /\ StaysServed /\ ChallengeIsCleared /\ ChallengeStaysUp
  <2> SUFFICES ASSUME DnsInv
               PROVE  ChallengeIsCleared /\ ChallengeStaysUp
    BY DEF DnsInv
  <2>1. ChallengeIsCleared
    BY DEF DnsInv, TxtIsSound, Challenging, ChallengeIsCleared
  <2>2. ASSUME NEW c \in DnsCmds, dnsCmd[c].at = "validate"
        PROVE  \E t \in txt : t.by = c
    <3>1. [id |-> dnsCmd[c].id, by |-> c] \in txt
      BY <2>2 DEF DnsInv, TxtIsSound
    <3> QED
      BY <3>1
  <2> QED
    BY <2>1, <2>2 DEF ChallengeStaysUp
<1>2. ASSUME DnsInv, [DnsNext]_dnsVars, NEW c \in DnsCmds,
             dnsCmd[c].kind = "apply", dnsCmd[c].at # "done", dnsCmd'[c].at = "done",
             dnsCmd'[c].kind = "apply"
      PROVE  \E i \in Ids : zone' = {[id |-> i, type |-> "CNAME", content |-> dnsCmd[c].content]}
  <2>1. DnsTypeOK /\ ZoneIsSound /\ ZoneIsKnown(c) /\ TxtIsSound /\ dnsCmd[c] \in DnsCommands
    BY <1>2, CommandsHaveType DEF DnsInv
  <2>2. dnsCmd \in [DnsCmds -> DnsCommands]
    BY <2>1, CommandsHaveType
  <2>3. PICK d \in DnsCmds : DnsStep(d)
    BY <1>2 DEF DnsNext, dnsVars, Refresh
  <2>4. d = c
    <3>1. ASSUME d # c
          PROVE  dnsCmd'[c] = dnsCmd[c]
      BY <2>2, <2>3, <3>1
         DEF DnsStep, ListCnames, ListAddresses, DeleteConflict, ListMore, Patch, Post,
             ListForRemoval, DeleteCname, DnsFails, BeginChallenge, CreateTxt, Resolved01,
             WaitTimesOut, Validate, RemoveChallenge, ChallengeDies, DnsGoes
    <3> QED
      BY <1>2, <3>1
  <2>6. Patch(c) \/ Post(c)
    BY <1>2, <2>3, <2>4, AppliesBySending
  <2>7. Written(c) = "CNAME"
    BY <1>2 DEF Written
  <2>8. CASE Patch(c)
    <3> DEFINE old == {r \in zone : r.id = dnsCmd[c].id}
    <3>1. /\ zone' = (zone \ old) \cup {[r EXCEPT !.content = dnsCmd[c].content] : r \in old}
          /\ DnsGoes(c, IF old = {} THEN "failed" ELSE "done", 0, {})
          /\ dnsCmd[c].at = "patch"
      BY <2>8 DEF Patch
    <3>2. old # {}
      BY <1>2, <2>2, <3>1, DnsGoesTo
    <3>3. PICK r \in zone : r.id = dnsCmd[c].id
      BY <3>2
    <3>4. zone = {r} /\ r.type = "CNAME"
      BY <2>1, <2>7, <3>1, <3>3 DEF ZoneIsKnown, ZoneIsSound
    <3>5. zone' = {[r EXCEPT !.content = dnsCmd[c].content]}
      BY <3>1, <3>3, <3>4
    <3>6. r \in DnsRecord
      BY <2>1, <3>3 DEF DnsTypeOK
    <3>7. [r EXCEPT !.content = dnsCmd[c].content] =
            [id |-> r.id, type |-> "CNAME", content |-> dnsCmd[c].content] /\ r.id \in Ids
      BY <3>4, <3>6 DEF DnsRecord
    <3> QED
      BY <3>5, <3>7
  <2>9. CASE Post(c)
    <3>1. ~Refused(Written(c), dnsCmd[c].content)
      <4>1. ASSUME DnsGoes(c, "failed", 0, {})
            PROVE  FALSE
        BY <1>2, <2>2, <4>1, DnsGoesTo
      <4> QED
        BY <2>9, <4>1 DEF Post
    <3>2. zone = {}
      BY <2>7, <3>1 DEF Refused
    <3>3. /\ zone' = zone \cup {[id |-> nextId, type |-> Written(c),
                                 content |-> dnsCmd[c].content]}
          /\ nextId <= MaxRecords
      BY <2>9, <3>1 DEF Post
    <3>4. nextId \in Ids
      BY <2>1, <3>3, CommandsHaveType
    <3> QED
      BY <2>7, <3>2, <3>3, <3>4
  <2> QED
    BY <2>6, <2>8, <2>9
<1>3. DnsInv /\ [DnsNext]_dnsVars => [\A c \in DnsCmds : Leaves(c)]_dnsVars
  BY <1>2
<1> QED
  BY <1>1, <1>3, DnsInvInit, DnsInvNext, PTL DEF DnsSpec, DnsSafe, ApplyLeavesOne

(***************************************************************************)
(* The directory that deploys stage in                                     *)
(***************************************************************************)
\* Deploys that will not encrypt any more.
PastFill == {d \in Deploys : stager[d].place \in {"upload", "done", "failed"}}

\* Each key of a file was put there by another deploy.
KeysArePastFill(x) == \E S \in SUBSET PastFill : Cardinality(S) = Len(x.keys)

\* A new key is of the deploy that made it, and so is what it opens, unless
\* another deploy built in between.
FreshKeyIsOwn(x) ==
    \A d \in Deploys : \A i \in DOMAIN x.keys :
        stager[d].mode = "fresh" /\ x.keys[i] = d => stager[d].built \/ x.of = d

ContentIsSound(x) ==
    /\ x \in Contents
    /\ x.is = "code" => x.of \in Deploys
    /\ KeysArePastFill(x) /\ FreshKeyIsOwn(x)

\* What a deploy that encrypts keeps in the clear while it has to.
InTheClear(d, x) == x.is = "code" /\ x.of = d /\ x.keys = <<>>

Keyed(d) == [Own(d) EXCEPT !.keys = IF Encrypts(d) THEN <<CodeKey(d)>> ELSE <<>>]

\* What a deploy that was not disturbed finds where it is.
StageIsOwn(d) ==
    /\ stager[d].mode = "script" /\ stager[d].place \in {"copy", "upload"} =>
              /\ stager[d].place = "upload" => stager[d].left = {}
              /\ \A f \in StageFiles : stageDir[f] =
                    IF f \in stager[d].files \ stager[d].left THEN Own(d) ELSE Void
    /\ stager[d].mode # "script" =>
          /\ stager[d].place \in {"encrypt", "open"} => stageDir["bundle"] = Own(d)
          /\ stager[d].place \in {"open", "fill"} => stager[d].read = Own(d)
          /\ stager[d].place = "upload" => stageDir["bundle"] = Keyed(d)

UploadedOwn(d) ==
    job[d].files = [f \in StageFiles |->
        IF stager[d].mode = "script" /\ f \in stager[d].files THEN Own(d)
        ELSE IF stager[d].mode # "script" /\ f = "bundle" THEN Keyed(d)
        ELSE Void]

DeployIsSound(d) ==
    /\ stager[d].left \subseteq stager[d].files
    /\ stager[d].place = "wipe" => stager[d].left = stager[d].files
    /\ stager[d].place = "copy" => stager[d].mode = "script"
    /\ stager[d].place = "build" => stager[d].mode # "script"
    /\ stager[d].place \in {"encrypt", "open", "fill"} => Encrypts(d)
    /\ Encrypts(d) /\ InTheClear(d, stageDir["bundle"]) =>
          stager[d].place \in {"encrypt", "open", "failed"}
    /\ stager[d].place = "encrypt" /\ ~stager[d].built => stageDir["bundle"] = Own(d)
    /\ stager[d].place \in {"open", "fill"} /\ ~stager[d].built => stager[d].read.of = d
    /\ ~stager[d].touched => StageIsOwn(d)
    /\ job[d].state # "none" => stager[d].place = "done"
    /\ job[d].state # "none" /\ ~stager[d].touched => UploadedOwn(d)
    /\ Encrypts(d) => ~InTheClear(d, job[d].files["bundle"])
    /\ stager[d].mode = "fresh" /\ job[d].state = "runs" =>
          job[d].code = {d} \/ stager[d].built \/ job[d].files["bundle"].keys = <<>>

Stagers ==
    [mode : StageModes, files : SUBSET ScriptFiles, left : SUBSET ScriptFiles,
     place : StagePlaces, read : Contents, built : BOOLEAN, touched : BOOLEAN]

Jobs ==
    [state : {"none", "waits", "runs"}, keyed : BOOLEAN, files : [StageFiles -> Contents],
     code : SUBSET Deploys]

StageInv ==
    /\ stageDir \in [StageFiles -> Contents]
    /\ stager \in [Deploys -> Stagers] /\ job \in [Deploys -> Jobs]
    /\ \A f \in StageFiles : ContentIsSound(stageDir[f])
    /\ \A d \in Deploys :
          /\ ContentIsSound(stager[d].read)
          /\ \A f \in StageFiles : ContentIsSound(job[d].files[f])
          /\ DeployIsSound(d)

LEMMA NumbersOfStage ==
    /\ IsFiniteSet(Deploys) /\ Cardinality(Deploys) \in Nat
    /\ "given" \notin Deploys /\ "nobody" \notin Deploys
    /\ "bundle" \in StageFiles /\ "entry" \in StageFiles /\ "bundle" \notin ScriptFiles
  BY DeploysOK, FS_CardinalityType DEF StageFiles, ScriptFiles

LEMMA StageHasType ==
    ASSUME StageInv
    PROVE  /\ stageDir \in [StageFiles -> Contents] /\ stager \in [Deploys -> Stagers]
           /\ job \in [Deploys -> Jobs]
           /\ \A d \in Deploys : stager[d] \in Stagers /\ job[d] \in Jobs /\ DeployIsSound(d)
  BY DEF StageInv

\* Contents that the code itself makes up.
LEMMA PlainIsContent ==
    /\ Void \in Contents /\ [Void EXCEPT !.is = "torn"] \in Contents
    /\ [Void EXCEPT !.is = "torn"].is = "torn" /\ [Void EXCEPT !.is = "torn"].of = "nobody"
    /\ [Void EXCEPT !.is = "torn"].keys = <<>>
    /\ \A d \in Deploys : Own(d) \in Contents
<1>1. <<>> \in Seq(CodeKeys)
  OBVIOUS
<1> QED
  BY <1>1 DEF Void, Own, Contents

LEMMA PlainIsSound ==
    ASSUME NEW x \in Contents, x.keys = <<>>, x.is = "code" => x.of \in Deploys
    PROVE  ContentIsSound(x)
<1>1. Cardinality({}) = 0 /\ Len(x.keys) = 0
  BY FS_EmptySet
<1>2. KeysArePastFill(x)
  BY <1>1 DEF KeysArePastFill
<1>3. FreshKeyIsOwn(x)
  BY DEF FreshKeyIsOwn
<1> QED
  BY <1>2, <1>3 DEF ContentIsSound

\* A deploy that is past its keys stays so, and one that was disturbed too.
LEMMA ContentStaysSound ==
    ASSUME NEW x, ContentIsSound(x), PastFill \subseteq PastFill',
           \A d \in Deploys : /\ stager'[d].mode = stager[d].mode
                              /\ stager[d].built => stager'[d].built
    PROVE  ContentIsSound(x)'
<1>1. KeysArePastFill(x)'
  BY DEF ContentIsSound, KeysArePastFill
<1>2. FreshKeyIsOwn(x)'
  BY DEF ContentIsSound, FreshKeyIsOwn
<1> QED
  BY <1>1, <1>2 DEF ContentIsSound

LEMMA KeysAreBounded ==
    ASSUME NEW x, ContentIsSound(x)
    PROVE  Len(x.keys) <= Cardinality(Deploys)
<1>1. PICK S \in SUBSET PastFill : Cardinality(S) = Len(x.keys)
  BY DEF ContentIsSound, KeysArePastFill
<1>2. S \in SUBSET Deploys
  BY <1>1 DEF PastFill
<1> QED
  BY <1>1, <1>2, FS_Subset, NumbersOfStage

LEMMA StageInvInit == StageInit => StageInv
<1> SUFFICES ASSUME StageInit
             PROVE  StageInv
  OBVIOUS
<1>1. PICK mode \in [Deploys -> StageModes], files \in [Deploys -> {{"entry"}, ScriptFiles}] :
        /\ \A d \in Deploys : mode[d] # "script" => files[d] = {"entry"}
        /\ stager = [d \in Deploys |->
              [mode |-> mode[d], files |-> files[d], left |-> files[d], place |-> "wipe",
               read |-> Void, built |-> FALSE, touched |-> FALSE]]
  BY DEF StageInit
<1>2. /\ Void.is = "none" /\ Void.keys = <<>> /\ Void \in Contents
      /\ \A f \in StageFiles : NoFiles[f] = Void
      /\ NoFiles \in [StageFiles -> Contents]
  BY PlainIsContent DEF Void, NoFiles
<1>3. stager \in [Deploys -> Stagers]
  <2>1. ASSUME NEW d \in Deploys
        PROVE  files[d] \in SUBSET ScriptFiles
    BY DEF ScriptFiles
  <2> QED
    BY <1>1, <1>2, <2>1 DEF Stagers, StagePlaces
<1>4. job \in [Deploys -> Jobs]
  BY <1>2 DEF StageInit, Jobs
<1>5. ContentIsSound(Void)
  BY <1>2, PlainIsSound
<1>6. ASSUME NEW d \in Deploys
      PROVE  /\ ContentIsSound(stager[d].read) /\ DeployIsSound(d)
             /\ \A f \in StageFiles : ContentIsSound(job[d].files[f])
  <2>1. /\ stager[d].place = "wipe" /\ stager[d].left = stager[d].files
        /\ stager[d].read = Void
    BY <1>1
  <2>2. job[d].state = "none" /\ job[d].files = NoFiles
    BY DEF StageInit
  <2>3. stageDir = NoFiles /\ ~InTheClear(d, Void) /\ NoFiles["bundle"] = Void
    BY <1>2, NumbersOfStage DEF StageInit, InTheClear
  <2>4. DeployIsSound(d)
    BY <2>1, <2>2, <2>3 DEF DeployIsSound, StageIsOwn
  <2> QED
    BY <1>2, <1>5, <2>1, <2>2, <2>4
<1>7. stageDir \in [StageFiles -> Contents] /\ \A f \in StageFiles : ContentIsSound(stageDir[f])
  BY <1>2, <1>5 DEF StageInit
<1> QED
  BY <1>3, <1>4, <1>6, <1>7 DEF StageInv

(***************************************************************************)
(* Steps that write                                                        *)
(***************************************************************************)
LEMMA WritesOnly ==
    ASSUME StageInv, NEW d \in Deploys, NEW files \in [StageFiles -> Contents],
           NEW next \in Stagers, StageWrites(d, files, next)
    PROVE  /\ stageDir' = files /\ job' = job
           /\ stager' \in [Deploys -> Stagers] /\ stager'[d] = next
           /\ \A e \in Deploys \ {d} :
                 /\ stager'[e].mode = stager[e].mode /\ stager'[e].files = stager[e].files
                 /\ stager'[e].left = stager[e].left /\ stager'[e].place = stager[e].place
                 /\ stager'[e].read = stager[e].read
                 /\ stager'[e].built = (stager[e].built \/ BeforeRead(e))
                 /\ stager'[e].touched = (stager[e].touched \/ Staging(e))
<1> DEFINE other(e) == [stager[e] EXCEPT !.built = @ \/ BeforeRead(e), !.touched = @ \/ Staging(e)]
<1>1. /\ stageDir' = files /\ job' = job
      /\ stager' = [e \in Deploys |-> IF e = d THEN next ELSE other(e)]
  BY DEF StageWrites
<1>2. ASSUME NEW e \in Deploys
      PROVE  /\ other(e) \in Stagers
             /\ other(e).mode = stager[e].mode /\ other(e).files = stager[e].files
             /\ other(e).left = stager[e].left /\ other(e).place = stager[e].place
             /\ other(e).read = stager[e].read
             /\ other(e).built = (stager[e].built \/ BeforeRead(e))
             /\ other(e).touched = (stager[e].touched \/ Staging(e))
  <2>1. stager[e] \in Stagers /\ BeforeRead(e) \in BOOLEAN /\ Staging(e) \in BOOLEAN
    BY StageHasType DEF BeforeRead, Staging
  <2> QED
    BY <2>1 DEF Stagers
<1> HIDE DEF other
<1> QED
  BY <1>1, <1>2

\* Whoever was at the directory as well is disturbed; the others are done or
\* have not begun.
LEMMA WriteKeepsInv ==
    ASSUME StageInv, NEW d \in Deploys, NEW files \in [StageFiles -> Contents],
           NEW next \in Stagers, StageWrites(d, files, next),
           stager[d].place \notin {"upload", "done", "failed"},
           next.mode = stager[d].mode, next.read = stager[d].read, next.built = stager[d].built,
           \A f \in StageFiles : files[f] = stageDir[f] \/ ContentIsSound(files[f])',
           \A e \in Deploys \ {d} :
               InTheClear(e, files["bundle"]) => InTheClear(e, stageDir["bundle"]),
           DeployIsSound(d)'
    PROVE  StageInv'
<1>1. /\ stageDir' = files /\ job' = job
      /\ stager' \in [Deploys -> Stagers] /\ stager'[d] = next
      /\ \A e \in Deploys \ {d} :
            /\ stager'[e].mode = stager[e].mode /\ stager'[e].files = stager[e].files
            /\ stager'[e].left = stager[e].left /\ stager'[e].place = stager[e].place
            /\ stager'[e].read = stager[e].read
            /\ stager'[e].built = (stager[e].built \/ BeforeRead(e))
            /\ stager'[e].touched = (stager[e].touched \/ Staging(e))
  BY WritesOnly
<1>2. /\ PastFill \subseteq PastFill'
      /\ \A e \in Deploys : /\ stager'[e].mode = stager[e].mode
                            /\ stager[e].built => stager'[e].built
                            /\ stager'[e].read = stager[e].read
  BY <1>1 DEF PastFill
<1>3. \A f \in StageFiles : ContentIsSound(stageDir[f])'
  <2>1. ASSUME NEW f \in StageFiles
        PROVE  ContentIsSound(files[f])'
    <3>1. CASE files[f] = stageDir[f]
      <4>1. ContentIsSound(files[f])
        BY <3>1 DEF StageInv
      <4> QED
        BY <1>2, <4>1, ContentStaysSound
    <3>2. CASE ContentIsSound(files[f])'
      BY <3>2
    <3> QED
      BY <3>1, <3>2
  <2> QED
    BY <1>1, <2>1
<1>4. ASSUME NEW e \in Deploys
      PROVE  ContentIsSound(stager[e].read)'
  <2> DEFINE x == stager[e].read
  <2>1. PICK y : y = stager[e].read
    OBVIOUS
  <2>2. ContentIsSound(y)
    BY <2>1 DEF StageInv
  <2>3. ContentIsSound(y)'
    BY <1>2, <2>2, ContentStaysSound
  <2> QED
    BY <1>2, <2>1, <2>3
<1>5. ASSUME NEW e \in Deploys, NEW f \in StageFiles
      PROVE  ContentIsSound(job[e].files[f])'
  <2>1. PICK y : y = job[e].files[f]
    OBVIOUS
  <2>2. ContentIsSound(y)
    BY <2>1 DEF StageInv
  <2>3. ContentIsSound(y)'
    BY <1>2, <2>2, ContentStaysSound
  <2> QED
    BY <1>1, <2>1, <2>3
<1>6. ASSUME NEW e \in Deploys \ {d}
      PROVE  DeployIsSound(e)'
  <2>1. DeployIsSound(e) /\ stageDir' = files /\ job' = job
    BY <1>1 DEF StageInv
  <2>2. /\ stager'[e].mode = stager[e].mode /\ stager'[e].files = stager[e].files
        /\ stager'[e].left = stager[e].left /\ stager'[e].place = stager[e].place
        /\ stager'[e].read = stager[e].read
        /\ stager'[e].built = (stager[e].built \/ BeforeRead(e))
        /\ stager'[e].touched = (stager[e].touched \/ Staging(e))
    BY <1>1
  <2>3. Encrypts(e)' <=> Encrypts(e)
    BY <2>2 DEF Encrypts
  <2>4. ~stager'[e].touched =>
          /\ ~stager[e].touched
          /\ stager[e].place \in {"wipe", "done", "failed"}
    BY <2>2 DEF Staging
  <2>5. ~stager'[e].built => ~stager[e].built /\ stager[e].place # "encrypt"
    BY <2>2 DEF BeforeRead
  <2>6. ~stager'[e].touched => StageIsOwn(e)'
    BY <2>2, <2>4 DEF StageIsOwn
  <2>7. UploadedOwn(e) => UploadedOwn(e)'
    BY <2>1, <2>2 DEF UploadedOwn, Keyed, Encrypts, CodeKey
  <2>8. InTheClear(e, stageDir["bundle"])' => InTheClear(e, stageDir["bundle"])
    BY <2>1 DEF InTheClear
  <2>9. InTheClear(e, job[e].files["bundle"])' <=> InTheClear(e, job[e].files["bundle"])
    BY <2>1 DEF InTheClear
  <2> QED
    BY <2>1, <2>2, <2>3, <2>4, <2>5, <2>6, <2>7, <2>8, <2>9 DEF DeployIsSound
<1> QED
  BY <1>1, <1>3, <1>4, <1>5, <1>6 DEF StageInv

\* What every step of a deploy that is not past its keys may use.
LEMMA StagerHasType ==
    ASSUME StageInv, NEW d \in Deploys
    PROVE  /\ stager[d] \in Stagers /\ ContentIsSound(stager[d].read)
           /\ stager[d].mode \in StageModes /\ stager[d].place \in StagePlaces
           /\ stager[d].files \subseteq ScriptFiles /\ stager[d].left \subseteq ScriptFiles
           /\ stager[d].read \in Contents
           /\ stager[d].built \in BOOLEAN /\ stager[d].touched \in BOOLEAN
           /\ DeployIsSound(d)
<1>1. stager[d] \in Stagers
  BY DEF StageInv
<1>2. ContentIsSound(stager[d].read) /\ DeployIsSound(d)
  BY DEF StageInv
<1> QED
  BY <1>1, <1>2 DEF Stagers

\* A deploy that goes on from where it has no job.
LEMMA WriterIsSound ==
    ASSUME StageInv, NEW d \in Deploys, stager[d].place \notin {"upload", "done", "failed"},
           job' = job, stager'[d].mode = stager[d].mode,
           stager'[d].left \subseteq stager'[d].files, stager'[d].place # "wipe",
           stager'[d].place = "copy" => stager'[d].mode = "script",
           stager'[d].place = "build" => stager'[d].mode # "script",
           stager'[d].place \in {"encrypt", "open", "fill"} => Encrypts(d),
           Encrypts(d) /\ InTheClear(d, stageDir'["bundle"]) =>
               stager'[d].place \in {"encrypt", "open", "failed"},
           stager'[d].place = "encrypt" /\ ~stager'[d].built => stageDir'["bundle"] = Own(d),
           stager'[d].place \in {"open", "fill"} /\ ~stager'[d].built => stager'[d].read.of = d,
           ~stager'[d].touched => StageIsOwn(d)'
    PROVE  DeployIsSound(d)'
<1>1. DeployIsSound(d)
  BY StagerHasType
<1>2. job[d].state = "none" \/ stager[d].place = "done"
  BY <1>1 DEF DeployIsSound
<1>3. job[d].state = "none" /\ job'[d].state = "none" /\ job'[d].files = job[d].files
  BY <1>2
<1>4. Encrypts(d)' <=> Encrypts(d)
  BY DEF Encrypts
<1>5. InTheClear(d, stageDir["bundle"])' <=> InTheClear(d, stageDir'["bundle"])
  BY DEF InTheClear
<1>6. InTheClear(d, job[d].files["bundle"])' <=> InTheClear(d, job[d].files["bundle"])
  BY <1>3 DEF InTheClear
<1>7. Own(d)' = Own(d)
  BY DEF Own
<1>8. stager'[d].place = "encrypt" /\ ~stager'[d].built => stageDir'["bundle"] = Own(d)'
  BY <1>7
<1> QED
  BY <1>1, <1>3, <1>4, <1>5, <1>6, <1>8 DEF DeployIsSound

LEMMA VoidStaysSound == ContentIsSound(Void)' /\ ContentIsSound([Void EXCEPT !.is = "torn"])'
<1>1. /\ Void \in Contents /\ Void.is = "none" /\ Void.keys = <<>>
      /\ [Void EXCEPT !.is = "torn"] \in Contents /\ [Void EXCEPT !.is = "torn"].is = "torn"
      /\ [Void EXCEPT !.is = "torn"].keys = <<>>
  BY PlainIsContent DEF Void
<1>2. ASSUME NEW x \in Contents, x.keys = <<>>, x.is # "code"
      PROVE  ContentIsSound(x)'
  <2>1. Cardinality({}) = 0 /\ Len(x.keys) = 0
    BY <1>2, FS_EmptySet
  <2>2. KeysArePastFill(x)'
    BY <2>1 DEF KeysArePastFill
  <2>3. FreshKeyIsOwn(x)'
    BY <1>2 DEF FreshKeyIsOwn
  <2> QED
    BY <1>2, <2>2, <2>3 DEF ContentIsSound
<1>3. PICK v, t : v = Void /\ t = [Void EXCEPT !.is = "torn"]
  OBVIOUS
<1>4. ContentIsSound(v)' /\ ContentIsSound(t)'
  BY <1>1, <1>2, <1>3
<1> QED
  BY <1>3, <1>4 DEF Void

LEMMA StageWipeKeepsInv ==
    ASSUME StageInv, NEW d \in Deploys, WipeStage(d)
    PROVE  StageInv'
<1>1. PICK files, next :
        /\ files = IF stager[d].mode = "script" THEN NoFiles ELSE [stageDir EXCEPT !["bundle"] = Void]
        /\ next = AfterWipe(d) /\ stager[d].place = "wipe" /\ StageWrites(d, files, next)
  BY DEF WipeStage
<1>2. /\ Void \in Contents /\ Void.is = "none" /\ Void.keys = <<>>
      /\ \A f \in StageFiles : NoFiles[f] = Void
      /\ NoFiles \in [StageFiles -> Contents]
  BY PlainIsContent DEF Void, NoFiles
<1>3. /\ files \in [StageFiles -> Contents] /\ files["bundle"] = Void
      /\ \A f \in StageFiles : files[f] = Void \/ files[f] = stageDir[f]
      /\ stager[d].mode = "script" => \A f \in StageFiles : files[f] = Void
  BY <1>1, <1>2, StageHasType, NumbersOfStage
<1>4. /\ stager[d] \in Stagers /\ DeployIsSound(d)
  BY StagerHasType
<1>5. /\ next \in Stagers /\ next.mode = stager[d].mode /\ next.files = stager[d].files
      /\ next.left = stager[d].left /\ next.read = stager[d].read
      /\ next.built = stager[d].built /\ next.touched = stager[d].touched
      /\ next.place = IF stager[d].mode = "script" THEN "copy" ELSE "build"
  BY <1>1, <1>4 DEF AfterWipe, Stagers, StagePlaces
<1>6. stageDir' = files /\ job' = job /\ stager'[d] = next
  BY <1>1, <1>3, <1>5, WritesOnly
<1>7. stager'[d].left = stager'[d].files
  <2>1. stager[d].left = stager[d].files
    BY <1>1, <1>4 DEF DeployIsSound
  <2> QED
    BY <1>5, <1>6, <2>1
<1>8. ~stager'[d].touched => StageIsOwn(d)'
  <2>1. CASE next.mode = "script"
    <3>1. \A f \in StageFiles : stageDir'[f] = Void
      BY <1>3, <1>5, <1>6, <2>1
    <3>2. stager'[d].place = "copy" /\ stager'[d].left = stager'[d].files
      BY <1>5, <1>6, <1>7, <2>1
    <3>3. Void' = Void
      BY DEF Void
    <3> QED
      BY <1>6, <2>1, <3>1, <3>2, <3>3 DEF StageIsOwn
  <2>2. CASE next.mode # "script"
    BY <1>5, <1>6, <2>2 DEF StageIsOwn
  <2> QED
    BY <2>1, <2>2
<1>9. DeployIsSound(d)'
  <2>1. ~InTheClear(d, stageDir'["bundle"])
    BY <1>2, <1>3, <1>6 DEF InTheClear
  <2>2. stager'[d].left \subseteq stager'[d].files
    BY <1>4, <1>5, <1>6 DEF DeployIsSound
  <2>3. /\ stager[d].place \notin {"upload", "done", "failed"}
        /\ stager'[d].mode = stager[d].mode
        /\ \/ stager'[d].place = "copy" /\ stager'[d].mode = "script"
           \/ stager'[d].place = "build" /\ stager'[d].mode # "script"
    BY <1>1, <1>5, <1>6
  <2> QED
    BY <1>6, <1>8, <2>1, <2>2, <2>3, WriterIsSound
<1>10. \A f \in StageFiles : files[f] = stageDir[f] \/ ContentIsSound(files[f])'
  <2>1. PICK v : v = Void
    OBVIOUS
  <2>2. ContentIsSound(v)'
    BY <2>1, VoidStaysSound DEF Void
  <2> QED
    BY <1>3, <2>1, <2>2
<1>11. \A e \in Deploys \ {d} :
          InTheClear(e, files["bundle"]) => InTheClear(e, stageDir["bundle"])
  BY <1>2, <1>3 DEF InTheClear
<1>12. stager[d].place \notin {"upload", "done", "failed"}
  BY <1>1
<1> QED
  BY <1>1, <1>3, <1>5, <1>9, <1>10, <1>11, <1>12, WriteKeepsInv

LEMMA OwnStaysSound ==
    ASSUME NEW d \in Deploys
    PROVE  ContentIsSound(Own(d))'
<1>1. Own(d) \in Contents /\ Own(d).of = d /\ Own(d).keys = <<>>
  BY PlainIsContent DEF Own
<1>2. PICK v : v = Own(d)
  OBVIOUS
<1>3. ContentIsSound(v)'
  <2>1. Cardinality({}) = 0 /\ Len(v.keys) = 0
    BY <1>1, <1>2, FS_EmptySet
  <2>2. KeysArePastFill(v)'
    BY <2>1 DEF KeysArePastFill
  <2>3. FreshKeyIsOwn(v)'
    BY <1>1, <1>2 DEF FreshKeyIsOwn
  <2> QED
    BY <1>1, <1>2, <2>2, <2>3 DEF ContentIsSound
<1> QED
  BY <1>2, <1>3 DEF Own

LEMMA KeyedIsOwn ==
    ASSUME NEW d \in Deploys
    PROVE  /\ Own(d)' = Own(d) /\ Own(d).is = "code" /\ Own(d).of = d /\ Own(d).keys = <<>>
           /\ ~Encrypts(d) => Keyed(d) = Own(d)
           /\ Encrypts(d) => Keyed(d) = [Own(d) EXCEPT !.keys = <<CodeKey(d)>>]
  BY DEF Own, Keyed

LEMMA CopyKeepsInv ==
    ASSUME StageInv, NEW d \in Deploys, CopyFile(d)
    PROVE  StageInv'
<1>1. PICK f \in stager[d].left :
        StageWrites(d, [stageDir EXCEPT ![f] = Own(d)],
                 [stager[d] EXCEPT !.left = @ \ {f},
                                   !.place = IF stager[d].left = {f} THEN "upload" ELSE @])
  BY DEF CopyFile
<1>2. PICK files, next :
        /\ files = [stageDir EXCEPT ![f] = Own(d)]
        /\ next = [stager[d] EXCEPT !.left = @ \ {f},
                                   !.place = IF stager[d].left = {f} THEN "upload" ELSE @]
        /\ stager[d].place = "copy" /\ StageWrites(d, files, next)
  BY <1>1 DEF CopyFile
<1>3. /\ stager[d] \in Stagers /\ DeployIsSound(d) /\ f \in ScriptFiles /\ f \in StageFiles
      /\ f # "bundle" /\ stager[d].left \subseteq ScriptFiles
  BY <1>1, StagerHasType, NumbersOfStage DEF StageFiles
<1>4. stager[d].mode = "script" /\ ~Encrypts(d) /\ stager[d].left \subseteq stager[d].files
  BY <1>2, <1>3 DEF DeployIsSound, Encrypts
<1>5. /\ files \in [StageFiles -> Contents] /\ files["bundle"] = stageDir["bundle"]
      /\ files[f] = Own(d) /\ \A g \in StageFiles \ {f} : files[g] = stageDir[g]
  BY <1>2, <1>3, StageHasType, PlainIsContent, NumbersOfStage
<1>6. /\ next \in Stagers /\ next.mode = "script" /\ next.files = stager[d].files
      /\ next.left = stager[d].left \ {f} /\ next.read = stager[d].read
      /\ next.built = stager[d].built /\ next.touched = stager[d].touched
      /\ next.place = IF stager[d].left = {f} THEN "upload" ELSE "copy"
  <2>1. stager[d].left \ {f} \in SUBSET ScriptFiles
    BY <1>3
  <2> QED
    BY <1>2, <1>3, <1>4, <2>1 DEF Stagers, StagePlaces
<1>7. stageDir' = files /\ job' = job /\ stager'[d] = next
  <2>1. StageWrites(d, files, next)
    BY <1>2
  <2>2. files \in [StageFiles -> Contents] /\ next \in Stagers
    BY <1>5, <1>6
  <2> QED
    BY <2>1, <2>2, WritesOnly
<1>8. ~stager'[d].touched => StageIsOwn(d)'
  <2>1. SUFFICES ASSUME ~stager'[d].touched
                 PROVE  StageIsOwn(d)'
    OBVIOUS
  <2>2. StageIsOwn(d)
    BY <1>3, <1>6, <1>7, <2>1 DEF DeployIsSound
  <2>3. ASSUME NEW g \in StageFiles
        PROVE  stageDir[g] = IF g \in stager[d].files \ stager[d].left THEN Own(d) ELSE Void
    BY <1>2, <1>4, <2>2 DEF StageIsOwn
  <2>4. f \in stager[d].files
    BY <1>1, <1>4
  <2>5. ASSUME NEW g \in StageFiles
        PROVE  stageDir'[g] = IF g \in stager'[d].files \ stager'[d].left THEN Own(d) ELSE Void
    <3>1. CASE g = f
      BY <1>5, <1>6, <1>7, <2>4, <3>1
    <3>2. CASE g # f
      BY <1>5, <1>6, <1>7, <2>3, <3>2
    <3> QED
      BY <3>1, <3>2
  <2>6. Own(d)' = Own(d) /\ Void' = Void
    BY DEF Own, Void
  <2>7. stager'[d].place = "upload" => stager'[d].left = {}
    BY <1>6, <1>7
  <2> QED
    BY <1>6, <1>7, <2>5, <2>6, <2>7 DEF StageIsOwn
<1>9. DeployIsSound(d)'
  <2>1. stager'[d].left \subseteq stager'[d].files
    BY <1>4, <1>6, <1>7
  <2>2. /\ stager[d].place \notin {"upload", "done", "failed"}
        /\ stager'[d].mode = stager[d].mode /\ stager'[d].mode = "script"
        /\ stager'[d].place \in {"copy", "upload"}
    BY <1>2, <1>4, <1>6, <1>7
  <2> QED
    BY <1>4, <1>7, <1>8, <2>1, <2>2, WriterIsSound
<1>10. \A g \in StageFiles : files[g] = stageDir[g] \/ ContentIsSound(files[g])'
  <2>1. PICK v : v = Own(d)
    OBVIOUS
  <2>2. ContentIsSound(v)'
    BY <2>1, OwnStaysSound DEF Own
  <2> QED
    BY <1>5, <2>1, <2>2
<1>11. stager[d].place \notin {"upload", "done", "failed"}
  BY <1>2
<1> QED
  BY <1>2, <1>4, <1>5, <1>6, <1>9, <1>10, <1>11, WriteKeepsInv

LEMMA BuildKeepsInv ==
    ASSUME StageInv, NEW d \in Deploys, BuildOwn(d)
    PROVE  StageInv'
<1>1. PICK files, next :
        /\ files = [stageDir EXCEPT !["bundle"] = Own(d)]
        /\ next = [stager[d] EXCEPT !.place = IF Encrypts(d) THEN "encrypt" ELSE "upload"]
        /\ stager[d].place = "build" /\ StageWrites(d, files, next)
  BY DEF BuildOwn
<1>2. /\ stager[d] \in Stagers /\ DeployIsSound(d)
      /\ stager[d].mode # "script" /\ stager[d].left \subseteq stager[d].files
  <2>1. /\ stager[d] \in Stagers /\ DeployIsSound(d)
    BY StagerHasType
  <2> QED
    BY <1>1, <2>1 DEF DeployIsSound
<1>3. /\ files \in [StageFiles -> Contents] /\ files["bundle"] = Own(d)
      /\ \A g \in StageFiles \ {"bundle"} : files[g] = stageDir[g]
  BY <1>1, StageHasType, PlainIsContent, NumbersOfStage
<1>4. /\ next \in Stagers /\ next.mode = stager[d].mode /\ next.files = stager[d].files
      /\ next.left = stager[d].left /\ next.read = stager[d].read
      /\ next.built = stager[d].built /\ next.touched = stager[d].touched
      /\ next.place = IF Encrypts(d) THEN "encrypt" ELSE "upload"
  BY <1>1, <1>2 DEF Stagers, StagePlaces
<1>5. stageDir' = files /\ job' = job /\ stager'[d] = next
  <2>1. StageWrites(d, files, next)
    BY <1>1
  <2>2. files \in [StageFiles -> Contents] /\ next \in Stagers
    BY <1>3, <1>4
  <2> QED
    BY <2>1, <2>2, WritesOnly
<1>6. ~stager'[d].touched => StageIsOwn(d)'
  <2>1. Encrypts(d)' <=> Encrypts(d)
    BY <1>4, <1>5 DEF Encrypts
  <2>2. Own(d)' = Own(d) /\ stageDir'["bundle"] = Own(d)
    BY <1>3, <1>5, KeyedIsOwn
  <2>3. ~Encrypts(d) => Keyed(d)' = Own(d)
    BY <2>1 DEF Keyed, Own
  <2> QED
    BY <1>2, <1>4, <1>5, <2>2, <2>3 DEF StageIsOwn
<1>7. DeployIsSound(d)'
  <2>1. /\ stager[d].place \notin {"upload", "done", "failed"}
        /\ stager'[d].mode = stager[d].mode
        /\ stager'[d].left \subseteq stager'[d].files
        /\ stager'[d].place = IF Encrypts(d) THEN "encrypt" ELSE "upload"
        /\ stageDir'["bundle"] = Own(d)
    BY <1>1, <1>2, <1>3, <1>4, <1>5
  <2> QED
    BY <1>5, <1>6, <2>1, WriterIsSound
<1>8. \A g \in StageFiles : files[g] = stageDir[g] \/ ContentIsSound(files[g])'
  <2>1. PICK v : v = Own(d)
    OBVIOUS
  <2>2. ContentIsSound(v)'
    BY <2>1, OwnStaysSound DEF Own
  <2> QED
    BY <1>3, <2>1, <2>2
<1>9. \A e \in Deploys \ {d} :
         InTheClear(e, files["bundle"]) => InTheClear(e, stageDir["bundle"])
  BY <1>3, KeyedIsOwn DEF InTheClear
<1>10. stager[d].place \notin {"upload", "done", "failed"}
  BY <1>1
<1> QED
  BY <1>1, <1>3, <1>4, <1>7, <1>8, <1>9, <1>10, WriteKeepsInv

LEMMA OpenKeepsInv ==
    ASSUME StageInv, NEW d \in Deploys, OpenLoader(d)
    PROVE  StageInv'
<1>1. PICK files, next, torn :
        /\ torn = [Void EXCEPT !.is = "torn"]
        /\ files = [stageDir EXCEPT !["bundle"] = torn]
        /\ next = [stager[d] EXCEPT !.place = "fill"]
        /\ stager[d].place = "open" /\ StageWrites(d, files, next)
  BY DEF OpenLoader
<1>2. /\ stager[d] \in Stagers /\ DeployIsSound(d) /\ Encrypts(d) /\ stager[d].mode # "script"
      /\ stager[d].left \subseteq stager[d].files
      /\ ~stager[d].built => stager[d].read.of = d
  <2>1. /\ stager[d] \in Stagers /\ DeployIsSound(d)
    BY StagerHasType
  <2>2. Encrypts(d)
    BY <1>1, <2>1 DEF DeployIsSound
  <2>3. stager[d].mode # "script"
    BY <2>2 DEF Encrypts
  <2> QED
    BY <1>1, <2>1, <2>2, <2>3 DEF DeployIsSound
<1>3. torn \in Contents /\ torn.is = "torn"
  BY <1>1, PlainIsContent
<1>4. /\ files \in [StageFiles -> Contents] /\ files["bundle"] = torn
      /\ \A g \in StageFiles \ {"bundle"} : files[g] = stageDir[g]
  BY <1>1, <1>3, StageHasType, NumbersOfStage
<1>5. /\ next \in Stagers /\ next.mode = stager[d].mode /\ next.files = stager[d].files
      /\ next.left = stager[d].left /\ next.read = stager[d].read
      /\ next.built = stager[d].built /\ next.touched = stager[d].touched
      /\ next.place = "fill"
  BY <1>1, <1>2 DEF Stagers, StagePlaces
<1>6. stageDir' = files /\ job' = job /\ stager'[d] = next
  <2>1. StageWrites(d, files, next)
    BY <1>1
  <2>2. files \in [StageFiles -> Contents] /\ next \in Stagers
    BY <1>4, <1>5
  <2> QED
    BY <2>1, <2>2, WritesOnly
<1>7. ~stager'[d].touched => StageIsOwn(d)'
  <2>1. ~stager[d].touched => stager[d].read = Own(d)
    BY <1>1, <1>2 DEF DeployIsSound, StageIsOwn
  <2> QED
    BY <1>2, <1>5, <1>6, <2>1, KeyedIsOwn DEF StageIsOwn
<1>8. DeployIsSound(d)'
  <2>1. ~InTheClear(d, stageDir'["bundle"])
    BY <1>3, <1>4, <1>6 DEF InTheClear
  <2>2. /\ stager[d].place \notin {"upload", "done", "failed"}
        /\ stager'[d].mode = stager[d].mode
        /\ stager'[d].left \subseteq stager'[d].files
        /\ stager'[d].place = "fill"
        /\ ~stager'[d].built => stager'[d].read.of = d
    BY <1>1, <1>2, <1>5, <1>6
  <2> QED
    BY <1>2, <1>6, <1>7, <2>1, <2>2, WriterIsSound
<1>9. \A g \in StageFiles : files[g] = stageDir[g] \/ ContentIsSound(files[g])'
  <2>1. ContentIsSound(torn)'
    BY <1>1, VoidStaysSound DEF Void
  <2> QED
    BY <1>4, <2>1
<1>10. \A e \in Deploys \ {d} :
         InTheClear(e, files["bundle"]) => InTheClear(e, stageDir["bundle"])
  BY <1>3, <1>4 DEF InTheClear
<1>11. stager[d].place \notin {"upload", "done", "failed"}
  BY <1>1
<1> QED
  BY <1>1, <1>4, <1>5, <1>8, <1>9, <1>10, <1>11, WriteKeepsInv

\* The loader has one more key, of a deploy that will not encrypt again.
LEMMA LoaderIsSound ==
    ASSUME StageInv, NEW d \in Deploys, stager[d].place = "fill",
           PastFill' = PastFill \cup {d},
           \A e \in Deploys : /\ stager'[e].mode = stager[e].mode
                              /\ stager[e].built => stager'[e].built
    PROVE  \A v : v = Loader(d) => v \in Contents /\ v.keys # <<>> /\ ContentIsSound(v)'
<1>1. /\ DeployIsSound(d) /\ Encrypts(d) /\ ContentIsSound(stager[d].read)
      /\ stager[d].read \in Contents /\ (~stager[d].built => stager[d].read.of = d)
  <2>1. DeployIsSound(d) /\ ContentIsSound(stager[d].read) /\ stager[d].read \in Contents
    BY StagerHasType
  <2> QED
    BY <2>1 DEF DeployIsSound
<1>2. PICK r, k : r = stager[d].read /\ k = CodeKey(d)
  OBVIOUS
<1>3. k \in CodeKeys /\ (k \in Deploys => k = d)
  BY <1>1, <1>2, NumbersOfStage DEF CodeKey, CodeKeys, Encrypts
<1>4. r \in Contents /\ r.keys \in Seq(CodeKeys)
  BY <1>1, <1>2 DEF Contents
<1>5. PICK keys : keys = Append(r.keys, k)
  OBVIOUS
<1>6. /\ keys \in Seq(CodeKeys) /\ Len(keys) = Len(r.keys) + 1 /\ keys # <<>>
      /\ Len(r.keys) \in Nat
      /\ \A i \in DOMAIN keys : (i \in DOMAIN r.keys /\ keys[i] = r.keys[i]) \/ keys[i] = k
  BY <1>3, <1>4, <1>5
<1>7. SUFFICES ASSUME NEW v, v = [r EXCEPT !.keys = keys]
               PROVE  v \in Contents /\ v.keys # <<>> /\ ContentIsSound(v)'
  BY <1>2, <1>5 DEF Loader
<1>8. /\ v \in Contents /\ v.keys = keys /\ v.of = r.of /\ v.is = r.is
  BY <1>4, <1>6, <1>7 DEF Contents
<1>9. KeysArePastFill(v)'
  <2>1. PICK S \in SUBSET PastFill : Cardinality(S) = Len(r.keys)
    BY <1>1, <1>2 DEF ContentIsSound, KeysArePastFill
  <2>2. d \notin PastFill /\ PastFill \subseteq Deploys
    BY DEF PastFill
  <2>3. IsFiniteSet(S) /\ d \notin S
    <3>1. S \in SUBSET Deploys /\ d \notin S
      BY <2>1, <2>2
    <3> QED
      BY <3>1, NumbersOfStage, FS_Subset
  <2>4. Cardinality(S \cup {d}) = Len(v.keys)
    <3>1. Cardinality(S \cup {d}) = Cardinality(S) + 1
      BY <2>3, FS_AddElement
    <3>2. Len(v.keys) = Len(r.keys) + 1
      BY <1>6, <1>8
    <3> QED
      BY <2>1, <3>1, <3>2
  <2>5. S \cup {d} \in SUBSET PastFill'
    BY <2>1
  <2> QED
    BY <2>4, <2>5 DEF KeysArePastFill
<1>10. FreshKeyIsOwn(v)'
  <2>1. ASSUME NEW e \in Deploys, NEW i \in DOMAIN v.keys,
               stager'[e].mode = "fresh", v.keys[i] = e
        PROVE  stager'[e].built \/ v.of = e
    <3>1. CASE i \in DOMAIN r.keys /\ keys[i] = r.keys[i]
      <4>1. FreshKeyIsOwn(r)
        BY <1>1, <1>2 DEF ContentIsSound
      <4>2. stager[e].mode = "fresh" /\ r.keys[i] = e
        BY <1>8, <2>1, <3>1
      <4>3. stager[e].built \/ r.of = e
        BY <3>1, <4>1, <4>2 DEF FreshKeyIsOwn
      <4> QED
        BY <1>8, <4>3
    <3>2. CASE keys[i] = k
      <4>1. e = d
        BY <1>3, <1>8, <2>1, <3>2
      <4> QED
        BY <1>1, <1>2, <1>8, <4>1
    <3> QED
      BY <1>6, <1>8, <3>1, <3>2
  <2> QED
    BY <2>1 DEF FreshKeyIsOwn
<1>11. v.is = "code" => v.of \in Deploys
  BY <1>1, <1>2, <1>8 DEF ContentIsSound
<1> QED
  BY <1>6, <1>8, <1>9, <1>10, <1>11 DEF ContentIsSound

LEMMA FillKeepsInv ==
    ASSUME StageInv, NEW d \in Deploys, FillLoader(d)
    PROVE  StageInv'
<1>1. PICK files, next, loader :
        /\ loader = Loader(d)
        /\ files = [stageDir EXCEPT !["bundle"] = loader]
        /\ next = [stager[d] EXCEPT !.place = "upload"]
        /\ stager[d].place = "fill" /\ StageWrites(d, files, next)
  BY DEF FillLoader
<1>2. /\ stager[d] \in Stagers /\ DeployIsSound(d) /\ Encrypts(d) /\ stager[d].mode # "script"
      /\ stager[d].left \subseteq stager[d].files /\ stager[d].read \in Contents
  <2>1. /\ stager[d] \in Stagers /\ DeployIsSound(d) /\ stager[d].read \in Contents
    BY StagerHasType
  <2>2. Encrypts(d)
    BY <1>1, <2>1 DEF DeployIsSound
  <2>3. stager[d].mode # "script"
    BY <2>2 DEF Encrypts
  <2> QED
    BY <1>1, <2>1, <2>2, <2>3 DEF DeployIsSound
<1>3. loader \in Contents
  <2>1. CodeKey(d) \in CodeKeys /\ stager[d].read.keys \in Seq(CodeKeys)
    BY <1>2 DEF CodeKey, CodeKeys, Contents
  <2>2. Append(stager[d].read.keys, CodeKey(d)) \in Seq(CodeKeys)
    BY <2>1
  <2> QED
    BY <1>1, <1>2, <2>2 DEF Loader, Contents
<1>4. /\ files \in [StageFiles -> Contents] /\ files["bundle"] = loader
      /\ \A g \in StageFiles \ {"bundle"} : files[g] = stageDir[g]
  BY <1>1, <1>3, StageHasType, NumbersOfStage
<1>5. /\ next \in Stagers /\ next.mode = stager[d].mode /\ next.files = stager[d].files
      /\ next.left = stager[d].left /\ next.read = stager[d].read
      /\ next.built = stager[d].built /\ next.touched = stager[d].touched
      /\ next.place = "upload"
  <2>1. next = [stager[d] EXCEPT !.place = "upload"]
    BY <1>1
  <2> QED
    BY <1>2, <2>1 DEF Stagers, StagePlaces
<1>6. /\ stageDir' = files /\ job' = job /\ stager'[d] = next
      /\ \A e \in Deploys \ {d} :
            /\ stager'[e].mode = stager[e].mode /\ stager'[e].place = stager[e].place
            /\ stager'[e].built = (stager[e].built \/ BeforeRead(e))
  <2>1. StageWrites(d, files, next)
    BY <1>1
  <2> QED
    BY <1>4, <1>5, <2>1, WritesOnly
<1>7. loader.keys # <<>> /\ ContentIsSound(loader)'
  <2>1. PastFill' = PastFill \cup {d}
    BY <1>5, <1>6 DEF PastFill
  <2>2. \A e \in Deploys : /\ stager'[e].mode = stager[e].mode
                           /\ stager[e].built => stager'[e].built
    BY <1>5, <1>6
  <2> QED
    BY <1>1, <2>1, <2>2, LoaderIsSound
<1>8. ~stager'[d].touched => StageIsOwn(d)'
  <2>1. SUFFICES ASSUME ~stager'[d].touched
                 PROVE  StageIsOwn(d)'
    OBVIOUS
  <2>2. stager[d].read = Own(d)
    BY <1>1, <1>2, <1>5, <1>6, <2>1 DEF DeployIsSound, StageIsOwn
  <2>3. loader = [Own(d) EXCEPT !.keys = <<CodeKey(d)>>]
    BY <1>1, <2>2 DEF Loader, Own
  <2>4. stageDir'["bundle"] = Keyed(d)
    BY <1>2, <1>4, <1>6, <2>3 DEF Keyed
  <2>5. Keyed(d)' = Keyed(d)
    BY <1>5, <1>6 DEF Keyed, Encrypts, CodeKey, Own
  <2> QED
    BY <1>2, <1>5, <1>6, <2>4, <2>5 DEF StageIsOwn
<1>9. DeployIsSound(d)'
  <2>1. ~InTheClear(d, stageDir'["bundle"])
    BY <1>4, <1>6, <1>7 DEF InTheClear
  <2>2. /\ stager[d].place \notin {"upload", "done", "failed"}
        /\ stager'[d].mode = stager[d].mode
        /\ stager'[d].left \subseteq stager'[d].files
        /\ stager'[d].place = "upload"
    BY <1>1, <1>2, <1>5, <1>6
  <2> QED
    BY <1>2, <1>6, <1>8, <2>1, <2>2, WriterIsSound
<1>10. \A g \in StageFiles : files[g] = stageDir[g] \/ ContentIsSound(files[g])'
  BY <1>4, <1>7
<1>11. \A e \in Deploys \ {d} :
         InTheClear(e, files["bundle"]) => InTheClear(e, stageDir["bundle"])
  BY <1>4, <1>7 DEF InTheClear
<1>12. stager[d].place \notin {"upload", "done", "failed"} /\ StageWrites(d, files, next)
  BY <1>1
<1> QED
  BY <1>4, <1>5, <1>9, <1>10, <1>11, <1>12, WriteKeepsInv

(***************************************************************************)
(* Steps that do not write to the directory                                *)
(***************************************************************************)
\* Only d goes on, and nobody finds another file than before.
LEMMA StageMoveKeepsInv ==
    ASSUME StageInv, NEW d \in Deploys, NEW next \in Stagers, NEW now \in Jobs,
           stageDir' = stageDir, stager' = [stager EXCEPT ![d] = next],
           job' = [job EXCEPT ![d] = now],
           next.mode = stager[d].mode, next.built = stager[d].built,
           stager[d].place \in {"upload", "done", "failed"} =>
               next.place \in {"upload", "done", "failed"},
           ContentIsSound(next.read), \A f \in StageFiles : ContentIsSound(now.files[f]),
           DeployIsSound(d)'
    PROVE  StageInv'
<1>1. /\ stager' \in [Deploys -> Stagers] /\ stager'[d] = next
      /\ job' \in [Deploys -> Jobs] /\ job'[d] = now
      /\ \A e \in Deploys \ {d} : stager'[e] = stager[e] /\ job'[e] = job[e]
  BY StageHasType
<1>2. /\ PastFill \subseteq PastFill'
      /\ \A e \in Deploys : /\ stager'[e].mode = stager[e].mode
                            /\ stager[e].built => stager'[e].built
  <2>1. ASSUME NEW e \in PastFill
        PROVE  e \in PastFill'
    <3>1. e \in Deploys /\ stager[e].place \in {"upload", "done", "failed"}
      BY DEF PastFill
    <3>2. CASE e = d
      BY <1>1, <3>1, <3>2 DEF PastFill
    <3>3. CASE e # d
      BY <1>1, <3>1, <3>3 DEF PastFill
    <3> QED
      BY <3>2, <3>3
  <2> QED
    BY <1>1, <2>1
<1>3. ASSUME NEW x, ContentIsSound(x)
      PROVE  ContentIsSound(x)'
  BY <1>2, <1>3, ContentStaysSound
<1>4. ASSUME NEW f \in StageFiles
      PROVE  ContentIsSound(stageDir[f])'
  <2>1. PICK y : y = stageDir[f]
    OBVIOUS
  <2>2. ContentIsSound(y)
    BY <2>1 DEF StageInv
  <2> QED
    BY <1>3, <2>1, <2>2
<1>5. ASSUME NEW e \in Deploys
      PROVE  ContentIsSound(stager[e].read)'
  <2>1. PICK y : y = stager'[e].read
    OBVIOUS
  <2>2. ContentIsSound(y)
    <3>1. CASE e = d
      BY <1>1, <2>1, <3>1
    <3>2. CASE e # d
      <4>1. ContentIsSound(stager[e].read)
        BY DEF StageInv
      <4> QED
        BY <1>1, <2>1, <3>2, <4>1
    <3> QED
      BY <3>1, <3>2
  <2> QED
    BY <1>3, <2>1, <2>2
<1>6. ASSUME NEW e \in Deploys, NEW f \in StageFiles
      PROVE  ContentIsSound(job[e].files[f])'
  <2>1. PICK y : y = job'[e].files[f]
    OBVIOUS
  <2>2. ContentIsSound(y)
    <3>1. CASE e = d
      BY <1>1, <2>1, <3>1
    <3>2. CASE e # d
      <4>1. ContentIsSound(job[e].files[f])
        BY DEF StageInv
      <4> QED
        BY <1>1, <2>1, <3>2, <4>1
    <3> QED
      BY <3>1, <3>2
  <2> QED
    BY <1>3, <2>1, <2>2
<1>7. ASSUME NEW e \in Deploys \ {d}
      PROVE  DeployIsSound(e)'
  <2>1. /\ DeployIsSound(e)
        /\ stager'[e] = stager[e] /\ job'[e] = job[e]
    BY <1>1 DEF StageInv
  <2>2. /\ Encrypts(e)' <=> Encrypts(e)
        /\ InTheClear(e, stageDir["bundle"])' <=> InTheClear(e, stageDir["bundle"])
        /\ InTheClear(e, job[e].files["bundle"])' <=> InTheClear(e, job[e].files["bundle"])
        /\ Own(e)' = Own(e)
    BY <2>1 DEF Encrypts, InTheClear, Own
  <2>3. Keyed(e)' = Keyed(e)
    BY <2>1, <2>2 DEF Keyed, Encrypts, CodeKey, Own
  <2>4. StageIsOwn(e)' <=> StageIsOwn(e)
    BY <2>1, <2>2, <2>3 DEF StageIsOwn, Void
  <2>5. UploadedOwn(e)' <=> UploadedOwn(e)
    BY <2>1, <2>2, <2>3 DEF UploadedOwn, Void
  <2> QED
    BY <2>1, <2>2, <2>4, <2>5 DEF DeployIsSound
<1> QED
  BY <1>1, <1>4, <1>5, <1>6, <1>7, StageHasType DEF StageInv

LEMMA JobIsSound ==
    ASSUME StageInv, NEW d \in Deploys
    PROVE  job[d] \in Jobs /\ \A f \in StageFiles : ContentIsSound(job[d].files[f])
<1>1. job[d] \in Jobs
  BY StageHasType
<1>2. \A f \in StageFiles : ContentIsSound(job[d].files[f])
  BY DEF StageInv
<1> QED
  BY <1>1, <1>2

LEMMA ReadKeepsInv ==
    ASSUME StageInv, NEW d \in Deploys, ReadBundle(d)
    PROVE  StageInv'
<1>1. PICK next :
        /\ next = [stager[d] EXCEPT !.read = stageDir["bundle"], !.place = "open"]
        /\ stager[d].place = "encrypt"
        /\ stager' = [stager EXCEPT ![d].read = stageDir["bundle"], ![d].place = "open"]
        /\ stageDir' = stageDir /\ job' = job
  BY DEF ReadBundle
<1>2. /\ stager[d] \in Stagers /\ DeployIsSound(d)
      /\ stageDir["bundle"] \in Contents /\ ContentIsSound(stageDir["bundle"])
  BY StagerHasType, NumbersOfStage DEF StageInv
<1>3. /\ Encrypts(d) /\ stager[d].left \subseteq stager[d].files
      /\ ~stager[d].built => stageDir["bundle"] = Own(d)
      /\ ~stager[d].touched => StageIsOwn(d)
  BY <1>1, <1>2 DEF DeployIsSound
<1>4. /\ next \in Stagers /\ next.mode = stager[d].mode /\ next.files = stager[d].files
      /\ next.left = stager[d].left /\ next.read = stageDir["bundle"]
      /\ next.built = stager[d].built /\ next.touched = stager[d].touched
      /\ next.place = "open"
  <2>1. next = [stager[d] EXCEPT !.read = stageDir["bundle"], !.place = "open"]
    BY <1>1
  <2> QED
    BY <1>2, <2>1 DEF Stagers, StagePlaces
<1>5. stager' = [stager EXCEPT ![d] = next] /\ stager'[d] = next
  <2>1. stager' = [stager EXCEPT ![d] = next]
    BY <1>1, StageHasType
  <2> QED
    BY <2>1, StageHasType
<1>6. job' = [job EXCEPT ![d] = job[d]]
  BY <1>1, StageHasType
<1>7. DeployIsSound(d)'
  <2>1. ~stager'[d].touched => StageIsOwn(d)'
    <3>1. SUFFICES ASSUME ~stager'[d].touched
                   PROVE  StageIsOwn(d)'
      OBVIOUS
    <3>2. stager[d].mode # "script" /\ stageDir["bundle"] = Own(d)
      BY <1>1, <1>3, <1>4, <1>5, <3>1 DEF StageIsOwn, Encrypts
    <3> QED
      BY <1>1, <1>4, <1>5, <3>2, KeyedIsOwn DEF StageIsOwn
  <2>2. /\ stager[d].place \notin {"upload", "done", "failed"}
        /\ stager'[d].mode = stager[d].mode
        /\ stager'[d].left \subseteq stager'[d].files
        /\ stager'[d].place = "open" /\ stageDir' = stageDir
    BY <1>1, <1>3, <1>4, <1>5
  <2>3. ~stager'[d].built => stager'[d].read.of = d
    BY <1>3, <1>4, <1>5, KeyedIsOwn
  <2>4. InTheClear(d, stageDir'["bundle"]) => InTheClear(d, stageDir["bundle"])
    BY <2>2
  <2> QED
    BY <1>1, <1>3, <2>1, <2>2, <2>3, <2>4, WriterIsSound
<1>8. stager[d].place \notin {"upload", "done", "failed"} /\ stageDir' = stageDir
  BY <1>1
<1> QED
  BY <1>2, <1>4, <1>5, <1>6, <1>7, <1>8, JobIsSound, StageMoveKeepsInv

LEMMA StageUploadKeepsInv ==
    ASSUME StageInv, NEW d \in Deploys, UploadStage(d)
    PROVE  StageInv'
<1>1. PICK files, next, now :
        /\ files = IF stager[d].mode = "script" THEN stageDir
                   ELSE [NoFiles EXCEPT !["bundle"] = stageDir["bundle"]]
        /\ next = [stager[d] EXCEPT !.place = "done"]
        /\ now = [job[d] EXCEPT !.state = "waits", !.files = files]
        /\ stager[d].place = "upload"
        /\ stager' = [stager EXCEPT ![d].place = "done"]
        /\ job' = [job EXCEPT ![d].state = "waits", ![d].files = files]
        /\ stageDir' = stageDir
  BY DEF UploadStage
<1>2. /\ stager[d] \in Stagers /\ DeployIsSound(d) /\ ContentIsSound(stager[d].read)
      /\ job[d] \in Jobs /\ stageDir \in [StageFiles -> Contents]
      /\ \A f \in StageFiles : ContentIsSound(stageDir[f])
  BY StagerHasType, JobIsSound DEF StageInv
<1>3. /\ Void \in Contents /\ ContentIsSound(Void)
      /\ \A f \in StageFiles : NoFiles[f] = Void
      /\ NoFiles \in [StageFiles -> Contents]
  BY PlainIsContent, PlainIsSound DEF Void, NoFiles
<1>4. /\ files \in [StageFiles -> Contents] /\ files["bundle"] = stageDir["bundle"]
      /\ stager[d].mode = "script" => files = stageDir
      /\ stager[d].mode # "script" => \A f \in StageFiles \ {"bundle"} : files[f] = Void
  BY <1>1, <1>2, <1>3, NumbersOfStage
<1>5. /\ next \in Stagers /\ next.mode = stager[d].mode /\ next.files = stager[d].files
      /\ next.left = stager[d].left /\ next.read = stager[d].read
      /\ next.built = stager[d].built /\ next.touched = stager[d].touched
      /\ next.place = "done"
  <2>1. next = [stager[d] EXCEPT !.place = "done"]
    BY <1>1
  <2> QED
    BY <1>2, <2>1 DEF Stagers, StagePlaces
<1>6. /\ now \in Jobs /\ now.files = files /\ now.state = "waits"
  <2>1. now = [job[d] EXCEPT !.state = "waits", !.files = files]
    BY <1>1
  <2> QED
    BY <1>2, <1>4, <2>1 DEF Jobs
<1>7. stager' = [stager EXCEPT ![d] = next] /\ stager'[d] = next
  <2>1. stager' = [stager EXCEPT ![d] = next]
    BY <1>1, StageHasType
  <2> QED
    BY <2>1, StageHasType
<1>8. job' = [job EXCEPT ![d] = now] /\ job'[d] = now
  <2>1. job' = [job EXCEPT ![d] = now]
    BY <1>1, StageHasType
  <2> QED
    BY <2>1, StageHasType
<1>9. \A f \in StageFiles : ContentIsSound(files[f])
  <2>1. CASE stager[d].mode = "script"
    BY <1>2, <1>4, <2>1
  <2>2. CASE stager[d].mode # "script"
    <3>1. ASSUME NEW f \in StageFiles
          PROVE  files[f] = Void \/ files[f] = stageDir[f]
      BY <1>4, <2>2
    <3>2. PICK v : v = Void
      OBVIOUS
    <3>3. ContentIsSound(v)
      BY <1>3, <3>2
    <3> QED
      BY <1>2, <3>1, <3>2, <3>3
  <2> QED
    BY <2>1, <2>2
<1>10. /\ Encrypts(d)' <=> Encrypts(d)
       /\ InTheClear(d, stageDir["bundle"])' <=> InTheClear(d, stageDir["bundle"])
       /\ Own(d)' = Own(d) /\ Keyed(d)' = Keyed(d)
  <2>1. stager'[d].mode = stager[d].mode
    BY <1>5, <1>7
  <2> QED
    BY <1>1, <2>1 DEF Encrypts, InTheClear, Own, Keyed, CodeKey
<1>11. ~(Encrypts(d) /\ InTheClear(d, stageDir["bundle"]))
  BY <1>1, <1>2 DEF DeployIsSound
<1>12. ~stager'[d].touched => UploadedOwn(d)'
  <2>1. SUFFICES ASSUME ~stager'[d].touched
                 PROVE  UploadedOwn(d)'
    OBVIOUS
  <2>2. StageIsOwn(d)
    BY <1>2, <1>5, <1>7, <2>1 DEF DeployIsSound
  <2>3. ASSUME NEW f \in StageFiles
        PROVE  files[f] = IF stager[d].mode = "script" /\ f \in stager[d].files THEN Own(d)
                          ELSE IF stager[d].mode # "script" /\ f = "bundle" THEN Keyed(d)
                          ELSE Void
    <3>1. CASE stager[d].mode = "script"
      BY <1>1, <1>4, <2>2, <3>1 DEF StageIsOwn
    <3>2. CASE stager[d].mode # "script"
      BY <1>1, <1>4, <2>2, <3>2 DEF StageIsOwn
    <3> QED
      BY <3>1, <3>2
  <2>4. files = [f \in StageFiles |->
                    IF stager[d].mode = "script" /\ f \in stager[d].files THEN Own(d)
                    ELSE IF stager[d].mode # "script" /\ f = "bundle" THEN Keyed(d)
                    ELSE Void]
    BY <1>4, <2>3
  <2> QED
    BY <1>5, <1>6, <1>7, <1>8, <1>10, <2>4 DEF UploadedOwn, Void
<1>13. DeployIsSound(d)'
  <2>1. /\ stager'[d].left \subseteq stager'[d].files
        /\ stager'[d].place = "done" /\ job'[d].state = "waits"
    BY <1>2, <1>5, <1>6, <1>7, <1>8 DEF DeployIsSound
  <2>2. Encrypts(d)' => ~InTheClear(d, job[d].files["bundle"])'
    BY <1>4, <1>6, <1>8, <1>10, <1>11 DEF InTheClear
  <2>3. ~stager'[d].touched => StageIsOwn(d)'
    BY <1>12, <2>1 DEF StageIsOwn
  <2> QED
    BY <1>10, <1>11, <1>12, <2>1, <2>2, <2>3 DEF DeployIsSound
<1>14. stageDir' = stageDir
  BY <1>1
<1> QED
  BY <1>2, <1>5, <1>6, <1>7, <1>8, <1>9, <1>13, <1>14, StageMoveKeepsInv

LEMMA FailKeepsInv ==
    ASSUME StageInv, NEW d \in Deploys, StagingFails(d)
    PROVE  StageInv'
<1>1. PICK next :
        /\ next = [stager[d] EXCEPT !.place = "failed"]
        /\ stager' = [stager EXCEPT ![d].place = "failed"]
        /\ stageDir' = stageDir /\ job' = job
  BY DEF StagingFails
<1>2. /\ stager[d] \in Stagers /\ DeployIsSound(d) /\ ContentIsSound(stager[d].read)
      /\ job[d] \in Jobs /\ Staging(d)
  BY StagerHasType, JobIsSound DEF StagingFails
<1>3. /\ next \in Stagers /\ next.mode = stager[d].mode /\ next.files = stager[d].files
      /\ next.left = stager[d].left /\ next.read = stager[d].read
      /\ next.built = stager[d].built /\ next.touched = stager[d].touched
      /\ next.place = "failed"
  <2>1. next = [stager[d] EXCEPT !.place = "failed"]
    BY <1>1
  <2> QED
    BY <1>2, <2>1 DEF Stagers, StagePlaces
<1>4. stager' = [stager EXCEPT ![d] = next] /\ stager'[d] = next
  <2>1. stager' = [stager EXCEPT ![d] = next]
    BY <1>1, StageHasType
  <2> QED
    BY <2>1, StageHasType
<1>5. job' = [job EXCEPT ![d] = job[d]] /\ stageDir' = stageDir
  BY <1>1, StageHasType
<1>6. DeployIsSound(d)'
  <2>1. job[d].state = "none"
    BY <1>2 DEF Staging, DeployIsSound
  <2>2. /\ Encrypts(d)' <=> Encrypts(d)
        /\ InTheClear(d, job[d].files["bundle"])' <=> InTheClear(d, job[d].files["bundle"])
    BY <1>1, <1>3, <1>4 DEF Encrypts, InTheClear
  <2>3. /\ stager'[d].left \subseteq stager'[d].files /\ stager'[d].place = "failed"
        /\ job'[d].state = "none"
    BY <1>1, <1>2, <1>3, <1>4, <2>1 DEF DeployIsSound
  <2>4. StageIsOwn(d)'
    BY <2>3 DEF StageIsOwn
  <2>5. Encrypts(d)' => ~InTheClear(d, job[d].files["bundle"])'
    BY <1>2, <2>2 DEF DeployIsSound
  <2> QED
    BY <2>3, <2>4, <2>5 DEF DeployIsSound
<1> QED
  BY <1>2, <1>3, <1>4, <1>5, <1>6, JobIsSound, StageMoveKeepsInv

\* What a deploy staged does not change with its job.
LEMMA JobMovesSound ==
    ASSUME StageInv, NEW d \in Deploys, NEW now \in Jobs, UNCHANGED <<stageDir, stager>>,
           job' = [job EXCEPT ![d] = now], job[d].state # "none", now.files = job[d].files,
           stager[d].mode = "fresh" /\ now.state = "runs" =>
               now.code = {d} \/ stager[d].built \/ now.files["bundle"].keys = <<>>
    PROVE  StageInv'
<1>1. /\ stager[d] \in Stagers /\ DeployIsSound(d) /\ ContentIsSound(stager[d].read)
      /\ \A f \in StageFiles : ContentIsSound(job[d].files[f])
  BY StagerHasType, JobIsSound
<1>2. job'[d] = now /\ stageDir' = stageDir /\ stager' = [stager EXCEPT ![d] = stager[d]]
  BY StageHasType
<1>3. DeployIsSound(d)'
  <2>1. /\ Encrypts(d)' <=> Encrypts(d)
        /\ InTheClear(d, stageDir["bundle"])' <=> InTheClear(d, stageDir["bundle"])
        /\ InTheClear(d, job[d].files["bundle"])' <=> InTheClear(d, job[d].files["bundle"])
        /\ Own(d)' = Own(d) /\ Keyed(d)' = Keyed(d)
    BY <1>2 DEF Encrypts, InTheClear, Own, Keyed, CodeKey
  <2>2. StageIsOwn(d)' <=> StageIsOwn(d)
    BY <2>1 DEF StageIsOwn, Void
  <2>3. UploadedOwn(d)' <=> UploadedOwn(d)
    BY <1>2, <2>1 DEF UploadedOwn, Void
  <2>4. stager[d].place = "done"
    BY <1>1 DEF DeployIsSound
  <2> QED
    BY <1>1, <1>2, <2>1, <2>2, <2>3, <2>4 DEF DeployIsSound
<1> QED
  BY <1>1, <1>2, <1>3, StageMoveKeepsInv

LEMMA KeyKeepsInv ==
    ASSUME StageInv, NEW d \in Deploys, KeyArrives(d)
    PROVE  StageInv'
<1>1. PICK now : now = [job[d] EXCEPT !.keyed = TRUE]
  OBVIOUS
<1>2. job[d] \in Jobs /\ DeployIsSound(d)
  BY JobIsSound, StagerHasType
<1>3. /\ now \in Jobs /\ now.files = job[d].files /\ now.state = job[d].state
      /\ now.code = job[d].code
  BY <1>1, <1>2 DEF Jobs
<1>4. job' = [job EXCEPT ![d] = now]
  BY <1>1, StageHasType DEF KeyArrives
<1>5. stager[d].mode = "fresh" /\ now.state = "runs" =>
        now.code = {d} \/ stager[d].built \/ now.files["bundle"].keys = <<>>
  BY <1>2, <1>3 DEF DeployIsSound
<1>6. UNCHANGED <<stageDir, stager>> /\ job[d].state # "none"
  BY DEF KeyArrives
<1> QED
  BY <1>3, <1>4, <1>5, <1>6, JobMovesSound

\* A job opens what its own key was put on last; a new key is on nobody else's
\* code unless another deploy built before this one read.
LEMMA JobStartKeepsInv ==
    ASSUME StageInv, NEW d \in Deploys, StartJob(d)
    PROVE  StageInv'
<1> DEFINE start == IF stager[d].mode = "script" THEN {"entry"} ELSE {"bundle"}
           runs == {job[d].files[f].of : f \in start}
<1>1. /\ job[d].state = "waits" /\ \A f \in start : Opens(d, job[d].files[f])
      /\ job' = [job EXCEPT ![d].state = "runs", ![d].code = runs]
      /\ UNCHANGED <<stageDir, stager>>
  BY DEF StartJob
<1>2. PICK started, code, now :
        /\ started = start /\ code = runs
        /\ started = IF stager[d].mode = "script" THEN {"entry"} ELSE {"bundle"}
        /\ code = {job[d].files[f].of : f \in started}
        /\ now = [job[d] EXCEPT !.state = "runs", !.code = code]
  OBVIOUS
<1> HIDE DEF start, runs
<1>3. /\ job[d].state = "waits" /\ \A f \in started : Opens(d, job[d].files[f])
      /\ job' = [job EXCEPT ![d].state = "runs", ![d].code = code]
      /\ UNCHANGED <<stageDir, stager>>
  BY <1>1, <1>2
<1>4. /\ job[d] \in Jobs /\ DeployIsSound(d) /\ \A f \in StageFiles : ContentIsSound(job[d].files[f])
  BY JobIsSound, StagerHasType
<1>5. ASSUME NEW f \in started
      PROVE  job[d].files[f].of \in Deploys
  <2>1. f \in StageFiles
    BY <1>2, <1>5, NumbersOfStage
  <2>2. job[d].files[f].is = "code"
    BY <1>3, <1>5 DEF Opens
  <2> QED
    BY <1>4, <2>1, <2>2 DEF ContentIsSound
<1>6. code \in SUBSET Deploys
  BY <1>2, <1>5
<1>7. /\ now \in Jobs /\ now.files = job[d].files /\ now.state = "runs" /\ now.code = code
  <2>1. now = [job[d] EXCEPT !.state = "runs", !.code = code]
    BY <1>2
  <2> QED
    BY <1>4, <1>6, <2>1 DEF Jobs
<1>8. job' = [job EXCEPT ![d] = now]
  BY <1>2, <1>3, StageHasType
<1>9. ASSUME stager[d].mode = "fresh"
      PROVE  code = {d} \/ stager[d].built \/ now.files["bundle"].keys = <<>>
  <2>1. started = {"bundle"}
    BY <1>2, <1>9
  <2>2. PICK file : file = job[d].files["bundle"]
    OBVIOUS
  <2>3. code = {file.of} /\ Opens(d, file)
    BY <1>2, <1>3, <2>1, <2>2
  <2>4. file \in Contents /\ FreshKeyIsOwn(file)
    BY <1>4, <2>2, NumbersOfStage DEF ContentIsSound
  <2>5. file.keys \in Seq(CodeKeys)
    BY <2>4 DEF Contents
  <2>6. CASE file.keys = <<>>
    BY <1>7, <2>2, <2>6
  <2>7. CASE file.keys # <<>>
    <3>1. 1 \in DOMAIN file.keys
      BY <2>5, <2>7
    <3>2. file.keys[1] = d
      BY <1>9, <2>3, <3>1 DEF Opens, CodeKey
    <3>3. stager[d].built \/ file.of = d
      BY <1>9, <2>4, <3>1, <3>2 DEF FreshKeyIsOwn
    <3> QED
      BY <2>3, <3>3
  <2> QED
    BY <2>6, <2>7
<1>10. UNCHANGED <<stageDir, stager>> /\ job[d].state # "none"
  BY <1>3
<1> QED
  BY <1>7, <1>8, <1>9, <1>10, JobMovesSound

LEMMA StageInvStutters == StageInv /\ UNCHANGED stageVars => StageInv'
<1> SUFFICES ASSUME StageInv, UNCHANGED stageVars
             PROVE  StageInv'
  OBVIOUS
<1>1. stageDir' = stageDir /\ stager' = stager /\ job' = job
  BY DEF stageVars
<1>2. ASSUME NEW x, ContentIsSound(x)
      PROVE  ContentIsSound(x)'
  BY <1>1, <1>2, ContentStaysSound DEF PastFill
<1>3. /\ \A f \in StageFiles : ContentIsSound(stageDir[f])'
      /\ \A d \in Deploys : /\ ContentIsSound(stager[d].read)'
                            /\ \A f \in StageFiles : ContentIsSound(job[d].files[f])'
  BY <1>1, <1>2 DEF StageInv, ContentIsSound, KeysArePastFill, FreshKeyIsOwn, PastFill
<1>4. ASSUME NEW d \in Deploys
      PROVE  DeployIsSound(d)'
  <2>1. DeployIsSound(d)
    BY DEF StageInv
  <2>2. /\ Encrypts(d)' <=> Encrypts(d)
        /\ InTheClear(d, stageDir["bundle"])' <=> InTheClear(d, stageDir["bundle"])
        /\ InTheClear(d, job[d].files["bundle"])' <=> InTheClear(d, job[d].files["bundle"])
        /\ Own(d)' = Own(d) /\ Keyed(d)' = Keyed(d)
    BY <1>1 DEF Encrypts, InTheClear, Own, Keyed, CodeKey
  <2>3. StageIsOwn(d)' <=> StageIsOwn(d)
    BY <1>1, <2>2 DEF StageIsOwn, Void
  <2>4. UploadedOwn(d)' <=> UploadedOwn(d)
    BY <1>1, <2>2 DEF UploadedOwn, Void
  <2> QED
    BY <1>1, <2>1, <2>2, <2>3, <2>4 DEF DeployIsSound
<1> QED
  BY <1>1, <1>3, <1>4 DEF StageInv

LEMMA StageInvNext == StageInv /\ [StageNext]_stageVars => StageInv'
<1> SUFFICES ASSUME StageInv, [StageNext]_stageVars
             PROVE  StageInv'
  OBVIOUS
<1>1. CASE StageNext
  <2>1. PICK d \in Deploys :
          \/ WipeStage(d) \/ CopyFile(d) \/ BuildOwn(d)
          \/ ReadBundle(d) \/ OpenLoader(d) \/ FillLoader(d)
          \/ UploadStage(d) \/ StagingFails(d) \/ KeyArrives(d) \/ StartJob(d)
    BY <1>1 DEF StageNext
  <2> QED
    BY <2>1, StageWipeKeepsInv, CopyKeepsInv, BuildKeepsInv, ReadKeepsInv, OpenKeepsInv,
       FillKeepsInv, StageUploadKeepsInv, FailKeepsInv, KeyKeepsInv, JobStartKeepsInv
<1>2. CASE UNCHANGED stageVars
  BY <1>2, StageInvStutters
<1> QED
  BY <1>1, <1>2

LEMMA StageInvIsSafe == StageInv => StageSafe
<1> SUFFICES ASSUME StageInv
             PROVE  StageSafe
  OBVIOUS
<1>1. StageTypeOK
  <2>1. ASSUME NEW f \in StageFiles
        PROVE  stageDir[f] \in Contents /\ Len(stageDir[f].keys) <= Cardinality(Deploys)
    <3>1. PICK x : x = stageDir[f]
      OBVIOUS
    <3>2. ContentIsSound(x)
      BY <3>1 DEF StageInv
    <3> QED
      BY <3>1, <3>2, KeysAreBounded, StageHasType
  <2>2. ASSUME NEW d \in Deploys
        PROVE  /\ job[d].state \in {"none", "waits", "runs"} /\ job[d].keyed \in BOOLEAN
               /\ job[d].code \subseteq Deploys
    <3>1. job[d] \in Jobs
      BY JobIsSound
    <3> QED
      BY <3>1 DEF Jobs
  <2>3. DOMAIN stageDir = StageFiles
    BY StageHasType
  <2> QED
    BY <2>1, <2>2, <2>3, StagerHasType DEF StageTypeOK
<1>2. UndisturbedIsOwn
  <2>1. ASSUME NEW d \in Deploys, job[d].state # "none", ~stager[d].touched
        PROVE  UploadedOwn(d)
    BY <2>1, StagerHasType DEF DeployIsSound
  <2> QED
    BY <2>1 DEF UndisturbedIsOwn, UploadedOwn, Keyed
<1>3. FreshRunsOwn
  BY StagerHasType DEF FreshRunsOwn, DeployIsSound
<1>4. OwnCodeIsEncrypted
  BY StagerHasType DEF OwnCodeIsEncrypted, DeployIsSound, InTheClear
<1> QED
  BY <1>1, <1>2, <1>3, <1>4 DEF StageSafe

\* Deploys that stage in one directory at the same time upload and run their own
\* code unless another wrote in between, and none uploads its own in the clear
\* where a key was asked for.
THEOREM StageIsSafe == StageSpec => []StageSafe
<1>1. StageInit => StageInv
  BY StageInvInit
<1>2. StageInv /\ [StageNext]_stageVars => StageInv'
  BY StageInvNext
<1>3. StageInv => StageSafe
  BY StageInvIsSafe
<1> QED
  BY <1>1, <1>2, <1>3, PTL DEF StageSpec

-------------------------------------------------------------------------------
(***************************************************************************)
(* Which relay leads, and until when                                       *)
(***************************************************************************)

\* A set of numbers that is not empty has a least one.
LEMMA NatMin == ASSUME NEW T, T \subseteq Nat, T # {} PROVE \E x \in T : \A y \in T : x <= y
<1>1. PICK R : R = OpToRel(<, Nat)
  OBVIOUS
<1>2. R = {ss \in Nat \X Nat : ss[1] < ss[2]}
  BY <1>1 DEF OpToRel
<1>3. IsWellFoundedOn(R, Nat)
  BY <1>1, NatLessThanWellFounded
<1>4. PICK x \in T : \A y \in T : <<y, x>> \notin R
  BY <1>3, WFMin
<1>5. ASSUME NEW y \in T, ~(x <= y) PROVE FALSE
  <2>1. x \in Nat /\ y \in Nat /\ y < x
    BY <1>5
  <2>2. <<y, x>> \in R
    BY <1>2, <2>1
  <2> QED
    BY <1>4, <2>2
<1> QED
  BY <1>5

\* One way to put a finite set of numbers into ascending order.
Ascending(ids, order) ==
    /\ order \in [1..Cardinality(ids) -> ids] /\ Range(order) = ids
    /\ \A i, k \in DOMAIN order : i < k => order[i] < order[k]

\* Without a set that has none there is one for each: the least is first.
LEMMA AscendingExists ==
  ASSUME NEW ids \in SUBSET Nat, IsFiniteSet(ids)
  PROVE  \E order : Ascending(ids, order)
<1> DEFINE bad == {n \in Nat : \E s \in SUBSET Nat : /\ IsFiniteSet(s) /\ Cardinality(s) = n
                                                     /\ ~\E order : Ascending(s, order)}
<1>1. ASSUME bad # {} PROVE FALSE
  <2>1. PICK n \in bad : \A m \in bad : n <= m
    <3>1. bad \subseteq Nat
      OBVIOUS
    <3> HIDE DEF bad
    <3> QED
      BY <1>1, <3>1, NatMin
  <2>2. PICK s \in SUBSET Nat : /\ IsFiniteSet(s) /\ Cardinality(s) = n
                                /\ ~\E order : Ascending(s, order)
    BY <2>1
  <2>3. n \in Nat
    BY <2>1
  <2>4. s # {}
    <3> SUFFICES ASSUME s = {} PROVE FALSE
      OBVIOUS
    <3>1. Cardinality(s) = 0
      BY FS_EmptySet
    <3>2. Ascending(s, [i \in 1..Cardinality(s) |-> i])
      BY <3>1 DEF Ascending, Range
    <3> QED
      BY <2>2, <3>2
  <2>5. PICK least \in s : \A x \in s : least <= x
    BY <2>4, NatMin
  <2> DEFINE rest == s \ {least}
  <2>6. IsFiniteSet(rest) /\ Cardinality(rest) = n - 1 /\ Cardinality(rest) \in Nat
    BY <2>2, <2>5, FS_RemoveElement, FS_CardinalityType
  <2>7. PICK order : Ascending(rest, order)
    <3>1. n - 1 \notin bad /\ n - 1 \in Nat
      BY <2>1, <2>3, <2>6
    <3>2. rest \in SUBSET Nat
      OBVIOUS
    <3> HIDE DEF rest
    <3> QED
      BY <2>6, <3>1, <3>2
  <2> DEFINE longer == [i \in 1..n |-> IF i = 1 THEN least ELSE order[i - 1]]
  <2>8. /\ order \in [1..n - 1 -> rest] /\ Range(order) = rest
        /\ \A i, k \in 1..n - 1 : i < k => order[i] < order[k]
    BY <2>6, <2>7 DEF Ascending
  <2>9. n >= 1
    BY <2>3, <2>6
  <2>10. \A i \in 1..n : i # 1 => i - 1 \in 1..n - 1 /\ longer[i] = order[i - 1] /\ order[i - 1] \in rest
    BY <2>3, <2>8
  <2>11. longer[1] = least
    BY <2>3, <2>9
  <2>12. longer \in [1..n -> s]
    BY <2>3, <2>8, <2>10, <2>5
  <2>13. Range(longer) = s
    <3>1. Range(longer) \subseteq s
      BY <2>12 DEF Range
    <3>2. ASSUME NEW x \in s PROVE x \in Range(longer)
      <4>1. CASE x = least
        BY <2>3, <2>9, <2>11, <2>12, <4>1 DEF Range
      <4>2. CASE x # least
        <5>1. x \in Range(order)
          BY <2>8, <4>2
        <5>2. PICK i \in 1..n - 1 : order[i] = x
          BY <2>8, <5>1 DEF Range
        <5>3. i + 1 \in 1..n /\ i + 1 # 1 /\ (i + 1) - 1 = i
          BY <2>3, <5>2
        <5>4. longer[i + 1] = x
          BY <2>10, <5>2, <5>3
        <5> HIDE DEF longer
        <5> QED
          BY <2>12, <5>3, <5>4 DEF Range
      <4> QED
        BY <4>1, <4>2
    <3> QED
      BY <3>1, <3>2
  <2>14. ASSUME NEW i \in 1..n, NEW k \in 1..n, i < k PROVE longer[i] < longer[k]
    <3>1. k # 1 /\ longer[k] = order[k - 1] /\ order[k - 1] \in rest
      BY <2>3, <2>10, <2>14
    <3>2. CASE i = 1
      <4>1. longer[i] = least /\ least <= order[k - 1] /\ least # order[k - 1]
        BY <2>5, <2>11, <3>1, <3>2
      <4>2. least \in Nat /\ order[k - 1] \in Nat
        BY <2>2, <2>5, <3>1
      <4> HIDE DEF longer
      <4> QED
        BY <3>1, <4>1, <4>2
    <3>3. CASE i # 1
      <4>1. longer[i] = order[i - 1] /\ i - 1 \in 1..n - 1 /\ k - 1 \in 1..n - 1 /\ i - 1 < k - 1
        BY <2>3, <2>10, <2>14, <3>1, <3>3
      <4> HIDE DEF longer
      <4> QED
        BY <2>8, <3>1, <4>1
    <3> QED
      BY <3>2, <3>3
  <2>15. Ascending(s, longer)
    <3> HIDE DEF longer
    <3> QED
      BY <2>2, <2>12, <2>13, <2>14 DEF Ascending
  <2> QED
    BY <2>2, <2>15
<1>2. Cardinality(ids) \in Nat
  BY FS_CardinalityType
<1> QED
  BY <1>1, <1>2

\* A list of members is ordered, and lists of the same members alike.
LEMMA MembersAreOrdered ==
  ASSUME NEW list \in MemberLists
  PROVE  Ascending(ActiveUnique(list), OrderedIds(list))
<1>1. Ranks \subseteq Nat /\ MaxList \in Nat
  BY AuthorityOK DEF AuthorityOK
<1>2. PICK n \in 0..MaxList : list \in [1..n -> Ranks]
  BY DEF MemberLists
<1>3. ActiveUnique(list) \in SUBSET Nat
  BY <1>1, <1>2 DEF ActiveUnique, Range
<1>4. IsFiniteSet(ActiveUnique(list))
  <2>1. 1 \in Int /\ n \in Int
    BY <1>1, <1>2
  <2>2. IsFiniteSet(1..n)
    BY <2>1, FS_Interval
  <2>3. list \in Surjection(1..n, ActiveUnique(list))
    BY <1>2 DEF Surjection, ActiveUnique, Range
  <2> QED
    BY <2>2, <2>3, FS_Surjection
<1>5. PICK order : Ascending(ActiveUnique(list), order)
  BY <1>3, <1>4, AscendingExists
<1> QED
  BY <1>5 DEF Ascending, OrderedIds, InOrder

LEMMA SameMembersSameOrder ==
  ASSUME NEW list, NEW other, ActiveUnique(list) = ActiveUnique(other)
  PROVE  OrderedIds(list) = OrderedIds(other)
BY DEF OrderedIds

\* Clocks that are less than the grace apart are in the same grace or in the next.
LEMMA GraceIsShared ==
  ASSUME NEW a \in Nat, NEW b \in Nat, a <= b, b - a < Grace
  PROVE  /\ a \div Grace \in Nat /\ b \div Grace \in Nat
         /\ a \div Grace <= b \div Grace /\ b \div Grace <= (a \div Grace) + 1
BY AuthorityOK, SMTT(30) DEF AuthorityOK

\* The places of such clocks in one order are the same or neighbours.
LEMMA PlacesAreNeighbours ==
  ASSUME NEW ids, NEW n \in Nat \ {0}, ids \in Seq(Nat), Len(ids) = n,
         NEW a \in Nat, NEW b \in Nat, a <= b, b - a < Grace
  PROVE  /\ LeaderIndex(ids, a) \in 1..n /\ LeaderIndex(ids, b) \in 1..n
         /\ LeaderIndex(ids, a) <= LeaderIndex(ids, b)
         /\ LeaderIndex(ids, b) <= LeaderIndex(ids, a) + 1
<1> DEFINE x == a \div Grace
           y == b \div Grace
<1>1. x \in Nat /\ y \in Nat /\ x <= y /\ y <= x + 1
  BY GraceIsShared
<1>2. /\ LeaderIndex(ids, a) = (IF x < n THEN x + 1 ELSE n)
      /\ LeaderIndex(ids, b) = (IF y < n THEN y + 1 ELSE n)
  BY DEF LeaderIndex
<1> HIDE DEF x, y
<1> QED
  BY <1>1, <1>2

LEMMA NeighboursLead == AuthorityTypeOK => LeadersAreNeighbours
<1> SUFFICES ASSUME AuthorityTypeOK, NEW d \in Deciders, NEW e \in Deciders,
                    ActiveUnique(lists[e]) = ActiveUnique(lists[d]),
                    ahead[d] - ahead[e] \in 0..Grace - 1
             PROVE  /\ Leader(d) >= Leader(e)
                    /\ ~\E r \in ActiveUnique(lists[d]) : Leader(e) < r /\ r < Leader(d)
                    /\ ahead[d] = ahead[e] => Leader(d) = Leader(e)
  BY DEF LeadersAreNeighbours
<1> DEFINE members == ActiveUnique(lists[d])
           ids == OrderedIds(lists[d])
           n == Cardinality(members)
<1>1. lists[d] \in MemberLists /\ OrderedIds(lists[e]) = ids
  BY SameMembersSameOrder DEF AuthorityTypeOK
<1>2. Ascending(members, ids)
  BY <1>1, MembersAreOrdered
<1>3. members \subseteq Nat
  <2>1. Ranks \subseteq Nat
    BY AuthorityOK DEF AuthorityOK
  <2> QED
    BY <1>1, <2>1 DEF MemberLists, ActiveUnique, Range
<1>4. IsFiniteSet(members) /\ n \in Nat
  <2>1. PICK m \in 0..MaxList : lists[d] \in [1..m -> Ranks]
    BY <1>1 DEF MemberLists
  <2>2. MaxList \in Nat
    BY AuthorityOK DEF AuthorityOK
  <2>3. 1 \in Int /\ m \in Int
    BY <2>1, <2>2
  <2>4. IsFiniteSet(1..m)
    BY <2>3, FS_Interval
  <2>5. lists[d] \in Surjection(1..m, members)
    BY <2>1 DEF Surjection, ActiveUnique, Range
  <2>6. IsFiniteSet(members)
    BY <2>4, <2>5, FS_Surjection
  <2> QED
    BY <2>6, FS_CardinalityType
<1>5. /\ ids \in [1..n -> members] /\ Range(ids) = members
      /\ \A i, k \in 1..n : i < k => ids[i] < ids[k]
  BY <1>2 DEF Ascending
<1>6. instant \in Nat /\ ahead[d] \in Nat /\ ahead[e] \in Nat /\ Grace \in Nat \ {0}
  BY AuthorityOK DEF AuthorityTypeOK, AuthorityOK
<1>7. ClockOf(d) \in Nat /\ ClockOf(e) \in Nat /\ ClockOf(e) <= ClockOf(d)
      /\ ClockOf(d) - ClockOf(e) < Grace /\ (ahead[d] = ahead[e] => ClockOf(d) = ClockOf(e))
  BY <1>6 DEF ClockOf
<1> HIDE DEF members, ids
<1>8. CASE n = 0
  <2>1. ids = <<>>
    BY <1>5, <1>8
  <2>2. members = {}
    BY <1>4, <1>8, FS_EmptySet
  <2>3. Leader(d) = -1 /\ Leader(e) = -1
    BY <1>1, <2>1 DEF Leader, ids
  <2> QED
    BY <2>2, <2>3 DEF members
<1>9. CASE n # 0
  <2>1. ids \in Seq(Nat) /\ Len(ids) = n /\ ids # <<>>
    <3>1. ids \in [1..n -> Nat]
      BY <1>3, <1>5
    <3> HIDE DEF n
    <3> QED
      BY <1>4, <1>9, <3>1
  <2> DEFINE i == LeaderIndex(ids, ClockOf(e))
             k == LeaderIndex(ids, ClockOf(d))
  <2>2. i \in 1..n /\ k \in 1..n /\ i <= k /\ k <= i + 1
    BY <1>4, <1>7, <1>9, <2>1, PlacesAreNeighbours
  <2>3. Leader(d) = ids[k] /\ Leader(e) = ids[i]
    BY <1>1, <2>1 DEF Leader, ids
  <2>4. \A j \in 1..n : ids[j] \in Nat
    BY <1>3, <1>5
  <2>5. ahead[d] = ahead[e] => i = k
    BY <1>7
  <2> HIDE DEF i, k
  <2>6. Leader(d) >= Leader(e)
    BY <1>4, <1>5, <2>2, <2>3, <2>4
  <2>7. ASSUME NEW r \in members, Leader(e) < r, r < Leader(d) PROVE FALSE
    <3>1. PICK j \in 1..n : ids[j] = r
      BY <1>5 DEF Range
    <3>2. i # k
      <4>1. r \in Nat /\ ids[i] \in Nat /\ ids[i] < r /\ r < ids[k]
        BY <2>2, <2>3, <2>4, <2>7, <3>1
      <4> QED
        BY <4>1
    <3>3. k = i + 1
      BY <1>4, <2>2, <3>2
    <3>4. j <= i \/ k <= j
      BY <1>4, <2>2, <3>3
    <3>5. j <= i => ids[j] <= ids[i]
      BY <1>4, <1>5, <2>2, <2>4
    <3>6. k <= j => ids[k] <= ids[j]
      BY <1>4, <1>5, <2>2, <2>4
    <3> QED
      BY <2>2, <2>3, <2>4, <2>7, <3>1, <3>4, <3>5, <3>6
  <2> QED
    BY <2>3, <2>5, <2>6, <2>7 DEF members
<1> QED
  BY <1>8, <1>9

\* The earliest of some ends is one of them.
LEMMA EarliestIsFirst ==
  ASSUME NEW some \in SUBSET Nat, some # {}
  PROVE  EarliestEnd(some) \in some /\ \A f \in some : EarliestEnd(some) <= f
<1>1. \E e \in some : \A f \in some : e <= f
  BY NatMin
<1> QED
  BY <1>1 DEF EarliestEnd

\* The state of a lifecycle, for the ends that were heard of and a time.
LifeOf(heard, now) ==
    LET some == {e \in heard : e > 0} IN
    IF some = {} THEN "unknown"
    ELSE IF now >= EarliestEnd(some) THEN "expired"
    ELSE IF now >= EarliestEnd(some) - Runway THEN "draining"
    ELSE "authority_eligible"

Near(heard, now) == \E e \in heard : e > 0 /\ now >= e - Runway

\* Authority has ended when any end is no further away than the runway: so it stays, for
\* time only goes on, and no end that was heard of is forgotten.
LEMMA EndedIfNear ==
  ASSUME NEW heard \in SUBSET Nat, NEW now \in Nat
  PROVE  LifeOf(heard, now) \in {"draining", "expired"} <=> Near(heard, now)
<1> DEFINE some == {e \in heard : e > 0}
<1>1. Runway \in Nat
  BY AuthorityOK DEF AuthorityOK
<1>2. CASE some = {}
  BY <1>2 DEF LifeOf, Near
<1>3. CASE some # {}
  <2> DEFINE first == EarliestEnd(some)
  <2>1. first \in some /\ \A f \in some : first <= f
    BY <1>3, EarliestIsFirst
  <2>2. LifeOf(heard, now) = (IF now >= first THEN "expired"
                              ELSE IF now >= first - Runway THEN "draining"
                              ELSE "authority_eligible")
    BY <1>3 DEF LifeOf
  <2> HIDE DEF first
  <2> QED
    BY <1>1, <2>1, <2>2 DEF Near
<1> QED
  BY <1>2, <1>3

AuthorityInv == AuthorityTypeOK /\ AuthorityLapsesForGood

LEMMA AuthorityStep == AuthorityInv /\ [AuthorityNext]_authorityVars => AuthorityInv'
<1> SUFFICES ASSUME AuthorityInv, [AuthorityNext]_authorityVars PROVE AuthorityInv'
  OBVIOUS
<1>1. /\ instant \in Nat /\ Runway \in Nat /\ ends \subseteq Nat /\ MaxInstant \in Nat
  BY AuthorityOK DEF AuthorityInv, AuthorityTypeOK, AuthorityOK
<1>2. CASE AuthorityNext
  <2>1. /\ instant' \in Nat /\ instant <= instant' /\ instant' <= MaxInstant
        /\ ends \subseteq ends' /\ ends' \subseteq 0..MaxInstant
        /\ lists' = lists /\ ahead' = ahead
    <3>1. ends \subseteq 0..MaxInstant /\ instant <= MaxInstant
      BY <1>1 DEF AuthorityInv, AuthorityTypeOK
    <3>2. CASE Ticks
      BY <1>1, <3>1, <3>2 DEF Ticks
    <3>3. CASE Hears
      BY <1>1, <3>1, <3>3 DEF Hears
    <3> QED
      BY <1>2, <3>2, <3>3 DEF AuthorityNext
  <2>2. lapsed' = (lapsed \/ Lifecycle(instant)' \in {"draining", "expired"})
    BY <1>2 DEF AuthorityNext, Ticks, Hears, Lapses
  <2>3. AuthorityTypeOK'
    BY <1>1, <2>1, <2>2 DEF AuthorityInv, AuthorityTypeOK
  <2>4. ASSUME lapsed PROVE Lifecycle(instant)' \in {"draining", "expired"}
    <3>1. LifeOf(ends, instant) \in {"draining", "expired"}
      BY <2>4 DEF AuthorityInv, AuthorityLapsesForGood, Lifecycle, LifeOf
    <3>2. Near(ends, instant)
      BY <1>1, <3>1, EndedIfNear
    <3>3. \A e \in ends : e \in Nat /\ e \in ends'
      BY <1>1, <2>1
    <3>4. Near(ends', instant')
      BY <1>1, <2>1, <3>2, <3>3 DEF Near
    <3>5. ends' \subseteq Nat
      BY <2>1
    <3>6. LifeOf(ends', instant') \in {"draining", "expired"}
      BY <2>1, <3>4, <3>5, EndedIfNear
    <3> QED
      BY <3>6 DEF Lifecycle, LifeOf
  <2> QED
    BY <2>2, <2>3, <2>4 DEF AuthorityInv, AuthorityLapsesForGood
<1>3. CASE UNCHANGED authorityVars
  BY <1>3 DEF authorityVars, AuthorityInv, AuthorityTypeOK, AuthorityLapsesForGood, Lifecycle
<1> QED
  BY <1>2, <1>3

\* Relays with clocks less than the grace apart, who know the same members in any order,
\* name the same leader or neighbours; and authority that has ended is not had again.
THEOREM AuthorityIsSafe == AuthoritySpec => []AuthoritySafe
<1>1. AuthorityInit => AuthorityInv
  <2> SUFFICES ASSUME AuthorityInit PROVE AuthorityInv
    OBVIOUS
  <2>1. MaxInstant \in Nat
    BY AuthorityOK DEF AuthorityOK
  <2>2. AuthorityTypeOK
    <3>1. instant \in 0..MaxInstant /\ ends \subseteq 0..MaxInstant
      BY <2>1 DEF AuthorityInit
    <3>2. lists \in [Deciders -> MemberLists] /\ ahead \in [Deciders -> 0..MaxSkew]
      BY Zenon DEF AuthorityInit
    <3>3. lapsed \in BOOLEAN
      BY Zenon DEF AuthorityInit
    <3> QED
      BY <3>1, <3>2, <3>3, Zenon DEF AuthorityTypeOK
  <2>3. ~lapsed
    BY DEF AuthorityInit
  <2> QED
    BY <2>2, <2>3 DEF AuthorityInv, AuthorityLapsesForGood
<1>2. AuthorityInv => AuthoritySafe
  BY NeighboursLead DEF AuthorityInv, AuthoritySafe
<1> QED
  BY <1>1, <1>2, AuthorityStep, PTL DEF AuthoritySpec

-------------------------------------------------------------------------------
(***************************************************************************)
(* Sweeps over the processors of a manager                                 *)
(***************************************************************************)

\* Processors at different places are different.
LEMMA PlacesAreCounted ==
  ASSUME NEW places \in SUBSET (DOMAIN Inventory)
  PROVE  /\ IsFiniteSet(places) /\ IsFiniteSet({Inventory[i] : i \in places})
         /\ Cardinality({Inventory[i] : i \in places}) = Cardinality(places)
         /\ Cardinality(places) \in Nat
<1> DEFINE image == {Inventory[i] : i \in places}
           f == [i \in places |-> Inventory[i]]
<1>1. /\ Inventory \in Seq(Processors) /\ IsInjective(Inventory)
      /\ Len(Inventory) \in Nat /\ DOMAIN Inventory = 1..Len(Inventory)
  BY DiscoveryOK DEF DiscoveryOK
<1>2. IsFiniteSet(places)
  <2>1. 1 \in Int /\ Len(Inventory) \in Int
    BY <1>1
  <2>2. IsFiniteSet(1..Len(Inventory))
    BY <2>1, FS_Interval
  <2> QED
    BY <1>1, <2>2, FS_Subset
<1>3. f \in [places -> image] /\ \A i \in places : f[i] = Inventory[i]
  OBVIOUS
<1>4. IsInjective(f)
  BY <1>1, <1>3 DEF IsInjective
<1>5. \A p \in image : \E i \in places : f[i] = p
  BY <1>3
<1> HIDE DEF f
<1>6. f \in Injection(places, image) /\ f \in Surjection(places, image)
  BY <1>3, <1>4, <1>5, Zenon DEF Injection, Surjection
<1>7. ExistsBijection(places, image)
  BY <1>6 DEF ExistsBijection, Bijection
<1> HIDE DEF image
<1>8. IsFiniteSet(image) /\ Cardinality(image) = Cardinality(places)
  BY <1>2, <1>7, FS_Bijection
<1>9. Cardinality(places) \in Nat
  BY <1>2, FS_CardinalityType
<1> QED
  BY <1>2, <1>8, <1>9 DEF image

\* The fleet has as many processors as the chain lists.
LEMMA FleetIsCounted ==
  /\ IsFiniteSet(Processors) /\ Cardinality(Processors) = Len(Inventory) /\ Len(Inventory) \in Nat
<1>1. Len(Inventory) \in Nat /\ DOMAIN Inventory = 1..Len(Inventory)
  BY DiscoveryOK DEF DiscoveryOK
<1>2. Processors = {Inventory[i] : i \in DOMAIN Inventory}
  BY DEF Processors, Range
<1>3. IsFiniteSet(Processors) /\ Cardinality(Processors) = Cardinality(DOMAIN Inventory)
  BY <1>2, PlacesAreCounted
<1>4. Cardinality(1..Len(Inventory)) = Len(Inventory)
  <2>1. 1 \in Int /\ Len(Inventory) \in Int
    BY <1>1
  <2>2. Cardinality(1..Len(Inventory)) = IF 1 > Len(Inventory) THEN 0 ELSE Len(Inventory) - 1 + 1
    BY <2>1, FS_Interval
  <2> QED
    BY <1>1, <2>2
<1> QED
  BY <1>1, <1>3, <1>4

\* Of a set of places, those with fewer than some number before them are that many, or all.
LEMMA FirstOnesAreEnough ==
  ASSUME NEW due \in SUBSET Nat, IsFiniteSet(due), NEW limit \in Nat
  PROVE  LET next == {i \in due : Cardinality({k \in due : k < i}) < limit} IN
         \/ Cardinality(next) >= limit
         \/ next = due
<1> DEFINE Before(i) == {k \in due : k < i}
           next == {i \in due : Cardinality(Before(i)) < limit}
<1> SUFFICES ASSUME next # due PROVE Cardinality(next) >= limit
  OBVIOUS
<1>1. PICK i \in due \ next : \A k \in due \ next : i <= k
  <2>1. due \ next \subseteq Nat /\ due \ next # {}
    OBVIOUS
  <2> HIDE DEF next
  <2> QED
    BY <2>1, NatMin
<1>2. Before(i) \in SUBSET next
  <2> SUFFICES ASSUME NEW k \in due, k < i PROVE k \in next
    OBVIOUS
  <2>1. k \notin due \ next
    <3>1. i \in Nat /\ k \in Nat
      BY <1>1
    <3> HIDE DEF next
    <3> QED
      BY <1>1, <3>1
  <2> QED
    BY <2>1
<1>3. ~(Cardinality(Before(i)) < limit)
  BY <1>1
<1>4. IsFiniteSet(next)
  <2>1. next \in SUBSET due
    OBVIOUS
  <2> HIDE DEF next
  <2> QED
    BY <2>1, FS_Subset
<1>5. /\ Cardinality(Before(i)) <= Cardinality(next)
      /\ Cardinality(Before(i)) \in Nat /\ Cardinality(next) \in Nat
  <2> HIDE DEF next, Before
  <2>1. IsFiniteSet(Before(i)) /\ Cardinality(Before(i)) <= Cardinality(next)
    BY <1>2, <1>4, FS_Subset
  <2> QED
    BY <1>4, <2>1, FS_CardinalityType
<1> HIDE DEF next, Before
<1>6. Cardinality(next) >= limit
  BY <1>3, <1>5
<1> QED
  BY <1>6

\* The processors that a state has an entry for, and the others.
Seen(state) == {p \in Processors : state[p] # Absent}
Unseen(state) == {p \in Processors : state[p] = Absent}

LEMMA SeenIsCounted ==
  ASSUME NEW state
  PROVE  /\ IsFiniteSet(Seen(state)) /\ IsFiniteSet(Unseen(state))
         /\ Cardinality(Seen(state)) \in Nat /\ Cardinality(Unseen(state)) \in Nat
         /\ Cardinality(Seen(state)) + Cardinality(Unseen(state)) = Len(Inventory)
<1>1. IsFiniteSet(Processors) /\ Cardinality(Processors) = Len(Inventory)
  BY FleetIsCounted
<1>2. Seen(state) \in SUBSET Processors /\ Unseen(state) \in SUBSET Processors
  BY DEF Seen, Unseen
<1>3. IsFiniteSet(Seen(state)) /\ IsFiniteSet(Unseen(state))
  BY <1>1, <1>2, FS_Subset
<1>4. Seen(state) \cup Unseen(state) = Processors /\ Seen(state) \cap Unseen(state) = {}
  BY DEF Seen, Unseen
<1>5. Cardinality(Seen(state)) \in Nat /\ Cardinality(Unseen(state)) \in Nat
  BY <1>3, FS_CardinalityType
<1>6. Cardinality(Processors) =
         Cardinality(Seen(state)) + Cardinality(Unseen(state)) - Cardinality({})
  BY <1>3, <1>4, FS_Union
<1>7. Cardinality({}) = 0
  BY FS_EmptySet
<1> QED
  BY <1>1, <1>3, <1>5, <1>6, <1>7

\* While no check is old, a sweep takes what has no entry yet, as many as its limit or all.
LEMMA SweepTakesUnseen ==
  ASSUME NEW state \in DiscoveryStates, clock \in Times, Limit > 0, clock < CheckTtl
  PROVE  /\ SelectNext(state) \subseteq Unseen(state)
         /\ \/ Cardinality(SelectNext(state)) >= Limit
            \/ SelectNext(state) = Unseen(state)
<1> DEFINE due == {i \in DOMAIN Inventory : ~CheckedRecently(Inventory[i], state)}
           next == {i \in due : Cardinality({k \in due : k < i}) < Limit}
<1>1. /\ Limit \in Nat /\ CheckTtl \in Nat /\ MaxTime \in Nat /\ clock \in Nat
      /\ Len(Inventory) \in Nat /\ DOMAIN Inventory = 1..Len(Inventory)
      /\ Inventory \in Seq(Processors)
  BY DiscoveryOK DEF DiscoveryOK, Times
<1>2. Limit # 0
  BY <1>1
<1>3. SelectNext(state) = {Inventory[i] : i \in next}
  BY <1>2 DEF SelectNext
<1>4. \A p \in Processors : CheckedRecently(p, state) <=> state[p] # Absent
  <2> SUFFICES ASSUME NEW p \in Processors, state[p] # Absent PROVE clock - state[p].checked < CheckTtl
    BY DEF CheckedRecently
  <2>1. state[p] \in Entries
    BY DEF DiscoveryStates
  <2>2. state[p].checked \in Nat
    BY <1>1, <2>1 DEF Entries, Times
  <2> QED
    BY <1>1, <2>2
<1>5. \A i \in DOMAIN Inventory : Inventory[i] \in Processors
  BY <1>1
<1>6. {Inventory[i] : i \in due} = Unseen(state)
  <2>1. \A p \in Processors : \E i \in DOMAIN Inventory : Inventory[i] = p
    BY DEF Processors, Range
  <2> QED
    BY <1>4, <1>5, <2>1 DEF Unseen
<1>7. due \in SUBSET (DOMAIN Inventory) /\ next \in SUBSET due /\ due \in SUBSET Nat
  BY <1>1
<1>8. IsFiniteSet(due)
  <2> HIDE DEF due
  <2> QED
    BY <1>7, PlacesAreCounted
<1>9. Cardinality(next) >= Limit \/ next = due
  <2> HIDE DEF due
  <2> QED
    BY <1>1, <1>7, <1>8, FirstOnesAreEnough
<1>10. Cardinality({Inventory[i] : i \in next}) = Cardinality(next)
  <2>1. next \in SUBSET (DOMAIN Inventory)
    BY <1>7
  <2> HIDE DEF next
  <2> QED
    BY <2>1, PlacesAreCounted
<1>11. {Inventory[i] : i \in next} \subseteq {Inventory[i] : i \in due}
  BY <1>7
<1> HIDE DEF due, next
<1> QED
  BY <1>3, <1>6, <1>9, <1>10, <1>11

\* While no sweep saved over another: the file is torn from when one begins to save, and
\* only one does; what the file, or the one that saves, says of readiness is what was seen;
\* as long as no check is old, the file, or the one that saves, covers what the sweeps that
\* are done could, and the others picked what had no entry when they loaded it.
IsBacked(state) ==
    \A p \in Processors :
        IF state[p] = Absent THEN wasReady[p] = Absent
        ELSE state[p].readyUntil = IF wasReady[p] = Absent THEN Absent ELSE wasReady[p] + ReadyTtl

Finished == {s \in Sweeps : sweep[s].at = "done"}

Covers(state, n) ==
    Cardinality(Seen(state)) >= IF n * Limit < Len(Inventory) THEN n * Limit ELSE Len(Inventory)

TakesEnough(state, picked) ==
    picked \subseteq Unseen(state) /\ (Cardinality(picked) >= Limit \/ picked = Unseen(state))

OneSaves ==
    \A s \in Sweeps :
        sweep[s].at = "saving" =>
            found = Torn /\ \A t \in Sweeps : sweep[t].at = "saving" => t = s

AllIsBacked ==
    /\ found # Torn => IsBacked(Entered)
    /\ \A s \in Sweeps : sweep[s].at = "saving" => IsBacked(sweep[s].result)

Fresh == Limit > 0 /\ clock < CheckTtl

AllIsCovered ==
    /\ found # Torn => Covers(Entered, Cardinality(Finished))
    /\ \A s \in Sweeps :
          /\ sweep[s].at \in {"gateway", "smoke", "save"} =>
                TakesEnough(sweep[s].loaded, sweep[s].picked)
          /\ sweep[s].at = "saving" => Covers(sweep[s].result, Cardinality(Finished) + 1)

GatewayInv ==
    DisTypeOK /\ (~overlapped => OneSaves /\ AllIsBacked /\ (Fresh => AllIsCovered))

LEMMA DiscoveryStarts == DisInit => GatewayInv
<1> SUFFICES ASSUME DisInit PROVE GatewayInv
  OBVIOUS
<1>1. /\ clock = 0 /\ found = Absent /\ sweep = [s \in Sweeps |-> IdleSweep]
      /\ wasReady = [p \in Processors |-> Absent] /\ overlapped = FALSE
  BY Zenon DEF DisInit
<1>2. MaxTime \in Nat /\ 0 \in Times /\ Limit \in Nat /\ Absent # Torn
  BY DiscoveryOK, ContentsOK DEF DiscoveryOK, ContentsOK, Times
<1>3. NoEntries \in DiscoveryStates
  BY DEF NoEntries, DiscoveryStates
<1>4. IdleSweep \in SweepStates
  BY <1>2, <1>3 DEF IdleSweep, SweepStates, Places, Gateways
<1>5. \A s \in Sweeps : sweep[s].at = "idle"
  BY <1>1 DEF IdleSweep
<1>6. DisTypeOK
  <2>1. overlapped \in BOOLEAN
    BY <1>1, Zenon
  <2>2. clock \in Times /\ found \in DiscoveryStates \cup {Absent, Torn}
    BY <1>1, <1>2
  <2>3. sweep \in [Sweeps -> SweepStates]
    BY <1>1, <1>4
  <2>4. wasReady \in [Processors -> Times \cup {Absent}]
    BY <1>1
  <2> QED
    BY <2>1, <2>2, <2>3, <2>4, Zenon DEF DisTypeOK
<1>7. Entered = NoEntries /\ \A p \in Processors : NoEntries[p] = Absent
  BY <1>1 DEF Entered, NoEntries
<1>8. OneSaves /\ AllIsBacked
  BY <1>1, <1>5, <1>7 DEF OneSaves, AllIsBacked, IsBacked
<1>9. AllIsCovered
  <2>1. Finished = {}
    BY <1>5 DEF Finished
  <2>2. Cardinality(Finished) = 0 /\ Cardinality(Seen(NoEntries)) \in Nat /\ Len(Inventory) \in Nat
    BY <2>1, FS_EmptySet, SeenIsCounted, FleetIsCounted
  <2>3. Covers(NoEntries, Cardinality(Finished))
    BY <1>2, <2>2 DEF Covers
  <2> QED
    BY <1>5, <1>7, <2>3 DEF AllIsCovered
<1> QED
  BY <1>6, <1>8, <1>9 DEF GatewayInv

\* A step of one sweep that neither saves nor begins to.
LEMMA SweepKeeps ==
  ASSUME GatewayInv, NEW s \in Sweeps, NEW next \in SweepStates,
         sweep' = [sweep EXCEPT ![s] = next],
         clock' = clock, found' = found, wasReady' = wasReady, overlapped' = overlapped,
         sweep[s].at # "done", next.at \notin {"saving", "done"},
         ~overlapped /\ Fresh /\ next.at \in {"gateway", "smoke", "save"} =>
            TakesEnough(next.loaded, next.picked)
  PROVE  GatewayInv'
<1>1. sweep \in [Sweeps -> SweepStates]
  BY DEF GatewayInv, DisTypeOK
<1>2. /\ sweep' \in [Sweeps -> SweepStates] /\ sweep'[s] = next
      /\ \A t \in Sweeps : t # s => sweep'[t] = sweep[t]
  BY <1>1
<1>3. DisTypeOK'
  BY <1>2 DEF GatewayInv, DisTypeOK
<1>4. Finished' = Finished /\ Entered' = Entered /\ (Fresh <=> Fresh')
  BY <1>2 DEF Finished, Entered, Fresh
<1>5. \A t \in Sweeps : sweep'[t].at = "saving" => t # s /\ sweep'[t] = sweep[t]
  BY <1>2
<1>6. ASSUME ~overlapped PROVE OneSaves' /\ AllIsBacked'
  BY <1>4, <1>5, <1>6 DEF GatewayInv, OneSaves, AllIsBacked, IsBacked
<1>7. ASSUME ~overlapped, Fresh PROVE AllIsCovered'
  <2>1. AllIsCovered
    BY <1>7 DEF GatewayInv
  <2>2. \A t \in Sweeps : sweep'[t].at \in {"gateway", "smoke", "save"} =>
                             TakesEnough(sweep'[t].loaded, sweep'[t].picked)
    BY <1>2, <1>7, <2>1 DEF AllIsCovered
  <2> QED
    BY <1>4, <1>5, <2>1, <2>2 DEF AllIsCovered
<1> QED
  BY <1>3, <1>4, <1>6, <1>7 DEF GatewayInv

\* The steps up to the saving, and the end of a process.
LEMMA ReadsKeep ==
  ASSUME GatewayInv, NEW s \in Sweeps,
         \/ Starts(s) \/ Killed(s)
         \/ \E agent \in BOOLEAN, tcp \in {"ok", "skipped", "failed"} : ChecksGateway(s, agent, tcp)
         \/ \E ok \in BOOLEAN : ProbesSmokeRoute(s, ok)
  PROVE  GatewayInv'
<1>1. /\ sweep \in [Sweeps -> SweepStates] /\ sweep[s] \in SweepStates
      /\ clock \in Times /\ found \in DiscoveryStates \cup {Absent, Torn}
      /\ MaxTime \in Nat /\ 0 \in Times
  BY DiscoveryOK DEF GatewayInv, DisTypeOK, DiscoveryOK, Times
<1>2. NoEntries \in DiscoveryStates
  BY DEF NoEntries, DiscoveryStates
<1>3. IdleSweep \in SweepStates
  BY <1>1, <1>2 DEF IdleSweep, SweepStates, Places, Gateways
<1>4. CASE Starts(s)
  <2>1. /\ clock' = clock /\ found' = found /\ wasReady' = wasReady /\ overlapped' = overlapped
        /\ sweep[s].at = "idle"
    BY <1>4 DEF Starts
  <2>2. CASE found = Torn
    <3> DEFINE next == [sweep[s] EXCEPT !.at = "failed"]
    <3>1. sweep' = [sweep EXCEPT ![s] = next]
      BY <1>4, <2>2 DEF Starts
    <3>2. next \in SweepStates /\ next.at = "failed"
      BY <1>1 DEF SweepStates, Places
    <3> HIDE DEF next
    <3> QED
      BY <2>1, <3>1, <3>2, SweepKeeps
  <2>3. CASE found # Torn
    <3> DEFINE next == [IdleSweep EXCEPT !.at = "gateway", !.loaded = Entered,
                                         !.picked = SelectNext(Entered), !.since = clock]
    <3>1. sweep' = [sweep EXCEPT ![s] = next]
      BY <1>4, <2>3 DEF Starts
    <3>2. Entered \in DiscoveryStates
      BY <1>1, <1>2, <2>3 DEF Entered
    <3>3. SelectNext(Entered) \subseteq Processors
      BY DEF SelectNext, Processors, Range
    <3>4. /\ next \in SweepStates /\ next.at = "gateway" /\ next.loaded = Entered
          /\ next.picked = SelectNext(Entered)
      BY <1>1, <1>3, <3>2, <3>3 DEF SweepStates, Places
    <3>5. Fresh => TakesEnough(next.loaded, next.picked)
      BY <1>1, <3>2, <3>4, SweepTakesUnseen DEF Fresh, TakesEnough
    <3> HIDE DEF next
    <3> QED
      BY <2>1, <3>1, <3>4, <3>5, SweepKeeps
  <2> QED
    BY <2>2, <2>3
<1>5. CASE Killed(s)
  <2> DEFINE next == [IdleSweep EXCEPT !.at = "failed"]
  <2>1. /\ clock' = clock /\ found' = found /\ wasReady' = wasReady /\ overlapped' = overlapped
        /\ sweep[s].at # "done" /\ sweep' = [sweep EXCEPT ![s] = next]
    BY <1>5 DEF Killed
  <2>2. next \in SweepStates /\ next.at = "failed"
    BY <1>3 DEF SweepStates, Places
  <2> HIDE DEF next
  <2> QED
    BY <2>1, <2>2, SweepKeeps
<1>6. ASSUME NEW next \in SweepStates, sweep' = [sweep EXCEPT ![s] = next],
             clock' = clock, found' = found, wasReady' = wasReady, overlapped' = overlapped,
             sweep[s].at \in {"gateway", "smoke"}, next.at \in {"smoke", "save"},
             next.loaded = sweep[s].loaded, next.picked = sweep[s].picked
      PROVE  GatewayInv'
  <2>1. ~overlapped /\ Fresh => TakesEnough(next.loaded, next.picked)
    BY <1>6 DEF GatewayInv, AllIsCovered
  <2> QED
    BY <1>6, <2>1, SweepKeeps
<1>7. ASSUME NEW agent \in BOOLEAN, NEW tcp \in {"ok", "skipped", "failed"},
             ChecksGateway(s, agent, tcp)
      PROVE  GatewayInv'
  <2>1. PICK wanted \in BOOLEAN :
           sweep' = [sweep EXCEPT ![s] =
                       [@ EXCEPT !.gateway = [agent |-> agent, tcp |-> tcp, smoke |-> TRUE],
                                 !.at = IF wanted /\ tcp # "skipped" THEN "smoke" ELSE "save"]]
    BY <1>7 DEF ChecksGateway
  <2> DEFINE next == [sweep[s] EXCEPT !.gateway = [agent |-> agent, tcp |-> tcp, smoke |-> TRUE],
                                      !.at = IF wanted /\ tcp # "skipped" THEN "smoke" ELSE "save"]
  <2>2. sweep' = [sweep EXCEPT ![s] = next]
    BY <1>1, <2>1
  <2>3. /\ next \in SweepStates /\ next.at \in {"smoke", "save"}
        /\ next.loaded = sweep[s].loaded /\ next.picked = sweep[s].picked
    BY <1>1 DEF SweepStates, Places, Gateways
  <2>4. /\ clock' = clock /\ found' = found /\ wasReady' = wasReady /\ overlapped' = overlapped
        /\ sweep[s].at = "gateway"
    BY <1>7 DEF ChecksGateway
  <2> HIDE DEF next
  <2> QED
    BY <1>6, <2>2, <2>3, <2>4
<1>8. ASSUME NEW ok \in BOOLEAN, ProbesSmokeRoute(s, ok) PROVE GatewayInv'
  <2> DEFINE gate == [sweep[s].gateway EXCEPT !.smoke = ok]
             next == [sweep[s] EXCEPT !.gateway = gate, !.at = "save"]
  <2>1. sweep' = [sweep EXCEPT ![s] = next]
    BY <1>1, <1>8 DEF ProbesSmokeRoute
  <2>2. sweep[s].gateway \in Gateways
    BY <1>1 DEF SweepStates
  <2>3. gate \in Gateways
    BY <2>2 DEF Gateways
  <2> HIDE DEF gate
  <2>4. /\ next \in SweepStates /\ next.at = "save"
        /\ next.loaded = sweep[s].loaded /\ next.picked = sweep[s].picked
    BY <1>1, <2>3 DEF SweepStates, Places
  <2>5. /\ clock' = clock /\ found' = found /\ wasReady' = wasReady /\ overlapped' = overlapped
        /\ sweep[s].at = "smoke"
    BY <1>8 DEF ProbesSmokeRoute
  <2> HIDE DEF next
  <2> QED
    BY <1>6, <2>1, <2>4, <2>5
<1> QED
  BY <1>4, <1>5, <1>7, <1>8

\* An update gives an entry to what was checked, and leaves the others.
LEMMA UpdateGivesEntries ==
  ASSUME NEW state \in DiscoveryStates, NEW picked \in SUBSET Processors, NEW since \in Times,
         NEW status \in [Processors -> Statuses]
  PROVE  /\ Updated(state, picked, since, status) \in DiscoveryStates
         /\ \A p \in picked :
               LET new == Updated(state, picked, since, status)[p] IN
               /\ new # Absent
               /\ new.readyUntil = IF status[p] = "ready" THEN since + ReadyTtl
                                   ELSE IF state[p] = Absent THEN Absent
                                   ELSE state[p].readyUntil
         /\ \A p \in Processors \ picked : Updated(state, picked, since, status)[p] = state[p]
<1> DEFINE result == Updated(state, picked, since, status)
           until(p) == IF status[p] = "ready" THEN since + ReadyTtl
                       ELSE IF state[p] = Absent THEN Absent ELSE state[p].readyUntil
           entry(p) == [checked |-> since, status |-> status[p], readyUntil |-> until(p)]
<1>1. result = [p \in Processors |-> IF p \notin picked THEN state[p] ELSE entry(p)]
  BY DEF Updated
<1>2. MaxTime \in Nat /\ ReadyTtl \in Nat /\ since \in Nat /\ since <= MaxTime /\ Absent \notin Entries
  BY DiscoveryOK, EntriesOK DEF DiscoveryOK, EntriesOK, Times
<1>3. ASSUME NEW p \in Processors PROVE entry(p) \in Entries
  <2>1. until(p) \in {Absent} \cup 0 .. MaxTime + ReadyTtl
    <3>1. since + ReadyTtl \in 0 .. MaxTime + ReadyTtl
      BY <1>2
    <3>2. state[p] # Absent => state[p] \in Entries
      BY DEF DiscoveryStates
    <3>3. state[p] # Absent => state[p].readyUntil \in {Absent} \cup 0 .. MaxTime + ReadyTtl
      BY <3>2 DEF Entries
    <3> QED
      BY <3>1, <3>3
  <2> HIDE DEF until
  <2> QED
    BY <2>1 DEF Entries
<1>4. \A p \in picked : entry(p).readyUntil = until(p)
  OBVIOUS
<1> HIDE DEF entry, result
<1>5. result \in DiscoveryStates
  BY <1>1, <1>3 DEF DiscoveryStates
<1>6. \A p \in picked : result[p] = entry(p) /\ entry(p) # Absent
  BY <1>1, <1>2, <1>3
<1>7. \A p \in Processors \ picked : result[p] = state[p]
  BY <1>1
<1> QED
  BY <1>4, <1>5, <1>6, <1>7 DEF result

\* A sweep covers what the file did, and what it picked besides.
LEMMA SavingCovers ==
  ASSUME NEW state, NEW picked, NEW result, NEW n \in Nat, Limit > 0,
         Covers(state, n), TakesEnough(state, picked),
         \A p \in picked : result[p] # Absent,
         \A p \in Processors \ picked : result[p] = state[p]
  PROVE  Covers(result, n + 1)
<1> DEFINE a == Cardinality(Seen(state))
           b == Cardinality(Unseen(state))
           c == Cardinality(picked)
           x == n * Limit
           N == Len(Inventory)
<1>1. Limit \in Nat
  BY DiscoveryOK DEF DiscoveryOK
<1>2. a \in Nat /\ b \in Nat /\ a + b = N /\ IsFiniteSet(Seen(state)) /\ IsFiniteSet(Unseen(state))
  BY SeenIsCounted
<1>3. picked \in SUBSET Unseen(state)
  BY DEF TakesEnough
<1>4. IsFiniteSet(picked) /\ c \in Nat
  <2>1. IsFiniteSet(picked)
    BY <1>2, <1>3, FS_Subset
  <2> QED
    BY <2>1, FS_CardinalityType
<1>5. Seen(result) = Seen(state) \cup picked /\ Seen(state) \cap picked = {}
  BY <1>3 DEF Seen, Unseen
<1>6. Cardinality(Seen(result)) = a + c
  <2>1. Cardinality(Seen(state) \cup picked) = a + c - Cardinality({})
    BY <1>2, <1>4, <1>5, FS_Union
  <2>2. Cardinality({}) = 0
    BY FS_EmptySet
  <2> HIDE DEF a, c
  <2> QED
    BY <1>2, <1>4, <1>5, <2>1, <2>2
<1>7. c >= Limit \/ c = b
  BY DEF TakesEnough
<1>8. x \in Nat /\ (n + 1) * Limit = x + Limit
  BY <1>1
<1>9. N \in Nat
  BY FleetIsCounted
<1>10. a >= IF x < N THEN x ELSE N
  BY DEF Covers
<1> HIDE DEF a, b, c, x, N
<1>11. a + c >= IF x + Limit < N THEN x + Limit ELSE N
  BY <1>1, <1>2, <1>4, <1>7, <1>8, <1>9, <1>10
<1> QED
  BY <1>6, <1>8, <1>11 DEF Covers, N

\* A sweep that begins to save does so from the file as it is, or overlaps.
LEMMA StartsSavingKeeps ==
  ASSUME GatewayInv, NEW s \in Sweeps, NEW readiness \in [Processors -> Readiness],
         StartsSaving(s, readiness)
  PROVE  GatewayInv'
<1> DEFINE old == sweep[s]
           status == [p \in Processors |-> StatusOf(readiness[p], old.gateway)]
           result == Updated(old.loaded, old.picked, old.since, status)
           next == [old EXCEPT !.at = "saving", !.result = result]
<1>1. /\ sweep \in [Sweeps -> SweepStates] /\ old \in SweepStates
      /\ clock \in Times /\ found \in DiscoveryStates \cup {Absent, Torn}
      /\ wasReady \in [Processors -> Times \cup {Absent}] /\ overlapped \in BOOLEAN
      /\ MaxTime \in Nat /\ ReadyTtl \in Nat /\ Absent \notin Times /\ Torn \notin DiscoveryStates
  BY DiscoveryOK, EntriesOK DEF GatewayInv, DisTypeOK, DiscoveryOK, EntriesOK
<1>2. /\ old.at = "save" /\ sweep' = [sweep EXCEPT ![s] = next]
      /\ wasReady' = [p \in Processors |->
                          IF p \in old.picked /\ status[p] = "ready" THEN old.since ELSE wasReady[p]]
      /\ overlapped' = (overlapped \/ Entered # old.loaded)
      /\ found' = Torn /\ clock' = clock
  BY DEF StartsSaving
<1>3. status \in [Processors -> Statuses]
  <2>1. \A p \in Processors : readiness[p] \in Readiness
    OBVIOUS
  <2>2. \A p \in Processors : StatusOf(readiness[p], old.gateway) \in Statuses
    BY <2>1 DEF StatusOf, Statuses, Readiness
  <2> QED
    BY <2>2
<1>4. old.loaded \in DiscoveryStates /\ old.picked \in SUBSET Processors /\ old.since \in Times
  BY <1>1 DEF SweepStates
<1> HIDE DEF status
<1>5. /\ result \in DiscoveryStates
      /\ \A p \in old.picked :
            /\ result[p] # Absent
            /\ result[p].readyUntil = IF status[p] = "ready" THEN old.since + ReadyTtl
                                      ELSE IF old.loaded[p] = Absent THEN Absent
                                      ELSE old.loaded[p].readyUntil
      /\ \A p \in Processors \ old.picked : result[p] = old.loaded[p]
  BY <1>3, <1>4, UpdateGivesEntries
<1> HIDE DEF result
<1>6. next \in SweepStates /\ next.at = "saving" /\ next.result = result
  BY <1>1, <1>5 DEF SweepStates, Places
<1> HIDE DEF next
<1>7. /\ sweep' \in [Sweeps -> SweepStates] /\ sweep'[s] = next
      /\ \A t \in Sweeps : t # s => sweep'[t] = sweep[t]
  BY <1>1, <1>2, <1>6
<1>8. wasReady' \in [Processors -> Times \cup {Absent}]
  BY <1>1, <1>2, <1>4
<1>9. overlapped' \in BOOLEAN
  BY <1>1, <1>2
<1>10. DisTypeOK'
  BY <1>1, <1>2, <1>7, <1>8, <1>9 DEF DisTypeOK
<1>11. ASSUME ~overlapped' PROVE OneSaves' /\ AllIsBacked' /\ (Fresh' => AllIsCovered')
  <2>1. ~overlapped /\ Entered = old.loaded
    BY <1>2, <1>11
  <2>2. found # Torn
    BY <1>1, <1>4, <2>1, ContentsOK DEF Entered, ContentsOK
  <2>3. \A t \in Sweeps : sweep[t].at # "saving"
    BY <2>1, <2>2 DEF GatewayInv, OneSaves
  <2>4. \A t \in Sweeps : sweep'[t].at = "saving" => t = s
    BY <1>7, <2>3
  <2>5. OneSaves'
    BY <1>2, <2>4 DEF OneSaves
  <2>6. IsBacked(old.loaded)
    BY <2>1, <2>2 DEF GatewayInv, AllIsBacked
  <2>7. \A p \in Processors :
           IF result[p] = Absent THEN wasReady'[p] = Absent
           ELSE result[p].readyUntil = IF wasReady'[p] = Absent THEN Absent ELSE wasReady'[p] + ReadyTtl
    <3> SUFFICES ASSUME NEW p \in Processors
                 PROVE  IF result[p] = Absent THEN wasReady'[p] = Absent
                        ELSE result[p].readyUntil =
                               IF wasReady'[p] = Absent THEN Absent ELSE wasReady'[p] + ReadyTtl
      OBVIOUS
    <3>1. IF old.loaded[p] = Absent THEN wasReady[p] = Absent
          ELSE old.loaded[p].readyUntil = IF wasReady[p] = Absent THEN Absent ELSE wasReady[p] + ReadyTtl
      BY <2>6 DEF IsBacked
    <3>2. CASE p \notin old.picked
      BY <1>2, <1>5, <3>1, <3>2
    <3>3. CASE p \in old.picked /\ status[p] = "ready"
      <4>1. wasReady'[p] = old.since /\ old.since # Absent
        BY <1>1, <1>2, <1>4, <3>3
      <4> QED
        BY <1>5, <3>3, <4>1
    <3>4. CASE p \in old.picked /\ status[p] # "ready"
      <4>1. wasReady'[p] = wasReady[p]
        BY <1>2, <3>4
      <4> QED
        BY <1>5, <3>1, <3>4, <4>1
    <3> QED
      BY <3>2, <3>3, <3>4
  <2>8. AllIsBacked'
    BY <1>2, <1>6, <1>7, <2>4, <2>7 DEF AllIsBacked, IsBacked
  <2>9. ASSUME Fresh' PROVE AllIsCovered'
    <3>1. Fresh
      BY <1>2, <2>9 DEF Fresh
    <3>2. AllIsCovered
      BY <2>1, <3>1 DEF GatewayInv
    <3>3. Covers(old.loaded, Cardinality(Finished)) /\ TakesEnough(old.loaded, old.picked)
      BY <1>2, <2>1, <2>2, <3>2 DEF AllIsCovered
    <3>4. Cardinality(Finished) \in Nat
      <4>1. Finished \in SUBSET Sweeps /\ IsFiniteSet(Sweeps)
        BY DiscoveryOK DEF Finished, DiscoveryOK
      <4>2. IsFiniteSet(Finished)
        BY <4>1, FS_Subset
      <4> QED
        BY <4>2, FS_CardinalityType
    <3>5. Covers(result, Cardinality(Finished) + 1)
      BY <1>5, <3>1, <3>3, <3>4, SavingCovers DEF Fresh
    <3>6. Finished' = Finished
      BY <1>2, <1>6, <1>7 DEF Finished
    <3>7. \A t \in Sweeps : sweep'[t].at \in {"gateway", "smoke", "save"} =>
                               TakesEnough(sweep'[t].loaded, sweep'[t].picked)
      BY <1>6, <1>7, <3>2 DEF AllIsCovered
    <3> QED
      BY <1>2, <1>6, <1>7, <2>4, <3>5, <3>6, <3>7 DEF AllIsCovered
  <2> QED
    BY <2>5, <2>8, <2>9
<1> QED
  BY <1>10, <1>11 DEF GatewayInv

\* What a sweep saves is what was said of it.
LEMMA SavesKeeps ==
  ASSUME GatewayInv, NEW s \in Sweeps, Saves(s)
  PROVE  GatewayInv'
<1> DEFINE old == sweep[s]
           next == [IdleSweep EXCEPT !.at = "done"]
<1>1. /\ sweep \in [Sweeps -> SweepStates] /\ old \in SweepStates
      /\ MaxTime \in Nat /\ 0 \in Times /\ Absent \notin DiscoveryStates
  BY DiscoveryOK, EntriesOK, ContentsOK
     DEF GatewayInv, DisTypeOK, DiscoveryOK, EntriesOK, ContentsOK, Times
<1>2. NoEntries \in DiscoveryStates
  BY DEF NoEntries, DiscoveryStates
<1>3. IdleSweep \in SweepStates
  BY <1>1, <1>2 DEF IdleSweep, SweepStates, Places, Gateways
<1>4. next \in SweepStates /\ next.at = "done"
  BY <1>3 DEF SweepStates, Places
<1>5. /\ old.at = "saving" /\ found' = old.result /\ sweep' = [sweep EXCEPT ![s] = next]
      /\ clock' = clock /\ wasReady' = wasReady /\ overlapped' = overlapped
  BY DEF Saves
<1> HIDE DEF next
<1>6. /\ sweep' \in [Sweeps -> SweepStates] /\ sweep'[s] = next
      /\ \A t \in Sweeps : t # s => sweep'[t] = sweep[t]
  BY <1>1, <1>4, <1>5
<1>7. old.result \in DiscoveryStates
  BY <1>1 DEF SweepStates
<1>8. DisTypeOK'
  BY <1>5, <1>6, <1>7 DEF GatewayInv, DisTypeOK
<1>9. ASSUME ~overlapped' PROVE OneSaves' /\ AllIsBacked' /\ (Fresh' => AllIsCovered')
  <2>1. ~overlapped
    BY <1>5, <1>9
  <2>2. \A t \in Sweeps : sweep'[t].at # "saving"
    BY <1>4, <1>5, <1>6, <2>1 DEF GatewayInv, OneSaves
  <2>3. Entered' = old.result \/ Entered' = NoEntries
    BY <1>5 DEF Entered
  <2>4. found' # Absent => Entered' = old.result
    BY <1>5 DEF Entered
  <2>5. found' # Absent
    BY <1>1, <1>5, <1>7
  <2>6. AllIsBacked'
    <3>1. IsBacked(old.result)
      BY <1>5, <2>1 DEF GatewayInv, AllIsBacked
    <3> QED
      BY <1>5, <2>2, <2>4, <2>5, <3>1 DEF AllIsBacked, IsBacked
  <2>7. ASSUME Fresh' PROVE AllIsCovered'
    <3>1. Fresh
      BY <1>5, <2>7 DEF Fresh
    <3>2. AllIsCovered
      BY <2>1, <3>1 DEF GatewayInv
    <3>3. Finished' = Finished \cup {s} /\ s \notin Finished
      BY <1>4, <1>5, <1>6 DEF Finished
    <3>4. IsFiniteSet(Finished)
      <4>1. Finished \in SUBSET Sweeps /\ IsFiniteSet(Sweeps)
        BY DiscoveryOK DEF Finished, DiscoveryOK
      <4> QED
        BY <4>1, FS_Subset
    <3>5. Cardinality(Finished') = Cardinality(Finished) + 1
      BY <3>3, <3>4, FS_AddElement
    <3>6. Covers(old.result, Cardinality(Finished) + 1)
      BY <1>5, <3>2 DEF AllIsCovered
    <3>7. \A t \in Sweeps : sweep'[t].at \in {"gateway", "smoke", "save"} =>
                               TakesEnough(sweep'[t].loaded, sweep'[t].picked)
      BY <1>4, <1>6, <3>2 DEF AllIsCovered
    <3> QED
      BY <2>2, <2>4, <2>5, <3>5, <3>6, <3>7 DEF AllIsCovered
  <2> QED
    BY <2>2, <2>6, <2>7 DEF OneSaves
<1> QED
  BY <1>8, <1>9 DEF GatewayInv

LEMMA DiscoveryStep == GatewayInv /\ [DisNext]_disVars => GatewayInv'
<1> SUFFICES ASSUME GatewayInv, [DisNext]_disVars PROVE GatewayInv'
  OBVIOUS
<1>1. ASSUME NEW s \in Sweeps, DisStep(s) \/ Killed(s) PROVE GatewayInv'
  BY <1>1, ReadsKeep, StartsSavingKeeps, SavesKeeps DEF DisStep
<1>2. ASSUME clock' \in Times, clock <= clock', found' = found, sweep' = sweep,
             wasReady' = wasReady, overlapped' = overlapped
      PROVE  GatewayInv'
  <2>1. DisTypeOK'
    BY <1>2 DEF GatewayInv, DisTypeOK
  <2>2. Finished' = Finished /\ Entered' = Entered
    BY <1>2 DEF Finished, Entered
  <2>3. Fresh' => Fresh
    <3>1. clock \in Nat /\ clock' \in Nat /\ CheckTtl \in Nat
      BY <1>2, DiscoveryOK DEF GatewayInv, DisTypeOK, DiscoveryOK, Times
    <3> QED
      BY <1>2, <3>1 DEF Fresh
  <2>4. ~overlapped => OneSaves' /\ AllIsBacked'
    BY <1>2, <2>2 DEF GatewayInv, OneSaves, AllIsBacked, IsBacked
  <2>5. ~overlapped /\ Fresh' => AllIsCovered'
    BY <1>2, <2>2, <2>3 DEF GatewayInv, AllIsCovered
  <2> QED
    BY <1>2, <2>1, <2>4, <2>5 DEF GatewayInv
<1>3. CASE TimePasses
  <2>1. clock \in Nat /\ MaxTime \in Nat /\ clock < MaxTime /\ clock' = clock + 1
    BY <1>3, DiscoveryOK DEF GatewayInv, DisTypeOK, DiscoveryOK, Times, TimePasses
  <2>2. clock' \in Times /\ clock <= clock'
    BY <2>1 DEF Times
  <2> QED
    BY <1>2, <1>3, <2>2 DEF TimePasses
<1>4. CASE UNCHANGED disVars
  <2>1. clock \in Nat /\ clock \in Times
    BY DiscoveryOK DEF GatewayInv, DisTypeOK, DiscoveryOK, Times
  <2> QED
    BY <1>2, <1>4, <2>1 DEF disVars
<1> QED
  BY <1>1, <1>3, <1>4 DEF DisNext

\* As long as no sweep saved over another, a processor counts as ready only for so long
\* after it was seen ready; and sweeps with a limit cover that many processors each, or the
\* whole fleet, before a check is old.
THEOREM SweepsAreSafe == DisSpec => []GatewaySafe
<1>1. GatewayInv => GatewaySafe
  <2> SUFFICES ASSUME GatewayInv PROVE GatewaySafe
    OBVIOUS
  <2>1. ReadyIsBacked
    BY DEF GatewayInv, AllIsBacked, IsBacked, Entered, ReadyIsBacked
  <2>2. SweepsCoverFleet
    BY DEF GatewayInv, AllIsCovered, Covers, Seen, Finished, Fresh, Entered, SweepsCoverFleet
  <2> QED
    BY <2>1, <2>2 DEF GatewayInv, GatewaySafe
<1> QED
  BY <1>1, DiscoveryStarts, DiscoveryStep, PTL DEF DisSpec

===============================================================================
