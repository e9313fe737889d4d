------------------------------ MODULE RelayFiles ------------------------------
(***************************************************************************)
(* The files an operator keeps of the relays, and the commands that        *)
(* rewrite them (cli/src/relay, cli/src/catalog): relays/catalog.json with *)
(* the state of every relay, relays/<id>.json with the specification of    *)
(* each, and the signed bundle that is built of them and published.        *)
(*                                                                         *)
(* The commands are processes that nothing keeps apart: each reads, waits, *)
(* and overwrites.  Only the bundle is put in place by a rename.           *)
(*                                                                         *)
(* Of a state it matters whether the relay is advertised; of the fields of *)
(* a specification, those that `pick-processor` and `budget` write.  Urls, *)
(* weights and the keys that `scaffold` prints are left out.               *)
(***************************************************************************)
EXTENDS Naturals

CONSTANTS
    Relays,
    Actors,           \* bound: the commands that run at a time
    MaxFileCommands   \* bound: the commands

ASSUME RelaysOK == Relays # {} /\ MaxFileCommands \in Nat

VARIABLES
    stateFile,     \* relays/catalog.json
    specs,         \* relays/<id>.json
    signedBundle,  \* PROOF_SERVICE_CATALOGS_OUTPUT_FILE
    published,     \* the relay catalog that the network serves
    doing,         \* the commands
    commands,      \* how many were started
    off            \* history: the relays whose disabling stands

fileVars == <<stateFile, specs, signedBundle, published, doing, commands, off>>

CatalogStates == {"active", "disabled"}
StateEntries == [Relays -> CatalogStates \cup {"out"}]
NoStates == [r \in Relays |-> "out"]
SpecKinds == {"none", "torn", "stub", "bootstrap", "acurast"}
Specs == [kind : SpecKinds, state : CatalogStates, pin : BOOLEAN, cost : BOOLEAN]
NoSpec == [kind |-> "none", state |-> "active", pin |-> FALSE, cost |-> FALSE]
Documents == [kind : {"none", "torn", "whole"}, of : StateEntries]

FileOps == {"sync", "setState", "build", "backfill", "scaffold", "pick", "budget"}
FirstRelay == CHOOSE r \in Relays : TRUE
Idle == [op |-> "none", relay |-> FirstRelay, state |-> "active", force |-> FALSE,
         place |-> "idle", entries |-> NoStates, left |-> {}, spec |-> NoSpec,
         stale |-> {}, off |-> {}]

FilesTypeOK ==
    /\ stateFile \in Documents /\ signedBundle \in Documents
    /\ specs \in [Relays -> Specs]
    /\ published \in StateEntries
    /\ \A a \in Actors :
          /\ doing[a].op \in FileOps \cup {"none"}
          /\ doing[a].entries \in StateEntries
          /\ doing[a].spec \in Specs
          /\ doing[a].left \subseteq Relays /\ doing[a].off \subseteq Relays
          /\ doing[a].stale \subseteq Relays \cup {"states"}
          /\ doing[a].place \in {"idle", "fetch", "look", "read", "open", "write", "nextSpec",
                                   "openSpec", "writeSpec", "load", "states", "tmp", "rename"}
    /\ commands \in 0..MaxFileCommands
    /\ off \subseteq Relays

FilesInit ==
    /\ published = [NoStates EXCEPT ![FirstRelay] = "active"]
    /\ stateFile = [kind |-> "whole", of |-> [r \in Relays |-> "active"]]
    /\ specs = [r \in Relays |->
                   [NoSpec EXCEPT !.kind = IF r = FirstRelay THEN "acurast" ELSE "none"]]
    /\ signedBundle = [kind |-> "none", of |-> NoStates]
    /\ doing = [a \in Actors |-> Idle]
    /\ commands = 0
    /\ off = {}

(***************************************************************************)
(* The life of a command                                                   *)
(***************************************************************************)

FirstPlace(op) == CASE op \in {"sync", "backfill"} -> "fetch"
                    [] op = "build" -> "load"
                    [] op = "scaffold" -> "look"
                    [] OTHER -> "read"

\* "force" is --force, and for setState --no-rebuild.
Start(a) ==
    /\ doing[a].place = "idle"
    /\ commands < MaxFileCommands
    /\ \E op \in FileOps, r \in Relays, s \in CatalogStates, f \in BOOLEAN :
          /\ op \in {"sync", "build", "backfill"} => r = FirstRelay
          /\ op \notin {"setState", "scaffold"} => s = "active"
          /\ f => op \in {"setState", "scaffold", "backfill"}
          /\ doing' = [doing EXCEPT ![a] = [Idle EXCEPT
                            !.op = op, !.relay = r, !.state = s, !.force = f,
                            !.place = FirstPlace(op)]]
    /\ commands' = commands + 1
    /\ UNCHANGED <<stateFile, specs, signedBundle, published, off>>

\* A step may throw, and a process may end, anywhere.  A state file that is
\* left torn has forgotten what was disabled.
Quit(a) ==
    /\ doing[a].place # "idle"
    /\ doing' = [doing EXCEPT ![a] = Idle]
    /\ off' = IF doing[a].place = "write" THEN {} ELSE off
    /\ UNCHANGED <<stateFile, specs, signedBundle, published, commands>>

Becomes(a, next) == doing' = [doing EXCEPT ![a] = next]
UnchangedFiles == UNCHANGED <<stateFile, specs, signedBundle, published, commands, off>>

\* The others hold a copy of the file that is not the last.
Wrote(a, file, next) ==
    doing' = [b \in Actors |->
        IF b = a THEN next ELSE [doing[b] EXCEPT !.stale = @ \cup {file}]]

(***************************************************************************)
(* relays/catalog.json                                                     *)
(***************************************************************************)

\* discoverServices, when it answers.
Fetch(a) ==
    /\ doing[a].place = "fetch"
    /\ Becomes(a, [doing[a] EXCEPT !.entries = published,
                                     !.left = {r \in Relays : published[r] # "out"},
                                     !.place = IF doing[a].op = "sync" THEN "look" ELSE "nextSpec"])
    /\ UnchangedFiles

\* Which of the specifications are new is found out before anything is written.
LookForSpecs(a) ==
    /\ doing[a].place = "look" /\ doing[a].op = "sync"
    /\ Becomes(a, [doing[a] EXCEPT !.left = {r \in @ : specs[r].kind = "none"},
                                     !.stale = {}, !.place = "open"])
    /\ UnchangedFiles

\* The state is given to whatever is in the file.
WithStateOfAll(entries, relay, state) ==
    [r \in Relays |-> IF entries[r] = "out" THEN "out" ELSE state]

\* withRelayCatalogState: the relay has to be there.
WithState(entries, relay, state) == [entries EXCEPT ![relay] = state]

ReadStates(a) ==
    LET c == doing[a] IN
    /\ c.place = "read" /\ c.op = "setState"
    /\ stateFile.kind = "whole" /\ stateFile.of[c.relay] # "out"
    /\ Becomes(a, [c EXCEPT !.entries = WithState(stateFile.of, c.relay, c.state),
                            !.stale = @ \ {"states"}, !.off = off, !.place = "open"])
    /\ UnchangedFiles

\* writeFile empties the file, and fills it.
OpenStates(a) ==
    /\ doing[a].place = "open"
    /\ stateFile' = [kind |-> "torn", of |-> NoStates]
    /\ Becomes(a, [doing[a] EXCEPT !.place = "write"])
    /\ UNCHANGED <<specs, signedBundle, published, commands, off>>

\* What is disabled stays so unless a sync, or an older copy, is written.
WriteStates(a) ==
    LET c == doing[a]
        kept == IF c.op = "sync" \/ "states" \in c.stale THEN {} ELSE off \ {c.relay}
    IN
    /\ c.place = "write"
    /\ stateFile' = [kind |-> "whole", of |-> c.entries]
    /\ off' = kept \cup (IF c.op = "setState" /\ c.state = "disabled" THEN {c.relay} ELSE {})
    /\ Wrote(a, "states",
             CASE c.op = "sync" -> [c EXCEPT !.place = "nextSpec"]
               [] c.op = "setState" /\ ~c.force -> [c EXCEPT !.off = off', !.place = "tmp"]
               [] OTHER -> Idle)
    /\ UNCHANGED <<specs, signedBundle, published, commands>>

(***************************************************************************)
(* relays/<id>.json                                                        *)
(***************************************************************************)

Exists(r) == specs[r].kind # "none"

\* The next of the members whose specification is written; backfill looks for
\* it now.
NextSpec(a) ==
    LET c == doing[a] IN
    /\ c.place = "nextSpec"
    /\ \/ c.left = {} /\ Becomes(a, Idle)
       \/ \E r \in c.left :
             /\ c.op = "backfill" /\ Exists(r) /\ ~c.force
             /\ Becomes(a, [c EXCEPT !.left = @ \ {r}])
       \/ \E r \in c.left :
             /\ c.op = "backfill" /\ (~Exists(r) \/ c.force)
             /\ \E kind \in {"bootstrap", "acurast"} :
                   Becomes(a, [c EXCEPT !.relay = r, !.left = @ \ {r}, !.stale = @ \ {r},
                                        !.spec = [NoSpec EXCEPT !.kind = kind, !.state = c.entries[r]],
                                        !.place = "openSpec"])
       \/ \E r \in c.left :
             /\ c.op = "sync"
             /\ Becomes(a, [c EXCEPT !.relay = r, !.left = @ \ {r},
                                     !.spec = [NoSpec EXCEPT !.kind = "stub", !.state = c.entries[r]],
                                     !.place = "openSpec"])
    /\ UnchangedFiles

Scaffold(a) ==
    LET c == doing[a] IN
    /\ c.place = "look" /\ c.op = "scaffold"
    /\ Exists(c.relay) => c.force
    /\ \E kind \in {"bootstrap", "acurast"} :
          Becomes(a, [c EXCEPT !.spec = [NoSpec EXCEPT !.kind = kind, !.state = c.state],
                               !.stale = @ \ {c.relay}, !.place = "openSpec"])
    /\ UnchangedFiles

\* What is written is the field alone.
EditedAnew(c, spec) ==
    IF c.op = "pick" THEN [NoSpec EXCEPT !.kind = spec.kind, !.pin = TRUE]
                     ELSE [NoSpec EXCEPT !.kind = spec.kind, !.cost = TRUE]

\* The file as it was read, with one field that is new: the pinned processor,
\* or the duration and its cost.
Edited(c, spec) ==
    IF c.op = "pick" THEN [spec EXCEPT !.pin = TRUE] ELSE [spec EXCEPT !.cost = TRUE]

\* Only the specification of a relay on Acurast; `pick-processor` asks the chain
\* before it writes.
ReadSpec(a) ==
    LET c == doing[a] IN
    /\ c.place = "read" /\ c.op \in {"pick", "budget"}
    /\ specs[c.relay].kind = "acurast"
    /\ Becomes(a, [c EXCEPT !.spec = Edited(c, specs[c.relay]), !.stale = @ \ {c.relay},
                            !.place = "openSpec"])
    /\ UnchangedFiles

OpenSpec(a) ==
    LET c == doing[a] IN
    /\ c.place = "openSpec"
    /\ specs' = [specs EXCEPT ![c.relay] = [NoSpec EXCEPT !.kind = "torn"]]
    /\ Wrote(a, c.relay, [c EXCEPT !.place = "writeSpec"])
    /\ UNCHANGED <<stateFile, signedBundle, published, commands, off>>

WriteSpec(a) ==
    LET c == doing[a] IN
    /\ c.place = "writeSpec"
    /\ specs' = [specs EXCEPT ![c.relay] = c.spec]
    /\ Wrote(a, c.relay,
             IF c.op \in {"sync", "backfill"} THEN [c EXCEPT !.place = "nextSpec"] ELSE Idle)
    /\ UNCHANGED <<stateFile, signedBundle, published, commands, off>>

(***************************************************************************)
(* The bundle                                                              *)
(***************************************************************************)

\* A specification that does not parse throws; one that is not complete counts.
LoadSpecs(a) ==
    LET c == doing[a] IN
    /\ c.place = "load"
    /\ \E r \in Relays : Exists(r)
    /\ \A r \in Relays : specs[r].kind # "torn"
    /\ Becomes(a, [c EXCEPT !.entries = [r \in Relays |-> IF Exists(r) THEN specs[r].state ELSE "out"],
                            !.place = "states"])
    /\ UnchangedFiles

\* What the specification says goes first.
StateOrRecorded(recorded, state) == state

\* The state file says it; the specification where that does not.
RecordedOrState(recorded, state) ==
    IF state # "out" /\ recorded # "out" THEN recorded ELSE state

\* A state file that cannot be read is taken for one that says nothing.
LoadStates(a) ==
    LET c == doing[a] IN
    /\ c.place = "states"
    /\ Becomes(a, [c EXCEPT !.entries = [r \in Relays |-> RecordedOrState(stateFile.of[r], @[r])],
                            !.off = IF stateFile.kind = "whole" THEN off ELSE {},
                            !.place = "tmp"])
    /\ UnchangedFiles

\* runCatalogBuild: signed, and written beside the bundle or to the output.
Build(a) ==
    /\ doing[a].place = "tmp"
    /\ Becomes(a, [doing[a] EXCEPT !.place = "rename"])
    /\ UnchangedFiles

Rename(a) ==
    /\ doing[a].place = "rename"
    /\ signedBundle' = [kind |-> "whole", of |-> doing[a].entries]
    /\ Becomes(a, Idle)
    /\ UNCHANGED <<stateFile, specs, published, commands, off>>

\* The control plane serves the bundle.
Serve ==
    /\ signedBundle.kind = "whole"
    /\ published' = signedBundle.of
    /\ UNCHANGED <<stateFile, specs, signedBundle, doing, commands, off>>

FilesNext ==
    \/ Serve
    \/ \E a \in Actors :
          \/ Start(a) \/ Quit(a)
          \/ Fetch(a) \/ LookForSpecs(a) \/ ReadStates(a) \/ OpenStates(a) \/ WriteStates(a)
          \/ NextSpec(a) \/ Scaffold(a) \/ ReadSpec(a) \/ OpenSpec(a) \/ WriteSpec(a)
          \/ LoadSpecs(a) \/ LoadStates(a) \/ Build(a) \/ Rename(a)

FilesSpec == FilesInit /\ [][FilesNext]_fileVars

(***************************************************************************)
(* Properties                                                              *)
(***************************************************************************)

\* A relay that was disabled is not signed as active afterwards, whichever of
\* the two ways the bundle is built and whatever its specification says, unless
\* it was enabled or synced, or its state was overwritten by an older copy, or
\* was torn when it was read ("the state file is the source of truth for
\* catalogState", catalog-build-from-specs.ts:28).
DisabledStaysOut ==
    \A a \in Actors : doing[a].place = "rename" =>
        \A r \in doing[a].off : doing[a].entries[r] # "active"

\* No specification is overwritten by a command that was not told to, but for
\* the field it is there to write, unless it came to be or changed after the
\* command had looked ("preserved local edits", sync.ts:127).
EditsSurvive ==
    \A a \in Actors :
        LET c == doing[a]
            old == specs[c.relay]
        IN c.place = "openSpec" /\ old.kind \notin {"none", "torn"} /\ ~c.force
              /\ c.relay \notin c.stale =>
           /\ c.op \in {"pick", "budget"}
           /\ c.op = "pick" => c.spec = [old EXCEPT !.pin = TRUE]
           /\ c.op = "budget" => c.spec = [old EXCEPT !.cost = TRUE]

\* Whoever publishes the bundle finds a whole one, wherever a build ended
\* (defaultBundleWriter, build.ts:240).
BundleIsWhole == signedBundle.kind # "torn"

\* What relay commands that run at the same time leave in the catalog's files:
\* no relay that was disabled, no edit lost, no bundle in part.
FilesSafe == FilesTypeOK /\ DisabledStaysOut /\ EditsSurvive /\ BundleIsWhole
===============================================================================
