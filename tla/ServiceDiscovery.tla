--------------------------- MODULE ServiceDiscovery ---------------------------
(***************************************************************************)
(* How clients find the relays (src/service-discovery.ts,                  *)
(* src/registry-discovery.ts): a manifest that PROOF signs, and a relay    *)
(* catalog that the manifest refers to.  Both are served from caches and   *)
(* mirrors: whoever fetches one may get any that was ever signed, or what  *)
(* somebody else signed.  Only the dates and the signatures help.          *)
(*                                                                         *)
(* Every day PROOF signs a manifest and a catalog that list the members as *)
(* they are; a document is its day and its signer.  A member is active or  *)
(* disabled.  One catalog stands for all: they are fetched one after the   *)
(* other in the same way.  --allow-expired-manifest, chain ids and members *)
(* with dates of their own are left out.                                   *)
(***************************************************************************)
EXTENDS Integers

CONSTANTS
    Members,      \* the relays; for a registry reader, the registries
    Candidates,   \* how many manifest urls are tried
    ManifestTtl,
    CatalogTtl,
    MaxStale,     \* the ref's maxStaleSeconds
    MaxDay        \* bound: the days

ASSUME TtlsOK == /\ ManifestTtl \in Nat \ {0} /\ CatalogTtl \in Nat \ {0}
                 /\ Candidates \in Nat \ {0} /\ MaxStale \in Nat /\ MaxDay \in Nat

VARIABLES
    day,
    listings,    \* what was listed on every day up to now
    settings,    \* what does not change: the ref and the reader's options
    reader       \* one discovery

discoveryVars == <<day, listings, settings, reader>>

MemberStates == {"active", "disabled"}
Listings == [Members -> MemberStates]
Days == 0..MaxDay
Keys == {"root", "other"}
Papers == [day : Days, key : Keys]     \* a manifest or a catalog
NoPaper == [day |-> 0, key |-> "none"]

Readers == {"relays", "inventory", "registry"}
Settings == [ref : SUBSET {"signer", "digest"}, refers : BOOLEAN,
             required : BOOLEAN,       \* the manifest says so
             demanded : BOOLEAN,       \* config.requiredCatalogs says so
             kind : Readers]

ReaderPlaces == {"manifest", "catalog", "done", "failed"}
NewReader == [place |-> "manifest", tries |-> Candidates, now |-> 0,
              manifest |-> NoPaper, catalog |-> NoPaper,
              answer |-> [m \in Members |-> "out"]]

DiscoveryTypeOK ==
    /\ day \in Days
    /\ listings \in [Days -> Listings]
    /\ settings \in Settings
    /\ reader.place \in ReaderPlaces
    /\ reader.tries \in 0..Candidates
    /\ reader.now \in Days
    /\ {reader.manifest, reader.catalog} \subseteq Papers \cup {NoPaper}
    /\ reader.answer \in [Members -> MemberStates \cup {"out"}]

\* A registry reader has one url and reads no catalog.
DiscoveryInit ==
    /\ day = 0
    /\ \E first \in Listings : listings = [d \in Days |-> first]
    /\ settings \in Settings
    /\ settings.kind = "registry" =>
           /\ settings.refers /\ settings.ref = {"signer"}
           /\ ~settings.required /\ ~settings.demanded
    /\ ~settings.refers => settings.ref = {"signer"} /\ ~settings.required
    /\ reader = [NewReader EXCEPT !.tries = IF settings.kind = "registry" THEN 1 ELSE @]

\* The operator changes what is listed, overnight.  The days after the end of
\* the discovery do not matter.
NextDay ==
    /\ day < MaxDay
    /\ reader.place \in {"manifest", "catalog"}
    /\ day' = day + 1
    /\ \E listing \in Listings :
           listings' = [d \in Days |-> IF d > day THEN listing ELSE listings[d]]
    /\ UNCHANGED <<settings, reader>>

(***************************************************************************)
(* The documents                                                           *)
(***************************************************************************)

\* What can be served today.
Served == {p \in Papers : p.day <= day}

\* manifestExpired, serviceCatalogExpired: expiresAt <= now.
Expired(paper, ttl, now) == paper.day + ttl <= now

\* What a document lists; another signer lists what it likes.
ListedIn(paper) ==
    IF paper.key = "root" THEN listings[paper.day] ELSE [m \in Members |-> "active"]

ActiveIn(paper) == [m \in Members |-> IF ListedIn(paper)[m] = "active" THEN "active" ELSE "out"]

NoMember == [m \in Members |-> "out"]

(***************************************************************************)
(* The reader                                                              *)
(***************************************************************************)

\* The manifest of the pinned signer.
GoodManifest(paper) == paper.key = "root" /\ ~Expired(paper, ManifestTtl, day)

\* It does not answer, or what it answers does not verify.
ManifestFails ==
    /\ reader.place = "manifest"
    /\ reader' = [reader EXCEPT !.tries = @ - 1,
                                !.place = IF reader.tries = 1 THEN "failed" ELSE @]
    /\ UNCHANGED <<day, listings, settings>>

\* The time is taken once, here: it goes for the catalogs as well.
ManifestArrives ==
    /\ reader.place = "manifest"
    /\ \E paper \in Served :
          /\ GoodManifest(paper)
          /\ reader' = [reader EXCEPT
                !.manifest = paper, !.now = day,
                !.answer = IF settings.kind = "registry" THEN ActiveIn(paper) ELSE @,
                !.place = IF settings.kind # "registry" THEN "catalog"
                          ELSE IF ActiveIn(paper) = NoMember THEN "failed" ELSE "done"]
    /\ UNCHANGED <<day, listings, settings>>

\* fetchVerifiedCatalog: the ref's digest, which is that of the catalog of the
\* manifest's day; its signer; the date.
GoodCatalog(paper) ==
    /\ settings.refers
    /\ settings.ref # {}
    /\ "digest" \in settings.ref => paper = reader.manifest
    /\ "signer" \in settings.ref => paper.key = "root"
    /\ ~Expired(paper, CatalogTtl, reader.now)
    /\ reader.now - paper.day <= MaxStale

\* The active members, and those of the manifest.
MergedMembers(manifest, catalog) ==
    [m \in Members |->
        IF catalog # NoPaper /\ ActiveIn(catalog)[m] = "active" THEN "active" ELSE ActiveIn(manifest)[m]]

\* resolveRelayMembers: those of the catalog, unless none is active.
ActiveMembers(manifest, catalog) ==
    IF catalog # NoPaper /\ ActiveIn(catalog) # NoMember THEN ActiveIn(catalog) ELSE ActiveIn(manifest)

\* resolveRelayInventoryMembers: all of the catalog.
InventoryMembers(manifest, catalog) ==
    IF catalog # NoPaper THEN ListedIn(catalog) ELSE ListedIn(manifest)

Answer(catalog) ==
    IF settings.kind = "relays" THEN ActiveMembers(reader.manifest, catalog)
                                ELSE InventoryMembers(reader.manifest, catalog)

CatalogArrives ==
    /\ reader.place = "catalog"
    /\ \E paper \in Served :
          /\ GoodCatalog(paper)
          /\ reader' = [reader EXCEPT !.catalog = paper, !.answer = Answer(paper), !.place = "done"]
    /\ UNCHANGED <<day, listings, settings>>

\* ref.required, or the key or its role in requiredCatalogs.
Demanded == settings.required \/ settings.demanded

\* There is none, it does not answer, or it does not verify.
CatalogFails ==
    /\ reader.place = "catalog"
    /\ reader' = IF Demanded
                 THEN [reader EXCEPT !.place = "failed"]
                 ELSE [reader EXCEPT !.answer = Answer(NoPaper), !.place = "done"]
    /\ UNCHANGED <<day, listings, settings>>

DiscoveryNext ==
    NextDay \/ ManifestArrives \/ ManifestFails \/ CatalogArrives \/ CatalogFails

DiscoverySpec == DiscoveryInit /\ [][DiscoveryNext]_discoveryVars

(***************************************************************************)
(* Properties                                                              *)
(***************************************************************************)

\* What a reader is told was all listed at once, in a document that held when
\* the manifest arrived: of a catalog and a manifest of different days it is
\* never a mixture, and what anybody else signs never gets in.
AnswerIsOneListing ==
    reader.place = "done" =>
        \E d \in 0..day :
           /\ d + (IF reader.catalog.key = "none" THEN ManifestTtl
                   ELSE IF ManifestTtl > CatalogTtl THEN ManifestTtl ELSE CatalogTtl) > reader.now
           /\ \/ reader.answer = ActiveIn([day |-> d, key |-> "root"])
              \/ settings.kind = "inventory" /\ reader.answer = listings[d]

\* A relay that was disabled is gone when the time of the catalog, of the
\* manifest for a reader that was left without a catalog or found nobody active
\* in it, has passed since: no mirror keeps it alive longer, however often it
\* serves what was signed before.
DisabledGoesAway ==
    reader.place = "done" =>
        \A m \in Members : reader.answer[m] = "active" =>
            \E d \in 0..day :
               /\ listings[d][m] = "active"
               /\ d + (IF reader.catalog.key # "none" /\ ActiveIn(reader.catalog) # NoMember
                       THEN CatalogTtl ELSE ManifestTtl) > reader.now

\* NoMember goes on without a catalog that the manifest, or he himself, requires.
RequiredIsRead ==
    reader.place = "done" /\ settings.kind # "registry"
        /\ (settings.required \/ settings.demanded) => reader.catalog.key # "none"

\* What a reader makes of manifests and catalogs that change and are cached:
\* one listing, nothing that was disabled long ago, and all it required.
DiscoverySafe == DiscoveryTypeOK /\ AnswerIsOneListing /\ DisabledGoesAway /\ RequiredIsRead
===============================================================================
