------------------------------ MODULE DnsRecords ------------------------------
(***************************************************************************)
(* Records at the DNS provider: relay dns apply and remove                 *)
(* (cli/src/relay/dns.ts), the upserts of src/cloudflare-dns.ts that read  *)
(* what is there and then write, and the DNS-01 challenge of               *)
(* src/acme-dns01.ts.  Each call to the provider is a step of its own, may *)
(* fail before or after it took effect, and other commands come between.   *)
(*                                                                         *)
(* One hostname and its challenge name stand for all.  What the provider   *)
(* refuses, what resolvers know and what the certificate authority does    *)
(* is external.                                                            *)
(***************************************************************************)
EXTENDS FileContents, Naturals, FiniteSets

CONSTANTS
    DnsCmds,      \* commands
    DnsTargets,   \* what records point to
    Resolvers,    \* the resolvers a challenge waits for
    MaxRecords    \* bound on the records ever created

ASSUME DnsOK ==
    /\ MaxRecords \in Nat /\ MaxRecords >= 2   \* a hostname can begin with two
    /\ IsFiniteSet(Resolvers)
    /\ Absent \notin DnsTargets /\ DnsTargets # {}

VARIABLES
    zone,       \* the records of the hostname
    txt,        \* the challenge records: their ids, and who created them
    nextId,     \* the id of the next record
    known,      \* what each resolver knows of the challenge records
    dnsCmd,     \* each command: where it is and what it remembers
    unsure,     \* history: commands cut off when they may have changed records
    shared,     \* history: commands that changed records between two steps of
                \* another one
    served      \* history: the hostname once had a record

dnsVars == <<zone, txt, nextId, known, dnsCmd, unsure, shared, served>>

Ids == 1 .. MaxRecords

RecordTypes == {"A", "AAAA", "CNAME"}

DnsRecord == [id : Ids, type : RecordTypes, content : DnsTargets]

DnsKinds == {"apply", "remove", "address", "challenge"}

DnsPlaces == {"idle", "clearA", "clearAAAA", "patch", "post", "delete",
              "create", "wait", "validate", "clean", "done", "none", "failed"}

DnsTypeOK ==
    /\ zone \subseteq DnsRecord
    /\ txt \in SUBSET [id : Ids, by : DnsCmds]
    /\ nextId \in 1 .. MaxRecords + 1
    /\ known \in [Resolvers -> SUBSET DnsCmds]
    /\ dnsCmd \in [DnsCmds -> [kind : DnsKinds, content : DnsTargets, at : DnsPlaces,
                               id : Ids \cup {0}, todo : SUBSET Ids, issued : BOOLEAN]]
    /\ unsure \subseteq DnsCmds /\ shared \subseteq DnsCmds
    /\ served \in BOOLEAN

AnyTarget == CHOOSE t \in DnsTargets : TRUE

DnsInit ==
    /\ zone \in {{}, {[id |-> 1, type |-> "A", content |-> AnyTarget],
                      [id |-> 2, type |-> "AAAA", content |-> AnyTarget]}}
    /\ txt = {}
    /\ nextId = 3
    /\ known = [r \in Resolvers |-> {}]
    /\ dnsCmd = [c \in DnsCmds |-> [kind |-> "apply", content |-> AnyTarget,
                                    at |-> "idle", id |-> 0, todo |-> {}, issued |-> FALSE]]
    /\ unsure = {} /\ shared = {}
    /\ served = (zone # {})

-------------------------------------------------------------------------------
Within(c) == dnsCmd[c].at \notin {"idle", "done", "none", "failed"}

\* The command takes a step: where it is then, which record it remembers and
\* which it will delete.
DnsGoes(c, at, id, todo) ==
    dnsCmd' = [dnsCmd EXCEPT ![c].at = at, ![c].id = id, ![c].todo = todo]

\* A step that changes records: commands that are under way see a change.
Changes(c) ==
    /\ shared' = IF \E d \in DnsCmds \ {c} : Within(d) THEN shared \cup {c} ELSE shared
    /\ served' = (served \/ zone' # {})

OfType(type) == {r.id : r \in {s \in zone : s.type = type}}

\* upsertCloudflareCnameRecord: PATCH the first record that is listed, or clear
\* the way for a new one.
ListCnames(c, content) ==
    /\ dnsCmd[c].at = "idle"
    /\ LET begun == [dnsCmd[c] EXCEPT !.kind = "apply", !.content = content]
       IN  \/ /\ OfType("CNAME") = {}
              /\ dnsCmd' = [dnsCmd EXCEPT ![c] = [begun EXCEPT !.at = "clearA", !.todo = OfType("A")]]
           \/ \E i \in OfType("CNAME") :
                dnsCmd' = [dnsCmd EXCEPT ![c] = [begun EXCEPT !.at = "patch", !.id = i]]
    /\ UNCHANGED <<zone, txt, nextId, known, unsure, shared, served>>

\* The records in the way are deleted one by one; one that is already gone is an
\* error.
DeleteConflict(c) ==
    \E i \in dnsCmd[c].todo :
        /\ dnsCmd[c].at \in {"clearA", "clearAAAA"}
        /\ zone' = {r \in zone : r.id # i}
        /\ IF i \in {r.id : r \in zone}
             THEN DnsGoes(c, dnsCmd[c].at, 0, dnsCmd[c].todo \ {i})
             ELSE DnsGoes(c, "failed", 0, {})
        /\ Changes(c)
        /\ UNCHANGED <<txt, nextId, known, unsure>>

\* All of one type are deleted: the other type is listed, then the record sent.
ListMore(c) ==
    /\ dnsCmd[c].at \in {"clearA", "clearAAAA"}
    /\ dnsCmd[c].todo = {}
    /\ IF dnsCmd[c].at = "clearA"
         THEN DnsGoes(c, "clearAAAA", 0, OfType("AAAA"))
         ELSE DnsGoes(c, "post", 0, {})
    /\ UNCHANGED <<zone, txt, nextId, known, unsure, shared, served>>

\* upsertCloudflareARecord: PATCH the first, or POST.
ListAddresses(c, content) ==
    /\ dnsCmd[c].at = "idle"
    /\ LET begun == [dnsCmd[c] EXCEPT !.kind = "address", !.content = content]
       IN  \/ /\ OfType("A") = {}
              /\ dnsCmd' = [dnsCmd EXCEPT ![c] = [begun EXCEPT !.at = "post"]]
           \/ \E i \in OfType("A") :
                dnsCmd' = [dnsCmd EXCEPT ![c] = [begun EXCEPT !.at = "patch", !.id = i]]
    /\ UNCHANGED <<zone, txt, nextId, known, unsure, shared, served>>

Written(c) == IF dnsCmd[c].kind = "apply" THEN "CNAME" ELSE "A"

Patch(c) ==
    /\ dnsCmd[c].at = "patch"
    /\ LET old == {r \in zone : r.id = dnsCmd[c].id}
       IN  /\ zone' = (zone \ old) \cup {[r EXCEPT !.content = dnsCmd[c].content] : r \in old}
           /\ DnsGoes(c, IF old = {} THEN "failed" ELSE "done", 0, {})
    /\ Changes(c)
    /\ UNCHANGED <<txt, nextId, known, unsure>>

\* The provider refuses a CNAME next to other records, and what is already there.
Refused(type, content) ==
    \E r \in zone : r.type = "CNAME" \/ type = "CNAME" \/ (r.type = type /\ r.content = content)

Post(c) ==
    /\ dnsCmd[c].at = "post" /\ nextId <= MaxRecords
    /\ IF Refused(Written(c), dnsCmd[c].content)
         THEN /\ DnsGoes(c, "failed", 0, {})
              /\ UNCHANGED <<zone, nextId, shared, served>>
         ELSE /\ zone' = zone \cup {[id |-> nextId, type |-> Written(c),
                                     content |-> dnsCmd[c].content]}
              /\ nextId' = nextId + 1
              /\ DnsGoes(c, "done", 0, {})
              /\ Changes(c)
    /\ UNCHANGED <<txt, known, unsure>>

\* removeRelayDns lists through fetchCloudflareList, which takes an answer that
\* is an error for an empty list.
ListForRemoval(c, listed) ==
    /\ dnsCmd[c].at = "idle"
    /\ LET begun == [dnsCmd[c] EXCEPT !.kind = "remove"]
       IN  \/ /\ OfType("CNAME") = {} \/ ~listed
              /\ dnsCmd' = [dnsCmd EXCEPT ![c] =
                              [begun EXCEPT !.at = "none", !.todo = OfType("CNAME")]]
           \/ \E i \in OfType("CNAME") :
                /\ listed
                /\ dnsCmd' = [dnsCmd EXCEPT ![c] = [begun EXCEPT !.at = "delete", !.id = i]]
    /\ UNCHANGED <<zone, txt, nextId, known, unsure, shared, served>>

DeleteCname(c) ==
    /\ dnsCmd[c].at = "delete"
    /\ zone' = {r \in zone : r.id # dnsCmd[c].id}
    /\ DnsGoes(c, IF zone' = zone THEN "failed" ELSE "done", 0, {})
    /\ Changes(c)
    /\ UNCHANGED <<txt, nextId, known, unsure>>

\* A call fails without effect, or the process ends.
DnsFails(c) ==
    /\ Within(c)
    /\ dnsCmd[c].at \notin {"wait", "validate", "clean", "create"}
    /\ DnsGoes(c, "failed", 0, {})
    /\ unsure' = unsure \cup {c}
    /\ UNCHANGED <<zone, txt, nextId, known, shared, served>>

-------------------------------------------------------------------------------
\* issueAcmeCertificateForCsr: createCloudflareTxtRecord, then the record is
\* remembered under the key of the challenge.
BeginChallenge(c) ==
    /\ dnsCmd[c].at = "idle"
    /\ dnsCmd' = [dnsCmd EXCEPT ![c].kind = "challenge", ![c].at = "create"]
    /\ UNCHANGED <<zone, txt, nextId, known, unsure, shared, served>>

\* answered: the answer of the provider comes.  Without it the record is there
\* and nobody knows its id.
CreateTxt(c, answered) ==
    /\ dnsCmd[c].at = "create" /\ nextId <= MaxRecords
    /\ txt' = txt \cup {[id |-> nextId, by |-> c]}
    /\ nextId' = nextId + 1
    /\ IF answered THEN DnsGoes(c, "wait", nextId, {}) /\ UNCHANGED unsure
       ELSE DnsGoes(c, "clean", 0, {}) /\ unsure' = unsure \cup {c}
    /\ UNCHANGED <<zone, known, shared, served>>

\* waitForDnsTxtValue: in one pass every resolver knows the value.
AllResolve(c) == \A r \in Resolvers : c \in known[r]

Resolved01(c) ==
    /\ dnsCmd[c].at = "wait"
    /\ AllResolve(c)
    /\ DnsGoes(c, "validate", dnsCmd[c].id, {})
    /\ UNCHANGED <<zone, txt, nextId, known, unsure, shared, served>>

WaitTimesOut(c) ==
    /\ dnsCmd[c].at = "wait"
    /\ DnsGoes(c, "clean", dnsCmd[c].id, {})
    /\ UNCHANGED <<zone, txt, nextId, known, unsure, shared, served>>

\* The certificate authority looks for the value itself.
Validate(c) ==
    /\ dnsCmd[c].at = "validate"
    /\ dnsCmd' = [dnsCmd EXCEPT ![c].at = "clean",
                                ![c].issued = \E t \in txt : t.by = c]
    /\ UNCHANGED <<zone, txt, nextId, known, unsure, shared, served>>

\* Every record of the challenge name is deleted.
RemoveAllOfName(c, deleted) ==
    /\ dnsCmd[c].at = "clean"
    /\ txt' = IF deleted THEN {} ELSE txt
    /\ unsure' = IF deleted THEN unsure ELSE unsure \cup {c}
    /\ DnsGoes(c, IF dnsCmd[c].issued THEN "done" ELSE "failed", 0, {})
    /\ UNCHANGED <<zone, nextId, known, shared, served>>

\* challengeRemoveFn deletes the record it remembers, and only that; acme-client
\* calls it however the challenge ended, and ignores its failure.
RemoveChallenge(c, deleted) ==
    /\ dnsCmd[c].at = "clean"
    /\ txt' = IF deleted THEN {t \in txt : t.id # dnsCmd[c].id} ELSE txt
    /\ unsure' = IF deleted THEN unsure ELSE unsure \cup {c}
    /\ DnsGoes(c, IF dnsCmd[c].issued THEN "done" ELSE "failed", 0, {})
    /\ UNCHANGED <<zone, nextId, known, shared, served>>

\* The process ends in the middle of a challenge.
ChallengeDies(c) ==
    /\ dnsCmd[c].at \in {"create", "wait", "validate", "clean"}
    /\ DnsGoes(c, "failed", 0, {})
    /\ unsure' = unsure \cup {c}
    /\ UNCHANGED <<zone, txt, nextId, known, shared, served>>

\* A resolver looks at the zone again.
Refresh(r) ==
    /\ known[r] # {t.by : t \in txt}
    /\ known' = [known EXCEPT ![r] = {t.by : t \in txt}]
    /\ UNCHANGED <<zone, txt, nextId, dnsCmd, unsure, shared, served>>

DnsStep(c) ==
    \/ \E t \in DnsTargets : ListCnames(c, t) \/ ListAddresses(c, t)
    \/ DeleteConflict(c) \/ ListMore(c) \/ Patch(c) \/ Post(c)
    \/ \E listed \in BOOLEAN : ListForRemoval(c, listed)
    \/ DeleteCname(c) \/ DnsFails(c)
    \/ BeginChallenge(c)
    \/ \E answered \in BOOLEAN : CreateTxt(c, answered)
    \/ Resolved01(c) \/ WaitTimesOut(c) \/ Validate(c)
    \/ \E deleted \in BOOLEAN : RemoveChallenge(c, deleted)
    \/ ChallengeDies(c)

DnsNext == (\E c \in DnsCmds : DnsStep(c)) \/ (\E r \in Resolvers : Refresh(r))

DnsSpec == DnsInit /\ [][DnsNext]_dnsVars

-------------------------------------------------------------------------------
\* A hostname that had a record has one, unless a remove was asked for, a command
\* is replacing its addresses, or one ended or overlapped while it did.
StaysServed ==
    served /\ zone = {} =>
        \/ \E c \in DnsCmds : dnsCmd[c].kind = "remove" /\ dnsCmd[c].at # "none"
        \/ \E c \in DnsCmds : dnsCmd[c].at \in {"clearA", "clearAAAA", "post"}
        \/ unsure # {} \/ shared # {}

\* An apply that reports its record leaves one CNAME and nothing besides, also
\* when other commands came between its steps.
ApplyLeavesOne ==
    [][\A c \in DnsCmds :
         (/\ dnsCmd[c].kind = "apply" /\ dnsCmd'[c].kind = "apply"
          /\ dnsCmd[c].at # "done" /\ dnsCmd'[c].at = "done")
         => \E i \in Ids : zone' = {[id |-> i, type |-> "CNAME",
                                     content |-> dnsCmd[c].content]}]_dnsVars

\* "deleting TXT" (acme-dns01.ts:149): a challenge that ended leaves no record,
\* whichever way it ended, unless a call for it was cut off.
ChallengeIsCleared ==
    \A t \in txt : dnsCmd[t.by].at \in {"done", "failed"} => t.by \in unsure

\* While the authority validates, the record of this very issuance is up, also
\* when another one for the same hostname starts or ends.
ChallengeStaysUp ==
    \A c \in DnsCmds : dnsCmd[c].at = "validate" => \E t \in txt : t.by = c

\* "deleted  : (none - no existing CNAME)" (relay/dns.ts:240): a remove that says
\* so found no CNAME.
NoneMeansNone == \A c \in DnsCmds : dnsCmd[c].at = "none" => dnsCmd[c].todo = {}

\* Whichever DNS commands meet: a name stays served, its challenge stays up
\* while it is needed and is cleared, and an apply leaves one record.
DnsSafe == [](DnsTypeOK /\ StaysServed /\ ChallengeIsCleared /\ ChallengeStaysUp) /\ ApplyLeavesOne
===============================================================================
