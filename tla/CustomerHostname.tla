--------------------------- MODULE CustomerHostname ---------------------------
(***************************************************************************)
(* A customer's hostname in front of an endpoint: the commands `hostname   *)
(* add`, `remove` and `status` (cli/src/index.ts), which sign a request    *)
(* with the key that owns the session and wait for the relay, and the walk *)
(* along the CNAME records by which a hostname is validated                *)
(* (src/customer-hostname.ts).                                             *)
(*                                                                         *)
(* The relay and the DNS are modelled from what the code asks of them.     *)
(* The hint at the DNS provider and the readiness checks, which only show  *)
(* what was read, are left out.                                            *)
(***************************************************************************)
EXTENDS Naturals, Sequences

CONSTANTS
    Resolvers,   \* the resolvers that are asked
    MaxHops,     \* maxDepth
    MaxDnsMoves  \* bound: the changes of the DNS

ASSUME HopsOK == MaxHops \in Nat \ {0} /\ MaxDnsMoves \in Nat

VARIABLES
    attached,    \* the hostname at the relay
    host,        \* the command
    cname,       \* the CNAME records
    walk,        \* the walk of each resolver
    cnameOk,     \* the outcome of the validation
    records,     \* history: the records there were
    dnsMoves     \* how often they changed

hostVars == <<attached, host>>
walkVars == <<cname, walk, cnameOk, records, dnsMoves>>

Hosts == {"customer", "middle", "target"}
Keys == {"none", "developer", "other"}
HostStatuses == {"none", "pending", "dns_validated"}
Commands == [op : {"attach", "remove", "status"}, explicit : BOOLEAN, known : BOOLEAN,
             evm : Keys, first : Keys, second : Keys, wait : BOOLEAN, signer : Keys,
             place : {"signer", "post", "poll", "sleep", "done", "no signer", "error"},
             latest : HostStatuses \cup {"unread"}]

HostTypeOK ==
    /\ attached \in HostStatuses
    /\ host \in Commands
    /\ cname \in [Hosts \ {"target"} -> Hosts \cup {"none"}]
    /\ \A r \in Resolvers : Len(walk[r].chain) <= MaxHops + 1
    /\ cnameOk \in {"open", "ok", "failed"}
    /\ dnsMoves \in 0..MaxDnsMoves

HostInit ==
    /\ attached \in HostStatuses
    /\ host \in {h \in Commands : h.place = "signer" /\ h.signer = "none" /\ h.latest = "unread"}

WalkInit ==
    /\ cname \in [Hosts \ {"target"} -> Hosts \cup {"none"}]
    /\ walk = [r \in Resolvers |-> [chain |-> <<"customer">>, at |-> "walking"]]
    /\ cnameOk = "open"
    /\ records = {<<h, cname[h]>> : h \in DOMAIN cname}
    /\ dnsMoves = 0

(***************************************************************************)
(* The commands                                                            *)
(***************************************************************************)

\* A key may sign if it is the developer's, as far as the developer is known.
Fits(key) == key # "none" /\ (host.known => key = "developer")

\* resolveCustomerHostnameSigner: a named mode takes its key, which has to fit;
\* otherwise the EVM key if it fits, else the first of the seeds that does.
SignerOf ==
    CASE Fits(host.evm) -> host.evm
      [] ~Fits(host.evm) /\ ~host.explicit /\ Fits(host.first) -> host.first
      [] ~Fits(host.evm) /\ ~host.explicit /\ ~Fits(host.first) /\ Fits(host.second) -> host.second
      [] OTHER -> "none"

HostMoves(place) == host' = [host EXCEPT !.place = place]

ResolveSigner ==
    /\ host.place = "signer"
    /\ IF host.op = "status" THEN HostMoves("poll")
       ELSE host' = [host EXCEPT !.signer = SignerOf,
                                 !.place = IF SignerOf = "none" THEN "no signer" ELSE "post"]
    /\ UNCHANGED attached

\* The relay takes what the developer signed; its answer may be lost.
Post ==
    /\ host.place = "post"
    /\ attached' = IF host.signer # "developer" THEN attached
                   ELSE IF host.op = "attach" THEN "pending" ELSE "none"
    /\ \/ HostMoves("error")
       \/ /\ host.signer = "developer"
          /\ host' = [host EXCEPT !.latest = attached',
                                  !.place = IF host.wait /\ host.op = "attach" THEN "poll" ELSE "done"]

\* The status that was read last is returned at the deadline, or at once.  A
\* hostname that is not there is an error.
Poll ==
    /\ host.place = "poll"
    /\ \/ HostMoves("error")
       \/ /\ attached # "none"
          /\ host' = [host EXCEPT !.latest = attached,
                                  !.place = IF attached = "dns_validated" \/ ~host.wait
                                            THEN "done" ELSE "sleep"]
    /\ UNCHANGED attached

Wake ==
    /\ host.place = "sleep"
    /\ HostMoves("poll") \/ HostMoves("done")
    /\ UNCHANGED attached

\* The relay validates the hostname, or somebody else attaches or removes it.
RelayStep ==
    /\ host.place \notin {"done", "error", "no signer"}
    /\ attached' \in HostStatuses \ {attached}
    /\ UNCHANGED host

HostNext == ResolveSigner \/ Post \/ Poll \/ Wake \/ RelayStep

(***************************************************************************)
(* The walk along the CNAME records                                        *)
(***************************************************************************)

RecordsMove ==
    /\ dnsMoves < MaxDnsMoves
    /\ cnameOk = "open"
    /\ \E h \in DOMAIN cname, to \in Hosts \cup {"none"} :
          /\ cname' = [cname EXCEPT ![h] = to]
          /\ records' = records \cup {<<h, to>>}
    /\ dnsMoves' = dnsMoves + 1
    /\ UNCHANGED <<walk, cnameOk>>

\* The walk ends at the target, or with the last of the hops.
AfterHop(chain) ==
    CASE chain[Len(chain)] = "target" -> "ok"
      [] chain[Len(chain)] # "target" /\ Len(chain) > MaxHops -> "failed"
      [] OTHER -> "walking"

\* A name without a record, or a resolver that does not answer, is an error,
\* even at the target: it is compared before it is asked about.
Hop(r) ==
    /\ walk[r].at = "walking"
    /\ LET here == walk[r].chain[Len(walk[r].chain)]
           chain == Append(walk[r].chain, cname[here])
       IN \/ walk' = [walk EXCEPT ![r].at = "failed"]
          \/ /\ cname[here] # "none"
             /\ walk' = [walk EXCEPT ![r] = [chain |-> chain, at |-> AfterHop(chain)]]
    /\ UNCHANGED <<cname, cnameOk, records, dnsMoves>>

\* One resolver that found the target is enough.
AnyResolver(ends) == \E r \in Resolvers : ends[r].at = "ok"

EveryResolver(ends) == \A r \in Resolvers : ends[r].at = "ok"

\* The resolvers are waited for together.
EndOfWalks ==
    /\ cnameOk = "open"
    /\ \A r \in Resolvers : walk[r].at # "walking"
    /\ cnameOk' = IF EveryResolver(walk) THEN "ok" ELSE "failed"
    /\ UNCHANGED <<cname, walk, records, dnsMoves>>

WalkNext == RecordsMove \/ (\E r \in Resolvers : Hop(r)) \/ EndOfWalks

\* A command and a validation, of which neither sees the other.
HostnameSpec ==
    /\ HostInit /\ WalkInit
    /\ [][ \/ HostNext /\ UNCHANGED walkVars
           \/ WalkNext /\ UNCHANGED hostVars ]_<<hostVars, walkVars>>

(***************************************************************************)
(* Properties                                                              *)
(***************************************************************************)

\* Nothing is signed with a key that is not the session developer's when the
\* report names the developer, and no command says that there is no such key
\* while one of the keys it is to look through is (resolveCustomerHostnameSigner
\* and the fall-back from the EVM key to the seeds).
RightKeySigns ==
    /\ host.known /\ host.signer # "none" => host.signer = "developer"
    /\ host.place = "no signer" =>
          /\ host.evm # "developer"
          /\ ~host.explicit => "developer" \notin {host.first, host.second}

\* A hostname is valid only if every resolver was led to the target, within the
\* hops it has, by records that the DNS held, each at some time of the walk
\* (validateCnameTarget).
ValidIsLedToTarget ==
    cnameOk = "ok" =>
        \A r \in Resolvers :
            LET chain == walk[r].chain IN
            /\ chain[1] = "customer" /\ chain[Len(chain)] = "target"
            /\ Len(chain) <= MaxHops + 1
            /\ \A i \in 1..(Len(chain) - 1) : <<chain[i], chain[i + 1]>> \in records

\* A customer's hostname is bound by the right key and called valid only if
\* every resolver was led to the target.
HostnamesSafe == HostTypeOK /\ RightKeySigns /\ ValidIsLedToTarget
===============================================================================
