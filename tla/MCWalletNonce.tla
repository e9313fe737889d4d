---------------------------- MODULE MCWalletNonce ----------------------------
(***************************************************************************)
(* Instances of the programs that act beside others on what they share:    *)
(* deploys of one Acurast wallet, commands on a session of the registry    *)
(* contract, commands on a route of the parachain, commands on the files   *)
(* of the relays, readers of their catalogs, and relays that decide or are *)
(* waited for.  The parts have nothing in common, and a behaviour is a     *)
(* behaviour of one of them.                                               *)
(* When all are done the system stops: deadlock is not checked.            *)
(***************************************************************************)
EXTENDS WalletNonce, RouteCommands, SessionCommands, RelayFiles, ServiceDiscovery,
        RelayAuthority, RelayReadiness, TLC

VARIABLE part

MCSymmetry == Permutations(Actors)

\* Where a part begins in several ways, the other parts take one of them.
MCInit ==
    /\ part \in {"deploys", "route", "session", "files", "services", "authority", "readiness"}
    /\ Init /\ RouteInit /\ SessionInit
    /\ part # "route" => route.status = "none" /\ \A c \in RouteCmds :
          cmd[c].op = "lease" /\ cmd[c].yes /\ cmd[c].mode = "auto"
    /\ part # "session" =>
          /\ session.status = "None" /\ owed = {} /\ mapped = {}
          /\ \A c \in SessionCmds : scmd[c].op = "claim"
    /\ FilesInit /\ DiscoveryInit
    /\ part # "services" =>
          /\ listings = [d \in Days |-> [m \in Members |-> "active"]]
          /\ settings = [ref |-> {"signer"}, refers |-> TRUE, required |-> FALSE,
                         demanded |-> FALSE, kind |-> "relays"]
    /\ AuthorityInit
    /\ part # "authority" => \A d \in Deciders : lists[d] = <<>> /\ ahead[d] = 0
    /\ ReadinessInit
    /\ part # "readiness" => probe.kind = "watch" /\ up = {}

MCNext ==
    \/ /\ part = "deploys" /\ Next
       /\ UNCHANGED <<part, routeVars, sessionVars, fileVars, discoveryVars,
                       authorityVars, readyVars>>
    \/ /\ part = "route" /\ RouteNext
       /\ UNCHANGED <<part, vars, sessionVars, fileVars, discoveryVars,
                       authorityVars, readyVars>>
    \/ /\ part = "session" /\ SessionNext
       /\ UNCHANGED <<part, vars, routeVars, fileVars, discoveryVars, authorityVars, readyVars>>
    \/ /\ part = "files" /\ FilesNext
       /\ UNCHANGED <<part, vars, routeVars, sessionVars, discoveryVars,
                       authorityVars, readyVars>>
    \/ /\ part = "services" /\ DiscoveryNext
       /\ UNCHANGED <<part, vars, routeVars, sessionVars, fileVars, authorityVars, readyVars>>
    \/ /\ part = "authority" /\ AuthorityNext
       /\ UNCHANGED <<part, vars, routeVars, sessionVars, fileVars, discoveryVars, readyVars>>
    \/ /\ part = "readiness" /\ ReadinessNext
       /\ UNCHANGED <<part, vars, routeVars, sessionVars, fileVars, discoveryVars,
                       authorityVars>>

MCSpec ==
    MCInit /\ [][MCNext]_<<part, vars, routeVars, sessionVars, fileVars, discoveryVars,
                       authorityVars, readyVars>>
===============================================================================
