----------------------------- MODULE MCDeployRun -----------------------------
(***************************************************************************)
(* Instances of a deploy workflow and of the commands on what it deployed: *)
(* status and doctor, and the customer's hostname.  They share no state    *)
(* that changes, and a behaviour is a behaviour of one part.  A deploy     *)
(* that nobody resumes and a command that is done stop: deadlock is not    *)
(* checked.                                                                *)
(***************************************************************************)
EXTENDS DeployRun, DeployChecks, CustomerHostname

VARIABLE part

otherVars == <<checkVars, hostVars, walkVars>>

\* The parts that do not move begin in one way.
MCInit ==
    /\ part \in {"run", "checks", "hostname", "walk"}
    /\ Init
    /\ part # "run" => store
    /\ CheckInit
    /\ part # "checks" =>
          /\ look.kind = "doctor" /\ ~look.probe /\ hub = Unread.hub
          /\ route = Unread.route /\ cap = 0 /\ job = Nothing
    /\ HostInit
    /\ part # "hostname" =>
          /\ attached = "none" /\ host.op = "status"
          /\ ~(host.explicit \/ host.known \/ host.wait)
          /\ {host.evm, host.first, host.second} = {"none"}
    /\ WalkInit
    /\ part # "walk" => \A h \in DOMAIN cname : cname[h] = "target"

\* In the other parts the deploy is over before they begin.
MCNext ==
    \/ part = "run" /\ Next /\ UNCHANGED <<part, otherVars>>
    \/ part # "run" /\ Terminate /\ UNCHANGED <<part, otherVars>>
    \/ /\ at = "ended"
       /\ UNCHANGED <<part, vars>>
       /\ \/ part = "checks" /\ CheckNext /\ UNCHANGED <<hostVars, walkVars>>
          \/ part = "hostname" /\ HostNext /\ UNCHANGED <<checkVars, walkVars>>
          \/ part = "walk" /\ WalkNext /\ UNCHANGED <<checkVars, hostVars>>

\* FairSpec, and the timers of the probes, each for its part.
MCFairness ==
    /\ WF_vars(part = "run" /\ FileStep)
    /\ WF_vars(part = "run" /\ RunnerStep)
    /\ WF_vars(part = "run" /\ at = "loop" /\ GiveUp)
    /\ WF_vars(part # "run" /\ Terminate)
    /\ WF_checkVars(part = "checks" /\ at = "ended" /\ ProbeTimer)
    /\ WF_checkVars(part = "checks" /\ at = "ended" /\ \E p \in Probes : Probe(p))

MCSpec == MCInit /\ [][MCNext]_<<part, vars, otherVars>> /\ MCFairness
===============================================================================
