---------------------------- MODULE MCWalletChoices ---------------------------
(***************************************************************************)
(* The wallet lock, and what a deploy chooses and asks for before it       *)
(* takes it: processors, a relay to write to, the requests to it, and the  *)
(* reports of gateways that it selects from.  They share nothing.  One run *)
(* checks them: a behaviour is a behaviour of one part, and the others     *)
(* stay as they began.                                                     *)
(***************************************************************************)
EXTENDS WalletLock, ProcessorChoice, RelayCalls, OperatorCapability, TLC

CONSTANTS pr1, pr2, g1, g2, m1, m2

VARIABLE part

MCManaged == <<pr1, pr2>>

\* A plain offer, one that excludes in one scope what the next offers, and one
\* of another manager.
Scope(m, ps, out) == [manager |-> m, procs |-> ps, out |-> out]
MCScopeLists == {<<Scope(m1, {pr1, pr2}, {pr2})>>,
                 <<Scope(m1, {pr1, pr2}, {pr1}), Scope(NoManager, {pr1}, {})>>,
                 <<Scope(m2, {pr2}, {})>>}

\* A profile that restricts nothing, one with a sink at its only gateway, and
\* one with a list of each kind.
AnyProfile == [active |-> TRUE, signers |-> {g1, g2}, gateways |-> {}, managers |-> {}, procs |-> {},
               sink |-> FALSE, routeState |-> FALSE]
MCProfiles == {AnyProfile,
               [AnyProfile EXCEPT !.gateways = {g1}, !.sink = TRUE, !.routeState = TRUE],
               [AnyProfile EXCEPT !.signers = {g2}, !.managers = {m1}, !.procs = {pr1}]}

\* The other gateway signs with a key of the chain and publishes no URL.
PlainStyle == [scheme |-> "sr25519", url |-> FALSE, over |-> FALSE]

\* Processes are only compared with each other.
PidSymmetry == Permutations(Pids)

\* Where a part begins in several ways, the other parts take one of them.
MCInit ==
    /\ part \in {"lock", "choice", "calls", "writable", "capability"}
    /\ Init
    /\ ChoiceInit
    /\ part # "choice" => \A c \in Pickers : picker[c].kind = "auto" /\ picker[c].excluded = {}
    /\ CallsInit /\ (part # "calls" => \A k \in Calls : call[k].kind = "post")
    /\ WritableInit
    /\ part # "writable" =>
          /\ \A r \in ControlRelays : plane[r] = [up |-> TRUE, writable |-> TRUE, tells |-> TRUE]
          /\ writer.candidates = {CHOOSE r \in ControlRelays : TRUE}
    /\ CapabilityInit /\ style[g2] = PlainStyle
    /\ part # "capability" => profile = AnyProfile /\ style[g1] = PlainStyle

MCNext ==
    \/ part = "lock" /\ Next /\ UNCHANGED <<part, choiceVars, callVars, planeVars, capabilityVars>>
    \/ part = "choice" /\ ChoiceNext /\ UNCHANGED <<part, vars, callVars, planeVars, capabilityVars>>
    \/ part = "calls" /\ CallsNext /\ UNCHANGED <<part, vars, choiceVars, planeVars, capabilityVars>>
    \/ part = "writable" /\ WritableNext /\ UNCHANGED <<part, vars, choiceVars, callVars, capabilityVars>>
    \/ part = "capability" /\ CapabilityNext /\ UNCHANGED <<part, vars, choiceVars, callVars, planeVars>>

MCSpec == MCInit /\ [][MCNext]_<<part, vars, choiceVars, callVars, planeVars, capabilityVars>>
===============================================================================
