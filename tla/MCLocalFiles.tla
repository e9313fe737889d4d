----------------------------- MODULE MCLocalFiles -----------------------------
(***************************************************************************)
(* The document store, the context store and the runs of a project share   *)
(* no file, and launch-demo writes its report after all else.  One run     *)
(* checks them: a behaviour is a behaviour of one part, and the others     *)
(* stay as they began.                                                     *)
(***************************************************************************)
EXTENDS DocStore, ContextStore, ProjectRuns, DeployLaunch, TLC

CONSTANTS c1, c2, c3, i1, i2

VARIABLE part

MCInstanceOf == c1 :> i1 @@ c2 :> i1 @@ c3 :> i2

\* Launches: two gateways, the first with two processors, and two relays; a
\* command asks for one to three processors, at all relays or at one of them.
MCGatewayOf == <<1, 1, 2>>

All == {1, 2}

FlagsOf(demo, dry, count, pin, asked) ==
    [demo |-> demo, dry |-> dry, count |-> count, pin |-> pin, asked |-> asked]

MCLaunches ==
    {FlagsOf(TRUE, FALSE, 3, 0, All), FlagsOf(TRUE, FALSE, 2, 0, {1}),
     FlagsOf(TRUE, TRUE, 1, 1, {1}), FlagsOf(FALSE, FALSE, 1, 0, All), FlagsOf(FALSE, TRUE, 1, 1, {2})}

MCSymmetry == Permutations(Runs)

\* Where a part begins in several ways, the other parts take one of them.
MCInit ==
    /\ part \in {"documents", "contexts", "project", "launch"}
    /\ DocInit /\ CtxInit /\ ProjInit /\ LaunchInit
    /\ part # "documents" => serial
    /\ part # "launch" => modern = {} /\ launch.flags = FlagsOf(TRUE, FALSE, 2, 0, {1})

MCNext ==
    \/ part = "documents" /\ DocNext    /\ UNCHANGED <<part, ctxVars, projVars, launchVars>>
    \/ part = "contexts"  /\ CtxNext    /\ UNCHANGED <<part, docVars, projVars, launchVars>>
    \/ part = "project"   /\ ProjNext   /\ UNCHANGED <<part, docVars, ctxVars, launchVars>>
    \/ part = "launch"    /\ LaunchNext /\ UNCHANGED <<part, docVars, ctxVars, projVars>>

MCSpec == MCInit /\ [][MCNext]_<<part, docVars, ctxVars, projVars, launchVars>>
===============================================================================
