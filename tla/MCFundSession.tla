---------------------------- MODULE MCFundSession ----------------------------
(***************************************************************************)
(* Two runs on one wallet and three quotes: one within the cap, one above  *)
(* it, one for something else.  The balance pays two of them at most.      *)
(* Next to them the job that is funded, CargoBootstrap: the two share      *)
(* nothing, and a behaviour is a behaviour of one part.  Runs and jobs     *)
(* end: deadlock is not checked.                                           *)
(***************************************************************************)
EXTENDS FundSession, CargoBootstrap, TLC

CONSTANTS s1, s2, s3

VARIABLE part

MCAmountOf == s1 :> 1 @@ s2 :> 2 @@ s3 :> 1

MCInit == part \in {"wallet", "job"} /\ Init /\ CargoInit /\ (part = "wallet" => ~jobAcme /\ ~pull)
            /\ (part = "job" => \A r \in Runs : kind[r] = "helper")

MCNext ==
    \/ part = "wallet" /\ Next /\ UNCHANGED <<part, cargoVars>>
    \/ part = "job" /\ CargoNext /\ UNCHANGED <<part, vars>>

MCFairness ==
    /\ \A r \in Runs : WF_vars(part = "wallet" /\ Step(r))
    /\ WF_cargoVars(part = "job" /\ JobSteps)

MCSpec == MCInit /\ [][MCNext]_<<part, vars, cargoVars>> /\ MCFairness

\* Whoever pays comes to an end, and so does the wait of the job for the payment
\* (fund-asset-quote-native.ts and wait_for_runtime_config): both parts settle.
PaymentsSettle == FundingEnds /\ FundedJobSettles
==============================================================================
