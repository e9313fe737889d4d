----------------------------- MODULE MCOperations -----------------------------
(***************************************************************************)
(* What operators run: the setup of a gateway, the discovery of            *)
(* processors, the bootstrap of the control plane's host and of Acurast    *)
(* relays, the Express harness, the records at the DNS provider, the       *)
(* request for a certificate, and the directory that deploys stage in.     *)
(* They share nothing.  One run checks them: a behaviour is a behaviour of *)
(* one part, and the others stay as they began.                            *)
(***************************************************************************)
EXTENDS OperatorSetup, GatewayDiscovery, Bootstrap, ExpressHarness,
        DnsRecords, CertificateRequest, BundleStage, TLC

CONSTANTS pr1, pr2

VARIABLE part

MCInventory == <<pr1, pr2>>

MCSymmetry == Permutations(Seeds) \cup Permutations(Procs)

\* Where a part begins in several ways, the other parts take one of them.
MCInit ==
    /\ part \in {"operator", "discovery", "host", "relay", "harness", "dns", "certificate",
                "stage"}
    /\ OpInit /\ (part # "operator" => env = Absent /\ ~mainnet)
    /\ DisInit
    /\ HostInit /\ (part # "host" => signer = CHOOSE k \in Signers : TRUE)
    /\ RelayInit /\ HarnessInit
    /\ DnsInit /\ (part # "dns" => zone = {})
    /\ CertInit
    /\ StageInit /\ (part # "stage" => \A d \in Deploys : stager[d].mode = "plain")

MCNext ==
    \/ /\ part = "operator" /\ OpNext
       /\ UNCHANGED <<part, disVars, hostVars, relayVars, harnessVars, dnsVars, certVars, stageVars>>
    \/ /\ part = "discovery" /\ DisNext
       /\ UNCHANGED <<part, opVars, hostVars, relayVars, harnessVars, dnsVars, certVars, stageVars>>
    \/ /\ part = "host" /\ HostNext
       /\ UNCHANGED <<part, opVars, disVars, relayVars, harnessVars, dnsVars, certVars, stageVars>>
    \/ /\ part = "relay" /\ RelayNext
       /\ UNCHANGED <<part, opVars, disVars, hostVars, harnessVars, dnsVars, certVars, stageVars>>
    \/ /\ part = "harness" /\ HarnessNext
       /\ UNCHANGED <<part, opVars, disVars, hostVars, relayVars, dnsVars, certVars, stageVars>>
    \/ /\ part = "dns" /\ DnsNext
       /\ UNCHANGED <<part, opVars, disVars, hostVars, relayVars, harnessVars, certVars, stageVars>>
    \/ /\ part = "certificate" /\ CertNext
       /\ UNCHANGED <<part, opVars, disVars, hostVars, relayVars, harnessVars, dnsVars, stageVars>>
    \/ /\ part = "stage" /\ StageNext
       /\ UNCHANGED <<part, opVars, disVars, hostVars, relayVars, harnessVars, dnsVars, certVars>>

MCSpec ==
    MCInit /\ [][MCNext]_<<part, opVars, disVars, hostVars, relayVars, harnessVars, dnsVars,
                           certVars, stageVars>>
===============================================================================
