----------------------------- MODULE RouteCommands -----------------------------
(***************************************************************************)
(* The commands on a route of the PROOF Ingress parachain                  *)
(* (cli/src/proof-ingress-commands.ts): lease, renew, retire, refund and   *)
(* claim.  Each reads storage of the pallet, one query after the other,    *)
(* prints what it would do or sends one extrinsic, and reads again.        *)
(* Several commands work on one route, and the pallet moves meanwhile.     *)
(*                                                                         *)
(* The pallet is modelled from the calls and the storage the client names. *)
(* `route status`, which only reads, and the amounts of the payments are   *)
(* left out.                                                               *)
(***************************************************************************)
EXTENDS Naturals, Sequences

CONSTANTS
    RouteCmds,   \* the commands
    MaxCredit    \* bound: what the pallet credits the account

ASSUME MaxCreditOK == MaxCredit \in Nat

VARIABLES
    route,       \* the route's record, its refund and its generation in the pallet
    credit,      \* the account's claimable balance in the pallet
    inPool,      \* extrinsics sent and not yet in a block
    cmd          \* the commands

routeVars == <<route, credit, inPool, cmd>>

Ops == {"lease", "renew", "retire", "refund", "claim", "credit"}
Statuses == {"none", "Created", "Active", "Retired"}
RefundKinds == {"unactivated", "retired"}
Calls == {"create", "renew", "retire", "withdraw", "credit"} \cup RefundKinds

RouteTypeOK ==
    /\ route \in [status : Statuses, generation : BOOLEAN, refunded : BOOLEAN, paid : Nat]
    /\ credit \in 0..MaxCredit
    /\ inPool \subseteq [by : RouteCmds, call : Calls, amount : Nat]
    /\ cmd \in [RouteCmds -> [op : Ops, yes : BOOLEAN, mode : {"auto"} \cup RefundKinds,
                              place : {"reading", "waiting", "after", "done"}, read : 0..3,
                              saw : [status : Statuses, refunded : BOOLEAN,
                                     generation : BOOLEAN, paid : Nat, credit : Nat],
                              told : {"nothing", "plan", "receipt", "error"},
                              applied : BOOLEAN]]

Untold == [status |-> "none", refunded |-> FALSE, generation |-> FALSE, paid |-> 0, credit |-> 0]

RouteInit ==
    /\ route \in {[status |-> s, generation |-> FALSE, refunded |-> FALSE, paid |-> 0] :
                     s \in {"none", "Created"}}
    /\ credit = 0
    /\ inPool = {}
    /\ cmd \in [RouteCmds -> {[op |-> o, yes |-> y, mode |-> m, place |-> "reading",
                               read |-> 0, saw |-> Untold, told |-> "nothing",
                               applied |-> FALSE] :
                              o \in Ops, y \in BOOLEAN, m \in {"auto"} \cup RefundKinds}]
    /\ \A c \in RouteCmds : cmd[c].op # "refund" => cmd[c].mode = "auto"

(***************************************************************************)
(* The pallet                                                              *)
(***************************************************************************)

Refundable(kind) ==
    /\ ~route.refunded
    /\ kind = "unactivated" => ~route.generation /\ route.status \in {"Created", "Retired"}
    /\ kind = "retired" => route.generation /\ route.status = "Retired"

Takes(tx) ==
    CASE tx.call = "create" -> route.status = "none"
      [] tx.call = "renew" -> route.status # "none"
      [] tx.call = "retire" -> route.status \in {"Created", "Active"}
      [] tx.call = "withdraw" -> credit >= tx.amount
      [] tx.call = "credit" -> credit < MaxCredit
      [] OTHER -> Refundable(tx.call)

RouteAfter(call) ==
    CASE call = "create" -> [route EXCEPT !.status = "Created", !.paid = 1]
      [] call = "renew" -> [route EXCEPT !.paid = @ + 1]
      [] call = "retire" -> [route EXCEPT !.status = "Retired"]
      [] call \in {"withdraw", "credit"} -> route
      [] OTHER -> [route EXCEPT !.refunded = TRUE]

\* A broker brings a generation up: the status may name it or not.
BringUp ==
    /\ route.status = "Created"
    /\ ~route.refunded
    /\ \E s \in {"Created", "Active"} : route' = [route EXCEPT !.generation = TRUE, !.status = s]
    /\ UNCHANGED <<credit, inPool, cmd>>

Earn ==
    /\ credit < MaxCredit
    /\ credit' = credit + 1
    /\ UNCHANGED <<route, inPool, cmd>>

(***************************************************************************)
(* A command                                                               *)
(***************************************************************************)

Ends(c, told) == cmd' = [cmd EXCEPT ![c].place = "done", ![c].told = told]

\* Every await of a command can throw, and so do a missing seed, a missing
\* route and the timer of signAndSend.  What was sent stays sent.
Throws(c) ==
    /\ cmd[c].place # "done"
    /\ Ends(c, "error")
    /\ UNCHANGED <<route, credit, inPool>>

SawMore(saw, what) ==
    CASE what = "record" -> [saw EXCEPT !.status = route.status, !.paid = route.paid]
      [] what = "refund" -> [saw EXCEPT !.refunded = route.refunded]
      [] what = "generation" -> [saw EXCEPT !.generation = route.generation]
      [] what = "balance" -> [saw EXCEPT !.credit = credit]
      [] OTHER -> saw

\* Which refund the pallet would give, by what was read.
RefundKindsOf(saw, mode) ==
    {k \in RefundKinds :
        /\ ~saw.refunded
        /\ mode \in {"auto", k}
        /\ k = "unactivated" => ~saw.generation /\ saw.status \in {"Created", "Retired"}
        /\ k = "retired" => saw.generation /\ saw.status = "Retired"}

\* --yes is not asked for.
SubmitsAlways(c) == TRUE

Submits(c) == cmd[c].yes

Tx(c, call, amount) == [by |-> c, call |-> call, amount |-> amount]

\* The command's next query, in this order, and after the last its decision:
\* one of the extrinsics that what it saw allows, or the plan alone.
Read(c, op, order, Allowed(_)) ==
    /\ cmd[c].op = op
    /\ cmd[c].place = "reading"
    /\ LET n == cmd[c].read + 1
           saw == SawMore(cmd[c].saw, order[n])
           step(place, told) == cmd' = [cmd EXCEPT ![c].read = n, ![c].saw = saw,
                                                   ![c].place = place, ![c].told = told]
       IN /\ order[n] = "record" => route.status # "none"
          /\ IF n < Len(order)
             THEN step("reading", "nothing") /\ UNCHANGED inPool
             ELSE IF Submits(c) /\ Allowed(saw) # {}
             THEN /\ step("waiting", "nothing")
                  /\ \E tx \in Allowed(saw) : inPool' = inPool \cup {tx}
             ELSE step("done", "plan") /\ UNCHANGED inPool
    /\ UNCHANGED <<route, credit>>

\* The generation is read before the record: what is read next may be later.
RefundReadsGenerationFirst == <<"generation", "record", "refund">>

RefundReads == <<"record", "refund", "generation">>

Refund(c) ==
    Read(c, "refund", RefundReads,
         LAMBDA saw : {Tx(c, k, 0) : k \in RefundKindsOf(saw, cmd[c].mode)})

Lease(c) == Read(c, "lease", <<"price">>, LAMBDA saw : {Tx(c, "create", 0)})

Renew(c) == Read(c, "renew", <<"record", "price">>, LAMBDA saw : {Tx(c, "renew", 0)})

Retire(c) == Read(c, "retire", <<"record">>, LAMBDA saw : {Tx(c, "retire", 0)})

\* All that was seen is claimed, or the --amount, which may not exceed it.
Claim(c) ==
    Read(c, "claim", <<"balance">>, LAMBDA saw : {Tx(c, "withdraw", n) : n \in 1..saw.credit})

ClaimCredit(c) == Read(c, "credit", <<"proof">>, LAMBDA saw : {Tx(c, "credit", 0)})

\* signAndSend resolves when a block applied the extrinsic.
Resolves(c) ==
    /\ cmd[c].place = "waiting"
    /\ cmd[c].applied
    /\ cmd' = [cmd EXCEPT ![c].place = "after"]
    /\ UNCHANGED <<route, credit, inPool>>

\* By how much a renewal moved the epoch the route is paid until.
Gained(old, new) == new - old

\* The receipt is printed with what is read again.
Confirm(c) ==
    /\ cmd[c].place = "after"
    /\ cmd' = [cmd EXCEPT ![c].place = "done", ![c].told = "receipt",
                          ![c].saw = [status |-> route.status, refunded |-> route.refunded,
                                      generation |-> @.generation, credit |-> credit,
                                      paid |-> Gained(@.paid, route.paid)]]
    /\ UNCHANGED <<route, credit, inPool>>

\* A block takes the extrinsic: it is applied, or fails with a dispatch error,
\* which ends the command that waits for it.
IncludeCall(tx) ==
    /\ inPool' = inPool \ {tx}
    /\ IF Takes(tx)
       THEN /\ route' = RouteAfter(tx.call)
            /\ credit' = IF tx.call = "credit" THEN credit + 1 ELSE credit - tx.amount
            /\ cmd' = [cmd EXCEPT ![tx.by].applied = TRUE]
       ELSE /\ IF cmd[tx.by].place = "waiting" THEN Ends(tx.by, "error") ELSE UNCHANGED cmd
            /\ UNCHANGED <<route, credit>>

RouteNext ==
    \/ BringUp \/ Earn
    \/ \E c \in RouteCmds :
          \/ Lease(c) \/ Renew(c) \/ Retire(c) \/ Refund(c) \/ Claim(c) \/ ClaimCredit(c)
          \/ Resolves(c) \/ Confirm(c) \/ Throws(c)
    \/ \E tx \in inPool : IncludeCall(tx)

RouteSpec == RouteInit /\ [][RouteNext]_routeVars

(***************************************************************************)
(* Properties                                                              *)
(***************************************************************************)

\* A refund is asked for only when the pallet would have given it at the moment
\* the last of the three readings was made, or another command had it meanwhile:
\* readings of different moments do not add up to a refund that never was due
\* (the order of the three queries in refundCommandParachain).
RefundWasDue ==
    [][\A tx \in inPool' \ inPool :
          tx.call \in RefundKinds => Refundable(tx.call) \/ route.refunded]_routeVars

\* What a command tells is so.  A receipt is for an extrinsic that was applied
\* and what is read with it shows the effect; a plan was never followed by an
\* extrinsic (all commands of proof-ingress-commands.ts, --yes and signAndSend).
ToldIsTrue ==
    \A c \in RouteCmds :
        /\ cmd[c].told = "receipt" =>
              /\ cmd[c].applied
              /\ cmd[c].op = "refund" => cmd[c].saw.refunded
              /\ cmd[c].op = "lease" => cmd[c].saw.status # "none"
              /\ cmd[c].op = "retire" => cmd[c].saw.status = "Retired"
              /\ cmd[c].op = "renew" => cmd[c].saw.paid > 0
        /\ cmd[c].told = "plan" => ~cmd[c].applied /\ \A tx \in inPool : tx.by # c
        /\ cmd[c].applied => cmd[c].yes

\* What the route commands tell is so, and a refund is sent only when it is
\* due.
RoutesSafe == [](RouteTypeOK /\ ToldIsTrue) /\ RefundWasDue
===============================================================================
