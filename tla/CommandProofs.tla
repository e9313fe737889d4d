--------------------------- MODULE CommandProofs ---------------------------
(***************************************************************************)
(* What the commands on the PROOF Ingress pallet, on the registry contract *)
(* and on the relays' files guarantee for any number of commands, whatever *)
(* else moves the chain and wherever they stop: the invariants of          *)
(* RouteCommands, SessionCommands and RelayFiles, and that their           *)
(* properties follow.                                                      *)
(***************************************************************************)
EXTENDS RouteCommands, SessionCommands, RelayFiles, TLAPS

(***************************************************************************)
(* The commands on the pallet                                              *)
(***************************************************************************)
\* The queries of each command, in the order in which it makes them.
QueriesOf(op) ==
    CASE op = "refund" -> RefundReads
      [] op = "lease"  -> <<"price">>
      [] op = "renew"  -> <<"record", "price">>
      [] op = "retire" -> <<"record">>
      [] op = "claim"  -> <<"balance">>
      [] op = "credit" -> <<"proof">>

\* The extrinsics each command may send.
CallsOf(op) ==
    CASE op = "refund" -> RefundKinds
      [] op = "lease"  -> {"create"}
      [] op = "renew"  -> {"renew"}
      [] op = "retire" -> {"retire"}
      [] op = "claim"  -> {"withdraw"}
      [] op = "credit" -> {"credit"}

\* The parts of the invariant.  The pallet: a route that nobody created has no
\* history, and an active one has a generation.
RouteHasHistory ==
    /\ route.status = "none" => route.paid = 0 /\ ~route.generation /\ ~route.refunded
    /\ route.status = "Active" => route.generation

\* The pool: an extrinsic is the only one of a command that was allowed to send
\* it and has not been told of its effect.
TxIsAsked ==
    /\ \A tx \in inPool :
          /\ cmd[tx.by].yes /\ ~cmd[tx.by].applied
          /\ cmd[tx.by].place \in {"waiting", "done"}
          /\ cmd[tx.by].told \notin {"plan", "receipt"}
          /\ tx.call \in CallsOf(cmd[tx.by].op)
          /\ tx.call # "withdraw" => tx.amount = 0
    /\ \A t1, t2 \in inPool : t1.by = t2.by => t1 = t2

\* What a command read is older than the pallet's state, which only moves on.
ReadingsAge(c) ==
    /\ cmd[c].place # "done" => cmd[c].saw.paid <= route.paid
    /\ cmd[c].op = "refund" /\ cmd[c].place = "reading" /\ cmd[c].read > 0 =>
          /\ cmd[c].saw.status # "none" /\ route.status # "none"
          /\ cmd[c].saw.status = "Retired" => route.status = "Retired"

\* The effect of an extrinsic that was applied stays in the pallet.
EffectStays(c) ==
    cmd[c].applied =>
        /\ cmd[c].yes
        /\ cmd[c].op = "refund" => route.refunded
        /\ cmd[c].op = "lease" => route.status # "none"
        /\ cmd[c].op = "retire" => route.status = "Retired"
        /\ cmd[c].op = "renew" /\ cmd[c].place # "done" => cmd[c].saw.paid < route.paid

PlaceIsReal(c) ==
    /\ cmd[c].told # "nothing" => cmd[c].place = "done"
    /\ cmd[c].place = "reading" => ~cmd[c].applied /\ cmd[c].read < Len(QueriesOf(cmd[c].op))
    /\ cmd[c].place = "waiting" => cmd[c].yes
    /\ cmd[c].place = "after" => cmd[c].applied
    /\ cmd[c].told = "plan" => ~cmd[c].applied

ReceiptIsReal(c) ==
    cmd[c].told = "receipt" =>
        /\ cmd[c].applied
        /\ cmd[c].op = "refund" => cmd[c].saw.refunded
        /\ cmd[c].op = "lease" => cmd[c].saw.status # "none"
        /\ cmd[c].op = "retire" => cmd[c].saw.status = "Retired"
        /\ cmd[c].op = "renew" => cmd[c].saw.paid > 0

CommandIsHonest(c) ==
    ReadingsAge(c) /\ EffectStays(c) /\ PlaceIsReal(c) /\ ReceiptIsReal(c)

RouteInv ==
    /\ RouteTypeOK
    /\ RouteHasHistory
    /\ TxIsAsked
    /\ \A c \in RouteCmds : CommandIsHonest(c)

-------------------------------------------------------------------------------
\* The types of a reading and of a command.
Seen == [status : Statuses, refunded : BOOLEAN, generation : BOOLEAN, paid : Nat, credit : Nat]

Commands == [op : Ops, yes : BOOLEAN, mode : {"auto"} \cup RefundKinds,
             place : {"reading", "waiting", "after", "done"}, read : 0..3, saw : Seen,
             told : {"nothing", "plan", "receipt", "error"}, applied : BOOLEAN]

LEMMA RouteInvInit == RouteInit => RouteInv
<1> SUFFICES ASSUME RouteInit PROVE RouteInv
  OBVIOUS
<1>1. RouteTypeOK
  <2>1. route \in [status : Statuses, generation : BOOLEAN, refunded : BOOLEAN, paid : Nat]
    <3>1. PICK s \in {"none", "Created"} :
              route = [status |-> s, generation |-> FALSE, refunded |-> FALSE, paid |-> 0]
      BY DEF RouteInit
    <3> QED
      BY <3>1 DEF Statuses
  <2>2. Untold \in Seen
    BY DEF Untold, Seen, Statuses
  <2>3. cmd \in [RouteCmds -> Commands]
    <3>1. ASSUME NEW c \in RouteCmds PROVE cmd[c] \in Commands
      <4>1. PICK o \in Ops, y \in BOOLEAN, m \in {"auto"} \cup RefundKinds :
                cmd[c] = [op |-> o, yes |-> y, mode |-> m, place |-> "reading",
                          read |-> 0, saw |-> Untold, told |-> "nothing", applied |-> FALSE]
        BY DEF RouteInit
      <4> QED
        BY <2>2, <4>1 DEF Commands
    <3> DEFINE Fresh == {[op |-> o, yes |-> y, mode |-> m, place |-> "reading",
                          read |-> 0, saw |-> Untold, told |-> "nothing",
                          applied |-> FALSE] :
                         o \in Ops, y \in BOOLEAN, m \in {"auto"} \cup RefundKinds}
    <3>2. cmd \in [RouteCmds -> Fresh]
      BY DEF RouteInit
    <3> HIDE DEF Fresh
    <3> QED
      BY <3>1, <3>2
  <2> QED
    BY <2>1, <2>3, MaxCreditOK DEF RouteInit, RouteTypeOK, MaxCreditOK, Commands, Seen
<1>2. RouteHasHistory /\ TxIsAsked
  BY DEF RouteInit, RouteHasHistory, TxIsAsked
<1>3. ASSUME NEW c \in RouteCmds PROVE CommandIsHonest(c)
  <2>1. /\ cmd[c].place = "reading" /\ cmd[c].read = 0 /\ cmd[c].saw = Untold
        /\ cmd[c].told = "nothing" /\ ~cmd[c].applied /\ cmd[c].op \in Ops
        /\ route.paid = 0
    BY DEF RouteInit
  <2>2. 0 < Len(QueriesOf(cmd[c].op))
    BY <2>1 DEF QueriesOf, Ops, RefundReads
  <2> QED
    BY <2>1, <2>2 DEF CommandIsHonest, ReadingsAge, EffectStays, PlaceIsReal,
                      ReceiptIsReal, Untold
<1> QED
  BY <1>1, <1>2, <1>3 DEF RouteInv

-------------------------------------------------------------------------------
\* What all commands have in common when they make a query: the place they go
\* to, and the one extrinsic they may send.
ReadsOn(c) ==
    /\ cmd[c].place = "reading"
    /\ UNCHANGED <<route, credit>>
    /\ \E place \in {"reading", "waiting", "done"}, told \in {"nothing", "plan"} :
          /\ cmd' = [cmd EXCEPT ![c].read = cmd[c].read + 1,
                               ![c].saw = SawMore(cmd[c].saw,
                                                  QueriesOf(cmd[c].op)[cmd[c].read + 1]),
                               ![c].place = place, ![c].told = told]
          /\ told = "plan" => place = "done"
          /\ place = "reading" => cmd[c].read + 1 < Len(QueriesOf(cmd[c].op))
          /\ IF place = "waiting"
             THEN /\ cmd[c].yes
                  /\ \E call \in CallsOf(cmd[c].op), amount \in Nat :
                        /\ call # "withdraw" => amount = 0
                        /\ inPool' = inPool \cup {Tx(c, call, amount)}
             ELSE UNCHANGED inPool
    /\ QueriesOf(cmd[c].op)[cmd[c].read + 1] = "record" => route.status # "none"

Queries(c) ==
    Lease(c) \/ Renew(c) \/ Retire(c) \/ Refund(c) \/ Claim(c) \/ ClaimCredit(c)

LEMMA SawMoreType ==
    ASSUME RouteTypeOK, NEW saw \in Seen, NEW what
    PROVE  /\ SawMore(saw, what) \in Seen
           /\ SawMore(saw, what).paid \in {saw.paid, route.paid}
           /\ SawMore(saw, what).status =
                 IF what = "record" THEN route.status ELSE saw.status
<1>1. credit \in Nat
  BY MaxCreditOK DEF RouteTypeOK, MaxCreditOK
<1> QED
  BY <1>1 DEF SawMore, Seen, RouteTypeOK

LEMMA QueriesReadOn ==
    ASSUME RouteTypeOK, NEW c \in RouteCmds, Queries(c)
    PROVE  ReadsOn(c)
<1>1. CASE Lease(c)
  BY <1>1 DEF Lease, Read, ReadsOn, QueriesOf, CallsOf, Submits
<1>2. CASE Renew(c)
  BY <1>2 DEF Renew, Read, ReadsOn, QueriesOf, CallsOf, Submits
<1>3. CASE Retire(c)
  BY <1>3 DEF Retire, Read, ReadsOn, QueriesOf, CallsOf, Submits
<1>4. CASE Refund(c)
  BY <1>4 DEF Refund, Read, ReadsOn, QueriesOf, CallsOf, Submits, RefundKindsOf, RefundKinds
<1>5. CASE Claim(c)
  <2> DEFINE saw == SawMore(cmd[c].saw, <<"balance">>[cmd[c].read + 1])
  <2>1. saw \in Seen
    BY SawMoreType DEF RouteTypeOK, Seen
  <2>2. 1..saw.credit \subseteq Nat
    BY <2>1 DEF Seen
  <2> QED
    BY <1>5, <2>2 DEF Claim, Read, ReadsOn, QueriesOf, CallsOf, Submits
<1>6. CASE ClaimCredit(c)
  BY <1>6 DEF ClaimCredit, Read, ReadsOn, QueriesOf, CallsOf, Submits
<1> QED
  BY <1>1, <1>2, <1>3, <1>4, <1>5, <1>6 DEF Queries

-------------------------------------------------------------------------------
\* What a query preserves.
LEMMA QueriesKeep ==
    ASSUME RouteInv, NEW c \in RouteCmds, ReadsOn(c)
    PROVE  RouteInv'
<1> DEFINE what == QueriesOf(cmd[c].op)[cmd[c].read + 1]
           saw == SawMore(cmd[c].saw, what)
<1>1. RouteTypeOK /\ cmd[c] \in Commands /\ cmd \in [RouteCmds -> Commands]
  BY DEF RouteInv, RouteTypeOK, Commands, Seen
<1>2. /\ cmd[c].op \in Ops /\ cmd[c].read \in 0..3 /\ cmd[c].saw \in Seen
      /\ cmd[c].mode \in {"auto"} \cup RefundKinds
      /\ cmd[c].yes \in BOOLEAN /\ cmd[c].applied \in BOOLEAN
  BY <1>1 DEF Commands
<1>3. /\ saw \in Seen /\ saw.paid \in {cmd[c].saw.paid, route.paid}
      /\ saw.status = IF what = "record" THEN route.status ELSE cmd[c].saw.status
  BY <1>1, <1>2, SawMoreType
<1>4. /\ cmd[c].place = "reading" /\ cmd[c].read < Len(QueriesOf(cmd[c].op))
      /\ ~cmd[c].applied /\ cmd[c].told = "nothing"
      /\ cmd[c].saw.paid <= route.paid
      /\ \A tx \in inPool : tx.by # c
  BY DEF RouteInv, CommandIsHonest, PlaceIsReal, ReadingsAge, TxIsAsked, ReadsOn
<1>5. PICK place \in {"reading", "waiting", "done"}, told \in {"nothing", "plan"} :
          /\ cmd' = [cmd EXCEPT ![c].read = cmd[c].read + 1, ![c].saw = saw,
                               ![c].place = place, ![c].told = told]
          /\ told = "plan" => place = "done"
          /\ place = "reading" => cmd[c].read + 1 < Len(QueriesOf(cmd[c].op))
          /\ IF place = "waiting"
             THEN /\ cmd[c].yes
                  /\ \E call \in CallsOf(cmd[c].op), amount \in Nat :
                        /\ call # "withdraw" => amount = 0
                        /\ inPool' = inPool \cup {Tx(c, call, amount)}
             ELSE UNCHANGED inPool
  BY DEF ReadsOn
<1>6. UNCHANGED <<route, credit>> /\ (what = "record" => route.status # "none")
  BY DEF ReadsOn
<1>7. Len(QueriesOf(cmd[c].op)) <= 3
  BY <1>2 DEF QueriesOf, Ops, RefundReads
<1> HIDE DEF what, saw
<1>8. /\ \A d \in RouteCmds : d # c => cmd'[d] = cmd[d]
      /\ cmd'[c].op = cmd[c].op /\ cmd'[c].yes = cmd[c].yes /\ cmd'[c].mode = cmd[c].mode
      /\ cmd'[c].applied = cmd[c].applied /\ cmd'[c].read = cmd[c].read + 1
      /\ cmd'[c].saw = saw /\ cmd'[c].place = place /\ cmd'[c].told = told
      /\ cmd' \in [RouteCmds -> Commands]
  <2>1. cmd[c].read + 1 \in 0..3
    BY <1>2, <1>4, <1>7
  <2> QED
    BY <1>1, <1>2, <1>3, <1>5, <2>1 DEF Commands
<1>9. /\ inPool' \subseteq [by : RouteCmds, call : Calls, amount : Nat]
      /\ \A tx \in inPool' \ inPool :
            /\ place = "waiting" /\ cmd[c].yes /\ tx.by = c
            /\ tx.call \in CallsOf(cmd[c].op)
            /\ tx.call # "withdraw" => tx.amount = 0
      /\ \A t1, t2 \in inPool' \ inPool : t1 = t2
      /\ place = "waiting" => cmd[c].yes
  <2>1. CallsOf(cmd[c].op) \subseteq Calls
    BY <1>2 DEF CallsOf, Calls, Ops
  <2>2. inPool \subseteq [by : RouteCmds, call : Calls, amount : Nat]
    BY <1>1 DEF RouteTypeOK
  <2> QED
    BY <1>5, <2>1, <2>2 DEF Tx
<1>10. RouteTypeOK' /\ RouteHasHistory'
  BY <1>6, <1>8, <1>9 DEF RouteInv, RouteTypeOK, RouteHasHistory, Commands, Seen
<1>11. TxIsAsked'
  <2>1. ASSUME NEW tx \in inPool, tx \in inPool'
        PROVE  tx.by # c /\ cmd'[tx.by] = cmd[tx.by]
    BY <1>1, <1>4, <1>8 DEF RouteTypeOK
  <2> QED
    <3>1. ASSUME NEW tx \in inPool'
          PROVE  /\ cmd'[tx.by].yes /\ ~cmd'[tx.by].applied
                 /\ cmd'[tx.by].place \in {"waiting", "done"}
                 /\ cmd'[tx.by].told \notin {"plan", "receipt"}
                 /\ tx.call \in CallsOf(cmd'[tx.by].op)
                 /\ tx.call # "withdraw" => tx.amount = 0
      <4>1. CASE tx \in inPool
        BY <2>1, <4>1 DEF RouteInv, TxIsAsked
      <4>2. CASE tx \notin inPool
        BY <1>4, <1>5, <1>8, <1>9, <4>2
      <4> QED
        BY <4>1, <4>2
    <3>2. \A t1, t2 \in inPool' : t1.by = t2.by => t1 = t2
      BY <1>9, <2>1 DEF RouteInv, TxIsAsked
    <3> QED
      BY <3>1, <3>2 DEF TxIsAsked
<1>12. CommandIsHonest(c)'
  <2>1. ReadingsAge(c)'
    <3>1. saw.paid \in Nat /\ route.paid \in Nat /\ cmd[c].saw.paid <= route.paid
      BY <1>1, <1>3, <1>4 DEF RouteTypeOK, Seen
    <3>2. saw.paid <= route.paid
      BY <1>3, <3>1
    <3>3. CASE cmd[c].op = "refund"
      <4>1. what = IF cmd[c].read = 0 THEN "record"
                   ELSE IF cmd[c].read = 1 THEN "refund" ELSE "generation"
        BY <1>4, <1>2, <3>3 DEF what, QueriesOf, RefundReads
      <4>2. saw.status # "none" /\ route.status # "none"
        BY <1>2, <1>3, <1>4, <1>6, <3>3, <4>1
        DEF RouteInv, CommandIsHonest, ReadingsAge
      <4>3. saw.status = "Retired" => route.status = "Retired"
        BY <1>2, <1>3, <1>4, <1>6, <3>3, <4>1
        DEF RouteInv, CommandIsHonest, ReadingsAge
      <4> QED
        BY <1>6, <1>8, <3>2, <4>2, <4>3 DEF ReadingsAge
    <3>4. CASE cmd[c].op # "refund"
      BY <1>6, <1>8, <3>2, <3>4 DEF ReadingsAge
    <3> QED
      BY <3>3, <3>4
  <2>2. EffectStays(c)' /\ ReceiptIsReal(c)'
    BY <1>4, <1>5, <1>8 DEF EffectStays, ReceiptIsReal
  <2>3. PlaceIsReal(c)'
    BY <1>4, <1>5, <1>8, <1>9 DEF PlaceIsReal
  <2> QED
    BY <2>1, <2>2, <2>3 DEF CommandIsHonest
<1>13. ASSUME NEW d \in RouteCmds, d # c PROVE CommandIsHonest(d)'
  BY <1>6, <1>8, <1>13
  DEF RouteInv, CommandIsHonest, ReadingsAge, EffectStays, PlaceIsReal, ReceiptIsReal
<1> QED
  BY <1>10, <1>11, <1>12, <1>13 DEF RouteInv

-------------------------------------------------------------------------------
\* The steps of a command after its queries.
LEMMA EndingsKeep ==
    ASSUME RouteInv, NEW c \in RouteCmds, Resolves(c) \/ Confirm(c) \/ Throws(c)
    PROVE  RouteInv'
<1>1. RouteTypeOK /\ cmd[c] \in Commands /\ cmd \in [RouteCmds -> Commands]
  BY DEF RouteInv, RouteTypeOK, Commands, Seen
<1> DEFINE place == cmd'[c].place
           told == cmd'[c].told
           saw == cmd'[c].saw
<1>2. /\ \A d \in RouteCmds : d # c => cmd'[d] = cmd[d]
      /\ cmd'[c].op = cmd[c].op /\ cmd'[c].yes = cmd[c].yes /\ cmd'[c].read = cmd[c].read
      /\ cmd'[c].applied = cmd[c].applied
      /\ cmd' \in [RouteCmds -> Commands]
      /\ place \in {"after", "done"}
      /\ told # "nothing" => place = "done"
      /\ told # "plan"
      /\ place = "after" => cmd[c].applied /\ told = "nothing" /\ cmd[c].place = "waiting"
      /\ told # "receipt" => saw = cmd[c].saw
      /\ told = "receipt" =>
            /\ cmd[c].place = "after"
            /\ saw.status = route.status /\ saw.refunded = route.refunded
            /\ saw.paid = route.paid - cmd[c].saw.paid
  <2>1. CASE Resolves(c)
    <3>1. cmd[c].told = "nothing"
      BY <2>1 DEF Resolves, RouteInv, CommandIsHonest, PlaceIsReal
    <3> QED
      BY <1>1, <2>1, <3>1 DEF Resolves, Commands
  <2>2. CASE Confirm(c)
    <3> DEFINE again == [status |-> route.status, refunded |-> route.refunded,
                         generation |-> cmd[c].saw.generation, credit |-> credit,
                         paid |-> Gained(cmd[c].saw.paid, route.paid)]
    <3>1. /\ cmd[c].saw.paid \in Nat /\ route.paid \in Nat /\ credit \in Nat
          /\ cmd[c].saw.paid <= route.paid
      BY <1>1, <2>2, MaxCreditOK
      DEF RouteTypeOK, MaxCreditOK, Commands, Seen, Confirm, RouteInv, CommandIsHonest,
          ReadingsAge
    <3>2. /\ again \in Seen /\ again.paid = route.paid - cmd[c].saw.paid
          /\ again.status = route.status /\ again.refunded = route.refunded
      BY <1>1, <3>1 DEF RouteTypeOK, Commands, Seen, Gained
    <3>3. cmd' = [cmd EXCEPT ![c].place = "done", ![c].told = "receipt", ![c].saw = again]
      BY <2>2 DEF Confirm
    <3> HIDE DEF again
    <3>4. /\ cmd'[c] = [cmd[c] EXCEPT !.place = "done", !.told = "receipt", !.saw = again]
          /\ \A d \in RouteCmds : d # c => cmd'[d] = cmd[d]
          /\ cmd' \in [RouteCmds -> Commands]
      BY <1>1, <3>2, <3>3 DEF Commands
    <3> QED
      BY <1>1, <2>2, <3>2, <3>4 DEF Confirm, Commands
  <2>3. CASE Throws(c)
    BY <1>1, <2>3 DEF Throws, Ends, Commands
  <2> QED
    BY <2>1, <2>2, <2>3
<1> HIDE DEF place, told, saw
<1>3. /\ UNCHANGED <<route, credit, inPool>>
      /\ cmd[c].place # "done" /\ CommandIsHonest(c)
  BY DEF Resolves, Confirm, Throws, RouteInv
<1>4. cmd'[c].place = place /\ cmd'[c].told = told /\ cmd'[c].saw = saw
  BY DEF place, told, saw
<1>5. RouteTypeOK' /\ RouteHasHistory'
  BY <1>2, <1>3, <1>4 DEF RouteInv, RouteTypeOK, RouteHasHistory, Commands, Seen
<1>6. TxIsAsked'
  <2>1. ASSUME NEW tx \in inPool
        PROVE  /\ tx.by \in RouteCmds
               /\ cmd[tx.by].yes /\ ~cmd[tx.by].applied
               /\ cmd[tx.by].place \in {"waiting", "done"}
               /\ cmd[tx.by].told \notin {"plan", "receipt"}
               /\ tx.call \in CallsOf(cmd[tx.by].op)
               /\ tx.call # "withdraw" => tx.amount = 0
    BY <1>1 DEF RouteInv, TxIsAsked, RouteTypeOK
  <2>2. ASSUME NEW tx \in inPool, tx.by = c
        PROVE  place = "done" /\ told \notin {"plan", "receipt"}
    BY <1>2, <2>1, <2>2
  <2>3. \A t1, t2 \in inPool' : t1.by = t2.by => t1 = t2
    BY <1>3 DEF RouteInv, TxIsAsked
  <2> QED
    BY <1>2, <1>3, <1>4, <2>1, <2>2, <2>3 DEF TxIsAsked
<1>7. CommandIsHonest(c)'
  <2>1. cmd[c].saw.paid \in Nat /\ route.paid \in Nat
    BY <1>1 DEF RouteTypeOK, Commands, Seen
  <2>2. ReadingsAge(c)' /\ EffectStays(c)' /\ PlaceIsReal(c)'
    BY <1>2, <1>3, <1>4 DEF CommandIsHonest, ReadingsAge, EffectStays, PlaceIsReal
  <2>3. ReceiptIsReal(c)'
    BY <1>2, <1>3, <1>4, <2>1
    DEF CommandIsHonest, ReceiptIsReal, EffectStays, PlaceIsReal
  <2> QED
    BY <2>2, <2>3 DEF CommandIsHonest
<1>8. ASSUME NEW d \in RouteCmds, d # c PROVE CommandIsHonest(d)'
  BY <1>2, <1>3, <1>4, <1>8
  DEF RouteInv, CommandIsHonest, ReadingsAge, EffectStays, PlaceIsReal, ReceiptIsReal
<1> QED
  BY <1>5, <1>6, <1>7, <1>8 DEF RouteInv

\* The steps of the pallet that no command asked for.
LEMMA PalletKeeps ==
    ASSUME RouteInv, BringUp \/ Earn
    PROVE  RouteInv'
<1>1. /\ UNCHANGED <<inPool, cmd>>
      /\ route'.paid = route.paid /\ route'.refunded = route.refunded
      /\ route.generation => route'.generation
      /\ route'.status = "none" <=> route.status = "none"
      /\ route.status = "Retired" => route'.status = "Retired"
      /\ route'.status = "Active" => route'.generation
      /\ route' \in [status : Statuses, generation : BOOLEAN, refunded : BOOLEAN, paid : Nat]
      /\ credit' \in 0..MaxCredit
      /\ route'.status = "none" => route' = route
  <2>1. CASE BringUp
    BY <2>1 DEF BringUp, RouteInv, RouteTypeOK, Statuses
  <2>2. CASE Earn
    BY <2>2, MaxCreditOK DEF Earn, RouteInv, RouteTypeOK, RouteHasHistory, MaxCreditOK
  <2> QED
    BY <2>1, <2>2
<1>2. RouteTypeOK' /\ RouteHasHistory' /\ TxIsAsked'
  BY <1>1 DEF RouteInv, RouteTypeOK, RouteHasHistory, TxIsAsked
<1>3. ASSUME NEW d \in RouteCmds PROVE CommandIsHonest(d)'
  BY <1>1
  DEF RouteInv, CommandIsHonest, ReadingsAge, EffectStays, PlaceIsReal, ReceiptIsReal
<1> QED
  BY <1>2, <1>3 DEF RouteInv

\* What the pallet does with an extrinsic that it takes: the effect that the
\* command expects, and nothing is lost that another command relied on.
LEMMA CallHasEffect ==
    ASSUME RouteInv, NEW tx \in inPool, Takes(tx), route' = RouteAfter(tx.call)
    PROVE  /\ route' \in [status : Statuses, generation : BOOLEAN, refunded : BOOLEAN, paid : Nat]
           /\ RouteHasHistory'
           /\ route.paid <= route'.paid
           /\ route.refunded => route'.refunded
           /\ route.status # "none" => route'.status # "none"
           /\ route.status = "Retired" => route'.status = "Retired"
           /\ tx.call \in RefundKinds => route'.refunded
           /\ tx.call = "create" => route'.status # "none"
           /\ tx.call = "retire" => route'.status = "Retired"
           /\ tx.call = "renew" => route.paid < route'.paid
<1>1. /\ route \in [status : Statuses, generation : BOOLEAN, refunded : BOOLEAN, paid : Nat]
      /\ RouteHasHistory /\ tx.call \in Calls
  BY DEF RouteInv, RouteTypeOK
<1>2. CASE tx.call = "create"
  <2>1. route.status = "none" /\ route' = [route EXCEPT !.status = "Created", !.paid = 1]
    BY <1>2 DEF Takes, RouteAfter
  <2>2. route = [status |-> route.status, generation |-> route.generation,
                 refunded |-> route.refunded, paid |-> route.paid]
    BY <1>1
  <2>3. route' = [status |-> "Created", generation |-> route.generation,
                  refunded |-> route.refunded, paid |-> 1]
    BY <2>1, <2>2
  <2>4. route.paid = 0 /\ route.generation \in BOOLEAN /\ route.refunded \in BOOLEAN
    BY <1>1, <2>1 DEF RouteHasHistory
  <2> QED
    BY <1>2, <2>1, <2>3, <2>4 DEF RouteHasHistory, Statuses, RefundKinds
<1>3. CASE tx.call = "renew"
  BY <1>1, <1>3 DEF Takes, RouteAfter, RouteHasHistory, Statuses, RefundKinds
<1>4. CASE tx.call = "retire"
  BY <1>1, <1>4 DEF Takes, RouteAfter, RouteHasHistory, Statuses, RefundKinds
<1>5. CASE tx.call \in {"withdraw", "credit"}
  BY <1>1, <1>5 DEF RouteAfter, RouteHasHistory, RefundKinds
<1>6. CASE tx.call \in RefundKinds
  <2>1. route' = [route EXCEPT !.refunded = TRUE] /\ Refundable(tx.call)
    BY <1>6 DEF Takes, RouteAfter, RefundKinds
  <2>2. /\ route'.status = route.status /\ route'.paid = route.paid
        /\ route'.generation = route.generation /\ route'.refunded
        /\ route' \in [status : Statuses, generation : BOOLEAN, refunded : BOOLEAN, paid : Nat]
        /\ route.status # "none" /\ route.paid \in Nat
    BY <1>1, <1>6, <2>1 DEF Refundable, RefundKinds
  <2> QED
    BY <1>1, <1>6, <2>2 DEF RouteHasHistory, RefundKinds
<1> QED
  BY <1>1, <1>2, <1>3, <1>4, <1>5, <1>6 DEF Calls

LEMMA IncludeKeeps ==
    ASSUME RouteInv, NEW tx \in inPool, IncludeCall(tx)
    PROVE  RouteInv'
<1>1. /\ RouteTypeOK /\ cmd \in [RouteCmds -> Commands] /\ RouteHasHistory /\ TxIsAsked
      /\ tx.by \in RouteCmds /\ tx.call \in Calls /\ tx.amount \in Nat
      /\ cmd[tx.by] \in Commands /\ CommandIsHonest(tx.by)
  BY DEF RouteInv, RouteTypeOK, Commands, Seen
<1>2. /\ cmd[tx.by].yes /\ ~cmd[tx.by].applied
      /\ cmd[tx.by].place \in {"waiting", "done"}
      /\ cmd[tx.by].told \notin {"plan", "receipt"}
      /\ tx.call \in CallsOf(cmd[tx.by].op)
      /\ tx.call # "withdraw" => tx.amount = 0
      /\ \A other \in inPool' : other \in inPool /\ other.by # tx.by
  BY <1>1 DEF TxIsAsked, IncludeCall
<1>3. CASE Takes(tx)
  <2>1. /\ route' = RouteAfter(tx.call)
        /\ credit' = IF tx.call = "credit" THEN credit + 1 ELSE credit - tx.amount
        /\ cmd' = [cmd EXCEPT ![tx.by].applied = TRUE]
    BY <1>3 DEF IncludeCall
  <2>2. /\ \A d \in RouteCmds : d # tx.by => cmd'[d] = cmd[d]
        /\ cmd'[tx.by] = [cmd[tx.by] EXCEPT !.applied = TRUE]
        /\ cmd' \in [RouteCmds -> Commands]
    BY <1>1, <2>1 DEF Commands
  <2>3. credit' \in 0..MaxCredit
    <3>1. credit \in 0..MaxCredit /\ MaxCredit \in Nat
      BY <1>1, MaxCreditOK DEF RouteTypeOK, MaxCreditOK
    <3>2. CASE tx.call = "credit"
      BY <1>3, <2>1, <3>1, <3>2 DEF Takes
    <3>3. CASE tx.call = "withdraw"
      BY <1>1, <1>3, <2>1, <3>1, <3>3 DEF Takes
    <3>4. CASE tx.call \notin {"credit", "withdraw"}
      BY <1>2, <2>1, <3>1, <3>4
    <3> QED
      BY <3>2, <3>3, <3>4
  <2>4. /\ route' \in [status : Statuses, generation : BOOLEAN, refunded : BOOLEAN, paid : Nat]
        /\ RouteHasHistory'
        /\ route.paid <= route'.paid
        /\ route.refunded => route'.refunded
        /\ route.status # "none" => route'.status # "none"
        /\ route.status = "Retired" => route'.status = "Retired"
        /\ tx.call \in RefundKinds => route'.refunded
        /\ tx.call = "create" => route'.status # "none"
        /\ tx.call = "retire" => route'.status = "Retired"
        /\ tx.call = "renew" => route.paid < route'.paid
    BY <1>3, <2>1, CallHasEffect
  <2>5. RouteTypeOK'
    BY <1>1, <2>2, <2>3, <2>4 DEF RouteTypeOK, IncludeCall, Commands, Seen
  <2>6. TxIsAsked'
    BY <1>1, <1>2, <2>2 DEF TxIsAsked, RouteTypeOK
  <2>7. ASSUME NEW d \in RouteCmds
        PROVE  /\ cmd[d].saw.paid \in Nat /\ route.paid \in Nat /\ route'.paid \in Nat
               /\ ReadingsAge(d)' /\ PlaceIsReal(d)' /\ ReceiptIsReal(d)'
    <3>1. cmd[d].saw.paid \in Nat /\ route.paid \in Nat /\ route'.paid \in Nat
      BY <1>1, <2>4 DEF RouteTypeOK, Commands, Seen
    <3>2. /\ cmd'[d].op = cmd[d].op /\ cmd'[d].yes = cmd[d].yes /\ cmd'[d].saw = cmd[d].saw
          /\ cmd'[d].place = cmd[d].place /\ cmd'[d].told = cmd[d].told
          /\ cmd'[d].read = cmd[d].read
          /\ cmd'[d].applied = (cmd[d].applied \/ d = tx.by)
      BY <1>1, <1>2, <2>2 DEF Commands
    <3>3. CommandIsHonest(d)
      BY DEF RouteInv
    <3>4. ReadingsAge(d)'
      BY <2>4, <3>1, <3>2, <3>3 DEF CommandIsHonest, ReadingsAge
    <3>5. PlaceIsReal(d)' /\ ReceiptIsReal(d)'
      BY <1>2, <3>2, <3>3 DEF CommandIsHonest, PlaceIsReal, ReceiptIsReal
    <3> QED
      BY <3>1, <3>4, <3>5
  <2>8. EffectStays(tx.by)'
    <3>1. /\ cmd[tx.by].op = "refund" => route'.refunded
          /\ cmd[tx.by].op = "lease" => route'.status # "none"
          /\ cmd[tx.by].op = "retire" => route'.status = "Retired"
          /\ cmd[tx.by].op = "renew" => route.paid < route'.paid
      BY <1>2, <2>4 DEF CallsOf
    <3>2. cmd[tx.by].op = "renew" /\ cmd[tx.by].place # "done" => cmd[tx.by].saw.paid < route'.paid
      BY <1>1, <2>7, <3>1 DEF CommandIsHonest, ReadingsAge
    <3> QED
      BY <1>1, <1>2, <2>2, <3>1, <3>2 DEF EffectStays, Commands
  <2>9. ASSUME NEW d \in RouteCmds, d # tx.by PROVE EffectStays(d)'
    BY <2>2, <2>4, <2>7, <2>9 DEF RouteInv, CommandIsHonest, EffectStays
  <2> QED
    BY <2>4, <2>5, <2>6, <2>7, <2>8, <2>9 DEF RouteInv, CommandIsHonest
<1>4. CASE ~Takes(tx)
  <2>1. /\ UNCHANGED <<route, credit>>
        /\ IF cmd[tx.by].place = "waiting" THEN Ends(tx.by, "error") ELSE UNCHANGED cmd
    BY <1>4 DEF IncludeCall
  <2>2. CASE UNCHANGED cmd
    <3>1. RouteTypeOK' /\ RouteHasHistory' /\ TxIsAsked'
      BY <1>1, <1>2, <2>1, <2>2 DEF RouteTypeOK, RouteHasHistory, TxIsAsked, IncludeCall
    <3>2. \A d \in RouteCmds : CommandIsHonest(d)'
      BY <2>1, <2>2 DEF RouteInv, CommandIsHonest, ReadingsAge, EffectStays, PlaceIsReal,
                        ReceiptIsReal
    <3> QED
      BY <3>1, <3>2 DEF RouteInv
  <2>3. CASE Ends(tx.by, "error")
    <3>1. /\ \A d \in RouteCmds : d # tx.by => cmd'[d] = cmd[d]
          /\ cmd'[tx.by] = [cmd[tx.by] EXCEPT !.place = "done", !.told = "error"]
          /\ cmd' \in [RouteCmds -> Commands]
      BY <1>1, <2>3 DEF Ends, Commands
    <3>2. RouteTypeOK' /\ RouteHasHistory'
      BY <1>1, <2>1, <3>1 DEF RouteTypeOK, RouteHasHistory, IncludeCall, Commands, Seen
    <3>3. TxIsAsked'
      BY <1>1, <1>2, <3>1 DEF TxIsAsked, RouteTypeOK
    <3>4. CommandIsHonest(tx.by)'
      BY <1>1, <1>2, <2>1, <3>1
      DEF Commands, CommandIsHonest, ReadingsAge, EffectStays, PlaceIsReal, ReceiptIsReal
    <3>5. ASSUME NEW d \in RouteCmds, d # tx.by PROVE CommandIsHonest(d)'
      BY <2>1, <3>1, <3>5
      DEF RouteInv, CommandIsHonest, ReadingsAge, EffectStays, PlaceIsReal, ReceiptIsReal
    <3> QED
      BY <3>2, <3>3, <3>4, <3>5 DEF RouteInv
  <2> QED
    BY <2>1, <2>2, <2>3
<1> QED
  BY <1>3, <1>4

LEMMA RouteInvNext == RouteInv /\ [RouteNext]_routeVars => RouteInv'
<1> SUFFICES ASSUME RouteInv, [RouteNext]_routeVars PROVE RouteInv'
  OBVIOUS
<1>1. CASE BringUp \/ Earn
  BY <1>1, PalletKeeps
<1>2. ASSUME NEW c \in RouteCmds, Queries(c) PROVE RouteInv'
  BY <1>2, QueriesReadOn, QueriesKeep DEF RouteInv
<1>3. ASSUME NEW c \in RouteCmds, Resolves(c) \/ Confirm(c) \/ Throws(c) PROVE RouteInv'
  BY <1>3, EndingsKeep
<1>4. ASSUME NEW tx \in inPool, IncludeCall(tx) PROVE RouteInv'
  BY <1>4, IncludeKeeps
<1>5. CASE UNCHANGED routeVars
  BY <1>5 DEF routeVars, RouteInv, RouteTypeOK, RouteHasHistory, TxIsAsked,
              CommandIsHonest, ReadingsAge, EffectStays, PlaceIsReal, ReceiptIsReal
<1> QED
  BY <1>1, <1>2, <1>3, <1>4, <1>5 DEF RouteNext, Queries

LEMMA RouteInvariance == RouteSpec => []RouteInv
BY RouteInvInit, RouteInvNext, PTL DEF RouteSpec

-------------------------------------------------------------------------------
\* What any number of commands tell of a route is so, whatever other commands,
\* the broker and the blocks do between their awaits.
THEOREM ToldTrue == RouteSpec => [](RouteTypeOK /\ ToldIsTrue)
<1>1. RouteInv => RouteTypeOK /\ ToldIsTrue
  <2> SUFFICES ASSUME RouteInv, NEW c \in RouteCmds
               PROVE  /\ cmd[c].told = "plan" => \A tx \in inPool : tx.by # c
                      /\ CommandIsHonest(c)
    BY DEF RouteInv, ToldIsTrue, CommandIsHonest, ReceiptIsReal, EffectStays, PlaceIsReal
  <2> QED
    BY DEF RouteInv, TxIsAsked
<1> QED
  BY <1>1, RouteInvariance, PTL

\* The three readings of a refund, made at different moments, are together as
\* good as one reading at the last of them: only another command's refund can
\* come between.
LEMMA RefundReadings ==
    ASSUME RouteInv, NEW c \in RouteCmds, ReadsOn(c), Refund(c),
           NEW tx \in inPool' \ inPool
    PROVE  Refundable(tx.call) \/ route.refunded
<1> DEFINE what == RefundReads[cmd[c].read + 1]
           saw == SawMore(cmd[c].saw, what)
<1>1. /\ cmd[c].op = "refund" /\ cmd[c].place = "reading" /\ cmd[c].read < 3
      /\ ~(cmd[c].read + 1 < Len(RefundReads)) /\ tx.call \in RefundKindsOf(saw, cmd[c].mode)
  BY DEF RouteInv, CommandIsHonest, PlaceIsReal, QueriesOf, Refund, Read, Tx, RefundReads
<1>2. cmd[c].read = 2 /\ what = "generation"
  <2>1. cmd[c].read \in 0..3
    BY DEF RouteInv, RouteTypeOK
  <2> QED
    BY <1>1, <2>1 DEF RefundReads
<1>3. /\ cmd[c].saw.status # "none" /\ route.status # "none"
      /\ cmd[c].saw.status = "Retired" => route.status = "Retired"
  BY <1>1, <1>2 DEF RouteInv, CommandIsHonest, ReadingsAge
<1>4. /\ saw.status = cmd[c].saw.status /\ saw.generation = route.generation
      /\ cmd[c].saw.status \in Statuses /\ route.status \in Statuses
  BY <1>2 DEF SawMore, RouteInv, RouteTypeOK
<1>5. route.status = "Active" => route.generation
  BY DEF RouteInv, RouteHasHistory
<1> QED
  BY <1>1, <1>3, <1>4, <1>5 DEF RefundKindsOf, Refundable, RefundKinds, Statuses

\* No refund is asked for that was not due.
THEOREM RefundsAreDue == RouteSpec => RefundWasDue
<1>1. RouteInv /\ [RouteNext]_routeVars =>
        [\A tx \in inPool' \ inPool :
            tx.call \in RefundKinds => Refundable(tx.call) \/ route.refunded]_routeVars
  <2> SUFFICES ASSUME RouteInv, RouteNext,
                      NEW tx \in inPool' \ inPool, tx.call \in RefundKinds
               PROVE  Refundable(tx.call) \/ route.refunded
    OBVIOUS
  <2>1. PICK c \in RouteCmds : Queries(c)
    BY DEF RouteNext, BringUp, Earn, Resolves, Confirm, Throws, IncludeCall, Queries
  <2>2. ReadsOn(c)
    BY <2>1, QueriesReadOn DEF RouteInv
  <2>3. CASE Refund(c)
    BY <2>2, <2>3, RefundReadings
  <2>4. CASE ~Refund(c)
    <3>1. /\ cmd[c].op \in {"lease", "renew", "retire", "claim", "credit"}
      BY <2>1, <2>4 DEF Queries, Lease, Renew, Retire, Claim, ClaimCredit, Read
    <3>2. tx.call \in CallsOf(cmd[c].op)
      BY <2>2 DEF ReadsOn, Tx
    <3> QED
      BY <3>1, <3>2 DEF CallsOf, RefundKinds
  <2> QED
    BY <2>3, <2>4
<1> QED
  BY <1>1, RouteInvariance, PTL DEF RouteSpec, RefundWasDue

\* All that the commands on a route promise.
THEOREM RoutesAreSafe == RouteSpec => RoutesSafe
BY ToldTrue, RefundsAreDue, PTL DEF RoutesSafe

(***************************************************************************)
(* The commands on a session                                               *)
(***************************************************************************)
\* The parts of the invariant.  A nonce is used once.
NonceIsUsedOnce == session.nonce = 1 => session.registered

\* What is sent and not yet in a block is the one transaction of a command that
\* does not know of its effect, and is what its place says.
IsAsked(tx) ==
    /\ scmd[tx.by].place \in {"mapping", "waiting", "after", "done"}
    /\ ~scmd[tx.by].applied /\ scmd[tx.by].told # "plan"
    /\ scmd[tx.by].place = "mapping" => tx.call = "mapAccount"
    /\ scmd[tx.by].place = "waiting" => tx.call = scmd[tx.by].call
    /\ tx.call # "register" => tx.from = scmd[tx.by].signer
    /\ tx.call = "mapAccount" => tx.from.account \in Accounts

SentIsAsked ==
    /\ \A tx \in sent : IsAsked(tx)
    /\ \A t1, t2 \in sent : t1.by = t2.by => t1 = t2

PlanIsOfItsKind(c) ==
    /\ scmd[c].op = "refund" /\ scmd[c].place \notin {"read", "after", "done"} => scmd[c].call \in Refunds
    /\ scmd[c].op = "refund" /\ scmd[c].place \in {"send", "mapping", "waiting"} =>
          scmd[c].signer.account = Developer
    /\ scmd[c].op = "claim" /\ scmd[c].place \in {"send", "mapping", "waiting"} =>
          scmd[c].signer.account \in Accounts
    /\ scmd[c].op = "claim" => scmd[c].call \in {"none", "claim"}
    /\ scmd[c].op = "register" => scmd[c].place \in {"read", "waiting", "after", "done"}
    /\ scmd[c].op = "register" => scmd[c].call \in {"none", "register"}
    /\ scmd[c].place = "waiting" => scmd[c].call # "none"
    /\ scmd[c].place \in {"signer", "send", "mapping"} => scmd[c].call # "none"

\* Unless the contract moved since a refund was planned, the plan still fits.
PlanHolds(c) ==
    LET open == \/ scmd[c].place \in {"signer", "send", "mapping"}
                \/ scmd[c].place = "waiting" /\ ~scmd[c].applied
    IN scmd[c].op = "refund" /\ open /\ ~scmd[c].moved /\ ~scmd[c].asked =>
          scmd[c].call = RefundCall("none") /\ Eligible(scmd[c].call)

\* An account that is about to be mapped is not mapped, unless another command
\* mapped it meanwhile.
MappingIsNeeded(c) ==
    scmd[c].op = "refund" /\ scmd[c].place = "mapping" /\ ~scmd[c].applied /\ ~scmd[c].moved =>
       scmd[c].signer.account \notin mapped

PlaceIsTrue(c) ==
    /\ scmd[c].told # "nothing" => scmd[c].place = "done"
    /\ scmd[c].place \in {"read", "signer", "send"} => ~scmd[c].applied
    /\ scmd[c].told = "plan" => ~scmd[c].applied
    /\ scmd[c].place = "after" /\ scmd[c].op # "register" /\ scmd[c].waits => scmd[c].applied
    /\ scmd[c].told = "receipt" =>
          IF scmd[c].op = "register" THEN session.registered
          ELSE scmd[c].waits => scmd[c].applied

SessionCmdIsSound(c) ==
    PlanIsOfItsKind(c) /\ PlanHolds(c) /\ MappingIsNeeded(c) /\ PlaceIsTrue(c)

SessionInv ==
    /\ SessionTypeOK
    /\ NonceIsUsedOnce
    /\ SentIsAsked
    /\ PayerAsks
    /\ \A c \in SessionCmds : SessionCmdIsSound(c)

-------------------------------------------------------------------------------
\* The types of a transaction and of a command.
Transactions == [by : SessionCmds, from : Signers, call : SessionCalls, nonce : {0}]

SessionCommand ==
    [op : {"register", "refund", "claim"}, call : SessionCalls \cup {"none"},
     place : {"read", "signer", "send", "mapping", "waiting", "after", "done"},
     signer : Signers, asked : BOOLEAN, waits : BOOLEAN, moved : BOOLEAN, applied : BOOLEAN,
     told : {"nothing", "plan", "receipt", "refused", "error"}]

LEMMA SessionTypes ==
    SessionTypeOK <=>
        /\ now \in 0..MaxNow
        /\ session \in [status : States, registered : BOOLEAN, nonce : 0..1]
        /\ owed \subseteq Accounts /\ mapped \subseteq Accounts
        /\ sent \subseteq Transactions
        /\ scmd \in [SessionCmds -> SessionCommand]
BY DEF SessionTypeOK, Transactions, SessionCommand

LEMMA SessionInvInit == SessionInit => SessionInv
<1> SUFFICES ASSUME SessionInit PROVE SessionInv
  OBVIOUS
<1>1. NoSigner \in Signers
  BY DEF NoSigner, Signers
<1>2. \A c \in SessionCmds :
         /\ scmd[c] \in SessionCommand /\ scmd[c].place = "read" /\ scmd[c].told = "nothing"
         /\ ~scmd[c].applied /\ scmd[c].call = "none"
  BY <1>1 DEF SessionInit, SessionCommand, SessionCalls
<1>3. scmd \in [SessionCmds -> SessionCommand]
  <2> DEFINE Fresh == [op : {"register", "refund", "claim"}, call : {"none"}, place : {"read"},
                       signer : {NoSigner}, asked : {FALSE}, waits : {TRUE}, moved : {FALSE},
                       applied : {FALSE}, told : {"nothing"}]
  <2>1. scmd \in [SessionCmds -> Fresh]
    BY DEF SessionInit
  <2> HIDE DEF Fresh
  <2> QED
    BY <1>2, <2>1
<1>4. SessionTypeOK
  <2>1. now \in 0..MaxNow
    BY SessionConstants DEF SessionConstants, SessionInit
  <2>2. session \in [status : States, registered : BOOLEAN, nonce : 0..1]
    <3>1. session \in [status : {"None", "Funded"}, registered : {FALSE}, nonce : {0}]
      BY Zenon DEF SessionInit
    <3>2. {"None", "Funded"} \subseteq States /\ FALSE \in BOOLEAN /\ 0 \in 0..1
      BY DEF States
    <3>3. \A S, T, N : {"None", "Funded"} \subseteq S /\ FALSE \in T /\ 0 \in N =>
             session \in [status : S, registered : T, nonce : N]
      BY <3>1
    <3> QED
      BY <3>2, <3>3
  <2>3. owed \subseteq Accounts /\ mapped \subseteq Accounts /\ sent \subseteq Transactions
    BY DEF SessionInit
  <2> QED
    BY <1>3, <2>1, <2>2, <2>3, SessionTypes
<1>5. \A c \in SessionCmds : SessionCmdIsSound(c)
  BY <1>2 DEF SessionCmdIsSound, PlanIsOfItsKind, PlanHolds, MappingIsNeeded, PlaceIsTrue
<1> QED
  BY <1>4, <1>5 DEF SessionInv, SessionInit, NonceIsUsedOnce, SentIsAsked, PayerAsks

-------------------------------------------------------------------------------
\* A step of a command changes that command and may send one transaction of
\* its own: what is left to show for it is what is listed here.
LEMMA OwnStep ==
    ASSUME SessionInv, NEW c \in SessionCmds,
           UNCHANGED <<now, session, owed, mapped>>,
           scmd' \in [SessionCmds -> SessionCommand],
           \A d \in SessionCmds : d # c => scmd'[d] = scmd[d],
           sent \subseteq sent', sent' \subseteq Transactions,
           \A tx \in sent' \ sent :
              tx.by = c /\ (tx.call \in Refunds => tx.from.account = Developer),
           \A tx \in sent' : tx.by = c => IsAsked(tx)',
           \A t1, t2 \in sent' : t1.by = c /\ t2.by = c => t1 = t2,
           SessionCmdIsSound(c)'
    PROVE  SessionInv'
<1>1. SessionTypeOK'
  <2>1. SessionTypeOK
    BY DEF SessionInv
  <2> QED
    BY <2>1, SessionTypes DEF SessionTypeOK, Transactions, SessionCommand
<1>2. NonceIsUsedOnce' /\ PayerAsks'
  BY DEF SessionInv, NonceIsUsedOnce, PayerAsks
<1>3. SentIsAsked'
  <2>1. ASSUME NEW tx \in sent', tx.by # c PROVE IsAsked(tx)'
    <3>1. tx \in sent /\ IsAsked(tx) /\ tx.by \in SessionCmds
      BY <2>1, SessionTypes DEF SessionInv, SentIsAsked, Transactions
    <3> QED
      BY <2>1, <3>1 DEF IsAsked
  <2>2. \A t1, t2 \in sent' : t1.by = t2.by => t1 = t2
    BY DEF SessionInv, SentIsAsked
  <2> QED
    BY <2>1, <2>2 DEF SentIsAsked
<1>4. ASSUME NEW d \in SessionCmds, d # c PROVE SessionCmdIsSound(d)'
  BY <1>4 DEF SessionInv, SessionCmdIsSound, PlanIsOfItsKind, PlanHolds, MappingIsNeeded,
              PlaceIsTrue, Eligible, RefundCall
<1> QED
  BY <1>1, <1>2, <1>3, <1>4 DEF SessionInv

\* What a command of a good state is.
LEMMA CommandFacts ==
    ASSUME SessionInv, NEW c \in SessionCmds
    PROVE  /\ scmd \in [SessionCmds -> SessionCommand] /\ scmd[c] \in SessionCommand
           /\ sent \subseteq Transactions
           /\ SessionCmdIsSound(c)
           /\ \A tx \in sent : tx.by = c => IsAsked(tx)
           /\ \A t1, t2 \in sent : t1.by = c /\ t2.by = c => t1 = t2
           /\ scmd[c].place \in {"read", "signer", "send"} \/ scmd[c].applied =>
                 \A tx \in sent : tx.by # c
BY SessionTypes DEF SessionInv, SentIsAsked, IsAsked

\* Every way a command can end.  A plan or a receipt must be true.
LEMMA TellsKeeps ==
    ASSUME SessionInv, NEW c \in SessionCmds,
           NEW told \in {"plan", "receipt", "refused", "error"}, Tells(c, told),
           scmd[c].place # "done",
           told = "plan" => scmd[c].place \in {"read", "signer", "send"},
           told = "receipt" =>
              /\ scmd[c].place = "after"
              /\ scmd[c].op = "register" => session.registered
    PROVE  SessionInv'
<1>0. /\ scmd \in [SessionCmds -> SessionCommand] /\ scmd[c] \in SessionCommand
      /\ sent \subseteq Transactions
      /\ SessionCmdIsSound(c)
      /\ \A tx \in sent : tx.by = c => IsAsked(tx)
      /\ \A t1, t2 \in sent : t1.by = c /\ t2.by = c => t1 = t2
      /\ scmd[c].place \in {"read", "signer", "send"} \/ scmd[c].applied =>
            \A tx \in sent : tx.by # c
  BY CommandFacts
<1> USE <1>0
<1>1. /\ UNCHANGED <<now, session, owed, mapped, sent>>
      /\ scmd'[c] = [scmd[c] EXCEPT !.place = "done", !.told = told]
      /\ \A d \in SessionCmds : d # c => scmd'[d] = scmd[d]
      /\ scmd' \in [SessionCmds -> SessionCommand]
  BY DEF Tells, EndsWith, SessionCommand
<1>2. /\ scmd'[c].place = "done" /\ scmd'[c].told = told
      /\ scmd'[c].op = scmd[c].op /\ scmd'[c].call = scmd[c].call
      /\ scmd'[c].waits = scmd[c].waits /\ scmd'[c].applied = scmd[c].applied
      /\ scmd'[c].signer = scmd[c].signer
  BY <1>1 DEF SessionCommand
<1>3. SessionCmdIsSound(c)'
  BY <1>1, <1>2
  DEF SessionCmdIsSound, PlanIsOfItsKind, PlanHolds, MappingIsNeeded, PlaceIsTrue
<1>4. \A tx \in sent' : tx.by = c => IsAsked(tx)'
  BY ZenonT(40), <1>1, <1>2 DEF IsAsked
<1> QED
  BY <1>1, <1>3, <1>4, OwnStep

LEMMA EndingsAreTrue ==
    ASSUME SessionInv, NEW c \in SessionCmds, Abandons(c) \/ ReadAgain(c)
    PROVE  SessionInv'
BY TellsKeeps DEF Abandons, ReadAgain

-------------------------------------------------------------------------------
\* A signer that is found is one of the signers, and a refund's is the payer's.
LEMMA SignerFacts ==
    ASSUME NEW mode \in Modes, NEW key \in Accounts \cup {Nobody},
           NEW seed \in Accounts \cup {Nobody}
    PROVE  /\ CliHubSigner(mode, key, seed) \in Signers
           /\ RefundSigner(mode, key, seed) \in Signers
BY DEF CliHubSigner, RefundSigner, SignerMatches, NoSigner, Signers, Accounts

LEMMA PlanRefundKeeps ==
    ASSUME SessionInv, NEW c \in SessionCmds, PlanRefund(c)
    PROVE  SessionInv'
<1>0. /\ scmd \in [SessionCmds -> SessionCommand] /\ scmd[c] \in SessionCommand
      /\ sent \subseteq Transactions
      /\ SessionCmdIsSound(c)
      /\ \A tx \in sent : tx.by = c => IsAsked(tx)
      /\ \A t1, t2 \in sent : t1.by = c /\ t2.by = c => t1 = t2
      /\ scmd[c].place \in {"read", "signer", "send"} \/ scmd[c].applied =>
            \A tx \in sent : tx.by # c
  BY CommandFacts
<1> USE <1>0
<1>1. PICK requested \in Refunds \cup {"none"}, yes \in BOOLEAN :
          IF yes /\ Eligible(RefundCall(requested))
          THEN /\ scmd' = [scmd EXCEPT ![c].place = "signer", ![c].call = RefundCall(requested),
                                      ![c].asked = requested # "none", ![c].moved = FALSE]
               /\ UNCHANGED <<now, session, owed, mapped, sent>>
          ELSE Tells(c, "plan")
  BY DEF PlanRefund
<1>2. scmd[c].op = "refund" /\ scmd[c].place = "read"
  BY DEF PlanRefund
<1>3. CASE Tells(c, "plan")
  BY <1>2, <1>3, TellsKeeps
<1>4. CASE ~Tells(c, "plan")
  <2>1. PICK call \in Refunds :
          /\ Eligible(call)
          /\ requested = "none" => call = RefundCall("none")
          /\ scmd' = [scmd EXCEPT ![c].place = "signer", ![c].call = call,
                                 ![c].asked = requested # "none", ![c].moved = FALSE]
    BY <1>1, <1>4 DEF RefundCall, Refunds
  <2>2. UNCHANGED <<now, session, owed, mapped, sent>>
    BY <1>1, <1>4
  <2>3. /\ scmd'[c].place = "signer" /\ scmd'[c].call = call /\ call # "none"
        /\ scmd'[c].asked = (requested # "none")
        /\ scmd'[c].op = scmd[c].op /\ scmd'[c].signer = scmd[c].signer
        /\ scmd'[c].waits = scmd[c].waits /\ scmd'[c].applied = scmd[c].applied
        /\ scmd'[c].told = scmd[c].told
        /\ \A d \in SessionCmds : d # c => scmd'[d] = scmd[d]
        /\ scmd' \in [SessionCmds -> SessionCommand]
    BY <2>1 DEF SessionCommand, SessionCalls, Refunds
  <2>4. PlanHolds(c)'
    <3>1. ((call = RefundCall("none"))' /\ Eligible(call)') \/ requested # "none"
      BY <2>1, <2>2 DEF Eligible, RefundCall
    <3> QED
      BY <2>3, <3>1 DEF PlanHolds
  <2>5. SessionCmdIsSound(c)'
    BY <1>2, <2>1, <2>3, <2>4
    DEF SessionCmdIsSound, PlanIsOfItsKind, MappingIsNeeded, PlaceIsTrue
  <2> QED
    BY <1>2, <2>2, <2>3, <2>5, OwnStep
<1> QED
  BY <1>3, <1>4

LEMMA FindSignerKeeps ==
    ASSUME SessionInv, NEW c \in SessionCmds, FindSigner(c)
    PROVE  SessionInv'
<1>0. /\ scmd \in [SessionCmds -> SessionCommand] /\ scmd[c] \in SessionCommand
      /\ sent \subseteq Transactions
      /\ SessionCmdIsSound(c)
      /\ \A tx \in sent : tx.by = c => IsAsked(tx)
      /\ \A t1, t2 \in sent : t1.by = c /\ t2.by = c => t1 = t2
      /\ scmd[c].place \in {"read", "signer", "send"} \/ scmd[c].applied =>
            \A tx \in sent : tx.by # c
  BY CommandFacts
<1> USE <1>0
<1>1. PICK signer \in Signers :
          IF ~SignerMatches(signer, Developer)
          THEN Tells(c, "error")
          ELSE /\ scmd' = [scmd EXCEPT ![c].place = "send", ![c].signer = signer]
               /\ UNCHANGED <<now, session, owed, mapped, sent>>
  BY SignerFacts DEF FindSigner
<1>2. scmd[c].place = "signer"
  BY DEF FindSigner
<1>3. CASE Tells(c, "error")
  BY <1>2, <1>3, TellsKeeps
<1>4. CASE ~Tells(c, "error")
  <2>1. /\ scmd' = [scmd EXCEPT ![c].place = "send", ![c].signer = signer]
        /\ UNCHANGED <<now, session, owed, mapped, sent>>
        /\ signer.account = Developer /\ signer.account \in Accounts
    BY <1>1, <1>4 DEF SignerMatches, Accounts
  <2>2. /\ scmd'[c].place = "send" /\ scmd'[c].signer = signer
        /\ scmd'[c].call = scmd[c].call /\ scmd'[c].asked = scmd[c].asked
        /\ scmd'[c].moved = scmd[c].moved /\ scmd'[c].op = scmd[c].op
        /\ scmd'[c].waits = scmd[c].waits /\ scmd'[c].applied = scmd[c].applied
        /\ scmd'[c].told = scmd[c].told
        /\ \A d \in SessionCmds : d # c => scmd'[d] = scmd[d]
        /\ scmd' \in [SessionCmds -> SessionCommand]
    BY <2>1 DEF SessionCommand
  <2>3. SessionCmdIsSound(c)'
    BY <1>2, <2>1, <2>2
    DEF SessionCmdIsSound, PlanIsOfItsKind, PlanHolds, MappingIsNeeded, PlaceIsTrue,
        Eligible, RefundCall
  <2> QED
    BY <1>2, <2>1, <2>2, <2>3, OwnStep
<1> QED
  BY <1>3, <1>4

LEMMA PlanClaimKeeps ==
    ASSUME SessionInv, NEW c \in SessionCmds, PlanClaim(c)
    PROVE  SessionInv'
<1>0. /\ scmd \in [SessionCmds -> SessionCommand] /\ scmd[c] \in SessionCommand
      /\ sent \subseteq Transactions
      /\ SessionCmdIsSound(c)
      /\ \A tx \in sent : tx.by = c => IsAsked(tx)
      /\ \A t1, t2 \in sent : t1.by = c /\ t2.by = c => t1 = t2
      /\ scmd[c].place \in {"read", "signer", "send"} \/ scmd[c].applied =>
            \A tx \in sent : tx.by # c
  BY CommandFacts
<1> USE <1>0
<1>1. PICK signer \in Signers :
          \/ Tells(c, "plan") \/ Tells(c, "error")
          \/ /\ scmd' = [scmd EXCEPT ![c].place = "send", ![c].call = "claim",
                                     ![c].signer = signer]
             /\ signer.account \in Accounts
             /\ UNCHANGED <<now, session, owed, mapped, sent>>
  BY SignerFacts DEF PlanClaim, SignerMatches
<1>2. scmd[c].op = "claim" /\ scmd[c].place = "read"
  BY DEF PlanClaim
<1>3. CASE Tells(c, "plan") \/ Tells(c, "error")
  BY <1>2, <1>3, TellsKeeps
<1>4. CASE ~(Tells(c, "plan") \/ Tells(c, "error"))
  <2>1. /\ scmd' = [scmd EXCEPT ![c].place = "send", ![c].call = "claim",
                               ![c].signer = signer]
        /\ signer.account \in Accounts
        /\ UNCHANGED <<now, session, owed, mapped, sent>>
    BY <1>1, <1>4
  <2>2. /\ scmd'[c].place = "send" /\ scmd'[c].call = "claim"
        /\ scmd'[c].signer = signer
        /\ scmd'[c].op = scmd[c].op
        /\ scmd'[c].waits = scmd[c].waits /\ scmd'[c].applied = scmd[c].applied
        /\ scmd'[c].told = scmd[c].told
        /\ \A d \in SessionCmds : d # c => scmd'[d] = scmd[d]
        /\ scmd' \in [SessionCmds -> SessionCommand]
    BY <2>1 DEF SessionCommand, SessionCalls
  <2>3. SessionCmdIsSound(c)'
    BY <1>2, <2>1, <2>2
    DEF SessionCmdIsSound, PlanIsOfItsKind, PlanHolds, MappingIsNeeded, PlaceIsTrue
  <2> QED
    BY <1>2, <2>1, <2>2, <2>3, OwnStep
<1> QED
  BY <1>3, <1>4

LEMMA PostRegistrationKeeps ==
    ASSUME SessionInv, NEW c \in SessionCmds, PostRegistration(c)
    PROVE  SessionInv'
<1>0. /\ scmd \in [SessionCmds -> SessionCommand] /\ scmd[c] \in SessionCommand
      /\ sent \subseteq Transactions
      /\ SessionCmdIsSound(c)
      /\ \A tx \in sent : tx.by = c => IsAsked(tx)
      /\ \A t1, t2 \in sent : t1.by = c /\ t2.by = c => t1 = t2
      /\ scmd[c].place \in {"read", "signer", "send"} \/ scmd[c].applied =>
            \A tx \in sent : tx.by # c
  BY CommandFacts
<1> USE <1>0
<1>1. scmd[c].op = "register" /\ scmd[c].place = "read"
  BY DEF PostRegistration
<1>2. CASE session.status = "None" \/ session.registered
  BY <1>1, <1>2, TellsKeeps DEF PostRegistration
<1>3. CASE ~(session.status = "None" \/ session.registered)
  <2> DEFINE tx == [by |-> c, from |-> NoSigner, call |-> "register", nonce |-> 0]
  <2>1. session.nonce = 0
    BY <1>3, SessionTypes DEF SessionInv, NonceIsUsedOnce
  <2>2. tx \in Transactions
    BY DEF Transactions, Signers, NoSigner, SessionCalls
  <2>3. /\ sent' = sent \cup {tx}
        /\ scmd' = [scmd EXCEPT ![c].place = "waiting", ![c].call = "register",
                               ![c].moved = FALSE]
        /\ UNCHANGED <<now, session, owed, mapped>>
    BY <1>3, <2>1 DEF PostRegistration, RegistrationNonce
  <2>4. tx.by = c /\ tx.call = "register" /\ tx.call \notin Refunds
    BY DEF Refunds
  <2> HIDE DEF tx
  <2>5. /\ scmd'[c].place = "waiting" /\ scmd'[c].call = "register"
        /\ scmd'[c].op = scmd[c].op
        /\ scmd'[c].waits = scmd[c].waits /\ scmd'[c].applied = scmd[c].applied
        /\ scmd'[c].told = scmd[c].told
        /\ \A d \in SessionCmds : d # c => scmd'[d] = scmd[d]
        /\ scmd' \in [SessionCmds -> SessionCommand]
    BY <2>3 DEF SessionCommand, SessionCalls
  <2>6. SessionCmdIsSound(c)'
    BY <1>1, <2>5
    DEF SessionCmdIsSound, PlanIsOfItsKind, PlanHolds, MappingIsNeeded, PlaceIsTrue
  <2>7. IsAsked(tx)'
    BY <1>1, <2>4, <2>5 DEF IsAsked, SessionCmdIsSound, PlaceIsTrue
  <2> QED
    BY <1>1, <2>2, <2>3, <2>4, <2>5, <2>6, <2>7, OwnStep
<1> QED
  BY <1>2, <1>3

\* The end of the wait for a registration or for a block.
LEMMA AnswersKeep ==
    ASSUME SessionInv, NEW c \in SessionCmds, RelayAnswersOk(c) \/ TxResolves(c)
    PROVE  SessionInv'
<1>0. /\ scmd \in [SessionCmds -> SessionCommand] /\ scmd[c] \in SessionCommand
      /\ sent \subseteq Transactions
      /\ SessionCmdIsSound(c)
      /\ \A tx \in sent : tx.by = c => IsAsked(tx)
      /\ \A t1, t2 \in sent : t1.by = c /\ t2.by = c => t1 = t2
      /\ scmd[c].place \in {"read", "signer", "send"} \/ scmd[c].applied =>
            \A tx \in sent : tx.by # c
  BY CommandFacts
<1> USE <1>0
<1>1. /\ scmd[c].place = "waiting" /\ (scmd[c].call = "register" \/ scmd[c].applied)
      /\ scmd' = [scmd EXCEPT ![c].place = "after"]
      /\ UNCHANGED <<now, session, owed, mapped, sent>>
  BY DEF RelayAnswersOk, TxResolves
<1>2. /\ scmd'[c].place = "after" /\ scmd'[c].call = scmd[c].call
      /\ scmd'[c].op = scmd[c].op /\ scmd'[c].signer = scmd[c].signer
      /\ scmd'[c].waits = scmd[c].waits /\ scmd'[c].applied = scmd[c].applied
      /\ scmd'[c].told = scmd[c].told
      /\ \A d \in SessionCmds : d # c => scmd'[d] = scmd[d]
      /\ scmd' \in [SessionCmds -> SessionCommand]
  BY <1>1 DEF SessionCommand
<1>3. scmd[c].op = "register" \/ scmd[c].applied
  BY <1>1 DEF SessionCmdIsSound, PlanIsOfItsKind, SessionCommand, Refunds
<1>4. SessionCmdIsSound(c)'
  BY <1>1, <1>2, <1>3
  DEF SessionCmdIsSound, PlanIsOfItsKind, PlanHolds, MappingIsNeeded, PlaceIsTrue
<1>5. \A tx \in sent' : tx.by = c => IsAsked(tx)'
  BY <1>1, <1>2 DEF IsAsked
<1> QED
  BY <1>1, <1>2, <1>4, <1>5, OwnStep

\* A command sends one transaction, of the account that it found.
LEMMA SendsKeeps ==
    ASSUME SessionInv, NEW c \in SessionCmds, NEW call, NEW place, NEW waits \in BOOLEAN,
           SendsTx(c, call, place, waits),
           scmd[c].place = "send" \/ (scmd[c].place = "mapping" /\ scmd[c].applied),
           place \in {"mapping", "waiting", "after"},
           \/ place = "mapping" /\ call = "mapAccount" /\ scmd[c].signer.account \notin mapped
           \/ place = "waiting" /\ call = scmd[c].call
           \/ place = "after" /\ call = scmd[c].call /\ ~waits
    PROVE  SessionInv'
<1>0. /\ scmd \in [SessionCmds -> SessionCommand] /\ scmd[c] \in SessionCommand
      /\ sent \subseteq Transactions
      /\ SessionCmdIsSound(c)
      /\ \A tx \in sent : tx.by = c => IsAsked(tx)
      /\ \A t1, t2 \in sent : t1.by = c /\ t2.by = c => t1 = t2
      /\ scmd[c].place \in {"read", "signer", "send"} \/ scmd[c].applied =>
            \A tx \in sent : tx.by # c
  BY CommandFacts
<1> USE <1>0
<1>1. /\ sent' = sent \cup {[by |-> c, from |-> scmd[c].signer, call |-> call, nonce |-> 0]}
      /\ scmd' = [scmd EXCEPT ![c].place = place, ![c].waits = waits, ![c].applied = FALSE]
      /\ UNCHANGED <<now, session, owed, mapped>>
  BY DEF SendsTx
<1>2. scmd[c].call # "none" /\ scmd[c].op # "register" /\ scmd[c].told = "nothing"
  BY DEF SessionCmdIsSound, PlanIsOfItsKind, PlaceIsTrue
<1>3. scmd[c].call \in SessionCalls /\ call \in SessionCalls
  BY <1>2 DEF SessionCommand, SessionCalls
<1>4. PICK tx \in Transactions :
         /\ tx.by = c /\ tx.call = call /\ tx.from = scmd[c].signer
         /\ sent' = sent \cup {tx}
  BY <1>1, <1>3 DEF SessionCommand, Transactions
<1>5. /\ scmd'[c].place = place /\ scmd'[c].waits = waits /\ ~scmd'[c].applied
      /\ scmd'[c].call = scmd[c].call /\ scmd'[c].op = scmd[c].op
      /\ scmd'[c].signer = scmd[c].signer /\ scmd'[c].told = scmd[c].told
      /\ scmd'[c].moved = scmd[c].moved /\ scmd'[c].asked = scmd[c].asked
      /\ \A d \in SessionCmds : d # c => scmd'[d] = scmd[d]
      /\ scmd' \in [SessionCmds -> SessionCommand]
  BY <1>1 DEF SessionCommand
<1>6. SessionCmdIsSound(c)'
  BY <1>1, <1>2, <1>5
  DEF SessionCmdIsSound, PlanIsOfItsKind, PlanHolds, MappingIsNeeded, PlaceIsTrue,
      Eligible, RefundCall
<1>7. IsAsked(tx)'
  <2>1. scmd[c].signer.account \in Accounts
    BY <1>2 DEF SessionCmdIsSound, PlanIsOfItsKind, SessionCommand, Accounts
  <2> QED
    BY <1>2, <1>4, <1>5, <2>1 DEF IsAsked, Accounts
<1>8. tx.call \in Refunds => tx.from.account = Developer
  <2>1. ASSUME scmd[c].call \in Refunds PROVE scmd[c].op = "refund"
    BY <2>1, <1>2 DEF SessionCmdIsSound, PlanIsOfItsKind, SessionCommand, Refunds
  <2> QED
    BY <1>4, <2>1 DEF SessionCmdIsSound, PlanIsOfItsKind, Refunds
<1>9. \A t \in sent : t.by # c
  OBVIOUS
<1> QED
  BY <1>1, <1>2, <1>4, <1>5, <1>6, <1>7, <1>8, <1>9, OwnStep

LEMMA SendingKeeps ==
    ASSUME SessionInv, NEW c \in SessionCmds, SendEvm(c) \/ SendNative(c) \/ AccountMapped(c)
    PROVE  SessionInv'
<1>1. CASE SendEvm(c)
  BY <1>1, SendsKeeps, TellsKeeps DEF SendEvm
<1>2. CASE SendNative(c)
  BY <1>2, SendsKeeps DEF SendNative
<1>3. CASE AccountMapped(c)
  BY <1>3, SendsKeeps DEF AccountMapped
<1> QED
  BY <1>1, <1>2, <1>3

-------------------------------------------------------------------------------
\* The contract and the clock on their own.
LEMMA ContractKeeps ==
    ASSUME SessionInv, Tick \/ Activate \/ Fulfil
    PROVE  SessionInv'
<1>0. /\ SessionTypeOK
      /\ now \in 0..MaxNow
      /\ session \in [status : States, registered : BOOLEAN, nonce : 0..1]
      /\ owed \subseteq Accounts /\ mapped \subseteq Accounts
      /\ sent \subseteq Transactions
      /\ scmd \in [SessionCmds -> SessionCommand]
  BY SessionTypes DEF SessionInv
<1>1. CASE Tick
  <2>1. now' = now + 1 /\ now' \in 0..MaxNow /\ UNCHANGED <<session, owed, mapped, sent, scmd>>
    BY <1>0, <1>1, SessionConstants DEF Tick, SessionConstants
  <2>2. SessionTypeOK'
    BY <1>0, <2>1 DEF SessionTypeOK
  <2>3. NonceIsUsedOnce' /\ SentIsAsked' /\ PayerAsks'
    BY <2>1 DEF SessionInv, NonceIsUsedOnce, SentIsAsked, IsAsked, PayerAsks
  <2>4. ASSUME NEW call, Eligible(call) PROVE Eligible(call)'
    <3>1. DueAt(call) \in {0, 1} /\ now > DueAt(call)
      BY <2>4 DEF Eligible, DueAt, RefundAvailableAt, ActivationDeadline
    <3> QED
      BY <1>0, <2>1, <2>4, <3>1 DEF Eligible
  <2>5. ASSUME NEW c \in SessionCmds PROVE SessionCmdIsSound(c)'
    <3>1. SessionCmdIsSound(c)
      BY DEF SessionInv
    <3>2. PlanHolds(c)'
      BY <2>1, <2>4, <3>1 DEF SessionCmdIsSound, PlanHolds, RefundCall
    <3> QED
      BY <2>1, <3>1, <3>2
      DEF SessionCmdIsSound, PlanIsOfItsKind, MappingIsNeeded, PlaceIsTrue
  <2> QED
    BY <2>2, <2>3, <2>5 DEF SessionInv
<1>2. CASE Activate
  <2>1. /\ session' \in [status : States, registered : BOOLEAN, nonce : 0..1]
        /\ session'.registered = session.registered /\ session'.nonce = session.nonce
        /\ UNCHANGED <<now, owed, mapped, sent>> /\ scmd' = Moved
    BY <1>0, <1>2 DEF Activate, States
  <2>2. ASSUME NEW c \in SessionCmds
        PROVE  /\ scmd'[c] \in SessionCommand /\ scmd'[c].moved
               /\ scmd'[c].op = scmd[c].op /\ scmd'[c].call = scmd[c].call
               /\ scmd'[c].place = scmd[c].place /\ scmd'[c].signer = scmd[c].signer
               /\ scmd'[c].waits = scmd[c].waits /\ scmd'[c].applied = scmd[c].applied
               /\ scmd'[c].told = scmd[c].told
    BY <1>0, <2>1 DEF Moved, SessionCommand
  <2>3. scmd' \in [SessionCmds -> SessionCommand]
    BY <2>1, <2>2 DEF Moved
  <2>4. SessionTypeOK'
    BY <1>0, <2>1, <2>3 DEF SessionTypeOK, Transactions, SessionCommand
  <2>5. NonceIsUsedOnce' /\ PayerAsks'
    BY <2>1 DEF SessionInv, NonceIsUsedOnce, PayerAsks
  <2>6. SentIsAsked'
    <3>1. \A tx \in sent : IsAsked(tx) /\ tx.by \in SessionCmds
      BY <1>0 DEF SessionInv, SentIsAsked, Transactions
    <3> QED
      BY <2>1, <2>2, <3>1 DEF SessionInv, SentIsAsked, IsAsked
  <2>7. ASSUME NEW c \in SessionCmds PROVE SessionCmdIsSound(c)'
    BY <2>1, <2>2
    DEF SessionInv, SessionCmdIsSound, PlanIsOfItsKind, PlanHolds, MappingIsNeeded, PlaceIsTrue
  <2> QED
    BY <2>4, <2>5, <2>6, <2>7 DEF SessionInv
<1>3. CASE Fulfil
  <2>1. owed' \subseteq Accounts /\ UNCHANGED <<now, session, mapped, sent, scmd>>
    BY <1>0, <1>3 DEF Fulfil
  <2> QED
    BY <1>0, <2>1
    DEF SessionInv, SessionTypeOK, NonceIsUsedOnce, SentIsAsked, IsAsked, PayerAsks,
        SessionCmdIsSound, PlanIsOfItsKind, PlanHolds, MappingIsNeeded, PlaceIsTrue,
        Eligible, RefundCall
<1> QED
  BY <1>1, <1>2, <1>3

-------------------------------------------------------------------------------
\* A block applies a transaction: whoever else has read the contract, or sent a
\* transaction of its own, is marked.
LEMMA AppliedKeeps ==
    ASSUME SessionInv, NEW tx \in sent, IncludeTx(tx), Allows(tx)
    PROVE  SessionInv'
<1>0. /\ SessionTypeOK
      /\ session \in [status : States, registered : BOOLEAN, nonce : 0..1]
      /\ owed \subseteq Accounts /\ mapped \subseteq Accounts
      /\ sent \subseteq Transactions
      /\ scmd \in [SessionCmds -> SessionCommand]
      /\ tx.by \in SessionCmds /\ tx.call \in SessionCalls /\ tx.from.account \in Accounts \cup {Nobody}
  BY SessionTypes DEF SessionInv, Transactions, Signers
<1>1. IsAsked(tx) /\ \A other \in sent' : other \in sent /\ other.by # tx.by /\ IsAsked(other)
  BY DEF SessionInv, SentIsAsked, IncludeTx
<1>2. /\ UNCHANGED now /\ session' = SessionAfter(tx.call)
      /\ owed' \subseteq owed
      /\ mapped' = IF tx.call = "mapAccount" THEN mapped \cup {tx.from.account} ELSE mapped
      /\ scmd' = [Moved EXCEPT ![tx.by].applied = TRUE, ![tx.by].moved = scmd[tx.by].moved]
  BY DEF IncludeTx
<1>3. /\ session' \in [status : States, registered : BOOLEAN, nonce : 0..1]
      /\ session.registered => session'.registered
      /\ NonceIsUsedOnce'
      /\ tx.call = "mapAccount" => session' = session
  BY <1>0, <1>2 DEF SessionAfter, SessionInv, NonceIsUsedOnce, States, Refunds
<1>4. ASSUME NEW c \in SessionCmds
      PROVE  /\ scmd'[c] \in SessionCommand
             /\ scmd'[c].moved <=> scmd[c].moved \/ c # tx.by
             /\ scmd'[c].applied <=> scmd[c].applied \/ c = tx.by
             /\ scmd'[c].op = scmd[c].op /\ scmd'[c].call = scmd[c].call
             /\ scmd'[c].place = scmd[c].place /\ scmd'[c].signer = scmd[c].signer
             /\ scmd'[c].waits = scmd[c].waits /\ scmd'[c].asked = scmd[c].asked
             /\ scmd'[c].told = scmd[c].told
  <2>1. CASE c = tx.by
    <3>1. scmd'[c] = [[scmd[c] EXCEPT !.moved = TRUE] EXCEPT !.applied = TRUE,
                                                            !.moved = scmd[c].moved]
      BY <1>0, <1>2, <2>1 DEF Moved
    <3>2. scmd'[c].applied = TRUE /\ scmd'[c].moved = scmd[c].moved
      BY <1>0, <2>1, <3>1 DEF SessionCommand
    <3>3. /\ scmd'[c].op = scmd[c].op /\ scmd'[c].call = scmd[c].call
          /\ scmd'[c].place = scmd[c].place /\ scmd'[c].signer = scmd[c].signer
          /\ scmd'[c].waits = scmd[c].waits /\ scmd'[c].asked = scmd[c].asked
          /\ scmd'[c].told = scmd[c].told
      BY <1>0, <2>1, <3>1 DEF SessionCommand
    <3>4. scmd'[c] \in SessionCommand
      BY <1>0, <2>1, <3>1 DEF SessionCommand
    <3> QED
      BY <2>1, <3>2, <3>3, <3>4
  <2>2. CASE c # tx.by
    <3>1. scmd'[c] = [scmd[c] EXCEPT !.moved = TRUE]
      BY <1>0, <1>2, <2>2 DEF Moved
    <3>2. scmd'[c].moved = TRUE /\ scmd'[c].applied = scmd[c].applied
      BY <1>0, <3>1 DEF SessionCommand
    <3>3. /\ scmd'[c].op = scmd[c].op /\ scmd'[c].call = scmd[c].call
          /\ scmd'[c].place = scmd[c].place /\ scmd'[c].signer = scmd[c].signer
          /\ scmd'[c].waits = scmd[c].waits /\ scmd'[c].asked = scmd[c].asked
          /\ scmd'[c].told = scmd[c].told
      BY <1>0, <3>1 DEF SessionCommand
    <3>4. scmd'[c] \in SessionCommand
      BY <1>0, <3>1 DEF SessionCommand
    <3> QED
      BY <2>2, <3>2, <3>3, <3>4
  <2> QED
    BY <2>1, <2>2
<1>5. scmd' \in [SessionCmds -> SessionCommand]
  <2>1. scmd' = [c \in SessionCmds |-> scmd'[c]]
    BY <1>2 DEF Moved
  <2> QED
    BY <1>4, <2>1
<1>6. SessionTypeOK'
  <2>1. owed' \subseteq Accounts /\ sent' \subseteq Transactions /\ now' \in 0..MaxNow
    BY <1>0, <1>1, <1>2 DEF SessionTypeOK
  <2>2. mapped' \subseteq Accounts
    BY <1>0, <1>1, <1>2 DEF IsAsked
  <2> QED
    BY <1>3, <1>5, <2>1, <2>2 DEF SessionTypeOK, Transactions, SessionCommand
<1>7. PayerAsks'
  BY <1>1 DEF SessionInv, PayerAsks
<1>8. SentIsAsked'
  BY <1>0, <1>1, <1>4 DEF SessionInv, SentIsAsked, IsAsked, Transactions
<1>9. ASSUME NEW c \in SessionCmds, c # tx.by PROVE SessionCmdIsSound(c)'
  BY <1>3, <1>4, <1>9
  DEF SessionInv, SessionCmdIsSound, PlanIsOfItsKind, PlanHolds, MappingIsNeeded, PlaceIsTrue
<1>10. SessionCmdIsSound(tx.by)'
  <2>1. SessionCmdIsSound(tx.by)
    BY <1>0 DEF SessionInv
  <2>2. PlanHolds(tx.by)'
    <3>1. ASSUME scmd[tx.by].place = "mapping" PROVE PlanHolds(tx.by)'
      <4>1. session' = session /\ now' = now
        BY <1>1, <1>2, <1>3, <3>1 DEF IsAsked
      <4> QED
        BY <1>0, <1>4, <2>1, <3>1, <4>1
        DEF SessionCmdIsSound, PlanHolds, Eligible, RefundCall
    <3>2. ASSUME scmd[tx.by].place \in {"waiting", "after", "done"} PROVE PlanHolds(tx.by)'
      BY <1>0, <1>4, <3>2 DEF PlanHolds
    <3> QED
      BY <1>1, <3>1, <3>2 DEF IsAsked
  <2> QED
    BY <1>0, <1>1, <1>3, <1>4, <2>1, <2>2
    DEF IsAsked, SessionCmdIsSound, PlanIsOfItsKind, MappingIsNeeded, PlaceIsTrue
<1> QED
  BY <1>3, <1>6, <1>7, <1>8, <1>9, <1>10 DEF SessionInv

\* A block refuses a transaction.
LEMMA RefusedKeeps ==
    ASSUME SessionInv, NEW tx \in sent, IncludeTx(tx), ~Allows(tx)
    PROVE  SessionInv'
<1>0. /\ scmd \in [SessionCmds -> SessionCommand] /\ sent \subseteq Transactions
      /\ tx.by \in SessionCmds
  BY SessionTypes DEF SessionInv, Transactions
<1>1. \A other \in sent' : other \in sent /\ other.by # tx.by /\ IsAsked(other)
  BY DEF SessionInv, SentIsAsked, IncludeTx
<1>2. /\ UNCHANGED <<now, session, owed, mapped>>
      /\ scmd' = scmd \/ scmd' = [scmd EXCEPT ![tx.by].place = "done", ![tx.by].told = "refused"]
      /\ scmd' = scmd \/ scmd[tx.by].place \in {"waiting", "mapping"}
  BY DEF IncludeTx, EndsWith
<1>3. /\ scmd' \in [SessionCmds -> SessionCommand]
      /\ \A d \in SessionCmds : d # tx.by => scmd'[d] = scmd[d]
  BY <1>0, <1>2 DEF SessionCommand
<1>4. SessionTypeOK'
  BY <1>1, <1>2, <1>3 DEF SessionInv, SessionTypeOK, SessionCommand
<1>5. NonceIsUsedOnce' /\ PayerAsks'
  BY <1>1, <1>2 DEF SessionInv, NonceIsUsedOnce, PayerAsks
<1>6. SentIsAsked'
  BY <1>0, <1>1, <1>3 DEF SessionInv, SentIsAsked, IsAsked, Transactions
<1>7. ASSUME NEW c \in SessionCmds, scmd'[c] = scmd[c] PROVE SessionCmdIsSound(c)'
  BY <1>2, <1>7
  DEF SessionInv, SessionCmdIsSound, PlanIsOfItsKind, PlanHolds, MappingIsNeeded, PlaceIsTrue,
      Eligible, RefundCall
<1>8. ASSUME scmd' # scmd PROVE SessionCmdIsSound(tx.by)'
  <2>1. /\ scmd'[tx.by].place = "done" /\ scmd'[tx.by].told = "refused"
        /\ scmd'[tx.by].op = scmd[tx.by].op /\ scmd'[tx.by].call = scmd[tx.by].call
    BY <1>0, <1>2, <1>8 DEF SessionCommand
  <2> QED
    BY <1>0, <2>1
    DEF SessionInv, SessionCmdIsSound, PlanIsOfItsKind, PlanHolds, MappingIsNeeded, PlaceIsTrue
<1> QED
  BY <1>3, <1>4, <1>5, <1>6, <1>7, <1>8 DEF SessionInv

LEMMA SessionInvNext == SessionInv /\ [SessionNext]_sessionVars => SessionInv'
<1> SUFFICES ASSUME SessionInv, [SessionNext]_sessionVars PROVE SessionInv'
  OBVIOUS
<1>1. CASE Tick \/ Activate \/ Fulfil
  BY <1>1, ContractKeeps
<1>2. ASSUME NEW tx \in sent, IncludeTx(tx) PROVE SessionInv'
  BY <1>2, AppliedKeeps, RefusedKeeps
<1>3. ASSUME NEW c \in SessionCmds,
             PlanRefund(c) \/ FindSigner(c) \/ PlanClaim(c) \/ PostRegistration(c)
      PROVE  SessionInv'
  BY <1>3, PlanRefundKeeps, FindSignerKeeps, PlanClaimKeeps, PostRegistrationKeeps
<1>4. ASSUME NEW c \in SessionCmds,
             RelayAnswersOk(c) \/ TxResolves(c) \/ SendEvm(c) \/ SendNative(c) \/ AccountMapped(c)
      PROVE  SessionInv'
  BY <1>4, AnswersKeep, SendingKeeps
<1>5. ASSUME NEW c \in SessionCmds, ReadAgain(c) \/ Abandons(c) PROVE SessionInv'
  BY <1>5, EndingsAreTrue
<1>6. CASE UNCHANGED sessionVars
  BY <1>6
  DEF sessionVars, SessionInv, SessionTypeOK, NonceIsUsedOnce, SentIsAsked, IsAsked, PayerAsks,
      SessionCmdIsSound, PlanIsOfItsKind, PlanHolds, MappingIsNeeded, PlaceIsTrue,
      Eligible, RefundCall
<1> QED
  BY <1>1, <1>2, <1>3, <1>4, <1>5, <1>6 DEF SessionNext

LEMMA SessionInvariance == SessionSpec => []SessionInv
BY SessionInvInit, SessionInvNext, PTL DEF SessionSpec

-------------------------------------------------------------------------------
\* Whatever commands run at the same time, a receipt is for a transaction in a
\* block, a preview has sent nothing, and only the payer asks for a refund.
THEOREM ReceiptsAndPayers == SessionSpec => [](SessionTypeOK /\ ReceiptIsTrue /\ PayerAsks)
<1>1. SessionInv => SessionTypeOK /\ ReceiptIsTrue /\ PayerAsks
  BY DEF SessionInv, ReceiptIsTrue, SessionCmdIsSound, PlaceIsTrue, SentIsAsked, IsAsked
<1> QED
  BY <1>1, SessionInvariance, PTL

\* A plan that still fits is allowed by the contract, for an EVM account or a
\* mapped one.
LEMMA PlanIsAllowed ==
    ASSUME SessionInv, NEW c \in SessionCmds, NEW tx,
           scmd[c].op = "refund", ~scmd[c].moved, ~scmd[c].asked,
           scmd[c].place = "send" \/ (scmd[c].place = "waiting" /\ ~scmd[c].applied),
           tx.from = scmd[c].signer, tx.call = scmd[c].call,
           tx.from.kind = "polkadot" => tx.from.account \in mapped
    PROVE  Allows(tx)
<1>1. /\ scmd[c].call = RefundCall("none") /\ Eligible(scmd[c].call)
      /\ scmd[c].call \in Refunds /\ scmd[c].signer.account = Developer
  BY DEF SessionInv, SessionCmdIsSound, PlanHolds, PlanIsOfItsKind
<1>2. session.status \in States
  BY SessionTypes DEF SessionInv
<1> QED
  BY <1>1, <1>2 DEF Allows, Eligible, RefundCall, DueAt, Refunds, States

\* The contract refuses a refund only for the reasons that are listed.
THEOREM RefusalsHaveReason == SessionSpec => RefusedOnlyIfMoved
<1>1. ASSUME SessionInv, SessionNext, NEW c \in SessionCmds,
             scmd[c].op = "refund", scmd[c].told # "refused", scmd'[c].told = "refused",
             ~scmd[c].moved, ~scmd[c].asked
      PROVE  scmd[c].signer.kind = "polkadot" /\ scmd[c].signer.account \notin mapped
  <2>0. /\ scmd \in [SessionCmds -> SessionCommand] /\ sent \subseteq Transactions
        /\ SessionCmdIsSound(c) /\ scmd[c].signer.kind \in {"evm", "polkadot"}
    BY <1>1, SessionTypes DEF SessionInv, SessionCommand, Signers
  <2>1. CASE SendEvm(c)
    <3>1. ~Allows([from |-> scmd[c].signer, call |-> scmd[c].call])
      BY <1>1, <2>0, <2>1 DEF SendEvm, SendsTx, SessionCommand
    <3> QED
      BY <1>1, <2>1, <3>1, PlanIsAllowed DEF SendEvm
  <2>2. ASSUME NEW tx \in sent, IncludeTx(tx)
        PROVE  scmd[c].signer.kind = "polkadot" /\ scmd[c].signer.account \notin mapped
    <3>1. tx.by = c /\ ~Allows(tx) /\ scmd[c].place \in {"waiting", "mapping"}
      <4>1. tx.by \in SessionCmds
        BY <2>0, <2>2 DEF Transactions
      <4>2. scmd' # [Moved EXCEPT ![tx.by].applied = TRUE, ![tx.by].moved = scmd[tx.by].moved]
        BY SMTT(20), <1>1, <2>0, <4>1 DEF Moved, SessionCommand
      <4>3. scmd' # scmd
        BY <1>1
      <4>4. /\ ~Allows(tx) /\ scmd' = EndsWith(tx.by, "refused")
            /\ scmd[tx.by].place \in {"waiting", "mapping"}
        BY <2>2, <4>2, <4>3 DEF IncludeTx
      <4> QED
        BY <1>1, <2>0, <4>1, <4>4 DEF EndsWith, SessionCommand
    <3>2. IsAsked(tx)
      BY <1>1 DEF SessionInv, SentIsAsked
    <3>3. CASE scmd[c].place = "mapping"
      <4>1. /\ tx.call = "mapAccount" /\ tx.from = scmd[c].signer
            /\ scmd[c].signer.account \notin mapped
        BY <1>1, <2>0, <3>1, <3>2, <3>3 DEF IsAsked, SessionCmdIsSound, MappingIsNeeded
      <4> QED
        BY <3>1, <4>1 DEF Allows, Refunds
    <3>4. CASE scmd[c].place = "waiting"
      <4>1. tx.call = scmd[c].call /\ scmd[c].call \in Refunds /\ ~scmd[c].applied
            /\ tx.from = scmd[c].signer
        BY <1>1, <2>0, <3>1, <3>2, <3>4
        DEF IsAsked, SessionCmdIsSound, PlanIsOfItsKind, Refunds
      <4> QED
        BY <1>1, <2>0, <3>1, <3>4, <4>1, PlanIsAllowed
    <3> QED
      BY <3>1, <3>3, <3>4
  <2>3. CASE ~SendEvm(c) /\ ~\E tx \in sent : IncludeTx(tx)
    <3>1. PICK d \in SessionCmds :
              \/ PlanRefund(d) \/ FindSigner(d) \/ PlanClaim(d) \/ PostRegistration(d)
              \/ RelayAnswersOk(d) \/ SendEvm(d) \/ SendNative(d) \/ AccountMapped(d)
              \/ TxResolves(d) \/ ReadAgain(d) \/ Abandons(d)
      BY <1>1, <2>0, <2>3 DEF SessionNext, Tick, Activate, Fulfil, Moved, SessionCommand
    <3>2. ASSUME NEW told \in {"plan", "receipt", "error"}, Tells(d, told) PROVE FALSE
      BY <1>1, <2>0, <3>2 DEF Tells, EndsWith, SessionCommand
    <3>3. ASSUME NEW call, NEW place, NEW waits, SendsTx(d, call, place, waits) PROVE FALSE
      BY <1>1, <2>0, <3>3 DEF SendsTx, SessionCommand
    <3>4. ~PlanRefund(d)
      <4>1. ASSUME NEW call, NEW asked,
                   scmd' = [scmd EXCEPT ![d].place = "signer", ![d].call = call,
                                        ![d].asked = asked, ![d].moved = FALSE]
            PROVE  FALSE
        BY <1>1, <2>0, <4>1 DEF SessionCommand
      <4> QED
        BY <3>2, <4>1 DEF PlanRefund
    <3>5. ~FindSigner(d)
      BY <1>1, <2>0, <3>2 DEF FindSigner, SessionCommand
    <3>6. ~PlanClaim(d)
      BY <1>1, <2>0, <3>2 DEF PlanClaim, SessionCommand
    <3>7. ~PostRegistration(d) /\ ~RelayAnswersOk(d) /\ ~TxResolves(d)
      BY <1>1, <2>0, <3>2 DEF PostRegistration, RelayAnswersOk, TxResolves, SessionCommand
    <3>8. ~SendNative(d) /\ ~AccountMapped(d)
      BY <3>3 DEF SendNative, AccountMapped
    <3>9. ~ReadAgain(d) /\ ~Abandons(d)
      BY <3>2 DEF ReadAgain, Abandons
    <3>10. CASE SendEvm(d)
      <4>1. d # c
        BY <2>3, <3>10
      <4>2. ~Tells(d, "refused")
        BY <1>1, <2>0, <4>1 DEF Tells, EndsWith
      <4> QED
        BY <3>3, <3>10, <4>2 DEF SendEvm
    <3> QED
      BY <3>1, <3>4, <3>5, <3>6, <3>7, <3>8, <3>9, <3>10
  <2> QED
    BY <2>1, <2>2, <2>3
<1>2. SessionInv /\ [SessionNext]_sessionVars =>
        [\A c \in SessionCmds :
            /\ scmd[c].op = "refund" /\ scmd[c].told # "refused" /\ scmd'[c].told = "refused"
            => \/ scmd[c].moved \/ scmd[c].asked
               \/ /\ scmd[c].signer.kind = "polkadot"
                  /\ scmd[c].signer.account \notin mapped]_sessionVars
  BY <1>1
<1> QED
  BY <1>2, SessionInvariance, PTL DEF SessionSpec, RefusedOnlyIfMoved

\* All that the commands on a session promise.
THEOREM SessionsAreSafe == SessionSpec => SessionsSafe
BY ReceiptsAndPayers, RefusalsHaveReason, PTL DEF SessionsSafe

(***************************************************************************)
(* The commands on the relays' files                                       *)
(***************************************************************************)
FilePlaces == {"idle", "fetch", "look", "read", "open", "write", "nextSpec", "openSpec",
               "writeSpec", "load", "states", "tmp", "rename"}
FileCommand == [op : FileOps \cup {"none"}, relay : Relays, state : CatalogStates,
                force : BOOLEAN, place : FilePlaces, entries : StateEntries,
                left : SUBSET Relays, spec : Specs, stale : SUBSET (Relays \cup {"states"}),
                off : SUBSET Relays]

\* The files, and the commands that hold copies of them.
FilesAreTyped ==
    /\ stateFile \in Documents /\ signedBundle \in Documents
    /\ specs \in [Relays -> Specs]
    /\ published \in StateEntries
    /\ doing \in [Actors -> FileCommand]
    /\ commands \in 0..MaxFileCommands
    /\ off \subseteq Relays

\* What is disabled is so in a state file that can be read.
OffIsRecorded ==
    stateFile.kind = "whole" => \A r \in off : stateFile.of[r] = "disabled"

\* The states that a command is about to write: only a sync, or a change of
\* one state, writes them, and a change whose copy is the last one keeps what
\* is disabled.
HoldsStates(c) ==
    c.place \in {"open", "write"} =>
        /\ c.op \in {"sync", "setState"}
        /\ c.op = "setState" =>
              /\ c.entries[c.relay] = c.state
              /\ "states" \notin c.stale =>
                    \A r \in off \ {c.relay} : c.entries[r] = "disabled"

\* The states that a build is about to sign.
HoldsBundle(c) ==
    c.place \in {"tmp", "rename"} => \A r \in c.off : c.entries[r] # "active"

\* The specification that a command is about to write, when nobody has written
\* it since the command looked.
HoldsSpec(c) ==
    c.place = "openSpec" =>
        /\ c.op \in {"sync", "backfill", "scaffold", "pick", "budget"}
        /\ c.relay \notin c.stale =>
              /\ c.op \in {"pick", "budget"} => c.spec = Edited(c, specs[c.relay])
              /\ c.op \notin {"pick", "budget"} /\ ~c.force =>
                    specs[c.relay].kind \in {"none", "torn"}

\* The members whose specification a sync or a backfill has yet to write are in
\* the catalog that it fetched, and those of a sync had no specification.
HoldsLeft(c) ==
    /\ c.place \in {"look", "open", "write", "nextSpec", "openSpec", "writeSpec"}
          /\ c.op \in {"sync", "backfill"} =>
             \A r \in c.left : c.entries[r] # "out"
    /\ c.place \in {"open", "write", "nextSpec", "openSpec", "writeSpec"} /\ c.op = "sync" =>
          \A r \in c.left : r \in c.stale \/ specs[r].kind = "none"
    /\ c.place \in {"openSpec", "writeSpec"} /\ c.op = "sync" => c.relay \notin c.left

FileCommandIsSound(c) == HoldsStates(c) /\ HoldsBundle(c) /\ HoldsSpec(c) /\ HoldsLeft(c)

FilesInv ==
    /\ FilesAreTyped
    /\ OffIsRecorded
    /\ signedBundle.kind # "torn"
    /\ \A a \in Actors : FileCommandIsSound(doing[a])

LEMMA FirstRelayIsOne == FirstRelay \in Relays
BY RelaysOK DEF FirstRelay

LEMMA IdleIsSound == Idle \in FileCommand /\ FileCommandIsSound(Idle)
<1>1. NoStates \in StateEntries
  BY DEF NoStates, StateEntries
<1>2. NoSpec \in Specs
  BY DEF NoSpec, Specs, SpecKinds, CatalogStates
<1>3. Idle \in FileCommand
  BY <1>1, <1>2, FirstRelayIsOne DEF Idle, FileCommand, FilePlaces, CatalogStates
<1>4. FileCommandIsSound(Idle)
  BY DEF Idle, FileCommandIsSound, HoldsStates, HoldsBundle, HoldsSpec, HoldsLeft
<1> QED
  BY <1>3, <1>4

LEMMA FilesInvInit == FilesInit => FilesInv
<1> SUFFICES ASSUME FilesInit PROVE FilesInv
  OBVIOUS
<1>1. NoStates \in StateEntries /\ [r \in Relays |-> "active"] \in StateEntries
  BY DEF NoStates, StateEntries, CatalogStates
<1>2. stateFile \in Documents /\ signedBundle \in Documents /\ published \in StateEntries
  <2>1. published \in StateEntries
    BY <1>1 DEF FilesInit, NoStates, StateEntries, CatalogStates
  <2> QED
    BY <1>1, <2>1 DEF FilesInit, Documents
<1>3. specs \in [Relays -> Specs]
  <2>1. \A r \in Relays :
            [NoSpec EXCEPT !.kind = IF r = FirstRelay THEN "acurast" ELSE "none"] \in Specs
    BY DEF NoSpec, Specs, SpecKinds, CatalogStates
  <2> QED
    BY <2>1 DEF FilesInit
<1>4. FilesAreTyped
  BY <1>2, <1>3, IdleIsSound, RelaysOK DEF FilesAreTyped, FilesInit
<1>5. OffIsRecorded /\ signedBundle.kind # "torn"
  BY DEF FilesInit, OffIsRecorded
<1>6. \A a \in Actors : FileCommandIsSound(doing[a])
  BY IdleIsSound DEF FilesInit
<1> QED
  BY <1>4, <1>5, <1>6 DEF FilesInv

\* A step of one command that leaves the operator's files alone, and disables
\* nothing.
LEMMA FilesReadOnly ==
    ASSUME FilesInv,
           NEW a \in Actors, NEW next \in FileCommand, FileCommandIsSound(next),
           Becomes(a, next),
           UNCHANGED <<stateFile, specs>>,
           signedBundle' \in Documents, signedBundle'.kind # "torn",
           published' \in StateEntries,
           commands' \in 0..MaxFileCommands,
           off' \subseteq off
    PROVE  FilesInv'
<1>1. doing' = [doing EXCEPT ![a] = next] /\ doing' \in [Actors -> FileCommand]
  BY DEF FilesInv, FilesAreTyped, Becomes
<1>2. FilesAreTyped'
  BY <1>1 DEF FilesInv, FilesAreTyped
<1>3. OffIsRecorded'
  BY DEF FilesInv, OffIsRecorded
<1>4. ASSUME NEW c, FileCommandIsSound(c)
      PROVE  HoldsStates(c) /\ HoldsBundle(c) /\ HoldsSpec(c) /\ HoldsLeft(c)
  BY <1>4 DEF FileCommandIsSound
<1>5. \A b \in Actors : FileCommandIsSound(doing[b])'
  <2> SUFFICES ASSUME NEW b \in Actors PROVE FileCommandIsSound(doing[b])'
    OBVIOUS
  <2> DEFINE c == doing'[b]
  <2>1. FileCommandIsSound(c)
    BY <1>1 DEF FilesInv, FilesAreTyped
  <2>2. HoldsStates(doing[b])'
    BY <1>4, <2>1 DEF HoldsStates
  <2>3. HoldsBundle(doing[b])'
    BY <1>4, <2>1 DEF HoldsBundle
  <2>4. HoldsSpec(doing[b])'
    BY <1>4, <2>1 DEF HoldsSpec, Edited
  <2>5. HoldsLeft(doing[b])'
    BY <1>4, <2>1 DEF HoldsLeft
  <2> QED
    BY <2>2, <2>3, <2>4, <2>5 DEF FileCommandIsSound
<1> QED
  BY <1>2, <1>3, <1>5 DEF FilesInv

\* The steps that read, and leave the files as they are.
LEMMA FilesOwn ==
    ASSUME FilesInv,
           NEW a \in Actors, NEW next \in FileCommand, FileCommandIsSound(next),
           Becomes(a, next), UnchangedFiles
    PROVE  FilesInv'
BY FilesReadOnly DEF UnchangedFiles, FilesInv, FilesAreTyped

LEMMA StartKeeps == ASSUME FilesInv, NEW a \in Actors, Start(a) PROVE FilesInv'
<1>1. PICK op \in FileOps, r \in Relays, s \in CatalogStates, f \in BOOLEAN :
          /\ op \in {"sync", "build", "backfill"} => r = FirstRelay
          /\ op \notin {"setState", "scaffold"} => s = "active"
          /\ f => op \in {"setState", "scaffold", "backfill"}
          /\ doing' = [doing EXCEPT ![a] = [Idle EXCEPT
                           !.op = op, !.relay = r, !.state = s, !.force = f,
                           !.place = FirstPlace(op)]]
  BY DEF Start
<1> DEFINE next == [Idle EXCEPT !.op = op, !.relay = r, !.state = s, !.force = f,
                                !.place = FirstPlace(op)]
<1>2. FirstPlace(op) \in {"fetch", "load", "look", "read"}
  BY DEF FirstPlace, FileOps
<1>3. next \in FileCommand
  BY <1>2, IdleIsSound DEF FileCommand, FilePlaces
<1>4. FileCommandIsSound(next)
  <2>1. next.place \in {"fetch", "load", "look", "read"} /\ next.left = {}
    BY <1>2, IdleIsSound DEF FileCommand, Idle
  <2> HIDE DEF next
  <2> QED
    BY <2>1 DEF FileCommandIsSound, HoldsStates, HoldsBundle, HoldsSpec, HoldsLeft
<1>5. Becomes(a, next)
  BY <1>1 DEF Becomes
<1>6. commands' \in 0..MaxFileCommands
  BY RelaysOK DEF Start, FilesInv, FilesAreTyped
<1> HIDE DEF next
<1> QED
  BY <1>3, <1>4, <1>5, <1>6, FilesReadOnly DEF Start, FilesInv, FilesAreTyped

LEMMA QuitKeeps == ASSUME FilesInv, NEW a \in Actors, Quit(a) PROVE FilesInv'
BY IdleIsSound, FilesReadOnly DEF Quit, Becomes, FilesInv, FilesAreTyped

LEMMA RenameKeeps == ASSUME FilesInv, NEW a \in Actors, Rename(a) PROVE FilesInv'
<1>1. doing[a].entries \in StateEntries
  BY DEF FilesInv, FilesAreTyped, FileCommand
<1>2. signedBundle' \in Documents /\ signedBundle'.kind # "torn"
  BY <1>1 DEF Rename, Documents
<1> QED
  BY <1>2, IdleIsSound, FilesReadOnly DEF Rename, FilesInv, FilesAreTyped

LEMMA BuildKeeps == ASSUME FilesInv, NEW a \in Actors, Build(a) PROVE FilesInv'
<1> DEFINE next == [doing[a] EXCEPT !.place = "rename"]
<1>1. doing[a] \in FileCommand /\ FileCommandIsSound(doing[a])
  BY DEF FilesInv, FilesAreTyped
<1>2. next \in FileCommand
  BY <1>1 DEF FileCommand, FilePlaces
<1>3. FileCommandIsSound(next)
  BY <1>1 DEF Build, FileCommand, FileCommandIsSound, HoldsStates, HoldsBundle, HoldsSpec, HoldsLeft
<1> QED
  BY <1>2, <1>3, FilesOwn DEF Build

LEMMA FetchKeeps == ASSUME FilesInv, NEW a \in Actors, Fetch(a) PROVE FilesInv'
<1> DEFINE place == IF doing[a].op = "sync" THEN "look" ELSE "nextSpec"
           next == [doing[a] EXCEPT !.entries = published,
                                    !.left = {r \in Relays : published[r] # "out"},
                                    !.place = place]
<1>1. doing[a] \in FileCommand
  BY DEF FilesInv, FilesAreTyped
<1>2. published \in StateEntries /\ place \in FilePlaces
  BY DEF FilesInv, FilesAreTyped, FilePlaces
<1>3. /\ next \in FileCommand /\ next.place = place /\ next.op = doing[a].op
      /\ next.entries = published /\ \A r \in next.left : published[r] # "out"
  BY <1>1, <1>2 DEF FileCommand
<1>4. place \in {"look", "nextSpec"} /\ (doing[a].op = "sync" => place = "look")
  OBVIOUS
<1>5. Becomes(a, next)
  BY DEF Fetch
<1>6. FileCommandIsSound(next)
  <2> HIDE DEF next, place
  <2> QED
    BY <1>3, <1>4 DEF FileCommandIsSound, HoldsStates, HoldsBundle, HoldsSpec, HoldsLeft
<1> HIDE DEF next, place
<1> QED
  BY <1>3, <1>5, <1>6, FilesOwn DEF Fetch

LEMMA LookKeeps == ASSUME FilesInv, NEW a \in Actors, LookForSpecs(a) PROVE FilesInv'
<1> DEFINE new == {r \in doing[a].left : specs[r].kind = "none"}
           next == [doing[a] EXCEPT !.left = new, !.stale = {}, !.place = "open"]
<1>1. doing[a] \in FileCommand /\ HoldsLeft(doing[a])
  BY DEF FilesInv, FilesAreTyped, FileCommandIsSound
<1>2. new \subseteq Relays /\ \A r \in new : specs[r].kind = "none" /\ doing[a].entries[r] # "out"
  BY <1>1 DEF FileCommand, HoldsLeft, LookForSpecs
<1>3. /\ next \in FileCommand /\ next.left = new /\ next.place = "open" /\ next.op = "sync"
      /\ next.entries = doing[a].entries
  BY <1>1, <1>2 DEF FileCommand, FilePlaces, LookForSpecs
<1>4. Becomes(a, next)
  BY DEF LookForSpecs
<1>5. FileCommandIsSound(next)
  <2> HIDE DEF next, new
  <2> QED
    BY <1>2, <1>3 DEF FileCommandIsSound, HoldsStates, HoldsBundle, HoldsSpec, HoldsLeft
<1> HIDE DEF next, new
<1> QED
  BY <1>3, <1>4, <1>5, FilesOwn DEF LookForSpecs

LEMMA ReadStatesKeeps == ASSUME FilesInv, NEW a \in Actors, ReadStates(a) PROVE FilesInv'
<1> DEFINE c == doing[a]
           entries == WithState(stateFile.of, c.relay, c.state)
           next == [c EXCEPT !.entries = entries, !.stale = @ \ {"states"}, !.off = off,
                             !.place = "open"]
<1>1. c \in FileCommand /\ off \subseteq Relays
  BY DEF FilesInv, FilesAreTyped
<1>2. c.op = "setState" /\ stateFile.kind = "whole"
  BY DEF ReadStates
<1>3. entries \in StateEntries /\ entries[c.relay] = c.state
      /\ \A r \in off \ {c.relay} : entries[r] = "disabled"
  <2>1. stateFile.of \in StateEntries
    BY DEF FilesInv, FilesAreTyped, Documents
  <2>2. \A r \in off : stateFile.of[r] = "disabled"
    BY <1>2 DEF FilesInv, OffIsRecorded
  <2>3. c.relay \in Relays /\ c.state \in CatalogStates
    BY <1>1 DEF FileCommand
  <2> QED
    BY <1>1, <2>1, <2>2, <2>3 DEF WithState, StateEntries, CatalogStates
<1>4. /\ next \in FileCommand
      /\ next.entries = entries /\ next.relay = c.relay /\ next.state = c.state
      /\ next.op = "setState" /\ next.place = "open"
  <2> HIDE DEF entries
  <2> QED
    BY <1>1, <1>2, <1>3 DEF FileCommand, FilePlaces
<1>5. Becomes(a, next)
  BY DEF ReadStates
<1>6. FileCommandIsSound(next)
  <2> HIDE DEF next, entries, c
  <2> QED
    BY <1>3, <1>4 DEF FileCommandIsSound, HoldsStates, HoldsBundle, HoldsSpec, HoldsLeft
<1> HIDE DEF next, entries, c
<1> QED
  BY <1>4, <1>5, <1>6, FilesOwn DEF ReadStates

\* A command that turns to a specification holds it as it was just read.
LEMMA TurnsToSpec ==
    ASSUME FilesInv,
           NEW a \in Actors, NEW next \in FileCommand,
           Becomes(a, next), UnchangedFiles,
           next.place = "openSpec",
           next.op \in {"sync", "backfill", "scaffold", "pick", "budget"},
           next.op \in {"pick", "budget"} => next.spec = Edited(next, specs[next.relay]),
           next.relay \notin next.stale /\ next.op \notin {"pick", "budget"} /\ ~next.force =>
               specs[next.relay].kind \in {"none", "torn"},
           next.op \in {"sync", "backfill"} => \A r \in next.left : next.entries[r] # "out",
           next.op = "sync" =>
               /\ \A r \in next.left : r \in next.stale \/ specs[r].kind = "none"
               /\ next.relay \notin next.left
    PROVE  FilesInv'
<1>1. FileCommandIsSound(next)
  BY DEF FileCommandIsSound, HoldsStates, HoldsBundle, HoldsSpec, HoldsLeft
<1> QED
  BY <1>1, FilesOwn

LEMMA NextSpecKeeps == ASSUME FilesInv, NEW a \in Actors, NextSpec(a) PROVE FilesInv'
<1> DEFINE c == doing[a]
<1>1. /\ c \in FileCommand /\ c.place = "nextSpec" /\ HoldsLeft(c)
      /\ c.entries \in StateEntries
  BY DEF FilesInv, FilesAreTyped, FileCommandIsSound, FileCommand, NextSpec
<1>2. ASSUME c.op \in {"sync", "backfill"},
             NEW r \in c.left, NEW kind \in {"stub", "bootstrap", "acurast"}
      PROVE  /\ r \in Relays
             /\ [NoSpec EXCEPT !.kind = kind, !.state = c.entries[r]] \in Specs
  <2>1. r \in Relays
    BY <1>1, <1>2 DEF FileCommand
  <2>2. c.entries[r] \in CatalogStates
    BY <1>1, <1>2, <2>1 DEF HoldsLeft, StateEntries
  <2> QED
    BY <1>2, <2>1, <2>2 DEF NoSpec, Specs, SpecKinds
<1>3. UnchangedFiles
  BY DEF NextSpec
<1>4. CASE Becomes(a, Idle)
  BY <1>3, <1>4, IdleIsSound, FilesOwn
<1>5. ASSUME NEW r \in c.left, c.op = "backfill",
             Becomes(a, [c EXCEPT !.left = @ \ {r}])
      PROVE  FilesInv'
  <2> DEFINE next == [c EXCEPT !.left = @ \ {r}]
  <2>1. next \in FileCommand
    BY <1>1 DEF FileCommand
  <2>2. FileCommandIsSound(next)
    BY <1>1, <1>5 DEF FileCommandIsSound, HoldsStates, HoldsBundle, HoldsSpec, HoldsLeft, FileCommand
  <2> HIDE DEF next, c
  <2> QED
    BY <1>3, <1>5, <2>1, <2>2, FilesOwn DEF next
<1>6. ASSUME NEW r \in c.left, NEW kind \in {"bootstrap", "acurast"},
             c.op = "backfill", ~Exists(r) \/ c.force,
             Becomes(a, [c EXCEPT !.relay = r, !.left = @ \ {r}, !.stale = @ \ {r},
                                  !.spec = [NoSpec EXCEPT !.kind = kind, !.state = c.entries[r]],
                                  !.place = "openSpec"])
      PROVE  FilesInv'
  <2> DEFINE spec == [NoSpec EXCEPT !.kind = kind, !.state = c.entries[r]]
             next == [c EXCEPT !.relay = r, !.left = @ \ {r}, !.stale = @ \ {r},
                               !.spec = spec, !.place = "openSpec"]
  <2>1. spec \in Specs /\ r \in Relays
    BY <1>2, <1>6
  <2>2. Becomes(a, next)
    BY <1>6
  <2>3. next \in FileCommand
    <3> HIDE DEF spec
    <3> QED
      BY <1>1, <2>1 DEF FileCommand, FilePlaces
  <2>4. /\ next.relay = r /\ next.place = "openSpec" /\ next.op = "backfill"
        /\ next.force = c.force /\ next.left = c.left \ {r} /\ next.entries = c.entries
    <3> HIDE DEF spec
    <3> QED
      BY <1>1, <1>6 DEF FileCommand
  <2>5. \A q \in c.left : c.entries[q] # "out"
    BY <1>1, <1>6 DEF HoldsLeft
  <2> HIDE DEF next, spec, c
  <2> QED
    BY <1>3, <1>6, <2>2, <2>3, <2>4, <2>5, TurnsToSpec DEF Exists
<1>7. ASSUME NEW r \in c.left, c.op = "sync",
             Becomes(a, [c EXCEPT !.relay = r, !.left = @ \ {r},
                                  !.spec = [NoSpec EXCEPT !.kind = "stub", !.state = c.entries[r]],
                                  !.place = "openSpec"])
      PROVE  FilesInv'
  <2> DEFINE spec == [NoSpec EXCEPT !.kind = "stub", !.state = c.entries[r]]
             next == [c EXCEPT !.relay = r, !.left = @ \ {r}, !.spec = spec, !.place = "openSpec"]
  <2>1. spec \in Specs /\ r \in Relays
    BY <1>2, <1>7
  <2>2. Becomes(a, next)
    BY <1>7
  <2>3. next \in FileCommand
    <3> HIDE DEF spec
    <3> QED
      BY <1>1, <2>1 DEF FileCommand, FilePlaces
  <2>4. /\ next.relay = r /\ next.place = "openSpec" /\ next.op = "sync"
        /\ next.left = c.left \ {r} /\ next.stale = c.stale /\ next.entries = c.entries
    <3> HIDE DEF spec
    <3> QED
      BY <1>1, <1>7 DEF FileCommand
  <2>5. \A q \in c.left : c.entries[q] # "out" /\ (q \in c.stale \/ specs[q].kind = "none")
    BY <1>1, <1>7 DEF HoldsLeft
  <2> HIDE DEF next, spec, c
  <2> QED
    BY <1>3, <2>2, <2>3, <2>4, <2>5, TurnsToSpec
<1>8. \/ Becomes(a, Idle)
      \/ \E r \in c.left : c.op = "backfill" /\ Becomes(a, [c EXCEPT !.left = @ \ {r}])
      \/ \E r \in c.left :
            /\ c.op = "backfill" /\ (~Exists(r) \/ c.force)
            /\ \E kind \in {"bootstrap", "acurast"} :
                  Becomes(a, [c EXCEPT !.relay = r, !.left = @ \ {r}, !.stale = @ \ {r},
                                       !.spec = [NoSpec EXCEPT !.kind = kind, !.state = c.entries[r]],
                                       !.place = "openSpec"])
      \/ \E r \in c.left :
            /\ c.op = "sync"
            /\ Becomes(a, [c EXCEPT !.relay = r, !.left = @ \ {r},
                                    !.spec = [NoSpec EXCEPT !.kind = "stub", !.state = c.entries[r]],
                                    !.place = "openSpec"])
  BY Zenon DEF NextSpec
<1> HIDE DEF c
<1> QED
  BY <1>4, <1>5, <1>6, <1>7, <1>8

LEMMA ScaffoldKeeps == ASSUME FilesInv, NEW a \in Actors, Scaffold(a) PROVE FilesInv'
<1> DEFINE c == doing[a]
<1>1. /\ c \in FileCommand /\ c.op = "scaffold" /\ (Exists(c.relay) => c.force)
      /\ UnchangedFiles
  BY DEF FilesInv, FilesAreTyped, Scaffold
<1>2. PICK kind \in {"bootstrap", "acurast"} :
          Becomes(a, [c EXCEPT !.spec = [NoSpec EXCEPT !.kind = kind, !.state = c.state],
                               !.stale = @ \ {c.relay}, !.place = "openSpec"])
  BY DEF Scaffold
<1> DEFINE spec == [NoSpec EXCEPT !.kind = kind, !.state = c.state]
           next == [c EXCEPT !.spec = spec, !.stale = @ \ {c.relay}, !.place = "openSpec"]
<1>3. spec \in Specs
  BY <1>1 DEF NoSpec, Specs, SpecKinds, CatalogStates, FileCommand
<1>4. /\ next \in FileCommand /\ next.relay = c.relay /\ next.place = "openSpec"
      /\ next.op = "scaffold" /\ next.force = c.force
  <2> HIDE DEF spec
  <2> QED
    BY <1>1, <1>3 DEF FileCommand, FilePlaces
<1>5. Becomes(a, next)
  BY <1>2
<1> HIDE DEF next, spec, c
<1> QED
  BY <1>1, <1>4, <1>5, TurnsToSpec DEF Exists

LEMMA ReadSpecKeeps == ASSUME FilesInv, NEW a \in Actors, ReadSpec(a) PROVE FilesInv'
<1> DEFINE c == doing[a]
           spec == Edited(c, specs[c.relay])
           next == [c EXCEPT !.spec = spec, !.stale = @ \ {c.relay}, !.place = "openSpec"]
<1>1. /\ c \in FileCommand /\ c.op \in {"pick", "budget"} /\ UnchangedFiles
      /\ specs[c.relay] \in Specs
  BY DEF FilesInv, FilesAreTyped, FileCommand, ReadSpec
<1>2. spec \in Specs
  BY <1>1 DEF Edited, Specs
<1>3. /\ next \in FileCommand /\ next.relay = c.relay /\ next.place = "openSpec"
      /\ next.op = c.op /\ next.spec = spec
  <2> HIDE DEF spec
  <2> QED
    BY <1>1, <1>2 DEF FileCommand, FilePlaces
<1>4. Becomes(a, next)
  BY DEF ReadSpec
<1>5. next.spec = Edited(next, specs[next.relay])
  <2>1. spec = Edited(c, specs[c.relay])
    OBVIOUS
  <2> HIDE DEF next, spec, c
  <2> QED
    BY <1>3, <2>1 DEF Edited
<1> HIDE DEF next, spec, c
<1> QED
  BY <1>1, <1>3, <1>4, <1>5, TurnsToSpec

LEMMA LoadSpecsKeeps == ASSUME FilesInv, NEW a \in Actors, LoadSpecs(a) PROVE FilesInv'
<1> DEFINE c == doing[a]
           entries == [r \in Relays |-> IF Exists(r) THEN specs[r].state ELSE "out"]
           next == [c EXCEPT !.entries = entries, !.place = "states"]
<1>1. c \in FileCommand /\ UnchangedFiles /\ Becomes(a, next)
  BY DEF FilesInv, FilesAreTyped, LoadSpecs
<1>2. entries \in StateEntries
  BY DEF FilesInv, FilesAreTyped, Specs, StateEntries
<1>3. next \in FileCommand /\ next.place = "states"
  <2> HIDE DEF entries
  <2> QED
    BY <1>1, <1>2 DEF FileCommand, FilePlaces
<1> HIDE DEF next, c
<1>4. FileCommandIsSound(next)
  BY <1>3 DEF FileCommandIsSound, HoldsStates, HoldsBundle, HoldsSpec, HoldsLeft
<1> QED
  BY <1>1, <1>3, <1>4, FilesOwn

LEMMA LoadStatesKeeps == ASSUME FilesInv, NEW a \in Actors, LoadStates(a) PROVE FilesInv'
<1> DEFINE c == doing[a]
           entries == [r \in Relays |-> RecordedOrState(stateFile.of[r], c.entries[r])]
           recorded == IF stateFile.kind = "whole" THEN off ELSE {}
           next == [c EXCEPT !.entries = entries, !.off = recorded, !.place = "tmp"]
<1>1. c \in FileCommand /\ UnchangedFiles /\ Becomes(a, next)
  BY DEF FilesInv, FilesAreTyped, LoadStates
<1>2. /\ stateFile.of \in StateEntries /\ c.entries \in StateEntries /\ off \subseteq Relays
      /\ \A r \in recorded : r \in Relays /\ stateFile.of[r] = "disabled"
  BY <1>1 DEF FilesInv, FilesAreTyped, Documents, FileCommand, OffIsRecorded
<1>3. entries \in StateEntries
  BY <1>2 DEF RecordedOrState, StateEntries
<1>4. \A r \in recorded : entries[r] # "active"
  BY <1>2 DEF RecordedOrState
<1>5. /\ next \in FileCommand
      /\ next.place = "tmp" /\ next.off = recorded /\ next.entries = entries
  <2> HIDE DEF entries
  <2> QED
    BY <1>1, <1>2, <1>3 DEF FileCommand, FilePlaces
<1> HIDE DEF next, c, entries, recorded
<1>6. FileCommandIsSound(next)
  BY <1>4, <1>5 DEF FileCommandIsSound, HoldsStates, HoldsBundle, HoldsSpec, HoldsLeft
<1> QED
  BY <1>1, <1>5, <1>6, FilesOwn

\* The others keep what they hold when a file is written, as copies that are
\* not the last.
LEMMA OpenStatesKeeps == ASSUME FilesInv, NEW a \in Actors, OpenStates(a) PROVE FilesInv'
<1> DEFINE c == doing[a]
           next == [c EXCEPT !.place = "write"]
<1>1. c \in FileCommand /\ FileCommandIsSound(c) /\ c.place = "open"
  BY DEF FilesInv, FilesAreTyped, OpenStates
<1>2. next \in FileCommand
  BY <1>1 DEF FileCommand, FilePlaces
<1>3. FileCommandIsSound(next)
  BY <1>1 DEF FileCommand, FileCommandIsSound, HoldsStates, HoldsBundle, HoldsSpec, HoldsLeft
<1>4. doing' = [doing EXCEPT ![a] = next] /\ UNCHANGED <<specs, signedBundle, published, commands, off>>
  BY DEF OpenStates, Becomes
<1> HIDE DEF next, c
<1>5. stateFile' \in Documents /\ stateFile'.kind = "torn"
  BY DEF OpenStates, Documents, NoStates, StateEntries
<1>6. FilesAreTyped' /\ OffIsRecorded'
  BY <1>2, <1>4, <1>5 DEF FilesInv, FilesAreTyped, OffIsRecorded
<1>7. ASSUME NEW b \in Actors PROVE FileCommandIsSound(doing[b])'
  <2>1. PICK d \in FileCommand : d = doing'[b] /\ FileCommandIsSound(d)
    BY <1>2, <1>3, <1>4 DEF FilesInv, FilesAreTyped
  <2>2. HoldsStates(doing[b])' /\ HoldsBundle(doing[b])'
    BY <1>4, <2>1 DEF FileCommandIsSound, HoldsStates, HoldsBundle
  <2>3. HoldsSpec(doing[b])' /\ HoldsLeft(doing[b])'
    BY <1>4, <2>1 DEF FileCommandIsSound, HoldsSpec, HoldsLeft, Edited
  <2> QED
    BY <2>2, <2>3 DEF FileCommandIsSound
<1> QED
  BY <1>4, <1>6, <1>7 DEF FilesInv

LEMMA WriteStatesKeeps == ASSUME FilesInv, NEW a \in Actors, WriteStates(a) PROVE FilesInv'
<1> DEFINE c == doing[a]
           kept == IF c.op = "sync" \/ "states" \in c.stale THEN {} ELSE off \ {c.relay}
           next == CASE c.op = "sync" -> [c EXCEPT !.place = "nextSpec"]
                     [] c.op = "setState" /\ ~c.force -> [c EXCEPT !.off = off', !.place = "tmp"]
                     [] OTHER -> Idle
<1>1. /\ c \in FileCommand /\ c.place = "write" /\ off \subseteq Relays
      /\ HoldsStates(c) /\ HoldsLeft(c)
  BY DEF FilesInv, FilesAreTyped, FileCommandIsSound, WriteStates
<1>2. /\ stateFile' = [kind |-> "whole", of |-> c.entries]
      /\ off' = kept \cup (IF c.op = "setState" /\ c.state = "disabled" THEN {c.relay} ELSE {})
      /\ Wrote(a, "states", next)
      /\ UNCHANGED <<specs, signedBundle, published, commands>>
  BY DEF WriteStates
<1>3. stateFile' \in Documents /\ off' \subseteq Relays
  BY <1>1, <1>2 DEF FileCommand, Documents
<1>4. \A r \in off' : c.op = "setState" /\ c.entries[r] = "disabled"
  BY <1>1, <1>2 DEF HoldsStates
<1>5. next \in FileCommand
  <2>1. [c EXCEPT !.place = "nextSpec"] \in FileCommand
    BY <1>1 DEF FileCommand, FilePlaces
  <2>2. [c EXCEPT !.off = off', !.place = "tmp"] \in FileCommand
    BY <1>1, <1>3 DEF FileCommand, FilePlaces
  <2> QED
    BY <2>1, <2>2, IdleIsSound
<1>6. PICK new \in FileCommand : new = next
  BY <1>5
<1>7. FileCommandIsSound(new)'
  <2>1. CASE c.op = "sync"
    <3>1. /\ new.place = "nextSpec" /\ new.op = "sync" /\ new.left = c.left
          /\ new.stale = c.stale /\ new.entries = c.entries
      BY <1>1, <1>6, <2>1 DEF FileCommand
    <3>2. \A r \in c.left : c.entries[r] # "out" /\ (r \in c.stale \/ specs[r].kind = "none")
      BY <1>1, <2>1 DEF HoldsLeft
    <3> HIDE DEF next, c
    <3> QED
      BY <1>2, <3>1, <3>2 DEF FileCommandIsSound, HoldsStates, HoldsBundle, HoldsSpec, HoldsLeft
  <2>2. CASE c.op = "setState" /\ ~c.force
    <3>1. new.place = "tmp" /\ new.off = off' /\ new.entries = c.entries
      BY <1>1, <1>6, <2>2 DEF FileCommand
    <3>2. \A r \in off' : c.entries[r] # "active"
      BY <1>4
    <3> HIDE DEF next, c
    <3> QED
      BY <3>1, <3>2 DEF FileCommandIsSound, HoldsStates, HoldsBundle, HoldsSpec, HoldsLeft
  <2>3. CASE c.op # "sync" /\ ~(c.op = "setState" /\ ~c.force)
    <3>1. new = Idle
      BY <1>6, <2>3
    <3> HIDE DEF next, c
    <3> QED
      BY <3>1 DEF Idle, FileCommandIsSound, HoldsStates, HoldsBundle, HoldsSpec, HoldsLeft
  <2> QED
    BY <2>1, <2>2, <2>3
<1>8. doing' = [b \in Actors |->
          IF b = a THEN new ELSE [doing[b] EXCEPT !.stale = @ \cup {"states"}]]
  BY <1>2, <1>6 DEF Wrote
<1> HIDE DEF next, c, kept
<1>9. ASSUME NEW b \in Actors, b # a
      PROVE  doing'[b] \in FileCommand /\ FileCommandIsSound(doing[b])'
  <2> DEFINE d == doing[b]
             told == [d EXCEPT !.stale = @ \cup {"states"}]
  <2>1. d \in FileCommand /\ FileCommandIsSound(d)
    BY DEF FilesInv, FilesAreTyped
  <2>2. doing'[b] = told
    BY <1>8, <1>9
  <2>3. /\ told \in FileCommand
        /\ told.op = d.op /\ told.relay = d.relay /\ told.state = d.state /\ told.force = d.force
        /\ told.place = d.place /\ told.entries = d.entries /\ told.left = d.left
        /\ told.spec = d.spec /\ told.off = d.off /\ told.stale = d.stale \cup {"states"}
    BY <2>1 DEF FileCommand
  <2> HIDE DEF told, d
  <2>4. HoldsStates(doing[b])' /\ HoldsBundle(doing[b])'
    BY <2>1, <2>2, <2>3 DEF FileCommandIsSound, HoldsStates, HoldsBundle
  <2>5. HoldsSpec(doing[b])' /\ HoldsLeft(doing[b])'
    BY <1>2, <2>1, <2>2, <2>3 DEF FileCommandIsSound, HoldsSpec, HoldsLeft, Edited
  <2> QED
    BY <2>2, <2>3, <2>4, <2>5 DEF FileCommandIsSound
<1>10. doing' \in [Actors -> FileCommand]
  BY <1>6, <1>8, <1>9
<1>11. FilesAreTyped'
  BY <1>2, <1>3, <1>10 DEF FilesInv, FilesAreTyped
<1>12. OffIsRecorded' /\ signedBundle'.kind # "torn"
  BY <1>2, <1>4 DEF OffIsRecorded, FilesInv
<1>13. \A b \in Actors : FileCommandIsSound(doing[b])'
  <2>1. FileCommandIsSound(doing[a])'
    BY <1>7, <1>8
  <2> QED
    BY <1>9, <2>1
<1> QED
  BY <1>11, <1>12, <1>13 DEF FilesInv

\* A specification that is written is stale to all who hold it, or have yet to
\* write it.
LEMMA SpecWritten ==
    ASSUME FilesInv,
           NEW a \in Actors, NEW r \in Relays, NEW spec \in Specs, NEW new \in FileCommand,
           FileCommandIsSound(new)',
           specs' = [specs EXCEPT ![r] = spec],
           Wrote(a, r, new),
           UNCHANGED <<stateFile, signedBundle, published, commands, off>>
    PROVE  FilesInv'
<1>1. ASSUME NEW b \in Actors, b # a
      PROVE  doing'[b] \in FileCommand /\ FileCommandIsSound(doing[b])'
  <2>1. PICK d \in FileCommand : d = doing[b] /\ FileCommandIsSound(d)
    BY DEF FilesInv, FilesAreTyped
  <2> DEFINE told == [d EXCEPT !.stale = @ \cup {r}]
  <2>2. doing'[b] = told
    BY <1>1, <2>1 DEF Wrote
  <2>3. /\ told \in FileCommand
        /\ told.op = d.op /\ told.relay = d.relay /\ told.state = d.state /\ told.force = d.force
        /\ told.place = d.place /\ told.entries = d.entries /\ told.left = d.left
        /\ told.spec = d.spec /\ told.off = d.off /\ told.stale = d.stale \cup {r}
    BY <2>1 DEF FileCommand
  <2>4. d.relay \in Relays /\ d.left \subseteq Relays
    BY <2>1 DEF FileCommand
  <2>5. \A q \in Relays : q \notin told.stale => q \notin d.stale /\ specs'[q] = specs[q]
    BY <2>3 DEF FilesInv, FilesAreTyped
  <2> HIDE DEF told
  <2>6. HoldsStates(doing[b])' /\ HoldsBundle(doing[b])'
    <3>1. off' = off
      OBVIOUS
    <3>2. HoldsStates(d) /\ HoldsBundle(d)
      BY <2>1 DEF FileCommandIsSound
    <3> QED
      BY <2>2, <2>3, <3>1, <3>2 DEF HoldsStates, HoldsBundle
  <2>7. HoldsSpec(doing[b])'
    <3>1. HoldsSpec(d)
      BY <2>1 DEF FileCommandIsSound
    <3>2. told.relay \notin told.stale =>
              d.relay \notin d.stale /\ specs'[told.relay] = specs[d.relay]
      BY <2>3, <2>4, <2>5
    <3> QED
      BY <2>2, <2>3, <3>1, <3>2 DEF HoldsSpec, Edited
  <2>8. HoldsLeft(doing[b])'
    <3>1. HoldsLeft(d)
      BY <2>1 DEF FileCommandIsSound
    <3>2. \A q \in told.left : q \in d.stale \/ specs[q].kind = "none" =>
              q \in told.stale \/ specs'[q].kind = "none"
      BY <2>3, <2>4, <2>5
    <3> QED
      BY <2>2, <2>3, <3>1, <3>2 DEF HoldsLeft
  <2> QED
    BY <2>2, <2>3, <2>6, <2>7, <2>8 DEF FileCommandIsSound
<1>2. doing' \in [Actors -> FileCommand]
  BY <1>1 DEF Wrote
<1>3. FilesAreTyped'
  BY <1>2 DEF FilesInv, FilesAreTyped
<1>4. OffIsRecorded' /\ signedBundle'.kind # "torn"
  BY DEF OffIsRecorded, FilesInv
<1>5. FileCommandIsSound(doing[a])'
  BY DEF Wrote
<1> QED
  BY <1>1, <1>3, <1>4, <1>5 DEF FilesInv

LEMMA OpenSpecKeeps == ASSUME FilesInv, NEW a \in Actors, OpenSpec(a) PROVE FilesInv'
<1> DEFINE c == doing[a]
           torn == [NoSpec EXCEPT !.kind = "torn"]
           next == [c EXCEPT !.place = "writeSpec"]
<1>1. c \in FileCommand /\ c.place = "openSpec" /\ c.relay \in Relays /\ HoldsLeft(c)
  BY DEF FilesInv, FilesAreTyped, FileCommandIsSound, FileCommand, OpenSpec
<1>2. torn \in Specs
  BY DEF NoSpec, Specs, SpecKinds, CatalogStates
<1>3. next \in FileCommand
  BY <1>1 DEF FileCommand, FilePlaces
<1>4. PICK new \in FileCommand, r \in Relays, spec \in Specs :
          new = next /\ r = c.relay /\ spec = torn
  BY <1>1, <1>2, <1>3
<1>5. /\ new.place = "writeSpec" /\ new.op = c.op /\ new.relay = r
      /\ new.left = c.left /\ new.stale = c.stale /\ new.entries = c.entries
  BY <1>1, <1>4 DEF FileCommand
<1>6. /\ specs' = [specs EXCEPT ![r] = spec]
      /\ Wrote(a, r, new)
      /\ UNCHANGED <<stateFile, signedBundle, published, commands, off>>
  BY <1>4 DEF OpenSpec
<1> HIDE DEF next, torn, c
<1>7. \A q \in c.left : c.op = "sync" => specs'[q] = specs[q]
  BY <1>1, <1>4, <1>6 DEF HoldsLeft, FilesInv, FilesAreTyped
<1>8. FileCommandIsSound(new)'
  BY <1>1, <1>4, <1>5, <1>7 DEF FileCommandIsSound, HoldsStates, HoldsBundle, HoldsSpec, HoldsLeft
<1> QED
  BY <1>6, <1>8, SpecWritten

LEMMA WriteSpecKeeps == ASSUME FilesInv, NEW a \in Actors, WriteSpec(a) PROVE FilesInv'
<1> DEFINE c == doing[a]
           next == IF c.op \in {"sync", "backfill"} THEN [c EXCEPT !.place = "nextSpec"] ELSE Idle
<1>1. /\ c \in FileCommand /\ c.place = "writeSpec" /\ HoldsLeft(c)
      /\ c.relay \in Relays /\ c.spec \in Specs
  BY DEF FilesInv, FilesAreTyped, FileCommandIsSound, FileCommand, WriteSpec
<1>2. next \in FileCommand
  BY <1>1, IdleIsSound DEF FileCommand, FilePlaces
<1>3. PICK new \in FileCommand, r \in Relays, spec \in Specs :
          new = next /\ r = c.relay /\ spec = c.spec
  BY <1>1, <1>2
<1>4. \/ new = Idle
      \/ /\ new.place = "nextSpec" /\ new.op = c.op /\ new.left = c.left
         /\ new.stale = c.stale /\ new.entries = c.entries
  BY <1>1, <1>3 DEF FileCommand
<1>5. /\ specs' = [specs EXCEPT ![r] = spec]
      /\ Wrote(a, r, new)
      /\ UNCHANGED <<stateFile, signedBundle, published, commands, off>>
  BY <1>3 DEF WriteSpec
<1> HIDE DEF next, c
<1>6. \A q \in c.left : c.op = "sync" => specs'[q] = specs[q]
  BY <1>1, <1>3, <1>5 DEF HoldsLeft, FilesInv, FilesAreTyped
<1>7. FileCommandIsSound(new)'
  <2>1. CASE new = Idle
    BY <2>1 DEF Idle, FileCommandIsSound, HoldsStates, HoldsBundle, HoldsSpec, HoldsLeft
  <2>2. CASE new # Idle
    BY <1>1, <1>4, <1>6, <2>2
    DEF FileCommandIsSound, HoldsStates, HoldsBundle, HoldsSpec, HoldsLeft
  <2> QED
    BY <2>1, <2>2
<1> QED
  BY <1>5, <1>7, SpecWritten

LEMMA ServeKeeps == ASSUME FilesInv, Serve PROVE FilesInv'
<1>1. signedBundle.of \in StateEntries
  BY DEF FilesInv, FilesAreTyped, Documents
<1>2. FilesAreTyped' /\ OffIsRecorded' /\ signedBundle'.kind # "torn"
  BY <1>1 DEF Serve, FilesInv, FilesAreTyped, OffIsRecorded
<1> QED
  BY <1>2 DEF Serve, FilesInv, FileCommandIsSound, HoldsStates, HoldsBundle, HoldsSpec,
              HoldsLeft, Edited

LEMMA FilesInvNext == FilesInv /\ [FilesNext]_fileVars => FilesInv'
<1> SUFFICES ASSUME FilesInv, [FilesNext]_fileVars PROVE FilesInv'
  OBVIOUS
<1>1. CASE UNCHANGED fileVars
  BY <1>1 DEF fileVars, FilesInv, FilesAreTyped, OffIsRecorded, FileCommandIsSound,
              HoldsStates, HoldsBundle, HoldsSpec, HoldsLeft, Edited
<1>2. CASE Serve
  BY <1>2, ServeKeeps
<1>3. ASSUME NEW a \in Actors,
             \/ Start(a) \/ Quit(a)
             \/ Fetch(a) \/ LookForSpecs(a) \/ ReadStates(a) \/ OpenStates(a) \/ WriteStates(a)
             \/ NextSpec(a) \/ Scaffold(a) \/ ReadSpec(a) \/ OpenSpec(a) \/ WriteSpec(a)
             \/ LoadSpecs(a) \/ LoadStates(a) \/ Build(a) \/ Rename(a)
      PROVE  FilesInv'
  BY <1>3, StartKeeps, QuitKeeps, FetchKeeps, LookKeeps, ReadStatesKeeps, OpenStatesKeeps,
     WriteStatesKeeps, NextSpecKeeps, ScaffoldKeeps, ReadSpecKeeps, OpenSpecKeeps,
     WriteSpecKeeps, LoadSpecsKeeps, LoadStatesKeeps, BuildKeeps, RenameKeeps
<1> QED
  BY <1>1, <1>2, <1>3 DEF FilesNext

\* What commands on the relays' files leave behind, however many run and
\* wherever they stop: no relay that was disabled is signed as active while its
\* disabling stands, no specification loses an edit to a command that was not
\* told to overwrite it, and no bundle is in part.
THEOREM FilesAreSafe == FilesSpec => []FilesSafe
<1>1. FilesInv => FilesTypeOK
  BY DEF FilesInv, FilesAreTyped, FileCommand, FilePlaces, FilesTypeOK
<1>2. FilesInv => DisabledStaysOut /\ BundleIsWhole
  BY DEF FilesInv, FileCommandIsSound, HoldsBundle, DisabledStaysOut, BundleIsWhole
<1>3. FilesInv => EditsSurvive
  <2> SUFFICES ASSUME FilesInv, NEW a \in Actors,
                      doing[a].place = "openSpec",
                      specs[doing[a].relay].kind \notin {"none", "torn"},
                      ~doing[a].force, doing[a].relay \notin doing[a].stale
               PROVE  LET c == doing[a]
                          old == specs[c.relay]
                      IN /\ c.op \in {"pick", "budget"}
                         /\ c.op = "pick" => c.spec = [old EXCEPT !.pin = TRUE]
                         /\ c.op = "budget" => c.spec = [old EXCEPT !.cost = TRUE]
    BY DEF EditsSurvive
  <2>1. HoldsSpec(doing[a])
    BY DEF FilesInv, FileCommandIsSound
  <2> QED
    BY <2>1 DEF HoldsSpec, Edited
<1>4. FilesInv => FilesSafe
  BY <1>1, <1>2, <1>3 DEF FilesSafe
<1> QED
  BY <1>4, FilesInvInit, FilesInvNext, PTL DEF FilesSpec
=============================================================================
