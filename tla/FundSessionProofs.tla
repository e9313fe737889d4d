--------------------------- MODULE FundSessionProofs ---------------------------
(***************************************************************************)
(* What runs of the funding programs guarantee on one wallet, for any      *)
(* number of runs, quotes and amounts; and what the job that is funded     *)
(* guarantees through its restarts, for any number of starts, hostnames    *)
(* and diagnostic runs.                                                    *)
(***************************************************************************)
EXTENDS FundSession, CargoBootstrap, TLAPS

Extrinsics == [run : Runs, act : {"map", "approve", "fund"}, session : Sessions \cup {None}]

\* The parts of the invariant.  The types, the shape of the chain among them.
FundTypes ==
    /\ TypeOK
    /\ chain \in [mapped : BOOLEAN, allowance : Nat, balance : Nat,
                  payer : [Sessions -> Runs \cup {None}]]

\* What an extrinsic does at the place of the run that waits for it.
ActAt(place) ==
    CASE place = "mapping" -> "map" [] place = "approving" -> "approve" [] OTHER -> "fund"

\* An extrinsic that is neither applied nor dropped is the one that its run
\* waits for, or that it gave up to wait for, and pays what the run accepted.
IsAwaited(x) ==
    /\ x.session = quote[x.run]
    /\ \/ pc[x.run] = "failed"
       \/ pc[x.run] \in Waiting /\ answer[x.run] = "none" /\ x.act = ActAt(pc[x.run])
    /\ x.act # "map" => x.session \in Sessions /\ Accepts(x.run, x.session)

PoolIsAwaited ==
    /\ \A i \in 1..Len(pool) : IsAwaited(pool[i])
    /\ \A i, j \in 1..Len(pool) : pool[i].run = pool[j].run => i = j

\* A run goes on with a quote that it accepted.
QuoteIsAccepted(r) ==
    /\ pc[r] \in {"read", "approve", "approving", "fund", "funding"} =>
          quote[r] \in Sessions /\ Accepts(r, quote[r])
    /\ pc[r] \in {"readback", "paid"} => quote[r] \in Sessions

\* A payment that a block took is the run's own.
PaymentIsOwn(r) ==
    \/ pc[r] = "funding" /\ answer[r] = "inBlock"
    \/ pc[r] \in {"readback", "paid"}
    => chain.payer[quote[r]] = r

\* A run is about to pay when it has its approval, or needs none.
IsDue(r) ==
    \/ pc[r] = "fund"
    \/ pc[r] = "funding" /\ answer[r] = "none"
    \/ pc[r] = "approving" /\ answer[r] = "inBlock"

\* While nobody else changed the wallet, what a run read still holds.
ViewHolds(r) ==
    ~touched[r] =>
       /\ pc[r] = "mapping" /\ answer[r] = "none" => ~chain.mapped
       /\ IsDue(r) \/ pc[r] = "approve" \/ (pc[r] = "approving" /\ answer[r] = "none") =>
             /\ chain.balance >= AmountOf[quote[r]]
             /\ kind[r] \notin Helpers => chain.payer[quote[r]] = None
       /\ IsDue(r) => chain.allowance >= AmountOf[quote[r]]

\* The reasons for which the chain may refuse.
HasExcuse(r) ==
    \/ touched[r]
    \/ quote[r] \in expired
    \/ kind[r] \in Helpers /\ quote[r] # None /\ chain.payer[quote[r]] # None

RefusalHasExcuse(r) ==
    /\ pc[r] \in Waiting /\ answer[r] = "dispatchError" => HasExcuse(r)
    /\ reason[r] = "dispatchError" => pc[r] = "failed" /\ HasExcuse(r)

\* An allowance is to be spent by a run that is about to pay at least as much,
\* or a run has failed or is going to.
Fails(r) == pc[r] = "failed" \/ (pc[r] \in Waiting /\ answer[r] = "dispatchError")

ApprovalIsDue ==
    \/ chain.allowance = 0
    \/ \E r \in Runs : Fails(r)
    \/ \E r \in Runs : IsDue(r) /\ chain.allowance <= AmountOf[quote[r]]

RunIsSound(r) ==
    QuoteIsAccepted(r) /\ PaymentIsOwn(r) /\ ViewHolds(r) /\ RefusalHasExcuse(r)

FundInv ==
    /\ FundTypes
    /\ PoolIsAwaited
    /\ \A r \in Runs : RunIsSound(r)
    /\ ApprovalIsDue
    /\ PaysWhatItAskedFor

-------------------------------------------------------------------------------
Places ==
    Waiting \cup Ended \cup
    {"start", "map", "quote", "resume", "read", "approve", "fund", "readback"}

LEMMA FundTypesAre ==
    FundTypes <=>
        /\ kind \in [Runs -> Kinds]
        /\ pc \in [Runs -> Places]
        /\ quote \in [Runs -> Sessions \cup {None}]
        /\ answer \in [Runs -> {"none", "inBlock", "dispatchError"}]
        /\ reason \in [Runs -> {"none", "refused", "unanswered", "dispatchError"}]
        /\ touched \in [Runs -> BOOLEAN]
        /\ pool \in Seq(Extrinsics)
        /\ chain \in [mapped : BOOLEAN, allowance : Nat, balance : Nat,
                      payer : [Sessions -> Runs \cup {None}]]
        /\ intentQuote \in Sessions \cup {None}
        /\ expired \subseteq Sessions
BY DEF FundTypes, TypeOK, Places, Extrinsics

LEMMA FundInvInit == Init => FundInv
<1> SUFFICES ASSUME Init PROVE FundInv
  OBVIOUS
<1>1. FundTypes
  BY FundTypesAre, FundingConstants
  DEF Init, FundingConstants, Places, Waiting, Ended, Extrinsics
<1>2. PoolIsAwaited
  BY DEF Init, PoolIsAwaited
<1>3. ASSUME NEW r \in Runs PROVE RunIsSound(r)
  BY DEF Init, RunIsSound, QuoteIsAccepted, PaymentIsOwn, ViewHolds, RefusalHasExcuse, IsDue,
         Waiting
<1>4. ApprovalIsDue /\ PaysWhatItAskedFor
  BY FundingConstants DEF Init, ApprovalIsDue, PaysWhatItAskedFor, FundingConstants
<1> QED
  BY <1>1, <1>2, <1>3, <1>4 DEF FundInv

-------------------------------------------------------------------------------
LEMMA PoolEntries ==
    ASSUME FundInv
    PROVE  /\ pool \in Seq(Extrinsics)
           /\ \A i \in 1..Len(pool) : /\ pool[i] \in Extrinsics
                                      /\ pool[i].run \in Runs /\ IsAwaited(pool[i])
<1>1. pool \in Seq(Extrinsics)
  BY FundTypesAre DEF FundInv
<1>2. \A i \in 1..Len(pool) : pool[i] \in Extrinsics
  BY <1>1
<1> QED
  BY <1>1, <1>2 DEF FundInv, PoolIsAwaited, Extrinsics

\* The pool holds nothing of a run that waits for nothing and has not failed.
LEMMA NothingIsSent ==
    ASSUME FundInv, NEW r \in Runs,
           pc[r] \notin Waiting \/ answer[r] # "none", pc[r] # "failed"
    PROVE  \A i \in 1..Len(pool) : pool[i].run # r
BY DEF FundInv, PoolIsAwaited, IsAwaited

\* A step of one run that leaves the chain and the pool alone: what is left to
\* show for it is what is listed here.
LEMMA StepOfOneRun ==
    ASSUME FundInv, NEW r \in Runs,
           UNCHANGED <<kind, pool, chain, expired>>,
           pc' \in [Runs -> Places],
           quote' \in [Runs -> Sessions \cup {None}],
           answer' = answer,
           reason' \in [Runs -> {"none", "refused", "unanswered", "dispatchError"}],
           touched' \in [Runs -> BOOLEAN],
           intentQuote' \in Sessions \cup {None},
           \A q \in Runs : q # r => /\ pc'[q] = pc[q] /\ quote'[q] = quote[q]
                                    /\ reason'[q] = reason[q] /\ touched'[q] = touched[q],
           \/ \A i \in 1..Len(pool) : pool[i].run # r
           \/ pc'[r] = "failed" /\ quote'[r] = quote[r],
           RunIsSound(r)',
           IsDue(r) => Fails(r)' \/ (IsDue(r)' /\ quote'[r] = quote[r]),
           Fails(r) => Fails(r)'
    PROVE  FundInv'
<1>1. FundTypes'
  <2>1. FundTypes
    BY DEF FundInv
  <2> QED
    BY <2>1, FundTypesAre DEF FundTypes, TypeOK, Places, Extrinsics
<1>2. PoolIsAwaited'
  <2>1. ASSUME NEW i \in 1..Len(pool) PROVE IsAwaited(pool[i])'
    <3>1. IsAwaited(pool[i])
      BY DEF FundInv, PoolIsAwaited
    <3>2. pool[i].run \in Runs
      BY PoolEntries
    <3>3. CASE pool[i].run # r
      BY <3>1, <3>2, <3>3 DEF IsAwaited, Accepts, Matches
    <3>4. CASE pool[i].run = r
      BY <3>1, <3>4 DEF IsAwaited, Accepts, Matches
    <3> QED
      BY <3>3, <3>4
  <2> QED
    BY <2>1 DEF PoolIsAwaited, FundInv
<1>3. ASSUME NEW q \in Runs, q # r PROVE RunIsSound(q)' /\ (IsDue(q) => IsDue(q)')
                                      /\ (Fails(q) => Fails(q)')
  <2>1. RunIsSound(q)
    BY DEF FundInv
  <2> QED
    BY <1>3, <2>1
    DEF RunIsSound, QuoteIsAccepted, PaymentIsOwn, ViewHolds, RefusalHasExcuse, HasExcuse, IsDue,
        Fails, Accepts, Matches
<1>4. ApprovalIsDue'
  <2>1. CASE chain.allowance = 0
    BY <2>1 DEF ApprovalIsDue
  <2>2. CASE \E q \in Runs : Fails(q)
    BY <1>3, <2>2 DEF ApprovalIsDue
  <2>3. ASSUME NEW q \in Runs, IsDue(q), chain.allowance <= AmountOf[quote[q]]
        PROVE  ApprovalIsDue'
    <3>1. Fails(q)' \/ (IsDue(q)' /\ quote'[q] = quote[q])
      BY <1>3, <2>3
    <3> QED
      BY <2>3, <3>1 DEF ApprovalIsDue
  <2> QED
    BY <2>1, <2>2, <2>3 DEF FundInv, ApprovalIsDue
<1> QED
  BY <1>1, <1>2, <1>3, <1>4 DEF FundInv, PaysWhatItAskedFor

\* Whatever a run was doing, it may fail: with a dispatch error only when it was
\* told of one.
LEMMA FailingKeeps ==
    ASSUME FundInv, NEW r \in Runs, NEW why \in {"refused", "unanswered", "dispatchError"},
           pc[r] # "failed", Fail(r, why),
           why = "dispatchError" => pc[r] \in Waiting /\ answer[r] = "dispatchError",
           UNCHANGED <<kind, quote, answer, touched, pool, chain, relayVars>>
    PROVE  FundInv'
<1>1. /\ pc \in [Runs -> Places] /\ quote \in [Runs -> Sessions \cup {None}]
      /\ answer \in [Runs -> {"none", "inBlock", "dispatchError"}]
      /\ reason \in [Runs -> {"none", "refused", "unanswered", "dispatchError"}]
      /\ touched \in [Runs -> BOOLEAN] /\ intentQuote \in Sessions \cup {None}
  BY FundTypesAre DEF FundInv
<1>2. /\ pc' = [pc EXCEPT ![r] = "failed"] /\ reason' = [reason EXCEPT ![r] = why]
      /\ UNCHANGED <<kind, quote, answer, touched, pool, chain, intentQuote, expired>>
  BY DEF Fail, Goto, relayVars
<1>3. /\ pc'[r] = "failed" /\ reason'[r] = why
      /\ pc' \in [Runs -> Places]
      /\ reason' \in [Runs -> {"none", "refused", "unanswered", "dispatchError"}]
      /\ \A q \in Runs : q # r => pc'[q] = pc[q] /\ reason'[q] = reason[q]
  BY <1>1, <1>2 DEF Places, Ended
<1>4. RunIsSound(r)'
  BY <1>2, <1>3
  DEF FundInv, RunIsSound, QuoteIsAccepted, PaymentIsOwn, ViewHolds, RefusalHasExcuse, HasExcuse,
      IsDue, Waiting
<1>5. Fails(r)'
  BY <1>3 DEF Fails
<1> QED
  BY <1>1, <1>2, <1>3, <1>4, <1>5, StepOfOneRun

\* A run goes on before it has a quote, or to its end.
LEMMA MovingKeeps ==
    ASSUME FundInv, NEW r \in Runs, NEW place,
           Goto(r, place), UNCHANGED <<kind, quote, answer, reason, touched, pool, chain, relayVars>>,
           \/ /\ pc[r] \in {"start", "map", "quote"}
              /\ place \in {"map", "quote", "resume"}
           \/ /\ pc[r] \in Waiting /\ answer[r] = "inBlock" /\ place = After(r)
           \/ /\ pc[r] = "readback" /\ place = "paid"
    PROVE  FundInv'
<1>1. /\ pc \in [Runs -> Places] /\ quote \in [Runs -> Sessions \cup {None}]
      /\ answer \in [Runs -> {"none", "inBlock", "dispatchError"}]
      /\ reason \in [Runs -> {"none", "refused", "unanswered", "dispatchError"}]
      /\ touched \in [Runs -> BOOLEAN] /\ intentQuote \in Sessions \cup {None}
      /\ RunIsSound(r)
  BY FundTypesAre DEF FundInv
<1>2. /\ pc' = [pc EXCEPT ![r] = place]
      /\ UNCHANGED <<kind, quote, answer, reason, touched, pool, chain, intentQuote, expired>>
  BY DEF Goto, relayVars
<1>3. \/ pc[r] \in {"start", "map", "quote"} /\ place \in {"map", "quote", "resume"}
      \/ pc[r] = "mapping" /\ answer[r] = "inBlock" /\ place = "quote"
      \/ pc[r] = "approving" /\ answer[r] = "inBlock" /\ place = "fund"
      \/ pc[r] = "funding" /\ answer[r] = "inBlock" /\ place \in {"readback", "paid"}
      \/ pc[r] = "readback" /\ place = "paid"
  BY DEF After, Waiting
<1>4. /\ pc'[r] = place /\ pc' \in [Runs -> Places]
      /\ \A q \in Runs : q # r => pc'[q] = pc[q]
  BY <1>1, <1>2, <1>3 DEF Places, Ended, Waiting
<1>5. \A i \in 1..Len(pool) : pool[i].run # r
  BY <1>3, NothingIsSent DEF Waiting
<1>6. RunIsSound(r)'
  BY <1>1, <1>2, <1>3, <1>4
  DEF RunIsSound, QuoteIsAccepted, PaymentIsOwn, ViewHolds, RefusalHasExcuse, HasExcuse,
      IsDue, Waiting, Accepts, Matches
<1>7. (IsDue(r) => IsDue(r)') /\ ~Fails(r)
  BY <1>2, <1>3, <1>4 DEF IsDue, Fails, Waiting
<1> QED
  BY <1>1, <1>2, <1>4, <1>5, <1>6, <1>7, StepOfOneRun

LEMMA TakingKeeps ==
    ASSUME FundInv, NEW r \in Runs, NEW s \in Sessions, pc[r] \in {"quote", "resume"},
           TakeQuote(r, s), intentQuote' \in Sessions \cup {None}
    PROVE  FundInv'
<1>1. /\ pc \in [Runs -> Places] /\ quote \in [Runs -> Sessions \cup {None}]
      /\ answer \in [Runs -> {"none", "inBlock", "dispatchError"}]
      /\ reason \in [Runs -> {"none", "refused", "unanswered", "dispatchError"}]
      /\ touched \in [Runs -> BOOLEAN]
      /\ RunIsSound(r)
  BY FundTypesAre DEF FundInv
<1>2. /\ quote' = [quote EXCEPT ![r] = s]
      /\ \/ /\ Accepts(r, s) /\ pc' = [pc EXCEPT ![r] = "read"] /\ reason' = reason
         \/ /\ pc' = [pc EXCEPT ![r] = "failed"]
            /\ reason' = [reason EXCEPT ![r] = "refused"]
      /\ UNCHANGED <<kind, answer, touched, pool, chain, expired>>
  BY DEF TakeQuote, Fail, Goto
<1>3. /\ quote'[r] = s
      /\ \/ Accepts(r, s) /\ pc'[r] = "read" /\ reason'[r] = reason[r]
         \/ pc'[r] = "failed" /\ reason'[r] = "refused"
      /\ pc' \in [Runs -> Places] /\ quote' \in [Runs -> Sessions \cup {None}]
      /\ reason' \in [Runs -> {"none", "refused", "unanswered", "dispatchError"}]
      /\ \A q \in Runs : q # r => pc'[q] = pc[q] /\ quote'[q] = quote[q] /\ reason'[q] = reason[q]
  BY <1>1, <1>2 DEF Places, Ended
<1>4. \A i \in 1..Len(pool) : pool[i].run # r
  BY NothingIsSent DEF Waiting
<1>5. RunIsSound(r)'
  BY <1>1, <1>2, <1>3
  DEF RunIsSound, QuoteIsAccepted, PaymentIsOwn, ViewHolds, RefusalHasExcuse,
      IsDue, Waiting, Accepts, Matches
<1>6. ~IsDue(r) /\ ~Fails(r)
  BY DEF IsDue, Fails, Waiting
<1> QED
  BY <1>1, <1>2, <1>3, <1>4, <1>5, <1>6, StepOfOneRun

\* What the reading of balance, allowance and session tells.
LEMMA ReadingTells ==
    ASSUME FundInv, NEW r \in Runs, pc[r] = "read"
    PROVE  /\ AfterRead(r) \in {"already", "planned", "failed", "fund", "approve"}
           /\ AfterRead(r) \in {"fund", "approve"} =>
                 /\ chain.balance >= AmountOf[quote[r]]
                 /\ kind[r] \notin Helpers => chain.payer[quote[r]] = None
           /\ AfterRead(r) = "fund" => chain.allowance >= AmountOf[quote[r]]
<1>1. quote[r] \in Sessions
  BY DEF FundInv, RunIsSound, QuoteIsAccepted
<1>2. AmountOf[quote[r]] \in Nat /\ chain.balance \in Nat
  BY <1>1, FundTypesAre, FundingConstants DEF FundInv, FundingConstants
<1> QED
  BY <1>2 DEF AfterRead, HelperAfterRead, DirectAfterRead, Existing, Short, Covered

LEMMA ReadingKeeps ==
    ASSUME FundInv, NEW r \in Runs, ReadChain(r)
    PROVE  FundInv'
<1>1. /\ pc \in [Runs -> Places] /\ quote \in [Runs -> Sessions \cup {None}]
      /\ answer \in [Runs -> {"none", "inBlock", "dispatchError"}]
      /\ reason \in [Runs -> {"none", "refused", "unanswered", "dispatchError"}]
      /\ touched \in [Runs -> BOOLEAN] /\ intentQuote \in Sessions \cup {None}
      /\ RunIsSound(r) /\ pc[r] = "read"
  BY FundTypesAre DEF FundInv, ReadChain
<1>2. PICK place \in {"already", "planned", "failed", "fund", "approve"} :
         /\ place = AfterRead(r)
         /\ pc' = [pc EXCEPT ![r] = place]
         /\ reason' = IF place = "failed" THEN [reason EXCEPT ![r] = "refused"] ELSE reason
  BY <1>1, ReadingTells DEF ReadChain, Goto
<1>3. /\ touched' = [touched EXCEPT ![r] = FALSE]
      /\ UNCHANGED <<kind, quote, answer, pool, chain, intentQuote, expired>>
  BY DEF ReadChain, relayVars
<1>4. /\ pc'[r] = place /\ (reason'[r] = reason[r] \/ reason'[r] = "refused") /\ ~touched'[r]
      /\ pc' \in [Runs -> Places]
      /\ reason' \in [Runs -> {"none", "refused", "unanswered", "dispatchError"}]
      /\ touched' \in [Runs -> BOOLEAN]
      /\ \A q \in Runs : q # r => /\ pc'[q] = pc[q] /\ touched'[q] = touched[q]
                                  /\ reason'[q] = reason[q]
  BY <1>1, <1>2, <1>3 DEF Places, Ended
<1>5. \A i \in 1..Len(pool) : pool[i].run # r
  BY <1>1, NothingIsSent DEF Waiting
<1>6. RunIsSound(r)'
  BY <1>1, <1>2, <1>3, <1>4, ReadingTells
  DEF RunIsSound, QuoteIsAccepted, PaymentIsOwn, ViewHolds, RefusalHasExcuse,
      IsDue, Waiting, Accepts, Matches
<1>7. ~IsDue(r) /\ ~Fails(r)
  BY <1>1 DEF IsDue, Fails, Waiting
<1> QED
  BY <1>1, <1>3, <1>4, <1>5, <1>6, <1>7, StepOfOneRun

-------------------------------------------------------------------------------
\* A run sends the extrinsic of its place.
LEMMA SendingKeeps ==
    ASSUME FundInv, NEW r \in Runs, NEW act \in {"map", "approve", "fund"}, NEW place,
           Send(r, act), Goto(r, place),
           \/ /\ pc[r] = "map" /\ act = "map" /\ place = "mapping" /\ ~chain.mapped
              /\ touched' = [touched EXCEPT ![r] = FALSE]
           \/ /\ pc[r] = "approve" /\ act = "approve" /\ place = "approving"
              /\ UNCHANGED touched
           \/ /\ pc[r] = "fund" /\ act = "fund" /\ place = "funding"
              /\ UNCHANGED touched,
           UNCHANGED <<kind, quote, reason, chain, relayVars>>
    PROVE  FundInv'
<1>1. /\ kind \in [Runs -> Kinds]
      /\ pc \in [Runs -> Places] /\ quote \in [Runs -> Sessions \cup {None}]
      /\ answer \in [Runs -> {"none", "inBlock", "dispatchError"}]
      /\ reason \in [Runs -> {"none", "refused", "unanswered", "dispatchError"}]
      /\ touched \in [Runs -> BOOLEAN] /\ intentQuote \in Sessions \cup {None}
      /\ pool \in Seq(Extrinsics)
      /\ RunIsSound(r)
  BY FundTypesAre DEF FundInv
<1>2. /\ pc' = [pc EXCEPT ![r] = place] /\ answer' = [answer EXCEPT ![r] = "none"]
      /\ pool' = Append(pool, [run |-> r, act |-> act, session |-> quote[r]])
      /\ UNCHANGED <<kind, quote, reason, chain, intentQuote, expired>>
  BY DEF Send, Goto, relayVars
<1>3. /\ pc'[r] = place /\ answer'[r] = "none"
      /\ touched'[r] = touched[r] \/ (pc[r] = "map" /\ touched'[r] = FALSE)
      /\ pc' \in [Runs -> Places]
      /\ answer' \in [Runs -> {"none", "inBlock", "dispatchError"}]
      /\ touched' \in [Runs -> BOOLEAN]
      /\ \A q \in Runs : q # r => /\ pc'[q] = pc[q] /\ answer'[q] = answer[q]
                                  /\ touched'[q] = touched[q]
  BY <1>1, <1>2 DEF Places, Waiting
<1>4. PICK x \in Extrinsics :
         /\ x.run = r /\ x.act = act /\ x.session = quote[r]
         /\ pool' = Append(pool, x)
  BY <1>1, <1>2 DEF Extrinsics
<1>5. /\ pool' \in Seq(Extrinsics) /\ Len(pool') = Len(pool) + 1
      /\ pool'[Len(pool) + 1] = x
      /\ \A i \in 1..Len(pool) : pool'[i] = pool[i]
      /\ \A i \in 1..Len(pool') : i \in 1..Len(pool) \/ i = Len(pool) + 1
  BY <1>1, <1>4
<1>6. FundTypes'
  <2>1. FundTypes
    BY DEF FundInv
  <2> QED
    BY <1>2, <1>3, <1>5, <2>1, FundTypesAre DEF FundTypes, TypeOK, Places, Extrinsics
<1>7. \A i \in 1..Len(pool) : pool[i].run # r
  BY NothingIsSent DEF Waiting
<1>8. PoolIsAwaited'
  <2>1. ASSUME NEW i \in 1..Len(pool) PROVE IsAwaited(pool[i])'
    <3>1. IsAwaited(pool[i]) /\ pool[i].run \in Runs /\ pool[i].run # r
      BY PoolEntries, <1>7
    <3>2. pool'[i] = pool[i]
      BY <1>5
    <3> QED
      BY <1>2, <1>3, <3>1, <3>2 DEF IsAwaited, Accepts, Matches
  <2>2. IsAwaited(x)'
    BY <1>1, <1>2, <1>3, <1>4
    DEF IsAwaited, RunIsSound, QuoteIsAccepted, Accepts, Matches, ActAt, Waiting
  <2>3. ASSUME NEW i \in 1..Len(pool') PROVE IsAwaited(pool[i])'
    <3>1. CASE i \in 1..Len(pool)
      BY <2>1, <3>1
    <3>2. CASE i = Len(pool) + 1
      BY <1>5, <2>2, <3>2 DEF IsAwaited, Accepts, Matches
    <3> QED
      BY <1>5, <3>1, <3>2
  <2>4. \A i, j \in 1..Len(pool') : pool'[i].run = pool'[j].run => i = j
    BY <1>4, <1>5, <1>7 DEF FundInv, PoolIsAwaited
  <2> QED
    BY <2>3, <2>4 DEF PoolIsAwaited
<1>9. RunIsSound(r)'
  BY <1>1, <1>2, <1>3
  DEF RunIsSound, QuoteIsAccepted, PaymentIsOwn, ViewHolds, RefusalHasExcuse, IsDue, Waiting,
      Accepts, Matches
<1>10. ASSUME NEW q \in Runs, q # r
       PROVE  RunIsSound(q)' /\ (IsDue(q) => IsDue(q)') /\ (Fails(q) => Fails(q)')
  <2>1. RunIsSound(q)
    BY DEF FundInv
  <2> QED
    BY <1>2, <1>3, <1>10, <2>1
    DEF RunIsSound, QuoteIsAccepted, PaymentIsOwn, ViewHolds, RefusalHasExcuse, HasExcuse, IsDue,
        Fails, Accepts, Matches
<1>11. (IsDue(r) => IsDue(r)') /\ ~Fails(r)
  BY <1>3 DEF IsDue, Fails, Waiting
<1>12. ApprovalIsDue'
  BY <1>2, <1>10, <1>11 DEF FundInv, ApprovalIsDue
<1> QED
  BY <1>2, <1>6, <1>8, <1>9, <1>10, <1>12 DEF FundInv, PaysWhatItAskedFor

-------------------------------------------------------------------------------
Chains ==
    [mapped : BOOLEAN, allowance : Nat, balance : Nat, payer : [Sessions -> Runs \cup {None}]]

\* What an extrinsic does to the wallet.
LEMMA WhatIsApplied ==
    ASSUME FundInv, NEW x \in Extrinsics, Allowed(x), x.act # "map" => x.session \in Sessions
    PROVE  /\ Applied(x) \in Chains
           /\ x.act = "map" => /\ Applied(x).allowance = chain.allowance
                               /\ Applied(x).balance = chain.balance
                               /\ Applied(x).payer = chain.payer
           /\ x.act = "approve" => /\ Applied(x).allowance = AmountOf[x.session]
                                   /\ Applied(x).balance = chain.balance
                                   /\ Applied(x).payer = chain.payer
           /\ x.act = "fund" =>
                 /\ chain.payer[x.session] = None
                 /\ Applied(x).allowance = chain.allowance - AmountOf[x.session]
                 /\ chain.allowance >= AmountOf[x.session]
                 /\ Applied(x).payer = [chain.payer EXCEPT ![x.session] = x.run]
<1>1. chain \in Chains /\ x.run \in Runs /\ x.act \in {"map", "approve", "fund"}
  BY FundTypesAre DEF FundInv, Chains, Extrinsics
<1>2. ASSUME x.act # "map" PROVE AmountOf[x.session] \in Nat
  BY <1>2, FundingConstants DEF FundingConstants
<1>3. CASE x.act = "map"
  BY <1>1, <1>3 DEF Applied, Chains
<1>4. CASE x.act = "approve"
  BY <1>1, <1>2, <1>4 DEF Applied, ApproveAmount, Chains
<1>5. CASE x.act = "fund"
  <2>1. /\ chain.payer[x.session] = None /\ chain.allowance >= AmountOf[x.session]
        /\ chain.balance >= AmountOf[x.session]
    BY <1>5 DEF Allowed
  <2>2. Applied(x) = [chain EXCEPT !.allowance = @ - AmountOf[x.session],
                                   !.balance = @ - AmountOf[x.session],
                                   !.payer[x.session] = x.run]
    BY <1>5 DEF Applied
  <2>3. /\ Applied(x).allowance = chain.allowance - AmountOf[x.session]
        /\ Applied(x).payer = [chain.payer EXCEPT ![x.session] = x.run]
        /\ Applied(x) = [mapped |-> chain.mapped,
                         allowance |-> chain.allowance - AmountOf[x.session],
                         balance |-> chain.balance - AmountOf[x.session],
                         payer |-> [chain.payer EXCEPT ![x.session] = x.run]]
    BY <1>1, <2>2 DEF Chains
  <2>4. /\ chain.allowance - AmountOf[x.session] \in Nat
        /\ chain.balance - AmountOf[x.session] \in Nat
    BY <1>1, <1>2, <1>5, <2>1 DEF Chains
  <2>5. [chain.payer EXCEPT ![x.session] = x.run] \in [Sessions -> Runs \cup {None}]
    BY <1>1 DEF Chains
  <2> QED
    BY <1>1, <1>5, <2>1, <2>3, <2>4, <2>5 DEF Chains
<1> QED
  BY <1>1, <1>3, <1>4, <1>5


\* What is known when a block takes the first extrinsic of the pool.
LEMMA HeadOfPool ==
    ASSUME FundInv, pool # <<>>
    PROVE  /\ Head(pool) \in Extrinsics /\ Head(pool).run \in Runs /\ IsAwaited(Head(pool))
           /\ Tail(pool) \in Seq(Extrinsics)
           /\ \A i \in 1..Len(Tail(pool)) :
                 /\ i + 1 \in 1..Len(pool) /\ Tail(pool)[i] = pool[i + 1]
                 /\ Tail(pool)[i].run # Head(pool).run
<1>1. pool \in Seq(Extrinsics) /\ 1 \in 1..Len(pool) /\ Head(pool) = pool[1]
  BY PoolEntries
<1>2. /\ Tail(pool) \in Seq(Extrinsics)
      /\ \A i \in 1..Len(Tail(pool)) : i + 1 \in 1..Len(pool) /\ Tail(pool)[i] = pool[i + 1]
  BY <1>1
<1>3. \A i \in 1..Len(pool) : pool[i].run = pool[1].run => i = 1
  BY <1>1 DEF FundInv, PoolIsAwaited
<1> QED
  BY <1>1, <1>2, <1>3, PoolEntries

\* The wallet refuses what a run sent only for one of the reasons.
LEMMA RefusedForAReason ==
    ASSUME FundInv, NEW x \in Extrinsics, IsAwaited(x), ~Allowed(x), pc[x.run] # "failed"
    PROVE  HasExcuse(x.run)
<1> DEFINE r == x.run
<1>1. r \in Runs /\ x.session = quote[r] /\ x.act \in {"map", "approve", "fund"}
  BY DEF Extrinsics, IsAwaited
<1>2. pc[r] \in Waiting /\ answer[r] = "none" /\ x.act = ActAt(pc[r])
  BY DEF IsAwaited
<1>3. RunIsSound(r)
  BY <1>1 DEF FundInv
<1> HIDE DEF r
<1>4. CASE x.act = "map"
  <2>1. pc[r] = "mapping" /\ chain.mapped
    BY <1>2, <1>4 DEF ActAt, Allowed, Waiting
  <2> QED
    BY <1>2, <1>3, <2>1 DEF RunIsSound, ViewHolds, HasExcuse, r
<1>5. CASE x.act = "fund"
  <2>1. pc[r] = "funding" /\ quote[r] \in Sessions
    BY <1>1, <1>2, <1>3, <1>5 DEF ActAt, Waiting, RunIsSound, QuoteIsAccepted
  <2>2. \/ quote[r] \in expired \/ chain.payer[quote[r]] # None
        \/ ~(chain.allowance >= AmountOf[quote[r]]) \/ ~(chain.balance >= AmountOf[quote[r]])
    BY <1>1, <1>5 DEF Allowed
  <2>3. quote[r] # None
    BY <2>1, FundingConstants DEF FundingConstants
  <2> QED
    BY <1>2, <1>3, <2>1, <2>2, <2>3 DEF RunIsSound, ViewHolds, IsDue, HasExcuse, r
<1> QED
  BY <1>1, <1>4, <1>5 DEF Allowed


\* What a block does to the pool, to the answers and to what the runs read.
LEMMA BlockTells ==
    ASSUME FundInv, Include
    PROVE  \E x \in Extrinsics, ok \in BOOLEAN :
              /\ IsAwaited(x) /\ x.run \in Runs /\ (ok <=> Allowed(x))
              /\ chain' = IF ok THEN Applied(x) ELSE chain
              /\ answer' \in [Runs -> {"none", "inBlock", "dispatchError"}]
              /\ answer'[x.run] = IF ok THEN "inBlock" ELSE "dispatchError"
              /\ touched' \in [Runs -> BOOLEAN]
              /\ touched'[x.run] = touched[x.run]
              /\ \A q \in Runs : q # x.run =>
                    answer'[q] = answer[q] /\ touched'[q] = (touched[q] \/ ok)
              /\ pool' \in Seq(Extrinsics)
              /\ \A i \in 1..Len(pool') : /\ i + 1 \in 1..Len(pool) /\ pool'[i] = pool[i + 1]
                                         /\ pool'[i].run # x.run
              /\ UNCHANGED <<kind, pc, quote, reason, intentQuote, expired>>
<1>1. /\ answer \in [Runs -> {"none", "inBlock", "dispatchError"}]
      /\ touched \in [Runs -> BOOLEAN]
  BY FundTypesAre DEF FundInv
<1>2. PICK x \in Extrinsics :
         /\ x = Head(pool) /\ x.run \in Runs /\ IsAwaited(x)
         /\ pool' = Tail(pool)
         /\ chain' = IF Allowed(x) THEN Applied(x) ELSE chain
         /\ answer' = [answer EXCEPT ![x.run] = IF Allowed(x) THEN "inBlock" ELSE "dispatchError"]
         /\ touched' = [r \in Runs |-> touched[r] \/ (r # x.run /\ Allowed(x))]
  BY HeadOfPool DEF Include
<1>3. UNCHANGED <<kind, pc, quote, reason, intentQuote, expired>>
  BY DEF Include, relayVars
<1>4. PICK ok \in BOOLEAN : ok <=> Allowed(x)
  OBVIOUS
<1>5. /\ pool' \in Seq(Extrinsics)
      /\ \A i \in 1..Len(pool') : /\ i + 1 \in 1..Len(pool) /\ pool'[i] = pool[i + 1]
                                 /\ pool'[i].run # x.run
  BY <1>2, HeadOfPool DEF Include
<1>6. /\ answer' \in [Runs -> {"none", "inBlock", "dispatchError"}]
      /\ answer'[x.run] = IF ok THEN "inBlock" ELSE "dispatchError"
      /\ \A q \in Runs : q # x.run => answer'[q] = answer[q]
  BY <1>1, <1>2, <1>4
<1>7. /\ touched' \in [Runs -> BOOLEAN] /\ touched'[x.run] = touched[x.run]
      /\ \A q \in Runs : q # x.run => touched'[q] = (touched[q] \/ ok)
  BY <1>1, <1>2, <1>4
<1> QED
  BY <1>2, <1>3, <1>4, <1>5, <1>6, <1>7

LEMMA IncludeKeeps ==
    ASSUME FundInv, Include
    PROVE  FundInv'
<1>1. PICK x \in Extrinsics, ok \in BOOLEAN :
         /\ IsAwaited(x) /\ x.run \in Runs /\ (ok <=> Allowed(x))
         /\ chain' = IF ok THEN Applied(x) ELSE chain
         /\ answer' \in [Runs -> {"none", "inBlock", "dispatchError"}]
         /\ answer'[x.run] = IF ok THEN "inBlock" ELSE "dispatchError"
         /\ touched' \in [Runs -> BOOLEAN]
         /\ touched'[x.run] = touched[x.run]
         /\ \A q \in Runs : q # x.run =>
               answer'[q] = answer[q] /\ touched'[q] = (touched[q] \/ ok)
         /\ pool' \in Seq(Extrinsics)
         /\ \A i \in 1..Len(pool') : /\ i + 1 \in 1..Len(pool) /\ pool'[i] = pool[i + 1]
                                    /\ pool'[i].run # x.run
         /\ UNCHANGED <<kind, pc, quote, reason, intentQuote, expired>>
  BY BlockTells
<1>2. /\ chain \in Chains /\ chain' \in Chains
      /\ x.act \in {"map", "approve", "fund"} /\ x.session = quote[x.run]
      /\ x.act # "map" => x.session \in Sessions /\ Accepts(x.run, x.session)
  BY <1>1, WhatIsApplied, FundTypesAre DEF IsAwaited, FundInv, Chains, Extrinsics
<1>3. \/ pc[x.run] = "failed"
      \/ pc[x.run] = "mapping" /\ answer[x.run] = "none" /\ x.act = "map"
      \/ pc[x.run] = "approving" /\ answer[x.run] = "none" /\ x.act = "approve"
      \/ pc[x.run] = "funding" /\ answer[x.run] = "none" /\ x.act = "fund"
  BY <1>1 DEF IsAwaited, ActAt, Waiting
\* The allowance changes by approvals and payments only, and nobody pays twice.
<1>4. /\ x.act = "map" \/ ~ok => chain'.allowance = chain.allowance /\ chain'.payer = chain.payer
      /\ x.act # "fund" \/ ~ok => chain'.balance = chain.balance /\ chain'.payer = chain.payer
      /\ x.act = "approve" /\ ok => chain'.allowance = AmountOf[x.session]
      /\ x.act = "fund" /\ ok =>
            /\ chain.payer[x.session] = None
            /\ chain'.allowance = chain.allowance - AmountOf[x.session]
            /\ chain.allowance >= AmountOf[x.session]
            /\ chain'.payer = [chain.payer EXCEPT ![x.session] = x.run]
  BY <1>1, <1>2, WhatIsApplied
<1>5. \A s \in Sessions :
         /\ chain.payer[s] # None => chain'.payer[s] = chain.payer[s]
         /\ chain'.payer[s] # chain.payer[s] =>
               x.act = "fund" /\ ok /\ s = x.session /\ chain'.payer[s] = x.run
  BY <1>2, <1>4 DEF Chains
<1>6. FundTypes'
  <2>1. FundTypes
    BY DEF FundInv
  <2> QED
    BY <1>1, <1>2, <2>1, FundTypesAre DEF FundTypes, TypeOK, Places, Extrinsics, Chains
<1>7. PoolIsAwaited'
  <2>1. ASSUME NEW i \in 1..Len(pool') PROVE IsAwaited(pool[i])'
    <3>1. /\ pool'[i] = pool[i + 1] /\ IsAwaited(pool[i + 1]) /\ pool[i + 1].run \in Runs
          /\ pool[i + 1].run # x.run
      BY <1>1, PoolEntries
    <3> QED
      BY <1>1, <3>1 DEF IsAwaited, Accepts, Matches
  <2>2. ASSUME NEW i \in 1..Len(pool'), NEW j \in 1..Len(pool'), pool'[i].run = pool'[j].run
        PROVE  i = j
    <3>1. i + 1 = j + 1
      BY <1>1, <2>2 DEF FundInv, PoolIsAwaited
    <3> QED
      BY <3>1
  <2> QED
    BY <2>1, <2>2 DEF PoolIsAwaited
<1>8. ASSUME NEW q \in Runs PROVE /\ chain.payer[quote[q]] = q /\ quote[q] \in Sessions =>
                                         chain'.payer[quote[q]] = q
                                  /\ HasExcuse(q) => HasExcuse(q)'
                                  /\ IsDue(q) => quote[q] \in Sessions
                                  /\ pc[q] \in {"readback", "paid", "funding"} => quote[q] \in Sessions
  <2>1. q # None /\ quote[q] \in Sessions \cup {None}
    BY FundTypesAre, FundingConstants DEF FundInv, FundingConstants
  <2>2. touched[q] => touched'[q]
    BY <1>1
  <2> QED
    BY <1>1, <1>5, <2>1, <2>2
    DEF HasExcuse, FundInv, RunIsSound, QuoteIsAccepted, IsDue
<1>9. ASSUME NEW q \in Runs, q # x.run
      PROVE  RunIsSound(q)' /\ (IsDue(q) => IsDue(q)') /\ (Fails(q) => Fails(q)')
  <2>1. RunIsSound(q)
    BY DEF FundInv
  <2>2. ViewHolds(q)'
    <3>1. CASE ok
      BY <1>1, <1>9, <3>1 DEF ViewHolds
    <3>2. CASE ~ok
      BY <1>1, <1>9, <2>1, <3>2 DEF RunIsSound, ViewHolds, IsDue
    <3> QED
      BY <3>1, <3>2
  <2>3. QuoteIsAccepted(q)' /\ PaymentIsOwn(q)' /\ RefusalHasExcuse(q)'
    BY <1>1, <1>8, <1>9, <2>1
    DEF RunIsSound, QuoteIsAccepted, PaymentIsOwn, RefusalHasExcuse, Accepts, Matches
  <2> QED
    BY <1>1, <1>9, <2>2, <2>3 DEF RunIsSound, IsDue, Fails
<1>10. RunIsSound(x.run)' /\ (Fails(x.run) => Fails(x.run)')
  <2>1. RunIsSound(x.run)
    BY <1>1 DEF FundInv
  <2>2. ~ok /\ pc[x.run] # "failed" => HasExcuse(x.run)'
    BY <1>1, <1>8, RefusedForAReason
  <2>3. QuoteIsAccepted(x.run)' /\ RefusalHasExcuse(x.run)'
    BY <1>1, <1>3, <1>8, <2>1, <2>2
    DEF RunIsSound, QuoteIsAccepted, RefusalHasExcuse, Accepts, Matches, Waiting
  <2>4. PaymentIsOwn(x.run)'
    <3>1. CASE pc[x.run] = "funding"
      BY <1>1, <1>2, <1>3, <1>4, <3>1 DEF PaymentIsOwn, Chains
    <3>2. CASE pc[x.run] # "funding"
      BY <1>1, <1>3, <3>2 DEF PaymentIsOwn
    <3> QED
      BY <3>1, <3>2
  <2>5. ViewHolds(x.run)'
    <3>1. CASE pc[x.run] = "approving" /\ ok
      <4>1. AmountOf[x.session] \in Nat /\ x.act = "approve"
        BY <1>2, <1>3, <3>1, FundingConstants DEF FundingConstants
      <4> QED
        BY <1>1, <1>2, <1>3, <1>4, <2>1, <3>1, <4>1 DEF RunIsSound, ViewHolds, IsDue
    <3>2. CASE ~(pc[x.run] = "approving" /\ ok)
      BY <1>1, <1>3, <3>2 DEF ViewHolds, IsDue
    <3> QED
      BY <3>1, <3>2
  <2> QED
    BY <1>1, <1>3, <2>3, <2>4, <2>5 DEF RunIsSound, Fails, Waiting
<1>11. ApprovalIsDue'
  <2>1. CASE \E q \in Runs : Fails(q)
    BY <1>1, <1>9, <1>10, <2>1 DEF ApprovalIsDue
  <2>2. CASE ~ok /\ pc[x.run] # "failed"
    <3>1. Fails(x.run)'
      BY <1>1, <1>3, <2>2 DEF Fails, Waiting
    <3> QED
      BY <1>1, <3>1 DEF ApprovalIsDue
  <2>3. CASE ok /\ ~\E q \in Runs : Fails(q)
    <3>1. pc[x.run] # "failed"
      BY <1>1, <2>3 DEF Fails
    <3>2. CASE x.act = "map"
      <4>1. ~IsDue(x.run) /\ chain'.allowance = chain.allowance
        BY <1>3, <1>4, <3>1, <3>2 DEF IsDue
      <4> QED
        BY <1>1, <1>9, <2>3, <4>1 DEF FundInv, ApprovalIsDue
    <3>3. CASE x.act = "approve"
      <4>1. IsDue(x.run)' /\ chain'.allowance = AmountOf[quote'[x.run]]
        BY <1>1, <1>2, <1>3, <1>4, <2>3, <3>1, <3>3 DEF IsDue
      <4>2. AmountOf[quote'[x.run]] \in Nat
        BY <1>1, <1>2, <3>3, FundingConstants DEF FundingConstants
      <4> QED
        BY <1>1, <4>1, <4>2 DEF ApprovalIsDue
    <3>4. CASE x.act = "fund"
      <4>1. /\ AmountOf[x.session] \in Nat \ {0} /\ chain.allowance \in Nat
            /\ chain'.allowance = chain.allowance - AmountOf[x.session]
            /\ chain.allowance >= AmountOf[x.session]
        BY <1>2, <1>4, <2>3, <3>4, FundingConstants DEF FundingConstants, Chains
      <4>2. PICK q \in Runs : IsDue(q) /\ chain.allowance <= AmountOf[quote[q]]
        BY <2>3, <4>1 DEF FundInv, ApprovalIsDue
      <4>3. AmountOf[quote[q]] \in Nat
        BY <1>8, <4>2, FundingConstants DEF FundingConstants
      <4>4. CASE q = x.run
        BY <1>2, <4>1, <4>2, <4>4 DEF ApprovalIsDue
      <4>5. CASE q # x.run
        <5>1. IsDue(q)' /\ chain'.allowance <= AmountOf[quote'[q]]
          BY <1>1, <1>9, <4>1, <4>2, <4>3, <4>5
        <5> QED
          BY <5>1 DEF ApprovalIsDue
      <4> QED
        BY <4>4, <4>5
    <3> QED
      BY <1>2, <3>2, <3>3, <3>4
  <2> QED
    BY <1>1, <2>1, <2>2, <2>3 DEF Fails
<1>12. PaysWhatItAskedFor'
  BY <1>1, <1>2, <1>5 DEF FundInv, PaysWhatItAskedFor, Accepts, Matches
<1> QED
  BY <1>6, <1>7, <1>9, <1>10, <1>11, <1>12 DEF FundInv


LEMMA DropKeeps ==
    ASSUME FundInv, Drop
    PROVE  FundInv'
<1>1. /\ UNCHANGED <<kind, pc, quote, answer, reason, touched, chain, intentQuote, expired>>
      /\ pool' = SubSeq(pool, 1, Len(pool) - 1) /\ pool # <<>>
  BY DEF Drop, Front, relayVars
<1>2. /\ pool' \in Seq(Extrinsics)
      /\ \A i \in 1..Len(pool') : i \in 1..Len(pool) /\ pool'[i] = pool[i]
  BY <1>1, PoolEntries
<1>3. FundTypes'
  <2>1. FundTypes
    BY DEF FundInv
  <2> QED
    BY <1>1, <1>2, <2>1, FundTypesAre DEF FundTypes, TypeOK, Extrinsics
<1>4. PoolIsAwaited'
  <2>1. ASSUME NEW i \in 1..Len(pool') PROVE IsAwaited(pool[i])'
    BY <1>1, <1>2, PoolEntries DEF IsAwaited, Accepts, Matches
  <2> QED
    BY <1>2, <2>1 DEF PoolIsAwaited, FundInv
<1> QED
  BY <1>1, <1>3, <1>4
  DEF FundInv, RunIsSound, QuoteIsAccepted, PaymentIsOwn, ViewHolds, RefusalHasExcuse, HasExcuse,
      IsDue, Fails, ApprovalIsDue, PaysWhatItAskedFor, Accepts, Matches

LEMMA RelayKeeps ==
    ASSUME FundInv, LateQuote \/ Expire
    PROVE  FundInv'
<1>1. /\ UNCHANGED <<kind, pc, quote, answer, reason, touched, pool, chain>>
      /\ intentQuote' \in Sessions \cup {None} /\ expired \subseteq expired'
      /\ expired' \subseteq Sessions
  BY FundTypesAre DEF LateQuote, Expire, FundInv
<1>2. FundTypes'
  <2>1. FundTypes
    BY DEF FundInv
  <2> QED
    BY <1>1, <2>1 DEF FundTypes, TypeOK
<1>3. PoolIsAwaited'
  BY <1>1 DEF FundInv, PoolIsAwaited, IsAwaited, Accepts, Matches
<1> QED
  BY <1>1, <1>2, <1>3
  DEF FundInv, RunIsSound, QuoteIsAccepted, PaymentIsOwn, ViewHolds, RefusalHasExcuse, HasExcuse,
      IsDue, Fails, ApprovalIsDue, PaysWhatItAskedFor, Accepts, Matches

LEMMA StepKeeps ==
    ASSUME FundInv, NEW r \in Runs, Step(r)
    PROVE  FundInv'
<1>1. ASSUME GivesUp(r), pc[r] # "failed" PROVE FundInv'
  BY <1>1, FailingKeeps DEF GivesUp
<1>2. CASE BeginHelper(r) \/ BeginSubstrate(r) \/ BeginLedger(r)
  <2>1. PICK place \in {"map", "quote"} :
           /\ pc[r] = "start"
           /\ \/ /\ Goto(r, place)
                 /\ UNCHANGED <<kind, quote, answer, reason, touched, pool, chain, relayVars>>
              \/ GivesUp(r)
    BY <1>2 DEF BeginHelper, BeginSubstrate, BeginLedger, Begins
  <2> QED
    BY <1>1, <2>1, MovingKeeps
<1>3. CASE MapAccount(r)
  BY <1>3, MovingKeeps, SendingKeeps DEF MapAccount
<1>4. CASE Quoted(r)
  <2>1. PICK s \in Sessions :
           TakeQuote(r, s) /\ intentQuote' = IF kind[r] = "helper" THEN s ELSE intentQuote
    BY <1>4 DEF Quoted
  <2>2. intentQuote' \in Sessions \cup {None}
    BY <2>1, FundTypesAre DEF FundInv
  <2> QED
    BY <1>4, <2>1, <2>2, TakingKeeps DEF Quoted
<1>5. CASE QuoteTimesOut(r)
  BY <1>1, <1>5, MovingKeeps DEF QuoteTimesOut
<1>6. CASE QuoteRefused(r) \/ CannotSend(r)
  BY <1>1, <1>6 DEF QuoteRefused, CannotSend
<1>7. CASE ResumeQuote(r)
  <2>1. intentQuote \in Sessions /\ intentQuote' = intentQuote
    BY <1>7, FundTypesAre DEF ResumeQuote, Reusable, FundInv
  <2> QED
    BY <1>7, <2>1, TakingKeeps DEF ResumeQuote
<1>8. CASE ReadChain(r)
  BY <1>8, ReadingKeeps
<1>9. CASE SendApprove(r) \/ SendFund(r)
  BY <1>9, SendingKeeps DEF SendApprove, SendFund
<1>10. CASE Settles(r)
  BY <1>10, MovingKeeps, FailingKeeps DEF Settles, Waiting
<1>11. CASE TxTimesOut(r)
  BY <1>11, FailingKeeps DEF TxTimesOut, Waiting
<1>12. CASE Readback(r)
  BY <1>12, MovingKeeps, FailingKeeps DEF Readback
<1> QED
  BY <1>2, <1>3, <1>4, <1>5, <1>6, <1>7, <1>8, <1>9, <1>10, <1>11, <1>12 DEF Step

LEMMA FundInvNext == FundInv /\ [Next]_vars => FundInv'
<1> SUFFICES ASSUME FundInv, [Next]_vars PROVE FundInv'
  OBVIOUS
<1>1. CASE UNCHANGED vars
  BY <1>1
  DEF vars, FundInv, FundTypes, TypeOK, PoolIsAwaited, IsAwaited, RunIsSound, QuoteIsAccepted,
      PaymentIsOwn, ViewHolds, RefusalHasExcuse, HasExcuse, IsDue, Fails, ApprovalIsDue,
      PaysWhatItAskedFor, Accepts, Matches
<1> QED
  BY <1>1, StepKeeps, IncludeKeeps, DropKeeps, RelayKeeps DEF Next

LEMMA FundInvariance == Spec => []FundInv
BY FundInvInit, FundInvNext, PTL DEF Spec

-------------------------------------------------------------------------------
\* When all runs went well no run fails any more and none is about to pay.
LEMMA NothingIsLeft ==
    ASSUME FundInv PROVE ApprovalIsSpent
BY DEF FundInv, ApprovalIsDue, ApprovalIsSpent, Fails, IsDue, Ended, Waiting

\* What a run reports as paid it paid itself, whatever the other runs on the
\* wallet send, and in whichever order blocks take it.
THEOREM PaysItself == Spec => []PaidByItself
<1>1. FundInv => PaidByItself
  BY DEF FundInv, RunIsSound, PaymentIsOwn, PaidByItself
<1> QED
  BY <1>1, FundInvariance, PTL

\* Nothing above the cap and nothing that was not asked for is ever paid by the
\* helper or the script, by a run that gave up included.
THEOREM PaysAsAsked == Spec => []PaysWhatItAskedFor
<1>1. FundInv => PaysWhatItAskedFor
  BY DEF FundInv
<1> QED
  BY <1>1, FundInvariance, PTL

\* Runs that overlap and all go well leave no allowance: each approval is spent
\* by the run that is due to pay at least as much, or some run fails.
THEOREM NoAllowanceIsLeft == Spec => []ApprovalIsSpent
BY NothingIsLeft, FundInvariance, PTL

\* All that runs of the funding programs promise about one wallet.
THEOREM FundingIsSafe == Spec => []FundSafe
<1>1. FundInv => FundSafe
  BY NothingIsLeft
  DEF FundInv, FundTypes, RunIsSound, PaymentIsOwn, PaidByItself, RefusalHasExcuse, HasExcuse,
      RefusedOnlyIfTouched, FundSafe
<1> QED
  BY <1>1, FundInvariance, PTL

-------------------------------------------------------------------------------
(***************************************************************************)
(* The job that is funded                                                  *)
(***************************************************************************)

CargoPlaces == {"down", "ended"} \cup Preparing \cup Serving

CargoRecords == [at : CargoPlaces, boot : 0 .. MaxBoots, host : 1 .. NumHosts + 1]

DiskRecords ==
    [diag : DiagContents \cup {Absent, Torn}, cert : Pairs \cup {Absent},
     key : Pairs \cup {Absent}, saved : 0 .. MaxBoots]

TunnelRecords == [up : BOOLEAN, cert : Pairs \cup {Absent}, key : Pairs \cup {Absent}]

IntentRecords ==
    [funded : BOOLEAN, claimed : BOOLEAN, registered : BOOLEAN,
     admitted : {"no", "asked", "yes"}, health : HealthStates]

DoctorRecords ==
    [at : {"idle", "signs", "reads", "tears", "writes", "done", "failed"},
     read : DiagContents \cup {Absent}]

\* How far an entrypoint has come, by where it is.
PairPlaces == Serving \cup {"save"}

RegisteredPlaces ==
    PairPlaces \cup {"tell_registered", "tell_certificate", "order_challenge", "order",
                     "write_cert", "write_key"}

SignerPlaces == RegisteredPlaces \cup {"tell_registering", "challenge", "register"}

FundedPlaces == SignerPlaces \cup {"tell_config", "diag_signer", "diag_signer_write"}

LeftHosts == CargoPlaces \ (PairPlaces \cup {"down", "ended", "write_cert", "write_key"})

\* What the relay knows of a job that has come so far, and says of its health.
IntentIsSound(place, i) ==
    /\ place \in FundedPlaces => i.funded
    /\ place \in RegisteredPlaces => i.registered
    /\ place = "tell_ready" /\ pull => i.admitted # "no"
    /\ i.health \in {"config_received", "registering", "registered",
                     "certificate_requesting", "ready"} => i.funded
    /\ i.health \in {"registered", "certificate_requesting", "ready"} => i.registered
    /\ i.health = "ready" /\ pull => i.admitted # "no"

\* What this start has written to the disk; a start counts its hostnames.
DiskIsSound(c, d) ==
    /\ c.at # "down" => c.boot # 0
    /\ c.at \in LeftHosts => c.host <= NumHosts
    /\ jobAcme /\ c.at \in PairPlaces \cup {"write_key"} => d.cert = <<c.boot, 1>>
    /\ jobAcme /\ c.at \in PairPlaces => d.key = <<c.boot, 1>>
    /\ c.at \in Serving => d.saved = c.boot

\* stunnel runs only while an entrypoint serves that has started it.
TunnelIsSound(c, t) ==
    t.up =>
        /\ c.at \in Serving \ {"start"}
        /\ jobAcme => t.cert = t.key /\ t.cert = <<c.boot, 1>>

\* If writers of the diagnostic file never met: once the signer is known, the
\* file names it, or is being written by a doctor that read it there; a doctor
\* that read something else has another one beside it.
DiagIsSound(place) ==
    place \in SignerPlaces /\ ~overlap =>
        /\ disk.diag \in {"signer", Torn}
        /\ disk.diag = Torn => \E y \in Doctors : doctor[y].at = "writes"
        /\ \A x \in Doctors : Busy(x) =>
              doctor[x].read = "signer" \/ \E y \in Doctors \ {x} : Busy(y)

CargoTypes ==
    /\ cargo \in CargoRecords /\ disk \in DiskRecords /\ stunnel \in TunnelRecords
    /\ intent \in IntentRecords /\ doctor \in [Doctors -> DoctorRecords]
    /\ jobAcme \in BOOLEAN /\ pull \in BOOLEAN /\ overlap \in BOOLEAN

CargoInv ==
    /\ CargoTypes
    /\ IntentIsSound(cargo.at, intent)
    /\ DiskIsSound(cargo, disk)
    /\ TunnelIsSound(cargo, stunnel)
    /\ DiagIsSound(cargo.at)

LEMMA CargoInitInv == CargoInit => CargoInv
<1> SUFFICES ASSUME CargoInit PROVE CargoInv
  OBVIOUS
<1>1. /\ cargo = [at |-> "down", boot |-> 0, host |-> 1]
      /\ disk = [diag |-> Absent, cert |-> Absent, key |-> Absent, saved |-> 0]
      /\ stunnel = [up |-> FALSE, cert |-> Absent, key |-> Absent]
      /\ intent = [funded |-> FALSE, claimed |-> FALSE, registered |-> FALSE,
                   admitted |-> "no", health |-> "none"]
      /\ doctor = [x \in Doctors |-> [at |-> "idle", read |-> Absent]]
      /\ jobAcme \in BOOLEAN /\ pull \in BOOLEAN /\ overlap = FALSE
  BY DEF CargoInit, NoTunnel
<1>2. cargo \in CargoRecords
  BY <1>1, CargoOK DEF CargoRecords, CargoPlaces
<1>3. disk \in DiskRecords /\ stunnel \in TunnelRecords
  BY <1>1, CargoOK DEF DiskRecords, TunnelRecords
<1>4. intent \in IntentRecords
  BY <1>1 DEF IntentRecords, HealthStates
<1>5. doctor \in [Doctors -> DoctorRecords]
  BY <1>1 DEF DoctorRecords
<1>6. CargoTypes
  BY <1>1, <1>2, <1>3, <1>4, <1>5 DEF CargoTypes
<1>7. cargo.at = "down" /\ cargo.at \notin FundedPlaces \cup LeftHosts
  BY <1>1 DEF FundedPlaces, SignerPlaces, RegisteredPlaces, PairPlaces, Serving, LeftHosts
<1>8. IntentIsSound(cargo.at, intent)
  BY <1>1, <1>7 DEF IntentIsSound, FundedPlaces, SignerPlaces
<1>9. DiskIsSound(cargo, disk)
  BY <1>7 DEF DiskIsSound, FundedPlaces, SignerPlaces, RegisteredPlaces, PairPlaces
<1>10. TunnelIsSound(cargo, stunnel)
  BY <1>1 DEF TunnelIsSound
<1>11. DiagIsSound(cargo.at)
  BY <1>7 DEF DiagIsSound, FundedPlaces
<1> QED
  BY <1>6, <1>8, <1>9, <1>10, <1>11 DEF CargoInv

\* The entrypoint ends.
LEMMA StopsInv ==
    ASSUME CargoInv, Stops, UNCHANGED <<jobAcme, pull, doctor>>,
           NEW i \in IntentRecords, intent' = i, IntentIsSound("down", i),
           NEW d \in DiskRecords, disk' = d, overlap' \in BOOLEAN
    PROVE  CargoInv'
<1>1. PICK c : c = [cargo EXCEPT !.at = "down"]
  OBVIOUS
<1>2. cargo' = c /\ stunnel' = NoTunnel
  BY <1>1 DEF Stops, GoesTo
<1>3. c \in CargoRecords /\ c.at = "down"
  BY <1>1 DEF CargoInv, CargoTypes, CargoRecords, CargoPlaces
<1>4. "down" \notin FundedPlaces \cup LeftHosts
  BY DEF FundedPlaces, SignerPlaces, RegisteredPlaces, PairPlaces, Serving, LeftHosts
<1>5. NoTunnel \in TunnelRecords /\ NoTunnel.up = FALSE
  BY DEF NoTunnel, TunnelRecords
<1>6. CargoTypes'
  BY <1>2, <1>3, <1>5 DEF CargoInv, CargoTypes
<1>7. IntentIsSound(cargo.at, intent)'
  BY <1>2, <1>3 DEF IntentIsSound
<1>8. DiskIsSound(cargo, disk)'
  BY <1>2, <1>3, <1>4 DEF DiskIsSound, FundedPlaces, SignerPlaces, RegisteredPlaces, PairPlaces
<1>9. TunnelIsSound(cargo, stunnel)'
  BY <1>2, <1>5 DEF TunnelIsSound
<1>10. DiagIsSound(cargo.at)'
  BY <1>2, <1>3, <1>4 DEF DiagIsSound, FundedPlaces
<1> QED
  BY <1>6, <1>7, <1>8, <1>9, <1>10 DEF CargoInv

\* What the relay knew of a job before its end it knows after it.
LEMMA IntentStays ==
    ASSUME CargoInv, NEW i \in IntentRecords,
           i = intent
    PROVE  IntentIsSound("down", i)
  BY DEF CargoInv, IntentIsSound, FundedPlaces, SignerPlaces, RegisteredPlaces, PairPlaces, Serving

\* The entrypoint goes on, to a place that asks for no more than the one before
\* gave it, or what the relay has given it now.
LEMMA GoesInv ==
    ASSUME CargoInv, UNCHANGED <<jobAcme, pull, doctor, overlap, stunnel, disk>>,
           NEW c \in CargoRecords, cargo' = c, c.boot = cargo.boot,
           cargo.at # "down", c.at # "down", c.at # "write_key",
           c.at \in LeftHosts => c.host <= NumHosts,
           c.at \in PairPlaces => cargo.at \in PairPlaces \/ ~jobAcme,
           c.at \in Serving => cargo.at \in Serving,
           stunnel.up => c.at \in Serving \ {"start"},
           c.at \in SignerPlaces => cargo.at \in SignerPlaces,
           NEW i \in IntentRecords, intent' = i, IntentIsSound(c.at, i)
    PROVE  CargoInv'
<1>1. CargoTypes'
  BY DEF CargoInv, CargoTypes
<1>2. IntentIsSound(cargo.at, intent)'
  BY DEF IntentIsSound
<1>3. DiskIsSound(cargo, disk)'
  BY DEF CargoInv, DiskIsSound, CargoTypes
<1>4. TunnelIsSound(cargo, stunnel)'
  BY DEF CargoInv, TunnelIsSound
<1>5. DiagIsSound(cargo.at)'
  BY DEF CargoInv, DiagIsSound, Busy
<1> QED
  BY <1>1, <1>2, <1>3, <1>4, <1>5 DEF CargoInv

\* The same for a request, which is answered or ends the job.
LEMMA AsksInv ==
    ASSUME CargoInv, NEW from, NEW to, NEW effect, NEW how,
           Asks(from, to, effect, how), UNCHANGED <<jobAcme, pull, disk, doctor, overlap>>,
           from \notin {"down", "ended"}, to \in CargoPlaces \ {"down", "write_key"},
           to \in LeftHosts => from \in LeftHosts,
           to \in PairPlaces => from \in PairPlaces \/ ~jobAcme,
           to \in Serving => from \in Serving,
           from \in Serving => to \in Serving \ {"start"},
           to \in SignerPlaces => from \in SignerPlaces,
           effect \in IntentRecords,
           IntentIsSound(to, effect), IntentIsSound("down", effect)
    PROVE  CargoInv'
<1>1. cargo.at = from /\ intent \in IntentRecords /\ cargo \in CargoRecords
  BY DEF Asks, CargoInv, CargoTypes
<1>2. IntentIsSound("down", intent)
  BY <1>1, IntentStays
<1>3. intent' = intent \/ intent' = effect
  BY DEF Asks
<1>4. PICK i \in IntentRecords : i = intent'
  BY <1>1, <1>3
<1>5. IntentIsSound("down", i)
  BY <1>2, <1>3, <1>4
<1>6. CASE how = "answered"
  <2>1. GoesTo(to) /\ UNCHANGED stunnel /\ intent' = effect
    BY <1>6 DEF Asks
  <2>2. PICK c : c = [cargo EXCEPT !.at = to]
    OBVIOUS
  <2>3. c \in CargoRecords /\ c.at = to /\ c.boot = cargo.boot /\ c.host = cargo.host
    BY <1>1, <2>2 DEF CargoRecords
  <2>4. cargo' = c
    BY <2>1, <2>2 DEF GoesTo
  <2>5. to \in LeftHosts => c.host <= NumHosts
    BY <1>1, <2>3 DEF CargoInv, DiskIsSound
  <2>6. stunnel.up => to \in Serving \ {"start"}
    BY <1>1 DEF CargoInv, TunnelIsSound
  <2> QED
    BY <1>1, <2>1, <2>3, <2>4, <2>5, <2>6, GoesInv
<1>7. CASE how # "answered"
  <2>1. Stops
    BY <1>7 DEF Asks
  <2> QED
    BY <1>4, <1>5, <2>1, StopsInv DEF CargoInv, CargoTypes
<1> QED
  BY <1>6, <1>7

\* A step that the relay has no part in: it works, or it ends the job and leaves
\* the disk as it was, or torn.
LEMMA FailsInv ==
    ASSUME CargoInv, Stops, UNCHANGED <<jobAcme, pull, intent, doctor>>, overlap' \in BOOLEAN,
           disk' \in DiskRecords
    PROVE  CargoInv'
  BY StopsInv, IntentStays DEF CargoInv, CargoTypes

LEMMA InstallInv == ASSUME CargoInv, NEW works \in BOOLEAN, Install(works) PROVE CargoInv'
<1>1. PICK from \in {"install", "bridge"}, to \in {"bridge", "diag"} : Does(from, to, works)
  BY DEF Install
<1>2. UNCHANGED <<jobAcme, pull, disk, intent, doctor, overlap>>
  BY DEF Install
<1>3. CASE works
  <2>1. Asks(from, to, intent, "answered")
    BY <1>1, <1>2, <1>3 DEF Does, Asks
  <2>2. IntentIsSound("down", intent) /\ intent \in IntentRecords
    BY IntentStays DEF CargoInv, CargoTypes
  <2>3. IntentIsSound(to, intent)
    BY <2>2 DEF IntentIsSound, FundedPlaces, SignerPlaces, RegisteredPlaces, PairPlaces, Serving
  <2> QED
    BY <1>2, <2>1, <2>2, <2>3, AsksInv
       DEF CargoPlaces, Preparing, LeftHosts, PairPlaces, Serving, SignerPlaces, RegisteredPlaces
<1>4. CASE ~works
  BY <1>1, <1>2, <1>4, FailsInv DEF Does, CargoInv, CargoTypes
<1> QED
  BY <1>3, <1>4

LEMMA JobWritesDiagInv ==
    ASSUME CargoInv, NEW works \in BOOLEAN, JobWritesDiag(works) PROVE CargoInv'
<1>1. /\ overlap' = (overlap \/ \E x \in Doctors : Busy(x))
      /\ UNCHANGED <<jobAcme, pull, intent, doctor>>
      /\ cargo \in CargoRecords /\ disk \in DiskRecords /\ overlap \in BOOLEAN
      /\ stunnel \in TunnelRecords /\ intent \in IntentRecords
  BY DEF JobWritesDiag, CargoInv, CargoTypes
<1>2. PICK from \in {"diag", "diag_write", "diag_signer", "diag_signer_write"},
           to \in {"diag_write", "claim", "diag_signer_write", "tell_registering"} :
         /\ Does(from, to, works)
         /\ from = "diag" => to = "diag_write"
         /\ from = "diag_write" => to = "claim"
         /\ from = "diag_signer" => to = "diag_signer_write"
         /\ from = "diag_signer_write" => to = "tell_registering"
         /\ \E data \in DiagContents \cup {Torn} :
              /\ disk' = [disk EXCEPT !.diag = data]
              /\ works /\ from = "diag_signer_write" => data = "signer"
  BY DEF JobWritesDiag, DiagContents
<1>3. PICK data \in DiagContents \cup {Torn} :
         /\ disk' = [disk EXCEPT !.diag = data]
         /\ works /\ from = "diag_signer_write" => data = "signer"
  BY <1>2
<1>4. PICK d : d = [disk EXCEPT !.diag = data]
  OBVIOUS
<1>5. /\ d \in DiskRecords /\ d.diag = data /\ d.cert = disk.cert /\ d.key = disk.key
      /\ d.saved = disk.saved
  BY <1>1, <1>4 DEF DiskRecords
<1>6. disk' = d
  BY <1>3, <1>4
<1>7. overlap' \in BOOLEAN
  BY <1>1
<1>8. CASE ~works
  BY <1>1, <1>2, <1>5, <1>6, <1>7, <1>8, FailsInv DEF Does
<1>9. CASE works
  <2>1. cargo.at = from /\ GoesTo(to) /\ UNCHANGED stunnel
    BY <1>2, <1>9 DEF Does
  <2>2. PICK c : c = [cargo EXCEPT !.at = to]
    OBVIOUS
  <2>3. /\ c \in CargoRecords /\ c.at = to /\ c.boot = cargo.boot /\ c.host = cargo.host
        /\ cargo' = c
    BY <1>1, <2>1, <2>2 DEF CargoRecords, CargoPlaces, Preparing, GoesTo
  <2>4. from \in LeftHosts /\ from \notin PairPlaces /\ to \notin PairPlaces /\ to # "write_key"
    BY DEF LeftHosts, CargoPlaces, PairPlaces, Serving, Preparing
  <2>5. CargoTypes'
    BY <1>1, <1>5, <1>6, <1>7, <2>1, <2>3 DEF CargoInv, CargoTypes
  <2>6. IntentIsSound(cargo.at, intent)'
    <3>1. from \in FundedPlaces \/ to \notin FundedPlaces
      BY <1>2 DEF FundedPlaces, SignerPlaces, RegisteredPlaces, PairPlaces, Serving
    <3>2. to \notin RegisteredPlaces /\ to # "tell_ready"
      BY DEF RegisteredPlaces, PairPlaces, Serving
    <3> QED
      BY <1>1, <2>1, <2>3, <3>1, <3>2 DEF CargoInv, IntentIsSound
  <2>7. DiskIsSound(cargo, disk)'
    BY <1>1, <2>1, <2>3, <2>4 DEF CargoInv, DiskIsSound, PairPlaces
  <2>8. TunnelIsSound(cargo, stunnel)'
    BY <1>1, <2>1, <2>3, <2>4 DEF CargoInv, TunnelIsSound, PairPlaces
  <2>9. DiagIsSound(cargo.at)'
    <3>1. to \in SignerPlaces => from = "diag_signer_write"
      BY <1>2 DEF SignerPlaces, RegisteredPlaces, PairPlaces, Serving
    <3>2. from = "diag_signer_write" => d.diag = "signer" /\ d.diag # Torn
      BY <1>3, <1>5, <1>9, NoDiagOK DEF DiagContents
    <3>3. ~overlap' => \A x \in Doctors : ~Busy(x)'
      BY <1>1 DEF Busy
    <3> QED
      BY <1>6, <2>1, <2>3, <3>1, <3>2, <3>3 DEF DiagIsSound
  <2> QED
    BY <2>5, <2>6, <2>7, <2>8, <2>9 DEF CargoInv
<1> QED
  BY <1>8, <1>9

\* The certificate, its key and the state are written by the start they are of.
LEMMA WritesInv ==
    ASSUME CargoInv, NEW works \in BOOLEAN, WriteCert(works) \/ WriteKey(works) \/ SaveState(works)
    PROVE  CargoInv'
<1>1. /\ UNCHANGED <<jobAcme, pull, intent, doctor, overlap>>
      /\ cargo \in CargoRecords /\ disk \in DiskRecords /\ overlap \in BOOLEAN
      /\ stunnel \in TunnelRecords /\ intent \in IntentRecords
      /\ cargo.boot \in 0..MaxBoots
  BY DEF WriteCert, WriteKey, SaveState, CargoInv, CargoTypes, CargoRecords
<1>2. PICK from \in {"write_cert", "write_key", "save"} :
         cargo.at = from /\ (works => UNCHANGED stunnel)
  BY DEF WriteCert, WriteKey, SaveState, Does
<1>3. cargo.boot \in 1..MaxBoots
  BY <1>1, <1>2, CargoOK DEF CargoInv, DiskIsSound
<1>4. PICK pair \in Pairs : pair = <<cargo.boot, 1>>
  <2>1. 1 \in 1..NumHosts
    BY CargoOK
  <2>2. <<cargo.boot, 1>> \in Pairs
    BY <1>3, <2>1 DEF Pairs
  <2> QED
    BY <2>2
<1>5. CASE ~works
  BY <1>1, <1>5, FailsInv DEF WriteCert, WriteKey, SaveState, Does
<1>6. CASE works
  <2>1. PICK d \in DiskRecords, to \in {"write_key", "save", "start"} :
           /\ disk' = d /\ GoesTo(to) /\ d.diag = disk.diag
           /\ from = "write_cert" => to = "write_key" /\ d.cert = pair
           /\ from = "write_key" => to = "save" /\ d.cert = disk.cert /\ d.key = pair
           /\ from = "save" =>
                 to = "start" /\ d.cert = disk.cert /\ d.key = disk.key /\ d.saved = cargo.boot
    <3>1. CASE WriteCert(works)
      <4>1. PICK d : d = [disk EXCEPT !.cert = pair]
        OBVIOUS
      <4>2. d \in DiskRecords /\ d.diag = disk.diag /\ d.cert = pair
        BY <1>1, <4>1 DEF DiskRecords
      <4>3. disk' = d /\ GoesTo("write_key") /\ from = "write_cert"
        BY <1>2, <1>4, <1>6, <3>1, <4>1 DEF WriteCert, Does
      <4> QED
        BY <4>2, <4>3
    <3>2. CASE WriteKey(works)
      <4>1. PICK d : d = [disk EXCEPT !.key = pair]
        OBVIOUS
      <4>2. d \in DiskRecords /\ d.diag = disk.diag /\ d.cert = disk.cert /\ d.key = pair
        BY <1>1, <4>1 DEF DiskRecords
      <4>3. disk' = d /\ GoesTo("save") /\ from = "write_key"
        BY <1>2, <1>4, <1>6, <3>2, <4>1 DEF WriteKey, Does
      <4> QED
        BY <4>2, <4>3
    <3>3. CASE SaveState(works)
      <4>1. PICK d : d = [disk EXCEPT !.saved = cargo.boot]
        OBVIOUS
      <4>2. /\ d \in DiskRecords /\ d.diag = disk.diag /\ d.cert = disk.cert /\ d.key = disk.key
            /\ d.saved = cargo.boot
        BY <1>1, <4>1 DEF DiskRecords
      <4>3. disk' = d /\ GoesTo("start") /\ from = "save"
        BY <1>2, <1>6, <3>3, <4>1 DEF SaveState, Does
      <4> QED
        BY <4>2, <4>3
    <3> QED
      BY <3>1, <3>2, <3>3
  <2>2. PICK c : c = [cargo EXCEPT !.at = to]
    OBVIOUS
  <2>3. /\ c \in CargoRecords /\ c.at = to /\ c.boot = cargo.boot /\ cargo' = c
    BY <1>1, <2>1, <2>2 DEF CargoRecords, CargoPlaces, Preparing, Serving, GoesTo
  <2>4. CargoTypes'
    BY <1>1, <1>2, <1>6, <2>1, <2>3 DEF CargoInv, CargoTypes
  <2>5. IntentIsSound(cargo.at, intent)'
    <3>1. from \in RegisteredPlaces /\ from \in FundedPlaces /\ to # "tell_ready"
      BY DEF FundedPlaces, SignerPlaces, RegisteredPlaces, PairPlaces
    <3> QED
      BY <1>1, <1>2, <2>3, <3>1 DEF CargoInv, IntentIsSound
  <2>6. DiskIsSound(cargo, disk)'
    <3>1. to \notin LeftHosts
      BY DEF LeftHosts, PairPlaces, Serving
    <3>2. CASE from = "write_cert"
      BY <1>1, <1>2, <1>4, <2>1, <2>3, <3>1, <3>2 DEF CargoInv, DiskIsSound, PairPlaces, Serving
    <3>3. CASE from = "write_key"
      BY <1>1, <1>2, <1>4, <2>1, <2>3, <3>1, <3>3 DEF CargoInv, DiskIsSound, PairPlaces, Serving
    <3>4. CASE from = "save"
      BY <1>1, <1>2, <2>1, <2>3, <3>1, <3>4 DEF CargoInv, DiskIsSound, PairPlaces, Serving
    <3> QED
      BY <3>2, <3>3, <3>4
  <2>7. TunnelIsSound(cargo, stunnel)'
    BY <1>1, <1>2, <1>6, <2>3 DEF CargoInv, TunnelIsSound, Serving
  <2>8. DiagIsSound(cargo.at)'
    <3>1. from \in SignerPlaces
      BY DEF SignerPlaces, RegisteredPlaces, PairPlaces
    <3> QED
      BY <1>1, <1>2, <2>1, <2>3, <3>1 DEF CargoInv, DiagIsSound, Busy
  <2> QED
    BY <2>4, <2>5, <2>6, <2>7, <2>8 DEF CargoInv
<1> QED
  BY <1>5, <1>6

\* The relay's side of a request keeps what it knew; a health is told only where
\* what it says has happened.
LEMMA EffectIsSound ==
    ASSUME CargoInv, NEW effect \in IntentRecords, NEW to \in CargoPlaces,
           effect.funded = intent.funded,
           intent.registered => effect.registered,
           intent.admitted # "no" => effect.admitted # "no",
           to \in FundedPlaces => intent.funded,
           to \in RegisteredPlaces => effect.registered,
           to = "tell_ready" /\ pull => effect.admitted # "no",
           effect.health # intent.health =>
               /\ effect.health # "ready" \/ (pull => effect.admitted # "no")
               /\ effect.health \in {"registered", "certificate_requesting", "ready"} =>
                     effect.registered /\ intent.funded
               /\ effect.health \in {"config_received", "registering"} => intent.funded
    PROVE  IntentIsSound(to, effect) /\ IntentIsSound("down", effect)
<1>1. /\ intent.health \in {"config_received", "registering", "registered",
                            "certificate_requesting", "ready"} => intent.funded
      /\ intent.health \in {"registered", "certificate_requesting", "ready"} => intent.registered
      /\ intent.health = "ready" /\ pull => intent.admitted # "no"
  BY DEF CargoInv, IntentIsSound
<1>2. "down" \notin FundedPlaces /\ "down" \notin RegisteredPlaces
  BY DEF FundedPlaces, SignerPlaces, RegisteredPlaces, PairPlaces, Serving
<1> QED
  BY <1>1, <1>2 DEF IntentIsSound

\* What a job tells of its health: it stands where that is so.
LEMMA TellsInv ==
    ASSUME CargoInv, NEW from \in CargoPlaces, NEW to, NEW health \in HealthStates, NEW how,
           Tells(from, to, health, how), UNCHANGED <<jobAcme, pull, disk, doctor, overlap>>,
           from \notin {"down", "ended"}, to \in CargoPlaces \ {"down", "write_key"},
           to \in LeftHosts => from \in LeftHosts,
           to \in PairPlaces => from \in PairPlaces \/ ~jobAcme,
           to \in Serving => from \in Serving,
           from \in Serving => to \in Serving \ {"start"},
           to \in SignerPlaces => from \in SignerPlaces,
           to \in FundedPlaces => from \in FundedPlaces,
           to \in RegisteredPlaces => from \in RegisteredPlaces,
           to # "tell_ready",
           health = "ready" => from = "tell_ready",
           health \in {"registered", "certificate_requesting", "ready"} => from \in RegisteredPlaces,
           health \in {"config_received", "registering"} => from \in FundedPlaces
    PROVE  CargoInv'
<1>1. Asks(from, to, [intent EXCEPT !.health = health], how) /\ cargo.at = from
  BY DEF Tells, Asks
<1>2. PICK effect : effect = [intent EXCEPT !.health = health]
  OBVIOUS
<1>3. /\ effect \in IntentRecords /\ effect.funded = intent.funded
      /\ effect.registered = intent.registered /\ effect.admitted = intent.admitted
      /\ effect.health = health
  BY <1>2 DEF CargoInv, CargoTypes, IntentRecords
<1>4. RegisteredPlaces \subseteq FundedPlaces
  BY DEF FundedPlaces, SignerPlaces
<1>5. /\ from \in FundedPlaces => intent.funded
      /\ from \in RegisteredPlaces => intent.registered
      /\ from = "tell_ready" /\ pull => intent.admitted # "no"
  BY <1>1 DEF CargoInv, IntentIsSound
<1>6. IntentIsSound(to, effect) /\ IntentIsSound("down", effect)
  BY <1>3, <1>4, <1>5, EffectIsSound
<1> QED
  BY <1>1, <1>2, <1>3, <1>6, AsksInv

\* Other requests: they leave the health as it is.
LEMMA AsksOnlyInv ==
    ASSUME CargoInv, NEW from \in CargoPlaces, NEW to, NEW effect \in IntentRecords, NEW how,
           Asks(from, to, effect, how), UNCHANGED <<jobAcme, pull, disk, doctor, overlap>>,
           from \notin {"down", "ended"}, to \in CargoPlaces \ {"down", "write_key"},
           to \in LeftHosts => from \in LeftHosts,
           to \in PairPlaces => from \in PairPlaces \/ ~jobAcme,
           to \in Serving => from \in Serving,
           from \in Serving => to \in Serving \ {"start"},
           to \in SignerPlaces => from \in SignerPlaces,
           effect.health = intent.health, effect.funded = intent.funded,
           intent.registered => effect.registered,
           intent.admitted # "no" => effect.admitted # "no",
           to \in FundedPlaces => from \in FundedPlaces \/ intent.funded,
           to \in RegisteredPlaces => from \in RegisteredPlaces \/ effect.registered,
           to = "tell_ready" /\ pull => effect.admitted # "no"
    PROVE  CargoInv'
<1>1. cargo.at = from
  BY DEF Asks
<1>2. /\ from \in FundedPlaces => intent.funded
      /\ from \in RegisteredPlaces => intent.registered
  BY <1>1 DEF CargoInv, IntentIsSound
<1>3. IntentIsSound(to, effect) /\ IntentIsSound("down", effect)
  BY <1>2, EffectIsSound
<1> QED
  BY <1>3, AsksInv

LEMMA ClaimInv == ASSUME CargoInv, NEW how \in Outcomes, Claim(how) PROVE CargoInv'
<1>1. UNCHANGED <<jobAcme, pull, disk, doctor, overlap>>
  BY DEF Claim
<1>2. CASE Asks("claim", "tell_claimed", [intent EXCEPT !.claimed = TRUE], how)
  <2>1. PICK effect : effect = [intent EXCEPT !.claimed = TRUE]
    OBVIOUS
  <2>2. /\ effect \in IntentRecords /\ effect.funded = intent.funded
        /\ effect.registered = intent.registered /\ effect.admitted = intent.admitted
        /\ effect.health = intent.health
    BY <2>1 DEF CargoInv, CargoTypes, IntentRecords
  <2> QED
    BY <1>1, <1>2, <2>1, <2>2, AsksOnlyInv
       DEF CargoPlaces, Preparing, LeftHosts, PairPlaces, Serving, SignerPlaces,
           RegisteredPlaces, FundedPlaces
<1>3. CASE Tells("tell_claimed", "poll", "waiting_funding", how)
  <2>1. /\ "tell_claimed" \in LeftHosts /\ "tell_claimed" \notin Serving
        /\ "tell_claimed" \in CargoPlaces \ {"down", "ended"}
        /\ "poll" \in CargoPlaces \ {"down", "write_key"} /\ "poll" # "tell_ready"
        /\ "poll" \notin PairPlaces /\ "poll" \notin Serving
    BY DEF CargoPlaces, Preparing, LeftHosts, PairPlaces, Serving
  <2>2. "poll" \notin FundedPlaces /\ "poll" \notin SignerPlaces /\ "poll" \notin RegisteredPlaces
    BY DEF PairPlaces, Serving, SignerPlaces, RegisteredPlaces, FundedPlaces
  <2>3. "waiting_funding" \in HealthStates
    BY DEF HealthStates
  <2> QED
    BY <1>1, <1>3, <2>1, <2>2, <2>3, TellsInv
<1> QED
  BY <1>2, <1>3 DEF Claim

LEMMA PollInv == ASSUME CargoInv, NEW how \in Outcomes, Poll(how) PROVE CargoInv'
<1>1. UNCHANGED <<jobAcme, pull, disk, doctor, overlap>> /\ intent \in IntentRecords
  BY DEF Poll, CargoInv, CargoTypes
<1>2. CASE Asks("poll", IF intent.funded THEN "tell_config" ELSE "tell_waiting", intent, how)
  <2>1. PICK to \in {"tell_config", "tell_waiting"} :
           to = IF intent.funded THEN "tell_config" ELSE "tell_waiting"
    OBVIOUS
  <2> QED
    BY <1>1, <1>2, <2>1, AsksOnlyInv
       DEF CargoPlaces, Preparing, LeftHosts, PairPlaces, Serving, SignerPlaces,
           RegisteredPlaces, FundedPlaces
<1>3. CASE Tells("tell_waiting", "sleep", "waiting_funding", how)
  BY <1>1, <1>3, TellsInv
     DEF CargoPlaces, Preparing, LeftHosts, PairPlaces, Serving, SignerPlaces,
         RegisteredPlaces, FundedPlaces, HealthStates
<1>4. CASE cargo.at = "sleep" /\ how = "answered" /\ GoesTo("poll") /\ UNCHANGED <<stunnel, intent>>
  <2>1. Asks("sleep", "poll", intent, how)
    BY <1>4 DEF Asks
  <2> QED
    BY <1>1, <2>1, AsksOnlyInv
       DEF CargoPlaces, Preparing, LeftHosts, PairPlaces, Serving, SignerPlaces,
           RegisteredPlaces, FundedPlaces
<1>5. CASE Tells("tell_config", "diag_signer", "config_received", how)
  BY <1>1, <1>5, TellsInv
     DEF CargoPlaces, Preparing, LeftHosts, PairPlaces, Serving, SignerPlaces,
         RegisteredPlaces, FundedPlaces, HealthStates
<1> QED
  BY <1>2, <1>3, <1>4, <1>5 DEF Poll

LEMMA RegisterJobInv == ASSUME CargoInv, NEW how \in Outcomes, RegisterJob(how) PROVE CargoInv'
<1>1. UNCHANGED <<jobAcme, pull, disk, doctor, overlap>> /\ intent \in IntentRecords
  BY DEF RegisterJob, CargoInv, CargoTypes
<1>2. CASE Tells("tell_registering", "challenge", "registering", how)
  BY <1>1, <1>2, TellsInv
     DEF CargoPlaces, Preparing, LeftHosts, PairPlaces, Serving, SignerPlaces,
         RegisteredPlaces, FundedPlaces, HealthStates
<1>3. CASE Asks("challenge", "register", intent, how)
  BY <1>1, <1>3, AsksOnlyInv
     DEF CargoPlaces, Preparing, LeftHosts, PairPlaces, Serving, SignerPlaces,
         RegisteredPlaces, FundedPlaces
<1>4. CASE Asks("register", "tell_registered", [intent EXCEPT !.registered = TRUE], how)
  <2>1. PICK effect : effect = [intent EXCEPT !.registered = TRUE]
    OBVIOUS
  <2>2. /\ effect \in IntentRecords /\ effect.funded = intent.funded
        /\ effect.registered /\ effect.admitted = intent.admitted
        /\ effect.health = intent.health
    BY <1>1, <2>1 DEF IntentRecords
  <2> QED
    BY <1>1, <1>4, <2>1, <2>2, AsksOnlyInv
       DEF CargoPlaces, Preparing, LeftHosts, PairPlaces, Serving, SignerPlaces,
           RegisteredPlaces, FundedPlaces
<1>5. CASE Tells("tell_registered", IF jobAcme THEN "tell_certificate" ELSE "save",
                 "registered", how)
  <2>1. CASE jobAcme
    BY <1>1, <1>5, <2>1, TellsInv
       DEF CargoPlaces, Preparing, LeftHosts, PairPlaces, Serving, SignerPlaces,
           RegisteredPlaces, FundedPlaces, HealthStates
  <2>2. CASE ~jobAcme
    BY <1>1, <1>5, <2>2, TellsInv
       DEF CargoPlaces, Preparing, LeftHosts, PairPlaces, Serving, SignerPlaces,
           RegisteredPlaces, FundedPlaces, HealthStates
  <2> QED
    BY <2>1, <2>2
<1> QED
  BY <1>2, <1>3, <1>4, <1>5 DEF RegisterJob

LEMMA OrderCertificateInv ==
    ASSUME CargoInv, NEW how \in Outcomes, OrderCertificate(how) PROVE CargoInv'
<1>1. /\ UNCHANGED <<jobAcme, pull, disk, doctor, overlap>>
      /\ intent \in IntentRecords /\ cargo \in CargoRecords /\ overlap \in BOOLEAN
      /\ disk \in DiskRecords
  BY DEF OrderCertificate, CargoInv, CargoTypes
<1>2. CASE Tells("tell_certificate", "order_challenge", "certificate_requesting", how)
  BY <1>1, <1>2, TellsInv
     DEF CargoPlaces, Preparing, LeftHosts, PairPlaces, Serving, SignerPlaces,
         RegisteredPlaces, FundedPlaces, HealthStates
<1>3. CASE Asks("order_challenge", "order", intent, how)
  BY <1>1, <1>3, AsksOnlyInv
     DEF CargoPlaces, Preparing, LeftHosts, PairPlaces, Serving, SignerPlaces,
         RegisteredPlaces, FundedPlaces
<1>4. CASE cargo.at = "order" /\ UNCHANGED intent /\ how # "answered" /\ Stops
  BY <1>1, <1>4, FailsInv
<1>5. CASE /\ cargo.at = "order" /\ UNCHANGED <<intent, stunnel>>
           /\ cargo' = [cargo EXCEPT !.host = @ + 1,
                          !.at = IF cargo.host = NumHosts THEN "write_cert"
                                 ELSE "tell_certificate"]
  <2>1. cargo.host \in 1..NumHosts /\ NumHosts \in Nat
    <3>1. "order" \in LeftHosts
      BY DEF LeftHosts, CargoPlaces, Preparing, PairPlaces, Serving
    <3> QED
      BY <1>1, <1>5, <3>1, CargoOK DEF CargoInv, DiskIsSound, CargoRecords
  <2>2. PICK to \in {"write_cert", "tell_certificate"} :
           to = IF cargo.host = NumHosts THEN "write_cert" ELSE "tell_certificate"
    OBVIOUS
  <2>3. PICK c : c = [cargo EXCEPT !.host = cargo.host + 1, !.at = to]
    OBVIOUS
  <2>4. cargo' = c
    BY <1>5, <2>2, <2>3
  <2>5. /\ c \in CargoRecords /\ c.at = to /\ c.boot = cargo.boot /\ c.host = cargo.host + 1
    <3>1. cargo.host + 1 \in 1..NumHosts + 1
      BY <2>1
    <3>2. to \in CargoPlaces
      BY DEF CargoPlaces, Preparing
    <3> QED
      BY <1>1, <2>3, <3>1, <3>2 DEF CargoRecords
  <2>6. c.at \in LeftHosts => c.host <= NumHosts
    <3>1. "write_cert" \notin LeftHosts
      BY DEF LeftHosts
    <3> QED
      BY <2>1, <2>2, <2>5, <3>1
  <2>7. /\ to \notin PairPlaces /\ "order" \in SignerPlaces /\ "order" \in RegisteredPlaces
        /\ "order" \in FundedPlaces
    BY DEF PairPlaces, Serving, SignerPlaces, RegisteredPlaces, FundedPlaces
  <2>8. IntentIsSound(c.at, intent)
    BY <1>5, <2>5, <2>7 DEF CargoInv, IntentIsSound
  <2>9. ~stunnel.up
    BY <1>5 DEF CargoInv, TunnelIsSound, Serving
  <2> QED
    BY <1>1, <1>5, <2>4, <2>5, <2>6, <2>7, <2>8, <2>9, GoesInv DEF PairPlaces
<1> QED
  BY <1>2, <1>3, <1>4, <1>5 DEF OrderCertificate

LEMMA AdmitInv ==
    ASSUME CargoInv, NEW how \in Outcomes, NEW gateway \in BOOLEAN, Admit(how, gateway)
    PROVE  CargoInv'
<1>1. UNCHANGED <<jobAcme, pull, disk, doctor, overlap>> /\ intent \in IntentRecords
  BY DEF Admit, CargoInv, CargoTypes
<1>2. Serving \subseteq CargoPlaces /\ Serving \subseteq PairPlaces
  BY DEF CargoPlaces, PairPlaces
<1>3. /\ Serving \subseteq RegisteredPlaces /\ Serving \subseteq SignerPlaces
      /\ Serving \subseteq FundedPlaces
  BY <1>2 DEF RegisteredPlaces, SignerPlaces, FundedPlaces
<1>4. /\ \A p \in Serving : p \notin {"down", "ended", "write_key"} /\ p \notin LeftHosts
      /\ "admit" \in Serving /\ "admit_challenge" \in Serving /\ "observe" \in Serving
      /\ "submit_admission" \in Serving /\ "tell_ready" \in Serving
  BY DEF Serving, LeftHosts, PairPlaces
<1>5. ASSUME NEW from \in Serving, NEW to \in Serving \ {"start"}, NEW effect \in IntentRecords,
             Asks(from, to, effect, how),
             effect.health = intent.health, effect.funded = intent.funded,
             intent.registered => effect.registered,
             intent.admitted # "no" => effect.admitted # "no",
             to = "tell_ready" /\ pull => effect.admitted # "no"
      PROVE  CargoInv'
  BY <1>1, <1>2, <1>3, <1>4, <1>5, AsksOnlyInv
<1>6. CASE /\ cargo.at = "admit" /\ ~pull /\ ~gateway /\ how = "answered"
           /\ GoesTo("tell_ready") /\ UNCHANGED <<stunnel, intent>>
  <2>1. Asks("admit", "tell_ready", intent, how)
    BY <1>6 DEF Asks
  <2> QED
    BY <1>1, <1>4, <1>5, <1>6, <2>1
<1>7. CASE Tells("admit", "admit_challenge", "registered", how)
  BY <1>1, <1>2, <1>3, <1>4, <1>7, TellsInv DEF HealthStates
<1>8. CASE Asks("admit_challenge", IF pull THEN "submit_admission" ELSE "observe", intent, how)
  <2>1. PICK to \in {"submit_admission", "observe"} :
           to = IF pull THEN "submit_admission" ELSE "observe"
    OBVIOUS
  <2> QED
    BY <1>1, <1>4, <1>5, <1>8, <2>1
<1>9. CASE Asks("observe", "submit_admission", intent, how)
  BY <1>1, <1>4, <1>5, <1>9
<1>10. CASE Asks("submit_admission", "tell_ready",
                 [intent EXCEPT !.admitted = IF pull THEN "asked" ELSE "yes"], how)
  <2>1. PICK a \in {"asked", "yes"} : a = IF pull THEN "asked" ELSE "yes"
    OBVIOUS
  <2>2. PICK effect : effect = [intent EXCEPT !.admitted = a]
    OBVIOUS
  <2>3. /\ effect \in IntentRecords /\ effect.funded = intent.funded
        /\ effect.registered = intent.registered /\ effect.admitted = a
        /\ effect.health = intent.health
    BY <1>1, <2>2 DEF IntentRecords
  <2>4. Asks("submit_admission", "tell_ready", effect, how)
    BY <1>10, <2>1, <2>2
  <2> QED
    BY <1>1, <1>4, <1>5, <2>3, <2>4
<1> QED
  BY <1>6, <1>7, <1>8, <1>9, <1>10 DEF Admit

LEMMA ReadyInv == ASSUME CargoInv, NEW how \in Outcomes, Ready(how) PROVE CargoInv'
<1>1. UNCHANGED <<jobAcme, pull, disk, doctor, overlap>>
      /\ Tells("tell_ready", "wait", "ready", how)
  BY DEF Ready
<1>2. /\ "tell_ready" \in Serving /\ "wait" \in Serving \ {"start"}
      /\ "wait" \notin LeftHosts /\ "tell_ready" \in CargoPlaces
      /\ "wait" \in CargoPlaces \ {"down", "write_key"}
      /\ "tell_ready" \in PairPlaces
  BY DEF Serving, LeftHosts, PairPlaces, CargoPlaces
<1>3. /\ "tell_ready" \in RegisteredPlaces /\ "tell_ready" \in SignerPlaces
      /\ "tell_ready" \in FundedPlaces
  BY <1>2 DEF RegisteredPlaces, SignerPlaces, FundedPlaces
<1> QED
  BY <1>1, <1>2, <1>3, TellsInv DEF HealthStates

LEMMA StartJobInv == ASSUME CargoInv, StartJob PROVE CargoInv'
<1>1. /\ UNCHANGED <<jobAcme, pull, disk, stunnel, intent, doctor, overlap>>
      /\ cargo.at = "down" /\ cargo.boot < MaxBoots /\ cargo.boot \in 0..MaxBoots
  BY DEF StartJob, CargoInv, CargoTypes, CargoRecords
<1>2. PICK c : c = [at |-> "install", boot |-> cargo.boot + 1, host |-> 1]
  OBVIOUS
<1>3. cargo' = c
  BY <1>2 DEF StartJob
<1>4. cargo.boot + 1 \in 1..MaxBoots /\ 1 \in 1..NumHosts /\ 1 \in 1..NumHosts + 1
  BY <1>1, CargoOK
<1>5. c \in CargoRecords /\ c.at = "install" /\ c.boot # 0 /\ c.host <= NumHosts
  <2>1. "install" \in CargoPlaces
    BY DEF CargoPlaces, Preparing
  <2> QED
    BY <1>2, <1>4, <2>1, CargoOK DEF CargoRecords
<1>6. "install" \notin PairPlaces /\ "install" \notin Serving /\ "install" # "write_key"
  BY DEF PairPlaces, Serving
<1>7. /\ "install" \notin RegisteredPlaces /\ "install" \notin SignerPlaces
      /\ "install" \notin FundedPlaces
  BY DEF PairPlaces, Serving, RegisteredPlaces, SignerPlaces, FundedPlaces
<1>8. CargoTypes'
  BY <1>1, <1>3, <1>5 DEF CargoInv, CargoTypes
<1>9. IntentIsSound(cargo.at, intent)'
  BY <1>1, <1>3, <1>5, <1>7 DEF CargoInv, IntentIsSound
<1>10. DiskIsSound(cargo, disk)'
  BY <1>1, <1>3, <1>5, <1>6 DEF DiskIsSound
<1>11. TunnelIsSound(cargo, stunnel)'
  BY <1>1 DEF CargoInv, TunnelIsSound, Serving
<1>12. DiagIsSound(cargo.at)'
  BY <1>3, <1>5, <1>7 DEF DiagIsSound
<1> QED
  BY <1>8, <1>9, <1>10, <1>11, <1>12 DEF CargoInv

\* stunnel reads the pair that is on the disk: the one this start has written.
LEMMA StartServersInv == ASSUME CargoInv, StartServers PROVE CargoInv'
<1>1. /\ UNCHANGED <<jobAcme, pull, disk, intent, doctor, overlap>>
      /\ cargo.at = "start" /\ cargo \in CargoRecords /\ disk \in DiskRecords
  BY DEF StartServers, CargoInv, CargoTypes
<1>2. PICK c : c = [cargo EXCEPT !.at = "admit"]
  OBVIOUS
<1>3. /\ cargo' = c /\ c.at = "admit" /\ c.boot = cargo.boot /\ c \in CargoRecords
  BY <1>1, <1>2 DEF StartServers, GoesTo, CargoRecords, CargoPlaces, Serving
<1>4. PICK t \in TunnelRecords :
         stunnel' = t /\ (t.up => t.cert = disk.cert /\ t.key = disk.key)
  <2>1. CASE disk.cert # Absent /\ disk.cert = disk.key
    <3>1. PICK t : t = [up |-> TRUE, cert |-> disk.cert, key |-> disk.key]
      OBVIOUS
    <3>2. t \in TunnelRecords /\ t.cert = disk.cert /\ t.key = disk.key
      BY <1>1, <3>1 DEF TunnelRecords, DiskRecords
    <3>3. stunnel' = t
      BY <2>1, <3>1 DEF StartServers
    <3> QED
      BY <3>2, <3>3
  <2>2. CASE ~(disk.cert # Absent /\ disk.cert = disk.key)
    <3>1. stunnel' = NoTunnel
      BY <2>2 DEF StartServers
    <3>2. NoTunnel \in TunnelRecords /\ NoTunnel.up = FALSE
      BY DEF NoTunnel, TunnelRecords
    <3> QED
      BY <3>1, <3>2
  <2> QED
    BY <2>1, <2>2
<1>5. /\ "start" \in Serving /\ "admit" \in Serving \ {"start"}
      /\ "start" \in PairPlaces /\ "admit" \in PairPlaces /\ "admit" \notin LeftHosts
  BY DEF Serving, PairPlaces, LeftHosts
<1>6. /\ "start" \in RegisteredPlaces /\ "start" \in SignerPlaces /\ "start" \in FundedPlaces
  BY <1>5 DEF RegisteredPlaces, SignerPlaces, FundedPlaces
<1>7. CargoTypes'
  BY <1>1, <1>3, <1>4 DEF CargoInv, CargoTypes
<1>8. IntentIsSound(cargo.at, intent)'
  BY <1>1, <1>3, <1>6 DEF CargoInv, IntentIsSound
<1>9. DiskIsSound(cargo, disk)'
  BY <1>1, <1>3, <1>5 DEF CargoInv, DiskIsSound
<1>10. TunnelIsSound(cargo, stunnel)'
  BY <1>1, <1>3, <1>4, <1>5 DEF CargoInv, TunnelIsSound, DiskIsSound
<1>11. DiagIsSound(cargo.at)'
  BY <1>1, <1>3, <1>6 DEF CargoInv, DiagIsSound, Busy
<1> QED
  BY <1>7, <1>8, <1>9, <1>10, <1>11 DEF CargoInv

LEMMA TunnelDiesInv == ASSUME CargoInv, TunnelDies PROVE CargoInv'
<1>1. /\ UNCHANGED <<jobAcme, pull, cargo, disk, intent, doctor, overlap>>
      /\ stunnel' = NoTunnel
  BY DEF TunnelDies
<1>2. NoTunnel \in TunnelRecords /\ NoTunnel.up = FALSE
  BY DEF NoTunnel, TunnelRecords
<1>3. CargoTypes'
  BY <1>1, <1>2 DEF CargoInv, CargoTypes
<1>4. IntentIsSound(cargo.at, intent)' /\ DiskIsSound(cargo, disk)'
  BY <1>1 DEF CargoInv, IntentIsSound, DiskIsSound
<1>5. TunnelIsSound(cargo, stunnel)'
  BY <1>1, <1>2 DEF TunnelIsSound
<1>6. DiagIsSound(cargo.at)'
  BY <1>1 DEF CargoInv, DiagIsSound, Busy
<1> QED
  BY <1>3, <1>4, <1>5, <1>6 DEF CargoInv

LEMMA TunnelEndedInv == ASSUME CargoInv, NEW clean \in BOOLEAN, TunnelEnded(clean) PROVE CargoInv'
<1>1. /\ UNCHANGED <<jobAcme, pull, disk, stunnel, intent, doctor, overlap>>
      /\ cargo.at = "wait" /\ ~stunnel.up /\ cargo \in CargoRecords
  BY DEF TunnelEnded, CargoInv, CargoTypes
<1>2. PICK to \in {"ended", "down"} : to = IF clean THEN "ended" ELSE "down"
  OBVIOUS
<1>3. PICK c : c = [cargo EXCEPT !.at = to]
  OBVIOUS
<1>4. /\ cargo' = c /\ c.at = to /\ c.boot = cargo.boot /\ c \in CargoRecords
  BY <1>1, <1>2, <1>3 DEF TunnelEnded, GoesTo, CargoRecords, CargoPlaces
<1>5. to \notin PairPlaces /\ to \notin Serving /\ to # "write_key"
  BY DEF PairPlaces, Serving, LeftHosts
<1>6. to \notin RegisteredPlaces /\ to \notin SignerPlaces /\ to \notin FundedPlaces
  BY DEF PairPlaces, Serving, RegisteredPlaces, SignerPlaces, FundedPlaces
<1>7. to \notin LeftHosts
  BY DEF LeftHosts
<1>8. CargoTypes'
  BY <1>1, <1>4 DEF CargoInv, CargoTypes
<1>9. IntentIsSound(cargo.at, intent)'
  BY <1>1, <1>4, <1>6 DEF CargoInv, IntentIsSound
<1>10. DiskIsSound(cargo, disk)'
  BY <1>1, <1>4, <1>5, <1>7 DEF CargoInv, DiskIsSound
<1>11. TunnelIsSound(cargo, stunnel)'
  BY <1>1 DEF TunnelIsSound
<1>12. DiagIsSound(cargo.at)'
  BY <1>4, <1>6 DEF DiagIsSound
<1> QED
  BY <1>8, <1>9, <1>10, <1>11, <1>12 DEF CargoInv

\* A step of a diagnostic run touches the diagnostic file alone.
LEMMA DoctorStepInv ==
    ASSUME CargoInv, UNCHANGED <<jobAcme, pull, cargo, stunnel, intent>>,
           NEW d \in DiskRecords, disk' = d,
           d.cert = disk.cert, d.key = disk.key, d.saved = disk.saved,
           doctor' \in [Doctors -> DoctorRecords], overlap' \in BOOLEAN,
           DiagIsSound(cargo.at)'
    PROVE  CargoInv'
<1>1. CargoTypes'
  BY DEF CargoInv, CargoTypes
<1>2. IntentIsSound(cargo.at, intent)' /\ TunnelIsSound(cargo, stunnel)'
  BY DEF CargoInv, IntentIsSound, TunnelIsSound
<1>3. DiskIsSound(cargo, disk)'
  BY DEF CargoInv, DiskIsSound
<1> QED
  BY <1>1, <1>2, <1>3 DEF CargoInv

\* It starts, or ends, without a word to the file.
LEMMA IdleDoctorInv ==
    ASSUME CargoInv, NEW x \in Doctors, NEW socket \in BOOLEAN,
           StartDoctor(x, socket) \/ DoctorReports(x)
    PROVE  CargoInv'
<1>1. /\ UNCHANGED <<jobAcme, pull, cargo, disk, stunnel, intent, overlap>>
      /\ doctor \in [Doctors -> DoctorRecords] /\ doctor[x].at \in {"idle", "signs"}
      /\ disk \in DiskRecords /\ overlap \in BOOLEAN
  BY DEF StartDoctor, DoctorReports, CargoInv, CargoTypes
<1>2. PICK at \in {"reads", "failed", "signs", "done"} : doctor' = [doctor EXCEPT ![x].at = at]
  BY DEF StartDoctor, DoctorReports
<1>3. /\ doctor' \in [Doctors -> DoctorRecords] /\ doctor'[x].at = at
      /\ \A y \in Doctors \ {x} : doctor'[y] = doctor[y]
  BY <1>1, <1>2 DEF DoctorRecords
<1>4. DiagIsSound(cargo.at)'
  BY <1>1, <1>3 DEF CargoInv, DiagIsSound, Busy
<1> QED
  BY <1>1, <1>3, <1>4, DoctorStepInv

LEMMA DoctorReadsInv == ASSUME CargoInv, NEW x \in Doctors, DoctorReads(x) PROVE CargoInv'
<1>1. /\ UNCHANGED <<jobAcme, pull, cargo, disk, stunnel, intent, overlap>>
      /\ doctor \in [Doctors -> DoctorRecords] /\ doctor[x].at = "reads"
      /\ disk \in DiskRecords /\ overlap \in BOOLEAN
  BY DEF DoctorReads, CargoInv, CargoTypes
<1>2. PICK r : r = Readable
  OBVIOUS
<1>3. r \in DiagContents \cup {Absent} /\ (disk.diag = "signer" => r = "signer" \/ disk.diag = Torn)
  BY <1>1, <1>2 DEF Readable, DiskRecords
<1>4. /\ doctor' \in [Doctors -> DoctorRecords]
      /\ doctor'[x].at = "tears" /\ doctor'[x].read = r
      /\ \A y \in Doctors \ {x} : doctor'[y] = doctor[y]
  <2>1. doctor' = [doctor EXCEPT ![x] = [at |-> "tears", read |-> r]]
    BY <1>2 DEF DoctorReads
  <2> QED
    BY <1>1, <1>3, <2>1 DEF DoctorRecords
<1>5. ASSUME cargo.at \in SignerPlaces, ~overlap
      PROVE  /\ disk.diag \in {"signer", Torn}
             /\ disk.diag = Torn => \E y \in Doctors \ {x} : doctor[y].at = "writes"
             /\ \A y \in Doctors : Busy(y) =>
                   doctor[y].read = "signer" \/ \E z \in Doctors \ {x, y} : Busy(z)
  BY <1>1, <1>5 DEF CargoInv, DiagIsSound, Busy
<1>6. DiagIsSound(cargo.at)'
  BY <1>1, <1>3, <1>4, <1>5 DEF DiagIsSound, Busy
<1> QED
  BY <1>1, <1>4, <1>6, DoctorStepInv

LEMMA DoctorTearsInv == ASSUME CargoInv, NEW x \in Doctors, DoctorTears(x) PROVE CargoInv'
<1>1. /\ UNCHANGED <<jobAcme, pull, cargo, stunnel, intent>>
      /\ overlap' = (overlap \/ Meets(x))
      /\ doctor \in [Doctors -> DoctorRecords] /\ doctor[x].at = "tears"
      /\ disk \in DiskRecords /\ overlap \in BOOLEAN
  BY DEF DoctorTears, CargoInv, CargoTypes
<1>2. PICK d : d = [disk EXCEPT !.diag = Torn]
  OBVIOUS
<1>3. /\ d \in DiskRecords /\ d.diag = Torn /\ d.cert = disk.cert /\ d.key = disk.key
      /\ d.saved = disk.saved /\ disk' = d
  BY <1>1, <1>2 DEF DoctorTears, DiskRecords
<1>4. /\ doctor' \in [Doctors -> DoctorRecords]
      /\ doctor'[x].at = "writes" /\ doctor'[x].read = doctor[x].read
      /\ \A y \in Doctors \ {x} : doctor'[y] = doctor[y]
  <2>1. doctor' = [doctor EXCEPT ![x].at = "writes"]
    BY DEF DoctorTears
  <2> QED
    BY <1>1, <2>1 DEF DoctorRecords
<1>5. overlap' \in BOOLEAN
  BY <1>1 DEF Meets
<1>6. \A y \in Doctors : Busy(y)' <=> Busy(y)
  BY <1>1, <1>4 DEF Busy
<1>7. \A y \in Doctors : doctor'[y].read = doctor[y].read
  BY <1>4
<1>8. DiagIsSound(cargo.at)'
  <2>1. ~overlap' => ~overlap
    BY <1>1
  <2>2. disk'.diag = Torn /\ doctor'[x].at = "writes"
    BY <1>3, <1>4
  <2> QED
    BY <1>1, <1>6, <1>7, <2>1, <2>2 DEF CargoInv, DiagIsSound
<1> QED
  BY <1>1, <1>3, <1>4, <1>5, <1>8, DoctorStepInv

\* It keeps the signer that it read; alone it has read it.
LEMMA DoctorWritesInv == ASSUME CargoInv, NEW x \in Doctors, DoctorWrites(x) PROVE CargoInv'
<1>1. /\ UNCHANGED <<jobAcme, pull, cargo, stunnel, intent>>
      /\ overlap' = (overlap \/ Meets(x))
      /\ doctor \in [Doctors -> DoctorRecords] /\ doctor[x].at = "writes"
      /\ disk \in DiskRecords /\ overlap \in BOOLEAN
  BY DEF DoctorWrites, CargoInv, CargoTypes
<1>2. PICK r : r = doctor[x].read
  OBVIOUS
<1>3. r \in DiagContents \cup {Absent}
  BY <1>1, <1>2 DEF DoctorRecords
<1>4. PICK k \in DiagContents : k = Kept(r) /\ (r = "signer" => k = "signer")
  BY <1>3, NoDiagOK DEF Kept, DiagContents
<1>5. PICK d : d = [disk EXCEPT !.diag = k]
  OBVIOUS
<1>6. /\ d \in DiskRecords /\ d.diag = k /\ d.cert = disk.cert /\ d.key = disk.key
      /\ d.saved = disk.saved /\ disk' = d
  BY <1>1, <1>2, <1>4, <1>5 DEF DoctorWrites, DiskRecords
<1>7. /\ doctor' \in [Doctors -> DoctorRecords] /\ doctor'[x].at = "done"
      /\ \A y \in Doctors \ {x} : doctor'[y] = doctor[y]
  <2>1. doctor' = [doctor EXCEPT ![x].at = "done"]
    BY DEF DoctorWrites
  <2> QED
    BY <1>1, <2>1 DEF DoctorRecords
<1>8. overlap' \in BOOLEAN
  BY <1>1 DEF Meets
<1>9. DiagIsSound(cargo.at)'
  <2>1. SUFFICES ASSUME cargo.at \in SignerPlaces, ~overlap'
                 PROVE  disk'.diag = "signer" /\ disk'.diag # Torn /\ \A y \in Doctors : ~Busy(y)'
    BY <1>1 DEF DiagIsSound
  <2>2. ~overlap /\ \A y \in Doctors \ {x} : ~Busy(y)
    BY <1>1, <2>1 DEF Meets
  <2>3. Busy(x)
    BY <1>1 DEF Busy
  <2>4. r = "signer"
    BY <1>2, <2>1, <2>2, <2>3 DEF CargoInv, DiagIsSound
  <2>5. disk'.diag = "signer" /\ disk'.diag # Torn
    BY <1>4, <1>6, <2>4, NoDiagOK
  <2>6. \A y \in Doctors : ~Busy(y)'
    BY <1>7, <2>2 DEF Busy
  <2> QED
    BY <2>5, <2>6
<1> QED
  BY <1>1, <1>6, <1>7, <1>8, <1>9, DoctorStepInv

LEMMA RelayStepInv == ASSUME CargoInv, FundIntent \/ GatewayAdmits PROVE CargoInv'
<1>1. /\ UNCHANGED <<jobAcme, pull, cargo, disk, stunnel, doctor, overlap>>
      /\ intent \in IntentRecords
  BY DEF FundIntent, GatewayAdmits, CargoInv, CargoTypes
<1>2. PICK i \in IntentRecords :
         /\ intent' = i /\ i.registered = intent.registered /\ i.health = intent.health
         /\ intent.funded => i.funded
         /\ intent.admitted # "no" => i.admitted # "no"
  <2>1. CASE FundIntent
    <3>1. PICK i : i = [intent EXCEPT !.funded = TRUE]
      OBVIOUS
    <3>2. /\ i \in IntentRecords /\ i.registered = intent.registered
          /\ i.health = intent.health /\ i.funded /\ i.admitted = intent.admitted
      BY <1>1, <3>1 DEF IntentRecords
    <3> QED
      BY <2>1, <3>1, <3>2 DEF FundIntent
  <2>2. CASE GatewayAdmits
    <3>1. PICK i : i = [intent EXCEPT !.admitted = "yes"]
      OBVIOUS
    <3>2. /\ i \in IntentRecords /\ i.registered = intent.registered
          /\ i.health = intent.health /\ i.funded = intent.funded /\ i.admitted = "yes"
      BY <1>1, <3>1 DEF IntentRecords
    <3> QED
      BY <2>2, <3>1, <3>2 DEF GatewayAdmits
  <2> QED
    BY <2>1, <2>2
<1>3. CargoTypes'
  BY <1>1, <1>2 DEF CargoInv, CargoTypes
<1>4. IntentIsSound(cargo.at, intent)'
  BY <1>1, <1>2 DEF CargoInv, IntentIsSound
<1>5. DiskIsSound(cargo, disk)' /\ TunnelIsSound(cargo, stunnel)'
  BY <1>1 DEF CargoInv, DiskIsSound, TunnelIsSound
<1>6. DiagIsSound(cargo.at)'
  BY <1>1 DEF CargoInv, DiagIsSound, Busy
<1> QED
  BY <1>3, <1>4, <1>5, <1>6 DEF CargoInv

LEMMA CargoNextInv == CargoInv /\ [CargoNext]_cargoVars => CargoInv'
<1> SUFFICES ASSUME CargoInv, [CargoNext]_cargoVars PROVE CargoInv'
  OBVIOUS
<1>1. CASE StartJob
  BY <1>1, StartJobInv
<1>2. CASE JobSteps
  BY <1>2, JobWritesDiagInv, WritesInv, ClaimInv, PollInv, RegisterJobInv, OrderCertificateInv,
     StartServersInv, AdmitInv, ReadyInv DEF JobSteps
<1>3. CASE \E works \in BOOLEAN : Install(works)
  BY <1>3, InstallInv
<1>4. CASE GivesUpWaiting \/ Killed
  BY <1>4, FailsInv DEF GivesUpWaiting, Killed, CargoInv, CargoTypes
<1>5. CASE TunnelDies
  BY <1>5, TunnelDiesInv
<1>6. CASE \E clean \in BOOLEAN : TunnelEnded(clean)
  BY <1>6, TunnelEndedInv
<1>7. CASE \E x \in Doctors :
             \/ \E socket \in BOOLEAN : StartDoctor(x, socket)
             \/ DoctorReports(x) \/ DoctorReads(x) \/ DoctorTears(x) \/ DoctorWrites(x)
  BY <1>7, IdleDoctorInv, DoctorReadsInv, DoctorTearsInv, DoctorWritesInv
<1>8. CASE FundIntent \/ GatewayAdmits
  BY <1>8, RelayStepInv
<1>9. CASE UNCHANGED cargoVars
  BY <1>9 DEF cargoVars, CargoInv, CargoTypes, IntentIsSound, DiskIsSound, TunnelIsSound,
              DiagIsSound, Busy
<1> QED
  BY <1>1, <1>2, <1>3, <1>4, <1>5, <1>6, <1>7, <1>8, <1>9 DEF CargoNext

\* What the invariant says of every state.
LEMMA CargoInvSafe ==
    CargoInv => CargoTypeOK /\ HealthIsTrue /\ ServesOwnPair /\ DoctorKnowsSigner
<1> SUFFICES ASSUME CargoInv
             PROVE  CargoTypeOK /\ HealthIsTrue /\ ServesOwnPair /\ DoctorKnowsSigner
  OBVIOUS
<1>1. CargoTypeOK
  BY DEF CargoInv, CargoTypes, CargoTypeOK, CargoRecords, CargoPlaces, DiskRecords,
         TunnelRecords, IntentRecords, DoctorRecords
<1>2. HealthIsTrue
  BY DEF CargoInv, IntentIsSound, HealthIsTrue
<1>3. ServesOwnPair
  BY DEF CargoInv, TunnelIsSound, ServesOwnPair
<1>4. DoctorKnowsSigner
  <2>1. Serving \cup {"challenge", "register", "tell_registered"} \subseteq SignerPlaces
    BY DEF SignerPlaces, RegisteredPlaces, PairPlaces
  <2> QED
    BY <2>1 DEF CargoInv, DiagIsSound, DoctorKnowsSigner
<1> QED
  BY <1>1, <1>2, <1>3, <1>4

\* A request changes the health to what it tells, or not at all.
LEMMA HealthTold ==
    ASSUME intent \in IntentRecords, NEW from, NEW to, NEW health \in HealthStates, NEW how,
           Tells(from, to, health, how)
    PROVE  intent'.health \in {intent.health, health} /\ cargo.at = from
<1>1. PICK effect : effect = [intent EXCEPT !.health = health]
  OBVIOUS
<1>2. effect.health = health
  BY <1>1 DEF IntentRecords
<1> QED
  BY <1>1, <1>2 DEF Tells, Asks

\* Only the last report of an entrypoint makes a job ready.
LEMMA ReadyIsTold ==
    ASSUME CargoInv, CargoNext, intent.health # "ready", intent'.health = "ready"
    PROVE  cargo.at = "tell_ready"
<1>1. intent \in IntentRecords
  BY DEF CargoInv, CargoTypes
<1>2. /\ [intent EXCEPT !.claimed = TRUE].health = intent.health
      /\ [intent EXCEPT !.registered = TRUE].health = intent.health
      /\ [intent EXCEPT !.funded = TRUE].health = intent.health
      /\ \A a : [intent EXCEPT !.admitted = a].health = intent.health
  BY <1>1 DEF IntentRecords
<1>3. intent' # intent
  OBVIOUS
<1>4. ASSUME NEW from, NEW to, NEW effect, NEW how, Asks(from, to, effect, how),
             effect.health = intent.health
      PROVE  FALSE
  BY <1>4 DEF Asks
<1>5. ASSUME NEW from, NEW to, NEW health \in HealthStates \ {"ready"}, NEW how,
             Tells(from, to, health, how)
      PROVE  FALSE
  BY <1>1, <1>5, HealthTold
<1>6. {"waiting_funding", "config_received", "registering", "registered",
       "certificate_requesting"} \subseteq HealthStates \ {"ready"}
  BY DEF HealthStates
<1>7. ASSUME NEW how \in Outcomes, Claim(how) PROVE FALSE
  BY <1>2, <1>4, <1>5, <1>6, <1>7 DEF Claim
<1>8. ASSUME NEW how \in Outcomes, Poll(how) PROVE FALSE
  BY <1>3, <1>4, <1>5, <1>6, <1>8 DEF Poll
<1>9. ASSUME NEW how \in Outcomes, RegisterJob(how) PROVE FALSE
  BY <1>2, <1>4, <1>5, <1>6, <1>9 DEF RegisterJob
<1>10. ASSUME NEW how \in Outcomes, OrderCertificate(how) PROVE FALSE
  BY <1>3, <1>4, <1>5, <1>6, <1>10 DEF OrderCertificate
<1>11. ASSUME NEW how \in Outcomes, NEW gateway \in BOOLEAN, Admit(how, gateway) PROVE FALSE
  BY <1>2, <1>3, <1>4, <1>5, <1>6, <1>11 DEF Admit
<1>12. ASSUME NEW how \in Outcomes, Ready(how) PROVE cargo.at = "tell_ready"
  BY <1>12 DEF Ready, Tells, Asks
<1>13. ~FundIntent /\ ~GatewayAdmits
  BY <1>2 DEF FundIntent, GatewayAdmits
<1>14. CASE JobSteps
  BY <1>3, <1>7, <1>8, <1>9, <1>10, <1>11, <1>12, <1>14
     DEF JobSteps, JobWritesDiag, WriteCert, WriteKey, SaveState, StartServers
<1> QED
  BY <1>3, <1>13, <1>14
     DEF CargoNext, StartJob, Install, GivesUpWaiting, TunnelDies, Killed, TunnelEnded,
         StartDoctor, DoctorReports, DoctorReads, DoctorTears, DoctorWrites

LEMMA ReadyStep ==
    CargoInv /\ [CargoNext]_cargoVars =>
      [/\ intent.health # "ready" /\ intent'.health = "ready" /\ jobAcme
       => disk.cert = disk.key /\ disk.cert = <<cargo.boot, 1>> /\ disk.saved = cargo.boot]_cargoVars
<1> SUFFICES ASSUME CargoInv, [CargoNext]_cargoVars, intent.health # "ready",
                    intent'.health = "ready", jobAcme
             PROVE  /\ disk.cert = disk.key /\ disk.cert = <<cargo.boot, 1>>
                    /\ disk.saved = cargo.boot
  OBVIOUS
<1>1. CargoNext
  BY DEF cargoVars
<1>2. cargo.at = "tell_ready"
  BY <1>1, ReadyIsTold
<1>3. "tell_ready" \in Serving /\ "tell_ready" \in PairPlaces
  BY DEF Serving, PairPlaces
<1> QED
  BY <1>2, <1>3 DEF CargoInv, DiskIsSound

\* Through every restart of the job, every kill and every diagnostic run beside it
\* (sshTemplateEntrypoint, sshTemplateBootstrap and sshTemplateBootstrapPython of
\* cli/src/index.ts): the health at the relay says nothing that has not happened;
\* stunnel serves a certificate and key that belong together and are of this very
\* start; the diagnostic file names the signer, unless two writers of it met; and
\* "ready" is reported only with this start's own pair and state on the disk.
THEOREM CargoIsSafe == CargoSpec => CargoSafe
<1>1. CargoInit => CargoInv
  BY CargoInitInv
<1>2. CargoInv /\ [CargoNext]_cargoVars => CargoInv'
  BY CargoNextInv
<1>3. CargoSpec => []CargoInv
  BY <1>1, <1>2, PTL DEF CargoSpec
<1>4. CargoInv => CargoTypeOK /\ HealthIsTrue /\ ServesOwnPair /\ DoctorKnowsSigner
  BY CargoInvSafe
<1>5. CargoSpec => ReadyWasServed
  BY <1>3, ReadyStep, PTL DEF CargoSpec, ReadyWasServed
<1> QED
  BY <1>3, <1>4, <1>5, PTL DEF CargoSafe

================================================================================
