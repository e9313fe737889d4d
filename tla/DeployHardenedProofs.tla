------------------------- MODULE DeployHardenedProofs -------------------------
(***************************************************************************)
(* What a hardened deploy guarantees for any number of replicas and of     *)
(* retractions, whether or not the client drops statuses in favour of      *)
(* newer ones: first its submit loop on its own, then the whole of it.     *)
(***************************************************************************)
EXTENDS DeployHardened, SequenceTheorems, TLAPS

-------------------------------------------------------------------------------
\* The invariant.  Its parts say, in this order: a status that would resolve
\* the promise means that the extrinsic was included; a job subscription was
\* announced; the loop holds the function that closes the watch exactly from
\* the answer of signAndSend to its settlement; it holds the one that closes an
\* open job subscription, which is never open after a failure; and a job
\* subscription closed without a failure was closed by the assignment.
InBlockMeansIncluded ==
    /\ \A i \in 1 .. Len(notes) : notes[i] = "inBlock" => included
    /\ suspended = "inBlock" => included
    /\ outcome = "resolved" => included

SubscribedMeansTold ==
    /\ jobSub # "none" => JobStatusSubscribed
    /\ outcome = "resolved" => JobStatusSubscribed

WatchHasOwner ==
    /\ sign = "preparing" => watch = "none" /\ chain = "unsent"
    /\ sign = "rejected" => watch # "open"
    /\ sign # "resolved" => ~unsubTx
    /\ sign = "resolved" /\ ~Settled => unsubTx
    /\ sign = "resolved" /\ Settled => watch # "open"

JobSubHasOwner ==
    /\ sign # "resolved" => jobSub = "none"
    /\ jobSub = "open" => unsubJob /\ ~Failed
    /\ unsubJob => jobSub \notin {"none", "opening"}
    /\ jobSub = "closed" /\ ~Failed => "Acknowledged" \in told

IInv ==
    /\ TypeOK
    /\ InBlockMeansIncluded
    /\ SubscribedMeansTold
    /\ WatchHasOwner
    /\ JobSubHasOwner
    /\ TerminalStatusSettles

-------------------------------------------------------------------------------
\* The error codes of terminal statuses are errors, and no error is one of the
\* other two outcomes.
LEMMA ErrorCodes ==
    /\ \A s \in Terminal : ErrorOf(s) \in Errors
    /\ {"SubmitTimeout", "SubmissionError", "SubscribeError"} \subseteq Errors
    /\ "pending" \notin Errors /\ "resolved" \notin Errors
BY DEF Errors, ErrorOf, Terminal, Evictions

LEMMA IInvInit == Init => IInv
<1> SUFFICES ASSUME Init PROVE IInv
  OBVIOUS
<1>1. TypeOK
  <2>1. notes \in Seq(Statuses)
    BY EmptySeq DEF Init
  <2>2. retracts \in 0 .. MaxRetracts
    BY ConstantsOK DEF ConstantsOK, Init
  <2> QED
    BY <2>1, <2>2 DEF Init, TypeOK
<1>2. InBlockMeansIncluded /\ SubscribedMeansTold /\ WatchHasOwner
  BY DEF Init, InBlockMeansIncluded, SubscribedMeansTold, WatchHasOwner, Settled
<1>3. JobSubHasOwner /\ TerminalStatusSettles
  BY DEF Init, JobSubHasOwner, TerminalStatusSettles
<1> QED
  BY <1>1, <1>2, <1>3 DEF IInv

\* What is left of a queue without its last element.
LEMMA FrontOfSeq ==
    ASSUME NEW S, NEW q \in Seq(S), q # <<>>
    PROVE  /\ Front(q) \in Seq(S)
           /\ Len(Front(q)) = Len(q) - 1
           /\ \A i \in 1 .. Len(q) - 1 : Front(q)[i] = q[i]
<1>1. \A n \in Nat :
         n <= Len(q) => /\ SubSeq(q, 1, n) \in Seq(S)
                        /\ Len(SubSeq(q, 1, n)) = n
                        /\ \A i \in 1 .. n : SubSeq(q, 1, n)[i] = q[i]
  OBVIOUS
<1>2. Len(q) - 1 \in Nat /\ Len(q) - 1 <= Len(q)
  BY EmptySeq
<1>3. Front(q) = SubSeq(q, 1, Len(q) - 1)
  BY DEF Front
<1> QED
  BY <1>1, <1>2, <1>3

\* The queue after a notification: its statuses are old ones and the new one.
LEMMA NotifyQueue ==
    ASSUME notes \in Seq(Statuses), NEW s \in Statuses, Notify(s)
    PROVE  /\ notes' \in Seq(Statuses)
           /\ \A i \in 1 .. Len(notes') :
                 notes'[i] = s \/ \E j \in 1 .. Len(notes) : notes'[i] = notes[j]
<1>1. CASE UNCHANGED notes
  BY <1>1
<1>2. CASE notes' = Append(notes, s)
  BY <1>2
<1>3. CASE notes # <<>> /\ notes' = Append(Front(notes), s)
  <2>1. /\ Front(notes) \in Seq(Statuses)
        /\ Len(Front(notes)) = Len(notes) - 1
        /\ \A i \in 1 .. Len(notes) - 1 : Front(notes)[i] = notes[i]
    BY <1>3, FrontOfSeq
  <2> QED
    BY <1>3, <2>1
<1> QED
  BY <1>1, <1>2, <1>3 DEF Notify

-------------------------------------------------------------------------------
\* What a step outside the loop may do: the loop's own state stays, the watch
\* can only end, and every status in the queue is still true.
LEMMA OutsideStep ==
    ASSUME IInv, UNCHANGED loopVars,
           chain' \in {"pool", "block", "reverted", "final", "gone"} \/ UNCHANGED chain,
           retracts' \in 0 .. MaxRetracts, included' \in BOOLEAN, link' \in BOOLEAN,
           notes' \in Seq(Statuses),
           watch' = "closed" \/ UNCHANGED watch,
           sign = "preparing" => UNCHANGED <<chain, watch>>,
           included => included',
           \A i \in 1 .. Len(notes') : notes'[i] = "inBlock" => included'
    PROVE  IInv'
<1> USE DEF IInv, loopVars
<1>1. TypeOK'
  BY DEF TypeOK
<1>2. InBlockMeansIncluded'
  BY DEF InBlockMeansIncluded
<1>3. SubscribedMeansTold'
  BY DEF SubscribedMeansTold, JobStatusSubscribed
<1>4. WatchHasOwner'
  BY DEF WatchHasOwner, Settled
<1>5. JobSubHasOwner'
  BY DEF JobSubHasOwner, Failed
<1>6. TerminalStatusSettles'
  BY DEF TerminalStatusSettles, Settled
<1> QED
  BY <1>1, <1>2, <1>3, <1>4, <1>5, <1>6

\* The same for a step that notifies the client of a status.
LEMMA NotifyingStep ==
    ASSUME IInv, UNCHANGED loopVars, NEW s \in Statuses, Notify(s),
           chain' \in {"pool", "block", "reverted", "final", "gone"} \/ UNCHANGED chain,
           retracts' \in 0 .. MaxRetracts, included' \in BOOLEAN, link' \in BOOLEAN,
           watch' = "closed" \/ UNCHANGED watch,
           sign # "preparing",
           included => included',
           s = "inBlock" => included'
    PROVE  IInv'
<1>1. notes \in Seq(Statuses)
  BY DEF IInv, TypeOK
<1>2. /\ notes' \in Seq(Statuses)
      /\ \A i \in 1 .. Len(notes') :
            notes'[i] = s \/ \E j \in 1 .. Len(notes) : notes'[i] = notes[j]
  BY <1>1, NotifyQueue
<1>3. \A i \in 1 .. Len(notes') : notes'[i] = "inBlock" => included'
  BY <1>2 DEF IInv, InBlockMeansIncluded
<1> QED
  BY <1>2, <1>3, OutsideStep

LEMMA ChainKeepsIInv == IInv /\ ChainStep => IInv'
<1> SUFFICES ASSUME IInv, ChainStep PROVE IInv'
  OBVIOUS
<1> USE DEF chainVars
<1>1. /\ chain # "unsent" => sign # "preparing"
      /\ watch = "open" => sign # "preparing"
      /\ retracts \in 0 .. MaxRetracts /\ included \in BOOLEAN /\ link \in BOOLEAN
      /\ MaxRetracts \in Nat
  BY ConstantsOK DEF IInv, TypeOK, WatchHasOwner, ConstantsOK
<1>2. CASE Include
  <2>1. CASE chain' = "block" /\ included' = TRUE /\ Notify("inBlock")
    BY <1>1, <1>2, <2>1, NotifyingStep DEF Include, Statuses
  <2>2. CASE chain' = "reverted" /\ Notify("dispatchError") /\ UNCHANGED included
    BY <1>1, <1>2, <2>2, NotifyingStep DEF Include, Statuses
  <2> QED
    BY <1>2, <2>1, <2>2 DEF Include
<1>3. CASE Retract
  BY <1>1, <1>3, NotifyingStep DEF Retract, Statuses
<1>4. CASE Finalize
  BY <1>1, <1>4, NotifyingStep DEF Finalize, Statuses
<1>5. CASE FinalityTimesOut
  BY <1>1, <1>5, NotifyingStep DEF FinalityTimesOut, Statuses
<1>6. CASE Evict
  <2>1. PICK s \in Evictions : Notify(s)
    BY <1>6 DEF Evict
  <2>2. s \in Statuses /\ s # "inBlock"
    BY <2>1 DEF Statuses, Evictions
  <2> QED
    BY <1>1, <1>6, <2>1, <2>2, NotifyingStep DEF Evict
<1>7. CASE Disconnect
  BY <1>1, <1>7, OutsideStep DEF Disconnect, IInv, TypeOK, InBlockMeansIncluded
<1> QED
  BY <1>2, <1>3, <1>4, <1>5, <1>6, <1>7 DEF ChainStep

-------------------------------------------------------------------------------
\* Settling.  Whatever the error, finish leaves the parts of the invariant that
\* it touches intact.
LEMMA RejectKeeps ==
    ASSUME IInv, NEW error \in Errors, Reject(error), UNCHANGED <<sign, chain, suspended>>,
           told \subseteq told', JobStatusSubscribed => JobStatusSubscribed'
    PROVE  /\ outcome' \in Errors \cup {"resolved"}
           /\ timer' \in BOOLEAN /\ unsubTx' \in BOOLEAN /\ unsubJob' \in BOOLEAN
           /\ watch' \in {"none", "open", "closed"}
           /\ jobSub' \in {"none", "opening", "open", "closed", "failed"}
           /\ jobSub' = "none" <=> jobSub = "none"
           /\ outcome' = "resolved" => outcome = "resolved"
           /\ WatchHasOwner'
           /\ JobSubHasOwner'
<1> USE ErrorCodes DEF IInv, TypeOK, Reject, Settled, Failed
<1>1. CASE Settled
  <2>1. UNCHANGED <<outcome, timer, watch, unsubTx, jobSub, unsubJob>>
    BY <1>1
  <2> QED
    BY <1>1, <2>1 DEF WatchHasOwner, JobSubHasOwner
<1>2. CASE ~Settled
  <2>1. /\ outcome' = error /\ timer' = FALSE /\ unsubTx' = FALSE /\ unsubJob' = FALSE
        /\ watch' = IF unsubTx THEN "closed" ELSE watch
        /\ jobSub' = IF unsubJob THEN "closed" ELSE jobSub
    BY <1>2
  <2>2. WatchHasOwner'
    BY <1>2, <2>1 DEF WatchHasOwner
  <2>3. JobSubHasOwner'
    BY <1>2, <2>1 DEF JobSubHasOwner
  <2>4. jobSub' = "none" <=> jobSub = "none"
    BY <2>1 DEF JobSubHasOwner
  <2> QED
    BY <2>1, <2>2, <2>3, <2>4
<1> QED
  BY <1>1, <1>2

LEMMA ResolveKeeps ==
    ASSUME IInv, Resolve, UNCHANGED <<sign, chain>>
    PROVE  /\ outcome' \in Errors \cup {"resolved"}
           /\ timer' \in BOOLEAN /\ unsubTx' \in BOOLEAN
           /\ watch' \in {"none", "open", "closed"}
           /\ Failed' <=> Failed
           /\ WatchHasOwner'
<1> USE ErrorCodes DEF IInv, TypeOK, Resolve, Settled, Failed
<1>1. CASE Settled
  <2>1. UNCHANGED <<outcome, timer, watch, unsubTx>>
    BY <1>1
  <2> QED
    BY <1>1, <2>1 DEF WatchHasOwner
<1>2. CASE ~Settled
  <2>1. /\ outcome' = "resolved" /\ timer' = FALSE /\ unsubTx' = FALSE
        /\ watch' = IF unsubTx THEN "closed" ELSE watch
    BY <1>2
  <2>2. WatchHasOwner'
    BY <1>2, <2>1 DEF WatchHasOwner
  <2> QED
    BY <1>2, <2>1, <2>2
<1> QED
  BY <1>1, <1>2

LEMMA TimerKeepsIInv == IInv /\ TimerFires => IInv'
<1> SUFFICES ASSUME IInv, TimerFires PROVE IInv'
  OBVIOUS
<1>1. /\ Reject("SubmitTimeout") /\ "SubmitTimeout" \in Errors
      /\ UNCHANGED <<chain, retracts, included, link, sign, notes, suspended, handled, told>>
  BY ErrorCodes DEF TimerFires, chainVars
<1>2. /\ outcome' \in Errors \cup {"resolved"}
      /\ timer' \in BOOLEAN /\ unsubTx' \in BOOLEAN /\ unsubJob' \in BOOLEAN
      /\ watch' \in {"none", "open", "closed"}
      /\ jobSub' \in {"none", "opening", "open", "closed", "failed"}
      /\ jobSub' = "none" <=> jobSub = "none"
      /\ outcome' = "resolved" => outcome = "resolved"
      /\ WatchHasOwner'
      /\ JobSubHasOwner'
  BY <1>1, RejectKeeps DEF JobStatusSubscribed
<1>3. TypeOK'
  BY <1>1, <1>2 DEF IInv, TypeOK
<1>4. InBlockMeansIncluded'
  BY <1>1, <1>2 DEF IInv, InBlockMeansIncluded
<1>5. SubscribedMeansTold'
  BY <1>1, <1>2 DEF IInv, SubscribedMeansTold, JobStatusSubscribed
<1>6. TerminalStatusSettles'
  BY <1>2, ErrorCodes DEF TerminalStatusSettles, Settled
<1> QED
  BY <1>2, <1>3, <1>4, <1>5, <1>6 DEF IInv

-------------------------------------------------------------------------------
\* The answers of signAndSend.
LEMMA SignKeepsIInv == IInv /\ (SignSends \/ SignResolves \/ SignRejects) => IInv'
<1> SUFFICES ASSUME IInv, SignSends \/ SignResolves \/ SignRejects PROVE IInv'
  OBVIOUS
<1> USE ErrorCodes DEF IInv, chainVars
<1>1. CASE SignSends
  <2>1. TypeOK'
    <3>1. notes' \in Seq(Statuses)
      BY <1>1 DEF SignSends, Statuses
    <3> QED
      BY <1>1, <3>1 DEF SignSends, TypeOK
  <2>2. InBlockMeansIncluded' /\ SubscribedMeansTold'
    BY <1>1 DEF SignSends, InBlockMeansIncluded, SubscribedMeansTold, JobStatusSubscribed
  <2>3. WatchHasOwner' /\ JobSubHasOwner' /\ TerminalStatusSettles'
    BY <1>1 DEF SignSends, WatchHasOwner, JobSubHasOwner, TerminalStatusSettles,
                Settled, Failed
  <2> QED
    BY <2>1, <2>2, <2>3
<1>2. CASE SignResolves
  <2>1. TypeOK'
    <3>1. watch' \in {"none", "open", "closed"} /\ unsubTx' \in BOOLEAN
      BY <1>2 DEF SignResolves, TypeOK
    <3> QED
      BY <1>2, <3>1 DEF SignResolves, TypeOK
  <2>2. InBlockMeansIncluded' /\ SubscribedMeansTold'
    BY <1>2 DEF SignResolves, InBlockMeansIncluded, SubscribedMeansTold,
                JobStatusSubscribed
  <2>3. WatchHasOwner' /\ JobSubHasOwner' /\ TerminalStatusSettles'
    BY <1>2 DEF SignResolves, WatchHasOwner, JobSubHasOwner, TerminalStatusSettles,
                Settled, Failed
  <2> QED
    BY <2>1, <2>2, <2>3
<1>3. CASE SignRejects
  <2>1. TypeOK'
    BY ZenonT(40), <1>3 DEF SignRejects, TypeOK
  <2>2. InBlockMeansIncluded' /\ SubscribedMeansTold'
    BY <1>3 DEF SignRejects, InBlockMeansIncluded, SubscribedMeansTold,
                JobStatusSubscribed
  <2>3. WatchHasOwner'
    BY <1>3 DEF SignRejects, WatchHasOwner, Settled
  <2>4. JobSubHasOwner'
    <3>1. sign # "resolved" /\ jobSub = "none"
      BY <1>3 DEF SignRejects, JobSubHasOwner
    <3>2. /\ UNCHANGED <<jobSub, unsubJob, told>>
          /\ sign' = "rejected"
          /\ Failed => Failed'
      BY <1>3 DEF SignRejects, Settled, Failed
    <3> QED
      BY <3>1, <3>2 DEF JobSubHasOwner
  <2>5. TerminalStatusSettles'
    BY <1>3 DEF SignRejects, TerminalStatusSettles, Settled
  <2> QED
    BY <2>1, <2>2, <2>3, <2>4, <2>5
<1> QED
  BY <1>1, <1>2, <1>3

\* The progress of the job, and the end of its subscription.
LEMMA JobKeepsIInv == IInv /\ (JobMatched \/ JobAssigned) => IInv'
<1> SUFFICES ASSUME IInv, JobMatched \/ JobAssigned PROVE IInv'
  OBVIOUS
<1> USE DEF IInv, chainVars, JobMatched, JobAssigned
<1>1. TypeOK'
  BY ZenonT(40) DEF TypeOK
<1>2. InBlockMeansIncluded' /\ SubscribedMeansTold'
  BY DEF InBlockMeansIncluded, SubscribedMeansTold, JobStatusSubscribed
<1>3. WatchHasOwner' /\ JobSubHasOwner' /\ TerminalStatusSettles'
  BY DEF WatchHasOwner, JobSubHasOwner, TerminalStatusSettles, Settled, Failed
<1> QED
  BY <1>1, <1>2, <1>3

\* The answers of the call that opens the job-status subscription.
LEMMA JobSubOpensKeepsIInv == IInv /\ JobSubOpens => IInv'
<1> SUFFICES ASSUME IInv, JobSubOpens PROVE IInv'
  OBVIOUS
<1> USE ErrorCodes DEF IInv
<1>1. /\ UNCHANGED <<chain, retracts, included, link, sign, notes, handled, told>>
      /\ suspended' = "none" /\ jobSub = "opening" /\ jobSub' \in {"open", "closed"}
  BY DEF JobSubOpens, chainVars
<1>2. \/ /\ Failed /\ jobSub' = "closed"
         /\ UNCHANGED <<unsubJob, outcome, timer, watch, unsubTx>>
      \/ /\ ~Failed /\ jobSub' = "open" /\ unsubJob' = TRUE
         /\ UNCHANGED <<outcome, timer, watch, unsubTx>>
      \/ /\ ~Failed /\ jobSub' = "open" /\ unsubJob' = TRUE
         /\ suspended = "inBlock" /\ Resolve
  BY DEF JobSubOpens
<1>3. /\ outcome' \in Errors \cup {"pending", "resolved"}
      /\ timer' \in BOOLEAN /\ unsubTx' \in BOOLEAN /\ unsubJob' \in BOOLEAN
      /\ watch' \in {"none", "open", "closed"}
      /\ Failed' <=> Failed
      /\ WatchHasOwner'
  <2>1. CASE UNCHANGED <<outcome, timer, watch, unsubTx>>
    BY <1>1, <1>2, <2>1 DEF TypeOK, WatchHasOwner, Settled, Failed
  <2>2. CASE Resolve /\ unsubJob' = TRUE
    BY <1>1, <2>2, ResolveKeeps
  <2> QED
    BY <1>2, <2>1, <2>2
<1>4. TypeOK'
  BY <1>1, <1>3 DEF TypeOK
<1>5. outcome' = "resolved" => included /\ JobStatusSubscribed
  BY <1>1, <1>2 DEF InBlockMeansIncluded, SubscribedMeansTold, Resolve, Settled
<1>6. InBlockMeansIncluded' /\ SubscribedMeansTold'
  BY <1>1, <1>5 DEF InBlockMeansIncluded, SubscribedMeansTold, JobStatusSubscribed
<1>7. JobSubHasOwner'
  BY <1>1, <1>2, <1>3 DEF JobSubHasOwner
<1>8. TerminalStatusSettles'
  BY <1>1, <1>2 DEF TerminalStatusSettles, Resolve, Settled
<1> QED
  BY <1>3, <1>4, <1>6, <1>7, <1>8

LEMMA JobSubFailsKeepsIInv == IInv /\ JobSubFails => IInv'
<1> SUFFICES ASSUME IInv, JobSubFails PROVE IInv'
  OBVIOUS
<1> USE ErrorCodes DEF IInv, chainVars, JobSubFails
<1>1. TypeOK'
  BY ZenonT(40) DEF TypeOK
<1>2. InBlockMeansIncluded' /\ SubscribedMeansTold'
  BY DEF InBlockMeansIncluded, SubscribedMeansTold, JobStatusSubscribed
<1>3. WatchHasOwner'
  BY DEF WatchHasOwner, Settled
<1>4. JobSubHasOwner' /\ TerminalStatusSettles'
  BY DEF JobSubHasOwner, TerminalStatusSettles, Settled, Failed
<1> QED
  BY <1>1, <1>2, <1>3, <1>4

-------------------------------------------------------------------------------
\* One status callback.
LEMMA HandleKeepsIInv == IInv /\ HandleEvent => IInv'
<1> SUFFICES ASSUME IInv, HandleEvent PROVE IInv'
  OBVIOUS
<1> DEFINE status == Head(notes)
<1>1. /\ sign = "resolved" /\ notes # <<>> /\ notes' = Tail(notes)
      /\ UNCHANGED <<chain, retracts, included, link, sign>>
      /\ handled' = IF Settled THEN handled ELSE handled \cup {status}
  BY DEF HandleEvent, chainVars
<1>2. /\ notes \in Seq(Statuses)
      /\ status \in Statuses
      /\ notes' \in Seq(Statuses)
      /\ status = "inBlock" => included
      /\ \A i \in 1 .. Len(notes') : notes'[i] = "inBlock" => included
  <2>1. notes \in Seq(Statuses)
    BY DEF IInv, TypeOK
  <2>2. Len(notes) \in Nat /\ Len(notes) > 0
    BY <1>1, <2>1, EmptySeq
  <2>3. status = notes[1] /\ status \in Statuses
    BY <1>1, <2>1, <2>2
  <2>4. /\ notes' \in Seq(Statuses)
        /\ Len(notes') = Len(notes) - 1
        /\ \A i \in 1 .. Len(notes') : notes'[i] = notes[i + 1]
    BY <1>1, <2>1, <2>2
  <2>5. \A i \in 1 .. Len(notes) : notes[i] = "inBlock" => included
    BY DEF IInv, InBlockMeansIncluded
  <2> QED
    BY <2>1, <2>2, <2>3, <2>4, <2>5
<1>3. handled' \subseteq Statuses
  BY <1>1, <1>2 DEF IInv, TypeOK
<1> HIDE DEF status
<1>4. CASE CarriesJob(status) /\ ~JobStatusSubscribed
  <2>1. /\ told' = told \cup {"WaitingForMatch"} /\ jobSub' = "opening"
        /\ suspended' = status
        /\ UNCHANGED <<outcome, timer, watch, unsubTx, unsubJob>>
    BY <1>4 DEF HandleEvent, status
  <2>2. status \notin Terminal /\ "WaitingForMatch" \in told'
    BY <1>4, <2>1 DEF CarriesJob, Terminal, Evictions
  <2>3. TypeOK'
    BY <1>1, <1>2, <1>3, <2>1 DEF IInv, TypeOK
  <2>4. InBlockMeansIncluded'
    BY <1>1, <1>2, <2>1 DEF IInv, InBlockMeansIncluded
  <2>5. SubscribedMeansTold'
    BY <2>2 DEF SubscribedMeansTold, JobStatusSubscribed
  <2>6. WatchHasOwner'
    BY <1>1, <2>1 DEF IInv, WatchHasOwner, Settled
  <2>7. JobSubHasOwner'
    BY <1>1, <1>4, <2>1 DEF IInv, JobSubHasOwner, SubscribedMeansTold
  <2>8. TerminalStatusSettles'
    BY <1>1, <2>1, <2>2 DEF IInv, TerminalStatusSettles, Settled
  <2> QED
    BY <2>3, <2>4, <2>5, <2>6, <2>7, <2>8 DEF IInv
<1>5. CASE ~(CarriesJob(status) /\ ~JobStatusSubscribed)
  <2>1. React(status) /\ UNCHANGED <<told, suspended>>
    BY <1>5 DEF HandleEvent, status
  <2>2. CASE status \in Terminal
    <3>1. Reject(ErrorOf(status)) /\ ErrorOf(status) \in Errors
      BY <2>1, <2>2, ErrorCodes DEF React
    <3>2. /\ outcome' \in Errors \cup {"resolved"}
          /\ timer' \in BOOLEAN /\ unsubTx' \in BOOLEAN /\ unsubJob' \in BOOLEAN
          /\ watch' \in {"none", "open", "closed"}
          /\ jobSub' \in {"none", "opening", "open", "closed", "failed"}
          /\ jobSub' = "none" <=> jobSub = "none"
          /\ outcome' = "resolved" => outcome = "resolved"
          /\ WatchHasOwner'
          /\ JobSubHasOwner'
      BY <1>1, <2>1, <3>1, RejectKeeps DEF JobStatusSubscribed
    <3>3. TypeOK'
      BY <1>1, <1>2, <1>3, <2>1, <3>2 DEF IInv, TypeOK
    <3>4. InBlockMeansIncluded'
      BY <1>1, <1>2, <2>1, <3>2 DEF IInv, InBlockMeansIncluded
    <3>5. SubscribedMeansTold'
      BY <2>1, <3>2 DEF IInv, SubscribedMeansTold, JobStatusSubscribed
    <3>6. TerminalStatusSettles'
      BY <3>2, ErrorCodes DEF TerminalStatusSettles, Settled
    <3> QED
      BY <3>2, <3>3, <3>4, <3>5, <3>6 DEF IInv
  <2>3. CASE status = "inBlock"
    <3>1. /\ Resolve /\ UNCHANGED <<jobSub, unsubJob>> /\ JobStatusSubscribed
          /\ status \notin Terminal
      BY <1>5, <2>1, <2>3 DEF React, CarriesJob, Terminal, Evictions
    <3>2. /\ outcome' \in Errors \cup {"resolved"}
          /\ timer' \in BOOLEAN /\ unsubTx' \in BOOLEAN
          /\ watch' \in {"none", "open", "closed"}
          /\ Failed' <=> Failed
          /\ WatchHasOwner'
      BY <1>1, <3>1, ResolveKeeps
    <3>3. TypeOK'
      BY <1>1, <1>2, <1>3, <2>1, <3>1, <3>2 DEF IInv, TypeOK
    <3>4. InBlockMeansIncluded'
      BY <1>1, <1>2, <2>1, <2>3 DEF IInv, InBlockMeansIncluded
    <3>5. SubscribedMeansTold'
      BY <2>1, <3>1 DEF SubscribedMeansTold, JobStatusSubscribed
    <3>6. JobSubHasOwner'
      BY <1>1, <2>1, <3>1, <3>2 DEF IInv, JobSubHasOwner
    <3>7. TerminalStatusSettles'
      BY <3>2, ErrorCodes DEF TerminalStatusSettles, Settled
    <3> QED
      BY <3>2, <3>3, <3>4, <3>5, <3>6, <3>7 DEF IInv
  <2>4. CASE status \notin Terminal /\ status # "inBlock"
    <3>1. UNCHANGED <<outcome, timer, watch, unsubTx, jobSub, unsubJob>>
      BY <2>1, <2>4 DEF React
    <3>2. TypeOK'
      BY <1>1, <1>2, <1>3, <2>1, <3>1 DEF IInv, TypeOK
    <3>3. InBlockMeansIncluded'
      BY <1>1, <1>2, <2>1, <3>1 DEF IInv, InBlockMeansIncluded
    <3>4. SubscribedMeansTold' /\ WatchHasOwner' /\ JobSubHasOwner'
      BY <1>1, <2>1, <3>1
      DEF IInv, SubscribedMeansTold, JobStatusSubscribed, WatchHasOwner,
          JobSubHasOwner, Settled, Failed
    <3>5. TerminalStatusSettles'
      BY <1>1, <2>4, <3>1 DEF IInv, TerminalStatusSettles, Settled
    <3> QED
      BY <3>2, <3>3, <3>4, <3>5 DEF IInv
  <2> QED
    BY <2>2, <2>3, <2>4
<1> QED
  BY <1>4, <1>5

LEMMA IInvNext == IInv /\ [Next]_vars => IInv'
<1> SUFFICES ASSUME IInv, [Next]_vars PROVE IInv'
  OBVIOUS
<1>1. CASE ChainStep
  BY <1>1, ChainKeepsIInv
<1>2. CASE CallStep
  BY <1>2, SignKeepsIInv, JobSubOpensKeepsIInv, JobSubFailsKeepsIInv DEF CallStep
<1>3. CASE HandleEvent
  BY <1>3, HandleKeepsIInv
<1>4. CASE JobMatched \/ JobAssigned
  BY <1>4, JobKeepsIInv
<1>5. CASE TimerFires
  BY <1>5, TimerKeepsIInv
<1>6. CASE UNCHANGED vars
  BY <1>6 DEF vars, IInv, TypeOK, InBlockMeansIncluded, SubscribedMeansTold,
              JobStatusSubscribed, WatchHasOwner, JobSubHasOwner,
              TerminalStatusSettles, Settled, Failed
<1> QED
  BY <1>1, <1>2, <1>3, <1>4, <1>5, <1>6 DEF Next

LEMMA Invariance == Spec => []IInv
BY IInvInit, IInvNext, PTL DEF Spec

-------------------------------------------------------------------------------
\* The invariant implies each property of the run.
LEMMA LoopInvariantSuffices == IInv => SubmitSafe
<1> SUFFICES ASSUME IInv PROVE SubmitSafe
  OBVIOUS
<1>1. TypeOK /\ TerminalStatusSettles
  BY DEF IInv
<1>2. ResolvedWasIncluded /\ ResolvedKnowsJob
  BY DEF IInv, InBlockMeansIncluded, SubscribedMeansTold, ResolvedWasIncluded,
         ResolvedKnowsJob
<1>3. FailureTearsDown
  <2> SUFFICES ASSUME Failed PROVE (sign # "sent" => watch # "open") /\ jobSub # "open"
    BY DEF FailureTearsDown
  <2>1. Settled
    BY ErrorCodes DEF Failed, Settled
  <2>2. sign \in {"preparing", "sent", "resolved", "rejected"}
    BY DEF IInv, TypeOK
  <2> QED
    BY <2>1, <2>2 DEF IInv, WatchHasOwner, JobSubHasOwner
<1>4. JobSubEndsByAssignment
  BY ErrorCodes DEF IInv, JobSubHasOwner, JobSubEndsByAssignment, Failed
<1> QED
  BY <1>1, <1>2, <1>3, <1>4 DEF SubmitSafe

\* Every variable keeps its type (the state of submitDeployExtrinsicHardened).
THEOREM TypeCorrect == Spec => []TypeOK
BY LoopInvariantSuffices, Invariance, PTL DEF SubmitSafe

\* A resolved promise names an extrinsic that was in a block without an error,
\* and its job has been announced.
THEOREM ResolvedIsReal == Spec => [](ResolvedWasIncluded /\ ResolvedKnowsJob)
BY LoopInvariantSuffices, Invariance, PTL DEF SubmitSafe

\* After a failure nothing stays subscribed once the calls in flight answered.
THEOREM NothingLeftOpen == Spec => []FailureTearsDown
BY LoopInvariantSuffices, Invariance, PTL DEF SubmitSafe

\* After success nothing but the assignment of the job ends its subscription.
THEOREM JobSubLives == Spec => []JobSubEndsByAssignment
BY LoopInvariantSuffices, Invariance, PTL DEF SubmitSafe

\* No callback of a terminal status leaves the promise pending.
THEOREM TerminalSettles == Spec => []TerminalStatusSettles
BY LoopInvariantSuffices, Invariance, PTL DEF SubmitSafe

\* The promise settles at most once.
THEOREM SettlesOnce == Spec => OutcomeFinal
<1>1. [Next]_vars => [Settled => UNCHANGED outcome]_vars
  BY DEF Next, vars, chainVars, loopVars, ChainStep, Include, Retract, Finalize,
         FinalityTimesOut, Evict, Disconnect, CallStep, SignSends, SignResolves,
         SignRejects, JobSubOpens, JobSubFails, HandleEvent, React, Resolve, Reject,
         JobMatched, JobAssigned, TimerFires
<1> QED
  BY <1>1, PTL DEF Spec, OutcomeFinal

\* All of them together: what success and failure mean, what stays open after
\* each, and that a terminal status settles the promise.
THEOREM SubmitIsSafe == Spec => []SubmitSafe
BY LoopInvariantSuffices, Invariance, PTL

(***************************************************************************)
(* The whole deploy.  The submit loop takes the same steps here as on its  *)
(* own, only fewer, so its invariant is the first part of the deploy's.    *)
(***************************************************************************)
\* The parts of the invariant say: the run of the deploy is past the submit
\* loop only with its result; a job subscription is opened, and so the env-var
\* stage armed, only by a status that resolves the promise or by Finalized, of
\* which the history keeps record; and an acknowledgement comes first.
RunFollowsLoop ==
    /\ lockHeld => stage = "submitting"
    /\ stage = "recording" => outcome = "resolved"
    /\ report = "ok" => outcome = "resolved" /\ relayed /\ stage = "reported"

Announced == outcome = "resolved" \/ "finalized" \in handled

JobSubMeansAnnounced ==
    /\ jobSub = "opening" => suspended \in {"inBlock", "finalized"}
    /\ suspended = "finalized" => Settled \/ "finalized" \in handled
    /\ jobSub = "open" => Announced

EnvFollowsJob ==
    envSet \/ envTimer => Announced /\ {"WaitingForMatch", "Acknowledged"} \subseteq told

DInv ==
    /\ IInv
    /\ DeployTypeOK
    /\ RunFollowsLoop
    /\ JobSubMeansAnnounced
    /\ EnvFollowsJob

-------------------------------------------------------------------------------
LEMMA DInvInit == DeployInit => DInv
<1> SUFFICES ASSUME DeployInit PROVE DInv
  OBVIOUS
<1>1. IInv
  BY IInvInit DEF DeployInit
<1>2. DeployTypeOK
  BY <1>1 DEF DeployInit, DeployTypeOK, IInv, Stages, Early, PastLatestStart
<1>3. RunFollowsLoop /\ EnvFollowsJob
  BY DEF DeployInit, RunFollowsLoop, EnvFollowsJob
<1>4. JobSubMeansAnnounced
  BY DEF DeployInit, Init, JobSubMeansAnnounced
<1> QED
  BY <1>1, <1>2, <1>3, <1>4 DEF DInv

\* A step of the deploy is a step of its submit loop, or leaves the loop alone.
LEMMA DeployStepsTheLoop == [DeployNext]_allVars => [Next]_vars
<1> SUFFICES ASSUME [DeployNext]_allVars PROVE [Next]_vars
  OBVIOUS
<1>1. CASE UNCHANGED allVars
  BY <1>1 DEF allVars
<1>2. CASE RunStep
  BY <1>2 DEF RunStep, Upload, AcquireSubmitLock, ReleaseSubmitLock, RecordDeployment
<1>3. CASE LoopStep
  BY <1>3 DEF LoopStep, Next
<1>4. CASE JobAcknowledged
  BY <1>4 DEF JobAcknowledged, Next
<1>5. CASE EnvTimerFires \/ EnvAnswers \/ EnvDeadline \/ Advance
  BY <1>5 DEF EnvTimerFires, EnvAnswers, EnvDeadline, Advance
<1> QED
  BY <1>1, <1>2, <1>3, <1>4, <1>5 DEF DeployNext

\* What the loop has once announced stays: outcomes are final, and the two
\* histories only grow.
LEMMA LoopOnlyAdds ==
    ASSUME [Next]_vars
    PROVE  /\ outcome = "resolved" => outcome' = "resolved"
           /\ Settled => Settled' /\ UNCHANGED outcome
           /\ handled \subseteq handled'
           /\ told \subseteq told'
           /\ Announced => Announced'
<1>1. /\ Settled => outcome' = outcome
      /\ handled \subseteq handled'
      /\ told \subseteq told'
  BY DEF Next, vars, chainVars, loopVars, ChainStep, Include, Retract, Finalize,
         FinalityTimesOut, Evict, Disconnect, CallStep, SignSends, SignResolves,
         SignRejects, JobSubOpens, JobSubFails, HandleEvent, React, Resolve, Reject,
         JobMatched, JobAssigned, TimerFires
<1> QED
  BY <1>1 DEF Settled, Announced

\* The job subscription is only ever opened for a status that announces a
\* success.
LEMMA LoopAnnounces ==
    ASSUME IInv, JobSubMeansAnnounced, [Next]_vars
    PROVE  JobSubMeansAnnounced'
<1>0. /\ outcome \in Errors \cup {"pending", "resolved"}
      /\ notes # <<>> => Head(notes) \in Statuses
  <2>1. outcome \in Errors \cup {"pending", "resolved"} /\ notes \in Seq(Statuses)
    BY DEF IInv, TypeOK
  <2> QED
    BY <2>1
<1>1. CASE HandleEvent
  <2>1. CASE CarriesJob(Head(notes)) /\ ~JobStatusSubscribed
    <3>1. /\ jobSub' = "opening" /\ suspended' = Head(notes) /\ outcome' = outcome
          /\ suspended' \in {"inBlock", "finalized"}
          /\ handled' = IF Settled THEN handled ELSE handled \cup {suspended'}
      BY <1>1, <2>1 DEF HandleEvent, CarriesJob
    <3> QED
      BY <3>1 DEF JobSubMeansAnnounced, Settled
  <2>2. CASE ~(CarriesJob(Head(notes)) /\ ~JobStatusSubscribed)
    <3>1. React(Head(notes)) /\ suspended' = suspended
      BY <1>1, <2>2 DEF HandleEvent
    <3>2. jobSub' = jobSub \/ jobSub' = "closed"
      BY <3>1 DEF React, Reject
    <3> QED
      BY <3>1, <3>2, LoopOnlyAdds DEF JobSubMeansAnnounced
  <2> QED
    BY <2>1, <2>2
<1>2. CASE JobSubOpens
  <2>1. suspended' = "none" /\ jobSub = "opening" /\ jobSub' \in {"closed", "open"}
    BY <1>2 DEF JobSubOpens
  <2>2. ASSUME jobSub' = "open" PROVE Announced'
    <3>1. ~Failed /\ handled' = handled
      BY <1>2, <2>2 DEF JobSubOpens
    <3>2. CASE Settled
      BY <1>0, <3>1, <3>2, LoopOnlyAdds DEF Failed, Settled, Announced
    <3>3. CASE ~Settled /\ suspended = "finalized"
      BY <3>1, <3>3 DEF JobSubMeansAnnounced, Announced
    <3>4. CASE ~Settled /\ suspended = "inBlock"
      BY <1>2, <3>1, <3>4 DEF JobSubOpens, Resolve, Announced
    <3> QED
      BY <2>1, <3>2, <3>3, <3>4 DEF JobSubMeansAnnounced
  <2> QED
    BY <2>1, <2>2 DEF JobSubMeansAnnounced
<1>3. CASE ~HandleEvent /\ ~JobSubOpens
  <2>1. /\ suspended' \in {suspended, "none"}
        /\ suspended' = suspended => jobSub' \in {jobSub, "closed", "failed"}
        /\ suspended' = "none" => jobSub' \in {jobSub, "closed", "failed"}
        /\ jobSub' = "opening" => suspended' = suspended
    BY <1>3 DEF Next, vars, chainVars, loopVars, ChainStep, Include, Retract, Finalize,
         FinalityTimesOut, Evict, Disconnect, CallStep, SignSends, SignResolves,
         SignRejects, JobSubFails, Reject, JobMatched, JobAssigned, TimerFires
  <2> QED
    BY <2>1, LoopOnlyAdds DEF JobSubMeansAnnounced
<1> QED
  BY <1>1, <1>2, <1>3

\* The run of the deploy.
LEMMA RunKeepsUp ==
    ASSUME DInv, [DeployNext]_allVars
    PROVE  RunFollowsLoop'
<1>1. outcome \in Errors \cup {"pending", "resolved"}
  BY DEF DInv, IInv, TypeOK
<1>2. outcome = "resolved" => outcome' = "resolved"
  BY DeployStepsTheLoop, LoopOnlyAdds
<1>3. CASE RunStep
  BY <1>1, <1>2, <1>3
  DEF RunStep, Upload, AcquireSubmitLock, ReleaseSubmitLock, RecordDeployment,
      ReportFailure, DInv, RunFollowsLoop, Settled, Failed, vars
<1>4. CASE UNCHANGED runVars
  BY <1>2, <1>4 DEF runVars, DInv, RunFollowsLoop
<1> QED
  BY <1>3, <1>4 DEF DeployNext, LoopStep, JobAcknowledged, EnvTimerFires, EnvAnswers,
                    EnvDeadline, Advance, allVars

\* The stage of the environment variables.
LEMMA EnvKeepsUp ==
    ASSUME DInv, [DeployNext]_allVars
    PROVE  EnvFollowsJob'
<1>1. /\ Announced => Announced'
      /\ told \subseteq told'
  BY DeployStepsTheLoop, LoopOnlyAdds
<1>2. CASE JobAcknowledged
  <2>1. jobSub = "open" /\ told' = told \cup {"Acknowledged"}
    BY <1>2 DEF JobAcknowledged, JobAssigned
  <2>2. Announced /\ "WaitingForMatch" \in told
    BY <2>1 DEF DInv, IInv, JobSubMeansAnnounced, SubscribedMeansTold, JobStatusSubscribed
  <2> QED
    BY <1>1, <2>1, <2>2 DEF EnvFollowsJob
<1>3. CASE EnvTimerFires
  BY <1>1, <1>3 DEF EnvTimerFires, DInv, EnvFollowsJob
<1>4. CASE ~JobAcknowledged /\ ~EnvTimerFires
  <2>1. UNCHANGED <<envSet, envTimer>>
    BY <1>4 DEF DeployNext, RunStep, Upload, AcquireSubmitLock, ReleaseSubmitLock,
                RecordDeployment, LoopStep, EnvAnswers, EnvDeadline, Advance, allVars,
                envVars
  <2> QED
    BY <1>1, <2>1 DEF DInv, EnvFollowsJob
<1> QED
  BY <1>2, <1>3, <1>4

\* The types of what the deploy adds to the loop.
LEMMA DeployTypes ==
    ASSUME DInv, TypeOK', [DeployNext]_allVars
    PROVE  DeployTypeOK'
<1> USE DEF DInv, DeployTypeOK, Early, WithinTwoMinutes, PastLatestStart
<1>1. CASE RunStep
  BY ZenonT(40), <1>1 DEF RunStep, Upload, AcquireSubmitLock, ReleaseSubmitLock, RecordDeployment,
              ReportFailure, Failed, Stages, envVars
<1>2. CASE LoopStep
  BY <1>2 DEF LoopStep, runVars, envVars
<1>3. CASE JobAcknowledged
  BY <1>3 DEF JobAcknowledged, OnAcknowledged, StartEnv, runVars, envVars
<1>4. CASE EnvTimerFires
  BY <1>4 DEF EnvTimerFires, StartEnv, runVars, envVars
<1>5. CASE EnvAnswers \/ EnvDeadline
  BY <1>5 DEF EnvAnswers, EnvDeadline, runVars
<1>6. CASE Advance
  BY <1>6 DEF Advance, runVars, envVars
<1>7. CASE UNCHANGED allVars
  BY <1>7 DEF allVars, runVars, envVars
<1> QED
  BY <1>1, <1>2, <1>3, <1>4, <1>5, <1>6, <1>7 DEF DeployNext

LEMMA DInvNext == DInv /\ [DeployNext]_allVars => DInv'
<1> SUFFICES ASSUME DInv, [DeployNext]_allVars PROVE DInv'
  OBVIOUS
<1>1. IInv'
  BY DeployStepsTheLoop, IInvNext DEF DInv
<1>2. DeployTypeOK'
  BY <1>1, DeployTypes DEF IInv
<1>3. JobSubMeansAnnounced'
  BY DeployStepsTheLoop, LoopAnnounces DEF DInv
<1> QED
  BY <1>1, <1>2, <1>3, RunKeepsUp, EnvKeepsUp DEF DInv

LEMMA DeployInvariance == DeploySpec => []DInv
BY DInvInit, DInvNext, PTL DEF DeploySpec

-------------------------------------------------------------------------------
\* A deploy that is reported as ok is complete: its extrinsic was in a block,
\* its job is announced, the relay recorded it and the wallet is free.
THEOREM OkIsComplete == DeploySpec => []OkReportIsComplete
<1>1. DInv => OkReportIsComplete
  BY DEF DInv, IInv, InBlockMeansIncluded, SubscribedMeansTold, RunFollowsLoop,
         OkReportIsComplete
<1> QED
  BY <1>1, DeployInvariance, PTL

\* The environment is sent only for a job that was announced and acknowledged.
THEOREM EnvNeedsJob == DeploySpec => [](EnvOnlyAfterSuccess /\ EnvKnowsJob)
<1>1. DInv => EnvOnlyAfterSuccess /\ EnvKnowsJob
  BY DEF DInv, EnvFollowsJob, Announced, EnvOnlyAfterSuccess, EnvKnowsJob
<1> QED
  BY <1>1, DeployInvariance, PTL

\* What a deploy reports and when it sends variables, with the submit loop that
\* runs inside it: all the state invariants of the run.
THEOREM DeployIsSafe == DeploySpec => [](DeploySafe /\ SubmitSafe)
<1>1. DInv => DeployTypeOK
  BY DEF DInv
<1>2. IInv => SubmitSafe
  BY LoopInvariantSuffices
<1> QED
  BY <1>1, <1>2, OkIsComplete, EnvNeedsJob, DeployInvariance, PTL DEF DeploySafe, DInv

\* Inside the deploy, too, the outcome of the submit is final.
THEOREM DeployOutcomeFinal == DeploySpec => OutcomeFinal
<1>1. [DeployNext]_allVars => [Settled => UNCHANGED outcome]_vars
  BY DeployStepsTheLoop, LoopOnlyAdds
<1> QED
  BY <1>1, PTL DEF DeploySpec, OutcomeFinal
===============================================================================
