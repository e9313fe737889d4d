-------------------------------- MODULE DocSpec --------------------------------
(***************************************************************************)
(* What a ReplicatedDocumentStore promises a caller: every operation       *)
(* happens at once, on the one document and the one lease of the model.    *)
(* put and delete compare the revision first; a revision names the         *)
(* generation, the sequence number and the value, as nextRevision hashes   *)
(* them.  A deleted document keeps its revision.  A lease is granted when  *)
(* there is none, when it has run out, or to its owner again.              *)
(***************************************************************************)
EXTENDS Naturals

CONSTANTS Values, Owners, Tokens, Ttl, Absent

VARIABLES
    store,   \* [seq, doc, lease, feed]: the snapshot that every caller sees
    now      \* the clock

Revision(gen, seq, value) == [gen |-> gen, seq |-> seq, value |-> value]

RevOf(doc) == IF doc = Absent THEN Absent ELSE doc.rev

GenOf(doc) == IF doc = Absent THEN 0 ELSE doc.rev.gen

\* assertExpectedRevision: the tombstone of a deleted document counts.
RevisionIs(s, expected) == expected = RevOf(s.doc)

\* Forgets to tell the change feed of a deletion.
QuietDelete(s, value, deleted) ==
    LET seq == s.seq + 1
        rev == Revision(GenOf(s.doc) + 1, seq, value)
    IN  [s EXCEPT !.seq = seq,
                  !.doc = [rev |-> rev, value |-> value, deleted |-> deleted],
                  !.feed = IF deleted THEN @ ELSE @ \cup {rev}]

\* The document, its next sequence number and the feed move together.
WithDocument(s, value, deleted) ==
    LET seq == s.seq + 1
        rev == Revision(GenOf(s.doc) + 1, seq, value)
    IN  [s EXCEPT !.seq = seq,
                  !.doc = [rev |-> rev, value |-> value, deleted |-> deleted],
                  !.feed = @ \cup {rev}]

AfterPut(s, value) == WithDocument(s, value, FALSE)

AfterDelete(s) == WithDocument(s, s.doc.value, TRUE)

\* A lease of another owner that has not run out.
Refused(s, owner, time) == s.lease # Absent /\ s.lease.until > time /\ s.lease.owner # owner

AfterAcquire(s, owner, token, time) ==
    [s EXCEPT !.lease = [owner |-> owner, token |-> token, until |-> time + Ttl]]

Empty == [seq |-> 0, doc |-> Absent, lease |-> Absent, feed |-> {}]

Init == store = Empty /\ now = 0

Put == \E v \in Values : store' = AfterPut(store, v)

Delete == store.doc # Absent /\ store' = AfterDelete(store)

\* The caller looked at the clock no later than now.
Acquire ==
    \E o \in Owners, t \in Tokens, at \in 0 .. now :
        ~Refused(store, o, at) /\ store' = AfterAcquire(store, o, t, at)

Release == store.lease # Absent /\ store' = [store EXCEPT !.lease = Absent]

Change == (Put \/ Delete \/ Acquire \/ Release) /\ UNCHANGED now

Tick == now' = now + 1 /\ UNCHANGED store

Next == Change \/ Tick

Spec == Init /\ [][Next]_<<store, now>>
===============================================================================
