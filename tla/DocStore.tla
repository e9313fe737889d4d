------------------------------- MODULE DocStore -------------------------------
(***************************************************************************)
(* JsonFileReplicatedDocumentStore (src/replicated-doc-store.ts): calls on *)
(* instances that keep a snapshot in memory and share one JSON file.       *)
(*                                                                         *)
(* A call reads the file, then in one step makes it the snapshot of its    *)
(* instance and changes that, then writes back whatever the snapshot of    *)
(* the instance is by then.  While a write is under way the file holds     *)
(* part of it, and a process that ends there leaves it so.                 *)
(*                                                                         *)
(* `serial` says how the callers behave: one call at a time, or not.  The  *)
(* class does not see to it.                                               *)
(***************************************************************************)
EXTENDS FileContents, Naturals, FiniteSets

CONSTANTS
    Calls,      \* the calls
    InstanceOf, \* the instance of the class a call is made on
    Owners,     \* owners of the lease
    MaxNow,     \* bound of the clock
    Ttl         \* how long a lease lasts

ASSUME DocConstants == Ttl \in Nat \ {0} /\ MaxNow \in Nat

\* StoreSnapshot: a document stands in the feed with its last revision.
Revisions == [gen : Nat, seq : Nat, value : Calls]
Documents == [rev : Revisions, value : Calls, deleted : BOOLEAN]
Leases == [owner : Owners, token : Calls, until : Nat]
Snapshots ==
    {s \in [seq : Nat, doc : Documents \cup {Absent}, lease : Leases \cup {Absent},
            feed : SUBSET Revisions] : s.doc # Absent => s.doc.rev \in s.feed}

ASSUME NoSnapshotOK == Torn \notin Snapshots /\ Absent \notin Documents \cup Leases

VARIABLES
    serial,     \* callers wait for each other
    now,        \* the clock
    file,       \* the snapshot in the file, or Torn
    memory,     \* the snapshot of each instance
    calls       \* each call: where it is, its arguments, what it read and will write

docVars == <<serial, now, file, memory, calls>>

\* What the file held before the write that is under way, or was when its
\* process ended.
Stored ==
    IF file # Torn THEN file
    ELSE calls[CHOOSE c \in Calls : calls[c].at \in {"writing", "tore"}].seen

\* A value is named by the call that puts it, a token by the call that draws it.
Abs == INSTANCE DocSpec WITH store <- Stored, Values <- Calls, Tokens <- Calls

DocKinds == {"get", "put", "delete", "acquire", "release"}
Ongoing == {"reading", "read", "making", "writing"}

Idle == [at |-> "idle", kind |-> "get", arg |-> Absent,
         seen |-> Absent, out |-> Absent, alone |-> TRUE]

DocPlaces == Ongoing \cup {"idle", "done", "refused", "threw", "died", "tore"}

DocTypeOK ==
    /\ serial \in BOOLEAN /\ now \in 0 .. MaxNow
    /\ file \in Snapshots \cup {Torn}
    /\ memory \in [{InstanceOf[c] : c \in Calls} -> Snapshots]
    /\ calls \in [Calls ->
          [at : DocPlaces, kind : DocKinds, arg : Owners \cup Calls \cup Revisions \cup {Absent},
           seen : Snapshots \cup {Absent, Torn}, out : Snapshots \cup {Absent}, alone : BOOLEAN]]

DocInit ==
    /\ serial \in BOOLEAN
    /\ now = 0
    /\ file = Abs!Empty
    /\ memory = [i \in {InstanceOf[c] : c \in Calls} |-> Abs!Empty]
    /\ calls = [c \in Calls |-> Idle]

Going(c) == calls[c].at \in Ongoing

\* The argument of a call: the revision expected, which is one the caller saw in
\* the file, or none; the owner; the token of a lease.
Arguments(kind) ==
    CASE kind \in {"put", "delete"} -> {Absent, Abs!RevOf(Stored.doc)}
      [] kind = "acquire"           -> Owners
      [] kind = "release"           -> {c \in Calls : calls[c].kind = "acquire"}
      [] OTHER                      -> {Absent}

Begin(c) ==
    /\ calls[c].at = "idle"
    /\ serial => \A d \in Calls : ~Going(d)
    /\ \E k \in DocKinds : \E a \in Arguments(k) :
        calls' = [d \in Calls |->
            IF d = c
            THEN [Idle EXCEPT !.at = "reading", !.kind = k, !.arg = a,
                              !.alone = \A x \in Calls : ~Going(x)]
            ELSE [calls[d] EXCEPT !.alone = @ /\ ~Going(d)]]
    /\ UNCHANGED <<serial, now, file, memory>>

\* readFile.  A part of a snapshot does not parse: the call throws.
Read(c) ==
    /\ calls[c].at = "reading"
    /\ calls' = [calls EXCEPT ![c].at = IF file = Torn THEN "threw" ELSE "read",
                              ![c].seen = file]
    /\ UNCHANGED <<serial, now, file, memory>>

(***************************************************************************)
(* The change a call makes to the snapshot s it read: what it becomes and  *)
(* how the call goes on.                                                   *)
(***************************************************************************)

Throws(c, s) ==
    \/ calls[c].kind \in {"put", "delete"} /\ ~Abs!RevisionIs(s, calls[c].arg)
    \/ calls[c].kind = "delete" /\ s.doc = Absent

HoldsToken(c, s) == s.lease # Absent /\ s.lease.token = calls[c].arg

Changed(c, s) ==
    CASE calls[c].kind = "put"     -> Abs!AfterPut(s, c)
      [] calls[c].kind = "delete"  -> Abs!AfterDelete(s)
      [] calls[c].kind = "acquire" -> IF Abs!Refused(s, calls[c].arg, now) THEN s
                                      ELSE Abs!AfterAcquire(s, calls[c].arg, c, now)
      [] calls[c].kind = "release" -> IF HoldsToken(c, s) THEN [s EXCEPT !.lease = Absent] ELSE s
      [] OTHER                     -> s

\* A lease that was refused is written back all the same; a release that was
\* not is not.
Writes(c, s) ==
    \/ calls[c].kind \in {"put", "delete", "acquire"}
    \/ calls[c].kind = "release" /\ HoldsToken(c, s)

\* reload sets the snapshot, the operation changes it: one step of the thread.
Apply(c) ==
    LET s == calls[c].seen IN
    /\ calls[c].at = "read"
    /\ IF Throws(c, s)
       THEN /\ memory' = [memory EXCEPT ![InstanceOf[c]] = s]
            /\ calls' = [calls EXCEPT ![c].at = "refused"]
       ELSE /\ memory' = [memory EXCEPT ![InstanceOf[c]] = Changed(c, s)]
            /\ calls' = [calls EXCEPT ![c].at = IF Writes(c, s) THEN "making" ELSE "done"]
    /\ UNCHANGED <<serial, now, file>>

\* After mkdir, flush takes the snapshot of the instance as it is by then.
StartWrite(c) ==
    /\ calls[c].at = "making"
    /\ file' = Torn
    /\ calls' = [calls EXCEPT ![c].at = "writing", ![c].out = memory[InstanceOf[c]]]
    /\ UNCHANGED <<serial, now, memory>>

EndWrite(c) ==
    /\ calls[c].at = "writing"
    /\ file' = calls[c].out
    /\ calls' = [calls EXCEPT ![c].at = "done"]
    /\ UNCHANGED <<serial, now, memory>>

\* The process of a call ends: the file stays as it is.
Die(c) ==
    /\ Going(c)
    /\ calls' = [calls EXCEPT ![c].at = IF @ = "writing" THEN "tore" ELSE "died"]
    /\ UNCHANGED <<serial, now, file, memory>>

DocTick ==
    /\ now < MaxNow
    /\ now' = now + 1
    /\ UNCHANGED <<serial, file, memory, calls>>

DocCall(c) == Begin(c) \/ Read(c) \/ Apply(c) \/ StartWrite(c) \/ EndWrite(c) \/ Die(c)

DocNext == (\E c \in Calls : DocCall(c)) \/ DocTick

DocSpecification == DocInit /\ [][DocNext]_docVars

(***************************************************************************)
(* Properties                                                              *)
(***************************************************************************)

\* Callers that wait for each other see the store that DocSpec describes: a call
\* takes effect at once or, when its process ends, not at all.
SerialIsAtomic == [][serial => (Abs!Next \/ UNCHANGED <<Stored, now>>)]_docVars

\* A put that no call overlapped stays in the feed, whatever later calls on
\* whatever instances overlap each other.
AloneIsKept ==
    \A c \in Calls :
        (calls[c].kind = "put" /\ calls[c].at = "done" /\ calls[c].alone /\ file # Torn)
            => calls[c].out.doc.rev \in file.feed

Granted(c) ==
    /\ calls[c].kind = "acquire" /\ calls[c].at = "done" /\ calls[c].alone
    /\ calls[c].out.lease.token = c

\* A lease that was granted without an overlap is its owner's until it runs out
\* or is released.
LeaseIsKept ==
    \A c \in Calls :
        (/\ Granted(c) /\ calls[c].out.lease.until > now /\ file # Torn
         /\ \A d \in Calls : ~(calls[d].kind = "release" /\ calls[d].at # "idle"))
            => file.lease # Absent /\ file.lease.owner = calls[c].arg

\* The document store keeps what nobody overlapped, and calls that do not
\* overlap make the steps of DocSpec.
DocStoreSound == [](DocTypeOK /\ AloneIsKept /\ LeaseIsKept) /\ SerialIsAtomic
=============================================================================
