---------------------------- MODULE ProcessorChoice ---------------------------
(***************************************************************************)
(* How a processor is chosen (src/acurast-manager.ts): relay               *)
(* pick-processor pins one in the specification of a relay, validator      *)
(* launch takes as many as it has replicas.  The chain is read processor   *)
(* by processor and job by job while it changes, nothing is reserved, and  *)
(* the job is booked later, in a window that begins later too.             *)
(*                                                                         *)
(* Ages are measured by the local clock, windows by that of the chain,     *)
(* which may be behind.  Processors keep to their manager; versions, and   *)
(* jobs without a schedule, are left out.                                  *)
(***************************************************************************)
EXTENDS Integers, Sequences, FiniteSets, Functions

CONSTANTS
    Managed,       \* the processors of the manager, in the order of their addresses
    Pickers,       \* commands that choose
    Bookings,      \* jobs that others, or they, book
    PickAge,       \* the oldest heartbeat that counts, in units of time
    PickDelay,     \* from a choice, or a booking, to the start of the job
    PickLength,    \* what a job takes
    MaxBeats       \* bound: units of time

ASSUME ChoiceConstantsOK ==
    /\ Managed \in Seq(Range(Managed)) /\ IsFiniteSet(Pickers) /\ IsFiniteSet(Bookings)
    /\ PickAge \in Nat /\ PickDelay \in Nat /\ PickLength \in Nat \ {0} /\ MaxBeats \in Nat

VARIABLES
    clocks,        \* here and on the chain
    beats,         \* the heartbeat of each processor
    booked,        \* the jobs
    picker         \* the commands

choiceVars == <<clocks, beats, booked, picker>>

Fleet == Range(Managed)
NoBeat == -1
NoJob == [state |-> "none", on |-> Managed[1], from |-> 0, to |-> 0]

\* "gone": its registration is, and its match is still listed.
JobStates == {"none", "matched", "gone", "over"}
PickKinds == {"auto", "named", "launch"}
PickPlaces == {"idle", "list", "reads", "picked", "failed", "booked", "refused"}
Looks == {"beat", "matches", "jobs", "done"}

ChainJobs ==
    {j \in [state : JobStates, on : Fleet, from : Nat, to : Nat] : j.state # "none" => j.from < j.to}

Lookings ==
    [at : Looks, beat : {NoBeat} \cup 0..MaxBeats, listed : SUBSET Bookings, left : SUBSET Bookings,
     conflicts : Nat]

Choosers ==
    [kind : PickKinds, named : Fleet, force : BOOLEAN, excluded : SUBSET Fleet,
     count : 1..Len(Managed), at : PickPlaces, start : Nat, called : 0..MaxBeats,
     look : [Fleet -> Lookings], choice : SUBSET Fleet, steady : SUBSET Fleet,
     clash : SUBSET Bookings]

ChoiceTypeOK ==
    /\ clocks \in [here : 0..MaxBeats, chain : 0..MaxBeats] /\ clocks.chain <= clocks.here
    /\ beats \in [Fleet -> {NoBeat} \cup 0..MaxBeats] /\ \A p \in Fleet : beats[p] <= clocks.chain
    /\ booked \in [Bookings -> ChainJobs]
    /\ picker \in [Pickers -> Choosers]
    /\ \A c \in Pickers, p \in Fleet :
          LET look == picker[c].look[p] IN
          /\ look.left \subseteq look.listed
          /\ look.listed \subseteq {j \in Bookings : booked[j].on = p}
          /\ look.conflicts <= Cardinality(look.listed \ look.left)

NoLook == [at |-> "beat", beat |-> NoBeat, listed |-> {}, left |-> {}, conflicts |-> 0]

ChoiceInit ==
    /\ clocks = [here |-> 0, chain |-> 0]
    /\ beats = [p \in Fleet |-> NoBeat]
    /\ booked = [j \in Bookings |-> NoJob]
    /\ \E kind \in PickKinds, p \in Fleet, force \in BOOLEAN, out \in {{}, {Managed[1]}},
          n \in 1..Len(Managed) :
          /\ kind # "named" => p = Managed[1] /\ ~force
          /\ kind # "auto" => out = {}
          /\ kind # "launch" => n = 1
          /\ picker = [c \in Pickers |->
                [kind |-> kind, named |-> p, force |-> force, excluded |-> out, count |-> n,
                 at |-> "idle", start |-> 0, called |-> 0, look |-> [q \in Fleet |-> NoLook],
                 choice |-> {}, steady |-> {}, clash |-> {}]]

(***************************************************************************)
(* The chain                                                               *)
(***************************************************************************)

\* Reference: the instants that a choice asks for, both ends included, and
\* those that a job takes.
Asked(start) == start..(start + PickLength)
Taken(job) == job.from..(job.to - 1)

FreeIn(jobs, p, instants) ==
    \A j \in Bookings :
        jobs[j].state = "matched" /\ jobs[j].on = p => Taken(jobs[j]) \cap instants = {}

\* The processors that a command could have: with a heartbeat, and free.
Suits(start, time, beat, jobs) ==
    {p \in Fleet : /\ beat[p] # NoBeat /\ time.here - beat[p] <= PickAge
                   /\ FreeIn(jobs, p, Asked(start))}

\* "steady": those that it could have ever since it began.
\* Bound: the chain is followed until all have chosen.
ChainStep(time, beat, jobs) ==
    /\ \E c \in Pickers : picker[c].at \notin {"failed", "booked", "refused"}
    /\ clocks' = time /\ beats' = beat /\ booked' = jobs
    /\ picker' = [c \in Pickers |->
          [picker[c] EXCEPT !.steady = @ \cap Suits(picker[c].start, time, beat, jobs)]]

TimeGoesOn ==
    /\ clocks.here < MaxBeats
    /\ \E t \in clocks.chain..(clocks.here + 1) :
          ChainStep([here |-> clocks.here + 1, chain |-> t], beats, booked)

Beats(p) ==
    /\ beats[p] # clocks.chain
    /\ ChainStep(clocks, [beats EXCEPT ![p] = clocks.chain], booked)

OthersBook(j, p) ==
    /\ booked[j].state = "none"
    /\ \E from \in clocks.chain..(MaxBeats + PickDelay + PickLength) :
          LET job == [state |-> "matched", on |-> p, from |-> from, to |-> from + PickLength] IN
          /\ FreeIn(booked, p, Taken(job))
          /\ ChainStep(clocks, beats, [booked EXCEPT ![j] = job])

JobEnds(j) ==
    \/ /\ booked[j].state = "matched"
       /\ ChainStep(clocks, beats, [booked EXCEPT ![j].state = "gone"])
    \/ /\ booked[j].state = "gone"
       /\ ChainStep(clocks, beats, [booked EXCEPT ![j].state = "over"])

(***************************************************************************)
(* discoverManagerProcessors                                               *)
(***************************************************************************)

Chooses(c, next) ==
    /\ picker' = [picker EXCEPT ![c] = next]
    /\ UNCHANGED <<clocks, beats, booked>>

ReadChainTime(c) ==
    LET start == clocks.chain + PickDelay IN
    /\ picker[c].at = "idle"
    /\ Chooses(c, [picker[c] EXCEPT !.at = "list", !.start = start,
                      !.steady = Suits(start, clocks, beats, booked)])

\* All processors are asked for at once; their ages count from now.
ListManaged(c) ==
    /\ picker[c].at = "list"
    /\ Chooses(c, [picker[c] EXCEPT !.at = "reads", !.called = clocks.here])

ReadBeat(c, p) ==
    /\ picker[c].at = "reads" /\ picker[c].look[p].at = "beat"
    /\ Chooses(c, [picker[c] EXCEPT !.look[p] = [@ EXCEPT !.at = "matches", !.beat = beats[p]]])

ListMatches(c, p) ==
    LET listed == {j \in Bookings : booked[j].on = p /\ booked[j].state \in {"matched", "gone"}} IN
    /\ picker[c].at = "reads" /\ picker[c].look[p].at = "matches"
    /\ Chooses(c, [picker[c] EXCEPT !.look[p] =
          [@ EXCEPT !.listed = listed, !.left = listed,
                    !.at = IF listed = {} THEN "done" ELSE "jobs"]])

\* Only jobs that begin in the window.
BeginsWithin(job, start) == job.from < start + PickLength + 1 /\ start <= job.from

Overlaps(job, start) == job.from < start + PickLength + 1 /\ start < job.to

\* One registration after the other; one that is gone is no conflict.
ReadBooking(c, p) ==
    LET now == picker[c].look[p] IN
    /\ picker[c].at = "reads" /\ now.at = "jobs"
    /\ \E j \in now.left :
          Chooses(c, [picker[c] EXCEPT !.look[p] =
              [now EXCEPT !.left = now.left \ {j},
                          !.conflicts =
                              IF booked[j].state = "matched" /\ Overlaps(booked[j], picker[c].start)
                              THEN now.conflicts + 1 ELSE now.conflicts,
                          !.at = IF now.left = {j} THEN "done" ELSE "jobs"]])

(***************************************************************************)
(* The choice                                                              *)
(***************************************************************************)

\* An age is not negative.
BeatAge(c, p) == LET age == picker[c].called - picker[c].look[p].beat IN IF age < 0 THEN 0 ELSE age

\* classifyProcessorReadiness; without a heartbeat there is no age.
ReadyToPick(c, p) ==
    /\ picker[c].look[p].beat # NoBeat /\ BeatAge(c, p) <= PickAge
    /\ picker[c].look[p].conflicts = 0

Place(p) == CHOOSE i \in DOMAIN Managed : Managed[i] = p

\* rankProcessors: conflicts, matches, then the last heartbeat; the sort is stable.
RanksBefore(c, p, q) ==
    LET a == picker[c].look[p]
        b == picker[c].look[q]
        keys == <<a.conflicts - b.conflicts, Cardinality(a.listed) - Cardinality(b.listed),
                  b.beat - a.beat, Place(p) - Place(q)>>
    IN \E i \in 1..4 : keys[i] < 0 /\ \A k \in 1..(i - 1) : keys[k] = 0

Available(c) == {p \in Fleet \ picker[c].excluded : ReadyToPick(c, p)}

\* A processor that is named need not be alive.
NamedMayBePicked(c) == picker[c].look[picker[c].named].conflicts = 0 \/ picker[c].force

\* Nothing, unless there are as many as it needs.
EnoughToPick(c) ==
    IF picker[c].kind = "named" THEN NamedMayBePicked(c)
    ELSE Cardinality(Available(c)) >= picker[c].count

\* selectReadyProcessors: those that rank before all others.
Picks(c) ==
    IF picker[c].kind = "named" THEN {{picker[c].named}}
    ELSE {best \in SUBSET Available(c) :
             /\ Cardinality(best) = picker[c].count
             /\ \A p \in best, q \in Available(c) \ best : RanksBefore(c, p, q)}

Choose(c) ==
    /\ picker[c].at = "reads" /\ \A p \in Fleet : picker[c].look[p].at = "done"
    /\ \/ ~EnoughToPick(c) /\ Chooses(c, [picker[c] EXCEPT !.at = "failed"])
       \/ /\ EnoughToPick(c)
          /\ \E best \in Picks(c) : Chooses(c, [picker[c] EXCEPT !.choice = best, !.at = "picked"])

\* The deploy, later: launch counts from the time of the chain as it is then,
\* a relay's from the local one.  The chain takes the job if all that were
\* chosen are free.  What was booked is not followed.
Book(c) ==
    LET start == PickDelay + (IF picker[c].kind = "launch" THEN clocks.chain ELSE clocks.here)
        job(p) == [state |-> "matched", on |-> p, from |-> start, to |-> start + PickLength]
        clash == {j \in Bookings : /\ booked[j].state = "matched"
                                   /\ booked[j].on \in picker[c].choice
                                   /\ Taken(booked[j]) \cap Taken(job(booked[j].on)) # {}}
    IN
    /\ picker[c].at = "picked"
    /\ Chooses(c, [picker[c] EXCEPT !.at = IF clash = {} THEN "booked" ELSE "refused",
                      !.clash = clash])

ChoiceNext ==
    \/ TimeGoesOn
    \/ \E p \in Fleet : Beats(p) \/ \E j \in Bookings : OthersBook(j, p)
    \/ \E j \in Bookings : JobEnds(j)
    \/ \E c \in Pickers :
          \/ ReadChainTime(c) \/ ListManaged(c) \/ Choose(c) \/ Book(c)
          \/ \E p \in Fleet : ReadBeat(c, p) \/ ListMatches(c, p) \/ ReadBooking(c, p)

ChoiceSpec == ChoiceInit /\ [][ChoiceNext]_choiceVars

(***************************************************************************)
(* Properties                                                              *)
(***************************************************************************)

\* A choice fails only if too few processors were alive and free in its window
\* from its first read to its last, however the chain changed in between.
FailsOnlyIfScarce ==
    \A c \in Pickers :
        picker[c].at = "failed" =>
            IF picker[c].kind = "named" THEN picker[c].named \notin picker[c].steady
            ELSE Cardinality(picker[c].steady \ picker[c].excluded) < picker[c].count

\* The chain refuses a job that was not forced only for one that was matched
\* after the matches of its processor were read, or that lies outside of the
\* window as it was when it was read.
RefusedOnlyIfChanged ==
    \A c \in Pickers : \A j \in picker[c].clash :
        \/ j \notin picker[c].look[booked[j].on].listed
        \/ Taken(booked[j]) \cap Asked(picker[c].start) = {}
        \/ picker[c].force

\* What a choice of processors may end in, however the chain moves under its
\* reads: it comes out short, and is refused the booking, only for a reason.
ChoiceSafe == ChoiceTypeOK /\ FailsOnlyIfScarce /\ RefusedOnlyIfChanged
===============================================================================
