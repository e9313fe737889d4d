---------------------------- MODULE RelayAuthority ----------------------------
(***************************************************************************)
(* Which relay settles a window (src/relay-leadership.ts), and until when  *)
(* one that runs as a job may act at all (src/relay-lifecycle.ts).  Every  *)
(* relay decides by itself: from its own list of the members, its own      *)
(* clock, and the ends of its schedule that it has heard of.  Nobody tells *)
(* it what the others found.                                               *)
(*                                                                         *)
(* A member is the rank of its score in this window: the score is a        *)
(* digest, so any order may come out, and this is one.  A member that is   *)
(* not active counts as one that is not listed.  The window ended at 0.    *)
(***************************************************************************)
EXTENDS Integers, Sequences, FiniteSets, Functions

CONSTANTS
    Deciders,   \* the relays that decide
    Ranks,      \* the members that can be listed, by the order of their scores
    MaxList,    \* bound: the entries of a list
    Grace,      \* failoverGraceSeconds
    Runway,     \* authorityRunwayMs
    MaxSkew,    \* bound: how far clocks differ
    MaxSources, \* bound: the sources of a schedule's end
    MaxInstant      \* bound: the time

ASSUME AuthorityOK == /\ Ranks \subseteq Nat /\ Grace \in Nat \ {0} /\ Runway \in Nat
                      /\ {MaxList, MaxSkew, MaxSources, MaxInstant} \subseteq Nat

VARIABLES
    instant,    \* the time
    lists,      \* the members as each decider has them
    ahead,      \* how far the clock of each is ahead
    ends,       \* the ends of its schedule that one of them has heard of
    lapsed      \* history: that one lost its authority

authorityVars == <<instant, lists, ahead, ends, lapsed>>

MemberLists == UNION {[1..n -> Ranks] : n \in 0..MaxList}

AuthorityTypeOK ==
    /\ instant \in 0..MaxInstant
    /\ lists \in [Deciders -> MemberLists]
    /\ ahead \in [Deciders -> 0..MaxSkew]
    /\ ends \subseteq 0..MaxInstant
    /\ lapsed \in BOOLEAN

AuthorityInit ==
    /\ instant = 0
    /\ lists \in [Deciders -> MemberLists]
    /\ ahead \in [Deciders -> 0..MaxSkew]
    /\ ends = {}
    /\ lapsed = FALSE

ClockOf(d) == instant + ahead[d]

(***************************************************************************)
(* Leadership                                                              *)
(***************************************************************************)

\* activeUniqueRelayIds: the active ones, each once.
ActiveUnique(list) == Range(list)

InOrder(ids, Before(_, _)) ==
    CHOOSE order \in [1..Cardinality(ids) -> ids] :
        Range(order) = ids /\ \A i, k \in DOMAIN order : i < k => Before(order[i], order[k])

\* As they are listed.
OrderedAsListed(list) ==
    LET first(rank) == CHOOSE i \in DOMAIN list : list[i] = rank /\ \A k \in 1..(i - 1) : list[k] # rank
    IN InOrder(ActiveUnique(list), LAMBDA a, b : first(a) < first(b))

\* orderedSettlementRelayIds: by the score.
OrderedIds(list) == InOrder(ActiveUnique(list), LAMBDA a, b : a < b)

\* selectSettlementLeader: each has its grace, and the last keeps it.
LeaderIndex(ids, clock) ==
    LET passed == clock \div Grace
    IN IF passed < Len(ids) THEN passed + 1 ELSE Len(ids)

Leader(d) ==
    LET ids == OrderedIds(lists[d])
    IN IF ids = <<>> THEN -1 ELSE ids[LeaderIndex(ids, ClockOf(d))]

(***************************************************************************)
(* Authority                                                               *)
(***************************************************************************)

\* selectEarliestRelayScheduleEnd, of the ends that are positive.
EarliestEnd(known) == CHOOSE e \in known : \A f \in known : e <= f

\* classifyRelayLifecycle
Lifecycle(clock) ==
    LET known == {e \in ends : e > 0} IN
    IF known = {} THEN "unknown"
    ELSE IF clock >= EarliestEnd(known) THEN "expired"
    ELSE IF clock >= EarliestEnd(known) - Runway THEN "draining"
    ELSE "authority_eligible"

Lapses == lapsed' = (lapsed \/ Lifecycle(instant)' \in {"draining", "expired"})

Ticks ==
    /\ instant < MaxInstant
    /\ instant' = instant + 1
    /\ UNCHANGED <<lists, ahead, ends>>
    /\ Lapses

\* The end of the schedule is heard of from one more source.
Hears ==
    /\ Cardinality(ends) < MaxSources
    /\ \E e \in 0..MaxInstant : ends' = ends \cup {e}
    /\ UNCHANGED <<instant, lists, ahead>>
    /\ Lapses

AuthorityNext == Ticks \/ Hears

AuthoritySpec == AuthorityInit /\ [][AuthorityNext]_authorityVars

(***************************************************************************)
(* Properties                                                              *)
(***************************************************************************)

\* Deciders who know the same active members and whose clocks are less than the
\* grace apart name the same leader, or one names the next after the other's:
\* in whatever order, and however often, the members were listed to them.
LeadersAreNeighbours ==
    \A d, e \in Deciders :
        LET known == ActiveUnique(lists[d]) IN
        ActiveUnique(lists[e]) = known /\ ahead[d] - ahead[e] \in 0..Grace - 1 =>
            /\ Leader(d) >= Leader(e)
            /\ ~\E r \in known : Leader(e) < r /\ r < Leader(d)
            /\ ahead[d] = ahead[e] => Leader(d) = Leader(e)

\* Authority that has ended is not had again, whatever is heard of the schedule
\* afterwards: a relay never signs again after it handed over.
AuthorityLapsesForGood == lapsed => Lifecycle(instant) \in {"draining", "expired"}

\* With clocks that differ and schedules of any length, relays that lead at
\* once follow each other, and one that handed over does not lead again.
AuthoritySafe == AuthorityTypeOK /\ LeadersAreNeighbours /\ AuthorityLapsesForGood
===============================================================================
