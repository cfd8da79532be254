----------------------------- MODULE EventLake ------------------------------
(***************************************************************************)
(* The event lake (internal/eventstore) with its two backends side by      *)
(* side, memory.go and sqlite.go, given the same calls; and the simple     *)
(* hunt that scans it (internal/hunt/hunt.go runSimple).                   *)
(*                                                                         *)
(* An event has an id, an action, a time and the words of its search text. *)
(* Host and pid are compared like the action.  0 as a time bound is none.  *)
(***************************************************************************)
EXTENDS Naturals, Sequences, SequencesExt, FiniteSets

CONSTANTS
    Actions,
    Words,          \* what a text may contain, and a query ask for
    Wildcards,      \* words of Words that LIKE reads as patterns
    Times,          \* time stamps, positive
    DefaultLimit,
    ScanCap,        \* scanCap
    Queries,        \* the queries asked
    Hunts,          \* the hunts run: [class, word, limit]
    MaxBatch,       \* bound: events per Append
    MaxEvents       \* bound: events appended

VARIABLES
    appended,   \* number of events appended, the last event's id
    memory,     \* Memory.events
    rows,       \* the table: [seq, event]
    nextSeq     \* AUTOINCREMENT: never used again

vars == <<appended, memory, rows, nextSeq>>

(* Queries are [action, since, until, contains, limit, ascending].         *)
Limit(q) == IF q.limit <= 0 THEN DefaultLimit ELSE q.limit
Cut(s, n) == IF Len(s) > n THEN SubSeq(s, 1, n) ELSE s

Init ==
    /\ appended = 0
    /\ memory = << >>
    /\ rows = << >>
    /\ nextSeq = 1

-----------------------------------------------------------------------------
(* Append.  The table's transaction may fail, as a whole: then the two do  *)
(* not hold the same events and there is nothing to compare.               *)
AppendEvents(batch) ==
    /\ appended + Len(batch) <= MaxEvents
    /\ appended' = appended + Len(batch)
    /\ memory' = memory \o batch
    /\ rows' = rows \o [i \in DOMAIN batch |-> [seq |-> nextSeq + i - 1, event |-> batch[i]]]
    /\ nextSeq' = nextSeq + Len(batch)

(* A faulty Prune of the memory that drops the events at the cutoff too.   *)
KeptAfter(event, before) == event.time > before

(* Memory.Prune keeps what is not before the cutoff.                       *)
Kept(event, before) == event.time >= before

Prune(before) ==
    /\ memory' = SelectSeq(memory, LAMBDA e : Kept(e, before))
    /\ rows' = SelectSeq(rows, LAMBDA r : r.event.time >= before)
    /\ UNCHANGED <<appended, nextSeq>>

Batches ==
    UNION {{[i \in 1..n |-> [id |-> appended + i] @@ b[i]] :
              b \in [1..n -> [action : Actions, time : Times, words : SUBSET Words]]} :
             n \in 1..MaxBatch}

Next == (\E batch \in Batches : AppendEvents(batch)) \/ (\E before \in Times : Prune(before))

Spec == Init /\ [][Next]_vars

-----------------------------------------------------------------------------
(* Query.matches.                                                          *)
matches(q, event) ==
    /\ q.action # "" => event.action = q.action
    /\ q.since # 0 => event.time >= q.since
    /\ q.until # 0 => event.time <= q.until
    /\ q.contains # "" => q.contains \in event.words

(* Memory.Query: a stable sort keeps ties in the order they were appended. *)
MemoryQuery(q) ==
    LET Earlier(i, j) ==
            LET t == memory[i].time  u == memory[j].time IN
            \/ IF q.ascending THEN t < u ELSE t > u
            \/ t = u /\ i < j
        matched == {i \in DOMAIN memory : matches(q, memory[i])}
        order == SetToSortSeq(matched, Earlier)
    IN Cut([k \in DOMAIN order |-> memory[order[k]]], Limit(q))

(* Query.sql: the same predicates, but LIKE has patterns.                  *)
Where(q, event) ==
    /\ matches([q EXCEPT !.contains = ""], event)
    /\ q.contains # "" => q.contains \in event.words \cup Wildcards

(* sqliteStore.Query: ORDER BY ts, seq, both in the same direction.        *)
SqliteQuery(q) ==
    LET Earlier(r, s) ==
            IF q.ascending
            THEN r.event.time < s.event.time \/ (r.event.time = s.event.time /\ r.seq < s.seq)
            ELSE r.event.time > s.event.time \/ (r.event.time = s.event.time /\ r.seq > s.seq)
        order == SetToSortSeq({r \in Range(rows) : Where(q, r.event)}, Earlier)
    IN Cut([k \in DOMAIN order |-> order[k].event], Limit(q))

-----------------------------------------------------------------------------
(* The filters of the where clauses (one that asks for a word stands for   *)
(* them), then the limit of the last pipe that has one.                    *)
FilterThenLimit(scanned, hunt) ==
    LET kept == SelectSeq(scanned, LAMBDA e : hunt.word # "" => hunt.word \in e.words) IN
    IF hunt.limit > 0 THEN Cut(kept, hunt.limit) ELSE kept

(* runSimple: the class ("any" is all) is left to the lake.                *)
StoreQuery(hunt) ==
    [action |-> IF hunt.class = "any" THEN "" ELSE hunt.class, since |-> 0, until |-> 0,
     contains |-> "", limit |-> ScanCap, ascending |-> FALSE]

-----------------------------------------------------------------------------
NoTies == \A i, j \in DOMAIN memory : memory[i].time = memory[j].time => i = j

TimesOf(s) == [i \in DOMAIN s |-> s[i].time]

(* How far the backends are interchangeable (docs/DATA_LAKE.md): asked for *)
(* no wildcard, they return as many events with the same times; the same   *)
(* events in the same order when it is ascending or no two events have the *)
(* same time; and the same set of events when the limit does not cut.      *)
LakesAgree ==
    \A q \in Queries : q.contains \notin Wildcards =>
        LET m == MemoryQuery(q)  s == SqliteQuery(q) IN
        /\ TimesOf(m) = TimesOf(s)
        /\ (q.ascending \/ NoTies) => m = s
        /\ Len(m) < Limit(q) => Range(m) = Range(s)

Satisfies(hunt, event) ==
    /\ hunt.class \in {"any", event.action}
    /\ hunt.word # "" => hunt.word \in event.words

(* The events of s that are no older than the given one, but not it.       *)
NoOlder(s, event) == {e \in s : e.id # event.id /\ e.time >= event.time}

(* A hunt returns events that satisfy it, newest first, and misses one     *)
(* only for as many others, none older, as its limit or scanCap allows     *)
(* (hunt.go runSimple), with either backend.                               *)
HuntFindsAll ==
    \A hunt \in Hunts : \A scanned \in {MemoryQuery(StoreQuery(hunt)), SqliteQuery(StoreQuery(hunt))} :
        LET found == FilterThenLimit(scanned, hunt)
            ofClass == {e \in Range(memory) : hunt.class \in {"any", e.action}}
        IN
        /\ \A i \in DOMAIN found : Satisfies(hunt, found[i])
        /\ \A i, j \in DOMAIN found : i < j => found[i].time >= found[j].time
        /\ \A e \in Range(memory) : Satisfies(hunt, e) =>
              \/ e \in Range(found)
              \/ hunt.limit > 0 /\ Cardinality(NoOlder(Range(found), e)) >= hunt.limit
              \/ Cardinality(NoOlder(ofClass, e)) >= ScanCap
=============================================================================
