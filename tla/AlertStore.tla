----------------------------- MODULE AlertStore -----------------------------
(***************************************************************************)
(* The alert history of the fleet store (server/store) with its two        *)
(* backends side by side, memory.go and sqlite.go, given the same calls.   *)
(* The memory keeps the last maxRetainedAlerts; the table everything, but  *)
(* a failed insert is only logged.                                         *)
(*                                                                         *)
(* An alert has an id, a host and a time; severity, technique and incident *)
(* flag are filtered like the host.  0 as a time bound or limit is none.   *)
(***************************************************************************)
EXTENDS Naturals, Sequences, SequencesExt, FiniteSets

CONSTANTS
    Hosts,
    Times,              \* positive
    maxRetainedAlerts,
    MaxAlerts           \* bound: alerts recorded

VARIABLES
    recorded,   \* every alert recorded, in order; an alert's place is its id
    memory,     \* Memory.alerts
    rows,       \* the alerts in the table, by rowid
    lost        \* ids of the alerts whose insert failed

vars == <<recorded, memory, rows, lost>>

Init ==
    /\ recorded = << >>
    /\ memory = << >>
    /\ rows = << >>
    /\ lost = {}

Filters ==
    [host : Hosts \cup {""}, since : Times \cup {0}, until : Times \cup {0},
     limit : 0..MaxAlerts]

-----------------------------------------------------------------------------
(* A faulty bound that keeps the oldest alerts.                            *)
RetainOldest(alerts) ==
    IF Len(alerts) > maxRetainedAlerts THEN SubSeq(alerts, 1, maxRetainedAlerts) ELSE alerts

Retain(alerts) ==
    IF Len(alerts) > maxRetainedAlerts
    THEN SubSeq(alerts, Len(alerts) - maxRetainedAlerts + 1, Len(alerts))
    ELSE alerts

(* RecordAlert of both; the id is new.  A new row gets a larger rowid than *)
(* those in the table.                                                     *)
RecordAlert(host, time, inserted) ==
    LET alert == [id |-> Len(recorded) + 1, host |-> host, time |-> time] IN
    /\ Len(recorded) < MaxAlerts
    /\ recorded' = Append(recorded, alert)
    /\ memory' = Retain(Append(memory, alert))
    /\ IF inserted THEN rows' = Append(rows, alert) /\ UNCHANGED lost
       ELSE lost' = lost \cup {alert.id} /\ UNCHANGED rows

(* PruneAlerts of both: what is strictly before the cutoff goes.           *)
PruneAlerts(before) ==
    /\ memory' = SelectSeq(memory, LAMBDA a : a.time >= before)
    /\ rows' = SelectSeq(rows, LAMBDA a : a.time >= before)
    /\ UNCHANGED <<recorded, lost>>

Next ==
    \/ \E host \in Hosts, time \in Times, inserted \in BOOLEAN : RecordAlert(host, time, inserted)
    \/ \E before \in Times : PruneAlerts(before)

Spec == Init /\ [][Next]_vars

-----------------------------------------------------------------------------
(* AlertFilter.matches, and the clauses of buildAlertQuery.                *)
matches(f, a) ==
    /\ f.host # "" => a.host = f.host
    /\ f.since # 0 => a.time >= f.since
    /\ f.until # 0 => a.time <= f.until

Limited(s, f) == IF f.limit > 0 /\ Len(s) > f.limit THEN SubSeq(s, 1, f.limit) ELSE s

(* Memory.QueryAlerts: from the last recorded backwards.                   *)
MemoryQuery(f) == Limited(SelectSeq(Reverse(memory), LAMBDA a : matches(f, a)), f)

(* SQLite.QueryAlerts: ORDER BY ts DESC, rowid DESC.                       *)
SqliteQuery(f) ==
    LET Newer(i, j) == rows[i].time > rows[j].time \/ (rows[i].time = rows[j].time /\ i > j)
        order == SetToSortSeq({i \in DOMAIN rows : matches(f, rows[i])}, Newer)
    IN Limited([k \in DOMAIN order |-> rows[order[k]]], f)

-----------------------------------------------------------------------------
InOrder == \A i, j \in DOMAIN recorded : i < j => recorded[i].time <= recorded[j].time

(* What both still hold, by arrival: the memory holds the last of the      *)
(* table's alerts, and the ones the table lost.                            *)
Surviving(s) == SelectSeq(s, LAMBDA a : a.id \notin lost)

(* "The interface lets the in-memory implementation be swapped for a       *)
(* database" (store.go): whatever was pruned and dropped, the memory holds *)
(* the most recent alerts of the table and those the table lost; when      *)
(* alerts arrive in the order of their times and no insert failed, every   *)
(* answer of the memory begins the table's, and is all of it until more    *)
(* alerts came than it retains.                                            *)
HistoriesAgree ==
    /\ IsSuffix(Surviving(memory), rows)
    /\ InOrder /\ lost = {} =>
          \A f \in Filters :
              /\ IsPrefix(MemoryQuery(f), SqliteQuery(f))
              /\ Len(recorded) <= maxRetainedAlerts => MemoryQuery(f) = SqliteQuery(f)
=============================================================================
