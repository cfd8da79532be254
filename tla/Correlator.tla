----------------------------- MODULE Correlator -----------------------------
(***************************************************************************)
(* The agent's per-process correlator (internal/detect/correlate.go): it   *)
(* adds up the risk of a process's alerts, opens one incident when the sum *)
(* crosses the threshold, starts afresh after a silence longer than the    *)
(* window, and sweeps idle processes once it tracks too many.              *)
(*                                                                         *)
(* Time is the events' own: an event observed at clock time now carries a  *)
(* timestamp between now - Skew and now, so events may arrive out of order.*)
(***************************************************************************)
EXTENDS Naturals, FiniteSets

CONSTANTS
    Keys,           \* process keys
    Risks,          \* total risk of the alerts of one event
    Threshold,      \* risk at which an incident opens
    Window,         \* the correlation window
    MaxTracked,     \* maxTrackedProcesses
    Skew,           \* how late a timestamp may be
    MaxTime         \* bound: clock ticks

VARIABLES
    now,        \* the clock
    states,     \* Correlator.states: a function on the tracked keys
    ideal,      \* history: the states of a correlator that never sweeps
    incident,   \* the incident returned by the last Observe, or none
    expected,   \* history: whether the correlator that never sweeps opens one
    inserted,   \* history: time of the last insertion
    opened      \* history: [Keys -> time of the last incident, or none]

vars == <<now, states, ideal, incident, expected, inserted, opened>>

Tracked == DOMAIN states
NoIncident == [key |-> "none", first |-> 0, last |-> 0]
Never == [any |-> FALSE, at |-> 0]
At(t) == [any |-> TRUE, at |-> t]

(* now.Sub(last) > window, for timestamps that may run backwards.          *)
Elapsed(t, last) == t > last + Window

Cap(score) == IF score > Threshold THEN Threshold ELSE score

Init ==
    /\ now = 0
    /\ states = [k \in {} |-> 0]
    /\ ideal = states
    /\ incident = NoIncident
    /\ expected = FALSE
    /\ inserted = 0
    /\ opened = [k \in Keys |-> Never]

-----------------------------------------------------------------------------
Fresh(t) == [score |-> 0, first |-> t, last |-> t, opened |-> FALSE]

(* stateFor's condition: no state yet, or one whose window has elapsed.    *)
Renews(map, key, t) ==
    key \notin DOMAIN map \/ Elapsed(t, map[key].last)

(* A faulty sweep that also drops states at the edge of the window.        *)
sweepEdge(map, t) ==
    IF Cardinality(DOMAIN map) <= MaxTracked THEN map
    ELSE [k \in {j \in DOMAIN map : t < map[j].last + Window} |-> map[k]]

(* sweep: nothing up to the cap, above it every elapsed state.             *)
sweep(map, t) ==
    IF Cardinality(DOMAIN map) <= MaxTracked THEN map
    ELSE [k \in {j \in DOMAIN map : ~Elapsed(t, map[j].last)} |-> map[k]]

Put(map, key, state) ==
    [k \in DOMAIN map \cup {key} |-> IF k = key THEN state ELSE map[k]]

(* stateFor: insert, then sweep.                                           *)
stateFor(map, key, t) ==
    IF Renews(map, key, t) THEN sweep(Put(map, key, Fresh(t)), t) ELSE map

(* The rest of Observe, on the state of the key.                           *)
AddRisk(state, risk, t) ==
    LET score == Cap(state.score + risk) IN
    [state EXCEPT !.score = score, !.last = t,
                  !.opened = @ \/ score >= Threshold]

Observe(key, t, risk) ==
    LET before == stateFor(states, key, t)
        after == AddRisk(before[key], risk, t)
        opens == after.opened /\ ~before[key].opened
        idealBefore == IF Renews(ideal, key, t) THEN Fresh(t) ELSE ideal[key]
        idealAfter == AddRisk(idealBefore, risk, t)
    IN
    /\ states' = Put(before, key, after)
    /\ incident' = IF opens THEN [key |-> key, first |-> after.first, last |-> t]
                   ELSE NoIncident
    /\ opened' = IF opens THEN [opened EXCEPT ![key] = At(t)] ELSE opened
    /\ inserted' = IF Renews(states, key, t) THEN t ELSE inserted
    /\ ideal' = Put(ideal, key, idealAfter)
    /\ expected' = (idealAfter.opened /\ ~idealBefore.opened)
    /\ UNCHANGED now

Tick ==
    /\ now < MaxTime
    /\ now' = now + 1
    /\ UNCHANGED <<states, ideal, incident, expected, inserted, opened>>

Timestamps == {t \in 0..now : t + Skew >= now}

Next ==
    \/ \E key \in Keys, t \in Timestamps, risk \in Risks : Observe(key, t, risk)
    \/ Tick

Spec == Init /\ [][Next]_vars

-----------------------------------------------------------------------------
(* "Opens a single incident instead of N loose alerts": two incidents of   *)
(* one process are more than the window apart, less what the timestamps    *)
(* are off by.                                                             *)
NewIncidentIsApart ==
    \A k \in Keys :
        opened'[k] # opened[k] /\ opened[k].any =>
            opened'[k].at + 2 * Skew > opened[k].at + Window

(* Sweeping is only housekeeping: with timestamps in order, the correlator *)
(* opens exactly the incidents it would open with unlimited memory.        *)
SweepIsInvisible ==
    expected = (incident # NoIncident)

(* The map only outgrows its limit by processes that were active within    *)
(* the window when the last one was added.                                 *)
OverflowIsActive ==
    Cardinality(Tracked) > MaxTracked =>
        \A k \in Tracked : ~Elapsed(inserted, states[k].last)
=============================================================================
