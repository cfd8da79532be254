---------------------------- MODULE HuntSequence ----------------------------
(***************************************************************************)
(* A sequence hunt (internal/hunt/hunt.go runSequence, groupBy,            *)
(* matchSequences, advancePartials): the events of the lake, oldest first, *)
(* are matched group by group against an ordered list of stages.           *)
(*                                                                         *)
(* An event is its group (NoGroup if it lacks the by field), its time and  *)
(* the stages it matches.  A chain is the sequence of its events'          *)
(* positions.  An event opens one partial at most, so partials and chains  *)
(* are told apart by their first event, and the lists of them are sets.    *)
(***************************************************************************)
EXTENDS Naturals, Sequences

CONSTANTS
    Groups,     \* values of the by field
    Kinds,      \* [group, stages] of the events in the lake
    NumStages,  \* len(seq.stages)
    Within,     \* seq.within; 0: no window
    Gaps,       \* time between two events
    MaxEvents   \* bound: events in the lake

VARIABLES
    events,     \* what was scanned
    open,       \* [Groups -> the partials]
    done        \* [Groups -> the chains completed]

vars == <<events, open, done>>

Init ==
    /\ events = << >>
    /\ open = [g \in Groups |-> {}]
    /\ done = [g \in Groups |-> {}]

(* The group of an event without the by field.                             *)
NoGroup == ""

Clock == IF events = << >> THEN 1 ELSE events[Len(events)].time

-----------------------------------------------------------------------------
(* A partial is the chain so far; it waits for the stage after its last.   *)
Expired(chain, event) == Within > 0 /\ event.time - events[chain[1]].time > Within
Advances(chain, event) == Len(chain) + 1 \in event.stages

(* A faulty expiry that measures from the last event of the chain.         *)
KeepSliding(chain, event) ==
    ~(Within > 0 /\ event.time - events[chain[Len(chain)]].time > Within)

(* The partials advancePartials does not drop.                             *)
Keep(chain, event) == ~Expired(chain, event)

Advanced(chain, event) ==
    IF Advances(chain, event) THEN Append(chain, Len(events) + 1) ELSE chain

(* advancePartials, then a new partial if the event matches stage 0.       *)
matchEvent(g, event) ==
    LET kept == {chain \in open[g] : Keep(chain, event)}
        next == {Advanced(chain, event) : chain \in kept}
        opened == IF 1 \in event.stages THEN {<<Len(events) + 1>>} ELSE {}
    IN
    /\ done' = [done EXCEPT ![g] = @ \cup {c \in next : Len(c) = NumStages}]
    /\ open' = [open EXCEPT ![g] = {c \in next : Len(c) < NumStages} \cup opened]

(* The next event of the scan; groupBy skips one without the by field.     *)
Scan(kind, gap) ==
    LET event == [group |-> kind.group, stages |-> kind.stages, time |-> Clock + gap] IN
    /\ Len(events) < MaxEvents
    /\ events' = Append(events, event)
    /\ IF event.group = NoGroup THEN UNCHANGED <<open, done>>
       ELSE matchEvent(event.group, event)

Next == \E kind \in Kinds, gap \in Gaps : Scan(kind, gap)

Spec == Init /\ [][Next]_vars

-----------------------------------------------------------------------------
(* The chains of the events scanned: one event per stage, in order, of one *)
(* group, within the window of the first.                                  *)
IsChain(c) ==
    /\ \A k \in 1..NumStages :
          k \in events[c[k]].stages /\ events[c[k]].group = events[c[1]].group
    /\ \A j, k \in 1..NumStages : j < k => c[j] < c[k]
    /\ events[c[1]].group # NoGroup
    /\ Within > 0 => events[c[NumStages]].time - events[c[1]].time <= Within

Chains == {c \in [1..NumStages -> DOMAIN events] : IsChain(c)}

Reported == UNION {done[g] : g \in Groups}

(* "sequence matches an ordered chain: each stage must occur after the     *)
(* previous one, in the same by group, inside the within window"           *)
(* (docs/HUNTING.md): only such chains are reported, and an event that     *)
(* opens any is reported with exactly one, though partials take the first  *)
(* event that fits and are dropped when their window is over.              *)
OneChainPerOpening ==
    /\ Reported \subseteq Chains
    /\ {c[1] : c \in Reported} = {c[1] : c \in Chains}
    /\ \A c, d \in Reported : c[1] = d[1] => c = d
=============================================================================
