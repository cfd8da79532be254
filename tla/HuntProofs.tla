----------------------------- MODULE HuntProofs -----------------------------
(***************************************************************************)
(* Proofs about hunts: sequence hunts (HuntSequence), the attack graph of  *)
(* an investigation (InvestigationGraph), and the comparisons a hunt and   *)
(* the rule made of it evaluate (Comparison).                              *)
(*                                                                         *)
(* A sequence hunt keeps one partial chain per event that opened it. The   *)
(* invariant says why that is enough: whatever chain the events so far     *)
(* contain, the partial with the same opening is at least as far, and got  *)
(* there no later.                                                         *)
(***************************************************************************)
EXTENDS HuntSequence, Integers, FiniteSets, TLAPS

(* A sequence has at least two stages (parse.go parseSequence); the window *)
(* and the times between events are natural numbers; an event fits any set *)
(* of stages.                                                              *)
HuntAssumption ==
    /\ NumStages \in Nat \ {0, 1} /\ Within \in Nat /\ Gaps \subseteq Nat
    /\ NoGroup \notin Groups
    /\ Kinds \subseteq [group : Groups \cup {NoGroup}, stages : SUBSET (1..NumStages)]

(* Events as the scan sees them.                                           *)
Scanned == [group : Groups \cup {NoGroup}, stages : SUBSET (1..NumStages), time : Nat]

(* c is the beginning of a chain of group g, k events long.                *)
IsPart(c, k, g) ==
    /\ \A j \in 1..k : j \in events[c[j]].stages /\ events[c[j]].group = g
    /\ \A i, j \in 1..k : i < j => c[i] < c[j]
    /\ Within > 0 => events[c[k]].time - events[c[1]].time <= Within

(* Events are scanned in the order of their times.                         *)
HuntTypeOK ==
    /\ events \in Seq(Scanned)
    /\ \A i, j \in DOMAIN events : i <= j => events[i].time <= events[j].time
    /\ open \in [Groups -> SUBSET Seq(Nat)]
    /\ done \in [Groups -> SUBSET Seq(Nat)]

(* A partial chain of scanned events.                                      *)
Partial(c, g) ==
    /\ Len(c) \in 1..NumStages
    /\ \A j \in 1..Len(c) : c[j] \in DOMAIN events
    /\ IsPart(c, Len(c), g)

(* The partials and the chains of a group.                                 *)
Held(g) == open[g] \cup done[g]

(* What is held is real, finished chains are complete, and openings are    *)
(* held once.                                                              *)
PartsOf(g) ==
    /\ \A c \in open[g] : Partial(c, g) /\ Len(c) < NumStages
    /\ \A c \in done[g] : Partial(c, g) /\ Len(c) = NumStages
    /\ \A c, d \in Held(g) : c[1] = d[1] => c = d

(* A partial is at least as far as any chain with the same first event.    *)
Ahead(c, d, k) == c[1] = d[1] /\ Len(c) >= k /\ c[k] <= d[k]

(* The window of a chain that opened with event i has passed.              *)
Over(i) == Within > 0 /\ events[Len(events)].time - events[i].time > Within

(* Any beginning of a chain has a partial ahead of it, unless it is too    *)
(* late to finish it.                                                      *)
GreedyOf(g) ==
    \A k \in 1..NumStages : \A d \in [1..k -> DOMAIN events] :
        IsPart(d, k, g) => \/ \E c \in Held(g) : Ahead(c, d, k)
                           \/ k < NumStages /\ Over(d[1])

(* The inductive invariant.                                                *)
HuntInv == HuntTypeOK /\ \A g \in Groups : PartsOf(g) /\ GreedyOf(g)

-----------------------------------------------------------------------------
(* What the assumption says, without the sets.                             *)
LEMMA HuntSizes ==
    HuntAssumption => /\ NumStages \in Nat /\ NumStages > 1 /\ Within \in Nat
                      /\ NoGroup \notin Groups
<1> SUFFICES ASSUME HuntAssumption
             PROVE  /\ NumStages \in Nat /\ NumStages > 1 /\ Within \in Nat
                    /\ NoGroup \notin Groups
  OBVIOUS
<1>1. NumStages \in Nat \ {0, 1} /\ Within \in Nat /\ NoGroup \notin Groups
  BY Zenon DEF HuntAssumption
<1> QED BY <1>1

(* No event was scanned at the start.                                      *)
LEMMA HuntStarts == HuntAssumption /\ Init => HuntInv
<1> SUFFICES ASSUME HuntAssumption, Init  PROVE HuntInv
  OBVIOUS
<1>1. HuntTypeOK
  BY DEF Init, HuntTypeOK
<1>2. \A g \in Groups : PartsOf(g)
  BY Zenon DEF Init, PartsOf, Held
<1>3. \A g \in Groups : GreedyOf(g)
  <2> SUFFICES ASSUME NEW g \in Groups, NEW k \in 1..NumStages,
                      NEW d \in [1..k -> DOMAIN events]
               PROVE  FALSE
    BY DEF GreedyOf
  <2>1. events = << >> /\ DOMAIN events = {}
    BY DEF Init
  <2>2. 1 \in 1..k
    BY HuntSizes
  <2>3. d[1] \in DOMAIN events
    BY <2>2
  <2> QED BY <2>1, <2>3
<1> QED BY <1>1, <1>2, <1>3 DEF HuntInv

(* What a scanned event does to the list of events.                        *)
Scanning(event) ==
    /\ event \in Scanned
    /\ events' = Append(events, event)
    /\ \A i \in DOMAIN events : events[i].time <= event.time

(* A scan adds one event, no earlier than the others.                      *)
LEMMA ScanAppends ==
    ASSUME HuntAssumption, HuntTypeOK, NEW event, Scanning(event)
    PROVE  /\ Len(events) \in Nat /\ DOMAIN events = 1..Len(events)
           /\ Len(events') = Len(events) + 1
           /\ DOMAIN events' = 1..(Len(events) + 1)
           /\ \A i \in 1..Len(events) : events'[i] = events[i]
           /\ events'[Len(events) + 1] = event
           /\ \A i \in 1..Len(events) : events[i] \in Scanned /\ events[i].time \in Nat
           /\ event.time \in Nat
<1>1. events \in Seq(Scanned) /\ event \in Scanned /\ events' = Append(events, event)
  BY DEF HuntTypeOK, Scanning
<1>2. \A e \in Scanned : e.time \in Nat
  BY DEF Scanned
<1> QED BY <1>1, <1>2

(* A part of a chain stays one when events are added.                      *)
LEMMA PartsKept ==
    ASSUME HuntAssumption, HuntTypeOK, NEW event, Scanning(event),
           NEW k \in Nat \ {0}, NEW c, NEW g, \A j \in 1..k : c[j] \in 1..Len(events)
    PROVE  IsPart(c, k, g)' <=> IsPart(c, k, g)
<1>1. \A j \in 1..k : events'[c[j]] = events[c[j]]
  BY ScanAppends
<1>2. 1 \in 1..k /\ k \in 1..k
  OBVIOUS
<1> QED BY <1>1, <1>2, Zenon DEF IsPart

(* A chain whose last event is old is one of the old events.               *)
LEMMA OldChains ==
    ASSUME HuntAssumption, HuntTypeOK, NEW event, Scanning(event),
           NEW k \in 1..NumStages, NEW g \in Groups,
           NEW d \in [1..k -> DOMAIN events'], IsPart(d, k, g)',
           d[k] # Len(events) + 1
    PROVE  d \in [1..k -> DOMAIN events] /\ IsPart(d, k, g)
<1>1. \A j \in 1..k : d[j] \in 1..Len(events)
  <2> SUFFICES ASSUME NEW j \in 1..k  PROVE d[j] \in 1..Len(events)
    OBVIOUS
  <2>1. k \in Nat \ {0} /\ k \in 1..k
    BY HuntSizes
  <2>2. d[j] \in 1..(Len(events) + 1) /\ d[k] \in 1..Len(events)
    BY <2>1, ScanAppends
  <2>3. j = k \/ d[j] < d[k]
    BY <2>1 DEF IsPart
  <2> QED BY <2>2, <2>3, ScanAppends
<1>2. k \in Nat \ {0}
  BY HuntSizes
<1>3. IsPart(d, k, g)
  BY <1>1, <1>2, PartsKept
<1> QED BY <1>1, <1>3, ScanAppends

(* An opening whose window is over stays over.                             *)
LEMMA OverStays ==
    ASSUME HuntAssumption, HuntTypeOK, NEW event, Scanning(event),
           NEW i \in DOMAIN events, Over(i)
    PROVE  Over(i)'
<1>1. Len(events) \in DOMAIN events /\ Len(events) \in 1..Len(events) /\ i \in 1..Len(events)
  BY ScanAppends
<1>2. events[Len(events)].time <= event.time
  BY <1>1 DEF Scanning
<1>3. events'[Len(events')] = event /\ events'[i] = events[i]
  BY <1>1, ScanAppends
<1>4. /\ event.time \in Nat /\ events[i].time \in Nat /\ events[Len(events)].time \in Nat
      /\ Within \in Nat
  BY <1>1, ScanAppends, HuntSizes, Zenon
<1>5. Within > 0 /\ events[Len(events)].time - events[i].time > Within
  BY Zenon DEF Over
<1>6. event.time - events[i].time > Within
  BY <1>2, <1>4, <1>5
<1> QED BY <1>3, <1>5, <1>6, Zenon DEF Over

(* A group the scanned event is not of keeps its partials and its chains.  *)
LEMMA OtherGroup ==
    ASSUME HuntAssumption, HuntTypeOK, NEW event, Scanning(event),
           NEW g \in Groups, event.group # g, PartsOf(g), GreedyOf(g),
           open'[g] = open[g], done'[g] = done[g]
    PROVE  PartsOf(g)' /\ GreedyOf(g)'
<1>1. Held(g)' = Held(g)
  BY DEF Held
<1>2. ASSUME NEW c, Partial(c, g)  PROVE Partial(c, g)'
  <2>1. Len(c) \in Nat \ {0} /\ \A j \in 1..Len(c) : c[j] \in 1..Len(events)
    <3>1. Len(c) \in 1..NumStages /\ NumStages \in Nat
      BY <1>2, HuntSizes, Zenon DEF Partial
    <3>2. Len(c) \in Nat \ {0}
      BY <3>1
    <3> QED BY <1>2, <3>2, ScanAppends, Zenon DEF Partial
  <2>2. IsPart(c, Len(c), g)'
    BY <1>2, <2>1, PartsKept, Zenon DEF Partial
  <2> QED BY <1>2, <2>1, <2>2, ScanAppends DEF Partial
<1>3. PartsOf(g)'
  BY <1>1, <1>2 DEF PartsOf
<1>4. GreedyOf(g)'
  <2> SUFFICES ASSUME NEW k \in 1..NumStages, NEW d \in [1..k -> DOMAIN events'],
                      IsPart(d, k, g)'
               PROVE  (\E c \in Held(g) : Ahead(c, d, k)) \/ (k < NumStages /\ Over(d[1])')
    BY <1>1, Zenon DEF GreedyOf, Ahead
  <2>1. k \in 1..k /\ 1 \in 1..k
    BY HuntSizes
  <2>2. d[k] # Len(events) + 1
    BY <2>1, ScanAppends DEF IsPart
  <2>3. d \in [1..k -> DOMAIN events] /\ IsPart(d, k, g)
    BY <2>2, OldChains
  <2>4. (\E c \in Held(g) : Ahead(c, d, k)) \/ (k < NumStages /\ Over(d[1]))
    BY <2>3 DEF GreedyOf
  <2>5. d[1] \in DOMAIN events
    BY <2>1, <2>3
  <2> QED BY <2>4, <2>5, OverStays
<1> QED BY <1>3, <1>4

(* A partial the event lets advance, or that stays as it is.               *)
LEMMA PartialsAdvance ==
    ASSUME HuntAssumption, HuntTypeOK, NEW event, Scanning(event),
           NEW g \in Groups, event.group = g, PartsOf(g),
           NEW c \in open[g], Keep(c, event), NEW a, a = Advanced(c, event)
    PROVE  /\ a \in Seq(Nat) /\ Len(a) \in Len(c)..NumStages /\ a[1] = c[1]
           /\ \A j \in 1..Len(c) : a[j] = c[j]
           /\ Len(c) + 1 \in event.stages =>
                 Len(a) = Len(c) + 1 /\ a[Len(c) + 1] = Len(events) + 1
           /\ Partial(a, g)'
<1>1. /\ c \in Seq(Nat) /\ Partial(c, g) /\ Len(c) < NumStages
      /\ Len(c) \in Nat \ {0} /\ \A j \in 1..Len(c) : c[j] \in 1..Len(events)
  <2>1. c \in Seq(Nat)
    BY DEF HuntTypeOK
  <2>2. Partial(c, g) /\ Len(c) < NumStages
    BY DEF PartsOf
  <2>3. Len(c) \in 1..NumStages /\ NumStages \in Nat
    BY <2>2, HuntSizes, Zenon DEF Partial
  <2>4. Len(c) \in Nat \ {0}
    BY <2>3
  <2>5. \A j \in 1..Len(c) : c[j] \in 1..Len(events)
    BY <2>2, ScanAppends, Zenon DEF Partial
  <2> QED BY <2>1, <2>2, <2>4, <2>5, Zenon
<1>2. IsPart(c, Len(c), g)'
  BY <1>1, PartsKept DEF Partial
<1>3. CASE ~ Advances(c, event)
  <2>1. a = c
    BY <1>3 DEF Advanced
  <2> QED BY <1>1, <1>2, <1>3, <2>1, ScanAppends, HuntSizes DEF Partial, Advances
<1>4. CASE Advances(c, event)
  <2>1. a = Append(c, Len(events) + 1)
    BY <1>4 DEF Advanced
  <2>2. /\ a \in Seq(Nat) /\ Len(a) = Len(c) + 1 /\ a[Len(c) + 1] = Len(events) + 1
        /\ \A j \in 1..Len(c) : a[j] = c[j]
    BY <1>1, <2>1, ScanAppends
  <2>3. a[1] = c[1] /\ Len(a) \in Len(c)..NumStages /\ Len(a) \in 1..NumStages
    <3>1. 1 \in 1..Len(c)
      BY <1>1
    <3>2. Len(c) \in Nat \ {0} /\ Len(c) < NumStages /\ NumStages \in Nat
      BY <1>1, HuntSizes
    <3> QED BY <2>2, <3>1, <3>2
  <2>4. \A j \in 1..Len(a) : a[j] \in 1..(Len(events) + 1)
    <3> SUFFICES ASSUME NEW j \in 1..Len(a)  PROVE a[j] \in 1..(Len(events) + 1)
      OBVIOUS
    <3>1. Len(c) \in Nat /\ Len(events) \in Nat
      BY <1>1, ScanAppends
    <3>2. CASE j = Len(c) + 1
      BY <2>2, <3>1, <3>2
    <3>3. CASE j # Len(c) + 1
      <4>1. j \in 1..Len(c)
        BY <2>2, <3>1, <3>3
      <4>2. a[j] \in 1..Len(events)
        BY <1>1, <2>2, <4>1, Zenon
      <4> QED BY <3>1, <4>2
    <3> QED BY <3>2, <3>3
  <2>5. \A j \in 1..Len(a) : j \in events'[a[j]].stages /\ events'[a[j]].group = g
    <3> SUFFICES ASSUME NEW j \in 1..Len(a)
                 PROVE  j \in events'[a[j]].stages /\ events'[a[j]].group = g
      OBVIOUS
    <3>1. CASE j = Len(c) + 1
      BY <1>4, <2>2, <3>1, ScanAppends DEF Advances
    <3>2. CASE j # Len(c) + 1
      <4>1. j \in 1..Len(c)
        BY <1>1, <2>2, <3>2
      <4> QED BY <1>2, <2>2, <4>1 DEF IsPart
    <3> QED BY <3>1, <3>2
  <2>6. \A i, j \in 1..Len(a) : i < j => a[i] < a[j]
    <3> SUFFICES ASSUME NEW i \in 1..Len(a), NEW j \in 1..Len(a), i < j
                 PROVE  a[i] < a[j]
      OBVIOUS
    <3>0. Len(a) = Len(c) + 1 /\ Len(c) \in Nat
      BY <1>1, <2>2, Zenon
    <3>1. i \in 1..Len(c) /\ a[i] = c[i] /\ c[i] \in 1..Len(events)
      <4>1. i \in 1..Len(c)
        BY <3>0
      <4> QED BY <1>1, <2>2, <4>1, Zenon
    <3>2. CASE j = Len(c) + 1
      BY <2>2, <3>1, <3>2, ScanAppends
    <3>3. CASE j # Len(c) + 1
      <4>0. j \in 1..Len(c)
        BY <3>0, <3>3
      <4>1. j \in 1..Len(c) /\ a[j] = c[j]
        BY <2>2, <4>0, Zenon
      <4> QED BY <1>2, <3>1, <4>1 DEF IsPart
    <3> QED BY <3>2, <3>3
  <2>7. Within > 0 => events'[a[Len(a)]].time - events'[a[1]].time <= Within
    <3>1. c[1] \in 1..Len(events)
      BY <1>1
    <3>2. events'[a[Len(a)]] = event /\ events'[a[1]] = events[c[1]]
      BY <2>2, <2>3, <3>1, ScanAppends
    <3>3. event.time \in Nat /\ events[c[1]].time \in Nat
      BY <3>1, ScanAppends
    <3>4. Within > 0 => ~ (event.time - events[c[1]].time > Within)
      BY DEF Keep, Expired
    <3> QED BY <3>2, <3>3, <3>4, HuntSizes
  <2>8. IsPart(a, Len(a), g)'
    BY <2>5, <2>6, <2>7 DEF IsPart
  <2> QED BY <2>2, <2>3, <2>4, <2>8, ScanAppends DEF Partial
<1> QED BY <1>3, <1>4

(* The group of the scanned event.                                         *)
LEMMA OwnParts ==
    ASSUME HuntAssumption, HuntTypeOK, NEW event, Scanning(event),
           NEW g \in Groups, event.group = g, PartsOf(g), matchEvent(g, event)
    PROVE  /\ open'[g] \subseteq Seq(Nat) /\ done'[g] \subseteq Seq(Nat)
           /\ PartsOf(g)'
           /\ \A c \in done[g] : c \in Held(g)'
           /\ \A c \in open[g] : Keep(c, event) => Advanced(c, event) \in Held(g)'
           /\ 1 \in event.stages => <<Len(events) + 1>> \in Held(g)'
<1>0. PICK new : new = <<Len(events) + 1>>
  BY Zenon
<1> DEFINE kept == {c \in open[g] : Keep(c, event)}
           next == {Advanced(c, event) : c \in kept}
<1>1. /\ open'[g] = {c \in next : Len(c) < NumStages}
                    \cup (IF 1 \in event.stages THEN {new} ELSE {})
      /\ done'[g] = done[g] \cup {c \in next : Len(c) = NumStages}
  BY <1>0 DEF matchEvent, HuntTypeOK
<1>2. \A c \in kept : \A a : a = Advanced(c, event) =>
         /\ a \in Seq(Nat) /\ Len(a) \in Len(c)..NumStages /\ a[1] = c[1]
         /\ Partial(a, g)'
  <2> SUFFICES ASSUME NEW c \in kept, NEW a, a = Advanced(c, event)
               PROVE  /\ a \in Seq(Nat) /\ Len(a) \in Len(c)..NumStages /\ a[1] = c[1]
                      /\ Partial(a, g)'
    OBVIOUS
  <2>1. c \in open[g] /\ Keep(c, event)
    OBVIOUS
  <2> QED BY <2>1, PartialsAdvance
<1>3. /\ new \in Seq(Nat) /\ Len(new) = 1 /\ new[1] = Len(events) + 1
      /\ 1 \in event.stages => Partial(new, g)'
  <2>1. new \in Seq(Nat) /\ Len(new) = 1 /\ new[1] = Len(events) + 1
    BY <1>0, ScanAppends
  <2>2. events'[new[1]] = event /\ new[1] \in DOMAIN events'
    BY <2>1, ScanAppends
  <2>3. event.time - event.time <= Within
    BY ScanAppends, HuntSizes
  <2>4. 1 \in event.stages => IsPart(new, 1, g)'
    <3>1. \A j \in 1..1 : j = 1
      OBVIOUS
    <3> QED BY <2>2, <2>3, <3>1 DEF IsPart
  <2>5. \A j \in 1..Len(new) : j = 1
    BY <2>1
  <2>6. Len(new) \in 1..NumStages
    BY <2>1, HuntSizes
  <2> QED BY <2>1, <2>2, <2>4, <2>5, <2>6 DEF Partial
<1>4. \A c \in done[g] : c \in Seq(Nat) /\ Partial(c, g)' /\ Len(c) = NumStages
  <2> SUFFICES ASSUME NEW c \in done[g]
               PROVE  c \in Seq(Nat) /\ Partial(c, g)' /\ Len(c) = NumStages
    OBVIOUS
  <2>1. c \in Seq(Nat) /\ Partial(c, g) /\ Len(c) = NumStages
    BY DEF HuntTypeOK, PartsOf
  <2>2. Len(c) \in Nat \ {0} /\ \A j \in 1..Len(c) : c[j] \in 1..Len(events)
    BY <2>1, HuntSizes, ScanAppends DEF Partial
  <2>3. IsPart(c, Len(c), g)'
    BY <2>1, <2>2, PartsKept DEF Partial
  <2> QED BY <2>1, <2>2, <2>3, ScanAppends DEF Partial
<1>5. \A c \in Held(g) : c[1] \in 1..Len(events)
  <2> SUFFICES ASSUME NEW c \in Held(g)  PROVE c[1] \in 1..Len(events)
    OBVIOUS
  <2>1. Partial(c, g)
    BY DEF Held, PartsOf
  <2>2. 1 \in 1..Len(c)
    BY <2>1, HuntSizes DEF Partial
  <2> QED BY <2>1, <2>2, ScanAppends DEF Partial
<1> HIDE DEF next
<1>6. \A a \in next : \E c \in open[g] : c \in kept /\ a = Advanced(c, event)
  BY DEF next
<1>7. \A a \in next : a \in Seq(Nat) /\ Partial(a, g)' /\ Len(a) \in 1..NumStages
  <2> SUFFICES ASSUME NEW c \in kept, NEW a, a = Advanced(c, event)
               PROVE  a \in Seq(Nat) /\ Partial(a, g)' /\ Len(a) \in 1..NumStages
    BY <1>6
  <2>1. a \in Seq(Nat) /\ Partial(a, g)'
    BY <1>2
  <2> QED BY <2>1 DEF Partial
<1>8. open'[g] \subseteq Seq(Nat) /\ done'[g] \subseteq Seq(Nat)
  BY <1>1, <1>3, <1>4, <1>7
<1>9. \A c \in open'[g] : Partial(c, g)' /\ Len(c) < NumStages
  <2> SUFFICES ASSUME NEW c \in open'[g]  PROVE Partial(c, g)' /\ Len(c) < NumStages
    OBVIOUS
  <2>1. (c \in next /\ Len(c) < NumStages) \/ (c = new /\ 1 \in event.stages)
    BY <1>1
  <2>2. 1 < NumStages
    BY HuntSizes
  <2> QED BY <1>3, <1>7, <2>1, <2>2, Zenon
<1>10. \A c \in done'[g] : Partial(c, g)' /\ Len(c) = NumStages
  BY <1>1, <1>4, <1>7
<1>11. next \subseteq Held(g)'
  <2>1. \A a \in next : Len(a) < NumStages \/ Len(a) = NumStages
    BY <1>7, HuntSizes
  <2> QED BY <1>1, <2>1 DEF Held
<1>12. ASSUME NEW c \in Held(g)', NEW d \in Held(g)', c[1] = d[1]
       PROVE  c = d
  <2>1. ASSUME NEW a \in Held(g)'
        PROVE  a = new \/ a \in done[g] \/ a \in next
    BY <1>1, <2>1 DEF Held
  <2>2. ASSUME NEW a, a \in done[g] \/ a \in next
        PROVE  a[1] \in 1..Len(events)
    <3>1. CASE a \in done[g]
      BY <1>5, <3>1 DEF Held
    <3>2. CASE a \in next
      BY <1>2, <1>5, <1>6, <3>2 DEF Held
    <3> QED BY <2>2, <3>1, <3>2
  <2>3. new[1] \notin 1..Len(events)
    BY <1>3, ScanAppends
  <2>4. CASE c \in done[g] /\ d \in done[g]
    BY <1>12, <2>4 DEF PartsOf, Held
  <2>5. \A a \in next, e \in done[g] : a[1] # e[1]
    <3> SUFFICES ASSUME NEW a \in next, NEW e \in done[g], a[1] = e[1]
                 PROVE  FALSE
      OBVIOUS
    <3>1. PICK b \in open[g] : b \in kept /\ a = Advanced(b, event)
      BY <1>6
    <3>2. b[1] = e[1]
      BY <1>2, <3>1
    <3>3. b = e
      BY <3>2 DEF PartsOf, Held
    <3>4. Len(b) < NumStages /\ Len(e) = NumStages /\ NumStages \in Nat
      BY HuntSizes DEF PartsOf
    <3> QED BY <3>3, <3>4
  <2>6. CASE c \in next /\ d \in next
    <3>1. PICK b \in open[g] : b \in kept /\ c = Advanced(b, event)
      BY <1>6, <2>6
    <3>2. PICK e \in open[g] : e \in kept /\ d = Advanced(e, event)
      BY <1>6, <2>6
    <3>3. b[1] = e[1]
      BY <1>2, <1>12, <3>1, <3>2
    <3>4. b = e
      BY <3>3 DEF PartsOf, Held
    <3> QED BY <3>1, <3>2, <3>4
  <2> QED BY <1>12, <2>1, <2>2, <2>3, <2>4, <2>5, <2>6
<1>13. PartsOf(g)'
  BY <1>9, <1>10, <1>12 DEF PartsOf
<1>14. \A c \in open[g] : Keep(c, event) => Advanced(c, event) \in Held(g)'
  BY <1>11 DEF next
<1>15. \A c \in done[g] : c \in Held(g)'
  BY <1>1 DEF Held
<1>16. 1 \in event.stages => <<Len(events) + 1>> \in Held(g)'
  BY <1>0, <1>1 DEF Held
<1> QED BY <1>8, <1>13, <1>14, <1>15, <1>16

(* Each part is still the earliest one with its opening.                   *)
LEMMA OwnGreedy ==
    ASSUME HuntAssumption, HuntTypeOK, NEW event, Scanning(event),
           NEW g \in Groups, event.group = g, PartsOf(g), GreedyOf(g),
           matchEvent(g, event)
    PROVE  GreedyOf(g)'
<1> SUFFICES ASSUME NEW k \in 1..NumStages, NEW d \in [1..k -> DOMAIN events'],
                    IsPart(d, k, g)'
             PROVE  (\E c \in Held(g)' : Ahead(c, d, k)) \/ (k < NumStages /\ Over(d[1])')
  BY DEF GreedyOf, Ahead
<1>1. k \in Nat /\ k \in 1..k /\ 1 \in 1..k
  BY HuntSizes
<1>2. \A c \in open[g] :
         Within > 0 => events[c[1]].time \in Nat /\ c[1] \in 1..Len(events)
  <2> SUFFICES ASSUME NEW c \in open[g]
               PROVE  events[c[1]].time \in Nat /\ c[1] \in 1..Len(events)
    OBVIOUS
  <2>1. Partial(c, g) /\ 1 \in 1..Len(c)
    BY HuntSizes DEF PartsOf, Partial
  <2> QED BY <2>1, ScanAppends DEF Partial
<1>3. \A c \in Held(g) : /\ c \in Seq(Nat) /\ Len(c) \in Nat
                         /\ \A j \in 1..Len(c) : c[j] \in 1..Len(events)
  <2> SUFFICES ASSUME NEW c \in Held(g)
               PROVE  /\ c \in Seq(Nat) /\ Len(c) \in Nat
                      /\ \A j \in 1..Len(c) : c[j] \in 1..Len(events)
    OBVIOUS
  <2>1. c \in Seq(Nat) /\ Partial(c, g)
    BY DEF HuntTypeOK, PartsOf, Held
  <2>2. \A j \in 1..Len(c) : c[j] \in 1..Len(events)
    BY <2>1, ScanAppends, Zenon DEF Partial
  <2>3. Len(c) \in Nat
    BY <2>1
  <2> QED BY <2>1, <2>2, <2>3, Zenon
<1>4. CASE d[k] # Len(events) + 1
  <2>1. d \in [1..k -> DOMAIN events] /\ IsPart(d, k, g)
    BY <1>4, OldChains
  <2>2. d[1] \in DOMAIN events
    BY <1>1, <2>1
  <2>3. CASE k < NumStages /\ Over(d[1])
    BY <2>2, <2>3, OverStays
  <2>4. CASE \E c \in Held(g) : Ahead(c, d, k)
    <3>1. PICK c \in Held(g) : Ahead(c, d, k)
      BY <2>4
    <3>2. CASE c \in done[g]
      BY <3>1, <3>2, OwnParts
    <3>3. CASE c \in open[g] /\ Keep(c, event)
      <4>1. PICK a : a = Advanced(c, event)
        OBVIOUS
      <4>2. a \in Held(g)'
        BY <3>3, <4>1, OwnParts
      <4>3. /\ Len(a) \in Len(c)..NumStages /\ a[1] = c[1]
            /\ \A j \in 1..Len(c) : a[j] = c[j]
        BY <3>3, <4>1, PartialsAdvance
      <4>4. k \in 1..Len(c) /\ Len(a) >= k
        BY <1>1, <1>3, <3>1, <4>3, HuntSizes DEF Ahead
      <4>5. Ahead(a, d, k)
        BY <3>1, <4>3, <4>4 DEF Ahead
      <4> QED BY <4>2, <4>5
    <3>4. CASE c \in open[g] /\ ~ Keep(c, event)
      <4>1. Within > 0 /\ event.time - events[d[1]].time > Within
        BY <3>1, <3>4 DEF Keep, Expired, Ahead
      <4>2. Over(d[1])'
        BY <2>2, <4>1, ScanAppends, Zenon DEF Over
      <4>3. k < NumStages
        <5>1. Len(c) < NumStages
          BY <3>4 DEF PartsOf
        <5> QED BY <1>1, <1>3, <3>1, <5>1, HuntSizes DEF Ahead
      <4> QED BY <4>2, <4>3
    <3> QED BY <3>2, <3>3, <3>4 DEF Held
  <2> QED BY <2>1, <2>3, <2>4 DEF GreedyOf
<1>5. CASE d[k] = Len(events) + 1 /\ k = 1
  <2>1. 1 \in event.stages
    BY <1>1, <1>5, ScanAppends DEF IsPart
  <2>2. PICK new : new = <<Len(events) + 1>>
    BY Zenon
  <2>3. new \in Held(g)'
    BY <2>1, <2>2, OwnParts
  <2>4. Ahead(new, d, k)
    BY <1>5, <2>2, ScanAppends DEF Ahead
  <2> QED BY <2>3, <2>4
<1>6. CASE d[k] = Len(events) + 1 /\ k # 1
  <2>1. k - 1 \in 1..NumStages /\ k - 1 \in Nat /\ 1 \in 1..(k - 1) /\ k - 1 \in 1..(k - 1)
    BY <1>1, <1>6, HuntSizes
  <2>2. PICK pre : pre = [j \in 1..(k - 1) |-> d[j]]
    BY Zenon
  <2>3. \A j \in 1..(k - 1) : j \in 1..k /\ d[j] \in 1..Len(events) /\ pre[j] = d[j]
    <3> SUFFICES ASSUME NEW j \in 1..(k - 1)
                 PROVE  j \in 1..k /\ d[j] \in 1..Len(events) /\ pre[j] = d[j]
      OBVIOUS
    <3>1. j \in 1..k /\ j < k
      BY <1>1
    <3>2. d[j] < d[k] /\ d[j] \in 1..(Len(events) + 1)
      BY <1>1, <3>1, ScanAppends, Zenon DEF IsPart
    <3> QED BY <1>6, <2>2, <3>1, <3>2, ScanAppends
  <2>4. pre \in [1..(k - 1) -> DOMAIN events]
    BY <2>2, <2>3, ScanAppends
  <2>5. /\ events'[d[1]] = events[d[1]] /\ events'[d[k]] = event
        /\ d[1] \in 1..Len(events) /\ pre[1] = d[1]
    BY <1>6, <2>1, <2>3, ScanAppends
  <2>6. Within > 0 => event.time - events[d[1]].time <= Within
    BY <2>5 DEF IsPart
  <2>7. IsPart(pre, k - 1, g)
    <3>1. \A j \in 1..(k - 1) : j \in events[pre[j]].stages /\ events[pre[j]].group = g
      <4>1. \A j \in 1..(k - 1) : events'[d[j]] = events[d[j]] /\ pre[j] = d[j]
        BY <2>3, ScanAppends
      <4> QED BY <2>3, <4>1 DEF IsPart
    <3>2. \A i, j \in 1..(k - 1) : i < j => pre[i] < pre[j]
      BY <2>3 DEF IsPart
    <3>3. pre[k - 1] \in 1..Len(events) /\ pre[1] = d[1]
      BY <2>1, <2>3
    <3>4. events[pre[k - 1]].time <= event.time
      BY <3>3, ScanAppends DEF Scanning
    <3>5. /\ event.time \in Nat /\ events[d[1]].time \in Nat
          /\ events[pre[k - 1]].time \in Nat
      BY <2>5, <3>3, ScanAppends, Zenon
    <3>6. Within > 0 => events[pre[k - 1]].time - events[pre[1]].time <= Within
      BY <2>6, <3>3, <3>4, <3>5, HuntSizes, SMTT(60)
    <3> QED BY <3>1, <3>2, <3>6 DEF IsPart
  <2>8. ~ Over(pre[1])
    <3> SUFFICES ASSUME Over(pre[1])  PROVE FALSE
      OBVIOUS
    <3>1. Over(d[1])'
      BY <2>5, OverStays, ScanAppends
    <3>2. Within > 0 /\ event.time - events[d[1]].time > Within
      BY <2>5, <3>1, ScanAppends, Zenon DEF Over
    <3>3. event.time \in Nat /\ events[d[1]].time \in Nat
      BY <2>5, ScanAppends
    <3> QED BY <2>6, <3>2, <3>3, HuntSizes
  <2>9. PICK c \in Held(g) : Ahead(c, pre, k - 1)
    BY <2>1, <2>4, <2>7, <2>8 DEF GreedyOf
  <2>10. c[1] = d[1] /\ Len(c) >= k - 1 /\ Len(c) \in Nat
    BY <1>3, <2>5, <2>9, ZenonT(60) DEF Ahead
  <2>11. CASE c \in done[g]
    <3>1. Len(c) = NumStages
      BY <2>11 DEF PartsOf
    <3>2. k \in 1..Len(c) /\ Len(c) >= k
      BY <3>1, HuntSizes
    <3>3. c[k] <= d[k]
      BY <1>3, <1>6, <3>2, ScanAppends
    <3>4. Ahead(c, d, k)
      BY <2>10, <3>2, <3>3 DEF Ahead
    <3> QED BY <2>11, <3>4, OwnParts
  <2>12. CASE c \in open[g]
    <3>1. Keep(c, event)
      <4>1. event.time \in Nat /\ events[d[1]].time \in Nat
        BY <2>5, ScanAppends
      <4> QED BY <2>6, <2>10, <4>1, HuntSizes DEF Keep, Expired
    <3>2. PICK a : a = Advanced(c, event)
      OBVIOUS
    <3>3. a \in Held(g)'
      BY <2>12, <3>1, <3>2, OwnParts
    <3>4. /\ Len(a) \in Len(c)..NumStages /\ a[1] = c[1]
          /\ \A j \in 1..Len(c) : a[j] = c[j]
          /\ Len(c) + 1 \in event.stages =>
                Len(a) = Len(c) + 1 /\ a[Len(c) + 1] = Len(events) + 1
      <4>1. /\ HuntAssumption /\ HuntTypeOK /\ Scanning(event) /\ event.group = g /\ PartsOf(g)
            /\ c \in open[g] /\ Keep(c, event) /\ a = Advanced(c, event)
        BY <2>12, <3>1, <3>2, Zenon
      <4> QED BY <4>1, PartialsAdvance
    <3>5. CASE Len(c) >= k
      <4>1. k \in 1..Len(c) /\ Len(a) >= k
        BY <1>1, <2>10, <3>4, <3>5, HuntSizes
      <4>2. a[k] <= d[k]
        <5>1. a[k] = c[k] /\ c[k] \in 1..Len(events)
          BY <1>3, <3>4, <4>1, Zenon
        <5>2. Len(events) \in Nat /\ d[k] = Len(events) + 1
          BY <1>6, ScanAppends, Zenon
        <5> QED BY <5>1, <5>2
      <4> QED BY <2>10, <3>3, <3>4, <4>1, <4>2 DEF Ahead
    <3>6. CASE ~ (Len(c) >= k)
      <4>1. Len(c) + 1 = k
        BY <1>1, <2>10, <3>6
      <4>2. k \in event.stages
        BY <1>1, <2>5 DEF IsPart
      <4>3. Len(a) = k /\ a[k] = Len(events) + 1
        BY <3>4, <4>1, <4>2
      <4>4. Len(a) >= k /\ a[k] <= d[k]
        BY <1>1, <1>6, <4>3, ScanAppends
      <4> QED BY <2>10, <3>3, <3>4, <4>4 DEF Ahead
    <3> QED BY <3>5, <3>6
  <2> QED BY <2>9, <2>11, <2>12 DEF Held
<1> QED BY <1>4, <1>5, <1>6

(* The event scanned next is typed and no earlier than the others.         *)
LEMMA ScanIsTyped ==
    ASSUME HuntAssumption, HuntTypeOK, NEW kind \in Kinds, NEW gap \in Gaps, NEW event,
           event = [group |-> kind.group, stages |-> kind.stages, time |-> Clock + gap],
           events' = Append(events, event)
    PROVE  /\ Scanning(event)
           /\ \A i, j \in DOMAIN events' : i <= j => events'[i].time <= events'[j].time
           /\ events' \in Seq(Scanned)
<1>1. kind \in [group : Groups \cup {NoGroup}, stages : SUBSET (1..NumStages)] /\ gap \in Nat
  BY DEF HuntAssumption
<1>2. events \in Seq(Scanned) /\ Len(events) \in Nat /\ DOMAIN events = 1..Len(events)
  BY DEF HuntTypeOK
<1>3. \A i \in 1..Len(events) : events[i].time \in Nat
  <2>1. \A e \in Scanned : e.time \in Nat
    BY DEF Scanned
  <2> QED BY <1>2, <2>1
<1>4. Clock \in Nat /\ \A i \in DOMAIN events : events[i].time <= Clock
  <2>1. CASE events = << >>
    BY <2>1 DEF Clock
  <2>2. CASE events # << >>
    <3>1. Len(events) \in 1..Len(events)
      BY <1>2, <2>2
    <3>2. Clock = events[Len(events)].time
      BY <2>2 DEF Clock
    <3>3. \A i \in DOMAIN events : i <= Len(events)
      BY <1>2
    <3> QED BY <1>2, <1>3, <3>1, <3>2, <3>3 DEF HuntTypeOK
  <2> QED BY <2>1, <2>2
<1>5. event \in Scanned
  BY <1>1, <1>4 DEF Scanned
<1>6. \A i \in DOMAIN events : events[i].time <= event.time
  BY <1>1, <1>2, <1>3, <1>4
<1>7. Scanning(event)
  BY <1>5, <1>6 DEF Scanning
<1>8. \A i, j \in DOMAIN events' : i <= j => events'[i].time <= events'[j].time
  <2> SUFFICES ASSUME NEW i \in DOMAIN events', NEW j \in DOMAIN events', i <= j
               PROVE  events'[i].time <= events'[j].time
    OBVIOUS
  <2>1. i \in 1..(Len(events) + 1) /\ j \in 1..(Len(events) + 1)
    BY <1>7, ScanAppends
  <2>2. CASE j = Len(events) + 1 /\ i = j
    BY <1>7, <2>2, ScanAppends
  <2>3. CASE j = Len(events) + 1 /\ i # j
    <3>1. i \in 1..Len(events)
      BY <1>2, <2>1, <2>3
    <3> QED BY <1>2, <1>6, <1>7, <2>3, <3>1, ScanAppends
  <2>4. CASE j # Len(events) + 1
    <3>1. i \in 1..Len(events) /\ j \in 1..Len(events)
      BY <1>2, <2>1, <2>4
    <3> QED BY <1>2, <1>7, <3>1, ScanAppends DEF HuntTypeOK
  <2> QED BY <2>2, <2>3, <2>4
<1> QED BY <1>2, <1>5, <1>7, <1>8

(* One event scanned keeps all parts earliest.                             *)
LEMMA HuntStep ==
    ASSUME HuntAssumption, HuntInv, [Next]_vars
    PROVE  HuntInv'
<1> USE DEF HuntInv
<1>1. CASE UNCHANGED vars
  <2>1. events' = events /\ open' = open /\ done' = done
    BY <1>1, Zenon DEF vars
  <2>2. HuntTypeOK'
    BY <2>1, Zenon DEF HuntTypeOK
  <2>3. ASSUME NEW g \in Groups PROVE PartsOf(g)'
    <3>1. \A c : Partial(c, g)' <=> Partial(c, g)
      BY <2>1 DEF Partial, IsPart
    <3>2. Held(g)' = Held(g) /\ PartsOf(g)
      BY <2>1, Zenon DEF Held
    <3> QED BY <2>1, <3>1, <3>2 DEF PartsOf
  <2>4. ASSUME NEW g \in Groups PROVE GreedyOf(g)'
    BY <2>1, ZenonT(60) DEF GreedyOf, Held, IsPart, Over
  <2> QED BY <2>2, <2>3, <2>4, Zenon
<1>2. ASSUME NEW kind \in Kinds, NEW gap \in Gaps, Scan(kind, gap)
      PROVE  HuntInv'
  <2>1. PICK event : event = [group |-> kind.group, stages |-> kind.stages,
                              time |-> Clock + gap]
    BY Zenon
  <2>2. /\ events' = Append(events, event)
        /\ IF event.group = NoGroup THEN UNCHANGED <<open, done>>
           ELSE matchEvent(event.group, event)
    BY <1>2, <2>1 DEF Scan
  <2>3. /\ Scanning(event) /\ events' \in Seq(Scanned)
        /\ \A i, j \in DOMAIN events' : i <= j => events'[i].time <= events'[j].time
    BY <2>1, <2>2, ScanIsTyped
  <2>4. CASE event.group = NoGroup
    <3>1. UNCHANGED <<open, done>>
      BY <2>2, <2>4
    <3>2. HuntTypeOK'
      BY <2>3, <3>1 DEF HuntTypeOK
    <3>3. \A g \in Groups : event.group # g
      BY <2>4, HuntSizes
    <3>4. \A g \in Groups : PartsOf(g)' /\ GreedyOf(g)'
      BY <2>3, <3>1, <3>3, OtherGroup
    <3> QED BY <3>2, <3>4
  <2>5. CASE event.group # NoGroup
    <3>1. event.group \in Groups
      BY <2>3, <2>5 DEF Scanning, Scanned
    <3>2. PICK own \in Groups : own = event.group
      BY <3>1
    <3>3. matchEvent(own, event)
      BY <2>2, <2>5, <3>2
    <3>4. /\ open'[own] \subseteq Seq(Nat) /\ done'[own] \subseteq Seq(Nat)
          /\ PartsOf(own)' /\ GreedyOf(own)'
      BY <2>3, <3>2, <3>3, OwnParts, OwnGreedy
    <3>5. \A g \in Groups : g # own => open'[g] = open[g] /\ done'[g] = done[g]
      BY <3>3 DEF matchEvent, HuntTypeOK
    <3>6. open' \in [Groups -> SUBSET Seq(Nat)] /\ done' \in [Groups -> SUBSET Seq(Nat)]
      <4>1. DOMAIN open' = Groups /\ DOMAIN done' = Groups
        BY <3>3 DEF matchEvent, HuntTypeOK
      <4>2. open' = [g \in Groups |-> open'[g]] /\ done' = [g \in Groups |-> done'[g]]
        BY <3>3, Zenon DEF matchEvent, HuntTypeOK
      <4>3. \A g \in Groups : open'[g] \in SUBSET Seq(Nat) /\ done'[g] \in SUBSET Seq(Nat)
        BY <3>4, <3>5 DEF HuntTypeOK
      <4> QED BY <4>2, <4>3
    <3>7. HuntTypeOK'
      BY <2>3, <3>6 DEF HuntTypeOK
    <3>8. \A g \in Groups : PartsOf(g)' /\ GreedyOf(g)'
      BY <2>3, <3>2, <3>4, <3>5, OtherGroup
    <3> QED BY <3>7, <3>8
  <2> QED BY <2>4, <2>5
<1> QED BY <1>1, <1>2, Zenon DEF Next

(* The invariant implies what hunts promise.                               *)
LEMMA HuntInvSays ==
    ASSUME HuntAssumption, HuntInv  PROVE OneChainPerOpening
<1>0. NumStages \in Nat /\ 1 \in 1..NumStages /\ NumStages \in 1..NumStages
  BY HuntSizes
<1>1. ASSUME NEW g \in Groups, NEW c \in done[g]
      PROVE  c \in Chains /\ events[c[1]].group = g
  <2>1. Partial(c, g) /\ Len(c) = NumStages /\ c \in Seq(Nat)
    BY DEF HuntInv, PartsOf, HuntTypeOK
  <2>2. \A j \in 1..NumStages : c[j] \in DOMAIN events
    BY <2>1 DEF Partial
  <2>3. c \in [1..NumStages -> DOMAIN events]
    BY <2>1, <2>2
  <2>4. IsPart(c, NumStages, g)
    BY <2>1 DEF Partial
  <2>5. g # NoGroup
    BY HuntSizes
  <2>6. events[c[1]].group = g
    BY <1>0, <2>4 DEF IsPart
  <2>7. IsChain(c)
    BY <2>4, <2>5, <2>6 DEF IsPart, IsChain
  <2> QED BY <2>3, <2>6, <2>7 DEF Chains
<1>2. Reported \subseteq Chains
  BY <1>1 DEF Reported
<1>3. ASSUME NEW d \in Chains
      PROVE  \E c \in Reported : c[1] = d[1]
  <2>1. d \in [1..NumStages -> DOMAIN events] /\ IsChain(d)
    BY DEF Chains
  <2>2. PICK g : g = events[d[1]].group
    OBVIOUS
  <2>3. events[d[1]] \in Scanned
    BY <1>0, <2>1 DEF HuntInv, HuntTypeOK
  <2>4. g \in Groups
    BY <2>1, <2>2, <2>3 DEF Scanned, IsChain
  <2>5. IsPart(d, NumStages, g)
    BY <2>1, <2>2 DEF IsPart, IsChain
  <2>6. PICK c \in Held(g) : Ahead(c, d, NumStages)
    BY <1>0, <2>1, <2>4, <2>5 DEF HuntInv, GreedyOf
  <2>7. c \in done[g]
    <3>1. ASSUME c \in open[g]  PROVE FALSE
      <4>1. Len(c) < NumStages /\ Len(c) \in 1..NumStages
        BY <2>4, <3>1 DEF HuntInv, PartsOf, Partial
      <4> QED BY <1>0, <2>6, <4>1 DEF Ahead
    <3> QED BY <2>6, <3>1 DEF Held
  <2> QED BY <2>4, <2>6, <2>7 DEF Reported, Ahead
<1>4. {c[1] : c \in Reported} = {c[1] : c \in Chains}
  BY <1>2, <1>3
<1>5. \A c, d \in Reported : c[1] = d[1] => c = d
  <2> SUFFICES ASSUME NEW g \in Groups, NEW c \in done[g],
                      NEW h \in Groups, NEW d \in done[h], c[1] = d[1]
               PROVE  c = d
    BY DEF Reported
  <2>1. g = h
    BY <1>1
  <2> QED BY <2>1 DEF HuntInv, PartsOf, Held
<1> QED BY <1>2, <1>4, <1>5 DEF OneChainPerOpening

(* For any stages, groups, window and events: a chain that a sequence hunt *)
(* reports is real (its events fit the stages in order, belong together    *)
(* and lie within the window), and an event that opens any chain is        *)
(* reported with exactly one (internal/hunt/hunt.go runSequence).          *)
THEOREM HuntsReportEachOpening ==
    ASSUME HuntAssumption
    PROVE  Spec => []OneChainPerOpening
<1>1. Init => HuntInv
  BY HuntStarts
<1>2. HuntInv /\ [Next]_vars => HuntInv'
  BY HuntStep
<1>3. HuntInv => OneChainPerOpening
  BY HuntInvSays
<1> QED BY <1>1, <1>2, <1>3, PTL DEF Spec
-----------------------------------------------------------------------------
(* The attack graph does not depend on the order of events and alerts.  A  *)
(* node is described by what the events given so far tell of its process,  *)
(* which process and entity keep up to date one event at a time;           *)
(* annotations only start once the events are in.                          *)
CONSTANTS Events, Annotations, MaxAlerts

VARIABLES nodes, edges, given, alerts

Graph == INSTANCE InvestigationGraph

(* A graph is a function to nodes.                                         *)
IsNode(n) ==
    n = [label |-> n.label, detail |-> n.detail, techniques |-> n.techniques,
         severity |-> n.severity, alerting |-> n.alerting]

IsGraph(g) ==
    /\ g = [i \in DOMAIN g |-> g[i]]
    /\ \A i \in DOMAIN g : IsNode(g[i])

(* What a node tells of a process that has been given these names and      *)
(* command lines.                                                          *)
Tells(n, names, commands) ==
    /\ n.label \in IF names = {} THEN {Graph!Anonymous} ELSE names
    /\ n.detail \in IF commands = {} THEN {""} ELSE commands

(* A process no alert names.                                               *)
Quiet(n) == n.alerting = FALSE /\ n.techniques = {} /\ n.severity = ""

(* The fields of a node.                                                   *)
LEMMA NodeFields ==
    ASSUME NEW n, IsNode(n), NEW text, NEW line
    PROVE  /\ [n EXCEPT !.label = text]
                = [label |-> text, detail |-> n.detail, techniques |-> n.techniques,
                   severity |-> n.severity, alerting |-> n.alerting]
           /\ [n EXCEPT !.detail = line]
                = [label |-> n.label, detail |-> line, techniques |-> n.techniques,
                   severity |-> n.severity, alerting |-> n.alerting]
<1>1. PICK a, b, c, d, e :
        n = [label |-> a, detail |-> b, techniques |-> c, severity |-> d, alerting |-> e]
  BY Zenon DEF IsNode
<1> QED  BY <1>1

(* A node nobody told anything of.                                         *)
LEMMA FreshNode ==
    ASSUME NEW text
    PROVE  LET n == Graph!Node(text) IN
           IsNode(n) /\ Quiet(n) /\ n.label = text /\ n.detail = ""
BY DEF IsNode, Quiet, Graph!Node

(* ensure adds at most one node.                                           *)
LEMMA EnsuredGraph ==
    ASSUME NEW g, IsGraph(g), NEW id, NEW text
    PROVE  /\ IsGraph(Graph!ensure(g, id, text))
           /\ DOMAIN Graph!ensure(g, id, text) = DOMAIN g \cup {id}
<1>1. CASE id \in DOMAIN g
  BY <1>1 DEF Graph!ensure
<1>2. CASE id \notin DOMAIN g
  <2>1. PICK n : n = Graph!Node(text)
    OBVIOUS
  <2>2. Graph!ensure(g, id, text) = [i \in DOMAIN g \cup {id} |-> IF i = id THEN n ELSE g[i]]
    BY <1>2, <2>1 DEF Graph!ensure
  <2>3. IsNode(n)
    BY <2>1, FreshNode, Zenon
  <2> QED  BY <1>2, <2>2, <2>3 DEF IsGraph
<1> QED  BY <1>1, <1>2

(* A node that is there is left as it is.                                  *)
LEMMA EnsuredOld ==
    ASSUME NEW g, IsGraph(g), NEW id, NEW text, NEW i \in DOMAIN g
    PROVE  Graph!ensure(g, id, text)[i] = g[i]
BY DEF IsGraph, Graph!ensure

(* A node that is not is added fresh.                                      *)
LEMMA EnsuredNew ==
    ASSUME NEW g, IsGraph(g), NEW id, NEW text, id \notin DOMAIN g
    PROVE  Graph!ensure(g, id, text)[id] = Graph!Node(text)
BY DEF IsGraph, Graph!ensure

(* A label and a detail are replaced.                                     *)
Relabel(e, i, own, cmdline) ==
    [e EXCEPT ![i].label = IF @ = Graph!Anonymous THEN own ELSE @,
              ![i].detail = IF cmdline # "" THEN cmdline ELSE @]

(* The graph h is e with node i named by what an event tells of it.        *)
IsRelabelled(h, e, i, own, cmdline) ==
    /\ IsGraph(h)
    /\ DOMAIN h = DOMAIN e
    /\ \A j \in DOMAIN e \ {i} : h[j] = e[j]
    /\ h[i].label = IF e[i].label = Graph!Anonymous THEN own ELSE e[i].label
    /\ h[i].detail = IF cmdline # "" THEN cmdline ELSE e[i].detail
    /\ Quiet(e[i]) => Quiet(h[i])

(* A label is only set.                                                    *)
LEMMA Relabelled ==
    ASSUME NEW e, IsGraph(e), NEW i \in DOMAIN e, NEW own, NEW cmdline
    PROVE  IsRelabelled(Relabel(e, i, own, cmdline), e, i, own, cmdline)
<1>1. PICK h : h = Relabel(e, i, own, cmdline)
  OBVIOUS
<1>2. PICK text : text = IF e[i].label = Graph!Anonymous THEN own ELSE e[i].label
  OBVIOUS
<1>3. PICK line : line = IF cmdline # "" THEN cmdline ELSE e[i].detail
  BY Zenon
<1>4. PICK m : m = [e[i] EXCEPT !.label = text]
  BY Zenon
<1>5. PICK n : n = [m EXCEPT !.detail = line]
  BY Zenon
<1>6. IsNode(e[i])
  BY DEF IsGraph
<1>7. m = [label |-> text, detail |-> e[i].detail, techniques |-> e[i].techniques,
           severity |-> e[i].severity, alerting |-> e[i].alerting]
  BY <1>4, <1>6, NodeFields, Zenon
<1>8. n = [label |-> text, detail |-> line, techniques |-> e[i].techniques,
           severity |-> e[i].severity, alerting |-> e[i].alerting]
  BY <1>5, <1>7
<1>9. h = [e EXCEPT ![i] = n]
  <2>1. h = [[e EXCEPT ![i].label = text] EXCEPT ![i].detail = line]
    BY <1>1, <1>2, <1>3, Zenon DEF Relabel
  <2>2. [e EXCEPT ![i].label = text] = [e EXCEPT ![i] = m]
    BY <1>4
  <2>3. h = [[e EXCEPT ![i] = m] EXCEPT ![i] = n]
    BY <2>1, <2>2, <1>5, Zenon
  <2> QED  BY <2>3, Zenon
<1>10. IsNode(n)
  BY <1>8 DEF IsNode
<1>11. IsGraph(h) /\ DOMAIN h = DOMAIN e /\ h[i] = n /\ \A j \in DOMAIN e \ {i} : h[j] = e[j]
  BY <1>9, <1>10, Zenon DEF IsGraph
<1>12. n.label = text /\ n.detail = line /\ (Quiet(e[i]) => Quiet(n))
  BY <1>8, Zenon DEF Quiet
<1>13. IsRelabelled(h, e, i, own, cmdline)
  BY <1>2, <1>3, <1>11, <1>12, Zenon DEF IsRelabelled
<1> QED  BY <1>1, <1>13

(* What a graph tells of a process; of one it has no node for, nothing is  *)
(* known.                                                                  *)
Facts(g, q, names, commands) ==
    IF Graph!Proc(q) \in DOMAIN g
    THEN Tells(g[Graph!Proc(q)], names, commands) /\ Quiet(g[Graph!Proc(q)])
    ELSE names = {} /\ commands = {}

(* The graph h is g with node i added or changed.                          *)
Grown(h, g, i) ==
    /\ IsGraph(h)
    /\ DOMAIN h = DOMAIN g \cup {i}
    /\ \A j \in DOMAIN g \ {i} : h[j] = g[j]

(* Two processes have different ids.                                       *)
LEMMA ProcessIds ==
    ASSUME NEW p, NEW q, Graph!Proc(p) = Graph!Proc(q)
    PROVE  p = q
BY ZenonT(60) DEF Graph!Proc

(* process adds a node at most, and of the process it is called for.       *)
LEMMA ProcessMet ==
    ASSUME NEW g, IsGraph(g), NEW pid, NEW name, NEW cmdline
    PROVE  \E e, own :
             /\ own = Graph!processLabel(name)
             /\ Grown(e, g, Graph!Proc(pid))
             /\ Graph!Proc(pid) \in DOMAIN g => e[Graph!Proc(pid)] = g[Graph!Proc(pid)]
             /\ Graph!Proc(pid) \notin DOMAIN g => e[Graph!Proc(pid)] = Graph!Node(own)
             /\ IsRelabelled(Graph!process(g, pid, name, cmdline), e, Graph!Proc(pid), own, cmdline)
<1>1. PICK own : own = Graph!processLabel(name)
  OBVIOUS
<1>2. PICK i : i = Graph!Proc(pid)
  OBVIOUS
<1>3. PICK e : e = Graph!ensure(g, i, own)
  OBVIOUS
<1>4. IsGraph(e) /\ DOMAIN e = DOMAIN g \cup {i}
  BY <1>3, EnsuredGraph, Zenon
<1>5. \A j \in DOMAIN g : e[j] = g[j]
  BY <1>3, EnsuredOld
<1>6. ASSUME i \notin DOMAIN g
      PROVE  e[i] = Graph!Node(own)
  BY <1>3, <1>6, EnsuredNew
<1>7. Graph!process(g, pid, name, cmdline) = Relabel(e, i, own, cmdline)
  BY <1>1, <1>2, <1>3 DEF Graph!process, Relabel
<1>8. IsRelabelled(Relabel(e, i, own, cmdline), e, i, own, cmdline)
  BY <1>4, Relabelled
<1>9. Grown(e, g, i)
  BY <1>4, <1>5 DEF Grown
<1> QED  BY <1>1, <1>2, <1>5, <1>6, <1>7, <1>8, <1>9

(* process adds the process and changes no other node.                     *)
LEMMA ProcessGrows ==
    ASSUME NEW g, IsGraph(g), NEW pid, NEW name, NEW cmdline
    PROVE  Grown(Graph!process(g, pid, name, cmdline), g, Graph!Proc(pid))
<1>1. PICK e, own :
        /\ Grown(e, g, Graph!Proc(pid))
        /\ IsRelabelled(Graph!process(g, pid, name, cmdline), e, Graph!Proc(pid), own, cmdline)
  BY ProcessMet
<1> QED  BY <1>1, ZenonT(60) DEF Grown, IsRelabelled

(* What process makes of a node's name.                                    *)
LEMMA ProcessTells ==
    ASSUME NEW g, IsGraph(g), NEW pid, NEW name, NEW cmdline,
           NEW q, NEW names, NEW commands, Facts(g, q, names, commands)
    PROVE  Facts(Graph!process(g, pid, name, cmdline), q,
                 names \cup (IF q = pid THEN {name} \ {""} ELSE {}),
                 commands \cup (IF q = pid THEN {cmdline} \ {""} ELSE {}))
<1>1. PICK i : i = Graph!Proc(pid)
  OBVIOUS
<1>2. PICK h : h = Graph!process(g, pid, name, cmdline)
  BY ZenonT(60)
<1>3. PICK e, own :
        /\ own = Graph!processLabel(name)
        /\ Grown(e, g, i)
        /\ i \in DOMAIN g => e[i] = g[i]
        /\ i \notin DOMAIN g => e[i] = Graph!Node(own)
        /\ IsRelabelled(h, e, i, own, cmdline)
  BY <1>1, <1>2, ProcessMet
<1>4. CASE q # pid
  <2>1. Graph!Proc(q) # i
    BY <1>1, <1>4, ProcessIds, SMTT(60)
  <2>2. Facts(h, q, names, commands)
    BY <1>3, <2>1, Zenon DEF Facts, Grown, IsRelabelled
  <2>3. /\ names \cup (IF q = pid THEN {name} \ {""} ELSE {}) = names
        /\ commands \cup (IF q = pid THEN {cmdline} \ {""} ELSE {}) = commands
    BY <1>4
  <2> QED  BY <1>2, <2>2, <2>3, Zenon
<1>5. CASE q = pid
  <2>1. i \in DOMAIN h
    BY <1>3, Zenon DEF Grown, IsRelabelled
  <2>2. Quiet(Graph!Node(own)) /\ Graph!Node(own).label = own /\ Graph!Node(own).detail = ""
    BY FreshNode, Zenon
  <2>3. Quiet(h[i]) /\ Tells(h[i], names \cup ({name} \ {""}), commands \cup ({cmdline} \ {""}))
    <3>1. CASE i \in DOMAIN g
      <4>1. Tells(e[i], names, commands) /\ Quiet(e[i])
        BY <1>1, <1>3, <1>5, <3>1, SMTT(60) DEF Facts
      <4> QED  BY <1>3, <4>1, ZenonT(60) DEF IsRelabelled, Tells, Graph!processLabel
    <3>2. CASE i \notin DOMAIN g
      <4>1. names = {} /\ commands = {}
        BY <1>1, <1>5, <3>2 DEF Facts
      <4>2. Quiet(e[i]) /\ e[i].label = own /\ e[i].detail = ""
        BY <1>3, <2>2, <3>2, Zenon
      <4> QED  BY <1>3, <4>1, <4>2, Zenon DEF IsRelabelled, Tells, Graph!processLabel
    <3> QED  BY <3>1, <3>2, Zenon
  <2> QED  BY <1>1, <1>2, <1>5, <2>1, <2>3, Zenon DEF Facts
<1> QED  BY <1>4, <1>5, Zenon

(* file and network leave the processes alone.                             *)
LEMMA EntityGrows ==
    ASSUME NEW g, IsGraph(g), NEW id
    PROVE  Grown(Graph!entity(g, id), g, id)
<1>1. PICK e : e = Graph!ensure(g, id, id[2])
  OBVIOUS
<1>2. IsGraph(e) /\ DOMAIN e = DOMAIN g \cup {id}
  BY <1>1, EnsuredGraph, Zenon
<1>3. \A j \in DOMAIN g : e[j] = g[j]
  BY <1>1, EnsuredOld
<1>4. PICK n : n = [e[id] EXCEPT !.detail = id[2]]
  BY Zenon
<1>5. Graph!entity(g, id) = [e EXCEPT ![id] = n]
  BY <1>1, <1>4 DEF Graph!entity
<1>6. IsNode(n)
  <2>1. IsNode(e[id])
    BY <1>2 DEF IsGraph
  <2>2. PICK line : line = id[2]
    OBVIOUS
  <2>3. n = [label |-> e[id].label, detail |-> line, techniques |-> e[id].techniques,
             severity |-> e[id].severity, alerting |-> e[id].alerting]
    BY <1>4, <2>1, <2>2, NodeFields, Zenon
  <2> QED  BY <2>3 DEF IsNode
<1> QED  BY <1>2, <1>3, <1>5, <1>6, Zenon DEF Grown, IsGraph

(* What entity makes of a node.                                            *)
LEMMA EntityTells ==
    ASSUME NEW g, IsGraph(g), NEW id, NEW q, Graph!Proc(q) # id,
           NEW names, NEW commands, Facts(g, q, names, commands)
    PROVE  Facts(Graph!entity(g, id), q, names, commands)
<1>1. PICK h : h = Graph!entity(g, id)
  OBVIOUS
<1>2. Grown(h, g, id)
  BY <1>1, EntityGrows
<1>3. Facts(h, q, names, commands)
  BY <1>2 DEF Grown, Facts
<1> QED  BY <1>1, <1>3

(* An event acts on one thing at most, and never on a process.             *)
LEMMA OneObject ==
    ASSUME NEW e
    PROVE  \/ Graph!Objects(e) = {}
           \/ \E o : /\ Graph!Objects(e) = {o}
                     /\ \A q : Graph!Proc(q) # o.id
<1>1. ASSUME NEW kind, NEW x, NEW q
      PROVE  Graph!Proc(q) # <<"file", x>> /\ Graph!Proc(q) # <<"network", x>>
  BY DEF Graph!Proc
<1>2. ASSUME NEW id, NEW kind, Graph!Objects(e) = {[id |-> id, kind |-> kind]},
             \A q : Graph!Proc(q) # id
      PROVE  \E o : Graph!Objects(e) = {o} /\ \A q : Graph!Proc(q) # o.id
  <2>1. PICK o : o = [id |-> id, kind |-> kind]
    BY Zenon
  <2>2. o.id = id
    BY <2>1
  <2> QED  BY <1>2, <2>1, <2>2
<1>3. CASE e.file # ""
  <2>1. Graph!Objects(e) = {[id |-> Graph!File(e.file), kind |-> Graph!fileEdgeKinds(e.action)]}
    BY <1>3, Zenon DEF Graph!Objects
  <2>2. \A q : Graph!Proc(q) # Graph!File(e.file)
    BY <1>1, Zenon DEF Graph!File
  <2> QED  BY <1>2, <2>1, <2>2
<1>4. CASE e.file = "" /\ e.action = "dns" /\ e.domain # ""
  <2>1. Graph!Objects(e) = {[id |-> Graph!Network(e.domain), kind |-> "resolved"]}
    BY <1>4, Zenon DEF Graph!Objects
  <2>2. \A q : Graph!Proc(q) # Graph!Network(e.domain)
    BY <1>1 DEF Graph!Network
  <2> QED  BY <1>2, <2>1, <2>2
<1>5. CASE e.file = "" /\ ~(e.action = "dns" /\ e.domain # "") /\ e.dst # ""
  <2>1. Graph!Objects(e) = {[id |-> Graph!Network(e.dst), kind |-> "connected"]}
    BY <1>5, Zenon DEF Graph!Objects
  <2>2. \A q : Graph!Proc(q) # Graph!Network(e.dst)
    BY <1>1 DEF Graph!Network
  <2> QED  BY <1>2, <2>1, <2>2
<1>6. CASE e.file = "" /\ ~(e.action = "dns" /\ e.domain # "") /\ e.dst = ""
  BY <1>6, ZenonT(60) DEF Graph!Objects
<1> QED  BY <1>3, <1>4, <1>5, <1>6, Zenon

(* The inductive invariant: nodes are quiet until the first alert.         *)
GraphInv ==
    /\ IsGraph(nodes)
    /\ alerts = {} => \A pid \in Graph!ProcessesIn : Quiet(nodes[Graph!Proc(pid)])
    /\ Graph!GraphIsStable

(* The graph is empty at the start.                                        *)
LEMMA GraphInit ==
    Graph!Init => GraphInv
<1> SUFFICES ASSUME Graph!Init
             PROVE  GraphInv
  OBVIOUS
<1>1. nodes = << >> /\ DOMAIN nodes = {} /\ edges = {} /\ given = {} /\ alerts = {}
  BY DEF Graph!Init
<1>2. IsGraph(nodes)
  BY <1>1 DEF IsGraph
<1>3. Graph!ProcessesIn = {}
  BY <1>1 DEF Graph!ProcessesIn
<1> QED  BY <1>1, <1>2, <1>3 DEF GraphInv, Graph!GraphIsStable

(* What is known of a process before an event is added: as long as no      *)
(* alert has been annotated, a node says what the events say.              *)
LEMMA KnownFacts ==
    ASSUME GraphInv, alerts = {}, NEW q
    PROVE  Facts(nodes, q, Graph!NamesOf(q), Graph!CommandsOf(q))
<1>1. CASE q \in Graph!ProcessesIn
  <2>1. Graph!Proc(q) \in DOMAIN nodes
    <3>1. DOMAIN nodes = {Graph!Proc(p) : p \in Graph!ProcessesIn}
                         \cup UNION {{o.id : o \in Graph!Objects(f)} : f \in given}
      BY Zenon DEF GraphInv, Graph!GraphIsStable
    <3> QED  BY <1>1, <3>1
  <2>2. Tells(nodes[Graph!Proc(q)], Graph!NamesOf(q), Graph!CommandsOf(q))
    BY <1>1, Zenon DEF GraphInv, Graph!GraphIsStable, Tells
  <2> QED  BY <1>1, <2>1, <2>2 DEF GraphInv, Facts
<1>2. CASE q \notin Graph!ProcessesIn
  <2>1. Graph!NamesOf(q) = {} /\ Graph!CommandsOf(q) = {}
    BY <1>2, Zenon DEF Graph!ProcessesIn, Graph!NamesOf, Graph!CommandsOf
  <2>2. Graph!Proc(q) \notin DOMAIN nodes
    <3>1. ASSUME NEW f, NEW o \in Graph!Objects(f)
          PROVE  Graph!Proc(q) # o.id
      BY <3>1, OneObject, ZenonT(60)
    <3>2. DOMAIN nodes = {Graph!Proc(p) : p \in Graph!ProcessesIn}
                         \cup UNION {{o.id : o \in Graph!Objects(f)} : f \in given}
      BY DEF GraphInv, Graph!GraphIsStable
    <3> QED  BY <1>2, <3>1, <3>2, ProcessIds
  <2> QED  BY <2>1, <2>2 DEF Facts
<1> QED  BY <1>1, <1>2

(* The graph after an event (addEvent).                                    *)
Actor(g, e) == Graph!process(g, e.pid, e.name, e.cmdline)

(* The graph after an event's process and its parent, ...                  *)
Family(g, e) ==
    IF Graph!HasParent(e) THEN Graph!process(Actor(g, e), e.ppid, e.parentName, "") ELSE Actor(g, e)

(* ... and after the object it touches.                                    *)
After(g, e) ==
    IF Graph!Objects(e) = {} THEN Family(g, e)
    ELSE Graph!entity(Family(g, e), (CHOOSE o \in Graph!Objects(e) : TRUE).id)

(* Names, command lines and nodes known after one more event.              *)
NamesAfter(names, e, q) ==
    names \cup (IF q = e.pid THEN {e.name} \ {""} ELSE {})
          \cup (IF Graph!HasParent(e) /\ q = e.ppid THEN {e.parentName} \ {""} ELSE {})

CommandsAfter(commands, e, q) ==
    commands \cup (IF q = e.pid THEN {e.cmdline} \ {""} ELSE {})

DomainAfter(domain, e) ==
    domain \cup {Graph!Proc(e.pid)}
           \cup (IF Graph!HasParent(e) THEN {Graph!Proc(e.ppid)} ELSE {})
           \cup {o.id : o \in Graph!Objects(e)}

(* The graph after an event, for any process.                              *)
LEMMA EventTells ==
    ASSUME NEW g, IsGraph(g), NEW e, NEW q, NEW names, NEW commands,
           Facts(g, q, names, commands)
    PROVE  /\ IsGraph(After(g, e))
           /\ DOMAIN After(g, e) = DomainAfter(DOMAIN g, e)
           /\ Facts(After(g, e), q, NamesAfter(names, e, q), CommandsAfter(commands, e, q))
<1>1. PICK actor : actor = Actor(g, e)
  OBVIOUS
<1>2. PICK family : family = Family(g, e)
  OBVIOUS
<1>3. PICK h : h = After(g, e)
  OBVIOUS
<1>4. PICK n1 : n1 = names \cup (IF q = e.pid THEN {e.name} \ {""} ELSE {})
  BY Zenon
<1>5. PICK c1 : c1 = commands \cup (IF q = e.pid THEN {e.cmdline} \ {""} ELSE {})
  BY Zenon
<1>6. PICK n2 : n2 = n1 \cup (IF Graph!HasParent(e) /\ q = e.ppid THEN {e.parentName} \ {""} ELSE {})
  BY Zenon
<1>7. IsGraph(actor) /\ DOMAIN actor = DOMAIN g \cup {Graph!Proc(e.pid)}
  <2>1. Grown(actor, g, Graph!Proc(e.pid))
    BY <1>1, ProcessGrows DEF Actor
  <2> QED  BY <2>1 DEF Grown
<1>8. Facts(actor, q, n1, c1)
  BY <1>1, <1>4, <1>5, ProcessTells, Zenon DEF Actor
<1>9. /\ IsGraph(family)
      /\ DOMAIN family = DOMAIN actor \cup (IF Graph!HasParent(e) THEN {Graph!Proc(e.ppid)} ELSE {})
      /\ Facts(family, q, n2, c1)
  <2>1. CASE Graph!HasParent(e)
    <3>1. PICK none : none = ""
      BY Zenon
    <3>2. family = Graph!process(actor, e.ppid, e.parentName, none)
      BY <1>1, <1>2, <2>1, <3>1, ZenonT(60) DEF Family
    <3>3. Grown(family, actor, Graph!Proc(e.ppid))
      BY <1>7, <3>2, ProcessGrows, Zenon
    <3>4. Facts(family, q, n1 \cup (IF q = e.ppid THEN {e.parentName} \ {""} ELSE {}),
                           c1 \cup (IF q = e.ppid THEN {none} \ {""} ELSE {}))
      <4>1. IsGraph(actor) /\ Facts(actor, q, n1, c1)
        BY <1>7, <1>8
      <4>2. PICK p, m : p = e.ppid /\ m = e.parentName
        OBVIOUS
      <4>3. Facts(Graph!process(actor, p, m, none), q,
                  n1 \cup (IF q = p THEN {m} \ {""} ELSE {}),
                  c1 \cup (IF q = p THEN {none} \ {""} ELSE {}))
        BY <4>1, ProcessTells, Zenon
      <4> QED  BY <3>2, <4>2, <4>3, Zenon
    <3>5. /\ n1 \cup (IF q = e.ppid THEN {e.parentName} \ {""} ELSE {}) = n2
          /\ c1 \cup (IF q = e.ppid THEN {none} \ {""} ELSE {}) = c1
      BY <1>6, <2>1, <3>1, ZenonT(60)
    <3> QED  BY <2>1, <3>3, <3>4, <3>5, Zenon DEF Grown
  <2>2. CASE ~Graph!HasParent(e)
    <3>1. family = actor /\ n2 = n1
      BY <1>1, <1>2, <1>6, <2>2, Zenon DEF Family
    <3> QED  BY <1>7, <1>8, <2>2, <3>1
  <2> QED  BY <2>1, <2>2, Zenon
<1>10. /\ IsGraph(h)
      /\ DOMAIN h = DOMAIN family \cup {o.id : o \in Graph!Objects(e)}
      /\ Facts(h, q, n2, c1)
  <2>1. CASE Graph!Objects(e) = {}
    BY <1>2, <1>3, <1>9, <2>1, Zenon DEF After
  <2>2. CASE Graph!Objects(e) # {}
    <3>1. PICK o : Graph!Objects(e) = {o} /\ \A p : Graph!Proc(p) # o.id
      BY <2>2, OneObject, Zenon
    <3>2. h = Graph!entity(family, o.id)
      BY <1>2, <1>3, <2>2, <3>1 DEF After
    <3>3. Grown(h, family, o.id)
      BY <1>9, <3>2, EntityGrows, ZenonT(60)
    <3>4. Facts(h, q, n2, c1)
      BY <1>9, <3>1, <3>2, EntityTells
    <3> QED  BY <3>1, <3>3, <3>4 DEF Grown
  <2> QED  BY <2>1, <2>2, Zenon
<1>11. n2 = NamesAfter(names, e, q) /\ c1 = CommandsAfter(commands, e, q)
  BY <1>4, <1>5, <1>6, ZenonT(60) DEF NamesAfter, CommandsAfter
<1>12. DOMAIN h = DomainAfter(DOMAIN g, e)
  BY <1>7, <1>9, <1>10 DEF DomainAfter
<1> QED  BY <1>3, <1>10, <1>11, <1>12

(* What a node says of the alerts of its process.                          *)
Alerted(n, own) ==
    /\ n.alerting = (own # {})
    /\ n.techniques = {a.technique : a \in own} \ {""}
    /\ Graph!severityRank(n.severity) = Graph!Highest({Graph!severityRank(a.severity) : a \in own} \cup {0})

(* Alerts of a process.                                                    *)
Own(pid) == {a \in alerts : a.pid = pid}

(* Highest picks the maximum.                                              *)
LEMMA HighestOf ==
    ASSUME NEW S \in SUBSET Int, NEW m \in S, \A x \in S : m >= x
    PROVE  Graph!Highest(S) = m
<1>1. PICK x : x = Graph!Highest(S)
  OBVIOUS
<1>2. x \in S /\ \A y \in S : x >= y
  BY <1>1, Zenon DEF Graph!Highest
<1>3. x \in Int /\ m \in Int /\ x >= m /\ m >= x
  BY <1>2
<1> QED  BY <1>1, <1>3

(* The ranks of severities.                                                *)
LEMMA Ranks ==
    ASSUME NEW severity
    PROVE  Graph!severityRank(severity) \in {0, 2, 5}
BY DEF Graph!severityRank

(* A set of ranks has a highest one.                                       *)
LEMMA HighestOfRanks ==
    ASSUME NEW S \in SUBSET {0, 2, 5}, 0 \in S
    PROVE  Graph!Highest(S) \in S /\ \A x \in S : Graph!Highest(S) >= x
<1>1. CASE 5 \in S
  <2>1. Graph!Highest(S) = 5
    BY <1>1, HighestOf
  <2> QED  BY <1>1, <2>1
<1>2. CASE 5 \notin S /\ 2 \in S
  <2>1. Graph!Highest(S) = 2
    BY <1>2, HighestOf
  <2> QED  BY <1>2, <2>1
<1>3. CASE 5 \notin S /\ 2 \notin S
  <2>1. Graph!Highest(S) = 0
    BY <1>3, HighestOf
  <2> QED  BY <1>3, <2>1
<1> QED  BY <1>1, <1>2, <1>3

(* A node without alerts has neither technique nor severity.               *)
LEMMA QuietIsUnalerted ==
    ASSUME NEW n, Quiet(n)
    PROVE  Alerted(n, {})
<1>1. {Graph!severityRank(a.severity) : a \in {}} \cup {0} = {0}
  OBVIOUS
<1>2. Graph!Highest({0}) = 0
  BY HighestOf
<1>3. Graph!severityRank("") = 0
  BY Zenon DEF Graph!severityRank
<1> QED  BY <1>1, <1>2, <1>3, Zenon DEF Alerted, Quiet

(* GraphIsStable, in the terms of these lemmas.                            *)
Stable ==
    /\ DOMAIN nodes = {Graph!Proc(pid) : pid \in Graph!ProcessesIn}
                      \cup UNION {{o.id : o \in Graph!Objects(e)} : e \in given}
    /\ edges = UNION {Graph!Links(e) : e \in given}
    /\ \A pid \in Graph!ProcessesIn :
          /\ Tells(nodes[Graph!Proc(pid)], Graph!NamesOf(pid), Graph!CommandsOf(pid))
          /\ Alerted(nodes[Graph!Proc(pid)], Own(pid))

(* GraphIsStable, node by node.                                            *)
LEMMA StableMeans ==
    Graph!GraphIsStable <=> Stable
BY DEF Graph!GraphIsStable, Stable, Tells, Alerted, Own

(* One event more.                                                         *)
LEMMA EventAdded ==
    ASSUME GraphInv, NEW e \in Events, Graph!addEvent(e)
    PROVE  GraphInv'
<1>1. /\ alerts = {} /\ alerts' = {}
      /\ nodes' = After(nodes, e)
      /\ edges' = edges \cup Graph!Links(e)
      /\ given' = given \cup {e}
  BY Zenon DEF Graph!addEvent, After, Family, Actor
<1>2. IsGraph(nodes)
  BY DEF GraphInv
<1>3. ASSUME NEW q
      PROVE  Facts(nodes', q, NamesAfter(Graph!NamesOf(q), e, q),
                              CommandsAfter(Graph!CommandsOf(q), e, q))
  <2>1. Facts(nodes, q, Graph!NamesOf(q), Graph!CommandsOf(q))
    BY <1>1, KnownFacts
  <2> QED  BY <1>1, <1>2, <2>1, EventTells
<1>4. IsGraph(nodes') /\ DOMAIN nodes' = DomainAfter(DOMAIN nodes, e)
  <2>1. Facts(nodes, e.pid, Graph!NamesOf(e.pid), Graph!CommandsOf(e.pid))
    BY <1>1, KnownFacts, ZenonT(60)
  <2> QED  BY <1>1, <1>2, <2>1, EventTells
<1>5. Graph!ProcessesIn' = Graph!ProcessesIn \cup {e.pid}
                             \cup (IF Graph!HasParent(e) THEN {e.ppid} ELSE {})
  BY <1>1 DEF Graph!ProcessesIn
<1>6. (DOMAIN nodes = {Graph!Proc(pid) : pid \in Graph!ProcessesIn}
                      \cup UNION {{o.id : o \in Graph!Objects(f)} : f \in given})'
  <2>1. DOMAIN nodes = {Graph!Proc(pid) : pid \in Graph!ProcessesIn}
                       \cup UNION {{o.id : o \in Graph!Objects(f)} : f \in given}
    BY Zenon DEF GraphInv, Graph!GraphIsStable
  <2>2. UNION {{o.id : o \in Graph!Objects(f)} : f \in given'}
          = (UNION {{o.id : o \in Graph!Objects(f)} : f \in given}) \cup {o.id : o \in Graph!Objects(e)}
    BY <1>1
  <2>3. {Graph!Proc(pid) : pid \in Graph!ProcessesIn'}
          = {Graph!Proc(pid) : pid \in Graph!ProcessesIn} \cup {Graph!Proc(e.pid)}
              \cup (IF Graph!HasParent(e) THEN {Graph!Proc(e.ppid)} ELSE {})
    BY <1>5
  <2> QED  BY <1>4, <2>1, <2>2, <2>3, Zenon DEF DomainAfter
<1>7. (edges = UNION {Graph!Links(f) : f \in given})'
  <2>1. edges = UNION {Graph!Links(f) : f \in given}
    BY Zenon DEF GraphInv, Graph!GraphIsStable
  <2>2. UNION {Graph!Links(f) : f \in given'} = (UNION {Graph!Links(f) : f \in given}) \cup Graph!Links(e)
    BY <1>1
  <2> QED  BY <1>1, <2>1, <2>2
<1>8. ASSUME NEW q
      PROVE  /\ Graph!NamesOf(q)' = NamesAfter(Graph!NamesOf(q), e, q)
             /\ Graph!CommandsOf(q)' = CommandsAfter(Graph!CommandsOf(q), e, q)
  <2>1. Graph!NamesOf(q)' = NamesAfter(Graph!NamesOf(q), e, q)
    BY <1>1, ZenonT(60) DEF Graph!NamesOf, NamesAfter
  <2>2. Graph!CommandsOf(q)' = CommandsAfter(Graph!CommandsOf(q), e, q)
    BY <1>1, ZenonT(60) DEF Graph!CommandsOf, CommandsAfter
  <2> QED  BY <2>1, <2>2
<1>9. ASSUME NEW q \in Graph!ProcessesIn'
      PROVE  /\ Tells(nodes'[Graph!Proc(q)], Graph!NamesOf(q)', Graph!CommandsOf(q)')
             /\ Quiet(nodes'[Graph!Proc(q)])
  <2>1. Graph!Proc(q) \in DOMAIN nodes'
    BY <1>6
  <2>2. Facts(nodes', q, Graph!NamesOf(q)', Graph!CommandsOf(q)')
    BY <1>3, <1>8
  <2> QED  BY <2>1, <2>2 DEF Facts
<1>10. ASSUME NEW q \in Graph!ProcessesIn'
       PROVE  Alerted(nodes'[Graph!Proc(q)], Own(q)')
  <2>1. Own(q)' = {}
    BY <1>1 DEF Own
  <2> QED  BY <1>9, <2>1, QuietIsUnalerted
<1>11. Graph!GraphIsStable'
  <2>1. (Graph!GraphIsStable <=> Stable)'
    BY StableMeans, PTL
  <2>2. Stable'
    BY <1>6, <1>7, <1>9, <1>10, Zenon DEF Stable
  <2> QED  BY <2>1, <2>2
<1> QED  BY <1>4, <1>9, <1>11, SMTT(60) DEF GraphInv

(* The severity a node has after one more alert.                           *)
Graver(a, severity) ==
    IF Graph!severityRank(a.severity) > Graph!severityRank(severity) THEN a.severity ELSE severity

(* One alert more, at its node.                                            *)
LEMMA AnnotatedNode ==
    ASSUME NEW n, IsNode(n), NEW a
    PROVE  Graph!Annotated(n, a) = [label |-> n.label, detail |-> n.detail,
                              techniques |-> n.techniques \cup ({a.technique} \ {""}),
                              severity |-> Graver(a, n.severity), alerting |-> TRUE]
<1>1. PICK u, v, w, x, y :
        n = [label |-> u, detail |-> v, techniques |-> w, severity |-> x, alerting |-> y]
  BY DEF IsNode
<1>2. PICK yes : yes = TRUE
  OBVIOUS
<1>3. PICK more : more = w \cup ({a.technique} \ {""})
  BY Zenon
<1>4. PICK graver : graver = Graver(a, x)
  OBVIOUS
<1>5. PICK r : r = [n EXCEPT !.alerting = yes]
  BY Zenon
<1>6. r = [label |-> u, detail |-> v, techniques |-> w, severity |-> x, alerting |-> yes]
  BY <1>1, <1>5
<1>7. PICK s : s = [r EXCEPT !.techniques = more]
  BY Zenon
<1>8. s = [label |-> u, detail |-> v, techniques |-> more, severity |-> x, alerting |-> yes]
  BY <1>6, <1>7
<1>9. [s EXCEPT !.severity = graver]
        = [label |-> u, detail |-> v, techniques |-> more, severity |-> graver, alerting |-> yes]
  BY <1>8
<1>10. n.techniques = w /\ n.label = u /\ n.detail = v /\ n.severity = x
  BY <1>1
<1>11. Graph!Annotated(n, a) = [s EXCEPT !.severity = graver]
  BY <1>2, <1>3, <1>4, <1>5, <1>7, <1>10, Zenon DEF Graph!Annotated, Graver
<1> QED  BY <1>2, <1>3, <1>4, <1>9, <1>10, <1>11, Zenon

(* One alert more.                                                         *)
LEMMA AlertAnnotated ==
    ASSUME GraphInv, NEW a \in Annotations, Graph!annotate(a)
    PROVE  GraphInv'
<1>1. /\ alerts' = alerts \cup {a}
      /\ UNCHANGED <<edges, given>>
  BY DEF Graph!annotate
<1>2. PICK i : i = Graph!Proc(a.pid)
  OBVIOUS
<1>3. PICK n : n = Graph!Annotated(nodes[i], a)
  OBVIOUS
<1>4. nodes' = IF i \notin DOMAIN nodes THEN nodes ELSE [nodes EXCEPT ![i] = n]
  <2>1. nodes' = IF Graph!Proc(a.pid) \notin DOMAIN nodes THEN nodes
                 ELSE [nodes EXCEPT ![Graph!Proc(a.pid)] = Graph!Annotated(nodes[Graph!Proc(a.pid)], a)]
    BY DEF Graph!annotate
  <2> QED  BY <1>2, <1>3, <2>1
<1>5. PICK severity : severity = Graver(a, nodes[i].severity)
  BY SMTT(60)
<1>6. ASSUME i \in DOMAIN nodes
      PROVE  n = [label |-> nodes[i].label, detail |-> nodes[i].detail,
                  techniques |-> nodes[i].techniques \cup ({a.technique} \ {""}),
                  severity |-> severity, alerting |-> TRUE]
  <2>1. IsNode(nodes[i])
    BY <1>6, SMTT(60) DEF GraphInv, IsGraph
  <2> QED  BY <1>3, <1>5, <2>1, AnnotatedNode, Zenon
<1>7. IsGraph(nodes') /\ DOMAIN nodes' = DOMAIN nodes
  <2>1. CASE i \in DOMAIN nodes
    <3>1. IsNode(n)
      BY <1>6, <2>1, Zenon DEF IsNode
    <3> QED  BY <1>4, <2>1, <3>1, ZenonT(60) DEF GraphInv, IsGraph
  <2>2. CASE i \notin DOMAIN nodes
    BY <1>4, <2>2 DEF GraphInv
  <2> QED  BY <2>1, <2>2
<1>8. Graph!ProcessesIn' = Graph!ProcessesIn
  BY <1>1 DEF Graph!ProcessesIn
<1>9. \A q : Graph!NamesOf(q)' = Graph!NamesOf(q) /\ Graph!CommandsOf(q)' = Graph!CommandsOf(q)
  BY <1>1 DEF Graph!NamesOf, Graph!CommandsOf
<1>10. ASSUME NEW q \in Graph!ProcessesIn
       PROVE  /\ Tells(nodes'[Graph!Proc(q)], Graph!NamesOf(q), Graph!CommandsOf(q))
              /\ Alerted(nodes'[Graph!Proc(q)], Own(q)')
  <2>1. /\ Graph!Proc(q) \in DOMAIN nodes
        /\ Tells(nodes[Graph!Proc(q)], Graph!NamesOf(q), Graph!CommandsOf(q))
        /\ Alerted(nodes[Graph!Proc(q)], Own(q))
    BY StableMeans, Zenon DEF GraphInv, Stable
  <2>2. CASE q # a.pid
    <3>1. Graph!Proc(q) # i
      BY <1>2, <2>2, ProcessIds
    <3>2. nodes'[Graph!Proc(q)] = nodes[Graph!Proc(q)]
      BY <1>4, <2>1, <3>1 DEF GraphInv, IsGraph
    <3>3. Own(q)' = Own(q)
      BY <1>1, <2>2, ZenonT(60) DEF Own
    <3> QED  BY <2>1, <3>2, <3>3
  <2>3. CASE q = a.pid
    <3>1. nodes'[i] = n /\ i = Graph!Proc(q) /\ i \in DOMAIN nodes
      BY <1>2, <1>4, <2>1, <2>3 DEF GraphInv, IsGraph
    <3>2. Own(q)' = Own(q) \cup {a}
      BY <1>1, <2>3, SMTT(60) DEF Own
    <3>3. /\ n.label = nodes[i].label /\ n.detail = nodes[i].detail
          /\ n.techniques = nodes[i].techniques \cup ({a.technique} \ {""})
          /\ n.severity = severity /\ n.alerting = TRUE
      <4>1. PICK u, v, w, yes :
              /\ u = nodes[i].label /\ v = nodes[i].detail
              /\ w = nodes[i].techniques \cup ({a.technique} \ {""}) /\ yes = TRUE
        BY ZenonT(60)
      <4>2. n = [label |-> u, detail |-> v, techniques |-> w, severity |-> severity, alerting |-> yes]
        BY <1>6, <3>1, <4>1, Zenon
      <4>3. n.label = u /\ n.detail = v /\ n.techniques = w /\ n.severity = severity /\ n.alerting = yes
        BY <4>2, SMTT(60)
      <4> QED  BY <4>1, <4>3, ZenonT(60)
    <3>4. Tells(n, Graph!NamesOf(q), Graph!CommandsOf(q))
      BY <2>1, <3>1, <3>3, ZenonT(60) DEF Tells
    <3>5. n.techniques = {b.technique : b \in Own(q) \cup {a}} \ {""}
      <4>1. nodes[i].techniques = {b.technique : b \in Own(q)} \ {""}
        BY <2>1, <3>1, Zenon DEF Alerted
      <4>2. ASSUME NEW S
            PROVE  {b.technique : b \in S \cup {a}} \ {""}
                     = ({b.technique : b \in S} \ {""}) \cup ({a.technique} \ {""})
        BY Zenon
      <4> QED  BY <3>3, <4>1, <4>2, Zenon
    <3> DEFINE R == {Graph!severityRank(b.severity) : b \in Own(q)} \cup {0}
               Q == {Graph!severityRank(b.severity) : b \in Own(q) \cup {a}} \cup {0}
               rank == Graph!severityRank(nodes[i].severity)
               new == Graph!severityRank(a.severity)
    <3>6. /\ R \in SUBSET {0, 2, 5} /\ 0 \in R /\ Q = R \cup {new}
          /\ rank \in {0, 2, 5} /\ new \in {0, 2, 5}
      BY Ranks, SMTT(60)
    <3>7. rank = Graph!Highest(R)
      BY <2>1, <3>1, Zenon DEF Alerted
    <3>8. Graph!severityRank(severity) = IF new > rank THEN new ELSE rank
      BY <1>5 DEF Graver
    <3> HIDE DEF R, Q, rank, new
    <3>9. rank \in R /\ \A x \in R : rank >= x
      BY <3>6, <3>7, HighestOfRanks
    <3>10. Graph!Highest(Q) = IF new > rank THEN new ELSE rank
      <4> DEFINE m == IF new > rank THEN new ELSE rank
      <4>1. Q \in SUBSET Int /\ m \in Q /\ \A x \in Q : m >= x
        BY <3>6, <3>9
      <4> HIDE DEF m
      <4>2. Graph!Highest(Q) = m
        BY <4>1, HighestOf
      <4> QED  BY <4>2 DEF m
    <3>11. Graph!severityRank(n.severity) = Graph!Highest(Q)
      BY <3>3, <3>8, <3>10, Zenon
    <3>12. n.alerting = (Own(q) \cup {a} # {})
      BY <3>3, ZenonT(60)
    <3>13. Alerted(n, Own(q) \cup {a})
      BY <3>5, <3>11, <3>12, Zenon DEF Alerted, Q
    <3> QED  BY <3>1, <3>2, <3>4, <3>13
  <2> QED  BY <2>2, <2>3, Zenon
<1>11. Graph!GraphIsStable'
  <2>1. (Graph!GraphIsStable <=> Stable)'
    BY StableMeans, PTL
  <2>2. Stable
    BY StableMeans, SMTT(60) DEF GraphInv
  <2>3. Stable'
    BY <1>1, <1>7, <1>8, <1>9, <1>10, <2>2, Zenon DEF Stable
  <2> QED  BY <2>1, <2>3
<1> QED  BY <1>1, <1>7, <1>11 DEF GraphInv

(* The attack graph is the same whatever order events and alerts come in   *)
(* (graph.go Build, annotate), for any events: a node for everything they  *)
(* mention, the edges they tell of, no process left anonymous that some    *)
(* event names, every technique and the highest severity of its alerts.    *)
THEOREM GraphOrderIsIrrelevant ==
    Graph!Spec => []Graph!GraphIsStable
<1>1. GraphInv /\ [Graph!Next]_(Graph!vars) => GraphInv'
  <2>1. ASSUME GraphInv, UNCHANGED Graph!vars
        PROVE  GraphInv'
    BY <2>1, ZenonT(60) DEF Graph!vars, GraphInv, Graph!GraphIsStable, Graph!ProcessesIn, Graph!NamesOf,
                Graph!CommandsOf
  <2> QED  BY <2>1, EventAdded, AlertAnnotated, SMTT(60) DEF Graph!Next
<1>2. GraphInv => Graph!GraphIsStable
  BY DEF GraphInv
<1> QED  BY <1>1, <1>2, GraphInit, PTL DEF Graph!Spec

-----------------------------------------------------------------------------
(* A hunt and the rule made of it agree on every comparison whose literals *)
(* have the type of the field, for every value of field and literal and    *)
(* whatever the text operators match.                                      *)
CONSTANT TextMatch(_, _, _)

Terms == INSTANCE Comparison

(* The numbers of a literal and of a field are natural.                    *)
LEMMA NumbersAreNatural ==
    ASSUME NEW raw \in Terms!Raws, NEW v \in Terms!Literals
    PROVE  v.half \in Nat /\ raw.num \in Nat
<1>1. raw.num \in Nat
  BY DEF Terms!Raws
<1>2. CASE v \in [isNum : {FALSE}, half : {0}, str : Terms!Texts]
  <2>1. v.half \in {0}
    BY <1>2, Zenon
  <2> QED
    BY <1>1, <2>1
<1>3. CASE v \in [isNum : {TRUE}, half : Nat, str : Terms!Texts]
  <2>1. v.half \in Nat
    BY <1>3, Zenon
  <2> QED
    BY <1>1, <2>1
<1> QED
  BY <1>2, <1>3, Zenon DEF Terms!Literals

(* eval.go valueEquals and operators.go valuesEqual agree on a literal of  *)
(* the field's type: strings are compared as written, numbers as integers, *)
(* booleans as the words true and false.                                   *)
LEMMA EqualityAgreement ==
    ASSUME NEW raw \in Terms!Raws, raw.kind \in Terms!Kinds,
           NEW v \in Terms!Literals, Terms!TypedLiteral(raw.kind, v)
    PROVE  Terms!valueEquals(raw, v) <=> Terms!valuesEqual(raw, Terms!literal(v))
<1>1. CASE raw.kind = "string"
  <2>1. ~v.isNum
    BY <1>1 DEF Terms!TypedLiteral
  <2>2. Terms!ValueString(v) = v.str /\ Terms!LiteralString(Terms!literal(v)) = v.str
    BY <2>1 DEF Terms!ValueString, Terms!LiteralString, Terms!literal
  <2> QED
    BY <1>1, <2>2, Zenon DEF Terms!valueEquals, Terms!valuesEqual
<1>2. CASE raw.kind = "bool"
  <2>1. ~v.isNum /\ v.str.form = "bool"
    BY <1>2 DEF Terms!TypedLiteral
  <2>2. Terms!literal(v).kind = "string" /\ Terms!literal(v).str = v.str
    BY <2>1, Zenon DEF Terms!literal
  <2>3. v.str # Terms!Text("plain", 2 * raw.num)
    BY <2>1, SMTT(60) DEF Terms!Text
  <2>4. Terms!toBool(Terms!literal(v), raw.num) <=> v.str = Terms!FormatBool(raw.num)
    BY <2>2, <2>3 DEF Terms!toBool
  <2> QED
    BY <1>2, <2>4, Zenon DEF Terms!valueEquals, Terms!valuesEqual
<1>3. CASE raw.kind = "int64"
  <2>1. v.isNum /\ Terms!Whole(v.half)
    BY <1>3 DEF Terms!TypedLiteral
  <2>2. v.half \in Nat /\ raw.num \in Nat
    BY NumbersAreNatural
  <2>3. Terms!literal(v).kind = "number" /\ Terms!literal(v).half = v.half
    BY <2>1 DEF Terms!literal
  <2>4. Terms!IsInt64(Terms!literal(v)) /\ Terms!toInt64(Terms!literal(v)) = v.half \div 2
    BY <2>3 DEF Terms!IsInt64, Terms!toInt64
  <2>5. Terms!IsNumber(v) /\ Terms!asNumber(v) = v.half
    BY <2>1 DEF Terms!IsNumber, Terms!asNumber
  <2>6. 2 * raw.num = v.half <=> raw.num = v.half \div 2
    BY <2>1, <2>2, SMTT(60) DEF Terms!Whole
  <2> QED
    BY <1>3, <2>4, <2>5, <2>6 DEF Terms!valueEquals, Terms!valuesEqual
<1> QED
  BY <1>1, <1>2, <1>3, SMTT(60) DEF Terms!Kinds

(* eval.go numericCompare and operators.go numberCompare agree on an       *)
(* integer field and an integer literal, though one compares floats and    *)
(* the other integers.                                                     *)
LEMMA OrderAgreement ==
    ASSUME NEW raw \in Terms!Raws, raw.kind = "int64", NEW op \in Terms!OrderOps,
           NEW v \in Terms!Literals, Terms!TypedLiteral("int64", v)
    PROVE  /\ Terms!IsInt64(Terms!literal(v))
           /\ Terms!numericCompare(raw, op, v) <=> Terms!Ordered(op, raw.num, Terms!toInt64(Terms!literal(v)))
<1>1. v.isNum /\ Terms!Whole(v.half)
  BY DEF Terms!TypedLiteral
<1>2. v.half \in Nat /\ raw.num \in Nat
  BY NumbersAreNatural
<1>3. Terms!literal(v).kind = "number" /\ Terms!literal(v).half = v.half
  BY <1>1 DEF Terms!literal
<1>4. Terms!IsInt64(Terms!literal(v)) /\ Terms!toInt64(Terms!literal(v)) = v.half \div 2
  BY <1>3 DEF Terms!IsInt64, Terms!toInt64
<1>5. Terms!IsNumber(v) /\ Terms!asNumber(v) = v.half
  BY <1>1 DEF Terms!IsNumber, Terms!asNumber
<1>6. Terms!Ordered(op, 2 * raw.num, v.half) <=> Terms!Ordered(op, raw.num, v.half \div 2)
  BY <1>1, <1>2 DEF Terms!Ordered, Terms!Whole
<1> QED
  BY <1>4, <1>5, <1>6 DEF Terms!numericCompare

(* "The match tree is derived from the query itself, so the rule fires on  *)
(* exactly what the hunt found" (torule.go): the comparison of a field     *)
(* with literals of its type compiles as a rule's leaf, and the leaf       *)
(* matches exactly the events the hunt's comparison matches; but for != on *)
(* an event that lacks the field.                                          *)
THEOREM LeafAgreement ==
    ASSUME NEW kind \in Terms!Kinds, NEW raw \in Terms!Raws, raw.kind \in {kind, "absent"},
           NEW op, NEW values \in Seq(Terms!Literals), values # << >>,
           Terms!WellTyped(kind, op, values),
           op = "!=" => raw.kind # "absent"
    PROVE  /\ Terms!compileLeaf(op, values)
           /\ Terms!HuntMatches(raw, op, values) <=> Terms!RuleMatches(raw, op, values)
<1>1. /\ 1 \in DOMAIN values
      /\ \A i \in DOMAIN values : values[i] \in Terms!Literals /\ Terms!TypedLiteral(kind, values[i])
  BY DEF Terms!WellTyped
<1>2. Terms!TypedOp(kind, op)
  BY DEF Terms!WellTyped
<1>3. Terms!compileLeaf(op, values)
  <2> SUFFICES ASSUME op \in Terms!OrderOps
               PROVE  Terms!IsInt64(Terms!literal(values[1]))
    BY DEF Terms!compileLeaf
  <2>1. kind = "int64"
    BY <1>2 DEF Terms!TypedOp, Terms!OrderOps, Terms!EqualityOps, Terms!TextOps
  <2>2. values[1].isNum
    BY <1>1, <2>1 DEF Terms!TypedLiteral
  <2> QED
    BY <2>2 DEF Terms!IsInt64, Terms!literal
<1>4. CASE raw.kind = "absent"
  <2>1. ~Terms!HuntMatches(raw, op, values)
    BY <1>4 DEF Terms!HuntMatches
  <2>2. ~Terms!RuleMatches(raw, op, values)
    BY <1>4 DEF Terms!RuleMatches
  <2> QED
    BY <1>3, <2>1, <2>2
<1>5. CASE raw.kind = kind
  <2>1. \A i \in DOMAIN values :
           Terms!valueEquals(raw, values[i]) <=> Terms!valuesEqual(raw, Terms!literal(values[i]))
    BY <1>1, <1>5, EqualityAgreement, Zenon
  <2>2. CASE op \in Terms!EqualityOps
    <3>1. op \notin Terms!TextOps /\ op \notin Terms!OrderOps
      BY <2>2 DEF Terms!EqualityOps, Terms!TextOps, Terms!OrderOps
    <3>2. raw.kind # "absent"
      BY <1>5, Zenon DEF Terms!Kinds
    <3> QED
      BY <1>1, <1>3, <2>1, <3>1, <3>2 DEF Terms!HuntMatches, Terms!RuleMatches
  <2>3. CASE kind = "string" /\ op \in Terms!TextOps
    <3>1. op \notin Terms!EqualityOps /\ op \notin Terms!OrderOps
      BY <2>3 DEF Terms!EqualityOps, Terms!TextOps, Terms!OrderOps
    <3>2. Terms!LiteralString(Terms!literal(values[1])) = values[1].str
      <4>1. ~values[1].isNum
        BY <1>1, <2>3 DEF Terms!TypedLiteral
      <4> QED
        BY <4>1 DEF Terms!LiteralString, Terms!literal
    <3>3. Terms!toString(raw) = raw.text
      BY <1>5, <2>3 DEF Terms!toString
    <3> QED
      BY <1>3, <1>5, <2>3, <3>1, <3>2, <3>3 DEF Terms!HuntMatches, Terms!RuleMatches, Terms!EqualityOps
  <2>4. CASE kind = "int64" /\ op \in Terms!OrderOps
    <3>1. op \notin Terms!EqualityOps /\ op \notin Terms!TextOps
      BY <2>4 DEF Terms!EqualityOps, Terms!TextOps, Terms!OrderOps
    <3>2. Terms!numericCompare(raw, op, values[1])
             <=> Terms!Ordered(op, raw.num, Terms!toInt64(Terms!literal(values[1])))
      BY <1>1, <1>5, <2>4, OrderAgreement
    <3> QED
      BY <1>3, <1>5, <2>4, <3>1, <3>2 DEF Terms!HuntMatches, Terms!RuleMatches, Terms!EqualityOps
  <2> QED
    BY <1>2, <2>2, <2>3, <2>4 DEF Terms!TypedOp
<1> QED
  BY <1>4, <1>5
=============================================================================
