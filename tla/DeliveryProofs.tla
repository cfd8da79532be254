--------------------------- MODULE DeliveryProofs ---------------------------
(***************************************************************************)
(* Proofs about what leaves the agent: alerts on their way to the store of *)
(* the control plane (AlertDelivery), documents in the batches of the Loki *)
(* sink (LokiSink) and lines in the rotating log file (FileSink), for any  *)
(* queue and any number of alerts, broken streams, failing calls and       *)
(* crashes.                                                                *)
(*                                                                         *)
(* Alerts are numbered as they are emitted. What waits in the agent, what  *)
(* a stream carries and what is stored are apart, each in order, and what  *)
(* waits comes after all that was sent; so nothing is stored twice however *)
(* streams break.                                                          *)
(***************************************************************************)
EXTENDS AlertDelivery, FiniteSetTheorems, TLAPS

-----------------------------------------------------------------------------
(* Sequences of numbers in increasing order.                               *)
Increasing(s) == \A i, j \in 1..Len(s) : i < j => s[i] < s[j]

(* What append does to a list of alerts that are all older.                *)
IsAppended(t, s, x) ==
    /\ t \in Seq(Nat)
    /\ Range(t) = Range(s) \cup {x}
    /\ Increasing(s) /\ (\A y \in Range(s) : y < x) => Increasing(t)

(* What Append does to an increasing sequence.                             *)
LEMMA AppendFacts ==
    ASSUME NEW s \in Seq(Nat), NEW x \in Nat
    PROVE  IsAppended(Append(s, x), s, x)
<1>1. PICK t : t = Append(s, x)
  BY Zenon
<1>2. /\ t \in Seq(Nat) /\ Len(t) = Len(s) + 1 /\ t[Len(t)] = x
      /\ \A i \in 1..Len(s) : t[i] = s[i]
      /\ DOMAIN t = 1..Len(t) /\ DOMAIN s = 1..Len(s) /\ Len(s) \in Nat
  BY <1>1
<1>3. Range(t) = Range(s) \cup {x}
  <2>1. ASSUME NEW y \in Range(t) PROVE y \in Range(s) \cup {x}
    BY <1>2 DEF Range
  <2>2. ASSUME NEW y \in Range(s) \cup {x} PROVE y \in Range(t)
    BY <1>2, SMTT(60) DEF Range
  <2> QED
    BY <2>1, <2>2
<1>4. ASSUME Increasing(s), \A y \in Range(s) : y < x
      PROVE  Increasing(t)
  <2>1. \A i \in 1..Len(s) : s[i] < x
    BY <1>2, <1>4, Zenon DEF Range
  <2>2. ASSUME NEW i \in 1..Len(t), NEW j \in 1..Len(t), i < j PROVE t[i] < t[j]
    <3>1. Len(s) \in Nat /\ Len(t) = Len(s) + 1
      BY <1>2
    <3>2. i \in 1..Len(s) /\ (j \in 1..Len(s) \/ j = Len(t))
      <4>1. PICK n \in Nat : n = Len(s)
        BY <3>1
      <4>2. i \in 1..(n + 1) /\ j \in 1..(n + 1) /\ i < j
        BY <2>2, <3>1, <4>1
      <4>3. i \in 1..n /\ (j \in 1..n \/ j = n + 1)
        BY <4>2
      <4> QED
        BY <3>1, <4>1, <4>3
    <3>3. CASE j \in 1..Len(s)
      <4>1. s[i] < s[j]
        BY <1>4, <2>2, <3>2, <3>3 DEF Increasing
      <4> QED
        BY <1>2, <3>2, <3>3, <4>1
    <3>4. CASE j = Len(t)
      BY <1>2, <2>1, <3>2, <3>4
    <3> QED
      BY <3>2, <3>3, <3>4
  <2> QED
    BY <2>2 DEF Increasing
<1> QED
  BY <1>1, <1>2, <1>3, <1>4 DEF IsAppended

(* What taking the first one does.                                         *)
IsSplit(s, h, t) ==
    /\ t \in Seq(Nat) /\ h \in Nat
    /\ Range(s) = {h} \cup Range(t)
    /\ Increasing(s) => Increasing(t) /\ \A y \in Range(t) : h < y

(* What Head and Tail take from one.                                       *)
LEMMA TailFacts ==
    ASSUME NEW s \in Seq(Nat), s # << >>
    PROVE  IsSplit(s, Head(s), Tail(s))
<1>1. PICK h, t : h = Head(s) /\ t = Tail(s)
  BY Zenon
<1>2. /\ t \in Seq(Nat) /\ h \in Nat /\ h = s[1]
      /\ Len(s) = Len(t) + 1 /\ Len(t) \in Nat /\ Len(s) \in Nat
      /\ \A i \in 1..Len(t) : t[i] = s[i + 1]
      /\ DOMAIN t = 1..Len(t) /\ DOMAIN s = 1..Len(s)
  BY <1>1
<1>3. Range(s) = {h} \cup Range(t)
  <2>1. ASSUME NEW y \in Range(s) PROVE y \in {h} \cup Range(t)
    <3>1. PICK i \in 1..Len(s) : y = s[i]
      BY <1>2 DEF Range
    <3>2. CASE i = 1
      BY <1>2, <3>1, <3>2
    <3>3. CASE i # 1
      <4>1. i - 1 \in 1..Len(t) /\ (i - 1) + 1 = i
        BY <1>2, <3>3
      <4>2. y = t[i - 1]
        BY <1>2, <3>1, <4>1
      <4> QED
        BY <1>2, <4>1, <4>2, Zenon DEF Range
    <3> QED
      BY <3>2, <3>3
  <2>2. ASSUME NEW y \in {h} \cup Range(t) PROVE y \in Range(s)
    <3>1. CASE y = h
      BY <1>2, <3>1, SMTT(60) DEF Range
    <3>2. CASE y \in Range(t)
      <4>1. PICK i \in 1..Len(t) : y = t[i]
        BY <1>2, <3>2 DEF Range
      <4>2. i + 1 \in 1..Len(s) /\ y = s[i + 1]
        BY <1>2, <4>1
      <4> QED
        BY <1>2, <4>2, Zenon DEF Range
    <3> QED
      BY <3>1, <3>2
  <2> QED
    BY <2>1, <2>2
<1>4. ASSUME Increasing(s)
      PROVE  Increasing(t) /\ \A y \in Range(t) : h < y
  <2>1. Increasing(t)
    <3> SUFFICES ASSUME NEW i \in 1..Len(t), NEW j \in 1..Len(t), i < j PROVE t[i] < t[j]
      BY DEF Increasing
    <3>1. i + 1 \in 1..Len(s) /\ j + 1 \in 1..Len(s) /\ i + 1 < j + 1
      BY <1>2
    <3>2. s[i + 1] < s[j + 1]
      BY <1>4, <3>1 DEF Increasing
    <3> QED
      BY <1>2, <3>2
  <2>2. \A i \in 1..Len(t) : h < t[i]
    BY <1>2, <1>4, SMTT(60) DEF Increasing
  <2> QED
    BY <1>2, <2>1, <2>2 DEF Range
<1> QED
  BY <1>1, <1>2, <1>3, <1>4 DEF IsSplit

(* The empty sequence.                                                     *)
LEMMA EmptyFacts == << >> \in Seq(Nat) /\ Range(<< >>) = {} /\ Increasing(<< >>)
BY DEF Range, Increasing

-----------------------------------------------------------------------------
(* Alerts on the way to the server.  What waits in the agent is in the     *)
(* order of the events, the queue before the event channel, and later than *)
(* all that was put on a stream; streams carry different alerts; and the   *)
(* stored ones are on no stream any more.                                  *)
Streams == [wire : Seq(Nat), hand : Nat, up : BOOLEAN]

(* Alerts a stream carries: sent and not yet received, or in the handler's *)
(* hand.                                                                   *)
Carried(r) == Range(r.wire) \cup ({r.hand} \ {None})

(* Alerts that wait in the agent.                                          *)
Waiting == Range(queue) \cup Range(events)

(* Types, as far as the proof needs them.                                  *)
DeliveryTypes ==
    /\ emitted \in Nat /\ dropped \in Nat
    /\ events \in Seq(Nat) /\ queue \in Seq(Nat) /\ recorded \in Seq(Nat)
    /\ streams \in Seq(Streams)

(* What waits is in order: the reporter's queue before the event buffer.   *)
LineInv ==
    /\ Increasing(events) /\ Increasing(queue)
    /\ \A x \in Range(queue) : \A y \in Range(events) : x < y
    /\ \A x \in Waiting : x \in 1..emitted

(* One stream carries alerts in order.                                     *)
StreamInv(r) ==
    /\ Increasing(r.wire)
    /\ \A x \in Range(r.wire) : r.hand < x
    /\ \A x \in Carried(r) : x \in 1..emitted

(* Streams share no alert, and carry what is older than all that waits.    *)
StreamsInv ==
    /\ \A s \in DOMAIN streams :
          /\ StreamInv(streams[s])
          /\ \A x \in Carried(streams[s]) : \A y \in Waiting : x < y
    /\ \A s, r \in DOMAIN streams :
          s # r => Carried(streams[s]) \cap Carried(streams[r]) = {}

(* Stored once, and older than all that waits; in order, as long as there  *)
(* was one stream.                                                         *)
RecordedInv ==
    /\ IsInjective(recorded)
    /\ \A x \in Range(recorded) : x \in 1..emitted /\ \A y \in Waiting : x < y
    /\ \A s \in DOMAIN streams : Carried(streams[s]) \cap Range(recorded) = {}
    /\ streams = << >> => recorded = << >>
    /\ Len(streams) = 1 =>
          /\ Increasing(recorded)
          /\ \A x \in Range(recorded) : \A y \in Carried(streams[1]) : x < y

(* Until something breaks or the agent stops, the counter is what got      *)
(* lost.                                                                   *)
CountInv ==
    /\ ~cancelled => reporter \in {"open", "pump", "sleep"}
    /\ reporter \in {"pump", "flushing"} => streams # << >>
    /\ ~broken /\ ~cancelled => \A s \in DOMAIN streams : streams[s].up
    /\ ~broken /\ ~cancelled => Cardinality(Lost) = dropped

(* The inductive invariant.                                                *)
DeliveryInv == DeliveryTypes /\ LineInv /\ StreamsInv /\ RecordedInv /\ CountInv

(* What adds nothing to a stream and nothing old to what waits keeps the   *)
(* order among streams, store and waiting alerts.                          *)
LEMMA StreamsShrink ==
    ASSUME DeliveryInv,
           emitted' \in Nat, emitted <= emitted',
           \A y \in Waiting' : y \in Waiting \/ (y \in Nat /\ y > emitted),
           DOMAIN streams' = DOMAIN streams, Len(streams') = Len(streams),
           streams' = << >> => streams = << >>,
           (\A s \in DOMAIN streams : StreamInv(streams[s]))',
           \A s \in DOMAIN streams : Carried(streams'[s]) \subseteq Carried(streams[s]),
           recorded' = recorded
    PROVE  StreamsInv' /\ RecordedInv'
<1>1. ASSUME NEW x \in 1..emitted, \A y \in Waiting : x < y
      PROVE  x \in 1..emitted' /\ \A y \in Waiting' : x < y
  BY <1>1 DEF DeliveryInv, DeliveryTypes
<1>2. ASSUME NEW s \in DOMAIN streams'
      PROVE  /\ StreamInv(streams[s])'
             /\ \A x \in Carried(streams'[s]) : \A y \in Waiting' : x < y
  <2>1. \A x \in Carried(streams[s]) : x \in 1..emitted /\ \A y \in Waiting : x < y
    BY DEF DeliveryInv, StreamsInv, StreamInv
  <2> QED
    BY <1>1, <2>1
<1>3. ASSUME NEW s \in DOMAIN streams', NEW r \in DOMAIN streams', s # r
      PROVE  Carried(streams'[s]) \cap Carried(streams'[r]) = {}
  BY <1>3 DEF DeliveryInv, StreamsInv
<1>4. StreamsInv'
  BY <1>2, <1>3, Zenon DEF StreamsInv, Carried
<1>5. \A x \in Range(recorded') : x \in 1..emitted' /\ \A y \in Waiting' : x < y
  BY <1>1 DEF DeliveryInv, RecordedInv
<1>6. \A s \in DOMAIN streams' : Carried(streams'[s]) \cap Range(recorded') = {}
  BY DEF DeliveryInv, RecordedInv
<1>7. Len(streams') = 1 =>
          /\ Increasing(recorded')
          /\ \A x \in Range(recorded') : \A y \in Carried(streams'[1]) : x < y
  <2> SUFFICES ASSUME Len(streams') = 1
               PROVE  /\ Increasing(recorded')
                      /\ \A x \in Range(recorded') : \A y \in Carried(streams'[1]) : x < y
    OBVIOUS
  <2>1. 1 \in DOMAIN streams
    BY DEF DeliveryInv, DeliveryTypes
  <2> QED
    BY <2>1 DEF DeliveryInv, RecordedInv
<1>8. RecordedInv'
  BY <1>5, <1>6, <1>7 DEF DeliveryInv, RecordedInv, Carried, Increasing
<1> QED
  BY <1>4, <1>8

(* What leaves the streams alone keeps them in order.                      *)
LEMMA StreamsUntouched ==
    ASSUME DeliveryInv, UNCHANGED <<streams, recorded>>,
           emitted' \in Nat, emitted <= emitted',
           \A y \in Waiting' : y \in Waiting \/ (y \in Nat /\ y > emitted)
    PROVE  StreamsInv' /\ RecordedInv'
<1>1. ASSUME NEW s \in DOMAIN streams
      PROVE  StreamInv(streams[s])'
  <2>1. StreamInv(streams[s]) /\ emitted \in Nat /\ streams'[s] = streams[s]
    BY DEF DeliveryInv, DeliveryTypes, StreamsInv
  <2>2. \A x \in Carried(streams[s]) : x \in 1..emitted'
    BY <2>1 DEF StreamInv
  <2> QED
    BY <2>1, <2>2 DEF StreamInv, Carried, Increasing
<1>2. (\A s \in DOMAIN streams : StreamInv(streams[s]))'
  BY <1>1
<1> QED
  BY <1>2, StreamsShrink

(* The source emits: the newest alert goes last.                           *)
LEMMA EmitKeepsLine ==
    ASSUME DeliveryInv, Emit
    PROVE  DeliveryTypes' /\ LineInv' /\ StreamsInv' /\ RecordedInv' /\ Lost' = Lost
<1>1. /\ emitted' = emitted + 1 /\ events' = Append(events, emitted')
      /\ UNCHANGED <<queue, streams, recorded, dropped>>
  BY DEF Emit
<1>2. emitted \in Nat /\ events \in Seq(Nat)
  BY DEF DeliveryInv, DeliveryTypes
<1>3. PICK n : n = emitted + 1
  OBVIOUS
<1>4. events' = Append(events, n) /\ n \in Nat
  BY <1>1, <1>2, <1>3
<1>5. IsAppended(events', events, n)
  BY <1>2, <1>4, AppendFacts
<1>6. \A x \in Waiting : x \in 1..emitted
  BY DEF DeliveryInv, LineInv
<1>7. Waiting' = Waiting \cup {n}
  BY <1>1, <1>5 DEF Waiting, IsAppended
<1>8. \A x \in Waiting : x < n
  BY <1>2, <1>3, <1>6
<1>9. LineInv'
  <2>1. Increasing(events')
    BY <1>5, <1>8 DEF IsAppended, Waiting, DeliveryInv, LineInv
  <2>2. \A x \in Range(queue') : \A y \in Range(events') : x < y
    BY <1>1, <1>5, <1>8 DEF IsAppended, Waiting, DeliveryInv, LineInv
  <2>3. \A x \in Waiting' : x \in 1..emitted'
    BY <1>1, <1>2, <1>3, <1>6, <1>7
  <2> QED
    BY <1>1, <2>1, <2>2, <2>3 DEF LineInv, DeliveryInv, Increasing
<1>10. DeliveryTypes'
  BY <1>1, <1>2, <1>5 DEF DeliveryInv, DeliveryTypes, IsAppended
<1>11. StreamsInv' /\ RecordedInv'
  <2>1. \A y \in Waiting' : y \in Waiting \/ (y \in Nat /\ y > emitted)
    BY <1>2, <1>3, <1>7
  <2>2. emitted' \in Nat /\ emitted <= emitted'
    BY <1>1, <1>2
  <2> QED
    BY <1>1, <2>1, <2>2, StreamsUntouched
<1>12. Underway' = Underway \cup {n}
  BY <1>1, <1>5 DEF Underway, IsAppended
<1>13. Lost' = Lost
  <2>1. 1..emitted' = (1..emitted) \cup {n} /\ n \notin 1..emitted
    BY <1>1, <1>2, <1>3
  <2> QED
    BY <1>1, <1>12, <2>1 DEF Lost
<1> QED
  BY <1>9, <1>10, <1>11, <1>13

(* The pipeline hands an alert to the reporter, whose queue takes it or is *)
(* full.                                                                   *)
LEMMA ProcessKeepsLine ==
    ASSUME DeliveryInv, Process
    PROVE  /\ DeliveryTypes' /\ LineInv' /\ StreamsInv' /\ RecordedInv'
           /\ \/ Lost' = Lost /\ dropped' = dropped
              \/ \E x : x \notin Lost /\ Lost' = Lost \cup {x} /\ dropped' = dropped + 1
<1>1. /\ events # << >> /\ events' = Tail(events)
      /\ \/ queue' = Append(queue, Head(events)) /\ dropped' = dropped
         \/ queue' = queue /\ dropped' = dropped + 1
      /\ UNCHANGED <<emitted, streams, recorded>>
  BY DEF Process, WriteAlert, Enqueue
<1>2. /\ emitted \in Nat /\ events \in Seq(Nat) /\ queue \in Seq(Nat) /\ dropped \in Nat
      /\ emitted <= emitted
  BY DEF DeliveryInv, DeliveryTypes
<1>3. PICK n : n = Head(events)
  OBVIOUS
<1>4. IsSplit(events, n, events')
  BY <1>1, <1>2, <1>3, TailFacts
<1>5. n \in Nat /\ n \in Range(events)
  BY <1>4 DEF IsSplit
<1>6. /\ Increasing(events) /\ Increasing(queue)
      /\ \A x \in Range(queue) : \A y \in Range(events) : x < y
      /\ \A x \in Waiting : x \in 1..emitted
  BY DEF DeliveryInv, LineInv
<1>7. Increasing(events') /\ \A y \in Range(events') : n < y
  BY <1>4, <1>6 DEF IsSplit
<1>8. CASE queue' = Append(queue, Head(events)) /\ dropped' = dropped
  <2>1. IsAppended(queue', queue, n)
    BY <1>2, <1>3, <1>5, <1>8, AppendFacts
  <2>2. Waiting' = Waiting
    BY <1>4, <2>1 DEF Waiting, IsAppended, IsSplit
  <2>3. LineInv'
    <3>1. Increasing(queue')
      BY <1>5, <1>6, <2>1 DEF IsAppended
    <3>2. \A x \in Range(queue') : \A y \in Range(events') : x < y
      BY <1>4, <1>6, <1>7, <2>1 DEF IsAppended, IsSplit
    <3> QED
      BY <1>1, <1>6, <1>7, <2>2, <3>1, <3>2 DEF LineInv, Increasing
  <2>4. DeliveryTypes'
    BY <1>1, <1>2, <1>4, <1>8, <2>1 DEF DeliveryInv, DeliveryTypes, IsAppended, IsSplit
  <2>5. StreamsInv' /\ RecordedInv'
    BY <1>1, <1>2, <2>2, StreamsUntouched
  <2>6. Underway' = Underway
    BY <1>1, <1>4, <2>1 DEF Underway, IsAppended, IsSplit
  <2> QED
    BY <1>1, <1>8, <2>3, <2>4, <2>5, <2>6 DEF Lost
<1>9. CASE queue' = queue /\ dropped' = dropped + 1
  <2>1. \A y \in Waiting' : y \in Waiting
    BY <1>4, <1>9 DEF Waiting, IsSplit
  <2>2. \A x \in Range(queue') : \A y \in Range(events') : x < y
    BY <1>4, <1>6, <1>9 DEF IsSplit
  <2>3. LineInv'
    BY <1>1, <1>6, <1>7, <1>9, <2>1, <2>2 DEF LineInv, Increasing
  <2>4. DeliveryTypes'
    BY <1>1, <1>2, <1>4, <1>9 DEF DeliveryInv, DeliveryTypes, IsSplit
  <2>5. StreamsInv' /\ RecordedInv'
    BY <1>1, <1>2, <2>1, StreamsUntouched
  <2>6. Underway = Underway' \cup {n}
    BY <1>1, <1>4, <1>9 DEF Underway, IsSplit
  <2>7. n \notin Range(recorded)
    BY <1>5 DEF DeliveryInv, RecordedInv, Waiting
  <2>8. n \notin Underway'
    <3>1. n \notin Range(events')
      BY <1>5, <1>7
    <3>2. n \notin Range(queue')
      BY <1>5, <1>6, <1>9
    <3>3. \A s \in DOMAIN streams : n \notin Carried(streams[s])
      BY <1>5 DEF DeliveryInv, StreamsInv, Waiting
    <3> QED
      BY <1>1, <3>1, <3>2, <3>3 DEF Underway, Carried
  <2>9. n \in 1..emitted
    BY <1>5, <1>6 DEF Waiting
  <2>10. n \notin Lost /\ Lost' = Lost \cup {n}
    BY <1>1, <2>6, <2>7, <2>8, <2>9 DEF Lost
  <2> QED
    BY <1>9, <2>3, <2>4, <2>5, <2>10
<1> QED
  BY <1>1, <1>8, <1>9

(* The reporter takes a report off the queue and loses it: what waits is   *)
(* less.                                                                   *)
LEMMA QueueShrinks ==
    ASSUME DeliveryInv,
           queue' = queue \/ (queue # << >> /\ queue' = Tail(queue)),
           UNCHANGED <<events, emitted, recorded, dropped>>, streams' \in Seq(Streams)
    PROVE  DeliveryTypes' /\ LineInv' /\ \A y \in Waiting' : y \in Waiting
<1>1. /\ emitted \in Nat /\ events \in Seq(Nat) /\ queue \in Seq(Nat) /\ dropped \in Nat
      /\ recorded \in Seq(Nat)
  BY DEF DeliveryInv, DeliveryTypes
<1>2. CASE queue' = queue
  BY <1>1, <1>2 DEF DeliveryInv, DeliveryTypes, LineInv, Waiting, Increasing
<1>3. CASE queue # << >> /\ queue' = Tail(queue)
  <2>1. IsSplit(queue, Head(queue), queue')
    BY <1>1, <1>3, TailFacts
  <2>2. queue' \in Seq(Nat) /\ Increasing(queue') /\ Range(queue') \subseteq Range(queue)
    BY <2>1 DEF IsSplit, DeliveryInv, LineInv
  <2>3. LineInv'
    BY <2>2 DEF DeliveryInv, LineInv, Waiting, Increasing
  <2> QED
    BY <1>1, <2>2, <2>3 DEF DeliveryTypes, Waiting
<1> QED
  BY <1>2, <1>3

(* A new stream carries nothing.                                           *)
LEMMA NewStreamKeepsLine ==
    ASSUME DeliveryInv, streams' = Append(streams, NewStream),
           UNCHANGED <<events, queue, emitted, recorded, dropped>>
    PROVE  /\ DeliveryTypes' /\ LineInv' /\ StreamsInv' /\ RecordedInv'
           /\ Underway' = Underway
           /\ streams' # << >>
           /\ (\A s \in DOMAIN streams : streams[s].up)
                  => (\A s \in DOMAIN streams : streams[s].up)'
<1>1. PICK new : new = NewStream
  OBVIOUS
<1>2. /\ new \in Streams /\ new.wire = << >> /\ new.hand = 0 /\ new.up
  BY <1>1, EmptyFacts DEF NewStream, Streams, None
<1>3. Carried(new) = {} /\ Increasing(new.wire) /\ Range(new.wire) = {}
  BY <1>2, EmptyFacts DEF Carried, None
<1>4. streams \in Seq(Streams) /\ Len(streams) \in Nat /\ DOMAIN streams = 1..Len(streams)
  BY DEF DeliveryInv, DeliveryTypes
<1>5. PICK last : last = Len(streams) + 1
  OBVIOUS
<1>6. /\ streams' \in Seq(Streams) /\ Len(streams') = last
      /\ DOMAIN streams' = DOMAIN streams \cup {last} /\ last \notin DOMAIN streams
      /\ streams'[last] = new
      /\ \A s \in DOMAIN streams : streams'[s] = streams[s]
  BY <1>1, <1>2, <1>4, <1>5
<1>7. DeliveryTypes' /\ LineInv' /\ Waiting' = Waiting
  BY <1>6 DEF DeliveryInv, DeliveryTypes, LineInv, Waiting, Increasing
<1>8. ASSUME NEW s \in DOMAIN streams'
      PROVE  /\ StreamInv(streams[s])'
             /\ \A x \in Carried(streams'[s]) : \A y \in Waiting' : x < y
  <2>1. CASE s = last
    BY <1>3, <1>6, <2>1 DEF StreamInv, Carried, Increasing
  <2>2. CASE s \in DOMAIN streams
    <3>1. /\ StreamInv(streams[s]) /\ streams'[s] = streams[s]
          /\ \A x \in Carried(streams[s]) : \A y \in Waiting : x < y
      BY <1>6, <2>2 DEF DeliveryInv, StreamsInv
    <3> QED
      BY <1>7, <3>1 DEF StreamInv, Carried, Increasing
  <2> QED
    BY <1>6, <2>1, <2>2, ZenonT(60)
<1>9. ASSUME NEW s \in DOMAIN streams', NEW r \in DOMAIN streams', s # r
      PROVE  Carried(streams'[s]) \cap Carried(streams'[r]) = {}
  BY <1>3, <1>6, <1>9 DEF DeliveryInv, StreamsInv
<1>10. StreamsInv'
  BY <1>8, <1>9, Zenon DEF StreamsInv, Carried
<1>11. \A s \in DOMAIN streams' : Carried(streams'[s]) \cap Range(recorded') = {}
  BY <1>3, <1>6 DEF DeliveryInv, RecordedInv
<1>12. ASSUME Len(streams') = 1
       PROVE  Increasing(recorded') /\ Range(recorded') = {}
  <2>1. streams = << >>
    BY <1>4, <1>5, <1>6, <1>12
  <2> QED
    BY <2>1, EmptyFacts DEF DeliveryInv, RecordedInv
<1>13. streams' # << >>
  BY <1>6
<1>14. RecordedInv'
  BY <1>7, <1>11, <1>12, <1>13 DEF DeliveryInv, RecordedInv, Carried
<1>15. Underway' = Underway
  <2>1. Range(new.wire) \cup ({new.hand} \ {None}) = {}
    BY <1>3 DEF Carried
  <2> QED
    BY <1>6, <2>1 DEF Underway
<1> QED
  BY <1>2, <1>6, <1>7, <1>10, <1>13, <1>14, <1>15

(* The front of the queue goes onto the current stream, if it is up.       *)
LEMMA SendKeepsLine ==
    ASSUME DeliveryInv, streams # << >>, queue # << >>, queue' = Tail(queue),
           Sent(Head(queue)), UNCHANGED <<events, emitted, recorded, dropped>>
    PROVE  /\ DeliveryTypes' /\ LineInv' /\ StreamsInv' /\ RecordedInv'
           /\ streams' # << >>
           /\ (\A s \in DOMAIN streams : streams[s].up) =>
                  /\ Underway' = Underway
                  /\ (\A s \in DOMAIN streams : streams[s].up)'
<1>1. PICK last, n : last = Len(streams) /\ n = Head(queue)
  BY Zenon
<1>2. /\ streams \in Seq(Streams) /\ last \in Nat /\ DOMAIN streams = 1..last
      /\ last \in DOMAIN streams /\ queue \in Seq(Nat) /\ emitted \in Nat
      /\ streams[last] \in Streams
  BY <1>1 DEF DeliveryInv, DeliveryTypes
<1>3. IsSplit(queue, n, queue')
  BY <1>1, <1>2, TailFacts
<1>4. /\ n \in Nat /\ n \in Range(queue) /\ n \in 1..emitted
      /\ \A y \in Waiting' : n < y
      /\ Waiting = Waiting' \cup {n}
  BY <1>3, Zenon DEF IsSplit, DeliveryInv, LineInv, Waiting
<1>5. CASE ~streams[last].up
  <2>1. streams' = streams
    BY <1>1, <1>5 DEF Sent, Current
  <2>2. DeliveryTypes' /\ LineInv' /\ \A y \in Waiting' : y \in Waiting
    BY <1>2, <2>1, QueueShrinks
  <2>3. StreamsInv' /\ RecordedInv'
    BY <1>2, <2>1, <2>2, StreamsUntouched
  <2> QED
    BY <1>2, <1>5, <2>1, <2>2, <2>3, Zenon
<1>6. CASE streams[last].up
  <2>1. PICK w, v : w = streams[last].wire /\ v = Append(w, n)
    BY Zenon
  <2>2. w \in Seq(Nat)
    BY <1>2, <2>1 DEF Streams
  <2>3. IsAppended(v, w, n)
    BY <1>4, <2>1, <2>2, AppendFacts
  <2>4. streams' = [streams EXCEPT ![last].wire = v]
    BY <1>1, <1>6, <2>1 DEF Sent, Current
  <2>5. /\ streams' \in Seq(Streams) /\ Len(streams') = last
        /\ DOMAIN streams' = DOMAIN streams
        /\ streams'[last].wire = v /\ streams'[last].hand = streams[last].hand
        /\ streams'[last].up
        /\ \A s \in DOMAIN streams : s # last => streams'[s] = streams[s]
    <3>1. v \in Seq(Nat)
      BY <2>3 DEF IsAppended
    <3>2. PICK r : r = [streams[last] EXCEPT !.wire = v]
      BY Zenon
    <3>3. r \in Streams /\ r.wire = v /\ r.hand = streams[last].hand /\ r.up
      BY <1>2, <1>6, <3>1, <3>2, Zenon DEF Streams
    <3>4. streams' = [streams EXCEPT ![last] = r]
      BY <2>4, <3>2
    <3> QED
      BY <1>1, <1>2, <3>3, <3>4
  <2>6. DeliveryTypes' /\ LineInv' /\ \A y \in Waiting' : y \in Waiting
    BY <2>5, QueueShrinks
  <2>7. Carried(streams'[last]) = Carried(streams[last]) \cup {n}
    BY <1>4, <2>1, <2>3, <2>5 DEF Carried, IsAppended, None
  <2>8. \A s \in DOMAIN streams : \A x \in Carried(streams[s]) : x < n
    BY <1>4 DEF DeliveryInv, StreamsInv, Waiting
  <2>9. StreamInv(streams[last])'
    <3>1. StreamInv(streams[last])
      BY <1>2 DEF DeliveryInv, StreamsInv
    <3>2. \A x \in Range(w) : x < n
      BY <1>2, <2>1, <2>8, Zenon DEF Carried
    <3>3. Increasing(v)
      BY <2>1, <2>3, <3>1, <3>2 DEF IsAppended, StreamInv
    <3>4. streams[last].hand < n
      <4>1. streams[last].hand \in Nat
        BY <1>2 DEF Streams
      <4>2. CASE streams[last].hand = 0
        BY <1>2, <1>4, <4>2
      <4>3. CASE streams[last].hand # 0
        BY <1>2, <2>8, <4>3, Zenon DEF Carried, None
      <4> QED
        BY <4>2, <4>3
    <3>5. \A x \in Range(v) : streams[last].hand < x
      BY <2>1, <2>3, <3>1, <3>4 DEF IsAppended, StreamInv
    <3>6. \A x \in Carried(streams'[last]) : x \in 1..emitted
      BY <1>4, <2>7, <3>1 DEF StreamInv
    <3> QED
      BY <2>5, <3>3, <3>5, <3>6 DEF StreamInv, Carried, Increasing
  <2>10. ASSUME NEW s \in DOMAIN streams'
         PROVE  /\ StreamInv(streams[s])'
                /\ \A x \in Carried(streams'[s]) : \A y \in Waiting' : x < y
    <3>1. CASE s = last
      BY <1>2, <1>4, <2>6, <2>7, <2>9, <3>1, Zenon DEF DeliveryInv, StreamsInv
    <3>2. CASE s # last
      <4>1. /\ StreamInv(streams[s]) /\ streams'[s] = streams[s]
            /\ \A x \in Carried(streams[s]) : \A y \in Waiting : x < y
        BY <2>5, <3>2 DEF DeliveryInv, StreamsInv
      <4> QED
        BY <2>6, <4>1, Zenon DEF StreamInv, Carried, Increasing
    <3> QED
      BY <3>1, <3>2
  <2>11. ASSUME NEW s \in DOMAIN streams', NEW r \in DOMAIN streams', s # r
         PROVE  Carried(streams'[s]) \cap Carried(streams'[r]) = {}
    <3>1. Carried(streams[s]) \cap Carried(streams[r]) = {}
      BY <2>5, <2>11 DEF DeliveryInv, StreamsInv
    <3>2. n \notin Carried(streams[s]) /\ n \notin Carried(streams[r])
      BY <1>4, <2>5, <2>8
    <3> QED
      BY <2>5, <2>7, <2>11, <3>1, <3>2, Zenon
  <2>12. StreamsInv'
    BY <2>10, <2>11, Zenon DEF StreamsInv, Carried
  <2>13. \A s \in DOMAIN streams' : Carried(streams'[s]) \cap Range(recorded') = {}
    <3>1. n \notin Range(recorded)
      BY <1>4 DEF DeliveryInv, RecordedInv, Waiting
    <3> QED
      BY <2>5, <2>7, <3>1, Zenon DEF DeliveryInv, RecordedInv
  <2>14. ASSUME Len(streams') = 1
         PROVE  /\ Increasing(recorded')
                /\ \A x \in Range(recorded') : \A y \in Carried(streams'[1]) : x < y
    <3>1. /\ Increasing(recorded) /\ last = 1
          /\ \A x \in Range(recorded) : \A y \in Carried(streams[1]) : x < y
          /\ \A x \in Range(recorded) : x < n
      BY <1>1, <1>4, <2>5, <2>14, Zenon DEF DeliveryInv, RecordedInv, Waiting
    <3> QED
      BY <2>7, <3>1 DEF Increasing
  <2>15. \A x \in Range(recorded') : x \in 1..emitted' /\ \A y \in Waiting' : x < y
    BY <2>6 DEF DeliveryInv, RecordedInv
  <2>16. streams' # << >>
    BY <1>2, <2>5
  <2>17. RecordedInv'
    BY <2>13, <2>14, <2>15, <2>16 DEF DeliveryInv, RecordedInv, Carried
  <2>18. Underway' = Underway
    <3>1. /\ Underway = Waiting \cup UNION {Carried(streams[s]) : s \in DOMAIN streams}
          /\ Underway' = Waiting' \cup UNION {Carried(streams'[s]) : s \in DOMAIN streams'}
      BY DEF Underway, Waiting, Carried
    <3>2. UNION {Carried(streams'[s]) : s \in DOMAIN streams'}
              = {n} \cup UNION {Carried(streams[s]) : s \in DOMAIN streams}
      BY <1>2, <2>5, <2>7, ZenonT(60)
    <3> QED
      BY <1>4, <3>1, <3>2, ZenonT(60)
  <2>19. (\A s \in DOMAIN streams : streams[s].up) => (\A s \in DOMAIN streams : streams[s].up)'
    BY <2>5
  <2> QED
    BY <2>6, <2>12, <2>16, <2>17, <2>18, <2>19
<1> QED
  BY <1>5, <1>6

(* A stream is replaced by one that carries no more.                       *)
LEMMA ReplaceKeepsLine ==
    ASSUME DeliveryInv, NEW s \in DOMAIN streams, NEW r \in Streams,
           streams' = [streams EXCEPT ![s] = r],
           StreamInv(r), Carried(r) \subseteq Carried(streams[s]),
           queue' = queue \/ (queue # << >> /\ queue' = Tail(queue)),
           UNCHANGED <<events, emitted, recorded, dropped>>
    PROVE  /\ DeliveryTypes' /\ LineInv' /\ StreamsInv' /\ RecordedInv'
           /\ streams' # << >>
           /\ (\A q \in DOMAIN streams : streams[q].up) /\ r.up
                  => (\A q \in DOMAIN streams : streams[q].up)'
           /\ queue' = queue /\ Carried(r) = Carried(streams[s]) => Underway' = Underway
<1>1. /\ streams \in Seq(Streams) /\ emitted \in Nat
      /\ streams' \in Seq(Streams) /\ Len(streams') = Len(streams)
      /\ DOMAIN streams' = DOMAIN streams /\ streams' # << >>
      /\ streams'[s] = r /\ \A q \in DOMAIN streams : q # s => streams'[q] = streams[q]
  BY DEF DeliveryInv, DeliveryTypes
<1>2. DeliveryTypes' /\ LineInv' /\ \A y \in Waiting' : y \in Waiting
  BY <1>1, QueueShrinks
<1>3. ASSUME NEW q \in DOMAIN streams
      PROVE  StreamInv(streams[q])' /\ Carried(streams'[q]) \subseteq Carried(streams[q])
  <2>1. StreamInv(streams[q])
    BY DEF DeliveryInv, StreamsInv
  <2>2. CASE q = s
    BY <1>1, <2>2 DEF StreamInv, Carried, Increasing
  <2>3. CASE q # s
    BY <1>1, <2>1, <2>3 DEF StreamInv, Carried, Increasing
  <2> QED
    BY <2>2, <2>3
<1>4. (\A q \in DOMAIN streams : StreamInv(streams[q]))'
  BY <1>1, <1>3
<1>5. emitted' \in Nat /\ emitted <= emitted'
  BY <1>1
<1>6. StreamsInv' /\ RecordedInv'
  BY <1>1, <1>2, <1>3, <1>4, <1>5, StreamsShrink, Zenon
<1>7. (\A q \in DOMAIN streams : streams[q].up) /\ r.up
          => (\A q \in DOMAIN streams : streams[q].up)'
  BY <1>1
<1>8. ASSUME queue' = queue, Carried(r) = Carried(streams[s])
      PROVE  Underway' = Underway
  <2>1. /\ Underway = Waiting \cup UNION {Carried(streams[q]) : q \in DOMAIN streams}
        /\ Underway' = Waiting' \cup UNION {Carried(streams'[q]) : q \in DOMAIN streams'}
    BY DEF Underway, Waiting, Carried
  <2>2. \A q \in DOMAIN streams : Carried(streams'[q]) = Carried(streams[q])
    BY <1>1, <1>8
  <2>3. Waiting' = Waiting
    BY <1>8 DEF Waiting
  <2> QED
    BY <1>1, <2>1, <2>2, <2>3
<1> QED
  BY <1>1, <1>2, <1>6, <1>7, <1>8, Zenon

(* A stream that goes down loses what is on its wire.                      *)
LEMMA DownKeepsLine ==
    ASSUME DeliveryInv, NEW s \in DOMAIN streams,
           streams' = [streams EXCEPT ![s].wire = << >>, ![s].up = FALSE],
           queue' = queue \/ (queue # << >> /\ queue' = Tail(queue)),
           UNCHANGED <<events, emitted, recorded, dropped>>
    PROVE  DeliveryTypes' /\ LineInv' /\ StreamsInv' /\ RecordedInv' /\ streams' # << >>
<1>1. streams \in Seq(Streams) /\ streams[s] \in Streams /\ StreamInv(streams[s])
  BY DEF DeliveryInv, DeliveryTypes, StreamsInv
<1>2. PICK no, empty, r : /\ no = FALSE /\ empty = << >>
                          /\ r = [wire |-> empty, hand |-> streams[s].hand, up |-> no]
  BY Zenon
<1>3. r \in Streams /\ r.wire = << >> /\ r.hand = streams[s].hand
  BY <1>1, <1>2, EmptyFacts, Zenon DEF Streams
<1>4. streams' = [streams EXCEPT ![s] = r]
  <2>1. PICK x : x = [streams[s] EXCEPT !.wire = empty]
    BY Zenon
  <2>2. x = [wire |-> empty, hand |-> streams[s].hand, up |-> streams[s].up]
    BY <1>1, <2>1, Zenon DEF Streams
  <2>3. PICK e : e = [streams EXCEPT ![s] = x]
    BY Zenon
  <2>4. streams' = [e EXCEPT ![s].up = no]
    BY <1>2, <2>1, <2>3, Zenon
  <2>5. e[s] = x /\ streams' = [e EXCEPT ![s] = [x EXCEPT !.up = no]]
    BY <2>3, <2>4, Zenon
  <2>6. [x EXCEPT !.up = no] = r
    BY <1>2, <2>2
  <2> QED
    BY <2>3, <2>5, <2>6, Zenon
<1>5. Carried(r) \subseteq Carried(streams[s])
  BY <1>3, EmptyFacts DEF Carried
<1>6. StreamInv(r)
  BY <1>1, <1>3, <1>5, EmptyFacts DEF StreamInv
<1> QED
  BY <1>3, <1>4, <1>5, <1>6, ReplaceKeepsLine, Zenon

(* A handler takes the next report into its hand.                          *)
LEMMA RecvKeepsLine ==
    ASSUME DeliveryInv, NEW s \in DOMAIN streams, Recv(s)
    PROVE  /\ DeliveryTypes' /\ LineInv' /\ StreamsInv' /\ RecordedInv'
           /\ Underway' = Underway /\ streams' # << >>
           /\ (\A q \in DOMAIN streams : streams[q].up)
                  => (\A q \in DOMAIN streams : streams[q].up)'
<1>1. streams \in Seq(Streams) /\ streams[s] \in Streams /\ StreamInv(streams[s])
  BY DEF DeliveryInv, DeliveryTypes, StreamsInv
<1>2. /\ streams[s].hand = 0 /\ streams[s].wire # << >>
      /\ streams' = [streams EXCEPT ![s].hand = Head(streams[s].wire),
                                    ![s].wire = Tail(streams[s].wire)]
      /\ UNCHANGED <<queue, events, emitted, recorded, dropped>>
  BY DEF Recv, None
<1>3. PICK w, h, v : w = streams[s].wire /\ h = Head(w) /\ v = Tail(w)
  BY Zenon
<1>4. w \in Seq(Nat) /\ IsSplit(w, h, v)
  BY <1>1, <1>2, <1>3, TailFacts DEF Streams
<1>5. PICK r : r = [wire |-> v, hand |-> h, up |-> streams[s].up]
  BY Zenon
<1>6. r \in Streams /\ r.wire = v /\ r.hand = h /\ (streams[s].up => r.up)
  BY <1>1, <1>4, <1>5 DEF Streams, IsSplit
<1>7. streams' = [streams EXCEPT ![s] = r]
  <2>1. PICK x : x = [streams[s] EXCEPT !.hand = h]
    BY Zenon
  <2>2. x = [wire |-> w, hand |-> h, up |-> streams[s].up]
    BY <1>1, <1>3, <2>1, Zenon DEF Streams
  <2>3. PICK e : e = [streams EXCEPT ![s] = x]
    BY Zenon
  <2>4. streams' = [e EXCEPT ![s].wire = v]
    BY <1>2, <1>3, <2>1, <2>3
  <2>5. e[s] = x /\ streams' = [e EXCEPT ![s] = [x EXCEPT !.wire = v]]
    BY <2>3, <2>4
  <2>6. [x EXCEPT !.wire = v] = r
    BY <1>5, <2>2
  <2> QED
    BY <2>3, <2>5, <2>6, Zenon
<1>8. h # 0
  BY <1>1, <1>3, <1>4, SMTT(60) DEF StreamInv, Carried, IsSplit
<1>9. Carried(r) = Carried(streams[s])
  BY <1>2, <1>3, <1>4, <1>6, <1>8, ZenonT(60) DEF Carried, IsSplit, None
<1>10. StreamInv(r)
  BY <1>1, <1>3, <1>4, <1>6, <1>9 DEF StreamInv, IsSplit
<1> QED
  BY <1>2, <1>6, <1>7, <1>9, <1>10, ReplaceKeepsLine, ZenonT(60)

(* A report that is stored leaves the handler's hand.                      *)
LEMMA RecordKeepsLine ==
    ASSUME DeliveryInv, NEW s \in DOMAIN streams, RecordAlert(s)
    PROVE  /\ DeliveryTypes' /\ LineInv' /\ StreamsInv' /\ RecordedInv'
           /\ Lost' = Lost /\ streams' # << >>
           /\ (\A q \in DOMAIN streams : streams[q].up)
                  => (\A q \in DOMAIN streams : streams[q].up)'
<1>1. /\ streams \in Seq(Streams) /\ streams[s] \in Streams /\ StreamInv(streams[s])
      /\ recorded \in Seq(Nat) /\ emitted \in Nat
  BY DEF DeliveryInv, DeliveryTypes, StreamsInv
<1>2. PICK h : h = streams[s].hand
  OBVIOUS
<1>3. /\ h # 0 /\ recorded' = Append(recorded, h)
      /\ streams' = [streams EXCEPT ![s].hand = 0]
      /\ UNCHANGED <<queue, events, emitted, dropped>>
  BY <1>2 DEF RecordAlert, None
<1>4. h \in Nat /\ h \in Carried(streams[s])
  BY <1>1, <1>2, <1>3 DEF Streams, Carried, None
<1>5. IsAppended(recorded', recorded, h)
  BY <1>1, <1>3, <1>4, AppendFacts
<1>6. PICK r : r = [streams[s] EXCEPT !.hand = 0]
  BY Zenon
<1>7. r \in Streams /\ r.wire = streams[s].wire /\ r.hand = 0 /\ r.up = streams[s].up
  BY <1>1, <1>6, Zenon DEF Streams
<1>8. streams' = [streams EXCEPT ![s] = r]
  BY <1>3, <1>6
<1>9. /\ streams' \in Seq(Streams) /\ Len(streams') = Len(streams)
      /\ DOMAIN streams' = DOMAIN streams /\ streams' # << >>
      /\ streams'[s] = r /\ \A q \in DOMAIN streams : q # s => streams'[q] = streams[q]
  BY <1>1, <1>7, <1>8
<1>10. h \notin Range(streams[s].wire)
  BY <1>1, <1>2, <1>4 DEF StreamInv
<1>11. Carried(r) = Carried(streams[s]) \ {h}
  BY <1>2, <1>3, <1>7, <1>10 DEF Carried, None
<1>12. DeliveryTypes' /\ LineInv' /\ Waiting' = Waiting
  BY <1>3, <1>5, <1>9 DEF DeliveryInv, DeliveryTypes, LineInv, Waiting, Increasing, IsAppended
<1>13. ASSUME NEW q \in DOMAIN streams'
       PROVE  /\ StreamInv(streams[q])'
              /\ \A x \in Carried(streams'[q]) : \A y \in Waiting' : x < y
  <2>1. /\ q \in DOMAIN streams /\ StreamInv(streams[q])
        /\ \A x \in Carried(streams[q]) : \A y \in Waiting : x < y
    BY <1>9 DEF DeliveryInv, StreamsInv
  <2>2. CASE q = s
    <3>1. \A x \in Range(r.wire) : 0 < x
      BY <1>1, <1>7 DEF StreamInv, Carried
    <3>2. StreamInv(r)
      BY <1>1, <1>7, <1>11, <3>1 DEF StreamInv
    <3> QED
      BY <1>3, <1>9, <1>11, <1>12, <2>1, <2>2, <3>2, ZenonT(60) DEF StreamInv, Carried, Increasing
  <2>3. CASE q # s
    <3>1. streams'[q] = streams[q]
      BY <1>9, <2>1, <2>3
    <3> QED
      BY <1>3, <1>12, <2>1, <3>1, ZenonT(60) DEF StreamInv, Carried, Increasing
  <2> QED
    BY <2>2, <2>3
<1>14. \A q \in DOMAIN streams : Carried(streams'[q]) \subseteq Carried(streams[q])
  BY <1>9, <1>11
<1>15. ASSUME NEW q \in DOMAIN streams', NEW u \in DOMAIN streams', q # u
       PROVE  Carried(streams'[q]) \cap Carried(streams'[u]) = {}
  BY <1>9, <1>14, <1>15 DEF DeliveryInv, StreamsInv
<1>16. StreamsInv'
  BY <1>13, <1>15 DEF StreamsInv, Carried
<1>17. h \notin Range(recorded) /\ h \in 1..emitted /\ \A y \in Waiting : h < y
  BY <1>1, <1>4 DEF DeliveryInv, RecordedInv, StreamsInv, StreamInv
<1>18. IsInjective(recorded')
  <2>1. /\ DOMAIN recorded' = DOMAIN recorded \cup {Len(recorded) + 1}
        /\ recorded'[Len(recorded) + 1] = h
        /\ \A i \in DOMAIN recorded : recorded'[i] = recorded[i]
        /\ \A i \in DOMAIN recorded : recorded[i] \in Range(recorded)
    BY <1>1, <1>3, <1>4 DEF Range
  <2> QED
    BY <1>17, <2>1 DEF DeliveryInv, RecordedInv, IsInjective
<1>19. ASSUME NEW q \in DOMAIN streams'
       PROVE  Carried(streams'[q]) \cap Range(recorded') = {}
  <2>1. Carried(streams'[q]) \cap Range(recorded) = {}
    BY <1>9, <1>14 DEF DeliveryInv, RecordedInv
  <2>2. h \notin Carried(streams'[q])
    <3>1. CASE q = s
      BY <1>9, <1>11, <3>1
    <3>2. CASE q # s
      BY <1>4, <1>9, <3>2 DEF DeliveryInv, StreamsInv
    <3> QED
      BY <3>1, <3>2
  <2> QED
    BY <1>5, <2>1, <2>2 DEF IsAppended
<1>20. \A x \in Range(recorded') : x \in 1..emitted' /\ \A y \in Waiting' : x < y
  BY <1>3, <1>5, <1>12, <1>17, Zenon DEF DeliveryInv, RecordedInv, IsAppended
<1>21. ASSUME Len(streams') = 1
       PROVE  /\ Increasing(recorded')
              /\ \A x \in Range(recorded') : \A y \in Carried(streams'[1]) : x < y
  <2>1. s = 1 /\ Len(streams) = 1
    BY <1>1, <1>9, <1>21
  <2>2. /\ Increasing(recorded)
        /\ \A x \in Range(recorded) : \A y \in Carried(streams[1]) : x < y
    BY <2>1 DEF DeliveryInv, RecordedInv
  <2>3. Increasing(recorded')
    BY <1>4, <1>5, <2>1, <2>2 DEF IsAppended
  <2>4. \A y \in Carried(r) : h < y
    BY <1>1, <1>2, <1>7, Zenon DEF StreamInv, Carried, None
  <2> QED
    BY <1>5, <1>9, <1>11, <2>1, <2>2, <2>3, <2>4, Zenon DEF IsAppended
<1>22. RecordedInv'
  BY <1>9, <1>18, <1>19, <1>20, <1>21 DEF RecordedInv, Carried, Increasing
<1>23. Lost' = Lost
  <2>1. /\ Underway = Waiting \cup UNION {Carried(streams[q]) : q \in DOMAIN streams}
        /\ Underway' = Waiting' \cup UNION {Carried(streams'[q]) : q \in DOMAIN streams'}
    BY DEF Underway, Waiting, Carried
  <2>2. UNION {Carried(streams[q]) : q \in DOMAIN streams}
            = {h} \cup UNION {Carried(streams'[q]) : q \in DOMAIN streams'}
    <3>1. \A q \in DOMAIN streams : q # s => Carried(streams'[q]) = Carried(streams[q])
      BY <1>9
    <3>2. Carried(streams[s]) = {h} \cup Carried(streams'[s])
      BY <1>4, <1>9, <1>11
    <3> QED
      BY <1>9, <3>1, <3>2
  <2>3. Range(recorded') = Range(recorded) \cup {h}
    BY <1>5 DEF IsAppended
  <2>4. Range(recorded') \cup Underway' = Range(recorded) \cup Underway
    BY <1>12, <2>1, <2>2, <2>3
  <2> QED
    BY <1>3, <2>4 DEF Lost
<1>24. (\A q \in DOMAIN streams : streams[q].up) => (\A q \in DOMAIN streams : streams[q].up)'
  BY <1>7, <1>9
<1> QED
  BY <1>9, <1>12, <1>16, <1>22, <1>23, <1>24, ZenonT(60)

(* The part of it that is about places and order.                          *)
Ordered == DeliveryTypes /\ LineInv /\ StreamsInv /\ RecordedInv

(* No stream was broken.                                                   *)
AllUp == \A s \in DOMAIN streams : streams[s].up

(* A step that touches no queue moves no alert.                            *)
LEMMA RestKeepsLine ==
    ASSUME DeliveryInv, UNCHANGED <<events, emitted, queue, dropped, streams, recorded>>
    PROVE  Ordered' /\ Lost' = Lost /\ (AllUp => AllUp')
<1>1. streams' \in Seq(Streams) /\ emitted' \in Nat /\ emitted <= emitted'
  BY DEF DeliveryInv, DeliveryTypes
<1>2. DeliveryTypes' /\ LineInv' /\ \A y \in Waiting' : y \in Waiting
  BY <1>1, QueueShrinks
<1>3. StreamsInv' /\ RecordedInv'
  BY <1>1, <1>2, StreamsUntouched
<1>4. Lost' = Lost
  BY DEF Lost, Underway
<1>5. AllUp => AllUp'
  BY DEF AllUp
<1> QED
  BY <1>2, <1>3, <1>4, <1>5 DEF Ordered

(* Nothing is lost while what is underway stays the same.                  *)
LEMMA SameUnderway ==
    ASSUME Underway' = Underway, UNCHANGED <<emitted, recorded>>
    PROVE  Lost' = Lost
BY DEF Lost

(* Only finitely many alerts were emitted.                                 *)
LEMMA LostIsFinite ==
    ASSUME DeliveryInv
    PROVE  IsFiniteSet(Lost)
<1>1. emitted \in Int /\ IsFiniteSet(1..emitted)
  BY FS_Interval DEF DeliveryInv, DeliveryTypes
<1>2. Lost \in SUBSET (1..emitted)
  BY DEF Lost
<1> QED
  BY <1>1, <1>2, FS_Subset, Zenon

(* As long as nothing broke and nothing was cancelled, the reporter keeps  *)
(* to its pump and what is lost was counted.                               *)
LEMMA CountStays ==
    ASSUME DeliveryInv, UNCHANGED <<cancelled, broken, dropped>>,
           ~cancelled => reporter' \in {"open", "pump", "sleep"},
           reporter' \in {"pump", "flushing"} => streams' # << >>,
           ~broken /\ ~cancelled /\ AllUp => AllUp' /\ Lost' = Lost
    PROVE  CountInv'
BY DEF DeliveryInv, CountInv, AllUp

(* Steps of the agent's pipeline.                                          *)
LEMMA AgentKeepsDelivery ==
    ASSUME DeliveryInv, Agent
    PROVE  DeliveryInv'
<1>1. CASE Emit
  <2>1. Ordered' /\ Lost' = Lost
    BY <1>1, EmitKeepsLine DEF Ordered
  <2>2. UNCHANGED <<cancelled, broken, dropped, reporter, streams>>
    BY <1>1 DEF Emit
  <2>3. CountInv'
    BY <2>1, <2>2, CountStays DEF DeliveryInv, CountInv, AllUp
  <2> QED
    BY <2>1, <2>3 DEF DeliveryInv, Ordered
<1>2. CASE SourceEnds
  <2>1. UNCHANGED <<cancelled, events, emitted, queue, dropped, reporter, streams, recorded, broken>>
    BY <1>2 DEF SourceEnds
  <2>2. Ordered' /\ Lost' = Lost
    BY <2>1, RestKeepsLine, Zenon
  <2>3. CountInv'
    BY <2>1, <2>2, CountStays DEF DeliveryInv, CountInv, AllUp
  <2> QED
    BY <2>2, <2>3 DEF DeliveryInv, Ordered
<1>3. CASE Process
  <2>1. UNCHANGED <<cancelled, broken, reporter, streams>>
    BY <1>3 DEF Process
  <2>2. /\ Ordered'
        /\ \/ Lost' = Lost /\ dropped' = dropped
           \/ \E x : x \notin Lost /\ Lost' = Lost \cup {x} /\ dropped' = dropped + 1
    BY <1>3, ProcessKeepsLine DEF Ordered
  <2>3. CASE Lost' = Lost /\ dropped' = dropped
    <3>1. CountInv'
      BY <2>1, <2>3, CountStays DEF DeliveryInv, CountInv, AllUp
    <3> QED
      BY <2>2, <3>1 DEF DeliveryInv, Ordered
  <2>4. CASE \E x : x \notin Lost /\ Lost' = Lost \cup {x} /\ dropped' = dropped + 1
    <3>1. PICK x : x \notin Lost /\ Lost' = Lost \cup {x} /\ dropped' = dropped + 1
      BY <2>4
    <3>2. Cardinality(Lost') = Cardinality(Lost) + 1
      BY <3>1, LostIsFinite, FS_AddElement
    <3>3. CountInv'
      BY <2>1, <3>1, <3>2 DEF DeliveryInv, CountInv
    <3> QED
      BY <2>2, <3>3 DEF DeliveryInv, Ordered
  <2> QED
    BY <2>2, <2>3, <2>4
<1>4. CASE PipelineStops
  <2>1. /\ UNCHANGED <<events, emitted, queue, dropped, reporter, streams, recorded>>
        /\ cancelled' = TRUE
    BY <1>4 DEF PipelineStops
  <2>2. Ordered'
    BY <2>1, RestKeepsLine
  <2>3. CountInv'
    BY <2>1 DEF DeliveryInv, CountInv
  <2> QED
    BY <2>2, <2>3 DEF DeliveryInv, Ordered
<1> QED
  BY <1>1, <1>2, <1>3, <1>4 DEF Agent

(* Steps of the reporter.                                                  *)
LEMMA ReportKeepsDelivery ==
    ASSUME DeliveryInv, Report
    PROVE  DeliveryInv'
<1>0. streams \in Seq(Streams)
  BY DEF DeliveryInv, DeliveryTypes
<1>1. ASSUME UNCHANGED <<cancelled, events, emitted, queue, dropped, streams, recorded, broken>>,
             ~cancelled => reporter' \in {"open", "sleep"},
             reporter' \notin {"pump", "flushing"}
      PROVE  DeliveryInv'
  <2>1. Ordered' /\ Lost' = Lost /\ (AllUp => AllUp')
    BY <1>1, RestKeepsLine
  <2>2. CountInv'
    BY <1>1, <2>1, CountStays
  <2> QED
    BY <2>1, <2>2 DEF DeliveryInv, Ordered
<1>2. ASSUME streams' = Append(streams, NewStream),
             UNCHANGED <<cancelled, events, emitted, queue, dropped, recorded, broken>>,
             ~cancelled => reporter' = "pump"
      PROVE  DeliveryInv'
  <2>1. Ordered' /\ Underway' = Underway /\ streams' # << >> /\ (AllUp => AllUp')
    BY <1>2, NewStreamKeepsLine DEF Ordered, AllUp
  <2>2. Lost' = Lost
    BY <1>2, <2>1, SameUnderway
  <2>3. CountInv'
    BY <1>2, <2>1, <2>2, CountStays
  <2> QED
    BY <2>1, <2>3 DEF DeliveryInv, Ordered
<1>3. ASSUME reporter \in {"pump", "flushing"}, reporter' = reporter,
             queue # << >>, queue' = Tail(queue), Sent(Head(queue)),
             UNCHANGED <<cancelled, events, emitted, dropped, recorded, broken>>
      PROVE  DeliveryInv'
  <2>1. streams # << >>
    BY <1>3 DEF DeliveryInv, CountInv
  <2>2. /\ Ordered' /\ streams' # << >>
        /\ AllUp => Underway' = Underway /\ AllUp'
    BY <1>3, <2>1, SendKeepsLine DEF Ordered, AllUp
  <2>3. AllUp => Lost' = Lost
    BY <1>3, <2>2, SameUnderway, Zenon
  <2>4. CountInv'
    BY <1>3, <2>2, <2>3, CountStays DEF DeliveryInv, CountInv
  <2> QED
    BY <2>2, <2>4 DEF DeliveryInv, Ordered
<1>4. CASE Open
  BY <1>1, <1>2, <1>4 DEF Open
<1>5. CASE Sleep
  BY <1>1, <1>5 DEF Sleep
<1>6. CASE Pump
  BY <1>3, <1>6 DEF Pump
<1>7. CASE PumpFails
  <2>1. /\ reporter = "pump" /\ queue # << >> /\ queue' = Tail(queue)
        /\ cancelled \/ ~streams[Len(streams)].up
        /\ reporter' \in {"open", "sleep"}
        /\ UNCHANGED <<cancelled, events, emitted, dropped, streams, recorded, broken>>
    BY <1>7 DEF PumpFails, Current
  <2>2. DeliveryTypes' /\ LineInv' /\ \A y \in Waiting' : y \in Waiting
    BY <1>0, <2>1, QueueShrinks
  <2>3. StreamsInv' /\ RecordedInv'
    BY <2>1, <2>2, StreamsUntouched DEF DeliveryInv, DeliveryTypes
  <2>4. streams # << >> /\ Len(streams) \in DOMAIN streams
    BY <1>0, <2>1 DEF DeliveryInv, CountInv
  <2>5. cancelled \/ ~AllUp
    BY <2>1, <2>4 DEF AllUp
  <2>6. CountInv'
    BY <2>1, <2>4, <2>5, CountStays
  <2> QED
    BY <2>2, <2>3, <2>6 DEF DeliveryInv
<1>8. CASE PumpCancelled
  BY <1>1, <1>8 DEF PumpCancelled
<1>9. CASE Flush
  <2>1. cancelled
    BY <1>9 DEF Flush, DeliveryInv, CountInv
  <2> QED
    BY <1>1, <1>2, <1>9, <2>1 DEF Flush
<1>10. CASE FlushOne
  BY <1>3, <1>10 DEF FlushOne
<1>11. CASE FlushEnds
  <2>1. cancelled
    BY <1>11 DEF FlushEnds, DeliveryInv, CountInv
  <2> QED
    BY <1>1, <1>11, <2>1 DEF FlushEnds
<1>12. CASE FlushFails
  <2>1. cancelled /\ streams # << >>
    BY <1>12 DEF FlushFails, DeliveryInv, CountInv
  <2>2. PICK s \in DOMAIN streams : s = Len(streams)
    BY <1>0, <2>1
  <2>3. /\ streams' = [streams EXCEPT ![s].wire = << >>, ![s].up = FALSE]
        /\ queue' = queue \/ (queue # << >> /\ queue' = Tail(queue))
        /\ reporter' = "done"
        /\ UNCHANGED <<cancelled, events, emitted, dropped, recorded, broken>>
    BY <1>12, <2>2, SMTT(60) DEF FlushFails
  <2>4. Ordered'
    BY <2>3, DownKeepsLine, Zenon DEF Ordered
  <2>5. CountInv'
    BY <2>1, <2>3 DEF CountInv
  <2> QED
    BY <2>4, <2>5 DEF DeliveryInv, Ordered
<1> QED
  BY <1>4, <1>5, <1>6, <1>7, <1>8, <1>9, <1>10, <1>11, <1>12 DEF Report

(* Steps of the server and of the network.                                 *)
LEMMA ServerKeepsDelivery ==
    ASSUME DeliveryInv, NEW s \in DOMAIN streams, Break(s) \/ Recv(s) \/ RecordAlert(s)
    PROVE  DeliveryInv'
<1>1. CASE Break(s)
  <2>1. /\ streams' = [streams EXCEPT ![s].wire = << >>, ![s].up = FALSE]
        /\ broken' = TRUE
        /\ UNCHANGED <<cancelled, events, emitted, queue, dropped, reporter, recorded>>
    BY <1>1, SMTT(60) DEF Break
  <2>2. Ordered' /\ streams' # << >>
    BY <2>1, DownKeepsLine, Zenon DEF Ordered
  <2>3. CountInv'
    BY <2>1, <2>2 DEF DeliveryInv, CountInv
  <2> QED
    BY <2>2, <2>3 DEF DeliveryInv, Ordered
<1>2. CASE Recv(s)
  <2>1. UNCHANGED <<cancelled, dropped, reporter, recorded, emitted, broken>>
    BY <1>2 DEF Recv
  <2>2. Ordered' /\ Underway' = Underway /\ streams' # << >> /\ (AllUp => AllUp')
    BY <1>2, RecvKeepsLine DEF Ordered, AllUp
  <2>3. Lost' = Lost
    BY <2>1, <2>2, SameUnderway, ZenonT(60)
  <2>4. CountInv'
    BY <2>1, <2>2, <2>3, CountStays DEF DeliveryInv, CountInv
  <2> QED
    BY <2>2, <2>4 DEF DeliveryInv, Ordered
<1>3. CASE RecordAlert(s)
  <2>1. UNCHANGED <<cancelled, dropped, reporter, broken>>
    BY <1>3 DEF RecordAlert
  <2>2. Ordered' /\ Lost' = Lost /\ streams' # << >> /\ (AllUp => AllUp')
    BY <1>3, RecordKeepsLine, Zenon DEF Ordered, AllUp
  <2>3. CountInv'
    BY <2>1, <2>2, CountStays DEF DeliveryInv, CountInv
  <2> QED
    BY <2>2, <2>3 DEF DeliveryInv, Ordered
<1> QED
  BY <1>1, <1>2, <1>3

(* Every step keeps the alerts in line and the counter right.              *)
LEMMA DeliveryStep ==
    ASSUME DeliveryInv, [Next]_vars
    PROVE  DeliveryInv'
<1>1. CASE Signal
  <2>1. /\ UNCHANGED <<events, emitted, queue, dropped, reporter, streams, recorded>>
        /\ cancelled' = TRUE
    BY <1>1 DEF Signal
  <2>2. Ordered'
    BY <2>1, RestKeepsLine
  <2>3. CountInv'
    BY <2>1 DEF DeliveryInv, CountInv
  <2> QED
    BY <2>2, <2>3 DEF DeliveryInv, Ordered
<1>2. CASE UNCHANGED vars
  <2>1. UNCHANGED <<cancelled, events, emitted, queue, dropped, reporter, streams, recorded, broken>>
    BY <1>2 DEF vars
  <2>2. Ordered' /\ Lost' = Lost /\ (AllUp => AllUp')
    BY <2>1, RestKeepsLine
  <2>3. CountInv'
    BY <2>1, <2>2, CountStays DEF DeliveryInv, CountInv
  <2> QED
    BY <2>2, <2>3 DEF DeliveryInv, Ordered
<1> QED
  BY <1>1, <1>2, AgentKeepsDelivery, ReportKeepsDelivery, ServerKeepsDelivery DEF Next, Server

(* Nothing is underway at the start.                                       *)
LEMMA DeliveryStart == Init => DeliveryInv
<1> SUFFICES ASSUME Init PROVE DeliveryInv
  OBVIOUS
<1>1. /\ cancelled = FALSE /\ events = << >> /\ emitted = 0 /\ queue = << >>
      /\ dropped = 0 /\ reporter = "open" /\ streams = << >> /\ recorded = << >>
  BY DEF Init
<1>2. /\ DOMAIN streams = {} /\ Len(streams) = 0 /\ streams \in Seq(Streams)
      /\ DOMAIN recorded = {}
  BY <1>1
<1>3. DeliveryTypes /\ Waiting = {} /\ LineInv /\ StreamsInv
  BY <1>1, <1>2, EmptyFacts DEF DeliveryTypes, Waiting, LineInv, StreamsInv
<1>4. RecordedInv
  BY <1>1, <1>2, EmptyFacts DEF RecordedInv, IsInjective
<1>5. Lost = {}
  BY <1>1 DEF Lost
<1>6. CountInv
  BY <1>1, <1>2, <1>5, FS_EmptySet DEF CountInv
<1> QED
  BY <1>3, <1>4, <1>6 DEF DeliveryInv

(* For every buffer, queue and number of streams: no alert is stored       *)
(* twice or stored while it is still on its way, the first stream keeps    *)
(* the order of the events, and until something breaks or is cancelled the *)
(* agent's counter of dropped reports is exactly the number of alerts that *)
(* will never arrive (internal/fleet/reporter.go, server/api/service.go    *)
(* ReportAlerts).                                                          *)
THEOREM AlertsAreStoredOnce == Spec => []StoredOnceInOrder
<1>1. Init => DeliveryInv
  BY DeliveryStart
<1>2. DeliveryInv /\ [Next]_vars => DeliveryInv'
  BY DeliveryStep
<1>3. DeliveryInv => StoredOnceInOrder
  <2> SUFFICES ASSUME DeliveryInv PROVE StoredOnceInOrder
    OBVIOUS
  <2>1. DOMAIN recorded = 1..Len(recorded) /\ recorded \in Seq(Nat)
    BY DEF DeliveryInv, DeliveryTypes
  <2>2. Underway = Waiting \cup UNION {Carried(streams[s]) : s \in DOMAIN streams}
    BY DEF Underway, Waiting, Carried
  <2>3. Range(recorded) \cap Waiting = {}
    BY DEF DeliveryInv, RecordedInv
  <2>4. Range(recorded) \cap Underway = {}
    BY <2>2, <2>3 DEF DeliveryInv, RecordedInv
  <2> QED
    BY <2>1, <2>4 DEF DeliveryInv, RecordedInv, CountInv, StoredOnceInOrder, Increasing
<1> QED
  BY <1>1, <1>2, <1>3, PTL DEF Spec
-----------------------------------------------------------------------------
(* The Loki sink.                                                          *)
CONSTANTS Pipeline, Reporters, lokiBatchSize, MaxDocuments

VARIABLES values, at, batch, stop, accepted, pushed, lost, due

Loki == INSTANCE LokiSink

(* The flusher is a goroutine of its own (loki.go NewLokiSink).            *)
LokiAssumption == Loki!Flusher \notin Loki!Writers

(* Who may push a batch.                                                   *)
Goroutines == Loki!Writers \cup {Loki!Flusher}

(* A document is in one place: the batch being filled, that of a push,     *)
(* arrived or lost.                                                        *)
LokiPlaces ==
    /\ accepted \in Nat /\ values \in Seq(Nat) /\ batch \in [Goroutines -> Seq(Nat)]
    /\ \A x : x \in 1..accepted <=>
                  \/ x \in pushed \cup lost \cup Range(values)
                  \/ \E g \in Goroutines : x \in Range(batch[g])
    /\ pushed \cap lost = {} /\ Range(values) \cap (pushed \cup lost) = {}
    /\ \A g \in Goroutines :
          /\ Range(batch[g]) \cap (pushed \cup lost) = {}
          /\ Range(batch[g]) \cap Range(values) = {}
          /\ \A h \in Goroutines \ {g} : Range(batch[g]) \cap Range(batch[h]) = {}
    /\ Increasing(values) /\ \A g \in Goroutines : Increasing(batch[g])

(* Where a goroutine of the sink is.                                       *)
Positions ==
    {"ready", "flush", "push", "last flush", "last push", "done",
     "end flush", "end push", "close", "waiting", "exited"}

(* Only a push holds a batch; and once the flusher has taken the last one, *)
(* what was written before Close is no longer in the sink.                 *)
LokiControl ==
    /\ at \in [Goroutines -> Positions] /\ due \in Nat
    /\ at[Loki!Flusher] \in {"ready", "flush", "push", "last flush", "last push", "done"}
    /\ \A w \in Loki!Writers : at[w] \notin {"last flush", "last push", "done"}
    /\ \A g \in Goroutines : at[g] \notin {"push", "last push", "end push"} => batch[g] = << >>
    /\ due <= accepted
    /\ stop <=> at[Pipeline] \in {"waiting", "exited"}
    /\ at[Loki!Flusher] \in {"last flush", "last push", "done"} => stop
    /\ at[Loki!Flusher] \in {"last push", "done"} => \A x \in Range(values) : x > due
    /\ at[Pipeline] = "exited" => at[Loki!Flusher] = "done"

(* The inductive invariant of the Loki sink.                               *)
LokiInv == LokiPlaces /\ LokiControl

(* A document is put into the batch.                                       *)
LEMMA EnqueueKeepsPlaces ==
    ASSUME LokiInv, LokiAssumption, NEW w \in Loki!Writers, Loki!enqueue(w)
    PROVE  LokiInv'
<1>1. PICK n : n = accepted + 1
  OBVIOUS
<1>2. PICK v : v = IF Len(values') >= lokiBatchSize THEN "flush" ELSE "ready"
  OBVIOUS
<1>3. /\ at[w] = "ready" /\ accepted' = n /\ values' = Append(values, n)
      /\ at' = [at EXCEPT ![w] = v] /\ v \in {"flush", "ready"}
      /\ UNCHANGED <<batch, stop, pushed, lost, due>>
  BY <1>1, <1>2 DEF Loki!enqueue
<1>4. /\ accepted \in Nat /\ n \in Nat /\ values \in Seq(Nat) /\ due \in Nat /\ due < n
      /\ n \notin 1..accepted /\ 1..n = 1..accepted \cup {n}
  <2>1. accepted \in Nat /\ values \in Seq(Nat) /\ due \in Nat /\ due <= accepted
    BY Zenon DEF LokiInv, LokiPlaces, LokiControl
  <2> QED
    BY <1>1, <2>1
<1>5. IsAppended(values', values, n)
  BY <1>3, <1>4, AppendFacts
<1>6. values' \in Seq(Nat) /\ Range(values') = Range(values) \cup {n}
  BY <1>5 DEF IsAppended
<1>7. /\ n \notin pushed \cup lost \cup Range(values)
      /\ \A g \in Goroutines : n \notin Range(batch[g])
  BY <1>4, Zenon DEF LokiInv, LokiPlaces
<1>8. Increasing(values')
  <2>1. \A y \in Range(values) : y \in 1..accepted
    BY DEF LokiInv, LokiPlaces
  <2>2. \A y \in Range(values) : y < n
    BY <1>1, <1>4, <2>1
  <2> QED
    BY <1>5, <2>2, Zenon DEF LokiInv, LokiPlaces, IsAppended
<1>9. \A x : x \in 1..accepted' <=>
                  \/ x \in pushed' \cup lost' \cup Range(values')
                  \/ \E g \in Goroutines : x \in Range(batch'[g])
  BY <1>3, <1>4, <1>6 DEF LokiInv, LokiPlaces
<1>10. LokiPlaces'
  <2>1. accepted' \in Nat /\ batch' \in [Goroutines -> Seq(Nat)]
    BY <1>3, <1>4, Zenon DEF LokiInv, LokiPlaces
  <2>2. pushed' \cap lost' = {} /\ Range(values') \cap (pushed' \cup lost') = {}
    BY <1>3, <1>6, <1>7 DEF LokiInv, LokiPlaces
  <2>3. ASSUME NEW g \in Goroutines
        PROVE  /\ Range(batch'[g]) \cap (pushed' \cup lost') = {}
               /\ Range(batch'[g]) \cap Range(values') = {}
               /\ Increasing(batch'[g])
               /\ \A h \in Goroutines \ {g} : Range(batch'[g]) \cap Range(batch'[h]) = {}
    BY <1>3, <1>6, <1>7 DEF LokiInv, LokiPlaces
  <2> QED
    BY <1>6, <1>8, <1>9, <2>1, <2>2, <2>3, Zenon DEF LokiPlaces, Increasing, Goroutines
<1>11. w \in Goroutines /\ w # Loki!Flusher /\ Pipeline \in Goroutines
       /\ Loki!Flusher \in Goroutines
  BY DEF Goroutines, LokiAssumption, Loki!Writers
<1>12. /\ at' \in [Goroutines -> Positions] /\ at'[w] = v
       /\ \A g \in Goroutines \ {w} : at'[g] = at[g]
  BY <1>3, <1>11, Zenon DEF LokiInv, LokiControl, Positions
<1>13. /\ at'[Loki!Flusher] = at[Loki!Flusher]
       /\ at'[Pipeline] \in {"waiting", "exited"} <=> at[Pipeline] \in {"waiting", "exited"}
       /\ at'[Pipeline] = "exited" <=> at[Pipeline] = "exited"
  BY <1>3, <1>11, <1>12, Zenon
<1>14. ASSUME at[Loki!Flusher] \in {"last push", "done"}
       PROVE  \A x \in Range(values') : x > due
  BY <1>4, <1>6, <1>14, Zenon DEF LokiInv, LokiControl
<1>15. \A g \in Goroutines : at'[g] \notin {"push", "last push", "end push"} => batch'[g] = << >>
  BY <1>3, <1>12, Zenon DEF LokiInv, LokiControl
<1>16. \A g \in Loki!Writers : at'[g] \notin {"last flush", "last push", "done"}
  BY <1>3, <1>12, Zenon DEF LokiInv, LokiControl, Goroutines
<1>17. due' <= accepted' /\ due' \in Nat
  BY <1>3, <1>4
<1>18. LokiControl'
  BY <1>3, <1>12, <1>13, <1>14, <1>15, <1>16, <1>17, Zenon
  DEF LokiInv, LokiControl, Goroutines, Positions
<1> QED
  BY <1>10, <1>18 DEF LokiInv

(* A goroutine that only moves on leaves every document where it is.       *)
LEMMA MoveKeepsPlaces ==
    ASSUME LokiInv, UNCHANGED <<values, batch, accepted, pushed, lost>>
    PROVE  LokiPlaces'
BY Zenon DEF LokiInv, LokiPlaces, Increasing, Goroutines

(* A batch is taken, and with it its documents.                            *)
LEMMA FlushKeepsPlaces ==
    ASSUME LokiInv, LokiAssumption, NEW g \in Goroutines, Loki!Flush(g)
    PROVE  LokiInv'
<1>1. /\ at[g] \in {"flush", "last flush", "end flush"}
      /\ UNCHANGED <<stop, accepted, pushed, lost, due>>
  BY Zenon DEF Loki!Flush
<1>2. /\ batch[g] = << >> /\ at \in [Goroutines -> Positions] /\ Pipeline \in Goroutines
      /\ Loki!Flusher \in Goroutines /\ Pipeline # Loki!Flusher
      /\ at[Pipeline] \notin {"last flush", "last push", "done"}
      /\ values \in Seq(Nat) /\ batch \in [Goroutines -> Seq(Nat)]
  BY <1>1, Zenon DEF LokiInv, LokiPlaces, LokiControl, Goroutines, LokiAssumption, Loki!Writers
<1>3. ASSUME NEW v \in Positions, at' = [at EXCEPT ![g] = v],
             v \in {"ready", "close", "done", "push", "last push", "end push"},
             v \in {"done", "last push"} <=> at[g] = "last flush",
             v \in {"close", "end push"} <=> at[g] = "end flush",
             values' = << >>,
             v \in {"ready", "close", "done"} => batch' = batch,
             \A h \in Goroutines \ {g} : batch'[h] = batch[h]
      PROVE  LokiControl'
  <2>1. /\ at' \in [Goroutines -> Positions] /\ at'[g] = v
        /\ \A h \in Goroutines \ {g} : at'[h] = at[h]
    BY <1>2, <1>3, Zenon
  <2>2. at'[Loki!Flusher] \in {"ready", "flush", "push", "last flush", "last push", "done"}
    BY <1>1, <1>2, <1>3, <2>1, Zenon DEF LokiInv, LokiControl
  <2>3. \A h \in Loki!Writers : at'[h] \notin {"last flush", "last push", "done"}
    BY <1>3, <2>1, Zenon DEF LokiInv, LokiControl, Goroutines
  <2>4. ASSUME NEW h \in Goroutines
        PROVE  at'[h] \notin {"push", "last push", "end push"} => batch'[h] = << >>
    BY <1>2, <1>3, <2>1, Zenon DEF LokiInv, LokiControl
  <2>5. /\ at'[Pipeline] \in {"waiting", "exited"} <=> at[Pipeline] \in {"waiting", "exited"}
        /\ at'[Pipeline] = "exited" <=> at[Pipeline] = "exited"
    BY <1>1, <1>2, <1>3, <2>1, Zenon
  <2>6. at'[Loki!Flusher] \in {"last flush", "last push", "done"}
            <=> at[Loki!Flusher] \in {"last flush", "last push", "done"}
    BY <1>1, <1>2, <1>3, <2>1, Zenon
  <2>7. at[Loki!Flusher] = "done" => at'[Loki!Flusher] = "done"
    BY <1>1, <1>2, <2>1, Zenon
  <2>8. Range(values') = {}
    BY <1>3, EmptyFacts, Zenon
  <2> QED
    BY <1>1, <2>1, <2>2, <2>3, <2>4, <2>5, <2>6, <2>7, <2>8, Zenon
    DEF LokiInv, LokiControl, Goroutines
<1>4. CASE values = << >>
  <2>1. at' = [at EXCEPT ![g] = Loki!After(g)] /\ UNCHANGED <<values, batch>>
    BY <1>4, Zenon DEF Loki!Flush
  <2>2. PICK v : v = Loki!After(g)
    OBVIOUS
  <2>3. /\ v \in Positions
        /\ v \in {"ready", "close", "done"}
        /\ v = "done" <=> at[g] = "last flush"
        /\ v = "close" <=> at[g] = "end flush"
    BY <1>1, <2>2, Zenon DEF Loki!After, Positions
  <2>4. LokiControl'
    BY <1>3, <1>4, <2>1, <2>2, <2>3, Zenon
  <2> QED
    BY <1>1, <2>1, <2>4, MoveKeepsPlaces, Zenon DEF LokiInv
<1>5. CASE values # << >>
  <2>1. /\ at' = [at EXCEPT ![g] = Loki!Pushing(g)]
        /\ batch' = [batch EXCEPT ![g] = values] /\ values' = << >>
    BY <1>5, Zenon DEF Loki!Flush
  <2>2. PICK v : v = Loki!Pushing(g)
    OBVIOUS
  <2>3. /\ v \in Positions /\ v \in {"push", "last push", "end push"}
        /\ v = "last push" <=> at[g] = "last flush"
        /\ v = "end push" <=> at[g] = "end flush"
    BY <1>1, <2>2, Zenon DEF Loki!Pushing, Positions
  <2>4. /\ batch' \in [Goroutines -> Seq(Nat)] /\ batch'[g] = values
        /\ \A h \in Goroutines \ {g} : batch'[h] = batch[h]
    BY <1>2, <2>1, Zenon
  <2>5. LokiControl'
    BY <1>3, <2>1, <2>2, <2>3, <2>4, Zenon
  <2>6. /\ Range(values') = {} /\ Range(batch[g]) = {} /\ Range(batch'[g]) = Range(values)
        /\ values' \in Seq(Nat) /\ Increasing(values') /\ Increasing(batch'[g])
    BY <1>2, <2>1, <2>4, EmptyFacts, Zenon DEF LokiInv, LokiPlaces
  <2>7. \A x : x \in 1..accepted' <=>
                  \/ x \in pushed' \cup lost' \cup Range(values')
                  \/ \E h \in Goroutines : x \in Range(batch'[h])
    BY <1>1, <2>4, <2>6, Zenon DEF LokiInv, LokiPlaces
  <2>8. ASSUME NEW h \in Goroutines
        PROVE  /\ Range(batch'[h]) \cap (pushed' \cup lost') = {}
               /\ Range(batch'[h]) \cap Range(values') = {}
               /\ Increasing(batch'[h])
               /\ \A k \in Goroutines \ {h} : Range(batch'[h]) \cap Range(batch'[k]) = {}
    BY <1>1, <2>4, <2>6, Zenon DEF LokiInv, LokiPlaces
  <2>9. LokiPlaces'
    BY <1>1, <2>4, <2>6, <2>7, <2>8, Zenon DEF LokiInv, LokiPlaces, Increasing, Goroutines
  <2> QED
    BY <2>5, <2>9 DEF LokiInv
<1> QED
  BY <1>4, <1>5

(* A push arrives or is lost as a whole.                                   *)
LEMMA PushKeepsPlaces ==
    ASSUME LokiInv, LokiAssumption, NEW g \in Goroutines, NEW ok \in BOOLEAN, Loki!push(g, ok)
    PROVE  LokiInv'
<1>1. PICK v : v = Loki!After(g)
  OBVIOUS
<1>2. /\ at[g] \in {"push", "last push", "end push"} /\ at' = [at EXCEPT ![g] = v]
      /\ batch' = [batch EXCEPT ![g] = << >>]
      /\ \/ pushed' = pushed \cup Range(batch[g]) /\ lost' = lost
         \/ pushed' = pushed /\ lost' = lost \cup Range(batch[g])
      /\ UNCHANGED <<values, stop, accepted, due>>
  BY <1>1, Zenon DEF Loki!push, Loki!Range, Range
<1>3. /\ v \in Positions /\ v \in {"ready", "close", "done"}
      /\ v = "done" <=> at[g] = "last push"
      /\ v = "close" <=> at[g] = "end push"
  BY <1>1, <1>2, Zenon DEF Loki!After, Positions
<1>4. /\ at \in [Goroutines -> Positions] /\ Pipeline \in Goroutines
      /\ Loki!Flusher \in Goroutines /\ Pipeline # Loki!Flusher
      /\ at[Pipeline] \notin {"last flush", "last push", "done"}
      /\ batch \in [Goroutines -> Seq(Nat)]
  BY Zenon DEF LokiInv, LokiPlaces, LokiControl, Goroutines, LokiAssumption, Loki!Writers
<1>5. /\ batch' \in [Goroutines -> Seq(Nat)] /\ batch'[g] = << >> /\ Range(batch'[g]) = {}
      /\ \A h \in Goroutines \ {g} : batch'[h] = batch[h]
  BY <1>2, <1>4, EmptyFacts, Zenon
<1>6. pushed' \cup lost' = pushed \cup lost \cup Range(batch[g])
  BY <1>2, ZenonT(60)
<1>7. LokiPlaces'
  <2>1. \A x : x \in 1..accepted' <=>
                  \/ x \in pushed' \cup lost' \cup Range(values')
                  \/ \E h \in Goroutines : x \in Range(batch'[h])
    BY <1>2, <1>5, <1>6, Zenon DEF LokiInv, LokiPlaces
  <2>2. pushed' \cap lost' = {} /\ Range(values') \cap (pushed' \cup lost') = {}
    BY <1>2, <1>6, Zenon DEF LokiInv, LokiPlaces
  <2>3. ASSUME NEW h \in Goroutines
        PROVE  /\ Range(batch'[h]) \cap (pushed' \cup lost') = {}
               /\ Range(batch'[h]) \cap Range(values') = {}
               /\ Increasing(batch'[h])
               /\ \A k \in Goroutines \ {h} : Range(batch'[h]) \cap Range(batch'[k]) = {}
    BY <1>2, <1>5, <1>6, EmptyFacts, ZenonT(60) DEF LokiInv, LokiPlaces
  <2> QED
    BY <1>2, <1>5, <2>1, <2>2, <2>3, ZenonT(60) DEF LokiInv, LokiPlaces, Increasing, Goroutines
<1>8. LokiControl'
  <2>1. /\ at' \in [Goroutines -> Positions] /\ at'[g] = v
        /\ \A h \in Goroutines \ {g} : at'[h] = at[h]
    BY <1>2, <1>3, <1>4, Zenon
  <2>2. at'[Loki!Flusher] \in {"ready", "flush", "push", "last flush", "last push", "done"}
    BY <1>2, <1>3, <1>4, <2>1, Zenon DEF LokiInv, LokiControl
  <2>3. \A h \in Loki!Writers : at'[h] \notin {"last flush", "last push", "done"}
    BY <1>3, <2>1, Zenon DEF LokiInv, LokiControl, Goroutines
  <2>4. ASSUME NEW h \in Goroutines
        PROVE  at'[h] \notin {"push", "last push", "end push"} => batch'[h] = << >>
    BY <1>5, <2>1, Zenon DEF LokiInv, LokiControl
  <2>5. /\ at'[Pipeline] \in {"waiting", "exited"} <=> at[Pipeline] \in {"waiting", "exited"}
        /\ at'[Pipeline] = "exited" <=> at[Pipeline] = "exited"
    BY <1>2, <1>3, <1>4, <2>1, Zenon
  <2>6. at'[Loki!Flusher] \in {"last push", "done"} => at[Loki!Flusher] \in {"last push", "done"}
    BY <1>2, <1>3, <1>4, <2>1, Zenon
  <2>7. at'[Loki!Flusher] = "last flush" => at[Loki!Flusher] = "last flush"
    BY <1>2, <1>3, <1>4, <2>1, Zenon
  <2>8. at[Loki!Flusher] = "done" => at'[Loki!Flusher] = "done"
    BY <1>2, <1>4, <2>1, Zenon
  <2> QED
    BY <1>2, <2>1, <2>2, <2>3, <2>4, <2>5, <2>6, <2>7, <2>8, Zenon
    DEF LokiInv, LokiControl, Goroutines, Positions
<1> QED
  BY <1>7, <1>8 DEF LokiInv

(* Every step keeps each document in one place.                            *)
LEMMA LokiStep ==
    ASSUME LokiInv, LokiAssumption, [Loki!Next]_(Loki!vars)
    PROVE  LokiInv'
<1>1. /\ at \in [Goroutines -> Positions] /\ Pipeline \in Goroutines
      /\ Loki!Flusher \in Goroutines /\ Pipeline # Loki!Flusher
  BY Zenon DEF LokiInv, LokiControl, Goroutines, LokiAssumption, Loki!Writers
<1>2. ASSUME NEW w \in Loki!Writers, Loki!enqueue(w) PROVE LokiInv'
  BY <1>2, EnqueueKeepsPlaces
<1>3. ASSUME NEW g \in Loki!Writers \cup {Loki!Flusher}, Loki!Running(g) PROVE LokiInv'
  BY <1>3, FlushKeepsPlaces, PushKeepsPlaces DEF Loki!Running, Goroutines
<1>4. CASE Loki!flushLoop
  <2>1. /\ at[Loki!Flusher] = "ready" /\ UNCHANGED <<values, batch, stop, accepted, pushed, lost, due>>
        /\ \/ at' = [at EXCEPT ![Loki!Flusher] = "flush"]
           \/ stop /\ at' = [at EXCEPT ![Loki!Flusher] = "last flush"]
    BY <1>4, Zenon DEF Loki!flushLoop
  <2>2. /\ at' \in [Goroutines -> Positions]
        /\ at'[Loki!Flusher] = "flush" \/ (stop /\ at'[Loki!Flusher] = "last flush")
        /\ \A h \in Goroutines \ {Loki!Flusher} : at'[h] = at[h]
    BY <1>1, <2>1, Zenon DEF Positions
  <2>3. \A w \in Loki!Writers : at'[w] = at[w]
    BY <2>2, Zenon DEF Goroutines, LokiAssumption
  <2>4. at'[Pipeline] = at[Pipeline] /\ at[Pipeline] # "exited"
    BY <1>1, <2>1, <2>2, Zenon DEF LokiInv, LokiControl
  <2>5. \A g \in Goroutines : at'[g] \notin {"push", "last push", "end push"} => batch'[g] = << >>
    BY <2>1, <2>2, Zenon DEF LokiInv, LokiControl
  <2>6. LokiControl'
    BY <2>1, <2>2, <2>3, <2>4, <2>5, Zenon DEF LokiInv, LokiControl, Goroutines, Positions
  <2> QED
    BY <2>1, <2>6, MoveKeepsPlaces, Zenon DEF LokiInv
<1>5. ASSUME NEW v \in {"end flush", "waiting", "exited"}, at' = [at EXCEPT ![Pipeline] = v],
             at[Pipeline] \notin {"push", "last push", "end push"},
             stop' <=> v \in {"waiting", "exited"},
             v = "exited" => at[Loki!Flusher] = "done",
             stop => stop', due' \in Nat, due' <= accepted,
             at[Loki!Flusher] \in {"last push", "done"} => due' = due,
             UNCHANGED <<values, batch, accepted, pushed, lost>>
      PROVE  LokiInv'
  <2>1. /\ at' \in [Goroutines -> Positions] /\ at'[Pipeline] = v
        /\ at'[Loki!Flusher] = at[Loki!Flusher]
        /\ \A h \in Goroutines \ {Pipeline} : at'[h] = at[h]
    BY <1>1, <1>5, Zenon DEF Positions
  <2>2. \A w \in Loki!Writers : at'[w] \notin {"last flush", "last push", "done"}
    BY <1>5, <2>1, Zenon DEF LokiInv, LokiControl, Goroutines
  <2>3. \A g \in Goroutines : at'[g] \notin {"push", "last push", "end push"} => batch'[g] = << >>
    BY <1>1, <1>5, <2>1, Zenon DEF LokiInv, LokiControl
  <2>4. LokiControl'
    BY <1>5, <2>1, <2>2, <2>3, ZenonT(60) DEF LokiInv, LokiControl, Goroutines, Positions
  <2> QED
    BY <1>5, <2>4, MoveKeepsPlaces, ZenonT(60) DEF LokiInv
<1>6. CASE Loki!SourceEnds
  BY <1>5, <1>6, Zenon DEF Loki!SourceEnds, LokiInv, LokiControl
<1>7. CASE Loki!Close
  <2>1. /\ at[Pipeline] = "close" /\ stop' = TRUE /\ due' = accepted
        /\ at' = [at EXCEPT ![Pipeline] = "waiting"]
        /\ UNCHANGED <<values, batch, accepted, pushed, lost>>
    BY <1>7, SMTT(60) DEF Loki!Close
  <2>2. ~stop
    BY <2>1, Zenon DEF LokiInv, LokiControl
  <2>3. at[Loki!Flusher] \notin {"last push", "done"}
    BY <2>2, Zenon DEF LokiInv, LokiControl
  <2>4. accepted \in Nat /\ accepted <= accepted
    BY DEF LokiInv, LokiPlaces
  <2> QED
    BY <1>5, <2>1, <2>3, <2>4, Zenon
<1>8. CASE Loki!Exit
  BY <1>5, <1>8, Zenon DEF Loki!Exit, LokiInv, LokiControl
<1>9. CASE UNCHANGED Loki!vars
  <2>1. UNCHANGED <<values, at, batch, stop, accepted, pushed, lost, due>>
    BY <1>9 DEF Loki!vars
  <2>2. LokiControl'
    BY <2>1, Zenon DEF LokiInv, LokiControl, Goroutines, Positions
  <2> QED
    BY <2>1, <2>2, MoveKeepsPlaces, Zenon DEF LokiInv
<1> QED
  BY <1>2, <1>3, <1>4, <1>6, <1>7, <1>8, <1>9, Zenon DEF Loki!Next

(* Nothing is accepted at the start.                                       *)
LEMMA LokiStart == Loki!Init /\ LokiAssumption => LokiInv
<1> SUFFICES ASSUME Loki!Init, LokiAssumption PROVE LokiInv
  OBVIOUS
<1>1. /\ values = << >> /\ accepted = 0 /\ pushed = {} /\ lost = {} /\ due = 0
      /\ at = [g \in Goroutines |-> "ready"] /\ batch = [g \in Goroutines |-> << >>]
      /\ stop = FALSE
  BY DEF Loki!Init, Goroutines
<1>2. /\ \A g \in Goroutines : batch[g] = << >> /\ Range(batch[g]) = {} /\ at[g] = "ready"
      /\ 1..accepted = {} /\ Range(values) = {}
  BY <1>1, EmptyFacts
<1>3. LokiPlaces
  BY <1>1, <1>2, EmptyFacts DEF LokiPlaces
<1>4. Pipeline \in Goroutines /\ Loki!Flusher \in Goroutines /\ Loki!Writers \subseteq Goroutines
  BY DEF Goroutines, Loki!Writers
<1>5. at \in [Goroutines -> Positions]
  BY <1>1 DEF Positions
<1>6. /\ at[Pipeline] = "ready" /\ at[Loki!Flusher] = "ready"
      /\ \A w \in Loki!Writers : at[w] = "ready"
  BY <1>2, <1>4
<1>7. due \in Nat /\ due <= accepted /\ ~stop
  BY <1>1
<1>8. LokiControl
  BY <1>2, <1>5, <1>6, <1>7, Zenon DEF LokiControl
<1> QED
  BY <1>3, <1>8 DEF LokiInv

(* For any number of writers, any batch size and any interleaving of       *)
(* writers, ticks, failing pushes and Close: each document is in exactly   *)
(* one place, batches keep their order, and when Close has returned what   *)
(* was written before it has left the sink (internal/output/loki.go).      *)
THEOREM DocumentsAreKeptApart ==
    ASSUME LokiAssumption
    PROVE  Loki!Spec => []Loki!EachDocumentOnce
<1>1. Loki!Init => LokiInv
  BY LokiStart
<1>2. LokiInv /\ [Loki!Next]_(Loki!vars) => LokiInv'
  BY LokiStep, Zenon
<1>3. LokiInv => Loki!EachDocumentOnce
  <2> SUFFICES ASSUME LokiInv PROVE Loki!EachDocumentOnce
    OBVIOUS
  <2>1. /\ batch \in [Goroutines -> Seq(Nat)] /\ DOMAIN batch = Goroutines
        /\ values \in Seq(Nat)
        /\ Loki!Batches = {values} \cup {batch[g] : g \in Goroutines}
    BY DEF LokiInv, LokiPlaces, Loki!Batches
  <2>2. \A b : Loki!Range(b) = Range(b)
    BY DEF Loki!Range, Range
  <2>3. ASSUME NEW b \in Loki!Batches
        PROVE  /\ b \in Seq(Nat) /\ Increasing(b) /\ Range(b) \cap (pushed \cup lost) = {}
               /\ \A i \in 2..Len(b) : b[i - 1] < b[i]
    <3>1. b \in Seq(Nat) /\ Increasing(b) /\ Range(b) \cap (pushed \cup lost) = {}
      BY <2>1 DEF LokiInv, LokiPlaces
    <3>2. \A i \in 2..Len(b) : i - 1 \in 1..Len(b) /\ i \in 1..Len(b) /\ i - 1 < i
      BY <3>1
    <3> QED
      BY <3>1, <3>2, Zenon DEF Increasing
  <2>4. pushed \cup lost \cup UNION {Range(b) : b \in Loki!Batches} = 1..accepted
    <3>1. ASSUME NEW x PROVE x \in UNION {Range(b) : b \in Loki!Batches} <=>
                                 x \in Range(values) \/ \E g \in Goroutines : x \in Range(batch[g])
      BY <2>1
    <3> QED
      BY <3>1 DEF LokiInv, LokiPlaces
  <2>5. ASSUME at[Pipeline] = "exited", NEW b \in {values, batch[Loki!Flusher]}, NEW i \in DOMAIN b
        PROVE  b[i] > due
    <3>1. batch[Loki!Flusher] = << >> /\ at[Loki!Flusher] = "done"
      BY <2>5, Zenon DEF LokiInv, LokiControl, Goroutines
    <3>2. b = values
      BY <2>5, <3>1
    <3>3. b[i] \in Range(values)
      BY <2>5, <3>2, Zenon DEF Range
    <3> QED
      BY <3>1, <3>3, Zenon DEF LokiInv, LokiControl
  <2>6. /\ pushed \cap lost = {}
        /\ \A g \in DOMAIN batch :
              /\ Range(batch[g]) \cap Range(values) = {}
              /\ \A h \in DOMAIN batch \ {g} : Range(batch[g]) \cap Range(batch[h]) = {}
    BY <2>1 DEF LokiInv, LokiPlaces
  <2> QED
    BY <2>2, <2>3, <2>4, <2>5, <2>6, Zenon DEF Loki!EachDocumentOnce
<1> QED
  BY <1>1, <1>2, <1>3, PTL DEF Loki!Spec
-----------------------------------------------------------------------------
(* The rotating log file.                                                  *)
CONSTANTS Sizes, rotateMaxBytes, MaxLines, MaxFaults

VARIABLES path, rotated, handle, size, offered, written, faults

File == INSTANCE FileSink WITH accepted <- written

(* A line has at least its newline (file.go write); a limit below one      *)
(* turns rotation off.                                                     *)
FileAssumption == Sizes \subseteq Nat \ {0} /\ rotateMaxBytes \in Int

(* Lines of a log file.                                                    *)
LogLines == [n : Nat, end : Nat]
Lines == Seq(LogLines)

(* While its handle is open, the sink counts the bytes of the file.        *)
FileInv ==
    /\ path \in Lines /\ rotated \in Lines
    /\ handle \in {"open", "closed"}
    /\ size \in Nat /\ written \in Nat
    /\ handle = "open" => size = File!Bytes(path)
    /\ File!LogIsTail

(* The length of a file is a number.                                       *)
LEMMA BytesAreNatural == \A lines \in Lines : File!Bytes(lines) \in Nat
<1> SUFFICES ASSUME NEW lines \in Lines, lines # << >>
             PROVE  lines[Len(lines)].end \in Nat
  BY DEF File!Bytes
<1>1. Len(lines) \in DOMAIN lines
  BY DEF Lines
<1>2. lines[Len(lines)] \in LogLines
  BY <1>1 DEF Lines
<1> QED BY <1>2 DEF LogLines

(* An empty file holds no lines.                                           *)
LEMMA Empty == << >> \in Lines /\ File!Bytes(<< >>) = 0 /\ \A m \in Nat : File!Holds(<< >>, m, m)
<1>1. << >> \in Lines /\ File!Bytes(<< >>) = 0
  BY DEF Lines, File!Bytes
<1>2. \A m \in Nat : (m + 1)..m = {}
  OBVIOUS
<1>3. DOMAIN << >> = {}
  OBVIOUS
<1> QED BY <1>1, <1>2, <1>3 DEF File!Holds

(* One more line, whole or torn.                                           *)
Longer(lines, number, end) == Append(lines, File!Line(number, end))

(* A whole line is the next one; a torn one does not count.                *)
LEMMA LineAdded ==
    ASSUME NEW lines \in Lines, NEW from \in Nat, NEW to \in Nat, from <= to,
           File!Holds(lines, from, to), NEW end \in Nat, NEW number \in Nat, NEW added,
           number = File!Torn \/ number = to + 1,
           added = Longer(lines, number, end)
    PROVE  /\ added \in Lines /\ File!Bytes(added) = end /\ Len(added) = Len(lines) + 1
           /\ number = File!Torn => File!Holds(added, from, to)
           /\ number = to + 1 => File!Holds(added, from, to + 1)
<1>1. File!Line(number, end) \in LogLines /\ File!Line(number, end).n = number
      /\ File!Line(number, end).end = end
  BY DEF File!Line, File!Torn, LogLines
<1>2. PICK line \in LogLines : line = File!Line(number, end)
  BY <1>1
<1>3. /\ added \in Lines /\ Len(added) = Len(lines) + 1 /\ Len(lines) \in Nat
      /\ DOMAIN lines = 1..Len(lines) /\ DOMAIN added = 1..(Len(lines) + 1)
      /\ \A i \in 1..Len(lines) : added[i] = lines[i]
      /\ added[Len(lines) + 1] = line
  BY <1>2 DEF Lines, Longer
<1>4. File!Bytes(added) = end
  BY <1>1, <1>2, <1>3 DEF File!Bytes
<1>5. \A i \in 1..Len(lines) : lines[i].n \in Nat
  <2>1. \A e \in LogLines : e.n \in Nat
    BY DEF LogLines
  <2> QED BY <1>3, <2>1 DEF Lines
<1>6. \A i \in 1..Len(lines) : lines[i].n <= to
  <2> SUFFICES ASSUME NEW i \in 1..Len(lines), lines[i].n # File!Torn  PROVE lines[i].n <= to
    BY <1>5 DEF File!Torn
  <2>1. lines[i].n \in (from + 1)..to
    BY <1>3, Zenon DEF File!Holds
  <2> QED BY <2>1
<1>7. {added[i].n : i \in DOMAIN added} = {lines[i].n : i \in DOMAIN lines} \cup {number}
  <2>1. \A i \in DOMAIN added : i \in 1..Len(lines) \/ i = Len(lines) + 1
    BY <1>3
  <2>2. Len(lines) + 1 \in DOMAIN added /\ \A i \in 1..Len(lines) : i \in DOMAIN added
    BY <1>3
  <2> QED BY <1>1, <1>2, <1>3, <2>1, <2>2
<1>8. \A i, j \in DOMAIN added : i < j /\ added[j].n # File!Torn => added[i].n < added[j].n
  <2> SUFFICES ASSUME NEW i \in DOMAIN added, NEW j \in DOMAIN added, i < j, added[j].n # File!Torn
               PROVE  added[i].n < added[j].n
    BY Zenon
  <2>1. i \in 1..Len(lines)
    BY <1>3
  <2>2. CASE j = Len(lines) + 1
    <3>1. added[j].n = to + 1
      BY <1>1, <1>2, <1>3, <2>2, Zenon
    <3> QED BY <1>3, <1>5, <1>6, <2>1, <3>1
  <2>3. CASE j # Len(lines) + 1
    <3>1. j \in 1..Len(lines)
      BY <1>3, <2>3, SMTT(60)
    <3> QED BY <1>3, <2>1, <3>1, Zenon DEF File!Holds
  <2> QED BY <2>2, <2>3, Zenon
<1>9. number = File!Torn => File!Holds(added, from, to)
  BY <1>7, <1>8, Zenon DEF File!Holds
<1>10. number = to + 1 => File!Holds(added, from, to + 1)
  <2> SUFFICES ASSUME number = to + 1
               PROVE  {added[i].n : i \in DOMAIN added} \ {File!Torn} = (from + 1)..(to + 1)
    BY <1>8 DEF File!Holds
  <2>1. to + 1 # File!Torn
    BY DEF File!Torn
  <2>2. (from + 1)..(to + 1) = ((from + 1)..to) \cup {to + 1}
    OBVIOUS
  <2> QED BY <1>7, <2>1, <2>2, Zenon DEF File!Holds
<1> QED BY <1>3, <1>4, <1>9, <1>10, Zenon

(* Both files are empty at the start.                                      *)
LEMMA FileStarts == FileAssumption /\ File!Init => FileInv
BY Empty DEF FileAssumption, File!Init, FileInv, File!LogIsTail

(* What rotation leaves: the accepted lines in two files, the file within  *)
(* its limit if the line that comes is added to it.                        *)
Rotated(r, bytes) ==
    /\ r.path \in Lines /\ r.rotated \in Lines
    /\ r.handle \in {"open", "closed"} /\ r.size \in Nat
    /\ r.handle = "open" => /\ r.size = File!Bytes(r.path)
                            /\ rotateMaxBytes > 0 /\ r.path # << >> =>
                                  r.size + bytes <= rotateMaxBytes
    /\ \E from \in 0..written : \E middle \in from..written :
          /\ File!Holds(r.rotated, from, middle)
          /\ File!Holds(r.path, middle, written)
          /\ from > 0 => \E last \in Sizes : File!Bytes(r.rotated) + last > rotateMaxBytes
    /\ \A lines \in {r.path, r.rotated} :
          rotateMaxBytes > 0 /\ Len(lines) > 1 => File!Bytes(lines) <= rotateMaxBytes

(* Whichever call fails, the lines are in the two files.                   *)
LEMMA RotationKeeps ==
    ASSUME FileAssumption, FileInv, NEW bytes \in Sizes, NEW fails, NEW r,
           r = File!rotateIfNeeded(bytes, fails)
    PROVE  Rotated(r, bytes)
<1>0. bytes \in Nat
  BY DEF FileAssumption
<1>1. PICK from \in 0..written : \E middle \in from..written :
          /\ File!Holds(rotated, from, middle)
          /\ File!Holds(path, middle, written)
          /\ from > 0 => \E last \in Sizes : File!Bytes(rotated) + last > rotateMaxBytes
  BY SMTT(60) DEF FileInv, File!LogIsTail
<1>2. PICK middle \in from..written :
          /\ File!Holds(rotated, from, middle)
          /\ File!Holds(path, middle, written)
          /\ from > 0 => \E last \in Sizes : File!Bytes(rotated) + last > rotateMaxBytes
  BY <1>1, Zenon
<1>3. CASE r = [path |-> path, rotated |-> rotated, handle |-> handle, size |-> size]
           /\ (~File!full(bytes) \/ handle = "closed")
  <2>1. r.path = path /\ r.rotated = rotated /\ r.handle = handle /\ r.size = size
    BY <1>3
  <2>2. handle = "open" /\ rotateMaxBytes > 0 => size + bytes <= rotateMaxBytes
    BY <1>0, <1>3 DEF File!full, FileInv, FileAssumption
  <2> QED BY <2>1, <2>2, Zenon DEF Rotated, FileInv, File!LogIsTail
<1>4. CASE r = [path |-> path, rotated |-> rotated, handle |-> "closed", size |-> size]
  <2>1. r.path = path /\ r.rotated = rotated /\ r.handle = "closed" /\ r.size = size
    BY <1>4
  <2> QED BY <2>1, Zenon DEF Rotated, FileInv, File!LogIsTail
<1>5. CASE /\ \E h \in {"open", "closed"}, n \in {0, size} :
                  /\ r = [path |-> << >>, rotated |-> path, handle |-> h, size |-> n]
                  /\ h = "open" => n = 0
           /\ File!full(bytes) /\ handle # "closed"
  <2>1. PICK h \in {"open", "closed"}, n \in {0, size} :
                  /\ r = [path |-> << >>, rotated |-> path, handle |-> h, size |-> n]
                  /\ h = "open" => n = 0
    BY <1>5
  <2>2. r.path = << >> /\ r.rotated = path /\ r.handle = h /\ r.size = n
    BY <2>1
  <2>3. File!Bytes(path) + bytes > rotateMaxBytes
    BY <1>5 DEF File!full, FileInv
  <2>4. written \in Nat /\ middle \in 0..written /\ written \in middle..written
    BY SMTT(60) DEF FileInv
  <2>5. File!Holds(r.path, written, written) /\ File!Holds(r.rotated, middle, written)
    BY <1>2, <2>2, <2>4, Empty, Zenon
  <2>6. \E last \in Sizes : File!Bytes(r.rotated) + last > rotateMaxBytes
    BY <2>2, <2>3, Zenon
  <2>7. \A lines \in {r.path, r.rotated} :
            rotateMaxBytes > 0 /\ Len(lines) > 1 => File!Bytes(lines) <= rotateMaxBytes
    BY <2>2 DEF FileInv, File!LogIsTail
  <2>8. r.path \in Lines /\ r.rotated \in Lines /\ r.size \in Nat
    BY <2>2, Empty DEF FileInv
  <2>9. r.handle = "open" => r.size = File!Bytes(r.path)
    BY <2>1, <2>2, Empty, Zenon
  <2> QED BY <2>2, <2>4, <2>5, <2>6, <2>7, <2>8, <2>9, ZenonT(60) DEF Rotated
<1>6. CASE ~File!full(bytes) \/ handle = "closed"
  <2>1. r = File!Kept
    BY <1>6 DEF File!rotateIfNeeded
  <2> QED BY <1>3, <1>6, <2>1 DEF File!Kept
<1>7. CASE File!full(bytes) /\ handle # "closed" /\ fails = "rename"
  <2>1. r = [File!Kept EXCEPT !.handle = "closed"]
    BY <1>7, Zenon DEF File!rotateIfNeeded
  <2> QED BY <1>4, <2>1 DEF File!Kept
<1>8. CASE File!full(bytes) /\ handle # "closed" /\ fails = "open"
  <2>1. r = [File!Kept EXCEPT !.handle = "closed", !.path = << >>, !.rotated = path]
    BY <1>8 DEF File!rotateIfNeeded
  <2>2. r = [path |-> << >>, rotated |-> path, handle |-> "closed", size |-> size]
    BY <2>1, Zenon DEF File!Kept
  <2> QED BY <1>5, <1>8, <2>2
<1>9. CASE File!full(bytes) /\ handle # "closed" /\ fails \notin {"rename", "open"}
  <2>1. r = [path |-> << >>, rotated |-> path, handle |-> "open", size |-> 0]
    BY <1>9 DEF File!rotateIfNeeded
  <2> QED BY <1>5, <1>9, <2>1
<1> QED BY <1>6, <1>7, <1>8, <1>9, Zenon

(* What a write adds to them.                                              *)
LEMMA WriteKeeps ==
    ASSUME FileAssumption, FileInv, NEW bytes \in Sizes, NEW fails, File!write(bytes, fails)
    PROVE  FileInv'
<1>1. PICK r : r = File!rotateIfNeeded(bytes, fails)
  OBVIOUS
<1>2. Rotated(r, bytes)
  BY <1>1, RotationKeeps, Zenon
<1>3. /\ rotated' = r.rotated /\ handle' = r.handle
      /\ \/ path' = r.path /\ size' = r.size /\ written' = written
         \/ /\ r.handle = "open"
            /\ \/ File!Appended(r, File!Torn, 1) /\ written' = written
               \/ File!Appended(r, written + 1, bytes) /\ written' = written + 1
  BY <1>1 DEF File!write
<1>4. written \in Nat /\ bytes \in Nat \ {0} /\ rotateMaxBytes \in Int
  BY Zenon DEF FileInv, FileAssumption
<1>5. CASE path' = r.path /\ size' = r.size /\ written' = written
  BY <1>2, <1>3, <1>4, <1>5, Zenon DEF Rotated, FileInv, File!LogIsTail
<1>6. ASSUME r.handle = "open", NEW number \in {File!Torn, written + 1}, NEW n \in 1..bytes,
             File!Appended(r, number, n),
             written' = IF number = File!Torn THEN written ELSE written + 1
      PROVE  FileInv'
  <2>1. PICK from \in 0..written : \E middle \in from..written :
          /\ File!Holds(r.rotated, from, middle)
          /\ File!Holds(r.path, middle, written)
          /\ from > 0 => \E last \in Sizes : File!Bytes(r.rotated) + last > rotateMaxBytes
    BY <1>2, Zenon DEF Rotated
  <2>2. PICK middle \in from..written :
          /\ File!Holds(r.rotated, from, middle)
          /\ File!Holds(r.path, middle, written)
          /\ from > 0 => \E last \in Sizes : File!Bytes(r.rotated) + last > rotateMaxBytes
    BY <2>1, Zenon
  <2>3. /\ r.path \in Lines /\ r.rotated \in Lines /\ r.size = File!Bytes(r.path) /\ r.size \in Nat
        /\ rotateMaxBytes > 0 /\ r.path # << >> => r.size + bytes <= rotateMaxBytes
    BY <1>2, <1>6, ZenonT(60) DEF Rotated
  <2>4. PICK end \in Nat : end = r.size + n
    BY <1>4, <2>3
  <2>5. path' = Append(r.path, File!Line(number, end)) /\ size' = end
    BY <1>6, <2>3, <2>4, Zenon DEF File!Appended
  <2>6. middle \in Nat /\ from \in Nat /\ middle <= written
    BY <1>4, SMTT(60)
  <2>7. /\ path' \in Lines /\ File!Bytes(path') = end /\ Len(path') = Len(r.path) + 1
        /\ number = File!Torn => File!Holds(path', middle, written)
        /\ number = written + 1 => File!Holds(path', middle, written + 1)
    <3>1. PICK added : added = path'
      OBVIOUS
    <3>2. added = Append(r.path, File!Line(number, end))
      BY <2>5, <3>1, Zenon
    <3>3. /\ added \in Lines /\ File!Bytes(added) = end /\ Len(added) = Len(r.path) + 1
          /\ number = File!Torn => File!Holds(added, middle, written)
          /\ number = written + 1 => File!Holds(added, middle, written + 1)
      <4>1. PICK lines \in Lines : lines = r.path
        BY <2>3
      <4>2. PICK to \in Nat : to = written
        BY <1>4, Zenon
      <4>3. File!Holds(lines, middle, to) /\ middle <= to
            /\ number \in Nat /\ (number = File!Torn \/ number = to + 1)
        BY <1>4, <1>6, <2>2, <2>6, <4>1, <4>2 DEF File!Torn
      <4>4. added = Longer(lines, number, end) /\ middle \in Nat
        BY <2>6, <3>2, <4>1, Zenon DEF Longer
      <4>5. /\ added \in Lines /\ File!Bytes(added) = end /\ Len(added) = Len(lines) + 1
            /\ number = File!Torn => File!Holds(added, middle, to)
            /\ number = to + 1 => File!Holds(added, middle, to + 1)
        BY <4>3, <4>4, LineAdded
      <4> QED BY <4>1, <4>2, <4>5, Zenon
    <3> QED BY <3>1, <3>3, Zenon
  <2>8. File!Holds(path', middle, written') /\ written' \in Nat /\ written' >= written
    BY <1>4, <1>6, <2>7
  <2>9. from \in 0..written' /\ middle \in from..written'
    BY <1>4, <2>6, <2>8, SMTT(60)
  <2>10. rotateMaxBytes > 0 /\ Len(path') > 1 => File!Bytes(path') <= rotateMaxBytes
    <3> SUFFICES ASSUME rotateMaxBytes > 0, Len(path') > 1
                 PROVE  end <= rotateMaxBytes
      BY <2>7, Zenon
    <3>1. r.path # << >>
      BY <2>7, SMTT(60)
    <3> QED BY <1>4, <2>3, <2>4, <3>1
  <2>11. rotateMaxBytes > 0 /\ Len(rotated') > 1 => File!Bytes(rotated') <= rotateMaxBytes
    BY <1>2, <1>3, Zenon DEF Rotated
  <2>12. File!LogIsTail'
    BY <1>3, <2>2, <2>8, <2>9, <2>10, <2>11, Zenon DEF File!LogIsTail
  <2> QED BY <1>3, <1>6, <2>3, <2>5, <2>7, <2>8, <2>12, Zenon DEF FileInv
<1>7. written + 1 # File!Torn /\ 1 \in 1..bytes /\ bytes \in 1..bytes
  BY <1>4 DEF File!Torn
<1> QED BY <1>3, <1>5, <1>6, <1>7, Zenon

(* Writes and restarts keep the tail.                                      *)
LEMMA FileStep ==
    ASSUME FileAssumption, FileInv, [File!Next]_(File!vars)  PROVE FileInv'
<1>1. CASE File!Restart
  <2>1. File!Bytes(path) \in Nat
    BY BytesAreNatural DEF FileInv
  <2> QED BY <1>1, <2>1 DEF File!Restart, File!NewFile, FileInv, File!LogIsTail
<1>2. ASSUME NEW bytes \in Sizes, NEW fails, File!Write(bytes, fails)  PROVE FileInv'
  BY <1>2, WriteKeeps, Zenon DEF File!Write
<1>3. CASE UNCHANGED File!vars
  BY <1>3 DEF File!vars, FileInv, File!LogIsTail
<1> QED BY <1>1, <1>2, <1>3, Zenon DEF File!Next

(* For any lines, limit, failing calls and restarts: the two files hold an *)
(* unbroken tail of the accepted lines, within the limit, and once lines   *)
(* were dropped the older one was full to within a line                    *)
(* (internal/output/file.go rotateIfNeeded).                               *)
THEOREM RotationKeepsTheTail ==
    ASSUME FileAssumption
    PROVE  File!Spec => []File!LogIsTail
<1>1. File!Init => FileInv
  BY FileStarts
<1>2. FileInv /\ [File!Next]_(File!vars) => FileInv'
  BY FileStep
<1>3. FileInv => File!LogIsTail
  BY DEF FileInv
<1> QED BY <1>1, <1>2, <1>3, PTL DEF File!Spec
=============================================================================
