------------------------------ MODULE EventBus ------------------------------
(***************************************************************************)
(* Fan-out to subscribers that may be slow or leave at any time: the event *)
(* bus (internal/bus/inproc.go) and the console's broadcaster              *)
(* (cmd/argus-server/stream.go).  They differ in their lock: publishers of *)
(* the bus share it, publishers of the broadcaster exclude each other; and *)
(* only the bus can be closed and counts what it drops.                    *)
(*                                                                         *)
(* A channel is what it buffers and whether it is closed.  Sending on a    *)
(* closed channel, or closing one twice, panics.                           *)
(***************************************************************************)
EXTENDS Naturals, Sequences

CONSTANTS
    Publishers,
    Subscribers,    \* subscriptions, each taken at most once
    Exclusive,      \* TRUE: broadcaster; FALSE: bus
    Buffer,         \* capacity of a subscriber's channel
    MaxEvents       \* bound: events published

VARIABLES
    subs,       \* the subscriptions in the map
    closed,     \* InProc.closed
    dropped,    \* InProc.dropped
    chan,       \* [Subscribers -> [buf, state]], state "none" before Subscribe
    received,   \* what each subscriber has read
    publish,    \* [Publishers -> the event being published and who is left]
    next,       \* the next event
    panicked

vars == <<subs, closed, dropped, chan, received, publish, next, panicked>>

Resting == [event |-> 0, left |-> {}]

(* A subscription has a channel once it is taken.                          *)
Init ==
    /\ subs = {}
    /\ closed = FALSE
    /\ dropped = 0
    /\ chan = [s \in Subscribers |-> [buf |-> << >>, state |-> "none"]]
    /\ received = [s \in Subscribers |-> << >>]
    /\ publish = [p \in Publishers |-> Resting]
    /\ next = 1
    /\ panicked = FALSE

(* The write lock is free when nobody publishes; a publisher of the        *)
(* broadcaster needs it, one of the bus only the read lock.                *)
Unlocked == \A p \in Publishers : publish[p] = Resting

-----------------------------------------------------------------------------
(* Publish: a closed bus refuses; else each subscriber in turn, in the     *)
(* order the map is walked.                                                *)
Publish(p) ==
    /\ publish[p] = Resting
    /\ Exclusive => Unlocked
    /\ next <= MaxEvents
    /\ next' = next + 1
    /\ publish' = [publish EXCEPT ![p] = IF closed THEN Resting
                                         ELSE [event |-> next, left |-> subs]]
    /\ UNCHANGED <<subs, closed, dropped, chan, received, panicked>>

Remaining(p, s) ==
    IF publish[p].left = {s} THEN Resting ELSE [publish[p] EXCEPT !.left = @ \ {s}]

(* The non-blocking send: a full buffer drops the event.                   *)
Send(p, s) ==
    /\ s \in publish[p].left
    /\ publish' = [publish EXCEPT ![p] = Remaining(p, s)]
    /\ IF chan[s].state = "closed"
       THEN panicked' = TRUE /\ UNCHANGED <<chan, dropped>>
       ELSE /\ UNCHANGED panicked
            /\ IF Len(chan[s].buf) < Buffer
               THEN chan' = [chan EXCEPT ![s].buf = Append(@, publish[p].event)] /\ UNCHANGED dropped
               ELSE dropped' = dropped + 1 /\ UNCHANGED chan
    /\ UNCHANGED <<subs, closed, received, next>>

(* A publisher with no subscribers has nothing to send.                    *)
PublishNobody(p) ==
    /\ publish[p].event # 0
    /\ publish[p].left = {}
    /\ publish' = [publish EXCEPT ![p] = Resting]
    /\ UNCHANGED <<subs, closed, dropped, chan, received, next, panicked>>

Subscribe(s) ==
    /\ Unlocked
    /\ chan[s].state = "none"
    /\ subs' = subs \cup {s}
    /\ chan' = [chan EXCEPT ![s].state = "open"]
    /\ UNCHANGED <<closed, dropped, received, publish, next, panicked>>

ClosedAll(set) ==
    [s \in Subscribers |-> IF s \in set THEN [chan[s] EXCEPT !.state = "closed"] ELSE chan[s]]

(* A faulty remove that does not wait for the lock.                        *)
UnsubscribeUnlocked(s) ==
    /\ s \in subs
    /\ subs' = subs \ {s}
    /\ chan' = ClosedAll({s})
    /\ UNCHANGED <<closed, dropped, received, publish, next, panicked>>

(* remove: only the one that takes it out of the map closes the channel.   *)
Unsubscribe(s) ==
    /\ Unlocked
    /\ s \in subs
    /\ subs' = subs \ {s}
    /\ chan' = ClosedAll({s})
    /\ panicked' = (panicked \/ chan[s].state = "closed")
    /\ UNCHANGED <<closed, dropped, received, publish, next>>

Close ==
    /\ ~Exclusive /\ Unlocked /\ ~closed
    /\ closed' = TRUE
    /\ subs' = {}
    /\ chan' = ClosedAll(subs)
    /\ panicked' = (panicked \/ \E s \in subs : chan[s].state = "closed")
    /\ UNCHANGED <<dropped, received, publish, next>>

Receive(s) ==
    /\ chan[s].buf # << >>
    /\ received' = [received EXCEPT ![s] = Append(@, Head(chan[s].buf))]
    /\ chan' = [chan EXCEPT ![s].buf = Tail(@)]
    /\ UNCHANGED <<subs, closed, dropped, publish, next, panicked>>

Next ==
    \/ \E p \in Publishers :
          Publish(p) \/ PublishNobody(p) \/ \E s \in Subscribers : Send(p, s)
    \/ \E s \in Subscribers : Subscribe(s) \/ Unsubscribe(s) \/ Receive(s)
    \/ Close

Spec == Init /\ [][Next]_vars

-----------------------------------------------------------------------------
Got(s) == received[s] \o chan[s].buf

(* No goroutine ever sends on a channel that was closed, or closes one     *)
(* twice, however subscribers come and go while events are published.      *)
NoPanic == ~panicked

(* The subscribers of the broadcaster see alerts in the same order: two    *)
(* consoles never disagree about which of two alerts came first.           *)
SameOrder ==
    Exclusive =>
        \A s, t \in Subscribers :
            \A i, j \in DOMAIN Got(s) : \A k, l \in DOMAIN Got(t) :
                (Got(s)[i] = Got(t)[k] /\ Got(s)[j] = Got(t)[l] /\ i < j) => k < l

(* Both: whoever subscribes, unsubscribes or stops reading meanwhile,      *)
(* publishing is safe, and consoles tell the same story.                   *)
SubscribersAreSafe == NoPanic /\ SameOrder
=============================================================================
