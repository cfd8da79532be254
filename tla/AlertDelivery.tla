---------------------------- MODULE AlertDelivery ---------------------------
(***************************************************************************)
(* The way of an alert from the agent's pipeline to the control plane, and *)
(* the agent's shutdown: the source and the consumer of                    *)
(* internal/pipeline, the fleet sink and reporter (cmd/argus/fleet.go,     *)
(* internal/fleet/reporter.go), the report streams and the server handler  *)
(* that stores what arrives (server/api/service.go ReportAlerts).          *)
(*                                                                         *)
(* Every event of the model raises one alert; alerts are numbered in the   *)
(* order of their events.                                                  *)
(***************************************************************************)
EXTENDS Naturals, Sequences, FiniteSets, Functions

CONSTANTS
    BufferSize,     \* capacity of the pipeline's event channel
    QueueDepth,     \* capacity of the reporter's queue
    MaxAlerts,      \* bound: events the source emits
    MaxStreams      \* bound: streams the pump opens

ASSUME DeliveryAssumption ==
    /\ BufferSize \in Nat \ {0}
    /\ QueueDepth \in Nat \ {0}
    /\ MaxAlerts \in Nat
    /\ MaxStreams \in Nat

VARIABLES
    cancelled,  \* ctx of runAgent is done
    source,     \* "run", or "ended" once the event channel is closed
    events,     \* the event channel
    emitted,    \* events emitted so far
    pipe,       \* Pipeline.Run: "run" or "stopped"
    queue,      \* Reporter.queue
    dropped,    \* Reporter.dropped
    reporter,   \* where Reporter.Run is
    streams,    \* every report stream: what is on the wire, what its handler holds
    recorded,   \* alerts the server stored, in order
    broken      \* history: a stream broke

vars == <<cancelled, source, events, emitted, pipe, queue, dropped, reporter,
          streams, recorded, broken>>

None == 0

Init ==
    /\ cancelled = FALSE
    /\ source = "run"
    /\ events = << >>
    /\ emitted = 0
    /\ pipe = "run"
    /\ queue = << >>
    /\ dropped = 0
    /\ reporter = "open"
    /\ streams = << >>
    /\ recorded = << >>
    /\ broken = FALSE

-----------------------------------------------------------------------------
(* SIGINT or SIGTERM.                                                      *)
Signal ==
    /\ ~cancelled
    /\ cancelled' = TRUE
    /\ UNCHANGED <<source, events, emitted, pipe, queue, dropped, reporter, streams,
                   recorded, broken>>

(* Source.Run sends the next event, waiting while the channel is full.     *)
Emit ==
    /\ source = "run"
    /\ emitted < MaxAlerts
    /\ Len(events) < BufferSize
    /\ emitted' = emitted + 1
    /\ events' = Append(events, emitted')
    /\ UNCHANGED <<cancelled, source, pipe, queue, dropped, reporter, streams, recorded, broken>>

(* Source.Run returns: cancelled, or a replay that is exhausted.           *)
SourceEnds ==
    /\ source = "run"
    /\ source' = "ended"
    /\ UNCHANGED <<cancelled, events, emitted, pipe, queue, dropped, reporter, streams,
                   recorded, broken>>

(* Reporter.Enqueue never blocks: a full queue drops the report.           *)
Enqueue(report) ==
    IF Len(queue) < QueueDepth
    THEN queue' = Append(queue, report) /\ UNCHANGED dropped
    ELSE dropped' = dropped + 1 /\ UNCHANGED queue

(* fleetSink.WriteAlert, which cannot fail.                                *)
WriteAlert(alert) == Enqueue(alert)

(* Pipeline.process: its alert goes to the sinks, the fleet sink included. *)
Process ==
    /\ pipe = "run"
    /\ events # << >>
    /\ events' = Tail(events)
    /\ WriteAlert(Head(events))
    /\ UNCHANGED <<cancelled, source, emitted, pipe, reporter, streams, recorded, broken>>

(* A faulty runAgent that leaves the context alone when a replay ends.     *)
PipelineStopsAlone ==
    /\ pipe = "run"
    /\ source = "ended" /\ events = << >>
    /\ pipe' = "stopped"
    /\ UNCHANGED <<cancelled, source, events, emitted, queue, dropped, reporter, streams,
                   recorded, broken>>

(* The channel is closed and empty: Run returns, and runAgent calls stop.  *)
PipelineStops ==
    /\ pipe = "run"
    /\ source = "ended" /\ events = << >>
    /\ pipe' = "stopped"
    /\ cancelled' = TRUE
    /\ UNCHANGED <<source, events, emitted, queue, dropped, reporter, streams, recorded, broken>>

-----------------------------------------------------------------------------
NewStream == [wire |-> << >>, hand |-> None, up |-> TRUE]

Current == streams[Len(streams)]

(* Reporter.Run, at the top of its loop and in pump: open a stream.        *)
Open ==
    /\ reporter = "open"
    /\ \/ /\ cancelled
          /\ reporter' = "flush"
          /\ UNCHANGED streams
       \/ /\ ~cancelled /\ Len(streams) < MaxStreams
          /\ reporter' = "pump"
          /\ streams' = Append(streams, NewStream)
       \/ /\ ~cancelled
          /\ reporter' = "sleep"
          /\ UNCHANGED streams
    /\ UNCHANGED <<cancelled, source, events, emitted, pipe, queue, dropped, recorded, broken>>

(* sleep(ctx, reportReconnectDelay).                                       *)
Sleep ==
    /\ reporter = "sleep"
    /\ reporter' = "open"
    /\ UNCHANGED <<cancelled, source, events, emitted, pipe, queue, dropped, streams,
                   recorded, broken>>

(* A report is put on the wire of the current stream; a stream that broke  *)
(* without the agent noticing yet swallows it.                             *)
Sent(report) ==
    streams' = IF Current.up THEN [streams EXCEPT ![Len(streams)].wire = Append(@, report)]
               ELSE streams

(* pump takes a report off the queue and sends it.                         *)
Pump ==
    /\ reporter = "pump"
    /\ ~cancelled
    /\ queue # << >>
    /\ queue' = Tail(queue)
    /\ Sent(Head(queue))
    /\ UNCHANGED <<cancelled, source, events, emitted, pipe, dropped, reporter, recorded, broken>>

(* Sending fails, because the stream broke or its context was cancelled    *)
(* while select chose the queue: the report in hand is gone.               *)
PumpFails ==
    /\ reporter = "pump"
    /\ cancelled \/ ~Current.up
    /\ queue # << >>
    /\ queue' = Tail(queue)
    /\ reporter' = IF cancelled THEN "open" ELSE "sleep"
    /\ UNCHANGED <<cancelled, source, events, emitted, pipe, dropped, streams, recorded, broken>>

(* select chose ctx.Done.                                                  *)
PumpCancelled ==
    /\ reporter = "pump"
    /\ cancelled
    /\ reporter' = "open"
    /\ UNCHANGED <<cancelled, source, events, emitted, pipe, queue, dropped, streams,
                   recorded, broken>>

(* flushRemaining: nothing to do, a fresh stream, or none to be had.       *)
Flush ==
    /\ reporter = "flush"
    /\ \/ queue # << >> /\ reporter' = "flushing" /\ streams' = Append(streams, NewStream)
       \/ reporter' = "done" /\ UNCHANGED streams
    /\ UNCHANGED <<cancelled, source, events, emitted, pipe, queue, dropped, recorded, broken>>

FlushOne ==
    /\ reporter = "flushing"
    /\ queue # << >>
    /\ queue' = Tail(queue)
    /\ Sent(Head(queue))
    /\ UNCHANGED <<cancelled, source, events, emitted, pipe, dropped, reporter, recorded, broken>>

(* CloseAndRecv on an empty queue waits for the server's acknowledgement.  *)
FlushEnds ==
    /\ reporter = "flushing"
    /\ queue = << >>
    /\ Current.up => Current.wire = << >> /\ Current.hand = None
    /\ reporter' = "done"
    /\ UNCHANGED <<cancelled, source, events, emitted, pipe, queue, dropped, streams,
                   recorded, broken>>

(* flushTimeout, or a stream that broke: a report being sent is gone, and  *)
(* so is what is on the wire.                                              *)
FlushFails ==
    /\ reporter = "flushing"
    /\ queue' = IF queue = << >> THEN queue ELSE Tail(queue)
    /\ streams' = [streams EXCEPT ![Len(streams)].wire = << >>, ![Len(streams)].up = FALSE]
    /\ reporter' = "done"
    /\ UNCHANGED <<cancelled, source, events, emitted, pipe, dropped, recorded, broken>>

-----------------------------------------------------------------------------
(* The network, a server restart, or the cancelled context ends a stream.  *)
Break(s) ==
    /\ streams[s].up
    /\ streams' = [streams EXCEPT ![s].wire = << >>, ![s].up = FALSE]
    /\ broken' = TRUE
    /\ UNCHANGED <<cancelled, source, events, emitted, pipe, queue, dropped, reporter, recorded>>

(* ReportAlerts: stream.Recv ...                                           *)
Recv(s) ==
    /\ streams[s].hand = None
    /\ streams[s].wire # << >>
    /\ streams' = [streams EXCEPT ![s].hand = Head(streams[s].wire), ![s].wire = Tail(@)]
    /\ UNCHANGED <<cancelled, source, events, emitted, pipe, queue, dropped, reporter,
                   recorded, broken>>

(* A faulty handler that keeps the report it stored.                       *)
RecordAlertAgain(s) ==
    /\ streams[s].hand # None
    /\ Len(recorded) < MaxAlerts + 1
    /\ recorded' = Append(recorded, streams[s].hand)
    /\ UNCHANGED <<cancelled, source, events, emitted, pipe, queue, dropped, reporter,
                   streams, broken>>

(* ... and, the stream's identity being authorized, RecordAlert.           *)
RecordAlert(s) ==
    /\ streams[s].hand # None
    /\ recorded' = Append(recorded, streams[s].hand)
    /\ streams' = [streams EXCEPT ![s].hand = None]
    /\ UNCHANGED <<cancelled, source, events, emitted, pipe, queue, dropped, reporter, broken>>

Server == \E s \in DOMAIN streams : Break(s) \/ Recv(s) \/ RecordAlert(s)

Agent == Emit \/ SourceEnds \/ Process \/ PipelineStops

Report ==
    \/ Open \/ Sleep \/ Pump \/ PumpFails \/ PumpCancelled
    \/ Flush \/ FlushOne \/ FlushEnds \/ FlushFails

Next == Signal \/ Agent \/ Report \/ Server

(* A cancelled source returns, the consumer and the reporter keep running. *)
Fairness ==
    /\ WF_vars(cancelled /\ SourceEnds)
    /\ WF_vars(Process) /\ WF_vars(PipelineStops)
    /\ WF_vars(cancelled /\ Report)

Spec == Init /\ [][Next]_vars /\ Fairness

-----------------------------------------------------------------------------
(* Alerts on their way: not yet processed, queued, on a wire or in the     *)
(* hands of a handler.                                                     *)
Underway ==
    Range(events) \cup Range(queue)
    \cup UNION {Range(streams[s].wire) \cup ({streams[s].hand} \ {None}) : s \in DOMAIN streams}

Lost == 1..emitted \ (Range(recorded) \cup Underway)

(* However streams break and are replaced, no alert is stored twice, none  *)
(* that is stored is still on its way, and what comes over the pump's      *)
(* first stream is stored in the order of the events.  As long as no       *)
(* stream broke and nothing was cancelled, every alert that did not arrive *)
(* was dropped by a full queue, and counted.                               *)
StoredOnceInOrder ==
    /\ IsInjective(recorded)
    /\ Range(recorded) \cap Underway = {}
    /\ Len(streams) = 1 =>
          \A i, j \in DOMAIN recorded : i < j => recorded[i] < recorded[j]
    /\ ~broken /\ ~cancelled => Cardinality(Lost) = dropped

(* Shutting down ends: once the signal came or the replay is over, the     *)
(* pipeline stops and the reporter is done, whatever the server does.      *)
ShutdownEnds ==
    (cancelled \/ source = "ended") ~> (pipe = "stopped" /\ reporter = "done")
=============================================================================
