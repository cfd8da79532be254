------------------------------ MODULE HotPath -------------------------------
(***************************************************************************)
(* The agent's event path and the watchdog over it.  One goroutine per     *)
(* ring buffer reads and decodes records (bpfloader consume) into a        *)
(* channel; the pipeline (internal/pipeline) takes events from it one by   *)
(* one, kicks the watchdog, and writes each event and what it raised to    *)
(* the sinks in their order, each sink under a mutex of its own.  The      *)
(* watchdog (respond/selfprotect.go) reports a missed heartbeat to those   *)
(* same sinks.  A sink may block its writer (a full pipe, a hung disk).    *)
(*                                                                         *)
(* Enrichment, detection and response happen between kick and output and   *)
(* end by themselves; what a sink does with a document is modelled in      *)
(* FileSink and LokiSink.                                                  *)
(***************************************************************************)
EXTENDS Naturals, FiniteSets

CONSTANTS
    Readers,        \* goroutines running consume
    NumSinks,       \* sinks of the MultiSink, in order
    BufferSize,     \* capacity of the events channel
    Timeout,        \* the watchdog's timeout
    MaxEvents,      \* bound: events sent into the channel
    MaxBlocked      \* bound: sinks blocked at a time

VARIABLES
    cancelled,  \* the agent's context
    reader,     \* "read", "send" or "done", for each reader
    open,       \* the events channel is open
    sent,       \* events sent into it
    taken,      \* events the pipeline took out of it
    pipeline,   \* where the pipeline's goroutine is: [pc, sink, docs]
    wrote,      \* events written with all they raised, for each sink
    holder,     \* who holds the mutex of each sink
    blocked,    \* sinks that block their writer
    age,        \* time since the last kick, up to Timeout
    stalled,    \* Watchdog.stalled
    watchdog,   \* where the watchdog's goroutine is: [pc, sink]
    told        \* history: sinks that got a stall finding since the last kick

sourceVars == <<cancelled, reader, open, sent>>
watchVars == <<age, stalled, watchdog, told>>
vars == <<sourceVars, taken, pipeline, wrote, holder, blocked, watchVars>>

Sinks == 1..NumSinks

At(pc) == [pc |-> pc, sink |-> 1, docs |-> 0]

InitAt(pc) ==
    /\ cancelled = FALSE
    /\ reader = [r \in Readers |-> "read"]
    /\ open = TRUE
    /\ sent = 0 /\ taken = 0
    /\ pipeline = At(pc)
    /\ wrote = [k \in Sinks |-> 0]
    /\ holder = [k \in Sinks |-> "nobody"]
    /\ blocked = {}
    /\ age = 0
    /\ stalled = FALSE
    /\ watchdog = At("wait")
    /\ told = {}

Init == InitAt("receive")

-----------------------------------------------------------------------------
(* A signal cancels the context, which closes the ring buffer readers.     *)
Cancel ==
    /\ ~cancelled
    /\ cancelled' = TRUE
    /\ UNCHANGED <<reader, open, sent, taken, pipeline, wrote, holder, blocked, watchVars>>

(* consume: Read returns a record (one that does not decode is skipped),   *)
(* or, once the context is cancelled, the error that ends the loop.        *)
Read(r) ==
    /\ reader[r] = "read"
    /\ \/ reader' = [reader EXCEPT ![r] = "send"]
       \/ cancelled /\ reader' = [reader EXCEPT ![r] = "done"]
    /\ UNCHANGED <<cancelled, open, sent, taken, pipeline, wrote, holder, blocked, watchVars>>

(* The select: the send goes through, or the context is cancelled; when    *)
(* both are possible, either.                                              *)
Send(r) ==
    /\ reader[r] = "send"
    /\ \/ /\ sent - taken < BufferSize /\ sent < MaxEvents
          /\ sent' = sent + 1
          /\ reader' = [reader EXCEPT ![r] = "read"]
       \/ /\ cancelled
          /\ reader' = [reader EXCEPT ![r] = "done"]
          /\ UNCHANGED sent
    /\ UNCHANGED <<cancelled, open, taken, pipeline, wrote, holder, blocked, watchVars>>

(* EBPFSource.Run has waited for its readers; Pipeline.Run closes events.  *)
SourceEnds ==
    /\ open
    /\ \A r \in Readers : reader[r] = "done"
    /\ open' = FALSE
    /\ UNCHANGED <<cancelled, reader, sent, taken, pipeline, wrote, holder, blocked, watchVars>>

-----------------------------------------------------------------------------
(* A faulty loop of Run that stops as soon as the channel is closed.       *)
ReceiveUntilClosed ==
    /\ pipeline.pc = "receive"
    /\ \/ /\ open /\ taken < sent
          /\ taken' = taken + 1
          /\ pipeline' = At("kick")
       \/ /\ ~open
          /\ pipeline' = At("flush")
          /\ UNCHANGED taken
    /\ UNCHANGED <<sourceVars, wrote, holder, blocked, watchVars>>

(* The loop of Run: the next event, or Sink.Flush when the channel is      *)
(* closed and empty.                                                       *)
Receive ==
    /\ pipeline.pc = "receive"
    /\ \/ /\ taken < sent
          /\ taken' = taken + 1
          /\ pipeline' = At("kick")
       \/ /\ ~open /\ taken = sent
          /\ pipeline' = At("flush")
          /\ UNCHANGED taken
    /\ UNCHANGED <<sourceVars, wrote, holder, blocked, watchVars>>

(* Kick stores the time, ...                                               *)
Kick ==
    /\ pipeline.pc = "kick"
    /\ pipeline' = At("recover")
    /\ age' = 0
    /\ told' = {}
    /\ UNCHANGED <<sourceVars, taken, wrote, holder, blocked, stalled, watchdog>>

(* A faulty Kick that does nothing else.                                   *)
RecoverNever ==
    /\ pipeline.pc = "recover"
    /\ \E docs \in 1..2 : pipeline' = [At("write") EXCEPT !.docs = docs]
    /\ UNCHANGED <<sourceVars, taken, wrote, holder, blocked, watchVars>>

(* ... then clears the flag.  The event is enriched, scored, evaluated and *)
(* answered; it and the alert it may have raised go to the sinks.          *)
Recover ==
    /\ pipeline.pc = "recover"
    /\ stalled' = FALSE
    /\ \E docs \in 1..2 : pipeline' = [At("write") EXCEPT !.docs = docs]
    /\ UNCHANGED <<sourceVars, taken, wrote, holder, blocked, age, watchdog, told>>

(* A sink locks its mutex, ...                                             *)
Lock(g, k) ==
    /\ holder[k] = "nobody"
    /\ holder' = [holder EXCEPT ![k] = g]

(* ... and unlocks it when the write returns.                              *)
Unlock(g, k) ==
    /\ holder[k] = g
    /\ k \notin blocked
    /\ holder' = [holder EXCEPT ![k] = "nobody"]

PipelineLocks ==
    /\ pipeline.pc \in {"write", "flush"}
    /\ Lock("pipeline", pipeline.sink)
    /\ UNCHANGED <<sourceVars, taken, pipeline, wrote, blocked, watchVars>>

(* MultiSink: the next sink; after the last one the next document, and     *)
(* after the last document the next event.  A flush ends Run.              *)
PipelineUnlocks ==
    LET k == pipeline.sink IN
    /\ pipeline.pc \in {"write", "flush"}
    /\ Unlock("pipeline", k)
    /\ pipeline' =
          CASE k < NumSinks          -> [pipeline EXCEPT !.sink = k + 1]
            [] pipeline.pc = "flush" -> At("exited")
            [] pipeline.docs > 1     -> [pipeline EXCEPT !.sink = 1, !.docs = @ - 1]
            [] OTHER                 -> At("receive")
    /\ wrote' = IF pipeline.pc = "write" /\ pipeline.docs = 1
                THEN [wrote EXCEPT ![k] = @ + 1] ELSE wrote
    /\ UNCHANGED <<sourceVars, taken, blocked, watchVars>>

(* The other end of a sink stops taking data, or takes it again.           *)
Block(k) ==
    /\ Cardinality(blocked \cup {k}) <= MaxBlocked
    /\ blocked' = IF k \in blocked THEN blocked \ {k} ELSE blocked \cup {k}
    /\ UNCHANGED <<sourceVars, taken, pipeline, wrote, holder, watchVars>>

-----------------------------------------------------------------------------
Pass ==
    /\ age < Timeout
    /\ age' = age + 1
    /\ UNCHANGED <<sourceVars, taken, pipeline, wrote, holder, blocked, stalled, watchdog, told>>

(* Watchdog.Run: a tick loads the last kick (checkAt), or the context ends *)
(* the loop; when both are ready, either.                                  *)
Tick ==
    /\ watchdog.pc = "wait"
    /\ \/ cancelled /\ watchdog' = At("done")
       \/ age >= Timeout /\ watchdog' = At("stall")
    /\ UNCHANGED <<sourceVars, taken, pipeline, wrote, holder, blocked, age, stalled, told>>

(* checkAt: the first to notice reports.                                   *)
Stall ==
    /\ watchdog.pc = "stall"
    /\ stalled' = TRUE
    /\ watchdog' = IF stalled THEN At("wait") ELSE At("report")
    /\ UNCHANGED <<sourceVars, taken, pipeline, wrote, holder, blocked, age, told>>

(* The finding goes to the sinks, as any alert does.                       *)
WatchdogLocks ==
    /\ watchdog.pc = "report"
    /\ Lock("watchdog", watchdog.sink)
    /\ UNCHANGED <<sourceVars, taken, pipeline, wrote, blocked, watchVars>>

WatchdogUnlocks ==
    LET k == watchdog.sink IN
    /\ watchdog.pc = "report"
    /\ Unlock("watchdog", k)
    /\ told' = told \cup {k}
    /\ watchdog' = IF k < NumSinks THEN [watchdog EXCEPT !.sink = k + 1] ELSE At("wait")
    /\ UNCHANGED <<sourceVars, taken, pipeline, wrote, blocked, age, stalled>>

-----------------------------------------------------------------------------
Pipeline == Receive \/ Kick \/ Recover \/ PipelineLocks \/ PipelineUnlocks
Watchdog == Tick \/ Stall \/ WatchdogLocks \/ WatchdogUnlocks

Alive == pipeline.pc # "exited"

Next ==
    /\ Alive
    /\ \/ Cancel
       \/ \E r \in Readers : Read(r) \/ Send(r)
       \/ SourceEnds
       \/ Pipeline
       \/ Pass
       \/ Watchdog
       \/ \E k \in Sinks : Block(k)

(* Goroutines that can run do, and the clock goes on.  The readers need no *)
(* event, but notice the end of the context.  A mutex goes to each that    *)
(* waits for it in the end (sync.Mutex hands it over to a starving one).   *)
Fairness ==
    /\ \A r \in Readers : WF_vars(Alive /\ cancelled /\ (Read(r) \/ Send(r)))
    /\ WF_vars(Alive /\ SourceEnds)
    /\ WF_vars(Receive \/ Kick \/ Recover \/ PipelineUnlocks)
    /\ SF_vars(PipelineLocks)
    /\ WF_vars(Alive /\ Pass)
    /\ WF_vars(Alive /\ (Tick \/ Stall \/ WatchdogUnlocks))
    /\ SF_vars(Alive /\ WatchdogLocks)

-----------------------------------------------------------------------------
Wedged(k) == k \in blocked /\ holder[k] = "pipeline"

(* selfprotect.go: "if no kick arrives within timeout the path is wedged   *)
(* (a deadlock or a blocked sink), and the watchdog reports once until it  *)
(* recovers".  When a sink blocks the pipeline for good, every sink before *)
(* it in the list gets a finding after the last kick, however ticks, kicks *)
(* and earlier findings interleave, unless the watchdog is itself waiting  *)
(* for the blocked sink with an earlier finding.  The blocked sink and the *)
(* sinks after it get nothing.                                             *)
StallIsReported ==
    \A k \in 2..NumSinks :
        <>[](~cancelled /\ Wedged(k) /\ blocked = {k}) =>
            <>[](1..(k - 1) \subseteq told
                 \/ (watchdog.pc = "report" /\ watchdog.sink = k))

(* Stopping loses no event that reached the channel: once cancelled, the   *)
(* agent exits with all of them written to every sink, unless one blocks   *)
(* (Run drains the closed channel before it flushes).                      *)
StopDrains ==
    cancelled ~> \/ blocked # {}
                 \/ pipeline.pc = "exited" /\ \A k \in Sinks : wrote[k] = sent
=============================================================================
