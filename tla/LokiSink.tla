------------------------------ MODULE LokiSink ------------------------------
(***************************************************************************)
(* The Loki sink (internal/output/loki.go): writers append documents to a  *)
(* batch under a mutex, and whoever finds the batch full pushes it; a      *)
(* background flusher pushes what is there on a ticker, and once more when *)
(* the sink closes.  Pushes happen outside the mutex, so several may be on *)
(* their way at once.  A push that fails is given up: its batch is lost.   *)
(*                                                                         *)
(* The writers are the pipeline's goroutine and the self-protection        *)
(* goroutines that report through the same sink (cmd/argus/run.go); the    *)
(* pipeline's own flushes the sink when the source ends and then closes it.*)
(***************************************************************************)
EXTENDS Naturals, Sequences, Functions

CONSTANTS
    Pipeline,           \* the pipeline's goroutine
    Reporters,          \* the other goroutines that write
    lokiBatchSize,
    MaxDocuments        \* bound: documents written

Flusher == "flusher"

Writers == {Pipeline} \cup Reporters

VARIABLES
    values,     \* LokiSink.values
    at,         \* where each goroutine is
    batch,      \* the batch each goroutine is pushing
    stop,       \* the channel stop is closed
    accepted,   \* history: documents enqueued
    pushed,     \* history: documents that arrived
    lost,       \* history: documents of a push that failed
    due         \* history: documents accepted when Close was called

vars == <<values, at, batch, stop, accepted, pushed, lost, due>>

Init ==
    /\ values = << >>
    /\ at = [g \in Writers \cup {Flusher} |-> "ready"]
    /\ batch = [g \in Writers \cup {Flusher} |-> << >>]
    /\ stop = FALSE
    /\ accepted = 0
    /\ pushed = {}
    /\ lost = {}
    /\ due = 0

(* enqueue, under the mutex; who fills the batch goes on to Flush.         *)
enqueue(w) ==
    /\ at[w] = "ready"
    /\ accepted < MaxDocuments
    /\ accepted' = accepted + 1
    /\ values' = Append(values, accepted')
    /\ at' = [at EXCEPT ![w] = IF Len(values') >= lokiBatchSize THEN "flush" ELSE "ready"]
    /\ UNCHANGED <<batch, stop, pushed, lost, due>>

(* The flusher's select: a tick, or the closed channel; both may be ready. *)
flushLoop ==
    /\ at[Flusher] = "ready"
    /\ \E next \in {"flush"} \cup (IF stop THEN {"last flush"} ELSE {}) :
          at' = [at EXCEPT ![Flusher] = next]
    /\ UNCHANGED <<values, batch, stop, accepted, pushed, lost, due>>

(* Where Flush returns to.                                                 *)
After(g) ==
    CASE at[g] \in {"last flush", "last push"} -> "done"
      [] at[g] \in {"end flush", "end push"}   -> "close"
      [] OTHER -> "ready"

Pushing(g) ==
    CASE at[g] = "last flush" -> "last push"
      [] at[g] = "end flush"  -> "end push"
      [] OTHER -> "push"

(* A faulty Flush that leaves the batch in place until it is delivered.    *)
FlushInPlace(g) ==
    /\ at[g] \in {"flush", "last flush", "end flush"}
    /\ IF values = << >>
       THEN /\ at' = [at EXCEPT ![g] = After(g)]
            /\ UNCHANGED batch
       ELSE /\ at' = [at EXCEPT ![g] = Pushing(g)]
            /\ batch' = [batch EXCEPT ![g] = values]
    /\ UNCHANGED <<values, stop, accepted, pushed, lost, due>>

(* Flush takes the batch, under the mutex, ...                             *)
Flush(g) ==
    /\ at[g] \in {"flush", "last flush", "end flush"}
    /\ IF values = << >>
       THEN /\ at' = [at EXCEPT ![g] = After(g)]
            /\ UNCHANGED <<values, batch>>
       ELSE /\ at' = [at EXCEPT ![g] = Pushing(g)]
            /\ batch' = [batch EXCEPT ![g] = values]
            /\ values' = << >>
    /\ UNCHANGED <<stop, accepted, pushed, lost, due>>

(* ... and push posts it, for at most lokiTimeout.                         *)
push(g, ok) ==
    /\ at[g] \in {"push", "last push", "end push"}
    /\ at' = [at EXCEPT ![g] = After(g)]
    /\ batch' = [batch EXCEPT ![g] = << >>]
    /\ pushed' = IF ok THEN pushed \cup Range(batch[g]) ELSE pushed
    /\ lost' = IF ok THEN lost ELSE lost \cup Range(batch[g])
    /\ UNCHANGED <<values, stop, accepted, due>>

(* Pipeline.Run, once the source has ended: Sink.Flush.                    *)
SourceEnds ==
    /\ at[Pipeline] = "ready"
    /\ at' = [at EXCEPT ![Pipeline] = "end flush"]
    /\ UNCHANGED <<values, batch, stop, accepted, pushed, lost, due>>

(* runAgent returns: Close, which waits for the flusher.                   *)
Close ==
    /\ at[Pipeline] = "close"
    /\ stop' = TRUE
    /\ due' = accepted
    /\ at' = [at EXCEPT ![Pipeline] = "waiting"]
    /\ UNCHANGED <<values, batch, accepted, pushed, lost>>

Exit ==
    /\ at[Pipeline] = "waiting"
    /\ at[Flusher] = "done"
    /\ at' = [at EXCEPT ![Pipeline] = "exited"]
    /\ UNCHANGED <<values, batch, stop, accepted, pushed, lost, due>>

Running(g) == Flush(g) \/ \E ok \in BOOLEAN : push(g, ok)

(* When the pipeline's goroutine has left main, nothing else runs.         *)
Next ==
    /\ at[Pipeline] # "exited"
    /\ \/ \E w \in Writers : enqueue(w)
       \/ flushLoop
       \/ \E g \in Writers \cup {Flusher} : Running(g)
       \/ SourceEnds \/ Close \/ Exit

Spec == Init /\ [][Next]_vars

-----------------------------------------------------------------------------
Batches == {values} \cup {batch[g] : g \in DOMAIN batch}

(* Every document is in exactly one place, whoever flushes when: in the    *)
(* batch being filled, on its way, arrived or lost; each batch keeps the   *)
(* order of its documents; and when Close returns, what was enqueued       *)
(* before it has left the sink or is in the hands of another writer that   *)
(* is pushing it (loki.go enqueue, Flush, Close).                          *)
EachDocumentOnce ==
    /\ pushed \cup lost \cup UNION {Range(b) : b \in Batches} = 1..accepted
    /\ pushed \cap lost = {}
    /\ \A b \in Batches : Range(b) \cap (pushed \cup lost) = {}
    /\ \A g \in DOMAIN batch :
          /\ Range(batch[g]) \cap Range(values) = {}
          /\ \A h \in DOMAIN batch \ {g} : Range(batch[g]) \cap Range(batch[h]) = {}
    /\ \A b \in Batches : \A i \in 2..Len(b) : b[i - 1] < b[i]
    /\ at[Pipeline] = "exited" =>
          \A b \in {values, batch[Flusher]} : \A i \in DOMAIN b : b[i] > due
=============================================================================
