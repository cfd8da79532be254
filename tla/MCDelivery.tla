----------------------------- MODULE MCDelivery -----------------------------
(***************************************************************************)
(* How events and alerts travel: through the agent's pipeline to its       *)
(* sinks, into the log file, Loki and the event lake, from the agent to    *)
(* the control plane, over the in-process event bus, and to the consoles.  *)
(* The parts share no state: part says which one a behaviour is about.     *)
(***************************************************************************)
EXTENDS AlertDelivery

CONSTANTS Publishers, Subscribers

VARIABLES
    part,
    subs, closed, missed, chan, received, publish, next, panicked,
    appended, nextSeq, memory, rows,
    path, rotated, handle, size, offered, accepted, faults,
    values, at, batch, stop, enqueued, pushed, lost, due,
    interrupted, reader, open, sent, taken, pipeline, wrote, holder, blocked,
    age, stalled, watchdog, told

fanoutVars == <<subs, closed, missed, chan, received, publish, next, panicked>>
lakeVars == <<appended, nextSeq, memory, rows>>
fileVars == <<path, rotated, handle, size, offered, accepted, faults>>
lokiVars == <<values, at, batch, stop, enqueued, pushed, lost, due>>
pathVars == <<interrupted, reader, open, sent, taken, pipeline, wrote, holder, blocked,
              age, stalled, watchdog, told>>
mcVars == <<vars, fanoutVars, lakeVars, fileVars, lokiVars, pathVars>>

Bus == INSTANCE EventBus
           WITH Exclusive <- FALSE, Buffer <- 1, MaxEvents <- 3, dropped <- missed

Broadcaster == INSTANCE EventBus
                   WITH Exclusive <- TRUE, Buffer <- 1, MaxEvents <- 3, dropped <- missed

(* Three events with ties; the scan and the limits cut.                    *)
Lake == INSTANCE EventLake WITH Actions <- {"exec", "dns"}, Words <- {"curl", "%"},
            Wildcards <- {"%"}, Times <- 1..2, DefaultLimit <- 3, ScanCap <- 2,
            MaxBatch <- 2, MaxEvents <- 3,
            Queries <- [action : {"", "exec"}, since : {0, 2}, until : {0},
                        contains : {"", "curl", "%"}, limit : {0, 2}, ascending : BOOLEAN]
                       \cup [action : {""}, since : {0}, until : {1},
                             contains : {""}, limit : {0, 2}, ascending : BOOLEAN],
            Hunts <- [class : {"any", "exec"}, word : {"", "curl"}, limit : 0..2]

(* Two lines of one size fill the file, two of the other pass its limit,   *)
(* and a line of the third passes it alone.                                *)
File == INSTANCE FileSink WITH Sizes <- {2, 3, 6}, rotateMaxBytes <- 5,
            MaxLines <- 5, MaxFaults <- 2

Loki == INSTANCE LokiSink WITH Pipeline <- "pipeline", Reporters <- {"watchdog"},
            lokiBatchSize <- 2, MaxDocuments <- 4, accepted <- enqueued

Path == INSTANCE HotPath WITH Readers <- {"sensors"}, NumSinks <- 2,
            BufferSize <- 1, Timeout <- 1, MaxEvents <- 2, MaxBlocked <- 1,
            cancelled <- interrupted

MCInit ==
    /\ part \in {"reports", "bus", "broadcaster", "lake", "file", "loki", "path"}
    /\ Init /\ Bus!Init /\ Lake!Init /\ File!Init /\ Loki!Init
    /\ Path!InitAt(IF part = "path" THEN "receive" ELSE "exited")

MCNext ==
    /\ UNCHANGED part
    /\ \/ /\ part = "reports" /\ Next
          /\ UNCHANGED <<fanoutVars, lakeVars, fileVars, lokiVars, pathVars>>
       \/ /\ part = "bus" /\ Bus!Next
          /\ UNCHANGED <<vars, lakeVars, fileVars, lokiVars, pathVars>>
       \/ /\ part = "broadcaster" /\ Broadcaster!Next
          /\ UNCHANGED <<vars, lakeVars, fileVars, lokiVars, pathVars>>
       \/ /\ part = "lake" /\ Lake!Next
          /\ UNCHANGED <<vars, fanoutVars, fileVars, lokiVars, pathVars>>
       \/ /\ part = "file" /\ File!Next
          /\ UNCHANGED <<vars, fanoutVars, lakeVars, lokiVars, pathVars>>
       \/ /\ part = "loki" /\ Loki!Next
          /\ UNCHANGED <<vars, fanoutVars, lakeVars, fileVars, pathVars>>
       \/ /\ part = "path" /\ Path!Next
          /\ UNCHANGED <<vars, fanoutVars, lakeVars, fileVars, lokiVars>>

(* In a behaviour of another part the fair actions are never enabled.      *)
MCSpec ==
    /\ MCInit /\ [][MCNext]_<<part, mcVars>>
    /\ Fairness /\ Path!Fairness

-----------------------------------------------------------------------------
(* No goroutine ever sends on a channel that was closed, or closes one     *)
(* twice, however subscribers come and go while events are published       *)
(* (inproc.go Publish and remove, stream.go publish and unsubscribe); and  *)
(* the subscribers of the broadcaster see alerts in the same order.        *)
SubscribersAreSafe ==
    /\ part = "bus" => Bus!SubscribersAreSafe
    /\ part = "broadcaster" => Broadcaster!SubscribersAreSafe

(* The memory and the SQLite backend of the lake answer alike, up to ties  *)
(* and wildcards (internal/eventstore), and a simple hunt misses no event  *)
(* it has room for (hunt.go runSimple).                                    *)
LakesAgree == part = "lake" => Lake!LakesAgree /\ Lake!HuntFindsAll

(* Log rotation keeps an unbroken tail of the accepted lines, within its   *)
(* limit and never shorter than it must be (file.go rotateIfNeeded).       *)
LogIsTail == part = "file" => File!LogIsTail

(* Every document the Loki sink accepts is in one place at a time, whoever *)
(* flushes when, and Close drains it (loki.go enqueue, Flush, Close).      *)
EachDocumentOnce == part = "loki" => Loki!EachDocumentOnce

(* A pipeline that a sink blocks for good is reported to the sinks before  *)
(* it (selfprotect.go Kick, checkAt).                                      *)
StallIsReported == part = "path" => Path!StallIsReported

(* Stopping the agent loses no event that reached the channel (pipeline.go *)
(* Run).                                                                   *)
StopDrains == part = "path" => Path!StopDrains
=============================================================================
