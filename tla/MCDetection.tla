----------------------------- MODULE MCDetection -----------------------------
(***************************************************************************)
(* From the kernel to an incident, in parts that share no state: the       *)
(* configuration that every part trusts ("config"); the hooks that enforce *)
(* ("guard"), with the agent and two other processes; the event slot that  *)
(* all sensors use ("slot") and the arguments that wait for an exec event  *)
(* ("argv"); the lifecycle sensors that feed the process tree ("tree");    *)
(* and the two correlators, with timestamps in order and late.             *)
(***************************************************************************)
EXTENDS KernelGuard, Integers

CONSTANTS None, MaxId, Names, maxDepth, MaxEvents, MaxDrops

VARIABLES
    part, clock, now,
    task, procs, last, keys, threaded, dropped, blocked, stale,
    states, ideal, incident, expected, inserted, opened,
    byTechnique, byDest, lastSweep, signals, seen, raised,
    scratch, argv_cache, calling, tried, event,
    file, edits, agent

treeVars == <<clock, task, procs, last, keys, threaded, dropped, blocked, stale>>
processVars == <<states, ideal, incident, expected, inserted, opened>>
hostVars == <<byTechnique, byDest, lastSweep, signals, seen, raised>>
correlatorVars == <<now, processVars, hostVars>>
sensorVars == <<scratch, argv_cache, calling, tried, event>>

configVars == <<file, edits, agent>>

(* An empty file, and one that turns everything on; each value at the edge *)
(* of what its check accepts, and two keys changed.                        *)
Setup == INSTANCE Config WITH
            Files <- {<< >>,
                      [source |-> "replay", replay_file |-> "set", mode |-> "enforce",
                       fleet |-> TRUE, server_address |-> "set", server_name |-> "set",
                       ca_file |-> "set", cert_file |-> "set", key_file |-> "set",
                       intel |-> TRUE, feeds |-> <<"set">>, anomaly |-> TRUE, baseline_file |-> "set",
                       yara |-> TRUE, yara_dir |-> "set", metrics |-> TRUE]},
            Values <-
                [log_level |-> {"debug", "loud"}, source |-> {"ebpf", "replay", "other"},
                 replay_file |-> {"", "set"}, ring_buffer_bytes |-> {0, 1},
                 correlation |-> BOOLEAN, incident_threshold |-> {0, 1},
                 mode |-> {"", "off", "dry-run", "enforce", "other"},
                 max_mode |-> {"", "off", "dry-run", "enforce", "other"},
                 cred_readers |-> {<< >>, <<0>>, <<15>>, <<16>>, <<4, 17>>},
                 self_protection |-> BOOLEAN, integrity_seconds |-> {-1, 0, 1},
                 watchdog_seconds |-> {-1, 0, 1}, fleet |-> BOOLEAN, key_file |-> {"", "set"},
                 heartbeat_seconds |-> {-1, 0, 1}, intel |-> BOOLEAN, feeds |-> {<< >>},
                 anomaly |-> BOOLEAN, baseline_file |-> {""}, yara |-> BOOLEAN, yara_dir |-> {""},
                 metrics |-> BOOLEAN, metrics_address |-> {""},
                 outputs |-> {<< >>} \cup
                     {<<out>> : out \in [type : {"stdout", "file", "loki", "sqlite", "eventstore", "other"},
                                        format : {"", "memory", "sqlite", "ecs"},
                                        path : {"", "set"}, endpoint : {"", "set"}]}],
            MaxEdits <- 2

(* Names that end, do not end, are cut and are malformed, and a message    *)
(* without one.                                                            *)
Slot == INSTANCE Sensors WITH CPUs <- {1}, Pids <- {1}, Data <- {1, 2},
            Types <- {"open", "cred_open", "unlink", "rename", "chmod", "connect", "accept", "ptrace",
                      "kmod", "bpf", "memfd", "mmap_exec", "priv_change"},
            Argvs <- {},
            Messages <- {<<1, 7, 0, 9>>, <<2, 7, 8, 0>>, <<1, 7, 1, 9>>, <<1, 7, 2, 9>>,
                         <<3, 1, 1, 1>>, <<0, 1, 1, 1>>},
            MaxArgsLen <- 8, MaxArgvCount <- 2, MaxLabel <- 2, CacheSize <- 1

Word(c, n) == [i \in 1..n |-> c]

(* An empty argument and one too many; one that is cut; two that just fit. *)
Argv == INSTANCE Sensors WITH CPUs <- {1}, Pids <- {1}, Data <- {1}, Types <- {"rename"},
            Argvs <- {<<Word("a", 2), << >>, Word("b", 1)>>, <<Word("a", 1), Word("b", 8)>>,
                      <<Word("a", 5), Word("b", 2)>>},
            Messages <- {},
            MaxArgsLen <- 8, MaxArgvCount <- 2, MaxLabel <- 2, CacheSize <- 1

Tree == INSTANCE ProcessTree WITH now <- clock

(* Three processes where one may be tracked; two when timestamps are late. *)
InOrder == INSTANCE Correlator WITH Keys <- {"p", "q", "r"}, Risks <- {1}, Threshold <- 2,
               Window <- 1, MaxTracked <- 1, Skew <- 0, MaxTime <- 4

Late == INSTANCE Correlator WITH Keys <- {"p", "q"}, Risks <- {1}, Threshold <- 2,
            Window <- 2, MaxTracked <- 1, Skew <- 1, MaxTime <- 5

(* Two destinations for one slot of the index; a single technique when     *)
(* the agents' clocks differ.                                              *)
Fleet == INSTANCE CrossHost WITH Hosts <- {"web", "db"}, Techniques <- {},
             Dests <- {"ip1", "ip2"}, MinHosts <- 2, Window <- 1, MaxTrackedKeys <- 1,
             Skew <- 0, MaxTime <- 3

LateFleet == INSTANCE CrossHost WITH Hosts <- {"web", "db"}, Techniques <- {"T1"},
                 Dests <- {}, MinHosts <- 2, Window <- 2, MaxTrackedKeys <- 1,
                 Skew <- 1, MaxTime <- 5

(* A part at rest has one initial state.                                   *)
MCInit ==
    /\ part \in {"config", "guard", "slot", "argv", "tree", "in order", "late", "fleet", "late fleet"}
    /\ Init
    /\ part # "guard" => maxMode = ModeOff
    /\ Tree!Init /\ Slot!Init /\ Setup!Init
    /\ part # "config" => file = << >>
    /\ IF part = "late" THEN Late!Init ELSE InOrder!Init
    /\ IF part = "late fleet" THEN LateFleet!Init ELSE Fleet!Init

MCNext ==
    /\ UNCHANGED part
    /\ \/ /\ part = "config" /\ Setup!Next
          /\ UNCHANGED <<vars, treeVars, sensorVars, correlatorVars>>
       \/ part = "guard" /\ Next /\ UNCHANGED <<treeVars, sensorVars, correlatorVars, configVars>>
       \/ part = "slot" /\ Slot!Next /\ UNCHANGED <<vars, treeVars, correlatorVars, configVars>>
       \/ part = "argv" /\ Argv!Next /\ UNCHANGED <<vars, treeVars, correlatorVars, configVars>>
       \/ part = "tree" /\ Tree!Next /\ UNCHANGED <<vars, sensorVars, correlatorVars, configVars>>
       \/ /\ UNCHANGED <<vars, treeVars, sensorVars, configVars>>
          /\ \/ part = "in order" /\ InOrder!Next /\ UNCHANGED hostVars
             \/ part = "late" /\ Late!Next /\ UNCHANGED hostVars
             \/ part = "fleet" /\ Fleet!Next /\ UNCHANGED processVars
             \/ part = "late fleet" /\ LateFleet!Next /\ UNCHANGED processVars

allVars == <<part, vars, treeVars, sensorVars, correlatorVars, configVars>>

MCSpec == MCInit /\ [][MCNext]_allVars

-----------------------------------------------------------------------------
(* What config.validate lets through, the rest of the agent can run with:  *)
(* no sink is refused by its constructor (output.Build), no goroutine dies *)
(* of its ticker, kernel and responder start in one mode below the         *)
(* ceiling, and every process on the credential-reader list is one the     *)
(* kernel hook recognises (validateCredReaders).                           *)
ValidRuns == Setup!ValidRuns

(* An event tells of its own system call, though the slot it is built in   *)
(* holds an earlier one and the arguments of an execve wait until the      *)
(* program starts (edr.bpf.c new_event, handle_exec, wire.go Decode).      *)
EventsAreOwn ==
    /\ part = "slot" => Slot!EventsAreOwn
    /\ part = "argv" => Argv!EventsAreOwn

(* Through forks, execs, exits and reuse of ids, an event is given its     *)
(* real parent's name or none, and without reuse and threads its real      *)
(* ancestors, unless the drop counter says that an event was lost or a     *)
(* record of the LSM hooks was overtaken (proctree.go Enrich, edr.bpf.c    *)
(* emit); and two processes that had the same id have different keys.      *)
LineageIsTrue == Tree!LineageIsTrue /\ Tree!KeysAreApart

(* Sweeping is only housekeeping (correlate.go sweep): with timestamps in  *)
(* order, the correlator opens exactly the incidents it would open with    *)
(* unlimited memory, and the map only outgrows maxTrackedProcesses by      *)
(* processes that were active within the window when the last one was      *)
(* added (stateFor).                                                       *)
SweepIsInvisible ==
    part = "in order" => InOrder!SweepIsInvisible /\ InOrder!OverflowIsActive

(* "Seen on enough distinct hosts within the window" (crosshost.go): the   *)
(* hosts a signal names really showed the key, the last time no longer     *)
(* than the window before the alert that raised it; and the indexes keep   *)
(* to their caps (track).                                                  *)
SignalIsTight ==
    /\ part = "fleet" => Fleet!SignalIsTight
    /\ part = "late fleet" => LateFleet!SignalIsTight

(* "Opens a single incident instead of N loose alerts" (correlate.go): two *)
(* incidents of one process are more than the window apart; and a key of   *)
(* the fleet is reported once per window (crosshost.go track): the windows *)
(* of two signals for it start more than a window apart.  Each less what   *)
(* the timestamps are off by, sweeps and dropped keys included.            *)
ReportsApart ==
    [][/\ part = "in order" => InOrder!NewIncidentIsApart
       /\ part = "late" => Late!NewIncidentIsApart
       /\ part = "fleet" => Fleet!NewSignalIsApart
       /\ part = "late fleet" => LateFleet!NewSignalIsApart]_allVars
=============================================================================
