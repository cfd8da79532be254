------------------------------- MODULE Config -------------------------------
(***************************************************************************)
(* The agent's configuration file (internal/config) and what runAgent      *)
(* builds from it (cmd/argus/run.go): the file is laid over the defaults,  *)
(* validated once, and then trusted by every part of the agent, in user    *)
(* space and in the kernel.                                                *)
(*                                                                         *)
(* A configuration is a function of its keys.  A path, address or name is  *)
(* "set" or "".  A process name is its length.  Seconds stay far below the *)
(* 292 years a time.Duration holds.                                        *)
(***************************************************************************)
EXTENDS Integers, Sequences

CONSTANTS
    Values,     \* what an operator may write: key -> set of values
    Files,      \* the files to begin with
    MaxEdits    \* bound: keys an operator changes

VARIABLES
    file,       \* the configuration file: key -> value
    edits,      \* keys changed so far
    agent       \* what the last start came to

vars == <<file, edits, agent>>

(* The keys of one mapping laid over those of another.                     *)
Over(top, base) ==
    [key \in DOMAIN top \cup DOMAIN base |-> IF key \in DOMAIN top THEN top[key] ELSE base[key]]

Required == {"server_address", "server_name", "ca_file", "cert_file", "key_file"}

defaultRingBufferBytes == 8 * 1024 * 1024

Defaults ==
    Over([log_level |-> "info", source |-> "ebpf", replay_file |-> "",
          ring_buffer_bytes |-> defaultRingBufferBytes,
          correlation |-> TRUE, incident_threshold |-> 75,
          mode |-> "off", max_mode |-> "", cred_readers |-> <<4, 15>>,
          self_protection |-> TRUE, integrity_seconds |-> 300, watchdog_seconds |-> 300,
          outputs |-> <<[type |-> "stdout", format |-> "ecs", path |-> "", endpoint |-> ""]>>,
          fleet |-> FALSE, heartbeat_seconds |-> 30, intel |-> FALSE, feeds |-> << >>,
          anomaly |-> FALSE, baseline_file |-> "", yara |-> FALSE, yara_dir |-> "",
          metrics |-> FALSE, metrics_address |-> "set"],
         [key \in Required |-> ""])

-----------------------------------------------------------------------------
(* validate.go.  A faulty limit that forgets the NUL.                      *)
maxCommLenWithNUL == 16

maxCommLen == 15

validateCredReaders(c) ==
    \A i \in DOMAIN c.cred_readers : c.cred_readers[i] \in 1..maxCommLen

validateEventStoreOutput(out) ==
    out.type = "eventstore" =>
        \/ out.format \in {"", "memory"}
        \/ out.format = "sqlite" /\ out.path # ""

validateOutputs(c) ==
    \A i \in DOMAIN c.outputs : LET out == c.outputs[i] IN
        /\ out.type \in {"stdout", "file", "loki", "sqlite", "eventstore"}
        /\ out.type \in {"file", "sqlite"} => out.path # ""
        /\ out.type = "loki" => out.endpoint # ""
        /\ validateEventStoreOutput(out)

validateFleet(c) ==
    c.fleet =>
        /\ \A key \in Required : c[key] # ""
        /\ c.heartbeat_seconds > 0

modeRank ==
    [mode \in {"off", "dry-run", "enforce"} |->
        CASE mode = "off" -> 0 [] mode = "dry-run" -> 1 [] mode = "enforce" -> 2]

validate(c) ==
    /\ c.log_level \in {"debug", "info", "warn", "error"}
    /\ c.source \in {"ebpf", "replay"}
    /\ c.source = "replay" => c.replay_file # ""
    /\ c.ring_buffer_bytes > 0
    /\ c.mode \in DOMAIN modeRank /\ c.max_mode \in DOMAIN modeRank
    /\ modeRank[c.mode] <= modeRank[c.max_mode]
    /\ validateCredReaders(c)
    /\ c.self_protection => c.integrity_seconds > 0 /\ c.watchdog_seconds > 0
    /\ c.correlation => c.incident_threshold > 0
    /\ c.outputs # << >>
    /\ validateOutputs(c)
    /\ validateFleet(c)
    /\ c.intel => c.feeds # << >>
    /\ c.anomaly => c.baseline_file # ""
    /\ c.yara => c.yara_dir # ""
    /\ c.metrics => c.metrics_address # ""

(* Load: the file over the defaults; the ceiling defaults to the mode.     *)
Load == LET c == Over(file, Defaults) IN
    IF c.max_mode = "" THEN [c EXCEPT !.max_mode = c.mode] ELSE c

-----------------------------------------------------------------------------
(* The mode for the responder, ...                                         *)
ParseMode(text) ==
    CASE text = "dry-run" -> 1
      [] text = "enforce" -> 2
      [] OTHER -> 0

(* ... and for the maps of the kernel hooks.                               *)
ModeValue(text) ==
    CASE text = "dry-run" -> 1
      [] text = "enforce" -> 2
      [] OTHER -> 0

(* eventstore.Open.                                                        *)
OpenStore(kind, dsn) == kind \in {"", "memory"} \/ (kind = "sqlite" /\ dsn # "")

(* output.Build, on a disk that takes every file it is named.              *)
buildOne(out) ==
    CASE out.type \in {"stdout", "loki", "sqlite"} -> TRUE
      [] out.type = "file"                         -> out.path # ""
      [] out.type = "eventstore"                   -> OpenStore(out.format, out.path)
      [] OTHER                                     -> FALSE

(* The tickers of the goroutines an agent starts, in milliseconds;         *)
(* time.NewTicker panics unless the period is positive.                    *)
Tickers(c) ==
    (IF c.self_protection
     THEN {1000 * c.integrity_seconds, (1000 * c.watchdog_seconds) \div 2} ELSE {})
    \cup (IF c.fleet THEN {1000 * c.heartbeat_seconds} ELSE {})

(* loadCredReaderAllowlist: the name in a buffer of 16, as its letters.    *)
CredReaderKey(length) == IF length < 16 THEN length ELSE 16

(* The kernel's own name of a process keeps 15 letters and a NUL.          *)
KernelComm(length) == IF length < 15 THEN length ELSE 15

Running(c) ==
    [state    |-> IF \E p \in Tickers(c) : p <= 0 THEN "panicked" ELSE "running",
     kernel   |-> ModeValue(c.mode),
     mode     |-> ParseMode(c.mode),
     ceiling  |-> ParseMode(c.max_mode),
     unheard  |-> {i \in DOMAIN c.cred_readers :
                     KernelComm(c.cred_readers[i]) \notin
                         {CredReaderKey(c.cred_readers[k]) : k \in DOMAIN c.cred_readers}}]

Stopped == [state |-> "stopped"]

Init ==
    /\ file \in Files
    /\ edits = 0
    /\ agent = Stopped

(* The operator writes a key.                                              *)
Edit(key, value) ==
    /\ edits < MaxEdits
    /\ edits' = edits + 1
    /\ file' = Over([k \in {key} |-> value], file)
    /\ agent' = Stopped

(* runAgent: a configuration that does not validate, or an output that     *)
(* cannot be built, ends it.                                               *)
runAgent ==
    /\ agent' = LET c == Load IN
          IF ~validate(c) THEN [state |-> "refused"]
          ELSE IF \E i \in DOMAIN c.outputs : ~buildOne(c.outputs[i]) THEN [state |-> "failed"]
          ELSE Running(c)
    /\ UNCHANGED <<file, edits>>

Next ==
    \/ \E key \in DOMAIN Values : \E value \in Values[key] : Edit(key, value)
    \/ runAgent

Spec == Init /\ [][Next]_vars

-----------------------------------------------------------------------------
(* What validate lets through, the rest of the agent can run with: no sink *)
(* is refused by its constructor (output.Build), no goroutine dies of its  *)
(* ticker, kernel and responder start in one mode below the ceiling, and   *)
(* every process on the credential-reader list is one the kernel hook      *)
(* recognises ("a typo'd or over-long comm fails at load rather than       *)
(* silently leaving a reader unprotected", validate.go).                   *)
ValidRuns ==
    /\ agent.state \notin {"failed", "panicked"}
    /\ agent.state = "running" =>
        /\ agent.kernel = agent.mode /\ agent.mode <= agent.ceiling
        /\ agent.unheard = {}
=============================================================================
