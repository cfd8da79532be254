----------------------------- MODULE Responder -----------------------------
(***************************************************************************)
(* The agent's response path (internal/respond/responder.go) and the two   *)
(* goroutines that drive it: the pipeline, which hands every alert to      *)
(* Handle, and the fleet runner (cmd/argus/fleet.go), which applies the    *)
(* commands of the control plane one after the other.  Both run against a  *)
(* host whose processes exit and whose pids are reused.                    *)
(*                                                                         *)
(* Handle and RequestKill load the mode once and act on it later, so the   *)
(* load, the /proc/<pid>/comm check and the signal are separate steps.     *)
(***************************************************************************)
EXTENDS Posture, NetworkBlocker

(* The response an alert asks for (policy.go), and the severity a risk is  *)
(* read as (internal/triage).                                              *)
ThrottleScore == 50
BlockScore == 75
KillScore == 90

Severities == {"low", "medium", "high", "critical"}

(* RequestedAction of a rule: empty, one of the actions, or any other text *)
(* (rules are not validated against the list of actions).                  *)
Actions == {"alert_only", "throttle", "network_block", "quarantine", "kill"}
Requests == Actions \cup {"", "other"}

severityScore(severity) ==
    CASE severity = "critical" -> KillScore
      [] severity = "high" -> BlockScore
      [] severity = "medium" -> ThrottleScore
      [] OTHER -> 0

effectiveScore(alert) ==
    IF alert.risk > 0 THEN alert.risk ELSE severityScore(alert.severity)

(* Policy.Action: a rule's explicit response wins, otherwise the score     *)
(* picks a rung; the block rung needs a destination.                       *)
Scored(score, hasTarget) ==
    CASE score >= KillScore -> "kill"
      [] score >= BlockScore /\ score < KillScore ->
            IF hasTarget THEN "network_block" ELSE "throttle"
      [] score >= ThrottleScore /\ score < BlockScore -> "throttle"
      [] OTHER -> "alert_only"

PolicyAction(alert) ==
    IF alert.requested # "" THEN alert.requested
    ELSE Scored(effectiveScore(alert), alert.hasTarget)

(* triage.SeverityForRisk.                                                 *)
SeverityForRisk(risk) ==
    CASE risk >= 90 -> "critical"
      [] risk >= 75 /\ risk < 90 -> "high"
      [] risk >= 50 /\ risk < 75 -> "medium"
      [] OTHER -> "low"

(* The order of the responses a score can pick.                            *)
Rung(action) ==
    CASE action = "alert_only" -> 0
      [] action = "throttle" -> 1
      [] action = "network_block" -> 2
      [] OTHER -> 3

-----------------------------------------------------------------------------
CONSTANTS
    Pids,           \* process ids
    Comms,          \* process names (/proc/<pid>/comm)
    Exes,           \* executable paths
    Allowlist,      \* response.allowlist_paths
    Shapes,         \* what detection attaches to an alert: see Observe
    None,           \* no process, no executable, no destination
    MaxSpawns       \* bound: processes started

ASSUME ResponderAssumption ==
    /\ Allowlist \subseteq Exes
    /\ None \notin Exes \cup Texts \cup Comms
    /\ Shapes \subseteq [isExec : BOOLEAN, dstIP : Texts \cup {None}, requested : Requests,
                         risk : Nat, severity : Severities]
    /\ MaxSpawns \in Nat

VARIABLES
    procs,      \* the host: [Pids -> process or None]
    spawned,    \* number of processes started so far, names incarnations
    handler,    \* the pipeline goroutine inside Handle
    remote,     \* the fleet goroutine inside applyCommand
    signal,     \* history: the last signal delivered, or None
    claimed,    \* history: texts some response record calls blocked
    overdue     \* history: effects since the mode last left enforce (0, 1, 2+)

hostVars == <<procs, spawned>>
vars == <<postureVars, blockerVars, hostVars, handler, remote, signal,
          claimed, overdue>>

Idle == [pc |-> "idle"]

Init ==
    /\ PostureInit
    /\ BlockerInit
    /\ procs = [p \in Pids |-> None]
    /\ spawned = 0
    /\ handler = Idle
    /\ remote = Idle
    /\ signal = None
    /\ claimed = {}
    /\ overdue = 0

-----------------------------------------------------------------------------
(* The host.                                                               *)
Spawn(pid) ==
    /\ procs[pid] = None
    /\ spawned < MaxSpawns
    /\ spawned' = spawned + 1
    /\ \E c \in Comms, x \in Exes :
          procs' = [procs EXCEPT ![pid] = [id |-> spawned', comm |-> c, exe |-> x]]
    /\ UNCHANGED <<postureVars, blockerVars, handler, remote, signal, claimed, overdue>>

Exit(pid) ==
    /\ procs[pid] # None
    /\ procs' = [procs EXCEPT ![pid] = None]
    /\ UNCHANGED <<postureVars, blockerVars, spawned, handler, remote, signal,
                   claimed, overdue>>

-----------------------------------------------------------------------------
(* An effect is overdue when the mode is no longer enforce.                *)
CountOverdue ==
    overdue' = IF mode = ModeEnforce \/ overdue = 2 THEN overdue ELSE overdue + 1

(* A faulty check that only asks whether the process exists.               *)
GuardExistsOnly(pid, comm) ==
    comm = None \/ procs[pid] # None

(* signalGuarded's check: an empty comm skips it, otherwise the process    *)
(* must exist and still have the name the caller expects.                  *)
GuardPasses(pid, comm) ==
    comm = None \/ (procs[pid] # None /\ procs[pid].comm = comm)

(* syscall.Kill on the pid's current occupant; ESRCH when there is none.   *)
Deliver(pid, by, checked) ==
    IF procs[pid] = None
    THEN UNCHANGED <<signal, overdue>>
    ELSE /\ signal' = [exe |-> procs[pid].exe, comm |-> procs[pid].comm, by |-> by,
                       recycled |-> procs[pid].id # checked]
         /\ CountOverdue

-----------------------------------------------------------------------------
(* The pipeline goroutine.  Detection (outside this module) raised an      *)
(* alert on an event of the process now at pid.  Decode fills in the       *)
(* executable only for exec events, and nothing fills it in afterwards.    *)
Observe(pid) ==
    /\ handler = Idle
    /\ procs[pid] # None
    /\ \E s \in Shapes :
          handler' = [pc |-> "alert", pid |-> pid, comm |-> procs[pid].comm,
                      exe |-> IF s.isExec THEN procs[pid].exe ELSE None,
                      dstIP |-> s.dstIP,
                      action |-> PolicyAction([requested |-> s.requested,
                                               risk |-> s.risk,
                                               severity |-> s.severity,
                                               hasTarget |-> s.dstIP # None])]
    /\ UNCHANGED <<postureVars, blockerVars, hostVars, remote, signal, claimed, overdue>>

(* The ResponseRecord of a block, or the logged result of the command.     *)
Claim(ip, result) ==
    claimed' = IF result = "blocked" THEN claimed \cup {ip} ELSE claimed

(* A faulty Handle that asks for the configured mode, not the current one. *)
HandleConfigured ==
    /\ handler.pc = "alert"
    /\ IF \/ handler.action = "alert_only"
          \/ handler.exe \in Allowlist
          \/ maxMode # ModeEnforce
       THEN handler' = Idle
       ELSE handler' = [handler EXCEPT !.pc = "execute"]
    /\ UNCHANGED <<postureVars, blockerVars, hostVars, remote, signal, claimed, overdue>>

(* Handle, up to the point where it acts: the mode is loaded here, once.   *)
Handle ==
    /\ handler.pc = "alert"
    /\ IF \/ handler.action = "alert_only"
          \/ mode = ModeOff
          \/ handler.exe \in Allowlist
          \/ mode = ModeDryRun
       THEN handler' = Idle
       ELSE handler' = [handler EXCEPT !.pc = "execute"]
    /\ UNCHANGED <<postureVars, blockerVars, hostVars, remote, signal, claimed, overdue>>

(* execute, for kill and throttle: the comm check of signalGuarded.        *)
CheckComm ==
    /\ handler.pc = "execute"
    /\ handler.action \in {"kill", "throttle"}
    /\ IF GuardPasses(handler.pid, handler.comm)
       THEN handler' = [pc |-> "signal", pid |-> handler.pid, comm |-> handler.comm,
                           checked |-> procs[handler.pid].id]
       ELSE handler' = Idle
    /\ UNCHANGED <<postureVars, blockerVars, hostVars, remote, signal, claimed, overdue>>

(* The signal itself, after the check.                                     *)
SendSignal ==
    /\ handler.pc = "signal"
    /\ handler' = Idle
    /\ Deliver(handler.pid, handler.comm, handler.checked)
    /\ UNCHANGED <<postureVars, blockerVars, hostVars, remote, claimed>>

(* execute, for network_block and quarantine.                              *)
BlockDestination ==
    /\ handler.pc = "execute"
    /\ handler.action \in {"network_block", "quarantine"}
    /\ handler' = Idle
    /\ IF handler.dstIP = None
       THEN UNCHANGED <<blockerVars, overdue, claimed>>
       ELSE \E result \in {"blocked", "failed"} :
               /\ Block(handler.dstIP, result)
               /\ IF rules' # rules THEN CountOverdue ELSE UNCHANGED overdue
               /\ Claim(handler.dstIP, result)
    /\ UNCHANGED <<postureVars, hostVars, remote, signal>>

(* execute, for an action name it does not know.                           *)
Noop ==
    /\ handler.pc = "execute"
    /\ handler.action = "other"
    /\ handler' = Idle
    /\ UNCHANGED <<postureVars, blockerVars, hostVars, remote, signal, claimed, overdue>>

-----------------------------------------------------------------------------
(* The fleet goroutine.  SET_RESPONSE_MODE and a pushed policy document    *)
(* both end in SetMode(ParseMode(text)).                                   *)
SetResponseMode(text) ==
    /\ remote = Idle
    /\ SetMode(ParseMode(text))
    /\ overdue' = IF mode' = ModeEnforce THEN 0 ELSE overdue
    /\ UNCHANGED <<blockerVars, hostVars, handler, remote, signal, claimed>>

(* RequestKill: the mode is loaded here; remoteKill passes no comm.        *)
RequestKill(pid) ==
    /\ remote = Idle
    /\ remote' = IF mode = ModeEnforce THEN [pc |-> "kill", pid |-> pid] ELSE Idle
    /\ UNCHANGED <<postureVars, blockerVars, hostVars, handler, signal, claimed, overdue>>

RemoteKill ==
    /\ remote.pc = "kill"
    /\ remote' = Idle
    /\ Deliver(remote.pid, None, 0)
    /\ UNCHANGED <<postureVars, blockerVars, hostVars, handler, claimed>>

(* RequestNetworkBlock: the mode is loaded here.                           *)
RequestNetworkBlock(ip) ==
    /\ remote = Idle
    /\ remote' = IF mode = ModeEnforce THEN [pc |-> "block", ip |-> ip] ELSE Idle
    /\ UNCHANGED <<postureVars, blockerVars, hostVars, handler, signal, claimed, overdue>>

RemoteBlock ==
    /\ remote.pc = "block"
    /\ remote' = Idle
    /\ \E result \in {"blocked", "failed"} :
          /\ Block(remote.ip, result)
          /\ Claim(remote.ip, result)
    /\ IF rules' # rules THEN CountOverdue ELSE UNCHANGED overdue
    /\ UNCHANGED <<postureVars, hostVars, handler, signal>>

-----------------------------------------------------------------------------
(* The agent dies and starts again from its configuration: runAgent builds *)
(* a new responder and a new blocker, and the kernel keeps its rules.      *)
RestartAgent ==
    /\ newNetworkBlocker
    /\ mode' = clampMode(cfgMode, maxMode)
    /\ handler' = Idle
    /\ remote' = Idle
    /\ overdue' = 0
    /\ UNCHANGED <<maxMode, cfgMode, hostVars, signal, claimed>>

-----------------------------------------------------------------------------
HostStep == \E pid \in Pids : Spawn(pid) \/ Exit(pid)

PipelineStep ==
    \/ \E pid \in Pids : Observe(pid)
    \/ Handle
    \/ CheckComm
    \/ SendSignal
    \/ BlockDestination
    \/ Noop

FleetStep ==
    \/ \E text \in ModeTexts : SetResponseMode(text)
    \/ \E pid \in Pids : RequestKill(pid)
    \/ RemoteKill
    \/ \E ip \in Texts : RequestNetworkBlock(ip)
    \/ RemoteBlock

Next == HostStep \/ PipelineStep \/ FleetStep \/ RestartAgent

Spec == Init /\ [][Next]_vars

-----------------------------------------------------------------------------
Processes == [id : 1..MaxSpawns, comm : Comms, exe : Exes]

Handlers ==
    {Idle}
    \cup [pc : {"alert", "execute"}, pid : Pids, comm : Comms, exe : Exes \cup {None},
          dstIP : Texts \cup {None}, action : Actions \cup {"other"}]
    \cup [pc : {"signal"}, pid : Pids, comm : Comms, checked : 1..MaxSpawns]

Remotes ==
    {Idle} \cup [pc : {"kill"}, pid : Pids] \cup [pc : {"block"}, ip : Texts]

SignalRecords ==
    [exe : Exes, comm : Comms, by : Comms \cup {None}, recycled : BOOLEAN]

TypeOK ==
    /\ PostureTypeOK
    /\ BlockerTypeOK
    /\ procs \in [Pids -> Processes \cup {None}]
    /\ spawned \in 0..MaxSpawns
    /\ handler \in Handlers
    /\ remote \in Remotes
    /\ signal \in SignalRecords \cup {None}
    /\ claimed \subseteq Texts
    /\ overdue \in 0..2

(* The max_mode promise: on a host whose ceiling is below enforce, no      *)
(* sequence of alerts, commands and pushed policies signals a process      *)
(* or installs a firewall object.                                          *)
NoEffectAboveCeiling ==
    maxMode # ModeEnforce =>
        /\ signal = None
        /\ ~table /\ ~chain
        /\ \A t \in Texts : rules[t] = 0

(* Lowering the mode stops the response path, except for what was already  *)
(* past its mode check: Handle loads the mode once, so one alert may still *)
(* be acted on.  Commands cannot be overdue, because the goroutine that    *)
(* lowers the mode is the one that would execute them.                     *)
AtMostOneOverdue ==
    overdue <= 1

(* The PID-reuse guard: a signal sent for an alert hits a process with the *)
(* name the alert observed, unless the pid was recycled between the comm   *)
(* check and the signal.                                                   *)
GuardedSignals ==
    signal # None /\ signal.by # None /\ ~signal.recycled => signal.comm = signal.by

(* A response recorded as blocked is backed by a drop rule in the kernel.  *)
BlockReportsTrue ==
    \A t \in claimed : rules[t] > 0

(* responder.go: "allowlistPaths name executables that must never be       *)
(* killed or blocked"; here for a signal sent by Handle.                  *)
AlertsSpareAllowlist ==
    signal # None /\ signal.by # None => signal.exe \notin Allowlist
=============================================================================
