------------------------------ MODULE RuleSync ------------------------------
(***************************************************************************)
(* Distribution of the ruleset: an operator edits the server's rule        *)
(* directory and reloads it (server/ruleset), and an agent pulls the       *)
(* bundle, writes it over its own rule directory, compiles that directory  *)
(* and swaps its engine (cmd/argus/fleet.go).                              *)
(*                                                                         *)
(* A rule file is the set of rule ids it defines, or Broken when it does   *)
(* not compile.  A bundle's version is a hash of the names and contents of *)
(* its files, so here a bundle is its own version.                         *)
(***************************************************************************)
EXTENDS Naturals, FiniteSets

CONSTANTS
    Names,          \* file names: numbers, since files are handled in order
    Contents,       \* what an operator may put in a file
    Policies,       \* what an operator may put in the policy document
    Broken,         \* a file that does not compile
    Absent,         \* no such file
    LocalDir,       \* the agent's rule directory as installed
    FleetDir,       \* the server's rule directory at start
    MaxEdits,       \* bound: operator edits
    MaxCrashes      \* bound: crashes of the agent

Files(dir) == {n \in Names : dir[n] # Absent}
RulesIn(dir) == UNION {dir[n] : n \in {m \in Files(dir) : dir[m] # Broken}}

(* detect.LoadDir: every file compiles, no id occurs in two files, and     *)
(* there is at least one rule.                                             *)
LoadDir(dir) ==
    /\ \A n \in Files(dir) : dir[n] # Broken
    /\ \A m, n \in Files(dir) : m # n => dir[m] \cap dir[n] = {}
    /\ RulesIn(dir) # {}

(* policy.Parse accepts a valid mode or none.                              *)
PolicyParses(policy) == policy # "invalid"

VARIABLES
    fleetDir,   \* the server's rule directory
    policyDoc,  \* the server's policy document
    edits,      \* operator edits so far
    reload,     \* Provider.Reload: "idle" or "validated"
    served,     \* Provider.version and Provider.files
    agent,      \* the agent's fleet goroutine
    localDir,   \* the agent's rule directory
    engine,     \* rules of the running engine
    ver,        \* fleetConn.rulesVersion
    posture,    \* the policy last handed to the responder
    applied,    \* history: a pushed bundle was applied since the agent started
    crashes     \* crashes so far

serverVars == <<fleetDir, policyDoc, edits, reload, served>>
agentVars == <<agent, localDir, engine, ver, posture, applied, crashes>>
vars == <<serverVars, agentVars>>

Down == [pc |-> "down"]
At(pc) == [pc |-> pc]

Init ==
    /\ fleetDir = FleetDir
    /\ policyDoc = ""
    /\ edits = 0
    /\ reload = "idle"
    /\ served = [rules |-> FleetDir, policy |-> ""]
    /\ agent = Down
    /\ localDir = LocalDir
    /\ engine = {}
    /\ ver = served
    /\ posture = ""
    /\ applied = FALSE
    /\ crashes = 0

-----------------------------------------------------------------------------
(* The server side.                                                        *)
EditFile(n, content) ==
    /\ edits < MaxEdits
    /\ edits' = edits + 1
    /\ fleetDir' = [fleetDir EXCEPT ![n] = content]
    /\ UNCHANGED <<policyDoc, reload, served, agentVars>>

EditPolicy(policy) ==
    /\ edits < MaxEdits
    /\ edits' = edits + 1
    /\ policyDoc' = policy
    /\ UNCHANGED <<fleetDir, reload, served, agentVars>>

(* Reload, first half: LoadDir validates what is on disk.                  *)
ReloadValidate ==
    /\ reload = "idle"
    /\ LoadDir(fleetDir)
    /\ reload' = "validated"
    /\ UNCHANGED <<fleetDir, policyDoc, edits, served, agentVars>>

(* Reload, second half: the files are read again, the policy is parsed,    *)
(* and the bundle is swapped.                                              *)
ReloadSwap ==
    /\ reload = "validated"
    /\ reload' = "idle"
    /\ served' = IF PolicyParses(policyDoc)
                 THEN [rules |-> fleetDir, policy |-> policyDoc]
                 ELSE served
    /\ UNCHANGED <<fleetDir, policyDoc, edits, agentVars>>

-----------------------------------------------------------------------------
(* The agent side.  runAgent compiles the local directory before anything  *)
(* else and exits when that fails.                                         *)
Start ==
    /\ agent = Down
    /\ LoadDir(localDir)
    /\ engine' = RulesIn(localDir)
    /\ agent' = At("enroll")
    /\ UNCHANGED <<serverVars, localDir, ver, posture, applied, crashes>>

(* connectFleet: the version the server reports becomes the agent's own.   *)
Enroll ==
    /\ agent.pc = "enroll"
    /\ ver' = served
    /\ agent' = At("sync")
    /\ UNCHANGED <<serverVars, localDir, engine, posture, applied, crashes>>

(* FetchRules with the known version; the reply is the served bundle.      *)
FetchRules ==
    /\ agent.pc = "sync"
    /\ agent' = IF ver = served THEN At("loop")
                ELSE [pc |-> "write", got |-> served, todo |-> Files(served.rules)]
    /\ UNCHANGED <<serverVars, localDir, engine, ver, posture, applied, crashes>>

(* The call fails or times out.                                            *)
FetchFails ==
    /\ agent.pc = "sync"
    /\ agent' = At("loop")
    /\ UNCHANGED <<serverVars, localDir, engine, ver, posture, applied, crashes>>

(* The files of a bundle are written in the order of their names.          *)
IsNext(n) == n \in agent.todo /\ \A m \in agent.todo : n <= m

(* writeRuleFiles, one file: os.WriteFile truncates, then writes.          *)
WriteFile(n) ==
    /\ agent.pc = "write"
    /\ IsNext(n)
    /\ localDir' = [localDir EXCEPT ![n] = agent.got.rules[n]]
    /\ agent' = [agent EXCEPT !.todo = @ \ {n}]
    /\ UNCHANGED <<serverVars, engine, ver, posture, applied, crashes>>

(* A failed write leaves the file as it was, or truncated.                 *)
WriteFails(n) ==
    /\ agent.pc = "write"
    /\ IsNext(n)
    /\ agent' = At("loop")
    /\ localDir' \in {localDir, [localDir EXCEPT ![n] = Broken]}
    /\ UNCHANGED <<serverVars, engine, ver, posture, applied, crashes>>

(* A faulty end of syncRules that takes the version before it compiles.    *)
ApplyVersionFirst ==
    /\ agent.pc = "write"
    /\ agent.todo = {}
    /\ ver' = agent.got
    /\ applied' = TRUE
    /\ engine' = IF LoadDir(localDir) THEN RulesIn(localDir) ELSE engine
    /\ posture' = IF LoadDir(localDir) /\ agent.got.policy # "" THEN agent.got.policy ELSE posture
    /\ agent' = At("loop")
    /\ UNCHANGED <<serverVars, localDir, crashes>>

(* The end of syncRules: compile the directory, and on success swap the    *)
(* engine, apply the policy and take the version.                          *)
Apply ==
    /\ agent.pc = "write"
    /\ agent.todo = {}
    /\ agent' = At("loop")
    /\ IF LoadDir(localDir)
       THEN /\ engine' = RulesIn(localDir)
            /\ posture' = IF agent.got.policy # "" THEN agent.got.policy ELSE posture
            /\ ver' = agent.got
            /\ applied' = TRUE
       ELSE UNCHANGED <<engine, posture, ver, applied>>
    /\ UNCHANGED <<serverVars, localDir, crashes>>

(* A faulty heartbeat exchange that never orders an update.                *)
HeartbeatSilent ==
    /\ agent.pc = "loop"
    /\ UNCHANGED vars

(* A heartbeat that reports a drifted version is answered UPDATE_RULES;    *)
(* with the current version, or when the call fails, nothing changes.      *)
Heartbeat ==
    /\ agent.pc = "loop"
    /\ agent' = IF ver # served THEN At("sync") ELSE agent
    /\ UNCHANGED <<serverVars, localDir, engine, ver, posture, applied, crashes>>

(* The process dies; a file being written may be left truncated.           *)
Crash ==
    /\ agent # Down
    /\ crashes < MaxCrashes
    /\ crashes' = crashes + 1
    /\ agent' = Down
    /\ engine' = {}
    /\ applied' = FALSE
    /\ localDir' \in {localDir}
         \cup {[localDir EXCEPT ![n] = Broken] :
                  n \in {m \in Names : agent.pc = "write" /\ IsNext(m)}}
    /\ UNCHANGED <<serverVars, ver, posture>>

-----------------------------------------------------------------------------
ServerStep ==
    \/ \E n \in Names, c \in Contents \cup {Absent} : EditFile(n, c)
    \/ \E p \in Policies : EditPolicy(p)
    \/ ReloadValidate
    \/ ReloadSwap

AgentStep ==
    \/ Start
    \/ Enroll
    \/ FetchRules
    \/ FetchFails
    \/ \E n \in Names : WriteFile(n) \/ WriteFails(n)
    \/ Apply
    \/ Heartbeat
    \/ Crash

Next == ServerStep \/ AgentStep

(* The runner's ticker keeps heartbeating and its goroutine keeps running  *)
(* (weak fairness); the server is reachable and the disk writable again    *)
(* and again, for each file (strong fairness of what may also fail).       *)
Fairness ==
    /\ WF_vars(ReloadSwap)
    /\ WF_vars(Start) /\ WF_vars(Enroll) /\ WF_vars(Heartbeat)
    /\ SF_vars(FetchRules) /\ SF_vars(Apply)
    /\ \A n \in Names : SF_vars(WriteFile(n))

Spec == Init /\ [][Next]_vars /\ Fairness

-----------------------------------------------------------------------------
(* The version an agent reports after it applied a bundle is one it runs:  *)
(* its engine has every rule of that bundle and its posture is the one the *)
(* bundle asks for, whatever failed or was pushed in between.              *)
ReportedIsRunning ==
    applied =>
        /\ RulesIn(ver.rules) \subseteq engine
        /\ ver.policy \in {"", posture}

(* The bundle on top of what the agent has on disk.                        *)
Overlay(dir, rules) ==
    [n \in Names |-> IF rules[n] # Absent THEN rules[n] ELSE dir[n]]

(* "Every agent converges on its next heartbeat": when the operator stops  *)
(* editing, an agent that stays up ends up reporting the served version,   *)
(* unless that bundle does not compile together with the files the agent   *)
(* already has.                                                            *)
DriftHeals ==
    <>[](\/ agent = Down
         \/ ver = served
         \/ ~LoadDir(Overlay(localDir, served.rules)))

(* fleet.go: "so a freshly enrolled agent does not run a full heartbeat    *)
(* interval on stale rules".  An agent in its heartbeat loop that reports  *)
(* the served version runs the served rules.                               *)
EnrolledIsCurrent ==
    agent.pc = "loop" /\ ver = served => RulesIn(served.rules) \subseteq engine
=============================================================================
