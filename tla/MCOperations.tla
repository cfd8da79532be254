---------------------------- MODULE MCOperations ----------------------------
(***************************************************************************)
(* What operators drive: the audit log, the playbook engine, the           *)
(* distribution of rules, cases, attack graphs and the server itself.      *)
(* They share no state, so each is explored on its own: part says which    *)
(* one a behaviour is about.  The engine is explored with two goroutines   *)
(* and one playbook, and with one goroutine and two.                       *)
(***************************************************************************)
EXTENDS AuditLog, TLC

CONSTANTS Goroutines, Configured

VARIABLES part, enabled, lastID, byID, runs, task, crashed

engineVars == <<enabled, lastID, byID, runs, task, crashed>>

(* An alert that names a destination, and an incident, which has none      *)
(* (internal/fleet/report.go).                                             *)
MCAlerts ==
    {[dst |-> "ip", rule |-> "r1", risk |-> 1, incident |-> FALSE],
     [dst |-> "", rule |-> "", risk |-> 2, incident |-> TRUE]}

AnyAlert == [incidentsOnly |-> FALSE, minRisk |-> 0, rules |-> {}]

Incidents == [incidentsOnly |-> TRUE, minRisk |-> 2, rules |-> {}]

MCBodies ==
    {[mode |-> "enforce", trigger |-> Incidents, steps |-> <<"run_hunt", "notify">>],
     [mode |-> "", trigger |-> AnyAlert, steps |-> <<"quarantine">>],
     [mode |-> "off", trigger |-> AnyAlert, steps |-> <<"kill_process">>]}

AnIncident == {a \in MCAlerts : a.incident}

NotOff == {b \in MCBodies : b.mode # "off"}

OneGoroutine == {CHOOSE g \in Goroutines : TRUE}

Crowd == INSTANCE Soar WITH Workers <- Goroutines, Alerts <- AnIncident, Bodies <- NotOff,
                            MaxRuns <- 1, MaxPlaybooks <- 1, seq <- lastID

Shelf == INSTANCE Soar WITH Workers <- OneGoroutine, Alerts <- MCAlerts, Bodies <- MCBodies,
                            MaxRuns <- 1, MaxPlaybooks <- 2, seq <- lastID

-----------------------------------------------------------------------------
CONSTANTS Broken, Absent

VARIABLES
    fleetDir, policyDoc, edits, reload, served,
    agent, localDir, ruleEngine, ver, posture, applied, crashes

ruleVars == <<fleetDir, policyDoc, edits, reload, served,
              agent, localDir, ruleEngine, ver, posture, applied, crashes>>

(* Two file names and two rule ids: enough for a rule to be added, removed *)
(* or moved between files, for a stale file to collide with a pushed one,  *)
(* and for a write to fail between two files.                              *)
Rules == INSTANCE RuleSync WITH
             Names <- {1, 2}, Contents <- {{1}, {2}, {1, 2}, Broken},
             Policies <- {"off", "invalid"}, LocalDir <- <<{1}, Absent>>,
             FleetDir <- <<{1}, {2}>>, MaxEdits <- 2, MaxCrashes <- 1, engine <- ruleEngine

-----------------------------------------------------------------------------
VARIABLES
    arrays, cases, adding, reply,
    nodes, edges, given, annotated,
    main, signalled, failed, expired, rpc, request, cut

caseVars == <<arrays, cases, adding, reply>>
graphVars == <<nodes, edges, given, annotated>>
serverVars == <<main, signalled, failed, expired, rpc, request, cut>>

(* Two requests at a time; the fourth id of the evidence goes into the     *)
(* array that copies of three ids share.                                   *)
CaseStore == INSTANCE Cases WITH Requests <- {1, 2}, MaxCases <- 1, MaxLen <- 1,
                 Lists <- {<<"a", "b", "a">>, <<"", "c">>, <<"d">>}

Event(action, pid, ppid, name, parent, cmdline) ==
    [action |-> action, pid |-> pid, ppid |-> ppid, name |-> name, parentName |-> parent,
     cmdline |-> cmdline, file |-> "", domain |-> "", dst |-> ""]

(* A parent and its child, each with and without a name of its own, and    *)
(* what they touch.                                                        *)
GraphEvents ==
    {Event("fork", 2, 1, "sh", "", ""), Event("exec", 2, 1, "curl", "sh", "curl x"),
     Event("exec", 2, 1, "", "sh", "x"), Event("fork", 1, 0, "", "", ""),
     [Event("open", 1, 0, "", "", "") EXCEPT !.file = "f"],
     [Event("unlink", 2, 1, "curl", "", "") EXCEPT !.file = "f"],
     [Event("dns", 2, 1, "", "", "") EXCEPT !.domain = "n", !.dst = "ip"],
     [Event("connect", 1, 0, "sh", "", "") EXCEPT !.dst = "ip"]}

Graph == INSTANCE InvestigationGraph WITH
             Events <- GraphEvents, MaxEvents <- 3, MaxAlerts <- 2, alerts <- annotated,
             Annotations <- [pid : {1, 2}, technique : {"", "T1"},
                             severity : {"", "low", "critical"}]

Process == INSTANCE ServerLifecycle WITH
               Agents <- {"a1", "a2"}, Api <- {"o1"}, Console <- {"o2"}

-----------------------------------------------------------------------------
(* A part at rest has one initial state, and a server at rest has exited.  *)
MCInit ==
    /\ part \in {"audit", "crowd", "shelf", "rules", "cases", "graph", "server"}
    /\ Init
    /\ IF part = "shelf" THEN Shelf!Init ELSE Crowd!Init
    /\ part \notin {"crowd", "shelf"} => ~enabled
    /\ Rules!Init /\ CaseStore!Init /\ Graph!Init
    /\ Process!InitAt(IF part = "server" THEN "serve" ELSE "exited")

MCNext ==
    /\ UNCHANGED part
    /\ \/ /\ UNCHANGED <<caseVars, graphVars, serverVars>>
          /\ \/ part = "audit" /\ Next /\ UNCHANGED <<engineVars, ruleVars>>
             \/ part = "crowd" /\ Crowd!Next /\ UNCHANGED <<vars, ruleVars>>
             \/ part = "shelf" /\ Shelf!Next /\ UNCHANGED <<vars, ruleVars>>
             \/ part = "rules" /\ Rules!Next /\ UNCHANGED <<vars, engineVars>>
       \/ /\ UNCHANGED <<vars, engineVars, ruleVars>>
          /\ \/ part = "cases" /\ CaseStore!Next /\ UNCHANGED <<graphVars, serverVars>>
             \/ part = "graph" /\ Graph!Next /\ UNCHANGED <<caseVars, serverVars>>
             \/ part = "server" /\ Process!Next /\ UNCHANGED <<caseVars, graphVars>>

RulesFairness ==
    /\ WF_ruleVars(part = "rules" /\ Rules!ReloadSwap)
    /\ WF_ruleVars(part = "rules" /\ Rules!Start)
    /\ WF_ruleVars(part = "rules" /\ Rules!Enroll)
    /\ WF_ruleVars(part = "rules" /\ Rules!Heartbeat)
    /\ SF_ruleVars(part = "rules" /\ Rules!FetchRules)
    /\ SF_ruleVars(part = "rules" /\ Rules!Apply)
    /\ \A n \in {1, 2} : SF_ruleVars(part = "rules" /\ Rules!WriteFile(n))

MCSpec ==
    /\ MCInit
    /\ [][MCNext]_<<part, vars, engineVars, ruleVars, caseVars, graphVars, serverVars>>
    /\ \A g \in Goroutines : WF_engineVars(part = "crowd" /\ Crowd!Proceed(g))
    /\ RulesFairness
    /\ Process!Fairness

-----------------------------------------------------------------------------
(* The run history (engine.go record) tells no lies: a run listed under    *)
(* another mode than enforce executed nothing but read-only steps.         *)
HistoryIsHonest == Crowd!HistoryIsHonest

(* Once the switch (engine.go SetEnabled) stays off, the engine comes to   *)
(* rest: only runs that passed the switch before are still finished.       *)
OffQuiesces == part = "crowd" => Crowd!OffQuiesces

(* No playbook brings the server down, whichever destinations are          *)
(* configured (integrations.go NewMulti).                                  *)
NotifierSurvives == Crowd!NotifierSurvives

(* The version an agent reports after an update is one it runs (fleet.go   *)
(* syncRules).                                                             *)
ReportedIsRunning == Rules!ReportedIsRunning

(* When the operator stops editing, an agent that stays up ends up         *)
(* reporting the served version, unless it cannot compile it with the      *)
(* files it has (fleet.go, service.go Heartbeat).                          *)
DriftHeals == Rules!DriftHeals

(* fleet.go: "so a freshly enrolled agent does not run a full heartbeat    *)
(* interval on stale rules".                                               *)
EnrolledIsCurrent == Rules!EnrolledIsCurrent

(* While a handler encodes the case it was given, changes made through the *)
(* arrays it shares with the store leave what it reads as it was           *)
(* (cases.go dedupeAppend, memory.go mutate).                              *)
SnapshotsAreStable == part = "cases" => CaseStore!SnapshotsAreStable

(* The attack graph is the same whatever order events and alerts come in,  *)
(* up to which of several names a process gets (graph.go Build).           *)
GraphIsStable == part = "graph" => Graph!GraphIsStable

(* After a signal the server drains and ends, unless an agent holds its    *)
(* alert stream open (serve.go serveUntilSignal).                          *)
ServerStops == part = "server" => Process!ServerStops
=============================================================================
