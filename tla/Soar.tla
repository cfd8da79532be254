-------------------------------- MODULE Soar --------------------------------
(***************************************************************************)
(* The playbook engine (server/soar) and the admin handlers that drive it. *)
(* Every stored alert starts a goroutine that runs Observe                 *)
(* (cmd/argus-server/stream.go recordAlert); a rehearsal (Test) runs in    *)
(* its HTTP handler.  Meanwhile operators flip the engine's switch, edit   *)
(* playbooks and queue commands of their own.                              *)
(*                                                                         *)
(* A goroutine is one of Workers.  Destinations, case store and hunt       *)
(* backend are reduced to whether the call succeeds.                       *)
(***************************************************************************)
EXTENDS Naturals, Sequences, FiniteSets

CONSTANTS
    Workers,        \* goroutines running Observe or Test
    Alerts,         \* stored alerts: [agent, pid, dst, rule, risk, incident]
    Bodies,         \* what operators submit: [mode, trigger, steps]
    Configured,     \* destinations whose flags runServe was given
    MaxRuns,        \* maxRuns
    MaxPlaybooks    \* bound: playbooks ever created

VARIABLES
    enabled,    \* Engine.enabled
    seq,        \* PlaybookStore.seq
    byID,       \* PlaybookStore.byID
    runs,       \* Engine.runs
    task,       \* what each worker is doing
    crashed     \* a goroutine panicked, which ends the server

vars == <<enabled, seq, byID, runs, task, crashed>>

Idle == [pc |-> "idle"]

SideEffects == {"notify", "open_case", "kill_process", "quarantine"}

validStepTypes == SideEffects \cup {"run_hunt"}

readOnly(type) == type = "run_hunt"

(* Playbook.validate, for what the engine reads.                           *)
validate(body) ==
    /\ body.mode \in {"off", "dry-run", "enforce"}
    /\ body.steps # << >>
    /\ \A i \in DOMAIN body.steps : body.steps[i] \in validStepTypes

(* The empty mode is stored as dry-run.                                    *)
defaulted(body) == IF body.mode = "" THEN [body EXCEPT !.mode = "dry-run"] ELSE body

(* Trigger.matches; an empty rule set matches every rule.  Severities and  *)
(* techniques are sets compared the same way as rules.                     *)
matches(trigger, alert) ==
    /\ trigger.incidentsOnly => alert.incident
    /\ alert.risk >= trigger.minRisk
    /\ trigger.rules # {} => alert.rule \in trigger.rules

Init ==
    /\ enabled \in BOOLEAN      \* the --soar flag
    /\ seq = 0
    /\ byID = << >>
    /\ runs = << >>
    /\ task = [w \in Workers |-> Idle]
    /\ crashed = FALSE

-----------------------------------------------------------------------------
(* PlaybookStore.Create.                                                   *)
Create(body) ==
    /\ validate(defaulted(body))
    /\ seq < MaxPlaybooks
    /\ seq' = seq + 1
    /\ byID' = [id \in DOMAIN byID \cup {seq'} |->
                  IF id = seq' THEN defaulted(body) ELSE byID[id]]
    /\ UNCHANGED <<enabled, runs, task>>

Update(id, body) ==
    /\ validate(defaulted(body))
    /\ byID' = [byID EXCEPT ![id] = defaulted(body)]
    /\ UNCHANGED <<enabled, seq, runs, task>>

Delete(id) ==
    /\ byID' = [other \in DOMAIN byID \ {id} |-> byID[other]]
    /\ UNCHANGED <<enabled, seq, runs, task>>

SetEnabled(on) ==
    /\ enabled' = on
    /\ UNCHANGED <<seq, byID, runs, task>>

-----------------------------------------------------------------------------
Working(pc, alert, test, todo) ==
    [pc |-> pc, alert |-> alert, test |-> test, todo |-> todo,
     step |-> 1, outcomes |-> << >>]

(* recordAlert: go Observe(alert).                                         *)
Arrive(w, alert) ==
    /\ task[w] = Idle
    /\ task' = [task EXCEPT ![w] = Working("observe", alert, FALSE, << >>)]
    /\ UNCHANGED <<enabled, seq, byID, runs>>

(* A faulty Observe that never looks at the switch.                        *)
ObserveAlways(w) ==
    /\ task[w].pc = "observe"
    /\ task' = [task EXCEPT ![w].pc = "list"]
    /\ UNCHANGED <<enabled, seq, byID, runs>>

(* Observe: the switch is read once, ...                                   *)
Observe(w) ==
    /\ task[w].pc = "observe"
    /\ task' = [task EXCEPT ![w] = IF enabled THEN [@ EXCEPT !.pc = "list"] ELSE Idle]
    /\ UNCHANGED <<enabled, seq, byID, runs>>

Selected(alert) ==
    {id \in DOMAIN byID : byID[id].mode # "off" /\ matches(byID[id].trigger, alert)}

(* The runs still to do, as copies of the playbooks in order of their id.  *)
Snapshot(ids) ==
    LET order == CHOOSE s \in [1..Cardinality(ids) -> ids] :
                    \A i, j \in DOMAIN s : i < j => s[i] < s[j]
        copy(id) == [id |-> id, mode |-> byID[id].mode, trigger |-> byID[id].trigger,
                     steps |-> byID[id].steps]
    IN  [i \in DOMAIN order |-> copy(order[i])]

Resume(w, t) ==
    task' = [task EXCEPT ![w] = IF t.todo = << >> THEN Idle ELSE t]

(* ... and the playbooks are listed once.                                  *)
List(w) ==
    /\ task[w].pc = "list"
    /\ Resume(w, [task[w] EXCEPT !.pc = "run", !.todo = Snapshot(Selected(task[w].alert))])
    /\ UNCHANGED <<enabled, seq, byID, runs>>

(* Test: one playbook, whatever its mode and trigger, in forced dry-run.   *)
Test(w, id, alert) ==
    /\ task[w] = Idle
    /\ Resume(w, Working("run", alert, TRUE, Snapshot({id})))
    /\ UNCHANGED <<enabled, seq, byID, runs>>

-----------------------------------------------------------------------------
(* A faulty dryRun that lets a rehearsal of an enforcing playbook act.     *)
dryRunUnforced(test, mode) == mode # "enforce"

dryRun(test, mode) == test \/ mode # "enforce"

effectiveMode(test, mode) == IF test THEN "dry-run" ELSE mode

(* executeStep: what is skipped in dry-run, and what may succeed.  The     *)
(* argument of a kill is the formatted pid, never empty; doCommand refuses *)
(* the quarantine of an alert without a destination.                       *)
Executes(type, alert, dry) ==
    /\ ~dry \/ readOnly(type)
    /\ type = "quarantine" => alert.dst # ""

(* A notifier is an interface value: a type and a pointer of that type.    *)
(* The nil that NewWebhook and its like return has a type.                 *)
Destinations == {"webhook", "slack", "syslog", "smtp"}

NoNotifier == [type |-> "none", live |-> FALSE]

Built(d) == [type |-> d, live |-> d \in Configured]

(* NewMulti drops the entries that are nil as interface values.            *)
NewMulti == {Built(d) : d \in Destinations} \ {NoNotifier}

(* Multi.Notify calls every entry; a method of a nil pointer that reads a  *)
(* field panics, and nothing recovers.                                     *)
NotifyPanics == \E n \in NewMulti : ~n.live

(* One step of the current playbook.  A step that may succeed may fail     *)
(* too: a notifier, case store or lake error, an unknown agent.  One that  *)
(* is not read-only has then acted: notified, opened a case or queued a    *)
(* command for the agent.                                                  *)
Step(w) ==
    LET t == task[w]
        playbook == Head(t.todo)
        type == playbook.steps[t.step]
        dry == dryRun(t.test, playbook.mode)
    IN
    /\ t.pc = "run"
    /\ t.step <= Len(playbook.steps)
    /\ crashed' = (type = "notify" /\ ~dry /\ NotifyPanics)
    /\ IF crashed' THEN UNCHANGED task
       ELSE \E ok \in {FALSE} \cup {Executes(type, t.alert, dry)} :
              task' = [task EXCEPT ![w].step = @ + 1,
                                   ![w].outcomes = Append(@, [type |-> type, executed |-> ok])]
    /\ UNCHANGED <<enabled, seq, byID, runs>>

(* The run is recorded, the oldest one dropped, and the next one begins.   *)
Record(w) ==
    LET t == task[w]
        playbook == Head(t.todo)
        all == Append(runs, [id |-> playbook.id,
                             mode |-> effectiveMode(t.test, playbook.mode),
                             outcomes |-> t.outcomes])
    IN
    /\ t.pc = "run"
    /\ t.step > Len(playbook.steps)
    /\ runs' = IF Len(all) > MaxRuns THEN Tail(all) ELSE all
    /\ Resume(w, [t EXCEPT !.todo = Tail(@), !.step = 1, !.outcomes = << >>])
    /\ UNCHANGED <<enabled, seq, byID>>

Operator ==
    \/ \E body \in Bodies : Create(body)
    \/ \E id \in DOMAIN byID :
          \/ \E body \in Bodies : Update(id, body)
          \/ Delete(id)
    \/ \E on \in BOOLEAN : SetEnabled(on)

Begin(w) ==
    \E alert \in Alerts :
        \/ Arrive(w, alert)
        \/ \E id \in DOMAIN byID : Test(w, id, alert)

Proceed(w) ==
    /\ ~crashed
    /\ \/ Step(w)
       \/ (Observe(w) \/ List(w) \/ Record(w)) /\ UNCHANGED crashed

Next ==
    \/ \E w \in Workers : Proceed(w)
    \/ /\ ~crashed
       /\ Operator \/ \E w \in Workers : Begin(w)
       /\ UNCHANGED crashed

(* A started goroutine keeps running: every call it makes returns (the     *)
(* webhook clients give up after ten seconds).                             *)
Spec == Init /\ [][Next]_vars /\ \A w \in Workers : WF_vars(Proceed(w))

-----------------------------------------------------------------------------
(* The run history tells no lies: a run listed under another mode than     *)
(* enforce executed nothing but read-only steps, and an enforcing one is   *)
(* listed as such.                                                         *)
HistoryIsHonest ==
    \A i \in DOMAIN runs : \A k \in DOMAIN runs[i].outcomes :
        runs[i].outcomes[k].executed =>
            runs[i].mode = "enforce" \/ readOnly(runs[i].outcomes[k].type)

(* Once the switch stays off, the engine comes to rest: only the runs that *)
(* passed the switch before are still finished.                            *)
OffQuiesces ==
    <>[](~enabled) =>
        <>[](\A w \in DOMAIN task : task[w].pc \in {"list", "run"} => task[w].test)

(* webhook.go: nil "when url is empty so the caller can add it to a Multi  *)
(* unconditionally".  No playbook brings the server down.                  *)
NotifierSurvives == ~crashed
=============================================================================
