------------------------- MODULE InvestigationGraph -------------------------
(***************************************************************************)
(* The attack graph of a host (server/investigate/graph.go), built from    *)
(* the events of a query of the lake and then annotated with the alerts of *)
(* the same host (cmd/argus-server/investigate.go).  The lake orders       *)
(* events by their timestamps, which say little about their causes, so     *)
(* the order in which Build meets them is left open.                       *)
(*                                                                         *)
(* "" is what an event does not tell.  finish sorts nodes and edges, so    *)
(* the graph is a set of each.                                             *)
(***************************************************************************)
EXTENDS Naturals, FiniteSets

CONSTANTS
    Events,         \* [action, pid, ppid, name, parentName, cmdline, file, domain, dst]
    Annotations,    \* [pid, technique, severity]: of the alerts
    MaxEvents,      \* graphEventLimit
    MaxAlerts       \* graphAlertLimit

VARIABLES
    nodes,      \* builder.nodes: id -> Node
    edges,      \* builder.edges
    given,      \* history: the events added
    alerts      \* history: the annotations made

vars == <<nodes, edges, given, alerts>>

Proc(pid) == <<"process", pid>>
File(path) == <<"file", path>>
Network(endpoint) == <<"network", endpoint>>

(* processLabel; a name stands for an executable's base name too.          *)
Anonymous == "pid"
processLabel(name) == IF name # "" THEN name ELSE Anonymous

severityRank(severity) ==
    CASE severity = "critical" -> 5 [] severity = "low" -> 2 [] OTHER -> 0

Node(label) ==
    [label |-> label, detail |-> "", techniques |-> {}, severity |-> "", alerting |-> FALSE]

ensure(graph, id, label) ==
    IF id \in DOMAIN graph THEN graph
    ELSE [i \in DOMAIN graph \cup {id} |-> IF i = id THEN Node(label) ELSE graph[i]]

(* A faulty process that keeps the first label.                            *)
processFirst(graph, pid, name, cmdline) ==
    [ensure(graph, Proc(pid), processLabel(name))
        EXCEPT ![Proc(pid)].detail = IF cmdline # "" THEN cmdline ELSE @]

(* process: a name replaces the label of a node that had none, and the     *)
(* last command line is the one kept.                                      *)
process(graph, pid, name, cmdline) ==
    [ensure(graph, Proc(pid), processLabel(name))
        EXCEPT ![Proc(pid)].label = IF @ = Anonymous THEN processLabel(name) ELSE @,
               ![Proc(pid)].detail = IF cmdline # "" THEN cmdline ELSE @]

(* file and network: the node is labelled and detailed by what it is.      *)
entity(graph, id) == [ensure(graph, id, id[2]) EXCEPT ![id].detail = id[2]]

HasParent(e) == e.ppid # 0 /\ e.action \in {"exec", "fork"}

fileEdgeKinds(action) ==
    CASE action = "open" -> "opened" [] action = "unlink" -> "deleted" [] OTHER -> "accessed"

(* What an event acts on, and how: the first of file, name and address.    *)
Objects(e) ==
    IF e.file # "" THEN {[id |-> File(e.file), kind |-> fileEdgeKinds(e.action)]}
    ELSE IF e.action = "dns" /\ e.domain # "" THEN {[id |-> Network(e.domain), kind |-> "resolved"]}
    ELSE IF e.dst # "" THEN {[id |-> Network(e.dst), kind |-> "connected"]}
    ELSE {}

Edge(source, target, kind) == [source |-> source, target |-> target, kind |-> kind]

Links(e) ==
    (IF HasParent(e) THEN {Edge(Proc(e.ppid), Proc(e.pid), "spawned")} ELSE {})
    \cup {Edge(Proc(e.pid), o.id, o.kind) : o \in Objects(e)}

-----------------------------------------------------------------------------
Init ==
    /\ nodes = << >>
    /\ edges = {}
    /\ given = {}
    /\ alerts = {}

(* addEvent and linkParent: the actor, its parent, what it acts on.        *)
addEvent(e) ==
    /\ Cardinality(given) < MaxEvents
    /\ alerts = {}
    /\ LET actor == process(nodes, e.pid, e.name, e.cmdline)
           family == IF HasParent(e) THEN process(actor, e.ppid, e.parentName, "") ELSE actor
       IN nodes' = IF Objects(e) = {} THEN family
                   ELSE entity(family, (CHOOSE o \in Objects(e) : TRUE).id)
    /\ edges' = edges \cup Links(e)
    /\ given' = given \cup {e}
    /\ UNCHANGED alerts

(* The node of a process after one more of its alerts.                     *)
Annotated(node, a) ==
    [node EXCEPT !.alerting = TRUE,
                 !.techniques = @ \cup ({a.technique} \ {""}),
                 !.severity = IF severityRank(a.severity) > severityRank(@)
                              THEN a.severity ELSE @]

(* annotate: an alert of a process that is not in the graph is left out.   *)
annotate(a) ==
    /\ Cardinality(alerts) < MaxAlerts
    /\ alerts' = alerts \cup {a}
    /\ nodes' = IF Proc(a.pid) \notin DOMAIN nodes THEN nodes
                ELSE [nodes EXCEPT ![Proc(a.pid)] = Annotated(@, a)]
    /\ UNCHANGED <<edges, given>>

Next ==
    \/ \E e \in Events : addEvent(e)
    \/ \E a \in Annotations : annotate(a)

Spec == Init /\ [][Next]_vars

-----------------------------------------------------------------------------
(* What the events tell of a process: the names it is given, by itself or  *)
(* by a child, and its command lines.                                      *)
NamesOf(pid) ==
    ({e.name : e \in {f \in given : f.pid = pid}}
     \cup {e.parentName : e \in {f \in given : HasParent(f) /\ f.ppid = pid}}) \ {""}

CommandsOf(pid) == {e.cmdline : e \in {f \in given : f.pid = pid}} \ {""}

ProcessesIn == {e.pid : e \in given} \cup {e.ppid : e \in {f \in given : HasParent(f)}}

Highest(ranks) == CHOOSE r \in ranks : \A q \in ranks : r >= q

(* "Stable regardless of event/map iteration order": whatever order the    *)
(* events and alerts come in, the graph has a node for everything they     *)
(* mention and the edges they tell of, each once; a process that some      *)
(* event names is not left anonymous; and an annotated process carries all *)
(* techniques and the highest severity of its alerts.                      *)
GraphIsStable ==
    /\ DOMAIN nodes = {Proc(pid) : pid \in ProcessesIn}
                      \cup UNION {{o.id : o \in Objects(e)} : e \in given}
    /\ edges = UNION {Links(e) : e \in given}
    /\ \A pid \in ProcessesIn :
        LET node == nodes[Proc(pid)]
            own == {a \in alerts : a.pid = pid}
        IN /\ node.label \in IF NamesOf(pid) = {} THEN {Anonymous} ELSE NamesOf(pid)
           /\ node.detail \in IF CommandsOf(pid) = {} THEN {""} ELSE CommandsOf(pid)
           /\ node.alerting = (own # {})
           /\ node.techniques = {a.technique : a \in own} \ {""}
           /\ severityRank(node.severity) = Highest({severityRank(a.severity) : a \in own} \cup {0})
=============================================================================
