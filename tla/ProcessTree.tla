----------------------------- MODULE ProcessTree ----------------------------
(***************************************************************************)
(* The process tree that annotates every event with its parent, ancestors  *)
(* and start time (internal/enrich/proctree.go), fed by the lifecycle      *)
(* sensors (bpf/edr.bpf.c) of a small kernel: tasks fork, start threads,   *)
(* execute, exit and are re-parented, and their ids are used again.        *)
(*                                                                         *)
(* An event carries what its task was when it was emitted.  The tree sees  *)
(* the sensors' events in the order they were emitted (one ring buffer,    *)
(* one consumer), so that emitting and enriching are one step, unless the  *)
(* buffer is full: then the event is lost and counted.  The LSM hooks have *)
(* a buffer and a consumer of their own, so their records come later.      *)
(***************************************************************************)
EXTENDS Naturals, Sequences, FiniteSets

CONSTANTS
    MaxId,          \* task ids are 1..MaxId; 1 is init, there from the start
    Names,          \* what a task may execute
    maxDepth,       \* defaultAncestryDepth
    MaxEvents,      \* bound: events, which are also the clock
    MaxDrops        \* bound: events lost

VARIABLES
    task,       \* the kernel's tasks: id -> [tgid, parent, name, born]
    procs,      \* ProcessTree.procs: id -> [ppid, name, start]
    now,        \* the monotonic clock
    last,       \* the last event, enriched
    keys,       \* history: [pid, start, born] of every stamped event
    threaded,   \* history: a thread was started
    dropped,    \* the sensors' drop counters, summed as RingDrops does
    blocked,    \* enforce_events: records of exec_blocked not yet read
    stale       \* history: one was read after its process executed or ended

treeVars == <<procs, last, keys>>
vars == <<task, treeVars, now, threaded, dropped, blocked, stale>>

Ids == 1..MaxId

Free(id) == id \notin DOMAIN task

Put(f, id, v) == [i \in DOMAIN f \cup {id} |-> IF i = id THEN v ELSE f[i]]

Without(f, ids) == [i \in DOMAIN f \ ids |-> f[i]]

-----------------------------------------------------------------------------
(* ancestry, as the ids it visits: the loop leaves the one chain that goes *)
(* from the parent upwards through tracked processes, up to maxDepth, and  *)
(* that ends at one that is unknown or is the process itself.              *)
ancestry(tree, pid, ppid, chain) ==
    LET current(n) == IF n = 1 THEN ppid ELSE tree[chain[n - 1]].ppid
        tracked == DOMAIN tree \ {pid}
    IN /\ \A n \in DOMAIN chain : chain[n] = current(n) /\ chain[n] \in tracked
       /\ Len(chain) < maxDepth => current(Len(chain) + 1) \notin tracked

Chains(tree) == UNION {[1..n -> DOMAIN tree] : n \in 0..maxDepth}

(* startOf: exec events carry their own time, the others none.             *)
startOf(e) == IF e.start # 0 THEN e.start ELSE e.time

(* What a lifecycle event does to the tree.                                *)
Updated(e) ==
    CASE e.type \in {"exec", "exec_blocked", "fork"} ->
           Put(procs, e.pid, [ppid |-> e.ppid, name |-> e.name, start |-> startOf(e)])
      [] e.type = "exit" -> Without(procs, {e.pid})
      [] OTHER -> procs

(* The start time of an event of a known process.                          *)
Stamped(e, tree) ==
    IF e.start = 0 /\ e.pid \in DOMAIN tree THEN tree[e.pid].start ELSE e.start

(* Enrich: update, then look up parent, start time and ancestors.  "truth" *)
(* is history: the name of the task that the parent id stands for.         *)
Enrich(e) ==
    LET tree == Updated(e) IN
    /\ procs' = tree
    /\ \E chain \in Chains(tree) :
        /\ ancestry(tree, e.pid, e.ppid, chain)
        /\ last' = [type |-> e.type, pid |-> e.pid, ppid |-> e.ppid, born |-> e.born,
                    parent |-> IF e.ppid \in DOMAIN tree THEN tree[e.ppid].name ELSE "",
                    truth |-> IF e.ppid \in DOMAIN task THEN task[e.ppid].name ELSE "",
                    start |-> Stamped(e, tree),
                    ancestors |-> chain]
    /\ keys' = IF last'.start = 0 THEN keys
               ELSE keys \cup {[pid |-> e.pid, start |-> last'.start, born |-> e.born]}

(* Only exec events are decoded with a start time, their own.              *)
applyTypeSpecific(type) == IF type \in {"exec", "exec_blocked"} THEN now ELSE 0

(* A faulty emit that does not count what the ring buffer refused.         *)
emitSilently(e) ==
    \/ Enrich(e) /\ UNCHANGED dropped
    \/ dropped < MaxDrops /\ UNCHANGED <<treeVars, dropped>>

(* emit: the event reaches the tree, or the ring buffer is full.           *)
emit(e) ==
    \/ Enrich(e) /\ UNCHANGED dropped
    \/ /\ dropped < MaxDrops
       /\ dropped' = dropped + 1
       /\ UNCHANGED treeVars

(* new_event: the current task's process, its parent's and its name.       *)
Event(type, t, name) ==
    [type |-> type, pid |-> task[t].tgid, ppid |-> task[t].parent, name |-> name,
     born |-> task[task[t].tgid].born, time |-> now,
     start |-> applyTypeSpecific(type)]

Tick == now < MaxEvents /\ now' = now + 1

-----------------------------------------------------------------------------
Init ==
    /\ task = [id \in {1} |-> [tgid |-> 1, parent |-> 0, name |-> "init", born |-> 0]]
    /\ procs = << >>
    /\ now = 1
    /\ last = [type |-> "none"]
    /\ keys = {}
    /\ threaded = FALSE
    /\ dropped = 0
    /\ blocked = << >>
    /\ stale = FALSE

(* handle_fork: the ids the tracepoint gives, which are task ids.          *)
handle_fork(t, c) ==
    emit([type |-> "fork", pid |-> c, ppid |-> t, name |-> task[t].name,
          born |-> now, time |-> now, start |-> 0])

Fork(t, c) ==
    /\ Tick
    /\ t \in DOMAIN task /\ Free(c)
    /\ task' = Put(task, c, [tgid |-> c, parent |-> task[t].tgid, name |-> task[t].name, born |-> now])
    /\ UNCHANGED <<threaded, blocked, stale>>
    /\ handle_fork(t, c)

(* The same tracepoint fires when a thread starts.                         *)
Thread(t, c) ==
    /\ Tick
    /\ t \in DOMAIN task \ {1} /\ Free(c)
    /\ task' = Put(task, c, [tgid |-> task[t].tgid, parent |-> task[t].parent,
                             name |-> task[t].name, born |-> now])
    /\ threaded' = TRUE
    /\ UNCHANGED <<blocked, stale>>
    /\ handle_fork(t, c)

Leader(t) == t \in DOMAIN task \ {1} /\ task[t].tgid = t

handle_exec(t, name) == emit(Event("exec", t, name))

(* exec ends the other threads, whose exits are not reported.              *)
Exec(t, name) ==
    /\ Tick
    /\ Leader(t)
    /\ LET others == {c \in DOMAIN task \ {t} : task[c].tgid = t} IN
       task' = Put(Without(task, others), t, [task[t] EXCEPT !.name = name])
    /\ UNCHANGED <<threaded, blocked, stale>>
    /\ handle_exec(t, name)

(* bprm_check stops or would stop an execution.  reserve_event leaves the  *)
(* parent's id zero; a record for which there is no room is just lost.     *)
ExecBlocked(t) ==
    /\ Tick
    /\ Leader(t)
    /\ blocked = << >>
    /\ blocked' = <<[Event("exec_blocked", t, task[t].name) EXCEPT !.ppid = 0]>>
    /\ UNCHANGED <<task, treeVars, threaded, dropped, stale>>

(* The second consumer passes the record on.                               *)
ReadBlocked ==
    /\ blocked # << >>
    /\ blocked' = << >>
    /\ LET e == Head(blocked) IN
       /\ Enrich(e)
       /\ stale' = (stale \/ Free(e.pid) \/ task[e.pid].born # e.born
                          \/ task[e.pid].name # e.name)
    /\ UNCHANGED <<task, now, threaded, dropped>>

(* Any other event.                                                        *)
Act(t) ==
    /\ Tick
    /\ t \in DOMAIN task \ {1}
    /\ UNCHANGED <<task, threaded, blocked, stale>>
    /\ emit(Event("open", t, task[t].name))

(* handle_exit says nothing of a thread that is not the leader.            *)
ThreadExit(t) ==
    /\ t \in DOMAIN task /\ task[t].tgid # t
    /\ task' = Without(task, {t})
    /\ UNCHANGED <<treeVars, now, threaded, dropped, blocked, stale>>

(* The last task of the process, the leader, exits; its children become    *)
(* children of init.                                                       *)
Exit(t) ==
    /\ Tick
    /\ Leader(t)
    /\ \A c \in DOMAIN task \ {t} : task[c].tgid # t
    /\ task' = [c \in DOMAIN task \ {t} |->
                  IF task[c].parent = t THEN [task[c] EXCEPT !.parent = 1] ELSE task[c]]
    /\ UNCHANGED <<threaded, blocked, stale>>
    /\ emit(Event("exit", t, task[t].name))

Next ==
    \/ \E t \in Ids :
        \/ \E c \in Ids : Fork(t, c) \/ Thread(t, c)
        \/ \E name \in Names : Exec(t, name)
        \/ ExecBlocked(t) \/ Act(t) \/ ThreadExit(t) \/ Exit(t)
    \/ ReadBlocked

Spec == Init /\ [][Next]_vars

-----------------------------------------------------------------------------
(* The task and everything above it: the smallest set of tasks that has it *)
(* and, with each task, its parent.                                        *)
IsUpward(S, id) ==
    /\ id \in DOMAIN task => id \in S
    /\ \A a \in S : task[a].parent \in DOMAIN task => task[a].parent \in S

TrueAncestors(id) ==
    {a \in DOMAIN task : \A S \in SUBSET DOMAIN task : IsUpward(S, id) => a \in S}

NoIdReused == \A k, l \in keys : k.pid = l.pid => k.born = l.born

(* Nothing was lost, and no record of the LSM hooks was overtaken.         *)
Faithful == dropped = 0 /\ ~stale

(* "Any event can be annotated with its parent and full ancestor chain":   *)
(* through every fork, exec, exit, re-parenting and reuse of ids, the name *)
(* an event is given for its parent is that of the task its parent id      *)
(* stands for, or is left out; and the chain only names live ancestors, as *)
(* long as no id was used twice and nobody started threads (a thread's id  *)
(* stays in the tree after it has ended).  So a false lineage shows in the *)
(* drop counter, unless the LSM hooks' own buffer was read late.           *)
LineageIsTrue ==
    last.type # "none" /\ Faithful =>
        /\ last.parent # "" => last.parent = last.truth
        /\ ~threaded /\ NoIdReused =>
              \A n \in DOMAIN last.ancestors :
                 last.ancestors[n] \in TrueAncestors(last.ppid)

(* "ProcessKey identifies a process across PID reuse": two processes that  *)
(* had the same id never share a stamped start time.                       *)
KeysAreApart ==
    Faithful =>
        \A k, l \in keys : k.pid = l.pid /\ k.start = l.start => k.born = l.born
=============================================================================
