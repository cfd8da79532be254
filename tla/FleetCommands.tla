--------------------------- MODULE FleetCommands ---------------------------
(***************************************************************************)
(* Operator commands on their way to one host: queued in the store, handed *)
(* out by the heartbeat handler, applied by the agent's fleet runner one   *)
(* after the other (server/api/service.go, server/store,                   *)
(* cmd/argus/fleet.go).  Calls time out while their handler still runs,    *)
(* either side crashes, and an agent that restarts enrolls under a new id. *)
(*                                                                         *)
(* Commands are numbered in the order they were queued; 0 is the           *)
(* UPDATE_RULES that the handler prepends when the agent's rules drifted.  *)
(***************************************************************************)
EXTENDS Naturals, Sequences, FiniteSets, Functions

CONSTANTS
    MaxCommands,    \* bound: commands queued
    MaxHandlers,    \* bound: heartbeat handlers running at the same time
    MaxCrashes      \* bound: crashes, of the agent and of the server

Ids == 1..(MaxCrashes + 1)
Commands == 1..MaxCommands

VARIABLES
    durable,    \* the store survives a restart (sqlite) or not (memory)
    known,      \* ids in the store
    queue,      \* [Ids -> commands queued for that id]
    target,     \* history: target[n] is the id command n was queued for
    lastId,     \* the last id assigned
    agent,      \* the fleet runner: its id and what it is doing
    rpc,        \* heartbeat handlers on the server
    applied,    \* history: commands applied, in order
    lost,       \* history: commands that left the queue and arrived nowhere
    crashes

vars == <<durable, known, queue, target, lastId, agent, rpc, applied, lost, crashes>>

Stopped == [pc |-> "stopped", id |-> 0, todo |-> << >>]
Idle(id) == [pc |-> "idle", id |-> id, todo |-> << >>]
Numbers(cmds) == {cmds[i] : i \in DOMAIN cmds} \ {0}

Init ==
    /\ durable \in BOOLEAN
    /\ known = {}
    /\ queue = [i \in Ids |-> << >>]
    /\ target = << >>
    /\ lastId = 0
    /\ agent = Stopped
    /\ rpc = {}
    /\ applied = << >>
    /\ lost = {}
    /\ crashes = 0

-----------------------------------------------------------------------------
(* connectFleet and Store.Enroll: a fresh id.                              *)
Enroll ==
    /\ agent = Stopped
    /\ lastId + 1 \in Ids
    /\ lastId' = lastId + 1
    /\ known' = known \cup {lastId'}
    /\ agent' = Idle(lastId')
    /\ UNCHANGED <<durable, queue, target, rpc, applied, lost, crashes>>

(* handleEnqueueCommand; a command for an unknown agent is refused.        *)
EnqueueCommand(id) ==
    /\ id \in known
    /\ Len(target) < MaxCommands
    /\ target' = Append(target, id)
    /\ queue' = [queue EXCEPT ![id] = Append(@, Len(target'))]
    /\ UNCHANGED <<durable, known, lastId, agent, rpc, applied, lost, crashes>>

SendHeartbeat ==
    /\ agent.pc = "idle"
    /\ Cardinality(rpc) < MaxHandlers
    /\ agent' = [agent EXCEPT !.pc = "waiting"]
    /\ rpc' = rpc \cup {[id |-> agent.id, pc |-> "drain", cmds |-> << >>, live |-> TRUE]}
    /\ UNCHANGED <<durable, known, queue, target, lastId, applied, lost, crashes>>

(* rpcTimeout passes, or the connection breaks: nobody waits for the reply *)
(* any more, but the handler goes on.                                      *)
Abandon(handlers) == {[h EXCEPT !.live = FALSE] : h \in handlers}

Timeout ==
    /\ agent.pc = "waiting"
    /\ agent' = Idle(agent.id)
    /\ rpc' = Abandon(rpc)
    /\ UNCHANGED <<durable, known, queue, target, lastId, applied, lost, crashes>>

-----------------------------------------------------------------------------
(* A faulty DrainCommands that returns the commands and keeps them.        *)
DrainKeeping(h, drift) ==
    /\ h.pc = "drain" /\ h.id \in known
    /\ rpc' = (rpc \ {h}) \cup
              {[h EXCEPT !.pc = "reply",
                         !.cmds = (IF drift THEN <<0>> ELSE << >>) \o queue[h.id]]}
    /\ UNCHANGED <<durable, known, queue, target, lastId, agent, applied, lost, crashes>>

(* The heartbeat handler: read and delete the queue in one critical        *)
(* section (one transaction), then prepend UPDATE_RULES on drift.          *)
Drain(h, drift) ==
    /\ h.pc = "drain" /\ h.id \in known
    /\ rpc' = (rpc \ {h}) \cup
              {[h EXCEPT !.pc = "reply",
                         !.cmds = (IF drift THEN <<0>> ELSE << >>) \o queue[h.id]]}
    /\ queue' = [queue EXCEPT ![h.id] = << >>]
    /\ UNCHANGED <<durable, known, target, lastId, agent, applied, lost, crashes>>

(* The transaction fails and is rolled back: an empty reply.               *)
DrainFails(h) ==
    /\ durable
    /\ h.pc = "drain" /\ h.id \in known
    /\ rpc' = (rpc \ {h}) \cup {[h EXCEPT !.pc = "reply"]}
    /\ UNCHANGED <<durable, known, queue, target, lastId, agent, applied, lost, crashes>>

(* "unknown agent: re-enroll" is logged by the agent and nothing else.     *)
Refuse(h) ==
    /\ h.pc = "drain" /\ h.id \notin known
    /\ rpc' = rpc \ {h}
    /\ agent' = IF h.live THEN Idle(h.id) ELSE agent
    /\ UNCHANGED <<durable, known, queue, target, lastId, applied, lost, crashes>>

(* The reply reaches the agent that waits for it, or nobody.               *)
Reply(h) ==
    /\ h.pc = "reply"
    /\ rpc' = rpc \ {h}
    /\ IF h.live
       THEN /\ agent' = [agent EXCEPT !.pc = "applying", !.todo = h.cmds]
            /\ UNCHANGED lost
       ELSE /\ lost' = lost \cup Numbers(h.cmds)
            /\ UNCHANGED agent
    /\ UNCHANGED <<durable, known, queue, target, lastId, applied, crashes>>

(* applyCommand, one command of the reply; then wait for the next tick.    *)
ApplyCommand ==
    /\ agent.pc = "applying"
    /\ IF agent.todo = << >>
       THEN agent' = Idle(agent.id) /\ UNCHANGED applied
       ELSE /\ agent' = [agent EXCEPT !.todo = Tail(@)]
            /\ applied' = IF Head(agent.todo) = 0 THEN applied
                          ELSE Append(applied, Head(agent.todo))
    /\ UNCHANGED <<durable, known, queue, target, lastId, rpc, lost, crashes>>

-----------------------------------------------------------------------------
CrashAgent ==
    /\ agent # Stopped
    /\ crashes < MaxCrashes
    /\ crashes' = crashes + 1
    /\ agent' = Stopped
    /\ rpc' = Abandon(rpc)
    /\ lost' = lost \cup Numbers(agent.todo)
    /\ UNCHANGED <<durable, known, queue, target, lastId, applied>>

(* The handlers die with the server; so do agents and queues if the store  *)
(* is in memory.                                                           *)
CrashServer ==
    /\ crashes < MaxCrashes
    /\ crashes' = crashes + 1
    /\ rpc' = {}
    /\ lost' = lost \cup (UNION {Numbers(h.cmds) : h \in rpc})
                    \cup (IF durable THEN {} ELSE UNION {Numbers(queue[i]) : i \in Ids})
    /\ known' = IF durable THEN known ELSE {}
    /\ queue' = IF durable THEN queue ELSE [i \in Ids |-> << >>]
    /\ UNCHANGED <<durable, target, lastId, agent, applied>>

-----------------------------------------------------------------------------
HandlerStep(h) ==
    \/ \E drift \in BOOLEAN : Drain(h, drift)
    \/ DrainFails(h)
    \/ Refuse(h)
    \/ Reply(h)

Next ==
    \/ Enroll
    \/ \E id \in Ids : EnqueueCommand(id)
    \/ SendHeartbeat
    \/ Timeout
    \/ \E h \in rpc : HandlerStep(h)
    \/ ApplyCommand
    \/ CrashAgent
    \/ CrashServer

Spec == Init /\ [][Next]_vars

-----------------------------------------------------------------------------
(* A command is applied at most once, in the order operators queued it and *)
(* by the agent it was queued for, whatever times out or crashes: a kill   *)
(* is not repeated on a recycled pid, a posture change is not undone by an *)
(* older one.                                                              *)
AtMostOnceInOrder ==
    /\ \A i, j \in 1..Len(applied) : i < j => applied[i] < applied[j]
    /\ \A n \in Numbers(agent.todo) : target[n] = agent.id

(* Everything queued is accounted for: still queued, in a reply, with the  *)
(* agent, applied, or lost with a reply or a process that died.            *)
InFlight == (UNION {Numbers(h.cmds) : h \in rpc}) \cup Numbers(agent.todo)
Queued == UNION {Numbers(queue[i]) : i \in Ids}

NothingVanishes ==
    1..Len(target) = Queued \cup InFlight \cup Range(applied) \cup lost
=============================================================================
