---------------------------- MODULE ControlProofs ---------------------------
(***************************************************************************)
(* Proofs about what the control plane sends and records: operator         *)
(* commands on their way to a host (FleetCommands), the distribution of    *)
(* rules (RuleSync) and the audit log (AuditLog), for any number of        *)
(* commands, handlers, edits, failed writes and crashes.                   *)
(*                                                                         *)
(* Commands are numbered in the order they were queued. The lists they     *)
(* travel in (a queue, a reply, what the agent has yet to apply) hold      *)
(* increasing numbers, and the three lists of the agent that enrolled last *)
(* follow each other.                                                      *)
(***************************************************************************)
EXTENDS FleetCommands, TLAPS

(* Heartbeats being handled, and what the agent is doing.                  *)
Handlers == [id : Ids, pc : {"drain", "reply"}, cmds : Seq(Nat), live : BOOLEAN]
Runners == [pc : {"stopped", "idle", "waiting", "applying"}, id : Nat, todo : Seq(Nat)]

(* Types of the command queue.                                             *)
CommandTypeOK ==
    /\ lastId \in Nat
    /\ known \subseteq Ids
    /\ \A id \in known : id <= lastId
    /\ queue \in [Ids -> Seq(Nat)]
    /\ target \in Seq(Nat)
    /\ agent \in Runners
    /\ rpc \subseteq Handlers
    /\ applied \in Seq(Nat)

(* Commands in the order they were queued.                                 *)
Increasing(cmds) == \A i, j \in DOMAIN cmds : i < j => cmds[i] < cmds[j]

(* A list of commands in the order they were queued, all of them for id;   *)
(* UPDATE_RULES may come first.                                            *)
ListFor(cmds, id) ==
    /\ Increasing(cmds)
    /\ \A i \in DOMAIN cmds : cmds[i] <= Len(target) /\ (cmds[i] # 0 => target[cmds[i]] = id)

(* All of the first list were queued before those of the second.           *)
Before(first, then) ==
    \A i \in DOMAIN first, j \in DOMAIN then : then[j] # 0 => first[i] < then[j]

(* Every list is in order and for its agent.                               *)
ListInv ==
    /\ \A n \in DOMAIN target : target[n] <= lastId
    /\ \A id \in Ids :
          ListFor(queue[id], id) /\ \A i \in DOMAIN queue[id] : queue[id][i] # 0
    /\ \A h \in rpc : ListFor(h.cmds, h.id)
    /\ ListFor(agent.todo, agent.id)
    /\ Increasing(applied)
    /\ \A i \in DOMAIN applied : applied[i] \in 1..Len(target)

(* At most one handler has somebody waiting for its reply, the agent that  *)
(* enrolled last.                                                          *)
WaitInv ==
    /\ agent.pc # "stopped" => agent.id = lastId /\ lastId \in Ids
    /\ agent.pc = "stopped" => agent = Stopped
    /\ agent.pc # "applying" => agent.todo = << >>
    /\ \A h \in rpc : h.live => agent.pc = "waiting" /\ agent.id = h.id
    /\ \A g, h \in rpc : g.live /\ h.live => g = h
    /\ \A h \in rpc : h.pc = "drain" => h.cmds = << >>

(* What that agent has yet to apply was queued after all that was applied, *)
(* and what is queued for it after all that is on its way.                 *)
OrderInv ==
    /\ Before(applied, agent.todo)
    /\ \A h \in rpc : h.live => Before(applied, h.cmds)
    /\ lastId \in Ids =>
          /\ Before(applied, queue[lastId])
          /\ Before(agent.todo, queue[lastId])
          /\ \A h \in rpc : h.live => Before(h.cmds, queue[lastId])

(* The inductive invariant of commands.                                    *)
CommandInv == CommandTypeOK /\ ListInv /\ WaitInv /\ OrderInv

(* A later number at the end keeps a list increasing.                      *)
LEMMA AppendLater ==
    ASSUME NEW s \in Seq(Nat), NEW n \in Nat, Increasing(s), \A i \in DOMAIN s : s[i] < n
    PROVE  Append(s, n) \in Seq(Nat) /\ Increasing(Append(s, n))
BY DEF Increasing

(* So does taking the first number away.                                   *)
LEMMA TailIncreases ==
    ASSUME NEW s \in Seq(Nat), s # << >>, Increasing(s)
    PROVE  /\ Tail(s) \in Seq(Nat)
           /\ Increasing(Tail(s))
           /\ \A i \in DOMAIN Tail(s) : i + 1 \in DOMAIN s /\ Tail(s)[i] = s[i + 1] /\ Head(s) < Tail(s)[i]
           /\ 1 \in DOMAIN s /\ Head(s) = s[1]
BY SMTT(60) DEF Increasing

(* The reply to a drained queue when the rules drifted.                    *)
LEMMA PrependRules ==
    ASSUME NEW s \in Seq(Nat), Increasing(s), \A i \in DOMAIN s : s[i] # 0
    PROVE  /\ <<0>> \o s \in Seq(Nat)
           /\ Increasing(<<0>> \o s)
           /\ \A i \in DOMAIN (<<0>> \o s) :
                 (<<0>> \o s)[i] = 0 \/ \E j \in DOMAIN s : (<<0>> \o s)[i] = s[j]
<1> DEFINE r == <<0>> \o s
<1>1. /\ r \in Seq(Nat)
      /\ Len(r) = Len(s) + 1
      /\ r[1] = 0
      /\ \A i \in 2..Len(r) : r[i] = s[i - 1] /\ i - 1 \in DOMAIN s
  OBVIOUS
<1>2. \A i \in DOMAIN r : i = 1 \/ i \in 2..Len(r)
  BY <1>1
<1>3. \A i \in DOMAIN s : s[i] \in Nat /\ s[i] > 0
  OBVIOUS
<1> HIDE DEF r
<1>4. \A i \in DOMAIN r : r[i] = 0 \/ \E j \in DOMAIN s : r[i] = s[j]
  BY <1>1, <1>2, Zenon
<1>5. ASSUME NEW i \in DOMAIN r, NEW j \in DOMAIN r, i < j
      PROVE  r[i] < r[j]
  <2>1. i \in Nat /\ j \in Nat /\ i # 0
    BY <1>1
  <2>2. j \in 2..Len(r)
    BY <1>2, <1>5, <2>1
  <2>3. r[j] = s[j - 1] /\ j - 1 \in DOMAIN s
    BY <1>1, <2>2, Zenon
  <2>4. CASE i = 1
    BY <1>1, <1>3, <2>3, <2>4
  <2>5. CASE i \in 2..Len(r)
    <3>1. r[i] = s[i - 1] /\ i - 1 \in DOMAIN s
      BY <1>1, <2>5, Zenon
    <3>2. i - 1 < j - 1
      BY <1>5, <2>1
    <3> QED  BY <2>3, <3>1, <3>2 DEF Increasing
  <2> QED  BY <1>2, <2>4, <2>5
<1> QED  BY <1>1, <1>4, <1>5, Zenon DEF r, Increasing

(* A list of commands stays one when another command is queued.            *)
LEMMA ListKept ==
    ASSUME target \in Seq(Nat), NEW to \in Nat, target' = Append(target, to),
           NEW s \in Seq(Nat), NEW id, ListFor(s, id)
    PROVE  /\ Increasing(s)
           /\ \A i \in DOMAIN s :
                 s[i] <= Len(target') /\ (s[i] # 0 => target'[s[i]] = id)
           /\ \A i \in DOMAIN s : s[i] < Len(target')
BY SMTT(60) DEF ListFor

(* Nothing is queued, on its way or applied at the start.                  *)
LEMMA CommandInit ==
    ASSUME MaxCrashes \in Nat
    PROVE  Init => CommandInv
BY DEF Init, CommandInv, CommandTypeOK, ListInv, WaitInv, OrderInv, ListFor, Before,
       Increasing, Stopped, Ids, Runners

(* An agent that enrolls has an id no list was ever for.                   *)
LEMMA EnrollsAfresh ==
    ASSUME MaxCrashes \in Nat, CommandInv, Enroll
    PROVE  CommandInv'
<1> USE DEF CommandInv
<1>1. /\ agent = Stopped
      /\ lastId + 1 \in Ids
      /\ lastId' = lastId + 1
      /\ known' = known \cup {lastId'}
      /\ agent' = [pc |-> "idle", id |-> lastId', todo |-> << >>]
      /\ UNCHANGED <<queue, target, rpc, applied>>
  BY DEF Enroll, Idle
<1>2. CommandTypeOK'
  BY <1>1 DEF CommandTypeOK, Runners, Ids
<1>3. \A h \in rpc : ~h.live
  BY <1>1 DEF WaitInv, Stopped
<1>4. DOMAIN queue[lastId'] = {}
  <2>1. ASSUME NEW i \in DOMAIN queue[lastId'] PROVE FALSE
    <3>1. /\ queue[lastId'][i] \in DOMAIN target
          /\ target[queue[lastId'][i]] = lastId'
      BY <1>1, <2>1 DEF ListInv, ListFor, CommandTypeOK
    <3> QED  BY <1>1, <3>1 DEF ListInv, CommandTypeOK
  <2> QED  BY <2>1
<1>5. ListInv'
  BY <1>1, <1>2 DEF ListInv, ListFor, CommandTypeOK, Increasing
<1>6. WaitInv'
  BY <1>1, <1>3 DEF WaitInv
<1>7. OrderInv'
  BY <1>1, <1>3, <1>4 DEF OrderInv, Before
<1> QED  BY <1>2, <1>5, <1>6, <1>7

(* A new command is later than all others.                                 *)
LEMMA EnqueuesLast ==
    ASSUME MaxCrashes \in Nat, CommandInv, NEW id \in Ids, EnqueueCommand(id)
    PROVE  CommandInv'
<1> USE DEF CommandInv
<1> DEFINE n == Len(target) + 1
<1>1. /\ id \in known
      /\ target' = Append(target, id)
      /\ Len(target') = n /\ n \in Nat
      /\ target'[n] = id
      /\ queue' = [queue EXCEPT ![id] = Append(@, n)]
      /\ UNCHANGED <<known, lastId, agent, rpc, applied>>
  BY DEF EnqueueCommand, CommandTypeOK
<1>2. id \in Nat /\ id <= lastId
  BY <1>1 DEF CommandTypeOK, Ids
<1>3. /\ queue[id] \in Seq(Nat)
      /\ ListFor(queue[id], id)
      /\ \A i \in DOMAIN queue[id] : queue[id][i] # 0
  BY DEF CommandTypeOK, ListInv
<1>4. /\ queue'[id] = Append(queue[id], n)
      /\ \A i \in Ids \ {id} : queue'[i] = queue[i]
  BY <1>1 DEF CommandTypeOK
<1>5. /\ queue'[id] \in Seq(Nat)
      /\ Increasing(queue'[id])
      /\ \A i \in DOMAIN queue'[id] : queue'[id][i] = n \/ \E j \in DOMAIN queue[id] : queue'[id][i] = queue[id][j]
  <2>1. \A i \in DOMAIN queue[id] : queue[id][i] < n
    BY <1>1, <1>2, <1>3, ListKept, ZenonT(60) DEF CommandTypeOK
  <2>2. Append(queue[id], n) \in Seq(Nat) /\ Increasing(Append(queue[id], n))
    BY <1>1, <1>3, <2>1, AppendLater DEF ListFor
  <2>3. ASSUME NEW s \in Seq(Nat), NEW i \in DOMAIN Append(s, n)
        PROVE  Append(s, n)[i] = n \/ \E j \in DOMAIN s : Append(s, n)[i] = s[j]
    BY <1>1, <2>3
  <2> QED  BY <1>3, <1>4, <2>2, <2>3
<1> HIDE DEF n
<1>6. CommandTypeOK'
  <2>1. queue' \in [Ids -> Seq(Nat)]
    BY <1>1, <1>4, <1>5 DEF CommandTypeOK
  <2>2. target' \in Seq(Nat)
    BY <1>1, <1>2 DEF CommandTypeOK
  <2> QED  BY <1>1, <2>1, <2>2 DEF CommandTypeOK
<1>7. ListInv'
  <2>1. \A m \in DOMAIN target' : target'[m] <= lastId'
    BY <1>1, <1>2, SMTT(60) DEF ListInv, CommandTypeOK
  <2>2. ASSUME NEW i \in Ids
        PROVE  ListFor(queue[i], i)' /\ \A j \in DOMAIN queue'[i] : queue'[i][j] # 0
    <3>1. CASE i = id
      <4>1. /\ \A j \in DOMAIN queue[id] : queue[id][j] <= Len(target')
            /\ \A j \in DOMAIN queue[id] : queue[id][j] # 0 => target'[queue[id][j]] = id
        BY <1>1, <1>2, <1>3, ListKept, Zenon DEF CommandTypeOK
      <4>2. n # 0
        BY <1>1 DEF n, CommandTypeOK
      <4>3. ASSUME NEW j \in DOMAIN queue'[id]
            PROVE  queue'[id][j] <= Len(target') /\ (queue'[id][j] # 0 => target'[queue'[id][j]] = id)
        <5>1. CASE queue'[id][j] = n
          BY <1>1, <5>1
        <5>2. CASE \E k \in DOMAIN queue[id] : queue'[id][j] = queue[id][k]
          BY <4>1, <5>2
        <5> QED  BY <1>5, <5>1, <5>2
      <4>4. ListFor(queue[i], i)'
        BY <1>5, <3>1, <4>3 DEF ListFor
      <4>5. \A j \in DOMAIN queue'[i] : queue'[i][j] # 0
        BY <1>3, <1>5, <3>1, <4>2
      <4> QED  BY <4>4, <4>5
    <3>2. CASE i # id
      <4>1. queue[i] \in Seq(Nat) /\ ListFor(queue[i], i) /\ queue'[i] = queue[i]
        BY <1>4, <3>2 DEF CommandTypeOK, ListInv
      <4>2. /\ Increasing(queue[i])
            /\ \A j \in DOMAIN queue[i] :
                  queue[i][j] <= Len(target') /\ (queue[i][j] # 0 => target'[queue[i][j]] = i)
        BY <1>1, <1>2, <4>1, ListKept, Zenon DEF CommandTypeOK
      <4>3. \A j \in DOMAIN queue[i] : queue[i][j] # 0
        BY DEF ListInv
      <4> QED  BY <4>1, <4>2, <4>3 DEF ListFor
    <3> QED  BY <3>1, <3>2
  <2>3. ASSUME NEW h \in rpc
        PROVE  ListFor(h.cmds, h.id)'
    <3>1. h.cmds \in Seq(Nat) /\ ListFor(h.cmds, h.id)
      BY DEF CommandTypeOK, ListInv, Handlers
    <3> QED  BY <1>1, <1>2, <3>1, ListKept, Zenon DEF ListFor, CommandTypeOK
  <2>4. ListFor(agent.todo, agent.id)'
    <3>1. agent.todo \in Seq(Nat) /\ ListFor(agent.todo, agent.id)
      BY DEF CommandTypeOK, ListInv, Runners
    <3> QED  BY <1>1, <1>2, <3>1, ListKept, ZenonT(60) DEF ListFor, CommandTypeOK
  <2>5. Increasing(applied)' /\ \A i \in DOMAIN applied' : applied'[i] \in 1..Len(target')
    BY <1>1 DEF ListInv, CommandTypeOK, Increasing, n
  <2> QED  BY <1>1, <2>1, <2>2, <2>3, <2>4, <2>5 DEF ListInv
<1>8. WaitInv'
  BY <1>1 DEF WaitInv
<1>9. OrderInv'
  <2>1. ASSUME NEW s \in Seq(Nat), \A i \in DOMAIN s : s[i] < n, lastId \in Ids,
               Before(s, queue[lastId])
        PROVE  Before(s, queue'[lastId])
    <3>1. CASE lastId = id
      BY <1>5, <2>1, <3>1, Zenon DEF Before
    <3>2. CASE lastId # id
      BY <1>4, <2>1, <3>2
    <3> QED  BY <3>1, <3>2
  <2>2. applied \in Seq(Nat) /\ \A i \in DOMAIN applied : applied[i] < n
    BY <1>1 DEF CommandTypeOK, ListInv, n
  <2>3. agent.todo \in Seq(Nat) /\ \A i \in DOMAIN agent.todo : agent.todo[i] < n
    <3>1. agent.todo \in Seq(Nat) /\ ListFor(agent.todo, agent.id)
      BY DEF CommandTypeOK, ListInv, Runners
    <3> QED  BY <1>1, <1>2, <3>1, ListKept DEF CommandTypeOK
  <2>4. \A h \in rpc : h.cmds \in Seq(Nat) /\ \A i \in DOMAIN h.cmds : h.cmds[i] < n
    <3>1. \A h \in rpc : h.cmds \in Seq(Nat) /\ ListFor(h.cmds, h.id)
      BY DEF CommandTypeOK, ListInv, Handlers
    <3> QED  BY <1>1, <1>2, <3>1, ListKept DEF CommandTypeOK
  <2> QED  BY <1>1, <2>1, <2>2, <2>3, <2>4, SMTT(60) DEF OrderInv, Before
<1> QED  BY <1>6, <1>7, <1>8, <1>9

(* Calls nobody waits for keep their lists.                                *)
LEMMA Abandoned ==
    ASSUME NEW handlers \in SUBSET Handlers, NEW g \in Abandon(handlers)
    PROVE  /\ g \in Handlers
           /\ ~g.live
           /\ \E h \in handlers : g.id = h.id /\ g.pc = h.pc /\ g.cmds = h.cmds
BY Zenon DEF Abandon, Handlers

(* Nobody waits for a handler any more: the agent gave up (the timeout) or *)
(* died.                                                                   *)
LEMMA GivesUp ==
    ASSUME MaxCrashes \in Nat, CommandInv, Timeout \/ CrashAgent
    PROVE  CommandInv'
<1> USE DEF CommandInv
<1>1. /\ rpc' = Abandon(rpc)
      /\ UNCHANGED <<known, queue, target, lastId, applied>>
  BY DEF Timeout, CrashAgent
<1>2. /\ agent' \in Runners /\ agent'.todo = << >> /\ agent'.pc \in {"idle", "stopped"}
      /\ agent'.pc = "idle" => agent'.id = agent.id /\ agent.pc # "stopped"
      /\ agent'.pc = "stopped" => agent' = Stopped
  <2>1. CASE Timeout
    BY <2>1 DEF Timeout, Idle, CommandTypeOK, Runners
  <2>2. CASE CrashAgent
    BY <2>2 DEF CrashAgent, Stopped, Runners
  <2> QED  BY <2>1, <2>2
<1>3. ASSUME NEW g \in rpc'
      PROVE  /\ g \in Handlers
             /\ ~g.live
             /\ \E h \in rpc : g.id = h.id /\ g.pc = h.pc /\ g.cmds = h.cmds
  BY <1>1, <1>3, Abandoned DEF CommandTypeOK
<1>4. CommandTypeOK'
  BY <1>1, <1>2, <1>3 DEF CommandTypeOK
<1>5. ListInv'
  <2>1. ASSUME NEW g \in rpc'
        PROVE  ListFor(g.cmds, g.id)'
    BY <1>1, <1>3, <2>1 DEF ListInv, ListFor
  <2>2. ListFor(agent.todo, agent.id)'
    BY <1>2 DEF ListFor, Increasing
  <2>3. ASSUME NEW id \in Ids
        PROVE  ListFor(queue[id], id)' /\ \A i \in DOMAIN queue'[id] : queue'[id][i] # 0
    BY <1>1 DEF ListInv, ListFor
  <2> QED  BY <1>1, <2>1, <2>2, <2>3 DEF ListInv, Increasing
<1>6. WaitInv'
  BY <1>1, <1>2, <1>3 DEF WaitInv
<1>7. OrderInv'
  BY <1>1, <1>2, <1>3 DEF OrderInv, Before
<1> QED  BY <1>4, <1>5, <1>6, <1>7

(* A heartbeat is answered by a handler of its own.                        *)
LEMMA Calls ==
    ASSUME MaxCrashes \in Nat, CommandInv, SendHeartbeat
    PROVE  CommandInv'
<1> USE DEF CommandInv
<1> DEFINE new == [id |-> agent.id, pc |-> "drain", cmds |-> << >>, live |-> TRUE]
<1>1. /\ agent.pc = "idle"
      /\ rpc' = rpc \cup {new}
      /\ UNCHANGED <<known, queue, target, lastId, applied>>
  BY DEF SendHeartbeat
<1>2. agent' \in Runners /\ agent'.pc = "waiting" /\ agent'.id = agent.id /\ agent'.todo = agent.todo
  BY Zenon DEF SendHeartbeat, CommandTypeOK, Runners
<1>3. agent.id = lastId /\ lastId \in Ids /\ agent.todo = << >>
  BY <1>1 DEF WaitInv
<1>4. /\ new \in Handlers /\ new.id = lastId /\ new.cmds = << >> /\ new.live
  BY <1>3 DEF Handlers
<1>5. \A h \in rpc : ~h.live
  BY <1>1 DEF WaitInv
<1> HIDE DEF new
<1>6. CommandTypeOK'
  BY <1>1, <1>2, <1>4 DEF CommandTypeOK
<1>7. ListInv'
  <2>1. ASSUME NEW g \in rpc'
        PROVE  ListFor(g.cmds, g.id)'
    BY <1>1, <1>4, <2>1 DEF ListInv, ListFor, Increasing
  <2>2. ListFor(agent.todo, agent.id)'
    BY <1>2, <1>3 DEF ListFor, Increasing
  <2>3. ASSUME NEW id \in Ids
        PROVE  ListFor(queue[id], id)' /\ \A i \in DOMAIN queue'[id] : queue'[id][i] # 0
    BY <1>1 DEF ListInv, ListFor
  <2> QED  BY <1>1, <2>1, <2>2, <2>3 DEF ListInv, Increasing
<1>8. WaitInv'
  BY <1>1, <1>2, <1>3, <1>4, <1>5 DEF WaitInv
<1>9. OrderInv'
  BY <1>1, <1>2, <1>3, <1>4, <1>5 DEF OrderInv, Before
<1> QED  BY <1>6, <1>7, <1>8, <1>9

(* The queue moves into the reply as it is.                                *)
LEMMA Drains ==
    ASSUME MaxCrashes \in Nat, CommandInv, NEW h \in rpc, NEW drift \in BOOLEAN,
           Drain(h, drift)
    PROVE  CommandInv'
<1> USE DEF CommandInv
<1> DEFINE reply == (IF drift THEN <<0>> ELSE << >>) \o queue[h.id]
           answered == [h EXCEPT !.pc = "reply", !.cmds = reply]
<1>1. /\ rpc' = (rpc \ {h}) \cup {answered}
      /\ queue' = [queue EXCEPT ![h.id] = << >>]
      /\ UNCHANGED <<known, target, lastId, agent, applied>>
  BY DEF Drain
<1>2. h \in Handlers /\ h.id \in Ids /\ queue[h.id] \in Seq(Nat)
  BY DEF CommandTypeOK, Handlers
<1>3. /\ reply \in Seq(Nat)
      /\ Increasing(reply)
      /\ \A i \in DOMAIN reply : reply[i] = 0 \/ \E j \in DOMAIN queue[h.id] : reply[i] = queue[h.id][j]
  <2>1. Increasing(queue[h.id]) /\ \A i \in DOMAIN queue[h.id] : queue[h.id][i] # 0
    BY <1>2 DEF ListInv, ListFor
  <2>2. CASE drift
    <3>1. reply = <<0>> \o queue[h.id]
      BY <2>2
    <3> HIDE DEF reply
    <3> QED  BY <1>2, <2>1, <3>1, PrependRules, ZenonT(60)
  <2>3. CASE ~drift
    <3>1. reply = queue[h.id]
      BY <1>2, <2>3
    <3> HIDE DEF reply
    <3> QED  BY <1>2, <2>1, <3>1
  <2> QED  BY <2>2, <2>3, Zenon
<1> HIDE DEF reply
<1>4. /\ answered \in Handlers /\ answered.id = h.id /\ answered.cmds = reply
      /\ answered.pc = "reply" /\ answered.live = h.live
  BY <1>2, <1>3, Zenon DEF Handlers
<1> HIDE DEF answered
<1>5. /\ queue'[h.id] = << >>
      /\ \A id \in Ids \ {h.id} : queue'[id] = queue[id]
      /\ queue' \in [Ids -> Seq(Nat)]
  BY <1>1, <1>2 DEF CommandTypeOK
<1>6. CommandTypeOK'
  BY <1>1, <1>4, <1>5 DEF CommandTypeOK
<1>7. ListInv'
  <2>1. ListFor(reply, h.id)
    BY <1>2, <1>3, SMTT(60) DEF ListInv, ListFor, CommandTypeOK
  <2>2. ASSUME NEW g \in rpc'
        PROVE  ListFor(g.cmds, g.id)'
    BY <1>1, <1>4, <2>1, <2>2 DEF ListInv, ListFor
  <2>3. ListFor(agent.todo, agent.id)'
    BY <1>1 DEF ListInv, ListFor
  <2>4. ASSUME NEW id \in Ids
        PROVE  ListFor(queue[id], id)' /\ \A i \in DOMAIN queue'[id] : queue'[id][i] # 0
    <3>1. CASE id = h.id
      BY <1>5, <3>1 DEF ListFor, Increasing
    <3>2. CASE id # h.id
      BY <1>1, <1>5, <3>2 DEF ListInv, ListFor
    <3> QED  BY <3>1, <3>2
  <2> QED  BY <1>1, <2>2, <2>3, <2>4 DEF ListInv, Increasing
<1>8. WaitInv'
  BY <1>1, <1>4 DEF WaitInv
<1>9. OrderInv'
  <2>1. ASSUME h.live
        PROVE  h.id = lastId /\ Before(applied, reply)
    BY <1>2, <1>3, <2>1 DEF WaitInv, OrderInv, Before
  <2>2. ASSUME NEW s, lastId \in Ids, Before(s, queue[lastId])
        PROVE  Before(s, queue'[lastId])
    <3>1. CASE lastId = h.id
      <4>1. DOMAIN queue'[lastId] = {}
        BY <1>5, <3>1
      <4> QED  BY <4>1, Zenon DEF Before
    <3>2. CASE lastId # h.id
      BY <1>5, <2>2, <3>2, Zenon
    <3> QED  BY <3>1, <3>2, Zenon
  <2>3. ASSUME NEW g \in rpc', g.live
        PROVE  /\ Before(applied, g.cmds)
               /\ lastId \in Ids => Before(g.cmds, queue'[lastId])
    <3>1. CASE g = answered
      BY <1>4, <1>5, <2>1, <2>3, <3>1 DEF Before
    <3>2. CASE g \in rpc
      BY <2>2, <2>3, <3>2 DEF OrderInv
    <3> QED  BY <1>1, <3>1, <3>2
  <2> QED  BY <1>1, <2>2, <2>3 DEF OrderInv
<1> QED  BY <1>6, <1>7, <1>8, <1>9

(* A handler that ends, or answers without commands, disturbs no list.     *)
LEMMA FailsOrRefuses ==
    ASSUME MaxCrashes \in Nat, CommandInv, NEW h \in rpc,
           DrainFails(h) \/ Refuse(h)
    PROVE  CommandInv'
<1> USE DEF CommandInv
<1>1. h \in Handlers /\ h.pc = "drain" /\ h.cmds = << >>
  BY DEF DrainFails, Refuse, CommandTypeOK, WaitInv
<1>2. UNCHANGED <<known, queue, target, lastId, applied>>
  BY DEF DrainFails, Refuse
<1>3. ASSUME NEW id \in Ids
      PROVE  ListFor(queue[id], id)' /\ \A i \in DOMAIN queue'[id] : queue'[id][i] # 0
  BY <1>2 DEF ListInv, ListFor
<1>4. CASE DrainFails(h)
  <2> DEFINE answered == [h EXCEPT !.pc = "reply"]
  <2>1. rpc' = (rpc \ {h}) \cup {answered} /\ agent' = agent
    BY <1>4 DEF DrainFails
  <2>2. /\ answered \in Handlers /\ answered.id = h.id /\ answered.cmds = << >>
        /\ answered.pc = "reply" /\ answered.live = h.live
    BY <1>1 DEF Handlers
  <2> HIDE DEF answered
  <2>3. CommandTypeOK'
    BY <1>2, <2>1, <2>2 DEF CommandTypeOK
  <2>4. ListInv'
    <3>1. ASSUME NEW g \in rpc'
          PROVE  ListFor(g.cmds, g.id)'
      BY <1>2, <2>1, <2>2, <3>1 DEF ListInv, ListFor, Increasing
    <3>2. ListFor(agent.todo, agent.id)'
      BY <1>2, <2>1 DEF ListInv, ListFor
    <3> QED  BY <1>2, <1>3, <3>1, <3>2 DEF ListInv, Increasing
  <2>5. WaitInv'
    BY <1>2, <2>1, <2>2 DEF WaitInv
  <2>6. OrderInv'
    BY <1>2, <2>1, <2>2 DEF OrderInv, Before
  <2> QED  BY <2>3, <2>4, <2>5, <2>6
<1>5. CASE Refuse(h)
  <2>1. rpc' = rpc \ {h}
    BY <1>5 DEF Refuse
  <2>2. /\ agent' \in Runners
        /\ agent'.id = agent.id /\ agent'.todo = agent.todo
        /\ agent' = agent \/ (h.live /\ agent'.pc = "idle")
    <3>1. CASE h.live
      <4>1. agent' = [pc |-> "idle", id |-> h.id, todo |-> << >>]
        BY <1>5, <3>1 DEF Refuse, Idle
      <4>2. agent.pc = "waiting" /\ agent.id = h.id /\ agent.todo = << >>
        BY <3>1 DEF WaitInv
      <4> QED  BY <3>1, <4>1, <4>2 DEF CommandTypeOK, Runners
    <3>2. CASE ~h.live
      BY <1>5, <3>2 DEF Refuse, CommandTypeOK
    <3> QED  BY <3>1, <3>2
  <2>3. CommandTypeOK'
    BY <1>2, <2>1, <2>2 DEF CommandTypeOK
  <2>4. ListInv'
    <3>1. ASSUME NEW g \in rpc'
          PROVE  ListFor(g.cmds, g.id)'
      BY <1>2, <2>1, <3>1 DEF ListInv, ListFor
    <3>2. ListFor(agent.todo, agent.id)'
      BY <1>2, <2>2 DEF ListInv, ListFor
    <3> QED  BY <1>2, <1>3, <3>1, <3>2 DEF ListInv, Increasing
  <2>5. WaitInv'
    BY <1>2, <2>1, <2>2, ZenonT(60) DEF WaitInv
  <2>6. OrderInv'
    BY <1>2, <2>1, <2>2 DEF OrderInv, Before
  <2> QED  BY <2>3, <2>4, <2>5, <2>6
<1> QED  BY <1>4, <1>5

(* What the agent gets is next after all it applied.                       *)
LEMMA Replies ==
    ASSUME MaxCrashes \in Nat, CommandInv, NEW h \in rpc, Reply(h)
    PROVE  CommandInv'
<1> USE DEF CommandInv
<1>1. /\ rpc' = rpc \ {h}
      /\ UNCHANGED <<known, queue, target, lastId, applied>>
  BY DEF Reply
<1>2. h \in Handlers /\ h.cmds \in Seq(Nat) /\ ListFor(h.cmds, h.id)
  BY DEF CommandTypeOK, ListInv, Handlers
<1>3. \/ ~h.live /\ agent' = agent
      \/ /\ h.live
         /\ agent' \in Runners
         /\ agent'.pc = "applying" /\ agent'.id = agent.id /\ agent'.todo = h.cmds
  BY <1>2, Zenon DEF Reply, CommandTypeOK, Runners
<1>4. h.live => agent.pc = "waiting" /\ agent.id = h.id /\ \A g \in rpc' : ~g.live
  BY <1>1 DEF WaitInv
<1>5. CommandTypeOK'
  BY <1>1, <1>3 DEF CommandTypeOK
<1>6. ListInv'
  <2>1. ASSUME NEW g \in rpc'
        PROVE  ListFor(g.cmds, g.id)'
    BY <1>1, <2>1, Zenon DEF ListInv, ListFor
  <2>2. ListFor(agent.todo, agent.id)'
    BY <1>1, <1>2, <1>3, <1>4, ZenonT(60) DEF ListInv, ListFor
  <2>3. ASSUME NEW id \in Ids
        PROVE  ListFor(queue[id], id)' /\ \A i \in DOMAIN queue'[id] : queue'[id][i] # 0
    BY <1>1 DEF ListInv, ListFor
  <2> QED  BY <1>1, <2>1, <2>2, <2>3 DEF ListInv, Increasing
<1>7. WaitInv'
  BY <1>1, <1>3, <1>4, Zenon DEF WaitInv
<1>8. OrderInv'
  BY <1>1, <1>3, <1>4 DEF OrderInv, Before
<1> QED  BY <1>5, <1>6, <1>7, <1>8

(* A command is applied before the rest of its list.                       *)
LEMMA Applies ==
    ASSUME MaxCrashes \in Nat, CommandInv, ApplyCommand
    PROVE  CommandInv'
<1> USE DEF CommandInv
<1>1. /\ agent.pc = "applying"
      /\ UNCHANGED <<known, queue, target, lastId, rpc>>
  BY DEF ApplyCommand
<1>2. /\ agent \in Runners /\ agent.todo \in Seq(Nat) /\ Increasing(agent.todo)
      /\ agent.id = lastId /\ lastId \in Ids
      /\ \A h \in rpc : ~h.live
  BY <1>1, Zenon DEF CommandTypeOK, ListInv, ListFor, WaitInv, Runners
<1>3. ASSUME NEW id \in Ids
      PROVE  ListFor(queue[id], id)' /\ \A i \in DOMAIN queue'[id] : queue'[id][i] # 0
  BY <1>1 DEF ListInv, ListFor
<1>4. \A g \in rpc' : ListFor(g.cmds, g.id)'
  BY <1>1 DEF ListInv, ListFor
<1>5. CASE agent.todo = << >>
  <2>1. agent' = [pc |-> "idle", id |-> agent.id, todo |-> << >>] /\ applied' = applied
    BY <1>5 DEF ApplyCommand, Idle
  <2>2. CommandTypeOK'
    BY <1>1, <2>1 DEF CommandTypeOK, Runners
  <2>3. ListInv'
    <3>1. ListFor(agent.todo, agent.id)'
      BY <2>1 DEF ListFor, Increasing
    <3> QED  BY <1>1, <1>3, <1>4, <2>1, <3>1 DEF ListInv, Increasing
  <2>4. WaitInv'
    BY <1>1, <1>2, <2>1, Zenon DEF WaitInv
  <2>5. OrderInv'
    BY <1>1, <1>2, <2>1 DEF OrderInv, Before
  <2> QED  BY <2>2, <2>3, <2>4, <2>5
<1>6. CASE agent.todo # << >>
  <2> DEFINE n == Head(agent.todo)
  <2>1. /\ agent' \in Runners /\ agent'.todo = Tail(agent.todo)
        /\ agent'.pc = "applying" /\ agent'.id = agent.id
    <3>1. agent' = [agent EXCEPT !.todo = Tail(agent.todo)]
      BY <1>6 DEF ApplyCommand
    <3>2. Tail(agent.todo) \in Seq(Nat)
      BY <1>2, <1>6
    <3> QED  BY <1>1, <1>2, <3>1, <3>2, Zenon DEF Runners
  <2>2. applied' = IF n = 0 THEN applied ELSE Append(applied, n)
    BY <1>6 DEF ApplyCommand
  <2>3. /\ 1 \in DOMAIN agent.todo /\ n = agent.todo[1] /\ n \in Nat
        /\ Increasing(agent'.todo)
        /\ \A i \in DOMAIN agent'.todo :
              /\ i + 1 \in DOMAIN agent.todo
              /\ agent'.todo[i] = agent.todo[i + 1]
              /\ n < agent'.todo[i]
    BY <1>2, <1>6, <2>1, TailIncreases
  <2> HIDE DEF n
  <2>4. applied' = applied \/ (n # 0 /\ applied' = Append(applied, n))
    BY <2>2
  <2>5. applied \in Seq(Nat) /\ (n # 0 => \A i \in DOMAIN applied : applied[i] < n)
    BY <2>3 DEF CommandTypeOK, OrderInv, Before
  <2>6. applied' \in Seq(Nat) /\ Increasing(applied')
    BY <2>3, <2>4, <2>5, AppendLater, Zenon DEF ListInv
  <2>7. \A i \in DOMAIN applied' :
           (\E k \in DOMAIN applied : applied'[i] = applied[k]) \/ (n # 0 /\ applied'[i] = n)
    BY <2>3, <2>4, <2>5
  <2>8. CommandTypeOK'
    BY <1>1, <2>1, <2>6 DEF CommandTypeOK
  <2>9. ListInv'
    <3>1. ListFor(agent.todo, agent.id)'
      BY <1>1, <2>1, <2>3 DEF ListInv, ListFor
    <3>2. n <= Len(target)
      BY <2>3, ZenonT(60) DEF ListInv, ListFor
    <3>3. \A i \in DOMAIN applied' : applied'[i] \in 1..Len(target')
      BY <1>1, <2>3, <2>7, <3>2 DEF ListInv, CommandTypeOK
    <3> QED  BY <1>1, <1>3, <1>4, <2>6, <3>1, <3>3, Zenon DEF ListInv
  <2>10. WaitInv'
    BY <1>1, <1>2, <2>1 DEF WaitInv
  <2>11. OrderInv'
    <3>1. Before(applied, agent.todo)'
      BY <2>3, <2>7 DEF OrderInv, Before
    <3>2. Before(applied, queue[lastId])'
      BY <1>1, <1>2, <2>3, <2>7, ZenonT(60) DEF OrderInv, Before
    <3>3. Before(agent.todo, queue[lastId])'
      BY <1>1, <1>2, <2>3, ZenonT(60) DEF OrderInv, Before
    <3> QED  BY <1>1, <1>2, <3>1, <3>2, <3>3 DEF OrderInv
  <2> QED  BY <2>8, <2>9, <2>10, <2>11
<1> QED  BY <1>5, <1>6

(* A crash only takes lists away.                                          *)
LEMMA ServerDies ==
    ASSUME MaxCrashes \in Nat, CommandInv, CrashServer
    PROVE  CommandInv'
<1> USE DEF CommandInv
<1>1. /\ rpc' = {}
      /\ UNCHANGED <<target, lastId, agent, applied>>
      /\ known' \subseteq known
      /\ queue' = queue \/ queue' = [i \in Ids |-> << >>]
  BY DEF CrashServer
<1>2. /\ queue' \in [Ids -> Seq(Nat)]
      /\ \A id \in Ids : queue'[id] = queue[id] \/ queue'[id] = << >>
  <2>1. CASE queue' = queue
    BY <2>1 DEF CommandTypeOK
  <2>2. CASE queue' = [i \in Ids |-> << >>]
    BY <2>2
  <2> QED  BY <1>1, <2>1, <2>2
<1>3. CommandTypeOK'
  BY <1>1, <1>2 DEF CommandTypeOK
<1>4. ListInv'
  <2>1. ASSUME NEW id \in Ids
        PROVE  ListFor(queue[id], id)' /\ \A i \in DOMAIN queue'[id] : queue'[id][i] # 0
    BY <1>1, <1>2 DEF ListInv, ListFor, Increasing
  <2>2. ListFor(agent.todo, agent.id)'
    BY <1>1 DEF ListInv, ListFor
  <2> QED  BY <1>1, <2>1, <2>2 DEF ListInv, Increasing
<1>5. WaitInv'
  BY <1>1, Zenon DEF WaitInv
<1>6. OrderInv'
  BY <1>1, <1>2 DEF OrderInv, Before
<1> QED  BY <1>3, <1>4, <1>5, <1>6

(* Where a command may be: the right-hand side of NothingVanishes.         *)
Placed(n) ==
    \/ \E id \in Ids : n \in Numbers(queue[id])
    \/ \E h \in rpc : n \in Numbers(h.cmds)
    \/ n \in Numbers(agent.todo)
    \/ n \in Range(applied)
    \/ n \in lost

(* The unions in NothingVanishes, member by member.                        *)
LEMMA InReplies ==
    /\ \A n : n \in UNION {Numbers(h.cmds) : h \in rpc}
              <=> \E h \in rpc : n \in Numbers(h.cmds)
    /\ \A n : n \in UNION {Numbers(queue[i]) : i \in Ids}
              <=> \E i \in Ids : n \in Numbers(queue[i])
<1>1. \A n : n \in UNION {Numbers(h.cmds) : h \in rpc}
             <=> \E h \in rpc : n \in Numbers(h.cmds)
  BY Zenon
<1>2. \A n : n \in UNION {Numbers(queue[i]) : i \in Ids}
             <=> \E i \in Ids : n \in Numbers(queue[i])
  BY Zenon
<1> QED  BY <1>1, <1>2

(* NothingVanishes, command by command.                                    *)
LEMMA PlacedMeans ==
    NothingVanishes <=> \A n : n \in 1..Len(target) <=> Placed(n)
<1> DEFINE everywhere == Queued \cup InFlight \cup Range(applied) \cup lost
<1>1. \A n : n \in everywhere <=> Placed(n)
  <2>1. \A n : n \in Queued <=> \E i \in Ids : n \in Numbers(queue[i])
    BY InReplies DEF Queued
  <2>2. \A n : n \in InFlight
               <=> (\E h \in rpc : n \in Numbers(h.cmds)) \/ n \in Numbers(agent.todo)
    BY InReplies DEF InFlight
  <2> QED  BY <2>1, <2>2 DEF Placed
<1>2. NothingVanishes <=> 1..Len(target) = everywhere
  BY DEF NothingVanishes
<1> HIDE DEF everywhere
<1> QED  BY <1>1, <1>2, Zenon

(* What list operations do to the numbers in a list.                       *)
LEMMA NumbersOf ==
    ASSUME NEW s \in Seq(Nat)
    PROVE  /\ Numbers(<<0>> \o s) = Numbers(s)
           /\ \A n \in Nat \ {0} : Numbers(Append(s, n)) = Numbers(s) \cup {n}
           /\ s # << >> => Numbers(s) = Numbers(Tail(s)) \cup ({Head(s)} \ {0})
           /\ \A n \in Nat : Range(Append(s, n)) = Range(s) \cup {n}
<1>1. Numbers(<<0>> \o s) = Numbers(s)
  <2> DEFINE r == <<0>> \o s
  <2>1. /\ r[1] = 0
        /\ \A i \in DOMAIN r : i = 1 \/ (i - 1 \in DOMAIN s /\ r[i] = s[i - 1])
        /\ \A i \in DOMAIN s : i + 1 \in DOMAIN r /\ r[i + 1] = s[i]
    BY SMTT(60)
  <2> HIDE DEF r
  <2>2. Numbers(r) = Numbers(s)
    BY <2>1 DEF Numbers
  <2> QED  BY <2>2 DEF r
<1>2. ASSUME NEW n \in Nat
      PROVE  {Append(s, n)[i] : i \in DOMAIN Append(s, n)} = {s[i] : i \in DOMAIN s} \cup {n}
  <2> DEFINE r == Append(s, n)
  <2>1. /\ Len(s) + 1 \in DOMAIN r /\ r[Len(s) + 1] = n
        /\ \A i \in DOMAIN r : i = Len(s) + 1 \/ (i \in DOMAIN s /\ r[i] = s[i])
        /\ \A i \in DOMAIN s : i \in DOMAIN r /\ r[i] = s[i]
    OBVIOUS
  <2> HIDE DEF r
  <2>2. {r[i] : i \in DOMAIN r} = {s[i] : i \in DOMAIN s} \cup {n}
    BY <2>1
  <2> QED  BY <2>2, Zenon DEF r
<1>3. ASSUME s # << >>
      PROVE  Numbers(s) = Numbers(Tail(s)) \cup ({Head(s)} \ {0})
  <2> DEFINE r == Tail(s)
  <2>1. /\ 1 \in DOMAIN s /\ s[1] = Head(s)
        /\ \A i \in DOMAIN s : i = 1 \/ (i - 1 \in DOMAIN r /\ s[i] = r[i - 1])
        /\ \A i \in DOMAIN r : i + 1 \in DOMAIN s /\ s[i + 1] = r[i]
    BY <1>3
  <2> HIDE DEF r
  <2>2. Numbers(s) = Numbers(r) \cup ({Head(s)} \ {0})
    BY <2>1, SMTT(60) DEF Numbers
  <2> QED  BY <2>2 DEF r
<1>4. \A n \in Nat \ {0} : Numbers(Append(s, n)) = Numbers(s) \cup {n}
  BY <1>2, Zenon DEF Numbers
<1>5. \A n \in Nat : Range(Append(s, n)) = Range(s) \cup {n}
  BY <1>2, Zenon DEF Range
<1> QED  BY <1>1, <1>3, <1>4, <1>5

(* An empty list has none.                                                 *)
LEMMA NoNumbers ==
    Numbers(<< >>) = {}
BY DEF Numbers

(* Every step but a new command leaves each command accounted for.         *)
LEMMA StepsKeepPlaces ==
    ASSUME MaxCrashes \in Nat, CommandInv, Next,
           \A id \in Ids : ~EnqueueCommand(id)
    PROVE  target' = target /\ \A n : Placed(n)' <=> Placed(n)
<1> USE DEF CommandInv
<1>1. target' = target
  BY Zenon DEF Next, Enroll, SendHeartbeat, Timeout,
         HandlerStep, Drain, DrainFails, Refuse,
         Reply, ApplyCommand, CrashAgent, CrashServer
<1>2. CASE Enroll
  <2>1. agent'.todo = agent.todo /\ UNCHANGED <<queue, rpc, applied, lost>>
    BY <1>2, SMTT(60) DEF Enroll, Stopped, Idle
  <2> QED  BY <1>1, <2>1 DEF Placed
<1>3. CASE SendHeartbeat
  <2>1. /\ agent'.todo = agent.todo /\ UNCHANGED <<queue, applied, lost>>
        /\ rpc' = rpc \cup {[id |-> agent.id, pc |-> "drain", cmds |-> << >>, live |-> TRUE]}
    BY <1>3 DEF SendHeartbeat, CommandTypeOK, Runners
  <2>2. \A n : (\E h \in rpc' : n \in Numbers(h.cmds))
                <=> \E h \in rpc : n \in Numbers(h.cmds)
    BY <2>1, NoNumbers
  <2> QED  BY <1>1, <2>1, <2>2 DEF Placed
<1>4. CASE Timeout \/ CrashAgent
  <2>1. /\ rpc' = Abandon(rpc) /\ UNCHANGED <<queue, applied>>
        /\ agent'.todo = << >>
        /\ lost' = lost \cup Numbers(agent.todo)
    <3>1. CASE Timeout
      BY <3>1, NoNumbers, Zenon DEF Timeout, Idle, WaitInv
    <3>2. CASE CrashAgent
      BY <3>2 DEF CrashAgent, Stopped
    <3> QED  BY <1>4, <3>1, <3>2, ZenonT(60)
  <2>2. \A n : (\E h \in rpc' : n \in Numbers(h.cmds))
                <=> \E h \in rpc : n \in Numbers(h.cmds)
    <3>1. ASSUME NEW h \in rpc
          PROVE  \E g \in rpc' : g.cmds = h.cmds
      <4>1. [h EXCEPT !.live = FALSE] \in rpc'
        BY <2>1, Zenon DEF Abandon
      <4>2. [h EXCEPT !.live = FALSE].cmds = h.cmds
        BY DEF CommandTypeOK, Handlers
      <4> QED  BY <4>1, <4>2, Zenon
    <3>2. ASSUME NEW g \in rpc'
          PROVE  \E h \in rpc : g.cmds = h.cmds
      BY <2>1, Abandoned DEF CommandTypeOK
    <3> QED  BY <3>1, <3>2
  <2> QED  BY <1>1, <2>1, <2>2, NoNumbers DEF Placed
<1>5. ASSUME NEW h \in rpc, NEW drift \in BOOLEAN, Drain(h, drift)
      PROVE  \A n : Placed(n)' <=> Placed(n)
  <2> DEFINE reply == (IF drift THEN <<0>> ELSE << >>) \o queue[h.id]
             answered == [h EXCEPT !.pc = "reply", !.cmds = reply]
  <2>1. /\ rpc' = (rpc \ {h}) \cup {answered}
        /\ queue' = [queue EXCEPT ![h.id] = << >>]
        /\ h.pc = "drain"
        /\ UNCHANGED <<agent, applied, lost>>
    BY <1>5 DEF Drain
  <2>2. h \in Handlers /\ h.id \in Ids /\ queue[h.id] \in Seq(Nat)
    BY DEF CommandTypeOK, Handlers
  <2>3. Numbers(reply) = Numbers(queue[h.id])
    <3>1. CASE drift
      BY <2>2, <3>1, NumbersOf
    <3>2. CASE ~drift
      BY <2>2, <3>2
    <3> QED  BY <3>1, <3>2
  <2> HIDE DEF reply
  <2>4. answered.cmds = reply
    BY <2>2 DEF Handlers
  <2> HIDE DEF answered
  <2>5. \A n : (\E g \in rpc' : n \in Numbers(g.cmds))
                <=> \/ \E g \in rpc : n \in Numbers(g.cmds)
                    \/ n \in Numbers(queue[h.id])
    <3>1. Numbers(h.cmds) = {}
      BY <2>1, NoNumbers DEF WaitInv
    <3> QED  BY <2>1, <2>3, <2>4, <3>1
  <2>6. \A n : (\E id \in Ids : n \in Numbers(queue'[id]))
                <=> \E id \in Ids \ {h.id} : n \in Numbers(queue[id])
    <3>1. Numbers(queue'[h.id]) = {}
      BY <2>1, <2>2, NoNumbers DEF CommandTypeOK
    <3>2. \A id \in Ids \ {h.id} : queue'[id] = queue[id]
      BY <2>1 DEF CommandTypeOK
    <3> QED  BY <2>2, <3>1, <3>2, Zenon
  <2> QED  BY <2>1, <2>2, <2>5, <2>6, Zenon DEF Placed
<1>6. ASSUME NEW h \in rpc, DrainFails(h) \/ Refuse(h)
      PROVE  \A n : Placed(n)' <=> Placed(n)
  <2>1. h \in Handlers /\ Numbers(h.cmds) = {}
    BY <1>6, NoNumbers DEF DrainFails, Refuse, CommandTypeOK, WaitInv
  <2>2. agent'.todo = agent.todo /\ UNCHANGED <<queue, applied, lost>>
    BY <1>6 DEF DrainFails, Refuse, Idle, WaitInv
  <2>3. rpc' = rpc \ {h} \/ rpc' = (rpc \ {h}) \cup {[h EXCEPT !.pc = "reply"]}
    BY <1>6 DEF DrainFails, Refuse
  <2>4. [h EXCEPT !.pc = "reply"].cmds = h.cmds
    BY <2>1 DEF Handlers
  <2>5. \A n : (\E g \in rpc' : n \in Numbers(g.cmds))
                <=> \E g \in rpc : n \in Numbers(g.cmds)
    BY <2>1, <2>3, <2>4, Zenon
  <2> QED  BY <2>2, <2>5 DEF Placed
<1>7. ASSUME NEW h \in rpc, Reply(h)
      PROVE  \A n : Placed(n)' <=> Placed(n)
  <2>1. rpc' = rpc \ {h} /\ UNCHANGED <<queue, applied>>
    BY <1>7 DEF Reply
  <2>2. \/ agent' = agent /\ lost' = lost \cup Numbers(h.cmds)
        \/ /\ agent'.todo = h.cmds /\ lost' = lost
           /\ Numbers(agent.todo) = {}
    BY <1>7, NoNumbers, Zenon DEF Reply, CommandTypeOK, Runners, WaitInv
  <2> QED  BY <2>1, <2>2 DEF Placed
<1>8. CASE ApplyCommand
  <2>1. UNCHANGED <<queue, rpc, lost>> /\ agent.todo \in Seq(Nat) /\ applied \in Seq(Nat)
    BY <1>8 DEF ApplyCommand, CommandTypeOK, Runners
  <2>2. CASE agent.todo = << >>
    BY <1>8, <2>1, <2>2 DEF ApplyCommand, Idle, Placed
  <2>3. CASE agent.todo # << >>
    <3>1. /\ agent'.todo = Tail(agent.todo)
          /\ applied' = IF Head(agent.todo) = 0 THEN applied ELSE Append(applied, Head(agent.todo))
          /\ Head(agent.todo) \in Nat
      BY <1>8, <2>1, <2>3, SMTT(60) DEF ApplyCommand, CommandTypeOK, Runners
    <3>2. /\ Numbers(agent.todo)
                = Numbers(agent'.todo) \cup ({Head(agent.todo)} \ {0})
          /\ Range(applied') = Range(applied) \cup ({Head(agent.todo)} \ {0})
      BY <2>1, <2>3, <3>1, NumbersOf
    <3>3. \A n : n \in Numbers(agent.todo) \/ n \in Range(applied)
                 <=> n \in Numbers(agent'.todo) \/ n \in Range(applied')
      BY <3>2
    <3> QED  BY <1>1, <2>1, <3>3 DEF Placed
  <2> QED  BY <2>2, <2>3
<1>9. CASE CrashServer
  <2>1. /\ rpc' = {} /\ UNCHANGED <<agent, applied>>
        /\ lost' = lost \cup (UNION {Numbers(h.cmds) : h \in rpc})
                        \cup (IF durable THEN {}
                              ELSE UNION {Numbers(queue[i]) : i \in Ids})
        /\ queue' = IF durable THEN queue ELSE [i \in Ids |-> << >>]
    BY <1>9 DEF CrashServer
  <2>2. CASE durable
    <3>1. UNCHANGED queue /\ lost' = lost \cup UNION {Numbers(h.cmds) : h \in rpc}
      BY <2>1, <2>2
    <3>2. \A n : n \in lost' <=> n \in lost \/ \E h \in rpc : n \in Numbers(h.cmds)
      BY <3>1, InReplies
    <3> QED  BY <1>1, <2>1, <3>1, <3>2 DEF Placed
  <2>3. CASE ~durable
    <3>1. \A id \in Ids : Numbers(queue'[id]) = {}
      BY <2>1, <2>3, NoNumbers
    <3>2. \A n : n \in lost' <=> \/ n \in lost
                                 \/ \E h \in rpc : n \in Numbers(h.cmds)
                                 \/ \E i \in Ids : n \in Numbers(queue[i])
      <4> DEFINE replies == UNION {Numbers(h.cmds) : h \in rpc}
                 queues == UNION {Numbers(queue[i]) : i \in Ids}
      <4>1. lost' = lost \cup replies \cup queues
        BY <2>1, <2>3
      <4>2. /\ \A n : n \in replies <=> \E h \in rpc : n \in Numbers(h.cmds)
            /\ \A n : n \in queues <=> \E i \in Ids : n \in Numbers(queue[i])
        BY InReplies
      <4> HIDE DEF replies, queues
      <4>3. \A n : n \in lost' <=> n \in lost \/ n \in replies \/ n \in queues
        BY <4>1
      <4> QED  BY <4>2, <4>3, Zenon
    <3> QED  BY <1>1, <2>1, <3>1, <3>2 DEF Placed
  <2> QED  BY <2>2, <2>3
<1> QED  BY <1>1, <1>2, <1>3, <1>4, <1>5, <1>6, <1>7, <1>8, <1>9
         DEF Next, HandlerStep

(* A command has its place once it is queued.                              *)
LEMMA NewIsPlaced ==
    ASSUME MaxCrashes \in Nat, CommandInv, NEW id \in Ids, EnqueueCommand(id)
    PROVE  \A n : (n \in 1..Len(target') <=> n \in 1..Len(target) \/ n = Len(target'))
                /\ (Placed(n)' <=> Placed(n) \/ n = Len(target'))
<1>1. /\ target \in Seq(Nat) /\ Len(target') = Len(target) + 1
      /\ queue[id] \in Seq(Nat)
      /\ queue' = [queue EXCEPT ![id] = Append(@, Len(target'))]
      /\ UNCHANGED <<agent, rpc, applied, lost>>
  BY DEF EnqueueCommand, CommandInv, CommandTypeOK
<1>2. /\ Numbers(queue'[id]) = Numbers(queue[id]) \cup {Len(target')}
      /\ \A i \in Ids \ {id} : queue'[i] = queue[i]
  <2>1. /\ queue'[id] = Append(queue[id], Len(target'))
        /\ Len(target') \in Nat \ {0}
        /\ \A i \in Ids \ {id} : queue'[i] = queue[i]
    BY <1>1 DEF CommandInv, CommandTypeOK
  <2> QED  BY <1>1, <2>1, NumbersOf
<1>3. \A n : n \in 1..Len(target') <=> n \in 1..Len(target) \/ n = Len(target')
  BY <1>1
<1>4. \A n : Placed(n)' <=> Placed(n) \/ n = Len(target')
  BY <1>1, <1>2, ZenonT(60) DEF Placed
<1> QED  BY <1>3, <1>4

(* An operator command is applied at most once, in the order operators     *)
(* queued it and by the agent it was queued for, whatever number of calls  *)
(* time out while their handler runs on and of crashes of either side.     *)
THEOREM CommandsApplyOnce ==
    ASSUME MaxCrashes \in Nat
    PROVE  Spec => [](AtMostOnceInOrder /\ NothingVanishes)
<1> DEFINE Inv == CommandInv /\ NothingVanishes
<1>1. Init => Inv
  <2>1. Init => NothingVanishes
    <3> SUFFICES ASSUME Init
                 PROVE  \A n : n \notin 1..Len(target) /\ ~Placed(n)
      BY PlacedMeans
    <3>1. target = << >> /\ rpc = {} /\ agent.todo = << >> /\ applied = << >> /\ lost = {}
          /\ \A id \in Ids : queue[id] = << >>
      BY DEF Init, Stopped
    <3>2. Range(applied) = {}
      BY <3>1 DEF Range
    <3> QED  BY <3>1, <3>2, NoNumbers DEF Placed
  <2> QED  BY <2>1, CommandInit
<1>2. Inv /\ [Next]_(vars) => Inv'
  <2>1. ASSUME CommandInv, UNCHANGED vars
        PROVE  CommandInv'
    <3>1. UNCHANGED <<known, queue, target, lastId, agent, rpc, applied>>
      BY <2>1, Zenon DEF vars
    <3>2. CommandTypeOK' /\ WaitInv' /\ OrderInv'
      BY <2>1, <3>1, ZenonT(60) DEF CommandInv, CommandTypeOK, WaitInv, OrderInv, Before
    <3>3. ListInv'
      BY <2>1, <3>1, Zenon DEF CommandInv, ListInv, ListFor, Increasing
    <3> QED  BY <3>2, <3>3 DEF CommandInv
  <2>2. ASSUME CommandInv, NEW h \in rpc, HandlerStep(h)
        PROVE  CommandInv'
    BY <2>2, Drains, FailsOrRefuses, Replies DEF HandlerStep
  <2>3. ASSUME CommandInv, Next
        PROVE  CommandInv'
    BY <2>2, <2>3, EnrollsAfresh, EnqueuesLast, Calls, GivesUp, Applies, ServerDies
    DEF Next
  <2>4. ASSUME Inv, Next
        PROVE  NothingVanishes'
    <3>a. (NothingVanishes <=> \A n : n \in 1..Len(target) <=> Placed(n))'
      BY PlacedMeans, PTL
    <3> SUFFICES \A n : n \in 1..Len(target') <=> Placed(n)'
      BY <3>a
    <3>1. \A n : n \in 1..Len(target) <=> Placed(n)
      BY <2>4, PlacedMeans
    <3>2. CASE \E id \in Ids : EnqueueCommand(id)
      BY <2>4, <3>1, <3>2, NewIsPlaced
    <3>3. CASE \A id \in Ids : ~EnqueueCommand(id)
      BY <2>4, <3>1, <3>3, StepsKeepPlaces
    <3> QED  BY <3>2, <3>3
  <2>5. ASSUME NothingVanishes, UNCHANGED vars
        PROVE  NothingVanishes'
    BY <2>5 DEF vars, NothingVanishes, Queued, InFlight
  <2> QED  BY <2>1, <2>3, <2>4, <2>5
<1>3. Inv => AtMostOnceInOrder /\ NothingVanishes
  <2> SUFFICES ASSUME CommandInv
               PROVE  AtMostOnceInOrder
    OBVIOUS
  <2>1. \A i, j \in 1..Len(applied) : i < j => applied[i] < applied[j]
    BY DEF CommandInv, CommandTypeOK, ListInv, Increasing
  <2>2. \A n \in Numbers(agent.todo) : target[n] = agent.id
    BY DEF CommandInv, ListInv, ListFor, Numbers
  <2> QED  BY <2>1, <2>2 DEF AtMostOnceInOrder
<1> HIDE DEF Inv
<1> QED  BY <1>1, <1>2, <1>3, PTL DEF Spec
-----------------------------------------------------------------------------
(* The distribution of rules.                                              *)
CONSTANTS Names, Contents, Policies, Broken, Absent, LocalDir, FleetDir, MaxEdits

VARIABLES
    fleetDir, policyDoc, edits, reload, served,
    localDir, ruleEngine, ver, posture

Rules == INSTANCE RuleSync WITH engine <- ruleEngine

(* Rule directories, served bundles and updates in progress.               *)
Dirs == [Names -> Contents \cup {Absent, Broken}]
Bundles == [rules : Dirs, policy : Policies \cup {""}]
Updates == [pc : {"write"}, got : Bundles, todo : SUBSET Names]

(* What a bundle put in the agent's directory stays there until the        *)
(* directory is compiled; and the version reported before the first bundle *)
(* was applied is only what the server said at enrollment.                 *)
RuleInv ==
    /\ fleetDir \in Dirs
    /\ policyDoc \in Policies \cup {""}
    /\ served \in Bundles
    /\ localDir \in Dirs
    /\ agent \in {Rules!At(pc) : pc \in {"down", "enroll", "sync", "loop"}} \cup Updates
    /\ agent.pc \in {"down", "enroll"} => ~applied
    /\ agent.pc = "write" =>
          \A n \in Rules!Files(agent.got.rules) \ agent.todo : localDir[n] = agent.got.rules[n]
    /\ Rules!ReportedIsRunning

(* No version is reported at the start.                                    *)
LEMMA RuleInit ==
    ASSUME LocalDir \in Dirs, FleetDir \in Dirs, Rules!Init
    PROVE  RuleInv
BY Zenon DEF Rules!Init, Rules!Down, Rules!At, RuleInv, Bundles, Rules!ReportedIsRunning

(* What an update in some state consists of.                               *)
LEMMA UpdateKinds ==
    ASSUME NEW a \in {Rules!At(pc) : pc \in {"down", "enroll", "sync", "loop"}} \cup Updates,
           a.pc = "write"
    PROVE  a \in Updates
BY DEF Rules!At, Updates

(* Edits and reloads on the server leave the agent alone.                  *)
LEMMA ServerSteps ==
    ASSUME RuleInv, Rules!ServerStep
    PROVE  RuleInv'
<1>1. UNCHANGED <<agent, localDir, ruleEngine, ver, posture, applied>>
  BY SMTT(60) DEF Rules!ServerStep, Rules!EditFile, Rules!EditPolicy, Rules!ReloadValidate, Rules!ReloadSwap,
         Rules!agentVars
<1>2. fleetDir' \in Dirs /\ policyDoc' \in Policies \cup {""} /\ served' \in Bundles
  <2>1. ASSUME NEW n \in Names, NEW c \in Contents \cup {Absent}, Rules!EditFile(n, c)
        PROVE  fleetDir' \in Dirs /\ policyDoc' = policyDoc /\ served' = served
    BY <2>1, Zenon DEF Rules!EditFile, RuleInv, Dirs
  <2>2. ASSUME NEW policy \in Policies, Rules!EditPolicy(policy)
        PROVE  fleetDir' = fleetDir /\ policyDoc' \in Policies /\ served' = served
    BY <2>2, SMTT(60) DEF Rules!EditPolicy
  <2>3. CASE Rules!ReloadValidate
    BY <2>3, Zenon DEF Rules!ReloadValidate, RuleInv
  <2>4. CASE Rules!ReloadSwap
    BY <2>4, Zenon DEF Rules!ReloadSwap, RuleInv, Bundles
  <2> QED  BY <2>1, <2>2, <2>3, <2>4, Zenon DEF Rules!ServerStep, RuleInv
<1> QED  BY <1>1, <1>2, Zenon DEF RuleInv, Rules!ReportedIsRunning

(* The rules of a bundle whose files are all in place are rules of the     *)
(* directory.                                                              *)
LEMMA BundleInDirectory ==
    ASSUME NEW dir \in Dirs, NEW rules \in Dirs,
           \A n \in Rules!Files(rules) : dir[n] = rules[n]
    PROVE  Rules!RulesIn(rules) \subseteq Rules!RulesIn(dir)
<1>1. ASSUME NEW r \in Rules!RulesIn(rules)
      PROVE  r \in Rules!RulesIn(dir)
  <2>1. PICK n \in Rules!Files(rules) : rules[n] # Broken /\ r \in rules[n]
    BY DEF Rules!RulesIn
  <2>2. n \in Rules!Files(dir) /\ dir[n] # Broken /\ r \in dir[n]
    BY <2>1 DEF Rules!Files
  <2> QED  BY <2>2 DEF Rules!RulesIn
<1> QED  BY <1>1

(* The agent's fetch, writes, load and crash.                              *)
LEMMA AgentSteps ==
    ASSUME RuleInv, Rules!AgentStep
    PROVE  RuleInv'
<1>1. UNCHANGED <<fleetDir, policyDoc, served>>
  BY Zenon DEF Rules!AgentStep, Rules!Start, Rules!Enroll, Rules!FetchRules, Rules!FetchFails,
         Rules!WriteFile, Rules!WriteFails, Rules!Apply, Rules!Heartbeat, Rules!Crash, Rules!serverVars
<1>2. CASE Rules!Start
  BY <1>1, <1>2, Zenon DEF Rules!Start, Rules!Down, Rules!At, RuleInv, Rules!ReportedIsRunning
<1>3. CASE Rules!Enroll
  BY <1>1, <1>3, Zenon DEF Rules!Enroll, Rules!At, RuleInv, Rules!ReportedIsRunning
<1>4. CASE Rules!FetchRules
  <2>1. /\ agent.pc = "sync"
        /\ UNCHANGED <<localDir, ruleEngine, ver, posture, applied>>
        /\ \/ agent' = Rules!At("loop")
           \/ agent' = [pc |-> "write", got |-> served, todo |-> Rules!Files(served.rules)]
    BY <1>4 DEF Rules!FetchRules
  <2>2. [pc |-> "write", got |-> served, todo |-> Rules!Files(served.rules)] \in Updates
    BY ZenonT(60) DEF RuleInv, Updates, Rules!Files
  <2>3. CASE agent' = Rules!At("loop")
    BY <1>1, <2>1, <2>3, ZenonT(60) DEF Rules!At, RuleInv, Rules!ReportedIsRunning
  <2>4. CASE agent' = [pc |-> "write", got |-> served, todo |-> Rules!Files(served.rules)]
    <3>1. agent' \in Updates /\ agent'.pc = "write" /\ agent'.todo = Rules!Files(agent'.got.rules)
      BY <2>2, <2>4
    <3> QED  BY <1>1, <2>1, <3>1, Zenon DEF RuleInv, Rules!ReportedIsRunning
  <2> QED  BY <2>1, <2>3, <2>4
<1>5. CASE Rules!FetchFails
  BY <1>1, <1>5, Zenon DEF Rules!FetchFails, Rules!At, RuleInv, Rules!ReportedIsRunning
<1>6. ASSUME NEW n \in Names, Rules!WriteFile(n)
      PROVE  RuleInv'
  <2>1. /\ agent.pc = "write"
        /\ localDir' = [localDir EXCEPT ![n] = agent.got.rules[n]]
        /\ agent' = [agent EXCEPT !.todo = @ \ {n}]
        /\ UNCHANGED <<ruleEngine, ver, posture, applied>>
    BY <1>6 DEF Rules!WriteFile
  <2>2. agent \in Updates
    BY <2>1, UpdateKinds, Zenon DEF RuleInv
  <2>3. agent' \in Updates /\ agent'.got = agent.got /\ agent'.todo = agent.todo \ {n}
    BY <2>1, <2>2 DEF Updates
  <2>4. localDir' \in Dirs
    BY <2>1, <2>2, Zenon DEF RuleInv, Dirs, Updates, Bundles
  <2>5. ASSUME NEW m \in Rules!Files(agent'.got.rules) \ agent'.todo
        PROVE  localDir'[m] = agent'.got.rules[m]
    <3>1. CASE m = n
      BY <2>1, <2>3, <3>1, Zenon DEF RuleInv, Dirs
    <3>2. CASE m # n
      BY <2>1, <2>3, <3>2, Zenon DEF RuleInv, Dirs, Rules!Files
    <3> QED  BY <3>1, <3>2
  <2>6. agent'.pc = "write"
    BY <2>3 DEF Updates
  <2> QED  BY <1>1, <2>1, <2>3, <2>4, <2>5, <2>6, Zenon DEF RuleInv, Rules!ReportedIsRunning
<1>7. ASSUME NEW n \in Names, Rules!WriteFails(n)
      PROVE  RuleInv'
  <2>1. /\ agent' = Rules!At("loop")
        /\ localDir' \in {localDir, [localDir EXCEPT ![n] = Broken]}
        /\ UNCHANGED <<ruleEngine, ver, posture, applied>>
    BY <1>7, SMTT(60) DEF Rules!WriteFails
  <2>2. localDir' \in Dirs
    BY <2>1, Zenon DEF RuleInv, Dirs
  <2> QED  BY <1>1, <2>1, <2>2, Zenon DEF Rules!At, RuleInv, Rules!ReportedIsRunning
<1>8. CASE Rules!Apply
  <2>1. /\ agent.pc = "write" /\ agent.todo = {}
        /\ agent' = Rules!At("loop")
        /\ localDir' = localDir
    BY <1>8, ZenonT(60) DEF Rules!Apply
  <2>2. agent \in Updates
    BY <2>1, UpdateKinds, Zenon DEF RuleInv
  <2>3. Rules!ReportedIsRunning'
    <3>1. CASE Rules!LoadDir(localDir)
      <4>1. /\ ruleEngine' = Rules!RulesIn(localDir)
            /\ posture' = IF agent.got.policy # "" THEN agent.got.policy ELSE posture
            /\ ver' = agent.got
        BY <1>8, <3>1, Zenon DEF Rules!Apply
      <4>2. Rules!RulesIn(agent.got.rules) \subseteq Rules!RulesIn(localDir)
        BY <2>1, <2>2, BundleInDirectory, Zenon DEF RuleInv, Updates, Bundles
      <4> QED  BY <4>1, <4>2, Zenon DEF Rules!ReportedIsRunning
    <3>2. CASE ~Rules!LoadDir(localDir)
      BY <1>8, <3>2, ZenonT(60) DEF Rules!Apply, RuleInv, Rules!ReportedIsRunning
    <3> QED  BY <3>1, <3>2
  <2> QED  BY <1>1, <2>1, <2>3, ZenonT(60) DEF Rules!At, RuleInv
<1>9. CASE Rules!Heartbeat
  BY <1>1, <1>9, ZenonT(60) DEF Rules!Heartbeat, Rules!At, RuleInv, Rules!ReportedIsRunning
<1>10. CASE Rules!Crash
  <2>1. agent' = Rules!Down /\ ~applied'
    BY <1>10 DEF Rules!Crash
  <2>2. localDir' \in Dirs
    <3>1. localDir' = localDir \/ \E n : localDir' = [localDir EXCEPT ![n] = Broken]
      BY <1>10 DEF Rules!Crash
    <3> QED  BY <3>1, Zenon DEF RuleInv, Dirs
  <2> QED  BY <1>1, <2>1, <2>2, Zenon DEF Rules!Down, Rules!At, RuleInv, Rules!ReportedIsRunning
<1> QED  BY <1>2, <1>3, <1>4, <1>5, <1>6, <1>7, <1>8, <1>9, <1>10 DEF Rules!AgentStep

(* The version an agent reports after it applied a bundle is one it runs   *)
(* (fleet.go syncRules): its engine has every rule of that bundle and its  *)
(* posture is the one the bundle asks for, for any files and edits and     *)
(* whatever write failed or crash came in between.                         *)
THEOREM ReportedVersionRuns ==
    ASSUME LocalDir \in Dirs, FleetDir \in Dirs
    PROVE  Rules!Spec => []Rules!ReportedIsRunning
<1>1. RuleInv /\ [Rules!Next]_(Rules!vars) => RuleInv'
  <2>1. ASSUME RuleInv, UNCHANGED Rules!vars
        PROVE  RuleInv'
    BY <2>1, ZenonT(60) DEF Rules!vars, Rules!serverVars, Rules!agentVars, RuleInv, Rules!ReportedIsRunning
  <2> QED  BY <2>1, ServerSteps, AgentSteps, SMTT(60) DEF Rules!Next
<1>2. RuleInv => Rules!ReportedIsRunning
  BY Zenon DEF RuleInv
<1> QED  BY <1>1, <1>2, RuleInit, PTL DEF Rules!Spec

-----------------------------------------------------------------------------
(* The audit log.                                                          *)
CONSTANTS Writers, Actions, Key, NoKey, MaxEntries, MaxRestarts

VARIABLES seq, prev, mu, writer, trail, gaps, restarts

Log == INSTANCE AuditLog WITH file <- trail

(* What a sequence holds.                                                  *)
Items(s) == {s[i] : i \in DOMAIN s}

(* A sequence is a function on its indexes.                                *)
LEMMA SeqIsFunctions ==
    ASSUME NEW S
    PROVE  Seq(S) = UNION {[1..n -> S] : n \in Nat}
OBVIOUS

(* NoKey stands for no key, no holder of the mutex and no entry.           *)
NoKeyIsApart ==
    /\ NoKey \notin Writers
    /\ \A n, action, previous : NoKey # Log!Entry(n, action, previous)

(* The hash the next entry is linked to.                                   *)
LastHash(entries) == IF entries = << >> THEN Log!Zero ELSE entries[Len(entries)].hash

(* The i-th entry has number i and is linked to the one before it.         *)
Chained(entries) ==
    \A i \in 1..Len(entries) : \E action \in Actions :
        entries[i] = Log!Entry(i, action, IF i = 1 THEN Log!Zero ELSE entries[i - 1].hash)

(* Between two requests the chain state in memory is where the file ends;  *)
(* while a request holds the mutex with a sealed entry, it is one further. *)
ChainInv ==
    /\ mu \in Writers \cup {NoKey}
    /\ writer = [w \in Writers |-> writer[w]]
    /\ \A w \in Writers : writer[w] # NoKey => mu = w
    /\ trail \in Seq(Items(trail))
    /\ gaps \in BOOLEAN
    /\ restarts \in Nat
    /\ restarts = 0 /\ ~gaps =>
          /\ Chained(trail)
          /\ \/ /\ \A w \in Writers : writer[w] = NoKey
                /\ seq = Len(trail)
                /\ prev = LastHash(trail)
             \/ \E w \in Writers, action \in Actions :
                /\ writer[w] = Log!Entry(Len(trail) + 1, action, LastHash(trail))
                /\ seq = Len(trail) + 1
                /\ prev = writer[w].hash

(* A sequence is one over its own items.                                   *)
LEMMA IsSequence ==
    ASSUME NEW S, NEW s \in Seq(S)
    PROVE  s \in Seq(Items(s))
BY SeqIsFunctions, SMTT(60) DEF Items

(* A record that links to the last one continues the chain.                *)
LEMMA AppendChained ==
    ASSUME NEW S, NEW s \in Seq(S), Chained(s), NEW action \in Actions
    PROVE  Chained(Append(s, Log!Entry(Len(s) + 1, action, LastHash(s))))
<1> DEFINE e == Log!Entry(Len(s) + 1, action, LastHash(s))
           t == Append(s, e)
<1>1. /\ Len(t) = Len(s) + 1
      /\ t[Len(s) + 1] = e
      /\ \A i \in 1..Len(s) : t[i] = s[i]
      /\ Len(s) \in Nat
      /\ s = << >> <=> Len(s) = 0
  <2>1. s \in Seq(S \cup {e})
    BY SeqIsFunctions
  <2> HIDE DEF e
  <2> QED  BY <2>1
<1> HIDE DEF t
<1>2. ASSUME NEW i \in 1..Len(t)
      PROVE  \E a \in Actions : t[i] = Log!Entry(i, a, IF i = 1 THEN Log!Zero ELSE t[i - 1].hash)
  <2>1. CASE i = Len(s) + 1
    <3>1. LastHash(s) = IF i = 1 THEN Log!Zero ELSE t[i - 1].hash
      BY <1>1, <2>1 DEF LastHash
    <3> QED  BY <1>1, <2>1, <3>1
  <2>2. CASE i \in 1..Len(s)
    <3>1. PICK a \in Actions : s[i] = Log!Entry(i, a, IF i = 1 THEN Log!Zero ELSE s[i - 1].hash)
      BY <2>2 DEF Chained
    <3>2. t[i] = s[i] /\ (i # 1 => t[i - 1] = s[i - 1])
      BY <1>1, <2>2
    <3> QED  BY <3>1, <3>2
  <2> QED  BY <1>1, <2>1, <2>2
<1> QED  BY <1>2, Zenon DEF Chained, t

(* The log is empty at the start.                                          *)
LEMMA AuditInit ==
    Log!Init => ChainInv
<1> SUFFICES ASSUME Log!Init
             PROVE  ChainInv
  OBVIOUS
<1>1. trail = << >> /\ Len(trail) = 0 /\ trail \in Seq(Items(trail))
  BY DEF Log!Init
<1>2. writer = [w \in Writers |-> writer[w]] /\ \A w \in Writers : writer[w] = NoKey
  BY DEF Log!Init
<1>3. Chained(trail) /\ prev = LastHash(trail) /\ seq = Len(trail)
  BY <1>1 DEF Log!Init, Chained, LastHash
<1>4. mu \in Writers \cup {NoKey} /\ gaps \in BOOLEAN /\ restarts \in Nat
  BY Zenon DEF Log!Init
<1> QED  BY <1>1, <1>2, <1>3, <1>4 DEF ChainInv

(* Whoever holds the mutex continues the chain; a failed write leaves a    *)
(* gap.                                                                    *)
LEMMA AuditStep ==
    ASSUME NoKeyIsApart, ChainInv, [Log!Next]_(Log!vars)
    PROVE  ChainInv'
<1>1. CASE UNCHANGED Log!vars
  BY <1>1, Zenon DEF Log!vars, ChainInv, Chained, LastHash
<1>2. ASSUME NEW w \in Writers, Log!Lock(w)
      PROVE  ChainInv'
  <2>1. mu = NoKey /\ mu' = w /\ UNCHANGED <<seq, prev, writer, trail, gaps, restarts>>
    BY <1>2 DEF Log!Lock
  <2>2. \A v \in Writers : writer[v] = NoKey
    BY <2>1, Zenon DEF ChainInv, NoKeyIsApart
  <2> QED  BY <2>1, <2>2 DEF ChainInv, Chained, LastHash
<1>3. ASSUME NEW w \in Writers, NEW action \in Actions, Log!Seal(w, action)
      PROVE  ChainInv'
  <2> DEFINE e == Log!Entry(seq + 1, action, prev)
  <2>1. /\ mu = w /\ writer[w] = NoKey
        /\ seq' = seq + 1
        /\ writer' = [writer EXCEPT ![w] = e]
        /\ writer'[w] = e
        /\ prev' = writer'[w].hash
        /\ UNCHANGED <<mu, trail, gaps, restarts>>
    BY <1>3 DEF Log!Seal, ChainInv
  <2> HIDE DEF e
  <2>2. \A v \in Writers : writer[v] = NoKey
    BY <2>1 DEF ChainInv
  <2>3. /\ writer' = [v \in Writers |-> writer'[v]]
        /\ \A v \in Writers : writer'[v] # NoKey => mu' = v
    BY <2>1, <2>2 DEF ChainInv
  <2>4. ASSUME restarts' = 0 /\ ~gaps'
        PROVE  /\ Chained(trail)
               /\ seq = Len(trail) /\ prev = LastHash(trail)
    <3>1. \A v \in Writers, a \in Actions : writer[v] # Log!Entry(Len(trail) + 1, a, LastHash(trail))
      BY <2>2 DEF NoKeyIsApart
    <3> QED  BY <2>1, <2>4, <3>1, Zenon DEF ChainInv
  <2>5. ASSUME restarts' = 0 /\ ~gaps'
        PROVE  /\ writer'[w] = Log!Entry(Len(trail) + 1, action, LastHash(trail))
               /\ seq' = Len(trail) + 1
    BY <2>1, <2>4, <2>5 DEF e
  <2> QED  BY <2>1, <2>3, <2>4, <2>5, ZenonT(60) DEF ChainInv, Chained, LastHash
<1>4. ASSUME NEW w \in Writers, Log!Write(w)
      PROVE  ChainInv'
  <2>1. /\ mu = w /\ writer[w] # NoKey
        /\ writer' = [writer EXCEPT ![w] = NoKey]
        /\ mu' = NoKey
        /\ UNCHANGED <<seq, prev, restarts>>
    BY <1>4 DEF Log!Write
  <2>2. /\ writer' = [v \in Writers |-> writer'[v]]
        /\ \A v \in Writers : writer'[v] = NoKey
    BY <2>1, Zenon DEF ChainInv
  <2>3. CASE gaps' = TRUE /\ UNCHANGED trail
    BY <2>1, <2>2, <2>3, Zenon DEF ChainInv
  <2>4. CASE trail' = Append(trail, writer[w]) /\ UNCHANGED gaps
    <3> DEFINE S == Items(trail) \cup {writer[w]}
    <3>1. trail \in Seq(S)
      BY SeqIsFunctions DEF ChainInv
    <3>2. trail' \in Seq(S) /\ Len(trail') = Len(trail) + 1 /\ trail'[Len(trail')] = writer[w] /\ trail' # << >>
      BY <2>4, <3>1
    <3>3. trail' \in Seq(Items(trail'))
      BY <3>2, IsSequence
    <3>4. ASSUME restarts' = 0 /\ ~gaps'
          PROVE  /\ Chained(trail')
                 /\ seq' = Len(trail')
                 /\ prev' = LastHash(trail')
      <4>1. restarts = 0 /\ ~gaps
        BY <2>1, <2>4, <3>4
      <4>2. PICK action \in Actions :
              /\ writer[w] = Log!Entry(Len(trail) + 1, action, LastHash(trail))
              /\ seq = Len(trail) + 1
              /\ prev = writer[w].hash
        <5>1. PICK v \in Writers, action \in Actions :
                /\ writer[v] = Log!Entry(Len(trail) + 1, action, LastHash(trail))
                /\ seq = Len(trail) + 1
                /\ prev = writer[v].hash
          BY <2>1, <4>1 DEF ChainInv
        <5>2. v = w
          BY <2>1, <5>1 DEF ChainInv, NoKeyIsApart
        <5> QED  BY <5>1, <5>2
      <4>3. Chained(trail)
        BY <4>1 DEF ChainInv
      <4>4. Chained(trail')
        BY <2>4, <3>1, <4>2, <4>3, AppendChained, SMTT(60)
      <4> QED  BY <2>1, <3>2, <4>2, <4>4 DEF LastHash
    <3> HIDE DEF S
    <3> QED  BY <2>1, <2>2, <2>4, <3>3, <3>4, Zenon DEF ChainInv
  <2> QED  BY <1>4, <2>3, <2>4, ZenonT(60) DEF Log!Write
<1>5. CASE Log!Restart
  <2>1. /\ restarts' = restarts + 1 /\ mu' = NoKey /\ UNCHANGED <<trail, gaps>>
        /\ writer' = [w \in Writers |-> NoKey]
    BY <1>5 DEF Log!Restart
  <2>2. restarts' \in Nat /\ restarts' # 0
    BY <2>1 DEF ChainInv
  <2> QED  BY <2>1, <2>2 DEF ChainInv
<1> QED  BY <1>1, <1>2, <1>3, <1>4, <1>5, Zenon DEF Log!Next

(* The fields of an entry (audit.go).                                      *)
LEMMA EntryFields ==
    ASSUME NEW n, NEW action, NEW previous, NEW e, e = Log!Entry(n, action, previous)
    PROVE  /\ e.seq = n /\ e.action = action /\ e.prev = previous
           /\ e.hash = <<n, action, e.prev>>
           /\ e.sig = Log!sign(e.hash, Key)
BY DEF Log!Entry, Log!computeHash

(* What verifyAuditChain looks at: an entry of the chain covers its own    *)
(* number, and its link covers the number before it.                       *)
LEMMA ChainLinks ==
    ASSUME NEW s, Chained(s), NEW i \in 1..Len(s)
    PROVE  /\ Log!computeHash(s[i]) = s[i].hash
           /\ s[i].sig = Log!sign(s[i].hash, Key)
           /\ s[i].prev = IF i = 1 THEN Log!Zero ELSE s[i - 1].hash
           /\ s[i].hash = <<i, s[i].action, s[i].prev>>
           /\ \A a : [s[i] EXCEPT !.action = a].hash = s[i].hash
           /\ \A a : Log!computeHash([s[i] EXCEPT !.action = a]) = <<i, a, s[i].prev>>
<1> DEFINE link == IF i = 1 THEN Log!Zero ELSE s[i - 1].hash
<1>1. PICK action \in Actions : s[i] = Log!Entry(i, action, link)
  BY Zenon DEF Chained
<1> HIDE DEF link
<1>2. /\ s[i].seq = i /\ s[i].action = action
      /\ s[i].prev = link
      /\ s[i].hash = <<i, action, s[i].prev>>
      /\ s[i].sig = Log!sign(s[i].hash, Key)
  <2>1. PICK e : e = Log!Entry(i, action, link) /\ s[i] = e
    BY <1>1, ZenonT(60)
  <2>2. /\ e.seq = i /\ e.action = action /\ e.prev = link
        /\ e.hash = <<i, action, e.prev>>
        /\ e.sig = Log!sign(e.hash, Key)
    BY <2>1, EntryFields
  <2> QED  BY <2>1, <2>2, Zenon
<1>3. \A a : /\ [s[i] EXCEPT !.action = a].hash = s[i].hash
             /\ [s[i] EXCEPT !.action = a].seq = s[i].seq
             /\ [s[i] EXCEPT !.action = a].prev = s[i].prev
             /\ [s[i] EXCEPT !.action = a].action = a
  BY <1>1 DEF Log!Entry
<1> QED  BY <1>2, <1>3 DEF Log!computeHash, link

(* A chained log verifies, and no longer does once it is tampered with.    *)
LEMMA ChainedVerifies ==
    ASSUME NEW s, Chained(s)
    PROVE  Log!verifyAuditChain(s, Key)
BY ChainLinks DEF Log!verifyAuditChain

(* An altered entry has another hash than its own.                         *)
LEMMA AlteredFails ==
    ASSUME NEW S, NEW s \in Seq(S), Chained(s), NEW i \in 1..Len(s), NEW e \in Log!Altered(s[i])
    PROVE  ~Log!verifyAuditChain([s EXCEPT ![i] = e], Key)
<1>1. PICK a \in Actions \ {s[i].action} : e = [s[i] EXCEPT !.action = a]
  BY DEF Log!Altered
<1>2. Log!computeHash(e) = <<i, a, s[i].prev>> /\ e.hash = <<i, s[i].action, s[i].prev>>
  <2>1. /\ s[i].hash = <<i, s[i].action, s[i].prev>>
        /\ \A b : [s[i] EXCEPT !.action = b].hash = s[i].hash
        /\ \A b : Log!computeHash([s[i] EXCEPT !.action = b]) = <<i, b, s[i].prev>>
    BY ChainLinks, ZenonT(60)
  <2> QED  BY <1>1, <2>1, ZenonT(60)
<1>3. Log!computeHash(e) # e.hash
  BY <1>1, <1>2
<1>4. /\ [s EXCEPT ![i] = e][i] = e
      /\ i \in 1..Len([s EXCEPT ![i] = e])
  OBVIOUS
<1> QED  BY <1>3, <1>4 DEF Log!verifyAuditChain

(* The entry after a missing one links to nothing.                         *)
LEMMA MissingFails ==
    ASSUME NEW S, NEW s \in Seq(S), Chained(s), NEW i \in 1..Len(s), i < Len(s)
    PROVE  ~Log!verifyAuditChain(Log!Without(s, i), Key)
<1> DEFINE t == Log!Without(s, i)
<1>1. /\ Len(t) = Len(s) - 1
      /\ t[i] = s[i + 1]
      /\ i # 1 => t[i - 1] = s[i - 1]
  BY DEF Log!Without
<1> HIDE DEF t
<1>2. t[i].prev = <<i, s[i].action, s[i].prev>>
  <2>1. i + 1 \in 1..Len(s) /\ i + 1 # 1 /\ (i + 1) - 1 = i
    OBVIOUS
  <2>2. s[i + 1].prev = s[i].hash
    BY <2>1, ChainLinks
  <2> QED  BY <1>1, <2>2, ChainLinks
<1>3. i # 1 => t[i - 1].hash = <<i - 1, s[i - 1].action, s[i - 1].prev>>
  BY <1>1, ChainLinks
<1>4. t[i].prev # IF i = 1 THEN Log!Zero ELSE t[i - 1].hash
  BY <1>2, <1>3 DEF Log!Zero
<1>5. i \in 1..Len(t)
  BY <1>1, SMTT(60)
<1> QED  BY <1>4, <1>5 DEF Log!verifyAuditChain, t

(* Of two entries that changed places, the first links to nothing.         *)
LEMMA ReorderedFails ==
    ASSUME NEW S, NEW s \in Seq(S), Chained(s), NEW i \in 1..Len(s), NEW j \in (i + 1)..Len(s)
    PROVE  ~Log!verifyAuditChain([s EXCEPT ![i] = s[j], ![j] = s[i]], Key)
<1> DEFINE t == [s EXCEPT ![i] = s[j], ![j] = s[i]]
<1>1. /\ Len(t) = Len(s)
      /\ t[i] = s[j]
      /\ i # 1 => t[i - 1] = s[i - 1]
  OBVIOUS
<1> HIDE DEF t
<1>2. t[i].prev = <<j - 1, s[j - 1].action, s[j - 1].prev>>
  <2>1. j \in 1..Len(s) /\ j - 1 \in 1..Len(s) /\ j # 1
    OBVIOUS
  <2>2. s[j].prev = s[j - 1].hash
    BY <2>1, ChainLinks, Zenon
  <2>3. s[j - 1].hash = <<j - 1, s[j - 1].action, s[j - 1].prev>>
    BY <2>1, ChainLinks, Zenon
  <2> QED  BY <1>1, <2>2, <2>3, Zenon
<1>3. i # 1 => t[i - 1].hash = <<i - 1, s[i - 1].action, s[i - 1].prev>>
  <2> SUFFICES ASSUME i # 1 PROVE t[i - 1].hash = <<i - 1, s[i - 1].action, s[i - 1].prev>>
    OBVIOUS
  <2>1. i - 1 \in 1..Len(s)
    OBVIOUS
  <2>2. s[i - 1].hash = <<i - 1, s[i - 1].action, s[i - 1].prev>>
    BY <2>1, ChainLinks, ZenonT(60)
  <2> QED  BY <1>1, <2>2, ZenonT(60)
<1>4. t[i].prev # IF i = 1 THEN Log!Zero ELSE t[i - 1].hash
  BY <1>2, <1>3 DEF Log!Zero
<1> QED  BY <1>1, <1>4 DEF Log!verifyAuditChain, t

(* "A tampered or reordered log fails here" (audit.go verifyAuditChain):   *)
(* the log of one server run verifies, however many requests wrote to it   *)
(* at the same time, and fails once an entry is altered, two change places *)
(* or one but the last is missing, for any key, writers and actions.       *)
THEOREM TamperedLogFails ==
    ASSUME NoKeyIsApart
    PROVE  Log!Spec => []Log!TamperingShows
<1>1. ChainInv => Log!TamperingShows
  BY ChainedVerifies, AlteredFails, MissingFails, ReorderedFails, Zenon DEF ChainInv, Log!TamperingShows
<1> QED  BY <1>1, AuditInit, AuditStep, PTL DEF Log!Spec
=============================================================================
