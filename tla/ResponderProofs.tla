-------------------------- MODULE ResponderProofs --------------------------
(***************************************************************************)
(* Proofs about Responder, for any host, allowlist, alerts and commands;   *)
(* then about the other places that act: the kernel's hooks (KernelGuard)  *)
(* and the playbooks (Soar).                                               *)
(*                                                                         *)
(* The invariant has four parts beyond the types: an acting goroutine      *)
(* implies an enforce ceiling (so no effect passes the ceiling); the fleet *)
(* goroutine acts only while the mode is enforce and the pipeline acts at  *)
(* most once after it was (so at most one effect is overdue); incarnation  *)
(* numbers only grow (so a checked pid that was not recycled still has the *)
(* checked name); and the blocker's own invariant. Before that, the        *)
(* network blocker by itself, for any destinations and numbers of restarts *)
(* and late commands; after it, the graduated ladder, for every score.     *)
(***************************************************************************)
EXTENDS Responder, Integers, Sequences, TLAPS

-----------------------------------------------------------------------------
(* The network blocker.                                                    *)

(* NoPileUp is not inductive: a rule may be added while its text is not    *)
(* recorded as blocked, so the one rule in hand is the recorded one.       *)
RulesAccountedFor ==
    \A t \in Texts :
        /\ rules[t] <= 1 + restarts + late[t]
        /\ ~blocked[t] => rules[t] <= restarts + late[t]

(* The inductive invariant of the blocker.                                 *)
BlockerInv ==
    /\ BlockerTypeOK
    /\ BlockedIsDropped
    /\ RulesAccountedFor

(* Block keeps the invariant, whoever calls it and whatever each of its    *)
(* nft commands does (network.go Block).                                   *)
LEMMA BlockKeepsInv ==
    ASSUME BlockerInv, NEW ip \in Texts, NEW result, Block(ip, result)
    PROVE  BlockerInv'
<1>1. CASE UNCHANGED blockerVars
  BY <1>1 DEF BlockerInv, BlockerTypeOK, BlockedIsDropped, RulesAccountedFor, blockerVars
<1>2. CASE ~blocked[ip] /\ Install(ip, result)
  <2>1. PICK t \in Outcomes, c \in Outcomes, r \in Outcomes : RunCommands(ip, result, t, c, r)
    BY <1>2 DEF Install
  <2> DEFINE e == ensureChain(t, c)
             added == e.up /\ e.chain /\ Commits(r)
             done == added /\ r = "ok"
  <2>2. e.up \in BOOLEAN /\ e.table \in BOOLEAN /\ e.chain \in BOOLEAN
    BY Zenon DEF ensureChain, BlockerInv, BlockerTypeOK, Commits, Outcomes
  <2>3. e.up => e.table /\ e.chain
    BY Zenon DEF ensureChain, BlockerInv, BlockedIsDropped, Commits, Outcomes
  <2>4. added \in BOOLEAN /\ done \in BOOLEAN /\ (done => added)
    BY <2>2 DEF Commits
  <2> HIDE DEF e, added, done
  <2>5. /\ chainUp' = e.up /\ table' = e.table /\ chain' = e.chain
        /\ rules' = [rules EXCEPT ![ip] = IF added THEN @ + 1 ELSE @]
        /\ late' = [late EXCEPT ![ip] = IF added /\ ~done THEN @ + 1 ELSE @]
        /\ blocked' = [blocked EXCEPT ![ip] = done]
        /\ restarts' = restarts
    BY <2>1 DEF RunCommands, e, added, done
  <2>6. BlockerTypeOK'
    BY <2>2, <2>4, <2>5 DEF BlockerInv, BlockerTypeOK
  <2>7. BlockedIsDropped'
    BY <2>3, <2>4, <2>5 DEF BlockerInv, BlockerTypeOK, BlockedIsDropped
  <2>8. RulesAccountedFor'
    BY <1>2, <2>4, <2>5 DEF BlockerInv, BlockerTypeOK, RulesAccountedFor
  <2> QED BY <2>6, <2>7, <2>8 DEF BlockerInv
<1> QED BY <1>1, <1>2 DEF Block

(* A fresh blocker on a host without the table.                            *)
LEMMA BlockerInitInv == BlockerInit => BlockerInv
<1> SUFFICES ASSUME BlockerInit PROVE BlockerInv
  OBVIOUS
<1>1. blocked \in [Texts -> BOOLEAN] /\ \A t \in Texts : ~blocked[t]
  BY Zenon DEF BlockerInit
<1>2. rules \in [Texts -> Nat] /\ late \in [Texts -> Nat] /\ \A t \in Texts : rules[t] = 0
  BY DEF BlockerInit
<1>3. restarts \in Nat
  BY DEF BlockerInit
<1>4. chainUp \in BOOLEAN /\ table \in BOOLEAN /\ chain \in BOOLEAN /\ ~chainUp
  BY Zenon DEF BlockerInit
<1>5. BlockerTypeOK
  BY <1>1, <1>2, <1>3, <1>4, Zenon DEF BlockerTypeOK
<1>6. BlockedIsDropped
  BY <1>1, <1>4 DEF BlockedIsDropped
<1>7. RulesAccountedFor
  <2> SUFFICES ASSUME NEW t \in Texts
               PROVE  rules[t] <= 1 + restarts + late[t] /\ rules[t] <= restarts + late[t]
    BY Zenon DEF RulesAccountedFor
  <2>1. rules[t] = 0 /\ late[t] \in Nat
    BY <1>2
  <2> QED BY <1>3, <2>1
<1> QED BY <1>5, <1>6, <1>7 DEF BlockerInv

(* A restarted agent starts with an empty blocker; the kernel's rules are  *)
(* accounted for by the restart (network.go newNetworkBlocker).            *)
LEMMA NewBlockerKeepsInv ==
    ASSUME BlockerInv, newNetworkBlocker
    PROVE  BlockerInv'
<1>1. blocked' \in [Texts -> BOOLEAN] /\ \A t \in Texts : ~blocked'[t]
  BY Zenon DEF newNetworkBlocker
<1>2. /\ chainUp' \in BOOLEAN /\ ~chainUp'
      /\ restarts' = restarts + 1
      /\ UNCHANGED <<table, chain, rules, late>>
  BY Zenon DEF newNetworkBlocker
<1>3. BlockerTypeOK'
  BY <1>1, <1>2 DEF BlockerInv, BlockerTypeOK
<1>4. BlockedIsDropped'
  BY <1>1, <1>2 DEF BlockedIsDropped
<1>5. RulesAccountedFor'
  BY <1>1, <1>2 DEF BlockerInv, BlockerTypeOK, RulesAccountedFor
<1> QED BY <1>3, <1>4, <1>5 DEF BlockerInv

(* The accounting gives the bound on duplicate rules (network.go Block).   *)
LEMMA AccountingBoundsRules == BlockerInv => NoPileUp
BY DEF BlockerInv, BlockerTypeOK, RulesAccountedFor, NoPileUp

-----------------------------------------------------------------------------
(* The response path.                                                      *)

(* The pipeline is between its load of the mode and its effect.            *)
Acting == handler.pc \in {"execute", "signal"}

(* Whoever acts found the mode enforce, which the ceiling allows.          *)
ActingNeedsEnforceCeiling ==
    Acting \/ remote # Idle => maxMode = ModeEnforce

(* Nothing is overdue while a goroutine acts on the mode as it is.         *)
OverdueInv ==
    /\ mode = ModeEnforce => overdue = 0
    /\ Acting => overdue = 0
    /\ remote # Idle => mode = ModeEnforce

(* The checked incarnation, if it still has the pid, has the checked name. *)
IncarnationInv ==
    /\ \A p \in Pids : procs[p] # None => procs[p].id <= spawned
    /\ handler.pc = "signal" =>
          /\ handler.checked <= spawned
          /\ procs[handler.pid] # None /\ procs[handler.pid].id = handler.checked
                => procs[handler.pid].comm = handler.comm

(* The inductive invariant.                                                *)
ResponderInv ==
    /\ TypeOK
    /\ BlockerInv
    /\ BelowCeiling
    /\ ActingNeedsEnforceCeiling
    /\ NoEffectAboveCeiling
    /\ OverdueInv
    /\ AtMostOneOverdue
    /\ IncarnationInv
    /\ GuardedSignals
    /\ BlockReportsTrue

-----------------------------------------------------------------------------
(* ParseMode only yields modes (policy.go ParseMode).                      *)
LEMMA ParseModeType == \A text : ParseMode(text) \in Modes
BY DEF ParseMode, Modes, ModeOff, ModeDryRun, ModeEnforce

(* Policy.Action answers with an action, or with the text of the rule.     *)
LEMMA PolicyActionType ==
    ASSUME NEW a, a.requested \in Requests, a.risk \in Nat, a.severity \in Severities,
           a.hasTarget \in BOOLEAN
    PROVE  PolicyAction(a) \in Actions \cup {"other"}
<1>1. severityScore(a.severity) \in Nat
  BY DEF severityScore, KillScore, BlockScore, ThrottleScore
<1>2. effectiveScore(a) \in Nat
  BY <1>1 DEF effectiveScore
<1>3. Scored(effectiveScore(a), a.hasTarget) \in Actions
  BY <1>2 DEF Scored, Actions, KillScore, BlockScore, ThrottleScore
<1> QED BY <1>3, Zenon DEF PolicyAction, Actions, Requests

(* A Block call that reports success leaves a rule, none goes away, and a  *)
(* call is the only thing that adds one (network.go Block).                *)
LEMMA BlockEffect ==
    ASSUME BlockerInv, NEW ip \in Texts, NEW result \in {"blocked", "failed"},
           Block(ip, result)
    PROVE  /\ result = "blocked" => rules'[ip] > 0
           /\ \A t \in Texts : rules'[t] >= rules[t]
<1>1. CASE UNCHANGED blockerVars /\ (result = "blocked" => blocked[ip])
  BY <1>1 DEF BlockerInv, BlockerTypeOK, BlockedIsDropped, blockerVars
<1>2. CASE Install(ip, result)
  <2>1. PICK t \in Outcomes, c \in Outcomes, r \in Outcomes : RunCommands(ip, result, t, c, r)
    BY <1>2 DEF Install
  <2> DEFINE added == ensureChain(t, c).up /\ ensureChain(t, c).chain /\ Commits(r)
  <2>2. rules' = [rules EXCEPT ![ip] = IF added THEN @ + 1 ELSE @]
    BY <2>1 DEF RunCommands
  <2>3. result = "blocked" => added
    BY <2>1 DEF RunCommands
  <2> HIDE DEF added
  <2> QED BY <2>2, <2>3 DEF BlockerInv, BlockerTypeOK
<1> QED BY <1>1, <1>2 DEF Block, blockerVars

-----------------------------------------------------------------------------
(* Every step leaves the blocker alone, is one call of Block, or a restart.*)
LEMMA BlockerStep ==
    ASSUME ResponderInv, Next
    PROVE  \/ UNCHANGED blockerVars /\ UNCHANGED claimed
           \/ \E ip \in Texts, result \in {"blocked", "failed"} :
                 Block(ip, result) /\ Claim(ip, result)
           \/ newNetworkBlocker /\ UNCHANGED claimed
<1>1. CASE HostStep
  BY <1>1 DEF HostStep, Spawn, Exit
<1>2. CASE PipelineStep
  <2>1. CASE BlockDestination
    <3>1. handler.dstIP \in Texts \cup {None}
      BY <2>1 DEF ResponderInv, TypeOK, Handlers, BlockDestination, Idle
    <3> QED BY <2>1, <3>1, Zenon DEF BlockDestination, blockerVars
  <2> QED BY <1>2, <2>1 DEF PipelineStep, Observe, Handle, CheckComm, SendSignal, Noop
<1>3. CASE FleetStep
  <2>1. CASE RemoteBlock
    <3>1. remote.ip \in Texts
      BY <2>1 DEF ResponderInv, TypeOK, Remotes, RemoteBlock, Idle
    <3> QED BY <2>1, <3>1, Zenon DEF RemoteBlock
  <2> QED BY <1>3, <2>1 DEF FleetStep, SetResponseMode, RequestKill, RemoteKill,
                             RequestNetworkBlock
<1> QED BY <1>1, <1>2, <1>3 DEF Next, RestartAgent

(* The blocker's invariant, and that what is recorded as blocked has a     *)
(* rule, survive every step of the response path.                          *)
LEMMA BlockingStep ==
    ASSUME ResponderInv, Next
    PROVE  BlockerInv' /\ BlockReportsTrue' /\ claimed' \subseteq Texts
<1>1. CASE UNCHANGED blockerVars /\ UNCHANGED claimed
  BY <1>1 DEF ResponderInv, TypeOK, BlockReportsTrue, blockerVars, BlockerInv, BlockerTypeOK,
              BlockedIsDropped, RulesAccountedFor
<1>2. ASSUME NEW ip \in Texts, NEW result \in {"blocked", "failed"},
             Block(ip, result), Claim(ip, result)
      PROVE  BlockerInv' /\ BlockReportsTrue' /\ claimed' \subseteq Texts
  <2>1. BlockerInv'
    BY <1>2, BlockKeepsInv DEF ResponderInv
  <2>2. (result = "blocked" => rules'[ip] > 0) /\ \A t \in Texts : rules'[t] >= rules[t]
    BY <1>2, BlockEffect DEF ResponderInv
  <2>3. claimed' \subseteq Texts
    BY <1>2 DEF Claim, ResponderInv, TypeOK
  <2>4. rules \in [Texts -> Nat] /\ rules' \in [Texts -> Nat]
    BY <2>1 DEF ResponderInv, BlockerInv, BlockerTypeOK
  <2>5. BlockReportsTrue'
    BY <1>2, <2>2, <2>3, <2>4 DEF Claim, BlockReportsTrue, ResponderInv, TypeOK
  <2> QED BY <2>1, <2>3, <2>5
<1>3. CASE newNetworkBlocker /\ UNCHANGED claimed
  <2>1. BlockerInv'
    BY <1>3, NewBlockerKeepsInv DEF ResponderInv
  <2> QED BY <1>3, <2>1 DEF newNetworkBlocker, ResponderInv, TypeOK, BlockReportsTrue
<1> QED BY <1>1, <1>2, <1>3, BlockerStep

-----------------------------------------------------------------------------
(* Type correctness, one step per action.                                  *)
LEMMA TypeStep ==
    ASSUME ResponderInv, Next
    PROVE  TypeOK'
<1>1. BlockerTypeOK' /\ claimed' \subseteq Texts
  BY BlockingStep DEF BlockerInv
<1> DEFINE OtherTypes == /\ PostureTypeOK
                         /\ procs \in [Pids -> Processes \cup {None}]
                         /\ spawned \in 0..MaxSpawns
                         /\ handler \in Handlers
                         /\ remote \in Remotes
                         /\ signal \in SignalRecords \cup {None}
                         /\ overdue \in 0..2
<1>2. OtherTypes
  BY DEF ResponderInv, TypeOK
<1> SUFFICES OtherTypes'
  BY <1>1 DEF TypeOK
<1>3. (overdue' = overdue \/ CountOverdue) => overdue' \in 0..2
  BY <1>2 DEF CountOverdue
<1>4. ASSUME NEW pid \in Pids, NEW by \in Comms \cup {None}, NEW checked,
             Deliver(pid, by, checked)
      PROVE  signal' \in SignalRecords \cup {None} /\ overdue' \in 0..2
  <2>1. CASE procs[pid] = None
    BY <1>2, <1>4, <2>1 DEF Deliver
  <2>2. CASE procs[pid] # None
    <3>1. procs[pid] \in Processes
      BY <1>2, <2>2
    <3> DEFINE recycled == procs[pid].id # checked
    <3>2. recycled \in BOOLEAN
      BY Zenon
    <3>3. /\ signal' = [exe |-> procs[pid].exe, comm |-> procs[pid].comm, by |-> by,
                        recycled |-> recycled]
          /\ CountOverdue
      BY <1>4, <2>2 DEF Deliver
    <3> HIDE DEF recycled
    <3>4. procs[pid].exe \in Exes /\ procs[pid].comm \in Comms
      BY <3>1 DEF Processes
    <3>5. signal' \in SignalRecords
      BY <3>2, <3>3, <3>4 DEF SignalRecords
    <3> QED BY <1>3, <3>3, <3>5
  <2> QED BY <2>1, <2>2
<1>5. CASE HostStep
  <2>1. PICK pid \in Pids : Spawn(pid) \/ Exit(pid)
    BY <1>5, Zenon DEF HostStep
  <2>2. CASE Spawn(pid)
    <3>1. spawned' \in 1..MaxSpawns
      <4>1. spawned < MaxSpawns /\ spawned' = spawned + 1 /\ spawned \in 0..MaxSpawns
        BY <1>2, <2>2, Zenon DEF Spawn
      <4>2. MaxSpawns \in Nat
        BY ResponderAssumption, Zenon
      <4> QED BY <4>1, <4>2
    <3>2. PICK c \in Comms, x \in Exes :
              procs' = [procs EXCEPT ![pid] = [id |-> spawned', comm |-> c, exe |-> x]]
      BY <2>2, Zenon DEF Spawn
    <3>3. procs' \in [Pids -> Processes \cup {None}]
      BY <1>2, <3>1, <3>2 DEF Processes
    <3>4. /\ UNCHANGED postureVars /\ handler' = handler /\ remote' = remote
          /\ signal' = signal /\ overdue' = overdue
      BY <2>2, Zenon DEF Spawn
    <3>5. PostureTypeOK'
      BY <1>2, <3>4, Zenon DEF PostureTypeOK, postureVars
    <3>6. spawned' \in 0..MaxSpawns
      BY <3>1
    <3> QED BY <1>2, <3>3, <3>4, <3>5, <3>6, Zenon
  <2>3. CASE Exit(pid)
    BY <1>2, <2>3 DEF Exit, PostureTypeOK, postureVars
  <2> QED BY <2>1, <2>2, <2>3
<1>6. CASE PipelineStep
  <2>1. ASSUME NEW pid \in Pids, Observe(pid) PROVE OtherTypes'
    <3>1. PICK s \in Shapes :
              handler' = [pc |-> "alert", pid |-> pid, comm |-> procs[pid].comm,
                          exe |-> IF s.isExec THEN procs[pid].exe ELSE None,
                          dstIP |-> s.dstIP,
                          action |-> PolicyAction([requested |-> s.requested,
                                                   risk |-> s.risk,
                                                   severity |-> s.severity,
                                                   hasTarget |-> s.dstIP # None])]
      BY <2>1, Zenon DEF Observe
    <3>2. procs[pid] \in Processes
      BY <1>2, <2>1, Zenon DEF Observe
    <3>3. /\ s.dstIP \in Texts \cup {None}
          /\ s.requested \in Requests /\ s.risk \in Nat /\ s.severity \in Severities
      BY ResponderAssumption
    <3>4. PolicyAction([requested |-> s.requested, risk |-> s.risk, severity |-> s.severity,
                        hasTarget |-> s.dstIP # None]) \in Actions \cup {"other"}
      BY <3>3, PolicyActionType, Zenon
    <3>5. procs[pid].comm \in Comms /\ (IF s.isExec THEN procs[pid].exe ELSE None) \in Exes \cup {None}
      BY <3>2, Zenon DEF Processes
    <3>6. handler' \in Handlers
      BY <3>1, <3>3, <3>4, <3>5, Zenon DEF Handlers
    <3> QED BY <1>2, <2>1, <3>6 DEF Observe, PostureTypeOK, postureVars, hostVars
  <2>2. CASE Handle
    <3>1. handler' \in Handlers
      BY <1>2, <2>2 DEF Handle, Handlers, Idle
    <3> QED BY <1>2, <2>2, <3>1 DEF Handle, PostureTypeOK, postureVars, hostVars
  <2>3. CASE CheckComm
    <3>1. handler.pid \in Pids /\ handler.comm \in Comms
      BY <1>2, <2>3 DEF CheckComm, Handlers, Idle
    <3>2. GuardPasses(handler.pid, handler.comm) => procs[handler.pid].id \in 1..MaxSpawns
      BY <1>2, <3>1, ResponderAssumption DEF GuardPasses, Processes
    <3>3. handler' \in Handlers
      BY <2>3, <3>1, <3>2 DEF CheckComm, Handlers
    <3> QED BY <1>2, <2>3, <3>3 DEF CheckComm, PostureTypeOK, postureVars, hostVars
  <2>4. CASE SendSignal
    <3>1. handler.pid \in Pids /\ handler.comm \in Comms
      BY <1>2, <2>4 DEF SendSignal, Handlers, Idle
    <3>2. signal' \in SignalRecords \cup {None} /\ overdue' \in 0..2
      BY <1>4, <2>4, <3>1 DEF SendSignal
    <3> QED BY <1>2, <2>4, <3>2 DEF SendSignal, PostureTypeOK, postureVars, hostVars, Handlers
  <2>5. CASE BlockDestination
    <3>1. overdue' = overdue \/ CountOverdue
      BY <2>5 DEF BlockDestination
    <3> QED BY <1>2, <1>3, <2>5, <3>1
            DEF BlockDestination, PostureTypeOK, postureVars, hostVars, Handlers
  <2>6. CASE Noop
    BY <1>2, <2>6 DEF Noop, PostureTypeOK, postureVars, hostVars, Handlers
  <2> QED BY <1>6, <2>1, <2>2, <2>3, <2>4, <2>5, <2>6 DEF PipelineStep
<1>7. CASE FleetStep
  <2>1. ASSUME NEW text \in ModeTexts, SetResponseMode(text) PROVE OtherTypes'
    <3>1. PostureTypeOK'
      BY <1>2, <2>1, ParseModeType DEF SetResponseMode, SetMode, clampMode, PostureTypeOK
    <3> QED BY <1>2, <2>1, <3>1 DEF SetResponseMode, hostVars
  <2>2. ASSUME NEW pid \in Pids, RequestKill(pid) PROVE OtherTypes'
    BY <1>2, <2>2 DEF RequestKill, PostureTypeOK, postureVars, hostVars, Remotes
  <2>3. CASE RemoteKill
    <3>1. remote.pid \in Pids
      BY <1>2, <2>3 DEF RemoteKill, Remotes, Idle
    <3>2. signal' \in SignalRecords \cup {None} /\ overdue' \in 0..2
      BY <1>4, <2>3, <3>1 DEF RemoteKill
    <3> QED BY <1>2, <2>3, <3>2 DEF RemoteKill, PostureTypeOK, postureVars, hostVars, Remotes
  <2>4. ASSUME NEW ip \in Texts, RequestNetworkBlock(ip) PROVE OtherTypes'
    BY <1>2, <2>4, Zenon DEF RequestNetworkBlock, PostureTypeOK, postureVars, hostVars, Remotes
  <2>5. CASE RemoteBlock
    <3>1. overdue' = overdue \/ CountOverdue
      BY <2>5 DEF RemoteBlock
    <3> QED BY <1>2, <1>3, <2>5, <3>1 DEF RemoteBlock, PostureTypeOK, postureVars, hostVars, Remotes
  <2> QED BY <1>7, <2>1, <2>2, <2>3, <2>4, <2>5 DEF FleetStep
<1>8. CASE RestartAgent
  BY <1>2, <1>8 DEF RestartAgent, clampMode, PostureTypeOK, hostVars, Handlers, Remotes
<1> QED BY <1>5, <1>6, <1>7, <1>8 DEF Next

-----------------------------------------------------------------------------
(* The ceiling: SetMode clamps, a goroutine that passed its mode check     *)
(* runs under an enforce ceiling, and nothing else has an effect.          *)
LEMMA CeilingStep ==
    ASSUME ResponderInv, Next
    PROVE  BelowCeiling' /\ ActingNeedsEnforceCeiling' /\ NoEffectAboveCeiling'
<1> USE DEF ModeOff, ModeDryRun, ModeEnforce, Modes
<1>1. PostureTypeOK /\ BelowCeiling /\ ActingNeedsEnforceCeiling /\ NoEffectAboveCeiling
  BY ZenonT(60) DEF ResponderInv, TypeOK
<1>2. /\ maxMode' = maxMode /\ cfgMode' = cfgMode
      /\ mode' = mode \/ mode' <= maxMode
  <2>1. CASE \E text \in ModeTexts : SetResponseMode(text)
    BY <1>1, <2>1, ParseModeType DEF SetResponseMode, SetMode, clampMode, PostureTypeOK
  <2>2. CASE RestartAgent
    BY <1>1, <2>2 DEF RestartAgent, clampMode, BelowCeiling, PostureTypeOK
  <2> QED BY <2>1, <2>2
          DEF Next, HostStep, PipelineStep, FleetStep, Spawn, Exit, Observe, Handle, CheckComm,
              SendSignal, BlockDestination, Noop, RequestKill, RemoteKill,
              RequestNetworkBlock, RemoteBlock, postureVars
<1>3. BelowCeiling'
  BY <1>1, <1>2 DEF BelowCeiling
<1>4. mode = ModeEnforce => maxMode = ModeEnforce
  <2>1. mode \in Modes /\ maxMode \in Modes /\ mode <= maxMode
    BY <1>1, Zenon DEF BelowCeiling, PostureTypeOK
  <2> QED BY <2>1 DEF Modes, ModeOff, ModeDryRun, ModeEnforce
<1>5. Acting' => Acting \/ mode = ModeEnforce
  <2>1. CASE handler' = handler
    BY <2>1, Zenon DEF Acting
  <2>2. CASE \E pid \in Pids : Observe(pid)
    <3>0. PICK pid \in Pids : Observe(pid)
      BY <2>2, Zenon
    <3>1. PICK c, x, ip, a : handler' = [pc |-> "alert", pid |-> pid, comm |-> c, exe |-> x,
                                         dstIP |-> ip, action |-> a]
      BY <3>0, ZenonT(60) DEF Observe
    <3>2. handler'.pc = "alert"
      BY <3>1
    <3> QED BY <3>2 DEF Acting
  <2>3. CASE Handle
    BY <1>1, <2>3 DEF Handle, Acting, PostureTypeOK, Idle
  <2>4. CASE CheckComm
    BY <2>4 DEF CheckComm, Acting, Idle
  <2>5. CASE handler' = Idle
    BY <2>5, ZenonT(60) DEF Acting, Idle
  <2> QED BY <2>1, <2>2, <2>3, <2>4, <2>5, Zenon
          DEF Next, HostStep, PipelineStep, FleetStep, Spawn, Exit, SendSignal,
              BlockDestination, Noop, SetResponseMode, RequestKill, RemoteKill,
              RequestNetworkBlock, RemoteBlock, RestartAgent
<1>6. remote' # Idle => remote # Idle \/ mode = ModeEnforce
  BY DEF Next, HostStep, PipelineStep, FleetStep, Spawn, Exit, Observe, Handle, CheckComm,
         SendSignal, BlockDestination, Noop, SetResponseMode, RequestKill, RemoteKill,
         RequestNetworkBlock, RemoteBlock, RestartAgent
<1>7. ActingNeedsEnforceCeiling'
  BY <1>1, <1>2, <1>4, <1>5, <1>6, Zenon DEF ActingNeedsEnforceCeiling
<1>8. ASSUME maxMode # ModeEnforce
      PROVE  signal' = signal /\ table' = table /\ chain' = chain /\ rules' = rules
  <2>1. handler.pc \notin {"execute", "signal"} /\ remote = Idle
    BY <1>1, <1>8 DEF ActingNeedsEnforceCeiling, Acting
  <2>2. remote.pc \notin {"kill", "block"}
    BY <2>1 DEF Idle
  <2> QED BY <2>1, <2>2, Zenon
          DEF Next, HostStep, PipelineStep, FleetStep, Spawn, Exit, Observe, Handle, CheckComm,
              SendSignal, BlockDestination, Noop, SetResponseMode, RequestKill, RemoteKill,
              RequestNetworkBlock, RemoteBlock, RestartAgent, newNetworkBlocker, blockerVars
<1>9. NoEffectAboveCeiling'
  BY <1>1, <1>2, <1>8 DEF NoEffectAboveCeiling
<1> QED BY <1>3, <1>7, <1>9

-----------------------------------------------------------------------------
(* Overdue effects: only an acting pipeline can produce one, and it stops  *)
(* acting when it does.                                                    *)
LEMMA OverdueStep ==
    ASSUME ResponderInv, Next
    PROVE  OverdueInv' /\ AtMostOneOverdue'
<1> USE DEF ModeOff, ModeDryRun, ModeEnforce, Modes
<1>1. PostureTypeOK /\ overdue \in 0..2 /\ OverdueInv /\ AtMostOneOverdue
  BY DEF ResponderInv, TypeOK
<1>2. Acting \/ remote # Idle => overdue = 0
  BY <1>1 DEF OverdueInv
<1>3. CASE \E text \in ModeTexts : SetResponseMode(text)
  <2>1. /\ remote = Idle /\ remote' = remote /\ handler' = handler
        /\ overdue' = IF mode' = ModeEnforce THEN 0 ELSE overdue
    BY <1>3 DEF SetResponseMode
  <2>2. Acting' => overdue = 0
    BY <1>1, <2>1 DEF Acting, OverdueInv
  <2> QED BY <1>1, <2>1, <2>2 DEF OverdueInv, AtMostOneOverdue
<1>4. CASE /\ mode' = mode /\ overdue' = overdue
           /\ Acting' => Acting \/ mode = ModeEnforce
           /\ remote' # Idle => remote # Idle \/ mode = ModeEnforce
  BY <1>1, <1>4 DEF OverdueInv, AtMostOneOverdue
<1>5. CASE /\ mode' = mode /\ handler' = Idle /\ remote' = remote /\ Acting
           /\ overdue' = overdue \/ CountOverdue
  <2>1. ~Acting'
    BY <1>5 DEF Acting, Idle
  <2>2. overdue = 0
    BY <1>2, <1>5
  <2> QED BY <1>1, <1>5, <2>1, <2>2 DEF OverdueInv, AtMostOneOverdue, CountOverdue
<1>6. CASE /\ mode' = mode /\ handler' = handler /\ remote' = Idle /\ remote # Idle
           /\ overdue' = overdue \/ CountOverdue
  <2>1. mode = ModeEnforce
    BY <1>1, <1>6 DEF OverdueInv
  <2>2. overdue' = overdue /\ Acting' = Acting
    BY <1>6, <2>1 DEF CountOverdue, Acting
  <2> QED BY <1>1, <1>6, <2>1, <2>2 DEF OverdueInv, AtMostOneOverdue
<1>7. CASE HostStep
  BY <1>4, <1>7 DEF HostStep, Spawn, Exit, postureVars, Acting
<1>8. CASE PipelineStep
  <2>1. ASSUME NEW pid \in Pids, Observe(pid) PROVE OverdueInv' /\ AtMostOneOverdue'
    <3>1. UNCHANGED postureVars /\ remote' = remote /\ overdue' = overdue /\ handler = Idle
      BY <2>1, Zenon DEF Observe
    <3>2. PICK c, x, ip, a : handler' = [pc |-> "alert", pid |-> pid, comm |-> c, exe |-> x,
                                         dstIP |-> ip, action |-> a]
      BY <2>1, Zenon DEF Observe
    <3>3. ~Acting'
      BY <3>2 DEF Acting
    <3> QED BY <1>4, <3>1, <3>3 DEF postureVars
  <2>2. CASE Handle
    BY <1>1, <1>4, <2>2 DEF Handle, postureVars, Acting, PostureTypeOK, Idle
  <2>3. CASE CheckComm
    BY <1>4, <2>3 DEF CheckComm, postureVars, Acting, Idle
  <2>4. CASE SendSignal
    BY <1>5, <2>4 DEF SendSignal, Deliver, postureVars, Acting
  <2>5. CASE BlockDestination
    BY <1>5, <2>5 DEF BlockDestination, postureVars, Acting
  <2>6. CASE Noop
    BY <1>5, <2>6 DEF Noop, postureVars, Acting
  <2> QED BY <1>8, <2>1, <2>2, <2>3, <2>4, <2>5, <2>6, ZenonT(60) DEF PipelineStep
<1>9. CASE FleetStep
  <2>1. ASSUME NEW pid \in Pids, RequestKill(pid) PROVE OverdueInv' /\ AtMostOneOverdue'
    BY <1>4, <2>1 DEF RequestKill, postureVars, Acting
  <2>2. CASE RemoteKill
    BY <1>6, <2>2 DEF RemoteKill, Deliver, postureVars, Idle
  <2>3. ASSUME NEW ip \in Texts, RequestNetworkBlock(ip) PROVE OverdueInv' /\ AtMostOneOverdue'
    BY <1>4, <2>3 DEF RequestNetworkBlock, postureVars, Acting
  <2>4. CASE RemoteBlock
    BY <1>6, <2>4 DEF RemoteBlock, postureVars, Idle
  <2> QED BY <1>3, <1>9, <2>1, <2>2, <2>3, <2>4 DEF FleetStep
<1>10. CASE RestartAgent
  <2>1. ~Acting' /\ remote' = Idle /\ overdue' = 0
    BY <1>10 DEF RestartAgent, Acting, Idle
  <2> QED BY <2>1 DEF OverdueInv, AtMostOneOverdue
<1> QED BY <1>7, <1>8, <1>9, <1>10 DEF Next

-----------------------------------------------------------------------------
(* The PID-reuse guard: a pid that still holds the checked incarnation     *)
(* still has the checked name when the signal is sent.                     *)
LEMMA IncarnationStep ==
    ASSUME ResponderInv, Next
    PROVE  IncarnationInv' /\ GuardedSignals'
<1>1. /\ procs \in [Pids -> Processes \cup {None}] /\ spawned \in 0..MaxSpawns
      /\ handler \in Handlers /\ IncarnationInv /\ GuardedSignals
  BY DEF ResponderInv, TypeOK
<1>2. handler.pc = "signal" => handler.pid \in Pids /\ handler.checked \in 1..MaxSpawns
  BY <1>1 DEF Handlers, Idle
<1>3. ASSUME UNCHANGED hostVars, handler' = handler \/ handler'.pc # "signal"
      PROVE  IncarnationInv'
  <2>1. procs' = procs /\ spawned' = spawned
    BY <1>3 DEF hostVars
  <2>2. CASE handler' = handler
    BY <1>1, <2>1, <2>2 DEF IncarnationInv
  <2>3. CASE handler'.pc # "signal"
    BY <1>1, <2>1, <2>3 DEF IncarnationInv
  <2> QED BY <1>3, <2>2, <2>3
<1>4. signal' = signal => GuardedSignals'
  BY <1>1 DEF GuardedSignals
<1>5. ASSUME NEW pid \in Pids, Spawn(pid) PROVE IncarnationInv' /\ GuardedSignals'
  <2>1. PICK c \in Comms, x \in Exes :
            procs' = [procs EXCEPT ![pid] = [id |-> spawned', comm |-> c, exe |-> x]]
    BY <1>5, Zenon DEF Spawn
  <2>2. spawned' = spawned + 1 /\ handler' = handler /\ signal' = signal
    BY <1>5 DEF Spawn
  <2>3. procs'[pid].id = spawned + 1
    BY <1>1, <2>1, <2>2
  <2>4. \A p \in Pids \ {pid} : procs'[p] = procs[p]
    BY <1>1, <2>1
  <2>5. \A p \in Pids : procs'[p] # None => procs'[p].id <= spawned'
    <3> SUFFICES ASSUME NEW p \in Pids, procs'[p] # None PROVE procs'[p].id <= spawned'
      OBVIOUS
    <3>1. CASE p = pid
      BY <1>1, <2>2, <2>3, <3>1
    <3>2. CASE p # pid
      <4>1. procs[p] # None /\ procs[p] \in Processes
        BY <1>1, <2>4, <3>2
      <4>2. procs[p].id \in Nat /\ procs[p].id <= spawned
        BY <1>1, <4>1, SMTT(60) DEF IncarnationInv, Processes
      <4> QED BY <1>1, <2>2, <2>4, <3>2, <4>2
    <3> QED BY <3>1, <3>2
  <2>6. ASSUME handler.pc = "signal"
        PROVE  /\ handler.checked <= spawned'
               /\ procs'[handler.pid] # None /\ procs'[handler.pid].id = handler.checked
                     => procs'[handler.pid].comm = handler.comm
    <3>1. handler.checked \in Nat /\ handler.checked <= spawned /\ handler.pid \in Pids
      BY <1>1, <1>2, <2>6 DEF IncarnationInv
    <3>2. CASE handler.pid = pid
      BY <1>1, <2>2, <2>3, <3>1, <3>2
    <3>3. CASE handler.pid # pid
      BY <1>1, <2>2, <2>4, <2>6, <3>1, <3>3 DEF IncarnationInv
    <3> QED BY <3>2, <3>3, SMTT(60)
  <2>7. IncarnationInv'
    BY <2>2, <2>5, <2>6 DEF IncarnationInv
  <2> QED BY <1>4, <2>2, <2>7
<1>6. ASSUME NEW pid \in Pids, Exit(pid) PROVE IncarnationInv' /\ GuardedSignals'
  <2>1. /\ procs' = [procs EXCEPT ![pid] = None]
        /\ spawned' = spawned /\ handler' = handler /\ signal' = signal
    BY <1>6 DEF Exit
  <2>2. \A p \in Pids : procs'[p] # None => procs'[p] = procs[p]
    BY <1>1, <2>1
  <2>3. IncarnationInv'
    BY <1>1, <1>2, <2>1, <2>2 DEF IncarnationInv
  <2> QED BY <1>4, <2>1, <2>3
<1>7. CASE HostStep
  BY <1>5, <1>6, <1>7, Zenon DEF HostStep
<1>8. CASE PipelineStep
  <2>1. ASSUME NEW pid \in Pids, Observe(pid) PROVE IncarnationInv' /\ GuardedSignals'
    <3>1. UNCHANGED hostVars /\ signal' = signal
      BY <2>1, Zenon DEF Observe
    <3>2. PICK c, x, ip, a : handler' = [pc |-> "alert", pid |-> pid, comm |-> c, exe |-> x,
                                         dstIP |-> ip, action |-> a]
      BY <2>1, Zenon DEF Observe
    <3>3. handler'.pc # "signal"
      BY <3>2
    <3> QED BY <1>3, <1>4, <3>1, <3>3, Zenon
  <2>2. CASE Handle
    <3>1. handler'.pc # "signal"
      BY <1>1, <2>2 DEF Handle, Handlers, Idle
    <3> QED BY <1>3, <1>4, <2>2, <3>1 DEF Handle
  <2>3. CASE CheckComm
    <3>1. UNCHANGED hostVars /\ signal' = signal
      BY <2>3, ZenonT(60) DEF CheckComm
    <3>2. handler.pid \in Pids /\ handler.comm \in Comms
      BY <1>1, <2>3 DEF CheckComm, Handlers, Idle
    <3>3. CASE GuardPasses(handler.pid, handler.comm)
      <4>1. procs[handler.pid] # None /\ procs[handler.pid].comm = handler.comm
        BY <3>2, <3>3, ResponderAssumption, Zenon DEF GuardPasses
      <4>2. handler' = [pc |-> "signal", pid |-> handler.pid, comm |-> handler.comm,
                        checked |-> procs[handler.pid].id]
        BY <2>3, <3>3 DEF CheckComm
      <4>3. procs' = procs /\ spawned' = spawned
        BY <3>1, Zenon DEF hostVars
      <4>4. IncarnationInv'
        BY <1>1, <3>2, <4>1, <4>2, <4>3 DEF IncarnationInv
      <4> QED BY <1>4, <3>1, <4>4, Zenon
    <3>4. CASE ~GuardPasses(handler.pid, handler.comm)
      BY <1>3, <1>4, <2>3, <3>1, <3>4, SMTT(60) DEF CheckComm, Idle
    <3> QED BY <3>3, <3>4
  <2>4. CASE SendSignal
    <3>1. IncarnationInv'
      BY <1>3, <2>4 DEF SendSignal, Idle
    <3>2. handler.pc = "signal" /\ Deliver(handler.pid, handler.comm, handler.checked)
      BY <2>4 DEF SendSignal
    <3>3. CASE procs[handler.pid] = None
      BY <1>4, <3>1, <3>2, <3>3 DEF Deliver
    <3>4. CASE procs[handler.pid] # None
      <4>1. signal' = [exe |-> procs[handler.pid].exe, comm |-> procs[handler.pid].comm,
                       by |-> handler.comm,
                       recycled |-> procs[handler.pid].id # handler.checked]
        BY <3>2, <3>4 DEF Deliver
      <4>2. /\ signal'.comm = procs[handler.pid].comm /\ signal'.by = handler.comm
            /\ signal'.recycled = (procs[handler.pid].id # handler.checked)
        BY <4>1, Zenon
      <4>3. procs[handler.pid].id = handler.checked => procs[handler.pid].comm = handler.comm
        BY <1>1, <3>2, <3>4 DEF IncarnationInv
      <4>4. GuardedSignals'
        BY <4>2, <4>3, Zenon DEF GuardedSignals
      <4> QED BY <3>1, <4>4, ZenonT(60)
    <3> QED BY <3>3, <3>4
  <2>5. CASE BlockDestination
    BY <1>3, <1>4, <2>5, Zenon DEF BlockDestination, Idle
  <2>6. CASE Noop
    BY <1>3, <1>4, <2>6, Zenon DEF Noop, Idle
  <2> QED BY <1>8, <2>1, <2>2, <2>3, <2>4, <2>5, <2>6, Zenon DEF PipelineStep
<1>9. CASE FleetStep
  <2>1. CASE RemoteKill
    <3>1. IncarnationInv'
      BY <1>3, <2>1, ZenonT(60) DEF RemoteKill
    <3>2. signal' = signal \/ signal'.by = None
      BY <2>1 DEF RemoteKill, Deliver
    <3>3. GuardedSignals'
      BY <1>4, <3>2 DEF GuardedSignals
    <3> QED BY <3>1, <3>3
  <2>2. CASE UNCHANGED <<hostVars, handler, signal>>
    BY <1>3, <1>4, <2>2
  <2> QED BY <1>9, <2>1, <2>2, Zenon
          DEF FleetStep, SetResponseMode, RequestKill, RequestNetworkBlock, RemoteBlock
<1>10. CASE RestartAgent
  BY <1>3, <1>4, <1>10 DEF RestartAgent, Idle
<1> QED BY <1>7, <1>8, <1>9, <1>10 DEF Next

-----------------------------------------------------------------------------
(* A started agent: the loaded configuration respects its ceiling, nothing *)
(* has happened yet.                                                       *)
LEMMA InitInv == Init => ResponderInv
<1> SUFFICES ASSUME Init PROVE ResponderInv
  OBVIOUS
<1> USE DEF Init, Idle
<1>1. PostureTypeOK /\ BelowCeiling
  BY ParseModeType
     DEF PostureInit, New, LoadedConfigs, clampMode, PostureTypeOK, BelowCeiling,
         Modes, ModeOff, ModeDryRun, ModeEnforce
<1>2. BlockerInv
  BY BlockerInitInv, ZenonT(60)
<1>3. TypeOK
  BY <1>1, <1>2, ResponderAssumption DEF TypeOK, BlockerInv, Handlers, Remotes
<1>4. NoEffectAboveCeiling
  BY DEF NoEffectAboveCeiling, BlockerInit
<1>5. ActingNeedsEnforceCeiling /\ OverdueInv /\ AtMostOneOverdue
  BY DEF ActingNeedsEnforceCeiling, Acting, OverdueInv, AtMostOneOverdue
<1>6. IncarnationInv /\ GuardedSignals /\ BlockReportsTrue
  BY DEF IncarnationInv, GuardedSignals, BlockReportsTrue
<1> QED BY <1>1, <1>2, <1>3, <1>4, <1>5, <1>6 DEF ResponderInv

(* A step outside the response path changes nothing the invariant reads.   *)
LEMMA StutterInv ==
    ASSUME ResponderInv, UNCHANGED vars
    PROVE  ResponderInv'
<1>1. /\ UNCHANGED postureVars /\ UNCHANGED blockerVars /\ UNCHANGED hostVars
      /\ UNCHANGED <<handler, remote, signal, claimed, overdue>>
  BY DEF vars
<1>2. TypeOK'
  BY <1>1 DEF ResponderInv, TypeOK, postureVars, blockerVars, hostVars, PostureTypeOK,
              BlockerTypeOK
<1>3. BlockerInv'
  BY <1>1 DEF ResponderInv, BlockerInv, blockerVars, BlockerTypeOK, BlockedIsDropped,
              RulesAccountedFor
<1>4. BelowCeiling' /\ ActingNeedsEnforceCeiling' /\ NoEffectAboveCeiling'
  BY <1>1 DEF ResponderInv, postureVars, blockerVars, BelowCeiling, NoEffectAboveCeiling,
              ActingNeedsEnforceCeiling, Acting
<1>5. OverdueInv' /\ AtMostOneOverdue'
  BY <1>1, ZenonT(60) DEF ResponderInv, postureVars, OverdueInv, AtMostOneOverdue, Acting
<1>6. IncarnationInv' /\ GuardedSignals' /\ BlockReportsTrue'
  BY <1>1 DEF ResponderInv, hostVars, blockerVars, IncarnationInv, GuardedSignals,
              BlockReportsTrue
<1> QED BY <1>2, <1>3, <1>4, <1>5, <1>6 DEF ResponderInv

(* The inductive invariant of the response path.                           *)
THEOREM ResponderInvariance == Spec => []ResponderInv
<1>1. ResponderInv /\ [Next]_vars => ResponderInv'
  <2>1. ASSUME ResponderInv, Next PROVE ResponderInv'
    BY <2>1, BlockingStep, TypeStep, CeilingStep, OverdueStep, IncarnationStep
       DEF ResponderInv
  <2> QED BY <2>1, StutterInv
<1> QED BY InitInv, <1>1, PTL DEF Spec

(* Every reachable state of the responder is well typed.                   *)
THEOREM ResponderIsTyped == Spec => []TypeOK
<1>1. ResponderInv => TypeOK
  BY DEF ResponderInv
<1> QED BY ResponderInvariance, <1>1, PTL

(* max_mode holds: whatever the control plane pushes, an agent configured  *)
(* below enforce signals nothing and installs no firewall object.          *)
THEOREM CeilingHolds == Spec => []NoEffectAboveCeiling
<1>1. ResponderInv => NoEffectAboveCeiling
  BY DEF ResponderInv
<1> QED BY ResponderInvariance, <1>1, PTL

(* Lowering the mode lets at most one effect through, the one whose mode   *)
(* check had already passed.                                               *)
THEOREM LoweringStopsResponses == Spec => []AtMostOneOverdue
<1>1. ResponderInv => AtMostOneOverdue
  BY DEF ResponderInv
<1> QED BY ResponderInvariance, <1>1, PTL

(* signalGuarded protects against PID reuse up to the check-to-signal      *)
(* window.                                                                 *)
THEOREM SignalsAreGuarded == Spec => []GuardedSignals
<1>1. ResponderInv => GuardedSignals
  BY DEF ResponderInv
<1> QED BY ResponderInvariance, <1>1, PTL

(* What the blocker believes blocked is dropped by the kernel, through     *)
(* every failure of an nft command and every restart (network.go Block).   *)
THEOREM BlockedIsAlwaysDropped == Spec => []BlockedIsDropped
<1>1. ResponderInv => BlockedIsDropped
  BY DEF ResponderInv, BlockerInv
<1> QED BY ResponderInvariance, <1>1, PTL

(* Rules for a destination only multiply through restarts and commands     *)
(* that were committed and reported as failed (network.go Block).          *)
THEOREM RulesNeverPileUp == Spec => []NoPileUp
<1>1. ResponderInv => NoPileUp
  BY AccountingBoundsRules DEF ResponderInv
<1> QED BY ResponderInvariance, <1>1, PTL

(* No response is recorded as blocked without its drop rule.               *)
THEOREM BlockRecordsAreTrue == Spec => []BlockReportsTrue
<1>1. ResponderInv => BlockReportsTrue
  BY DEF ResponderInv
<1> QED BY ResponderInvariance, <1>1, PTL

-----------------------------------------------------------------------------
(* The ladder agrees with the bands triage reads a score as, and never     *)
(* gets milder as an alert gets worse.                                     *)

(* triage.go: "Risk thresholds match the response ladder".  An alert that  *)
(* carries a risk score gets the response a scoreless alert would get that *)
(* has the severity triage reads that score as, with or without a          *)
(* destination.                                                            *)
THEOREM LadderMatchesTriage ==
    ASSUME NEW risk \in Nat \ {0}, NEW hasTarget \in BOOLEAN
    PROVE  Scored(risk, hasTarget) = Scored(severityScore(SeverityForRisk(risk)), hasTarget)
<1>1. /\ risk >= 90 => severityScore(SeverityForRisk(risk)) = 90
      /\ risk >= 75 /\ risk < 90 => severityScore(SeverityForRisk(risk)) = 75
      /\ risk >= 50 /\ risk < 75 => severityScore(SeverityForRisk(risk)) = 50
      /\ risk < 50 => severityScore(SeverityForRisk(risk)) = 0
  BY DEF SeverityForRisk, severityScore, ThrottleScore, BlockScore, KillScore
<1> QED BY <1>1 DEF Scored, ThrottleScore, BlockScore, KillScore

(* policy.go: "a graduated ladder".  Among alerts without an explicit      *)
(* request, a higher effective score never gets a milder response, and     *)
(* neither does gaining a destination to block.                            *)
THEOREM LadderIsMonotone ==
    ASSUME NEW low \in Nat, NEW high \in Nat, low <= high,
           NEW t1 \in BOOLEAN, NEW t2 \in BOOLEAN, t1 => t2
    PROVE  Rung(Scored(low, t1)) <= Rung(Scored(high, t2))
<1>1. ASSUME NEW score \in Nat, NEW t \in BOOLEAN
      PROVE  /\ score >= 90 => Rung(Scored(score, t)) = 3
             /\ score >= 75 /\ score < 90 => Rung(Scored(score, t)) = IF t THEN 2 ELSE 1
             /\ score >= 50 /\ score < 75 => Rung(Scored(score, t)) = 1
             /\ score < 50 => Rung(Scored(score, t)) = 0
  BY SMTT(60) DEF Rung, Scored, ThrottleScore, BlockScore, KillScore
<1> QED BY <1>1
-----------------------------------------------------------------------------
(* Kernel enforcement.  The map that the hooks read holds off or the       *)
(* configured mode, never the posture, and the protected pid is the        *)
(* agent's or unset; so a verdict can be traced to the configuration.      *)
CONSTANTS Agent, Others, CredReaders

VARIABLES loader, config, guarded, readers, attached, verdict

Guard == INSTANCE KernelGuard

(* The inductive invariant of the hooks.                                   *)
GuardInv ==
    /\ mode \in Nat /\ maxMode \in Guard!Modes /\ cfgMode \in Guard!Modes
    /\ cfgMode <= maxMode
    /\ config \in {Guard!ModeOff, cfgMode}
    /\ guarded \in {Guard!Unset, Agent}
    /\ Guard!KernelBelowCeiling

(* config.Load and respond.New establish it.                               *)
LEMMA GuardStarts == Guard!Init => GuardInv
<1> SUFFICES ASSUME Guard!Init PROVE GuardInv
  OBVIOUS
<1>1. PICK c \in Guard!LoadedConfigs : Guard!New(c)
  BY DEF Guard!Init, Guard!PostureInit
<1>2. Guard!ParseMode(c.mode) \in Guard!Modes /\ Guard!ParseMode(c.max) \in Guard!Modes
  BY DEF Guard!LoadedConfigs, Guard!ValidModeTexts, Guard!ParseMode, Guard!Modes
<1>3. Guard!ParseMode(c.mode) <= Guard!ParseMode(c.max)
  BY DEF Guard!LoadedConfigs
<1>4. mode \in Nat /\ maxMode \in Guard!Modes /\ cfgMode \in Guard!Modes /\ cfgMode <= maxMode
  BY <1>1, <1>2, <1>3 DEF Guard!New, Guard!clampMode, Guard!Modes, Guard!ModeOff, Guard!ModeDryRun, Guard!ModeEnforce
<1> QED
  BY <1>4 DEF Guard!Init, GuardInv, Guard!KernelBelowCeiling, Guard!NoVerdict

(* A hook denies or records only in the mode that was loaded, so its       *)
(* verdict respects the ceiling (edr_lsm.bpf.c).                           *)
LEMMA DecideKeepsGuard ==
    ASSUME GuardInv, NEW hook, NEW subject, NEW applies \in BOOLEAN,
           Guard!Decide(hook, subject, applies),
           applies /\ hook \in {"task_kill", "ptrace_guard"} =>
               subject[2] = Agent /\ subject[1] # Agent
    PROVE  GuardInv'
<1>1. UNCHANGED <<mode, maxMode, cfgMode, config, guarded>>
  BY ZenonT(60) DEF Guard!Decide, Guard!postureVars
<1>2. PICK reserved \in BOOLEAN :
          verdict' = [hook |-> hook, subject |-> subject,
                      denied |-> (applies /\ config # Guard!ModeOff) /\ config = Guard!ModeEnforce,
                      recorded |-> (applies /\ config # Guard!ModeOff) /\ reserved]
  BY DEF Guard!Decide
<1>3. verdict'.hook = hook /\ verdict'.subject = subject
  BY <1>2
<1>4. verdict'.denied => applies /\ config = Guard!ModeEnforce
  BY <1>2, Zenon
<1>5. verdict'.recorded => config # Guard!ModeOff
  BY <1>2, ZenonT(60)
<1>6. Guard!KernelBelowCeiling'
  BY <1>1, <1>3, <1>4, <1>5
     DEF Guard!KernelBelowCeiling, GuardInv, Guard!Modes, Guard!ModeOff, Guard!ModeDryRun, Guard!ModeEnforce
<1> QED
  BY <1>1, <1>6 DEF GuardInv

(* Every step of loader, control plane and hooks keeps it.                 *)
LEMMA GuardStep == GuardInv /\ [Guard!Next]_(Guard!vars) => GuardInv'
<1> SUFFICES ASSUME GuardInv, [Guard!Next]_(Guard!vars) PROVE GuardInv'
  BY Zenon
<1>1. CASE Guard!SkipEnforcement
  BY <1>1, Zenon DEF Guard!SkipEnforcement, Guard!postureVars, GuardInv, Guard!KernelBelowCeiling
<1>2. CASE Guard!loadEnforcement
  BY <1>2, Zenon DEF Guard!loadEnforcement, Guard!postureVars, GuardInv, Guard!KernelBelowCeiling
<1>3. CASE Guard!AttachLSM
  BY <1>3, Zenon DEF Guard!AttachLSM, Guard!postureVars, GuardInv, Guard!KernelBelowCeiling
<1>4. CASE Guard!Close
  BY <1>4, ZenonT(60) DEF Guard!Close, Guard!postureVars, GuardInv, Guard!KernelBelowCeiling
<1>5. ASSUME NEW text \in Guard!ModeTexts, Guard!SetResponseMode(text)
      PROVE  GuardInv'
  <2>1. mode' \in Nat
    BY <1>5 DEF Guard!SetResponseMode, Guard!SetMode, Guard!clampMode, Guard!ParseMode, GuardInv,
                Guard!Modes, Guard!ModeOff, Guard!ModeDryRun, Guard!ModeEnforce
  <2> QED
    BY <1>5, <2>1 DEF Guard!SetResponseMode, Guard!SetMode, Guard!guardVars, GuardInv, Guard!KernelBelowCeiling
<1>6. ASSUME NEW isTemp \in BOOLEAN, Guard!bprm_check(isTemp)
      PROVE  GuardInv'
  BY <1>6, DecideKeepsGuard DEF Guard!bprm_check
<1>7. ASSUME NEW s \in Guard!Tgids, NEW t \in Guard!Tgids, NEW sig, Guard!task_kill(s, t, sig)
      PROVE  GuardInv'
  <2>1. PICK applies \in BOOLEAN :
            applies = (/\ guarded # Guard!Unset
                       /\ t = guarded
                       /\ s # guarded
                       /\ sig \in Guard!GuardedSignals)
    BY Zenon
  <2>2. applies => t = Agent /\ s # Agent
    BY <2>1, Zenon DEF GuardInv
  <2>3. Guard!Decide("task_kill", <<s, t>>, applies)
    BY <1>7, <2>1, Zenon DEF Guard!task_kill
  <2> QED
    BY <2>2, <2>3, DecideKeepsGuard
<1>8. ASSUME NEW s \in Guard!Tgids, NEW t \in Guard!Tgids, Guard!ptrace_guard(s, t)
      PROVE  GuardInv'
  <2>1. PICK applies \in BOOLEAN :
            applies = (/\ guarded # Guard!Unset
                       /\ t = guarded
                       /\ s # guarded)
    BY Zenon
  <2>2. applies => t = Agent /\ s # Agent
    BY <2>1, Zenon DEF GuardInv
  <2>3. Guard!Decide("ptrace_guard", <<s, t>>, applies)
    BY <1>8, <2>1, Zenon DEF Guard!ptrace_guard
  <2> QED
    BY <2>2, <2>3, DecideKeepsGuard
<1>9. ASSUME NEW comm \in Comms, NEW isShadow \in BOOLEAN, Guard!file_open_guard(comm, isShadow)
      PROVE  GuardInv'
  BY <1>9, DecideKeepsGuard, ZenonT(60) DEF Guard!file_open_guard
<1>10. CASE UNCHANGED Guard!vars
  BY <1>10 DEF Guard!vars, Guard!postureVars, Guard!guardVars, GuardInv, Guard!KernelBelowCeiling
<1> QED
  BY <1>1, <1>2, <1>3, <1>4, <1>5, <1>6, <1>7, <1>8, <1>9, <1>10 DEF Guard!Next

(* The hooks of edr_lsm.bpf.c deny nothing on a host whose ceiling or      *)
(* configured mode is below enforce and record nothing on one configured   *)
(* off, and the signal and ptrace hooks only deny other processes'         *)
(* operations on the agent: for any processes, names and allowlist,        *)
(* whatever part of the load failed and whatever posture is pushed.        *)
THEOREM KernelRespectsCeiling == Guard!Spec => []Guard!KernelBelowCeiling
<1>1. GuardInv => Guard!KernelBelowCeiling
  BY DEF GuardInv
<1> QED
  BY <1>1, GuardStarts, GuardStep, PTL DEF Guard!Spec

-----------------------------------------------------------------------------
(* The playbook engine.                                                    *)
CONSTANTS Workers, Alerts, Bodies, Configured, MaxRuns, MaxPlaybooks

VARIABLES enabled, lastID, byID, runs, task, crashed

Engine == INSTANCE Soar WITH seq <- lastID

(* What a sequence holds.                                                  *)
Items(s) == {s[i] : i \in DOMAIN s}

(* A sequence is a function on its indexes.                                *)
LEMMA SeqIsFunctions ==
    ASSUME NEW S
    PROVE  Seq(S) = UNION {[1..n -> S] : n \in Nat}
OBVIOUS

(* A sequence is one over its own items.                                   *)
LEMMA IsSequence ==
    ASSUME NEW S, NEW s \in Seq(S)
    PROVE  s \in Seq(Items(s))
BY SeqIsFunctions DEF Items

(* A goroutine's outcomes so far agree with the mode its run will be       *)
(* recorded under, although the playbook may change in the store meanwhile *)
(* (the goroutine has a copy).                                             *)
HonestTask(t) ==
    /\ t = [pc |-> t.pc, alert |-> t.alert, test |-> t.test, todo |-> t.todo,
            step |-> t.step, outcomes |-> t.outcomes]
    /\ t.pc \in {"observe", "list", "run"}
    /\ t.outcomes \in Seq(Items(t.outcomes))
    /\ t.pc # "run" => t.outcomes = << >>
    /\ \A k \in DOMAIN t.outcomes :
          t.outcomes[k].executed =>
              Engine!readOnly(t.outcomes[k].type) \/ ~Engine!dryRun(t.test, Head(t.todo).mode)

(* The inductive invariant of the engine.                                  *)
EngineInv ==
    /\ task = [w \in Workers |-> task[w]]
    /\ \A w \in Workers : task[w] = Engine!Idle \/ HonestTask(task[w])
    /\ runs \in Seq(Items(runs))
    /\ Engine!HistoryIsHonest

(* So it is with one item more.                                            *)
LEMMA AppendIsSequence ==
    ASSUME NEW s, s \in Seq(Items(s)), NEW e
    PROVE  /\ Append(s, e) \in Seq(Items(Append(s, e)))
           /\ \A i \in DOMAIN Append(s, e) :
                 Append(s, e)[i] = e \/ (i \in DOMAIN s /\ Append(s, e)[i] = s[i])
<1>1. s \in Seq(Items(s) \cup {e})
  BY SeqIsFunctions
<1>2. Append(s, e) \in Seq(Items(s) \cup {e})
  BY <1>1
<1>3. Append(s, e) \in Seq(Items(Append(s, e)))
  BY <1>2, IsSequence, Zenon
<1>4. ASSUME NEW S, NEW u \in Seq(S), NEW i \in DOMAIN Append(u, e), e \in S
      PROVE  Append(u, e)[i] = e \/ (i \in DOMAIN u /\ Append(u, e)[i] = u[i])
  BY <1>4
<1> QED  BY <1>1, <1>3, <1>4

(* And with one less.                                                      *)
LEMMA TailIsSequence ==
    ASSUME NEW s, s \in Seq(Items(s)), s # << >>
    PROVE  /\ Tail(s) \in Seq(Items(Tail(s)))
           /\ \A i \in DOMAIN Tail(s) : i + 1 \in DOMAIN s /\ Tail(s)[i] = s[i + 1]
<1>1. Tail(s) \in Seq(Items(s))
  OBVIOUS
<1>2. Tail(s) \in Seq(Items(Tail(s)))
  BY <1>1, IsSequence, Zenon
<1>3. ASSUME NEW S, NEW u \in Seq(S), u # << >>, NEW i \in DOMAIN Tail(u)
      PROVE  i + 1 \in DOMAIN u /\ Tail(u)[i] = u[i + 1]
  BY <1>3
<1> QED  BY <1>2, <1>3

(* Nothing runs and nothing is listed at the start.                        *)
LEMMA EngineInit ==
    Engine!Init => EngineInv
<1> SUFFICES ASSUME Engine!Init
             PROVE  EngineInv
  OBVIOUS
<1>1. task = [w \in Workers |-> task[w]] /\ \A w \in Workers : task[w] = Engine!Idle
  BY DEF Engine!Init
<1>2. runs = << >> /\ runs \in Seq(Items(runs))
  BY DEF Engine!Init
<1> QED  BY <1>1, <1>2 DEF EngineInv, Engine!HistoryIsHonest

(* A step of one goroutine that leaves the history alone.                  *)
LEMMA OneTaskChanges ==
    ASSUME EngineInv, runs' = runs, NEW w \in Workers, NEW t, task' = [task EXCEPT ![w] = t],
           t = Engine!Idle \/ HonestTask(t)
    PROVE  EngineInv'
<1>1. /\ task' = [v \in Workers |-> task'[v]]
      /\ \A v \in Workers : task'[v] = IF v = w THEN t ELSE task[v]
  BY Zenon DEF EngineInv
<1>2. ASSUME NEW v \in Workers
      PROVE  (task[v] = Engine!Idle \/ HonestTask(task[v]))'
  BY <1>1, ZenonT(60) DEF EngineInv, HonestTask, Engine!Idle, Engine!readOnly, Engine!dryRun
<1> QED  BY <1>1, <1>2 DEF EngineInv, Engine!HistoryIsHonest, Engine!readOnly

(* A run starts without steps executed.                                    *)
LEMMA StartsHonest ==
    ASSUME NEW pc \in {"observe", "list", "run"}, NEW alert, NEW test, NEW todo
    PROVE  HonestTask(Engine!Working(pc, alert, test, todo))
BY SMTT(60) DEF HonestTask, Engine!Working

(* Switching and editing leave runs and history alone.                     *)
LEMMA OperatorActs ==
    ASSUME EngineInv, Engine!Operator
    PROVE  EngineInv'
<1>1. UNCHANGED <<task, runs>>
  BY Zenon DEF Engine!Operator, Engine!Create, Engine!Update, Engine!Delete, Engine!SetEnabled
<1> QED  BY <1>1, Zenon DEF EngineInv, HonestTask, Engine!HistoryIsHonest, Engine!Idle

(* A goroutine begins with an alert or a test.                             *)
LEMMA GoroutineBegins ==
    ASSUME EngineInv, NEW w \in Workers, Engine!Begin(w)
    PROVE  EngineInv'
<1>1. ASSUME NEW alert \in Alerts, Engine!Arrive(w, alert)
      PROVE  EngineInv'
  BY <1>1, OneTaskChanges, StartsHonest, Zenon DEF Engine!Arrive
<1>2. ASSUME NEW alert \in Alerts, NEW id \in DOMAIN byID, Engine!Test(w, id, alert)
      PROVE  EngineInv'
  <2> DEFINE t == Engine!Working("run", alert, TRUE, Engine!Snapshot({id}))
  <2>1. HonestTask(t)
    BY StartsHonest, ZenonT(60)
  <2>2. runs' = runs /\ task' = [task EXCEPT ![w] = IF t.todo = << >> THEN Engine!Idle ELSE t]
    BY <1>2 DEF Engine!Test, Engine!Resume
  <2> HIDE DEF t
  <2> QED  BY <2>1, <2>2, OneTaskChanges, Zenon
<1> QED  BY <1>1, <1>2 DEF Engine!Begin

(* What is known of a run underway.                                        *)
LEMMA AtWork ==
    ASSUME EngineInv, NEW w \in Workers, task[w].pc # "idle"
    PROVE  HonestTask(task[w])
BY SMTT(60) DEF EngineInv, Engine!Idle

(* Fields of a task that the engine replaces; an empty list of outcomes    *)
(* agrees with every mode.                                                 *)
LEMMA FreshRun ==
    ASSUME NEW t, HonestTask(t), NEW u,
           u = [pc |-> u.pc, alert |-> u.alert, test |-> u.test, todo |-> u.todo,
                step |-> u.step, outcomes |-> u.outcomes],
           u.pc \in {"observe", "list", "run"}, u.outcomes = << >>
    PROVE  HonestTask(u)
BY DEF HonestTask

(* What becomes of a task when some of its fields are replaced.            *)
LEMMA TaskGoesTo ==
    ASSUME NEW t, HonestTask(t), NEW pc
    PROVE  [t EXCEPT !.pc = pc]
             = [pc |-> pc, alert |-> t.alert, test |-> t.test, todo |-> t.todo,
                step |-> t.step, outcomes |-> t.outcomes]
<1>1. PICK a, b, c, d, e, f :
        t = [pc |-> a, alert |-> b, test |-> c, todo |-> d, step |-> e, outcomes |-> f]
  BY DEF HonestTask
<1> QED  BY <1>1, SMTT(60)

(* What EXCEPT makes of a goroutine's task, field by field, ...            *)
LEMMA TaskGets ==
    ASSUME NEW t, HonestTask(t), NEW pc, NEW todo
    PROVE  [t EXCEPT !.pc = pc, !.todo = todo]
             = [pc |-> pc, alert |-> t.alert, test |-> t.test, todo |-> todo,
                step |-> t.step, outcomes |-> t.outcomes]
<1> DEFINE u == [t EXCEPT !.pc = pc]
<1>1. u = [pc |-> pc, alert |-> t.alert, test |-> t.test, todo |-> t.todo,
           step |-> t.step, outcomes |-> t.outcomes]
  BY TaskGoesTo
<1>2. [t EXCEPT !.pc = pc, !.todo = todo] = [u EXCEPT !.todo = todo]
  OBVIOUS
<1> HIDE DEF u
<1> QED  BY <1>1, <1>2

(* ... for the fields that a step sets, ...                                *)
LEMMA TaskSteps ==
    ASSUME NEW t, HonestTask(t), NEW step, NEW outcomes
    PROVE  [t EXCEPT !.step = step, !.outcomes = outcomes]
             = [pc |-> t.pc, alert |-> t.alert, test |-> t.test, todo |-> t.todo,
                step |-> step, outcomes |-> outcomes]
<1>1. PICK a, b, c, d, e, f :
        t = [pc |-> a, alert |-> b, test |-> c, todo |-> d, step |-> e, outcomes |-> f]
  BY DEF HonestTask
<1> DEFINE u == [t EXCEPT !.step = step]
<1>2. u = [pc |-> a, alert |-> b, test |-> c, todo |-> d, step |-> step, outcomes |-> f]
  BY <1>1
<1>3. [t EXCEPT !.step = step, !.outcomes = outcomes] = [u EXCEPT !.outcomes = outcomes]
  OBVIOUS
<1> HIDE DEF u
<1>4. [u EXCEPT !.outcomes = outcomes]
        = [pc |-> a, alert |-> b, test |-> c, todo |-> d, step |-> step, outcomes |-> outcomes]
  BY <1>2
<1> QED  BY <1>1, <1>3, <1>4

(* ... and for those set between two playbooks.                            *)
LEMMA TaskTurns ==
    ASSUME NEW t, HonestTask(t), NEW todo, NEW step, NEW outcomes
    PROVE  [t EXCEPT !.todo = todo, !.step = step, !.outcomes = outcomes]
             = [pc |-> t.pc, alert |-> t.alert, test |-> t.test, todo |-> todo,
                step |-> step, outcomes |-> outcomes]
<1>1. PICK a, b, c, d, e, f :
        t = [pc |-> a, alert |-> b, test |-> c, todo |-> d, step |-> e, outcomes |-> f]
  BY DEF HonestTask
<1> DEFINE u == [t EXCEPT !.todo = todo]
           v == [u EXCEPT !.step = step]
<1>2. u = [pc |-> a, alert |-> b, test |-> c, todo |-> todo, step |-> e, outcomes |-> f]
  BY <1>1
<1>3. [t EXCEPT !.todo = todo, !.step = step, !.outcomes = outcomes] = [v EXCEPT !.outcomes = outcomes]
  OBVIOUS
<1> HIDE DEF u
<1>4. v = [pc |-> a, alert |-> b, test |-> c, todo |-> todo, step |-> step, outcomes |-> f]
  BY <1>2
<1> HIDE DEF v
<1>5. [v EXCEPT !.outcomes = outcomes]
        = [pc |-> a, alert |-> b, test |-> c, todo |-> todo, step |-> step, outcomes |-> outcomes]
  BY <1>4
<1> QED  BY <1>1, <1>3, <1>5

(* The switch is read; the playbooks are copied.                           *)
LEMMA ObservesOrLists ==
    ASSUME EngineInv, NEW w \in Workers, Engine!Observe(w) \/ Engine!List(w)
    PROVE  EngineInv'
<1> DEFINE t == task[w]
<1>1. HonestTask(t) /\ t.pc \in {"observe", "list"} /\ t.outcomes = << >>
  <2>1. t.pc \in {"observe", "list"}
    BY DEF Engine!Observe, Engine!List
  <2> QED  BY <2>1, AtWork, Zenon DEF HonestTask
<1>2. CASE Engine!Observe(w)
  <2> DEFINE u == [t EXCEPT !.pc = "list"]
  <2>1. runs' = runs /\ task' = [task EXCEPT ![w] = IF enabled THEN u ELSE Engine!Idle]
    BY <1>2 DEF Engine!Observe
  <2>2. u = [pc |-> "list", alert |-> t.alert, test |-> t.test, todo |-> t.todo,
             step |-> t.step, outcomes |-> t.outcomes]
    BY <1>1, TaskGoesTo, Zenon
  <2> HIDE DEF t, u
  <2>3. HonestTask(u)
    BY <1>1, <2>2, FreshRun
  <2> QED  BY <2>1, <2>3, OneTaskChanges, Zenon
<1>3. CASE Engine!List(w)
  <2> DEFINE todo == Engine!Snapshot(Engine!Selected(t.alert))
             u == [t EXCEPT !.pc = "run", !.todo = todo]
  <2>1. runs' = runs /\ task' = [task EXCEPT ![w] = IF u.todo = << >> THEN Engine!Idle ELSE u]
    BY <1>3 DEF Engine!List, Engine!Resume
  <2> HIDE DEF todo
  <2>2. u = [pc |-> "run", alert |-> t.alert, test |-> t.test, todo |-> todo,
             step |-> t.step, outcomes |-> t.outcomes]
    BY <1>1, TaskGets, ZenonT(60)
  <2> HIDE DEF t, u
  <2>3. HonestTask(u)
    BY <1>1, <2>2, FreshRun
  <2> QED  BY <2>1, <2>3, OneTaskChanges, Zenon
<1> QED  BY <1>2, <1>3, SMTT(60)

(* Every step of a goroutine keeps runs honest.                            *)
LEMMA Steps ==
    ASSUME EngineInv, NEW w \in Workers, Engine!Step(w)
    PROVE  EngineInv'
<1> DEFINE t == task[w]
           type == Head(t.todo).steps[t.step]
           dry == Engine!dryRun(t.test, Head(t.todo).mode)
<1>1. HonestTask(t) /\ t.pc = "run"
  <2>1. t.pc = "run"
    BY ZenonT(60) DEF Engine!Step
  <2> QED  BY <2>1, AtWork, SMTT(60)
<1>2. runs' = runs
  BY ZenonT(60) DEF Engine!Step
<1>3. CASE task' = task
  BY <1>2, <1>3, Zenon DEF EngineInv, HonestTask, Engine!HistoryIsHonest, Engine!Idle
<1>4. CASE task' # task
  <2>1. PICK ok \in {FALSE} \cup {Engine!Executes(type, t.alert, dry)} :
          task' = [task EXCEPT ![w].step = @ + 1,
                               ![w].outcomes = Append(@, [type |-> type, executed |-> ok])]
    BY <1>4, Zenon DEF Engine!Step
  <2> DEFINE e == [type |-> type, executed |-> ok]
             u == [t EXCEPT !.step = t.step + 1, !.outcomes = Append(t.outcomes, e)]
  <2>2. task' = [task EXCEPT ![w] = u]
    BY <2>1, Zenon DEF EngineInv
  <2>3. ok => ~dry \/ Engine!readOnly(type)
    BY <2>1, Zenon DEF Engine!Executes
  <2>4. e.executed = ok /\ e.type = type
    BY Zenon
  <2> HIDE DEF e
  <2>5. u = [pc |-> t.pc, alert |-> t.alert, test |-> t.test, todo |-> t.todo,
             step |-> t.step + 1, outcomes |-> Append(t.outcomes, e)]
    <3> DEFINE next == t.step + 1
               more == Append(t.outcomes, e)
    <3> HIDE DEF t, next, more
    <3>1. [t EXCEPT !.step = next, !.outcomes = more]
            = [pc |-> t.pc, alert |-> t.alert, test |-> t.test, todo |-> t.todo,
               step |-> next, outcomes |-> more]
      BY <1>1, TaskSteps, ZenonT(60)
    <3> QED  BY <3>1, SMTT(60) DEF next, more
  <2>6. /\ t.outcomes \in Seq(Items(t.outcomes))
        /\ \A k \in DOMAIN t.outcomes :
              t.outcomes[k].executed => Engine!readOnly(t.outcomes[k].type) \/ ~dry
    BY <1>1, ZenonT(60) DEF HonestTask
  <2>7. /\ Append(t.outcomes, e) \in Seq(Items(Append(t.outcomes, e)))
        /\ \A k \in DOMAIN Append(t.outcomes, e) :
              \/ Append(t.outcomes, e)[k] = e
              \/ k \in DOMAIN t.outcomes /\ Append(t.outcomes, e)[k] = t.outcomes[k]
    BY <2>6, AppendIsSequence, ZenonT(60)
  <2>8. \A k \in DOMAIN Append(t.outcomes, e) :
          Append(t.outcomes, e)[k].executed =>
              Engine!readOnly(Append(t.outcomes, e)[k].type) \/ ~dry
    BY <2>3, <2>4, <2>6, <2>7, ZenonT(60)
  <2>9. HonestTask(u)
    BY <1>1, <2>5, <2>7, <2>8, ZenonT(60) DEF HonestTask
  <2> QED  BY <1>2, <2>2, <2>9, OneTaskChanges, ZenonT(60)
<1> QED  BY <1>3, <1>4

(* record lists the run under the mode it had.                             *)
LEMMA Records ==
    ASSUME EngineInv, NEW w \in Workers, Engine!Record(w)
    PROVE  EngineInv'
<1> DEFINE t == task[w]
           shown == Engine!effectiveMode(t.test, Head(t.todo).mode)
           run == [id |-> Head(t.todo).id, mode |-> shown, outcomes |-> t.outcomes]
           all == Append(runs, run)
           u == [t EXCEPT !.todo = Tail(t.todo), !.step = 1, !.outcomes = << >>]
<1>1. HonestTask(t) /\ t.pc = "run"
  <2>1. t.pc = "run"
    BY ZenonT(60) DEF Engine!Record
  <2> QED  BY <2>1, AtWork
<1>2. /\ runs' = all \/ runs' = Tail(all)
      /\ task' = [task EXCEPT ![w] = IF u.todo = << >> THEN Engine!Idle ELSE u]
  BY SMTT(60) DEF Engine!Record, Engine!Resume
<1>3. u = [pc |-> t.pc, alert |-> t.alert, test |-> t.test, todo |-> Tail(t.todo),
           step |-> 1, outcomes |-> << >>]
  <2> DEFINE rest == Tail(t.todo)
             first == 1
             none == << >>
  <2> HIDE DEF t, rest, first, none
  <2>1. [t EXCEPT !.todo = rest, !.step = first, !.outcomes = none]
          = [pc |-> t.pc, alert |-> t.alert, test |-> t.test, todo |-> rest,
             step |-> first, outcomes |-> none]
    BY <1>1, TaskTurns, ZenonT(60)
  <2> QED  BY <2>1 DEF rest, first, none
<1>4. HonestTask(u)
  <2> HIDE DEF t, u
  <2> QED  BY <1>1, <1>3, FreshRun
<1>5. /\ task' = [v \in Workers |-> task'[v]]
      /\ \A v \in Workers : task'[v] = Engine!Idle \/ HonestTask(task'[v])
  <2> HIDE DEF u
  <2> QED  BY <1>2, <1>4 DEF EngineInv
<1>6. \A k \in DOMAIN t.outcomes :
        t.outcomes[k].executed => shown = "enforce" \/ Engine!readOnly(t.outcomes[k].type)
  BY <1>1, ZenonT(60) DEF HonestTask, Engine!dryRun, Engine!effectiveMode
<1>7. run.mode = shown /\ run.outcomes = t.outcomes
  BY ZenonT(60)
<1> HIDE DEF shown, run
<1>8. /\ all \in Seq(Items(all)) /\ all # << >>
      /\ \A i \in DOMAIN all : all[i] = run \/ (i \in DOMAIN runs /\ all[i] = runs[i])
  <2>1. runs \in Seq(Items(runs))
    BY SMTT(60) DEF EngineInv
  <2>2. /\ all \in Seq(Items(all))
        /\ \A i \in DOMAIN all : all[i] = run \/ (i \in DOMAIN runs /\ all[i] = runs[i])
    BY <2>1, AppendIsSequence
  <2>3. ASSUME NEW S, NEW s \in Seq(S), NEW e
        PROVE  Append(s, e) # << >>
    <3>1. Append(s, e) \in Seq(S \cup {e}) /\ Len(Append(s, e)) = Len(s) + 1
      BY <2>3
    <3> QED  BY <3>1
  <2> QED  BY <2>1, <2>2, <2>3, Zenon
<1>9. \A i \in DOMAIN all : \A k \in DOMAIN all[i].outcomes :
        all[i].outcomes[k].executed =>
            all[i].mode = "enforce" \/ Engine!readOnly(all[i].outcomes[k].type)
  BY <1>6, <1>7, <1>8 DEF EngineInv, Engine!HistoryIsHonest
<1> HIDE DEF all
<1>10. runs' \in Seq(Items(runs')) /\ Engine!HistoryIsHonest'
  <2>1. CASE runs' = all
    BY <1>8, <1>9, <2>1, ZenonT(60) DEF Engine!HistoryIsHonest
  <2>2. CASE runs' = Tail(all)
    BY <1>8, <1>9, <2>2, TailIsSequence DEF Engine!HistoryIsHonest
  <2> QED  BY <1>2, <2>1, <2>2
<1> QED  BY <1>5, <1>10, Zenon DEF EngineInv, HonestTask, Engine!Idle

(* The run history tells no lies (engine.go record): a run listed under    *)
(* another mode than enforce executed nothing but read-only steps, for any *)
(* number of goroutines and playbooks, although playbooks are edited and   *)
(* the engine is switched while runs are underway.                         *)
THEOREM HistoryTellsTheTruth ==
    Engine!Spec => []Engine!HistoryIsHonest
<1>1. EngineInv /\ [Engine!Next]_(Engine!vars) => EngineInv'
  <2>1. ASSUME EngineInv, UNCHANGED Engine!vars
        PROVE  EngineInv'
    BY <2>1, Zenon DEF Engine!vars, EngineInv, HonestTask, Engine!HistoryIsHonest, Engine!Idle
  <2>2. ASSUME EngineInv, NEW w \in Workers, Engine!Proceed(w)
        PROVE  EngineInv'
    BY <2>2, ObservesOrLists, Steps, Records DEF Engine!Proceed
  <2> QED  BY <2>1, <2>2, OperatorActs, GoroutineBegins, SMTT(60) DEF Engine!Next
<1>2. EngineInv => Engine!HistoryIsHonest
  BY DEF EngineInv
<1> QED  BY <1>1, <1>2, EngineInit, PTL DEF Engine!Spec
=============================================================================
