--------------------------- MODULE NetworkBlocker ---------------------------
(***************************************************************************)
(* The nftables blocker of the responder (internal/respond/network.go) and *)
(* the kernel objects it drives.  The agent remembers what it installed in *)
(* chainUp and blocked; the kernel keeps its own table, chain and rules,   *)
(* which outlive the agent.  Every nft command runs under a five second    *)
(* timeout: it succeeds, fails without effect, or is reported as failed    *)
(* although the kernel had already committed it.                           *)
(***************************************************************************)
EXTENDS Naturals

CONSTANTS
    Texts,          \* destination strings a Block call can be given
    ValidIPs,       \* the texts net.ParseIP accepts
    MaxRestarts,    \* bound: agent restarts
    MaxLate         \* bound: commands committed and yet reported as failed

ASSUME BlockerAssumption ==
    /\ ValidIPs \subseteq Texts
    /\ MaxRestarts \in Nat
    /\ MaxLate \in Nat

VARIABLES
    chainUp,    \* networkBlocker.chainUp
    blocked,    \* networkBlocker.blocked: [Texts -> BOOLEAN]
    table,      \* kernel: table inet argus exists
    chain,      \* kernel: chain argus_egress exists
    rules,      \* kernel: number of drop rules added for each text
    late,       \* history: rules committed whose command was reported failed
    restarts    \* history: agent restarts

blockerVars == <<chainUp, blocked, table, chain, rules, late, restarts>>

BlockerInit ==
    /\ chainUp = FALSE
    /\ blocked = [t \in Texts |-> FALSE]
    /\ table = FALSE
    /\ chain = FALSE
    /\ rules = [t \in Texts |-> 0]
    /\ late = [t \in Texts |-> 0]
    /\ restarts = 0

-----------------------------------------------------------------------------
(* Outcomes of one nft invocation through commandRunner.                   *)
Outcomes == {"ok", "failed", "late"}
Commits(o) == o \in {"ok", "late"}

(* ensureChain: `add table`, then `add chain`, stopping at the first       *)
(* command that reports a failure; both are idempotent in the kernel.      *)
ensureChain(t, c) ==
    IF chainUp
    THEN [up |-> TRUE, table |-> table, chain |-> chain]
    ELSE [up    |-> t = "ok" /\ c = "ok",
          table |-> table \/ Commits(t),
          chain |-> chain \/ (t = "ok" /\ Commits(c))]

(* A faulty installation that ignores the outcome of `add rule`.           *)
InstallOptimistic(ip, result) ==
    \E t \in Outcomes, c \in Outcomes, r \in Outcomes :
        LET e == ensureChain(t, c)
            added == e.up /\ e.chain /\ Commits(r)
        IN /\ chainUp' = e.up
           /\ table' = e.table
           /\ chain' = e.chain
           /\ rules' = [rules EXCEPT ![ip] = IF added THEN @ + 1 ELSE @]
           /\ blocked' = [blocked EXCEPT ![ip] = e.up]
           /\ result = IF e.up THEN "blocked" ELSE "failed"
           /\ UNCHANGED <<late, restarts>>

(* Block, for a text that parses and is not blocked yet, when the three    *)
(* commands end as t, c and r: `add rule` runs only once ensureChain       *)
(* succeeded, and fails when the kernel has no chain to add to.  blocked   *)
(* is set last.                                                            *)
RunCommands(ip, result, t, c, r) ==
    LET e == ensureChain(t, c)
        added == e.up /\ e.chain /\ Commits(r)
        done == added /\ r = "ok"
    IN /\ r = "late" => late[ip] < MaxLate
       /\ chainUp' = e.up
       /\ table' = e.table
       /\ chain' = e.chain
       /\ rules' = [rules EXCEPT ![ip] = IF added THEN @ + 1 ELSE @]
       /\ late' = [late EXCEPT ![ip] = IF added /\ ~done THEN @ + 1 ELSE @]
       /\ blocked' = [blocked EXCEPT ![ip] = done]
       /\ result = IF done THEN "blocked" ELSE "failed"
       /\ UNCHANGED restarts

Install(ip, result) ==
    \E t \in Outcomes, c \in Outcomes, r \in Outcomes : RunCommands(ip, result, t, c, r)

(* A faulty Block that installs without looking at blocked.                *)
BlockWithoutLookup(ip, result) ==
    \/ /\ ip \notin ValidIPs
       /\ result = "failed"
       /\ UNCHANGED blockerVars
    \/ /\ ip \in ValidIPs
       /\ Install(ip, result)

(* networkBlocker.Block, one critical section of its mutex.                *)
Block(ip, result) ==
    \/ /\ ip \notin ValidIPs
       /\ result = "failed"
       /\ UNCHANGED blockerVars
    \/ /\ ip \in ValidIPs
       /\ blocked[ip]
       /\ result = "blocked"
       /\ UNCHANGED blockerVars
    \/ /\ ip \in ValidIPs
       /\ ~blocked[ip]
       /\ Install(ip, result)

(* A restarted agent builds a new blocker; the kernel keeps its objects.   *)
newNetworkBlocker ==
    /\ restarts < MaxRestarts
    /\ restarts' = restarts + 1
    /\ chainUp' = FALSE
    /\ blocked' = [t \in Texts |-> FALSE]
    /\ UNCHANGED <<table, chain, rules, late>>

-----------------------------------------------------------------------------
BlockerTypeOK ==
    /\ chainUp \in BOOLEAN
    /\ blocked \in [Texts -> BOOLEAN]
    /\ table \in BOOLEAN
    /\ chain \in BOOLEAN
    /\ rules \in [Texts -> Nat]
    /\ late \in [Texts -> Nat]
    /\ restarts \in Nat

(* What the blocker believes is true in the kernel: an address recorded in *)
(* blocked, for which Block answers success without running nft, has a     *)
(* drop rule, and a chain recorded in chainUp exists.  Partial failures of *)
(* ensureChain and of `add rule` must not break it.                        *)
BlockedIsDropped ==
    /\ \A t \in Texts : blocked[t] => rules[t] > 0
    /\ chainUp => table /\ chain

(* Block is idempotent: repeated calls do not pile up drop rules.  Beyond  *)
(* the first, a rule for the same text needs an agent restart (blocked is  *)
(* lost, the kernel keeps the rule) or a command that was committed and    *)
(* yet reported as failed.                                                 *)
NoPileUp ==
    \A t \in Texts : rules[t] <= 1 + restarts + late[t]
=============================================================================
