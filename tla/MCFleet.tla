------------------------------- MODULE MCFleet -------------------------------
(***************************************************************************)
(* What the server and an agent owe each other: identity, keypair and      *)
(* commands; and the alert history the server keeps of its agents.         *)
(*                                                                         *)
(* Server: two hosts, two connections that may belong to either, and two   *)
(* rotations that may concern the same agent or two; sessions are          *)
(* interchangeable.  Agent: the keypair files that the operator replaces   *)
(* one after the other, and the loader that every handshake calls.         *)
(* Commands: the queue of one host, with timeouts and crashes.             *)
(*                                                                         *)
(* The server sees of the loader only which certificate a handshake        *)
(* presents, and a command is handed out after the identity was checked,   *)
(* so each is explored on its own, and so is the history: part says which. *)
(***************************************************************************)
EXTENDS FleetIdentity, TLC

CONSTANTS Partial, None, MaxPairs, MaxTime

VARIABLES part, now, file, mtime, latest, cached, modTime, loader, result

loaderVars == <<now, file, mtime, latest, cached, modTime, loader, result>>

Loader == INSTANCE KeypairLoader

CONSTANTS MaxCommands, MaxHandlers, MaxCrashes

VARIABLES durable, known, queue, target, lastId, agent, rpc, applied, lost, crashes

commandVars == <<durable, known, queue, target, lastId, agent, rpc, applied, lost, crashes>>

Commanding == INSTANCE FleetCommands

VARIABLES recorded, memory, rows, failed

historyVars == <<recorded, memory, rows, failed>>

(* Two alerts are retained of up to four, so that dropping, pruning and    *)
(* late alerts mix.                                                        *)
Alerts == INSTANCE AlertStore WITH Hosts <- Hosts, Times <- 1..2,
              maxRetainedAlerts <- 2, MaxAlerts <- 4, lost <- failed

(* A part at rest has one initial state.                                   *)
MCInit ==
    /\ part \in {"server", "agent", "commands", "history"}
    /\ Init
    /\ Loader!Init
    /\ Commanding!Init
    /\ Alerts!Init
    /\ part # "commands" => durable

MCNext ==
    /\ UNCHANGED part
    /\ \/ part = "server" /\ Next /\ UNCHANGED <<loaderVars, commandVars, historyVars>>
       \/ part = "agent" /\ Loader!Next /\ UNCHANGED <<vars, commandVars, historyVars>>
       \/ part = "commands" /\ Commanding!Next /\ UNCHANGED <<vars, loaderVars, historyVars>>
       \/ part = "history" /\ Alerts!Next /\ UNCHANGED <<vars, loaderVars, commandVars>>

MCSpec == MCInit /\ [][MCNext]_<<part, vars, loaderVars, commandVars, historyVars>>

SessionSymmetry == Permutations(Sessions)

-----------------------------------------------------------------------------
(* tls.go: "a swapped certificate is adopted on the next connection".  A   *)
(* load during which both files hold the delivered keypair returns that    *)
(* keypair, however earlier loads interleaved with the writes.             *)
AdoptsDelivered == Loader!AdoptsDelivered

(* A command is applied at most once, in the order operators queued it and *)
(* by the agent it was queued for, whatever times out or crashes           *)
(* (service.go Heartbeat, fleet.go applyCommand); and every command queued *)
(* is still queued, in a reply, with the agent, applied, or lost with a    *)
(* reply or a process that died (sqlite.go and memory.go DrainCommands).   *)
AtMostOnceInOrder == Commanding!AtMostOnceInOrder /\ Commanding!NothingVanishes

(* The memory and the SQLite backend of the fleet store keep the same      *)
(* alert history, up to retention and failed inserts (server/store).       *)
HistoriesAgree == part = "history" => Alerts!HistoriesAgree
=============================================================================
