--------------------------- MODULE ServerLifecycle ---------------------------
(***************************************************************************)
(* How argus-server ends (cmd/argus-server/serve.go serveUntilSignal).     *)
(* It serves agents over gRPC and operators over HTTP until a signal or a  *)
(* listener that fails.  Agents make calls that return and hold alert      *)
(* streams open (server/api/service.go ReportAlerts ends when its agent    *)
(* ends the stream).  Operators make requests that return and follow the   *)
(* live feed (stream.go handleStream), which ends when the client leaves.  *)
(***************************************************************************)
EXTENDS FiniteSets

CONSTANTS
    Agents,
    Api,        \* operators that use the admin API
    Console     \* operators that use the web console, on a port of its own

Operators == Api \cup Console

VARIABLES
    main,       \* where serveUntilSignal and the deferred closes are
    signalled,  \* the context of NotifyContext is done
    failed,     \* a listener failed and sent to errc
    expired,    \* shutdownCtx is done
    rpc,        \* each agent's open call: "none", "call" or "stream"
    request,    \* each operator's open request: "none", "request" or "feed"
    cut         \* history: what was still open when it was abandoned

vars == <<main, signalled, failed, expired, rpc, request, cut>>

InitAt(pc) ==
    /\ main = pc
    /\ signalled = FALSE /\ failed = FALSE /\ expired = FALSE
    /\ rpc = [a \in Agents |-> "none"]
    /\ request = [o \in Operators |-> "none"]
    /\ cut = {}

Init == InitAt("serve")

Alive == main # "exited"
Draining == main \in {"grpc", "http", "ui"}

-----------------------------------------------------------------------------
(* Clients.  A server that stops refuses new calls and connections.        *)
Call(a, kind) ==
    /\ main = "serve" /\ rpc[a] = "none"
    /\ rpc' = [rpc EXCEPT ![a] = kind]
    /\ UNCHANGED <<main, signalled, failed, expired, request, cut>>

CallEnds(a, kind) ==
    /\ Alive /\ rpc[a] = kind
    /\ rpc' = [rpc EXCEPT ![a] = "none"]
    /\ UNCHANGED <<main, signalled, failed, expired, request, cut>>

Ask(o, kind) ==
    /\ main \in {"serve", "grpc"} \/ (main = "http" /\ o \in Console)
    /\ request[o] = "none"
    /\ request' = [request EXCEPT ![o] = kind]
    /\ UNCHANGED <<main, signalled, failed, expired, rpc, cut>>

AskEnds(o, kind) ==
    /\ Alive /\ request[o] = kind
    /\ request' = [request EXCEPT ![o] = "none"]
    /\ UNCHANGED <<main, signalled, failed, expired, rpc, cut>>

(* A signal ends the wait; one that comes later is swallowed.              *)
Signal ==
    /\ Alive /\ ~signalled
    /\ signalled' = TRUE
    /\ UNCHANGED <<main, failed, expired, rpc, request, cut>>

ListenFails ==
    /\ main = "serve" /\ ~failed
    /\ failed' = TRUE
    /\ UNCHANGED <<main, signalled, expired, rpc, request, cut>>

-----------------------------------------------------------------------------
Abandon ==
    cut' = {a \in Agents : rpc[a] # "none"} \cup {o \in Operators : request[o] # "none"}

(* The select: a failed listener stops everything at once.                 *)
Failed ==
    /\ main = "serve" /\ failed
    /\ main' = "exited"
    /\ Abandon
    /\ UNCHANGED <<signalled, failed, expired, rpc, request>>

(* The grace period starts with the shutdown.                              *)
ShutDown ==
    /\ main = "serve" /\ signalled
    /\ main' = "grpc"
    /\ UNCHANGED <<signalled, failed, expired, rpc, request, cut>>

Expire ==
    /\ Draining /\ ~expired
    /\ expired' = TRUE
    /\ UNCHANGED <<main, signalled, failed, rpc, request, cut>>

(* GracefulStop waits for every call, however long.                        *)
GracefulStop ==
    /\ main = "grpc"
    /\ \A a \in Agents : rpc[a] = "none"
    /\ main' = "http"
    /\ UNCHANGED <<signalled, failed, expired, rpc, request, cut>>

(* A faulty Shutdown without a deadline.                                   *)
ShutdownForever(from, clients, to) ==
    /\ main = from
    /\ \A o \in clients : request[o] = "none"
    /\ main' = to
    /\ IF to = "exited" THEN Abandon ELSE UNCHANGED cut
    /\ UNCHANGED <<signalled, failed, expired, rpc, request>>

(* Shutdown of an HTTP server waits for its requests, until the deadline   *)
(* the two share.  After the second one the process ends.                  *)
Shutdown(from, clients, to) ==
    /\ main = from
    /\ expired \/ \A o \in clients : request[o] = "none"
    /\ main' = to
    /\ IF to = "exited" THEN Abandon ELSE UNCHANGED cut
    /\ UNCHANGED <<signalled, failed, expired, rpc, request>>

Main ==
    \/ Failed \/ ShutDown \/ GracefulStop
    \/ Shutdown("http", Api, "ui") \/ Shutdown("ui", Console, "exited")

Next ==
    \/ Main \/ Expire \/ Signal \/ ListenFails
    \/ \E a \in Agents, kind \in {"call", "stream"} : Call(a, kind) \/ CallEnds(a, kind)
    \/ \E o \in Operators, kind \in {"request", "feed"} : Ask(o, kind) \/ AskEnds(o, kind)

(* The main goroutine and the timer run, and handlers return; nobody       *)
(* promises that a stream or a feed ends.                                  *)
Fairness ==
    /\ WF_vars(Main) /\ WF_vars(Expire)
    /\ \A a \in Agents : WF_vars(CallEnds(a, "call"))
    /\ \A o \in Operators : WF_vars(AskEnds(o, "request"))

Spec == Init /\ [][Next]_vars /\ Fairness

-----------------------------------------------------------------------------
(* No call of an agent is cut off by a signal, nor a request within the    *)
(* grace period.                                                           *)
Drained ==
    main = "exited" /\ ~failed =>
        /\ cut \cap Agents = {}
        /\ cut # {} => expired

(* "Blocks until a termination signal or a fatal listen error, draining    *)
(* both gracefully": after a signal the server drains and ends, unless an  *)
(* agent holds its alert stream open; operators that follow the live feed  *)
(* do not keep it.                                                         *)
ServerStops ==
    /\ []Drained
    /\ (<>[](\A a \in Agents : rpc[a] # "stream")) => (signalled ~> ~Alive)
=============================================================================
