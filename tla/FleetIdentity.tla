--------------------------- MODULE FleetIdentity ---------------------------
(***************************************************************************)
(* Which certificate may speak for which agent: enrollment pins an agent   *)
(* id to the certificate that enrolled, rotation stages a second one, and  *)
(* the first request that presents it promotes it (server/api/service.go,  *)
(* server/store, handleRotateCert in cmd/argus-server/admin.go).           *)
(*                                                                         *)
(* A session is one mutual-TLS connection; it keeps the certificate it was *)
(* opened with.  gRPC runs every handler in its own goroutine, so the read *)
(* of the agent and the promotion are separate steps, and so are the       *)
(* minting and the staging of a rotation.                                  *)
(***************************************************************************)
EXTENDS Naturals, Sequences, FiniteSets

CONSTANTS
    Hosts,          \* hosts with an agent
    Sessions,       \* connection slots
    MaxEnrolled,    \* bound: enrollments
    MaxRotations    \* bound: certificates minted by rotations

ASSUME IdentityAssumption ==
    /\ IsFiniteSet(Hosts) /\ "none" \notin Hosts
    /\ MaxEnrolled \in Nat
    /\ MaxRotations \in Nat

VARIABLES
    agents,     \* the store: sequence, by id, of [host, cert, pending]
    minted,     \* number of certificates minted by rotations
    rotating,   \* handleRotateCert between Issue and SetPendingCert
    handed,     \* keypairs returned to an operator
    disk,       \* [Hosts -> the certificate in the host's files]
    agentOf,    \* [Hosts -> id of the running agent, 0 before Enroll]
    session,    \* [Sessions -> connection]
    retired,    \* history: <<id, certificate>> replaced by a promotion
    accepted    \* history: the last request accepted by authorizeIdentity

hostVars == <<handed, disk>>
vars == <<agents, minted, rotating, handed, disk, agentOf, session, retired, accepted>>

(* A certificate: the host whose private key it belongs to, and the number *)
(* of the rotation that minted it (0: the one the host was set up with).   *)
Minted(host, serial) == [host |-> host, serial |-> serial]
NoCert == Minted("none", 0)
Ids == 1..MaxEnrolled

Closed == [pc |-> "closed"]
Open(cert, stream) == [pc |-> "open", cert |-> cert, stream |-> stream]
Nobody == [cert |-> NoCert, id |-> 0, late |-> FALSE, stream |-> FALSE]

Init ==
    /\ agents = << >>
    /\ minted = 0
    /\ rotating = {}
    /\ handed = {}
    /\ disk = [h \in Hosts |-> Minted(h, 0)]
    /\ agentOf = [h \in Hosts |-> 0]
    /\ session = [s \in Sessions |-> Closed]
    /\ retired = {}
    /\ accepted = Nobody

-----------------------------------------------------------------------------
(* Connections.  The client loads its keypair from disk per handshake; the *)
(* server may notice the end of a connection long after the client, and a  *)
(* handler that has started runs on.                                       *)
Connect(s, h) ==
    /\ session[s] = Closed
    /\ agentOf[h] # 0
    /\ session' = [session EXCEPT ![s] = Open(disk[h], 0)]
    /\ UNCHANGED <<agents, minted, rotating, hostVars, agentOf, retired, accepted>>

Disconnect(s) ==
    /\ session[s].pc = "open"
    /\ session' = [session EXCEPT ![s] = Closed]
    /\ UNCHANGED <<agents, minted, rotating, hostVars, agentOf, retired, accepted>>

(* An agent process dials and enrolls once, when it starts; the first call *)
(* drives the handshake.  Store.Enroll always creates a new agent.         *)
Enroll(s, h) ==
    /\ session[s] = Closed
    /\ agentOf[h] = 0
    /\ Len(agents) < MaxEnrolled
    /\ session' = [session EXCEPT ![s] = Open(disk[h], 0)]
    /\ agents' = Append(agents, [host |-> h, cert |-> disk[h], pending |-> NoCert])
    /\ agentOf' = [agentOf EXCEPT ![h] = Len(agents')]
    /\ UNCHANGED <<minted, rotating, hostVars, retired, accepted>>

RestartAgent(h) ==
    /\ agentOf[h] # 0
    /\ Len(agents) < MaxEnrolled
    /\ agentOf' = [agentOf EXCEPT ![h] = 0]
    /\ UNCHANGED <<agents, minted, rotating, hostVars, session, retired, accepted>>

-----------------------------------------------------------------------------
(* Requests.  Any open session may name any agent id.                      *)
Enrolled(id) == id \in 1..Len(agents)

(* late: the certificate was retired when it was checked; stream: it was   *)
(* the id of an authorized stream that was checked instead.                *)
Accept(cert, id, late, stream) ==
    accepted' = [cert |-> cert, id |-> id, late |-> late, stream |-> stream]

(* A heartbeat leaves the session as it was; the first report of a stream  *)
(* fixes authorizedAgent.                                                  *)
Stream(kind, id, old) == IF kind = "report" THEN id ELSE old

(* A faulty authorizeIdentity that accepts any certificate of the fleet    *)
(* while a rotation is pending.                                            *)
authorizeIdentityDuringRotation(s, id, kind) ==
    /\ session[s].pc = "open"
    /\ session[s].stream = 0
    /\ Enrolled(id)
    /\ agents[id].cert = session[s].cert \/ agents[id].pending # NoCert
    /\ session' = [session EXCEPT ![s].stream = Stream(kind, id, @)]
    /\ Accept(session[s].cert, id, FALSE, FALSE)
    /\ UNCHANGED <<agents, minted, rotating, hostVars, agentOf, retired>>

(* authorizeIdentity up to Store.Get and the decision taken on its result: *)
(* accept the current certificate, go on to promote the pending one, or    *)
(* refuse (which ends a stream, and changes nothing for a heartbeat).      *)
authorizeIdentity(s, id, kind) ==
    LET cert == session[s].cert
        current == Enrolled(id) /\ agents[id].cert = cert
        pending == Enrolled(id) /\ ~current /\ agents[id].pending = cert
    IN
    /\ session[s].pc = "open"
    /\ session[s].stream = 0
    /\ \/ /\ current
          /\ session' = [session EXCEPT ![s].stream = Stream(kind, id, @)]
          /\ Accept(cert, id, <<id, cert>> \in retired, FALSE)
       \/ /\ pending
          /\ session' = [session EXCEPT ![s] =
                            [pc |-> "promote", cert |-> cert, id |-> id, kind |-> kind,
                             late |-> <<id, cert>> \in retired]]
          /\ UNCHANGED accepted
       \/ /\ ~current /\ ~pending /\ kind = "report"
          /\ session' = [session EXCEPT ![s] = Closed]
          /\ UNCHANGED accepted
    /\ UNCHANGED <<agents, minted, rotating, hostVars, agentOf, retired>>

(* A faulty PromoteCert that trusts the caller's earlier read.             *)
PromoteCertUnguarded(id, cert) ==
    /\ agents' = [agents EXCEPT ![id].cert = cert, ![id].pending = NoCert]
    /\ retired' = retired \cup {<<id, agents[id].cert>>}

(* Store.PromoteCert: a no-op unless the certificate is still pending.     *)
PromoteCert(id, cert) ==
    IF agents[id].pending = cert
    THEN /\ agents' = [agents EXCEPT ![id].cert = cert, ![id].pending = NoCert]
         /\ retired' = retired \cup {<<id, agents[id].cert>>}
    ELSE UNCHANGED <<agents, retired>>

(* The rest of authorizeIdentity: the request is accepted whether or not   *)
(* the promotion still applied.                                            *)
Promote(s) ==
    /\ session[s].pc = "promote"
    /\ PromoteCert(session[s].id, session[s].cert)
    /\ Accept(session[s].cert, session[s].id, session[s].late, FALSE)
    /\ session' = [session EXCEPT ![s] =
                      Open(session[s].cert, Stream(session[s].kind, session[s].id, 0))]
    /\ UNCHANGED <<minted, rotating, hostVars, agentOf>>

(* A later report of an authorized stream: only its id is compared.        *)
Report(s, id) ==
    /\ session[s].pc = "open"
    /\ session[s].stream # 0
    /\ IF id = session[s].stream
       THEN /\ Accept(session[s].cert, id, <<id, session[s].cert>> \in retired, TRUE)
            /\ UNCHANGED session
       ELSE /\ session' = [session EXCEPT ![s] = Closed]
            /\ UNCHANGED accepted
    /\ UNCHANGED <<agents, minted, rotating, hostVars, agentOf, retired>>

-----------------------------------------------------------------------------
(* handleRotateCert: mint for the agent's host, stage, then hand over.     *)
IssueCert(id) ==
    /\ Enrolled(id)
    /\ minted < MaxRotations
    /\ minted' = minted + 1
    /\ rotating' = rotating \cup {[id |-> id, cert |-> Minted(agents[id].host, minted')]}
    /\ UNCHANGED <<agents, hostVars, agentOf, session, retired, accepted>>

SetPendingCert(r) ==
    /\ r \in rotating
    /\ rotating' = rotating \ {r}
    /\ agents' = [agents EXCEPT ![r.id].pending = r.cert]
    /\ handed' = handed \cup {r.cert}
    /\ UNCHANGED <<minted, disk, agentOf, session, retired, accepted>>

(* The operator replaces the host's files with a keypair they were given.  *)
Deliver(cert) ==
    /\ cert \in handed
    /\ handed' = handed \ {cert}
    /\ disk' = [disk EXCEPT ![cert.host] = cert]
    /\ UNCHANGED <<agents, minted, rotating, agentOf, session, retired, accepted>>

-----------------------------------------------------------------------------
SessionStep(s) ==
    \/ \E h \in Hosts : Connect(s, h) \/ Enroll(s, h)
    \/ Disconnect(s)
    \/ \E id \in Ids, kind \in {"heartbeat", "report"} : authorizeIdentity(s, id, kind)
    \/ Promote(s)
    \/ \E id \in Ids : Report(s, id)

Next ==
    \/ \E s \in Sessions : SessionStep(s)
    \/ \E h \in Hosts : RestartAgent(h)
    \/ \E id \in Ids : IssueCert(id)
    \/ \E r \in rotating : SetPendingCert(r)
    \/ \E cert \in handed : Deliver(cert)

Spec == Init /\ [][Next]_vars

-----------------------------------------------------------------------------
(* "This is what stops any holder of a valid fleet certificate from acting *)
(* as another agent": whatever ids the sessions name and however rotations *)
(* interleave, a request accepted for an agent came from that agent's own  *)
(* host.                                                                   *)
NoImpersonation ==
    accepted.id # 0 => accepted.cert.host = agents[accepted.id].host

(* "A stale or wrong promotion is a no-op rather than an identity change": *)
(* once a rotation has replaced a certificate, no interleaving of slower   *)
(* requests and further rotations makes it the agent's identity again.     *)
(* "From then on the previous certificate is rejected" (docs/FLEET.md): no *)
(* request gets through with it either, whatever else is pending; only a   *)
(* report stream that was authorized earlier lives on, because             *)
(* ReportAlerts checks its first report alone.                             *)
RetiredStaysRetired ==
    /\ \A id \in 1..Len(agents) : <<id, agents[id].cert>> \notin retired
    /\ accepted.late => accepted.stream
=============================================================================
