----------------------------- MODULE FleetProofs ----------------------------
(***************************************************************************)
(* Proofs about who is connected, for any hosts, connections, rotations,   *)
(* publishers and subscribers: the server's books of certificates          *)
(* (FleetIdentity), the agent's loader that picks up a rotated keypair     *)
(* (KeypairLoader), and the fan-out of events to the subscribers of the    *)
(* event bus and of the console's broadcaster (EventBus).                  *)
(***************************************************************************)
EXTENDS FleetIdentity, Functions, TLAPS

(* Certificates, the server's records of agents, and connections.          *)
Certs == [host : Hosts, serial : Nat]

Records == [host : Hosts, cert : Certs, pending : Certs \cup {NoCert}]

Connections ==
    {Closed} \cup [pc : {"open"}, cert : Certs, stream : Nat]
    \cup [pc : {"promote"}, cert : Certs, id : Nat, kind : {"heartbeat", "report"}, late : BOOLEAN]

(* Types of the server's books.                                            *)
IdentityTypeOK ==
    /\ agents \in Seq(Records)
    /\ minted \in Nat
    /\ rotating \subseteq [id : Nat, cert : Certs]
    /\ handed \subseteq Certs
    /\ disk \in [Hosts -> Certs]
    /\ agentOf \in [Hosts -> Nat]
    /\ session \in [Sessions -> Connections]
    /\ retired \subseteq Nat \X Certs
    /\ accepted \in [cert : Certs \cup {NoCert}, id : Nat, late : BOOLEAN, stream : BOOLEAN]

(* A certificate of the host that enrolled as id.                          *)
Belongs(cert, id) == Enrolled(id) /\ cert.host = agents[id].host

(* Wherever the server or a handler keeps a certificate for an agent, it   *)
(* is one of that agent's host.                                            *)
OwnInv ==
    /\ \A h \in Hosts : disk[h].host = h
    /\ \A id \in 1..Len(agents) :
          /\ agents[id].cert.host = agents[id].host
          /\ agents[id].pending # NoCert => agents[id].pending.host = agents[id].host
    /\ \A r \in rotating : Belongs(r.cert, r.id)
    /\ \A s \in Sessions :
          /\ session[s].pc = "promote" =>
                Belongs(session[s].cert, session[s].id) /\ ~session[s].late
          /\ session[s].pc = "open" /\ session[s].stream # 0 =>
                Belongs(session[s].cert, session[s].stream)
    /\ accepted.id # 0 => Belongs(accepted.cert, accepted.id)

(* A certificate that waits to replace another is neither in use nor was   *)
(* it ever: serial numbers only grow.                                      *)
FreshInv ==
    /\ \A h \in Hosts : disk[h].serial <= minted
    /\ \A c \in handed : c.serial <= minted
    /\ \A p \in retired : Enrolled(p[1]) /\ p[2].serial <= minted
    /\ \A id \in 1..Len(agents) :
          /\ agents[id].cert.serial <= minted
          /\ agents[id].pending.serial <= minted
          /\ <<id, agents[id].cert>> \notin retired
          /\ <<id, agents[id].pending>> \notin retired
          /\ agents[id].pending # agents[id].cert
    /\ \A r \in rotating :
          /\ r.cert.serial <= minted
          /\ <<r.id, r.cert>> \notin retired
          /\ r.cert \notin {agents[r.id].cert, agents[r.id].pending}
          /\ \A q \in rotating : q.cert = r.cert => q = r

(* The inductive invariant: a late request can only come over a stream     *)
(* that was open.                                                          *)
IdentityInv ==
    /\ IdentityTypeOK
    /\ OwnInv
    /\ FreshInv
    /\ accepted.late => accepted.stream

-----------------------------------------------------------------------------
(* What Store.Enroll and an update of one record do to the store.          *)
LEMMA EnrollEffect ==
    ASSUME NEW S, NEW q \in Seq(S), NEW r \in S, NEW p, p = Append(q, r)
    PROVE  /\ p \in Seq(S)
           /\ Len(p) = Len(q) + 1 /\ Len(q) \in Nat
           /\ \A i \in 1..Len(q) : p[i] = q[i]
           /\ p[Len(q) + 1] = r
OBVIOUS

(* A record is replaced in its place.                                      *)
LEMMA UpdateEffect ==
    ASSUME NEW S, NEW q \in Seq(S), NEW id \in 1..Len(q), NEW r \in S,
           NEW p, p = [q EXCEPT ![id] = r]
    PROVE  /\ p \in Seq(S)
           /\ Len(p) = Len(q) /\ Len(q) \in Nat
           /\ \A i \in 1..Len(q) : p[i] = IF i = id THEN r ELSE q[i]
OBVIOUS

(* What a connection in some state consists of.                            *)
LEMMA ConnectionKinds ==
    ASSUME NEW c \in Connections
    PROVE  /\ c.pc = "open" => c \in [pc : {"open"}, cert : Certs, stream : Nat]
           /\ c.pc = "promote" =>
                 c \in [pc : {"promote"}, cert : Certs, id : Nat, kind : {"heartbeat", "report"},
                       late : BOOLEAN]
BY DEF Connections, Closed

(* The missing certificate is not a certificate.                           *)
LEMMA NoCertIsNone == NoCert \notin Certs
BY IdentityAssumption DEF NoCert, Certs, Minted

(* Nobody is enrolled at the start.                                        *)
LEMMA IdentityInit == Init => IdentityInv
<1> SUFFICES ASSUME Init PROVE IdentityInv
  OBVIOUS
<1> USE DEF Init
<1>1. IdentityTypeOK
  BY DEF IdentityTypeOK, Certs, Minted, Connections, Nobody, Records
<1>2. OwnInv
  BY DEF OwnInv, Minted, Closed, Nobody
<1>3. FreshInv
  BY DEF FreshInv, Minted
<1> QED BY <1>1, <1>2, <1>3 DEF IdentityInv, Nobody

(* Steps that leave the store's books alone: a connection opens or closes, *)
(* an agent restarts, a file is replaced.                                  *)
LEMMA ConnectionSteps ==
    ASSUME IdentityInv,
           \/ \E s \in Sessions, h \in Hosts : Connect(s, h)
           \/ \E s \in Sessions : Disconnect(s)
           \/ \E h \in Hosts : RestartAgent(h)
           \/ \E cert \in handed : Deliver(cert)
    PROVE  IdentityInv'
<1> USE DEF IdentityInv
<1>1. ASSUME NEW s \in Sessions, NEW h \in Hosts, Connect(s, h)
      PROVE  IdentityInv'
  <2> USE <1>1 DEF Connect, hostVars
  <2>1. IdentityTypeOK'
    BY Zenon DEF IdentityTypeOK, Connections, Open
  <2>2. OwnInv'
    BY ZenonT(60) DEF OwnInv, Belongs, Enrolled, IdentityTypeOK, Open
  <2>3. FreshInv'
    BY DEF FreshInv, Enrolled
  <2> QED BY <2>1, <2>2, <2>3
<1>2. ASSUME NEW s \in Sessions, Disconnect(s)
      PROVE  IdentityInv'
  <2> USE <1>2 DEF Disconnect, hostVars
  <2>1. IdentityTypeOK'
    BY ZenonT(60) DEF IdentityTypeOK, Connections
  <2>2. OwnInv'
    BY DEF OwnInv, Belongs, Enrolled, IdentityTypeOK, Closed
  <2>3. FreshInv'
    BY Zenon DEF FreshInv, Enrolled
  <2> QED BY <2>1, <2>2, <2>3
<1>3. ASSUME NEW h \in Hosts, RestartAgent(h)
      PROVE  IdentityInv'
  BY <1>3, ZenonT(60) DEF RestartAgent, hostVars, IdentityTypeOK, OwnInv, FreshInv, Belongs, Enrolled
<1>4. ASSUME NEW cert \in handed, Deliver(cert)
      PROVE  IdentityInv'
  <2> USE <1>4 DEF Deliver
  <2>1. cert \in Certs /\ cert.host \in Hosts
    BY DEF IdentityTypeOK, Certs
  <2>2. IdentityTypeOK'
    BY <2>1 DEF IdentityTypeOK
  <2>3. OwnInv'
    BY <2>1, ZenonT(60) DEF OwnInv, Belongs, Enrolled, IdentityTypeOK
  <2>4. FreshInv'
    BY <2>1 DEF FreshInv, Enrolled, IdentityTypeOK
  <2> QED BY <2>2, <2>3, <2>4
<1> QED BY <1>1, <1>2, <1>3, <1>4

(* Enrollment: the new id is in no book yet.                               *)
LEMMA EnrollStep ==
    ASSUME IdentityInv, NEW s \in Sessions, NEW h \in Hosts, Enroll(s, h)
    PROVE  IdentityInv'
<1> USE DEF IdentityInv, hostVars
<1> DEFINE rec == [host |-> h, cert |-> disk[h], pending |-> NoCert]
<1>1. rec \in Records
  BY DEF IdentityTypeOK, Records
<1>2. agents' = Append(agents, rec)
  BY DEF Enroll
<1> HIDE DEF rec
<1>3. /\ agents' \in Seq(Records)
      /\ Len(agents') = Len(agents) + 1 /\ Len(agents) \in Nat
      /\ \A i \in 1..Len(agents) : agents'[i] = agents[i]
      /\ agents'[Len(agents) + 1] = rec
  BY <1>1, <1>2, EnrollEffect DEF IdentityTypeOK
<1>4. /\ session' = [session EXCEPT ![s] = Open(disk[h], 0)]
      /\ agentOf' = [agentOf EXCEPT ![h] = Len(agents')]
      /\ UNCHANGED <<minted, rotating, handed, disk, retired, accepted>>
  BY DEF Enroll
<1>5. IdentityTypeOK'
  <2>1. Open(disk[h], 0) \in Connections
    BY DEF IdentityTypeOK, Connections, Open
  <2>2. session' \in [Sessions -> Connections]
    BY <1>4, <2>1 DEF IdentityTypeOK
  <2>3. agentOf' \in [Hosts -> Nat]
    BY <1>3, <1>4 DEF IdentityTypeOK
  <2> QED BY <1>3, <1>4, <2>2, <2>3 DEF IdentityTypeOK
<1>6. OwnInv'
  <2>1. \A id \in 1..Len(agents) : agents'[id].host = agents[id].host
    BY <1>3
  <2>2. \A c, id : Belongs(c, id) => Belongs(c, id)'
    BY <1>3, <2>1 DEF Belongs, Enrolled
  <2>3. rec.cert.host = rec.host /\ rec.pending = NoCert
    BY DEF rec, OwnInv
  <2>4. \A id \in 1..Len(agents') :
          /\ agents'[id].cert.host = agents'[id].host
          /\ agents'[id].pending # NoCert => agents'[id].pending.host = agents'[id].host
    BY <1>3, <2>3 DEF OwnInv
  <2>5. \A t \in Sessions : t # s => session'[t] = session[t]
    BY <1>4 DEF IdentityTypeOK
  <2>6. session'[s] = Open(disk[h], 0)
    BY <1>4 DEF IdentityTypeOK
  <2> QED BY <1>4, <2>2, <2>4, <2>5, <2>6 DEF OwnInv, Open
<1>7. FreshInv'
  <2>1. /\ rec.cert.serial <= minted /\ rec.pending.serial <= minted
        /\ rec.cert # rec.pending
    BY NoCertIsNone DEF rec, FreshInv, IdentityTypeOK, NoCert, Minted
  <2>2. \A p \in retired : p[1] # Len(agents) + 1
    BY <1>3 DEF FreshInv, Enrolled
  <2>3. \A r \in rotating : r.id \in 1..Len(agents)
    BY DEF OwnInv, Belongs, Enrolled
  <2>4. \A id \in 1..Len(agents') :
          /\ agents'[id].cert.serial <= minted
          /\ agents'[id].pending.serial <= minted
          /\ <<id, agents'[id].cert>> \notin retired
          /\ <<id, agents'[id].pending>> \notin retired
          /\ agents'[id].pending # agents'[id].cert
    <3>1. TAKE id \in 1..Len(agents')
    <3>2. CASE id \in 1..Len(agents)
      BY <1>3, <3>2 DEF FreshInv
    <3>3. CASE id = Len(agents) + 1
      BY <1>3, <2>1, <2>2, <3>3
    <3> QED BY <1>3, <3>2, <3>3
  <2> QED BY <1>3, <1>4, <2>3, <2>4 DEF FreshInv, Enrolled
<1> QED BY <1>4, <1>5, <1>6, <1>7

(* Requests.  Only a decision on a certificate in the books is recorded or *)
(* carried over to the promotion.                                          *)
LEMMA RequestSteps ==
    ASSUME IdentityInv, NEW s \in Sessions, NEW id \in Ids,
           \/ \E kind \in {"heartbeat", "report"} : authorizeIdentity(s, id, kind)
           \/ Report(s, id)
    PROVE  IdentityInv'
<1> USE DEF IdentityInv
<1>1. id \in Nat /\ id # 0 /\ \A i \in 1..Len(agents) : i \in Nat /\ i # 0
  BY IdentityAssumption DEF Ids, IdentityTypeOK
<1>2. UNCHANGED <<agents, minted, rotating, handed, disk, agentOf, retired>>
  BY Zenon DEF authorizeIdentity, Report, hostVars
<1>3. FreshInv'
  BY <1>2 DEF FreshInv, Enrolled
<1>4. \A c, i : Belongs(c, i)' <=> Belongs(c, i)
  BY <1>2 DEF Belongs, Enrolled
<1>5. session[s].pc = "open" => session[s] \in [pc : {"open"}, cert : Certs, stream : Nat]
  BY ConnectionKinds DEF IdentityTypeOK
<1>6. SUFFICES
        /\ session' \in [Sessions -> Connections]
        /\ accepted' \in [cert : Certs \cup {NoCert}, id : Nat, late : BOOLEAN, stream : BOOLEAN]
        /\ \A t \in Sessions : t # s => session'[t] = session[t]
        /\ session'[s].pc = "promote" =>
              Belongs(session'[s].cert, session'[s].id) /\ ~session'[s].late
        /\ session'[s].pc = "open" /\ session'[s].stream # 0 =>
              Belongs(session'[s].cert, session'[s].stream)
        /\ accepted'.id # 0 => Belongs(accepted'.cert, accepted'.id)
        /\ accepted'.late => accepted'.stream
  <2>1. IdentityTypeOK'
    BY <1>2, <1>6 DEF IdentityTypeOK
  <2>2. OwnInv'
    BY <1>2, <1>4, <1>6 DEF OwnInv
  <2> QED BY <1>3, <1>6, <2>1, <2>2
<1>7. ASSUME NEW kind \in {"heartbeat", "report"}, authorizeIdentity(s, id, kind)
      PROVE  <1>6!1
  <2> DEFINE cert == session[s].cert
             current == Enrolled(id) /\ agents[id].cert = cert
             pending == Enrolled(id) /\ ~current /\ agents[id].pending = cert
  <2>1. session[s].pc = "open" /\ session[s].stream = 0
    BY <1>7 DEF authorizeIdentity
  <2>2. cert \in Certs
    BY <1>5, <2>1
  <2>3. CASE /\ current
             /\ session' = [session EXCEPT ![s].stream = Stream(kind, id, @)]
             /\ Accept(cert, id, <<id, cert>> \in retired, FALSE)
    <3>1. [session[s] EXCEPT !.stream = Stream(kind, id, @)] \in Connections
      BY <1>1, <1>5, <2>1 DEF Connections, Stream
    <3>2. id \in 1..Len(agents) /\ agents[id].cert = cert
      BY <2>3 DEF Enrolled
    <3>3. Belongs(cert, id)
      BY <3>2 DEF Belongs, OwnInv, Enrolled
    <3>31. <<id, cert>> \notin retired
      BY <3>2, Zenon DEF FreshInv
    <3>4. (<<id, cert>> \in retired) = FALSE
      BY <3>31
    <3>5. accepted' = [cert |-> cert, id |-> id, late |-> FALSE, stream |-> FALSE]
      BY <2>3, <3>4, Zenon DEF Accept
    <3> QED BY <1>1, <1>5, <2>1, <2>2, <2>3, <3>1, <3>3, <3>5 DEF IdentityTypeOK, Stream
  <2>4. CASE /\ pending
             /\ session' = [session EXCEPT ![s] =
                               [pc |-> "promote", cert |-> cert, id |-> id, kind |-> kind,
                                late |-> <<id, cert>> \in retired]]
             /\ UNCHANGED accepted
    <3>1. id \in 1..Len(agents) /\ agents[id].pending = cert
      BY <2>4 DEF Enrolled
    <3>2. Belongs(cert, id)
      BY <2>2, <3>1, NoCertIsNone DEF Belongs, OwnInv, Enrolled
    <3>31. <<id, cert>> \notin retired
      BY <3>1, Zenon DEF FreshInv
    <3>3. (<<id, cert>> \in retired) = FALSE
      BY <3>31
    <3> DEFINE promoting == [pc |-> "promote", cert |-> cert, id |-> id, kind |-> kind, late |-> FALSE]
    <3>4. session' = [session EXCEPT ![s] = promoting]
      BY <2>4, <3>3, Zenon
    <3>5. promoting \in Connections
      BY <1>1, <2>2 DEF Connections
    <3>6. promoting.pc = "promote" /\ promoting.cert = cert /\ promoting.id = id
          /\ ~promoting.late
      OBVIOUS
    <3> HIDE DEF promoting
    <3> QED BY <2>4, <3>2, <3>4, <3>5, <3>6 DEF IdentityTypeOK, OwnInv
  <2>5. CASE session' = [session EXCEPT ![s] = Closed] /\ UNCHANGED accepted
    BY <2>5 DEF IdentityTypeOK, Connections, OwnInv, Closed
  <2> QED BY <1>7, <2>3, <2>4, <2>5, Zenon DEF authorizeIdentity
<1>8. ASSUME Report(s, id)
      PROVE  <1>6!1
  <2>1. session[s].pc = "open" /\ session[s].stream # 0
    BY <1>8 DEF Report
  <2>2. CASE id = session[s].stream
    <3>1. accepted' = [cert |-> session[s].cert, id |-> id,
                       late |-> <<id, session[s].cert>> \in retired, stream |-> TRUE]
      BY <1>8, <2>2 DEF Report, Accept
    <3>2. UNCHANGED session
      BY <1>8, <2>2 DEF Report
    <3>3. (<<id, session[s].cert>> \in retired) \in BOOLEAN
      OBVIOUS
    <3>4. accepted' \in [cert : Certs \cup {NoCert}, id : Nat, late : BOOLEAN, stream : BOOLEAN]
      BY <1>1, <1>5, <2>1, <3>1, <3>3
    <3>5. accepted'.id = id /\ accepted'.cert = session[s].cert /\ accepted'.stream
      BY <3>1, Zenon
    <3> QED BY <2>1, <2>2, <3>2, <3>4, <3>5 DEF IdentityTypeOK, OwnInv
  <2>3. CASE id # session[s].stream
    <3>1. session' = [session EXCEPT ![s] = Closed] /\ UNCHANGED accepted
      BY <1>8, <2>3 DEF Report
    <3> QED BY <3>1 DEF IdentityTypeOK, Connections, OwnInv, Closed
  <2> QED BY <2>2, <2>3
<1> QED BY <1>7, <1>8

(* The promotion, which may come long after the check: either it applies   *)
(* to the certificate still pending, or it changes nothing.                *)
LEMMA PromoteStep ==
    ASSUME IdentityInv, NEW s \in Sessions, Promote(s)
    PROVE  IdentityInv'
<1> USE DEF IdentityInv
<1>1. PICK id \in 1..Len(agents), cert \in Certs, kind \in {"heartbeat", "report"} :
         /\ id = session[s].id /\ cert = session[s].cert /\ kind = session[s].kind
         /\ session[s].late = FALSE
         /\ cert.host = agents[id].host
  BY ConnectionKinds, SMTT(60) DEF Promote, IdentityTypeOK, OwnInv, Belongs, Enrolled
<1> DEFINE opened == Open(cert, Stream(kind, id, 0))
           rec == [agents[id] EXCEPT !.cert = cert, !.pending = NoCert]
<1>2. /\ session' = [session EXCEPT ![s] = opened]
      /\ accepted' = [cert |-> cert, id |-> id, late |-> FALSE, stream |-> FALSE]
      /\ UNCHANGED <<minted, rotating, handed, disk, agentOf>>
  BY <1>1, Zenon DEF Promote, Accept, hostVars
<1>3. agents \in Seq(Records) /\ Len(agents) \in Nat /\ agents[id] \in Records
  BY <1>1 DEF IdentityTypeOK
<1>4. \/ UNCHANGED <<agents, retired>>
      \/ /\ agents[id].pending = cert
         /\ agents' = [agents EXCEPT ![id] = rec]
         /\ retired' = retired \cup {<<id, agents[id].cert>>}
  BY <1>1, <1>3, Zenon DEF Promote, PromoteCert
<1>5. rec \in Records /\ rec.host = agents[id].host /\ rec.cert = cert /\ rec.pending = NoCert
  BY <1>1, <1>3, Zenon DEF Records
<1>6. /\ opened \in Connections
      /\ opened.pc = "open" /\ opened.cert = cert /\ opened.stream \in {0, id}
  BY <1>1 DEF Connections, Open, Stream
<1> HIDE DEF opened, rec
<1>7. /\ agents' \in Seq(Records) /\ Len(agents') = Len(agents)
      /\ \A i \in 1..Len(agents) : agents'[i].host = agents[i].host
      /\ \A i \in 1..Len(agents) : i # id => agents'[i] = agents[i]
      /\ agents'[id] \in {agents[id], rec}
  <2>1. CASE agents' = agents
    BY <1>3, <2>1, Zenon
  <2>2. CASE agents' = [agents EXCEPT ![id] = rec]
    <3>1. /\ agents' \in Seq(Records) /\ Len(agents') = Len(agents)
          /\ \A i \in 1..Len(agents) : agents'[i] = IF i = id THEN rec ELSE agents[i]
      BY <1>3, <1>5, <2>2, UpdateEffect
    <3>2. \A i \in 1..Len(agents) : agents'[i].host = agents[i].host
      BY <1>5, <3>1, Zenon
    <3> QED BY <3>1, <3>2, Zenon
  <2> QED BY <1>4, <2>1, <2>2, Zenon
<1>8. IdentityTypeOK'
  <2>1. retired' \subseteq Nat \X Certs
    BY <1>3, <1>4 DEF IdentityTypeOK, Records
  <2>2. session' \in [Sessions -> Connections]
    BY <1>2, <1>6 DEF IdentityTypeOK
  <2>3. accepted' \in [cert : Certs \cup {NoCert}, id : Nat, late : BOOLEAN, stream : BOOLEAN]
    BY <1>2, <1>3
  <2> QED BY <1>2, <1>7, <2>1, <2>2, <2>3 DEF IdentityTypeOK
<1>9. OwnInv'
  <2>1. \A c, i : Belongs(c, i) => Belongs(c, i)'
    BY <1>7 DEF Belongs, Enrolled
  <2>2. Belongs(cert, id)'
    BY <1>1, <1>7 DEF Belongs, Enrolled
  <2>3. \A i \in 1..Len(agents') :
          /\ agents'[i].cert.host = agents'[i].host
          /\ agents'[i].pending # NoCert => agents'[i].pending.host = agents'[i].host
    BY <1>1, <1>5, <1>7 DEF OwnInv
  <2>4. \A t \in Sessions : session'[t] = IF t = s THEN opened ELSE session[t]
    BY <1>2 DEF IdentityTypeOK
  <2>5. opened.stream # 0 => Belongs(opened.cert, opened.stream)'
    BY <1>6, <2>2
  <2> QED BY <1>2, <1>6, <2>1, <2>2, <2>3, <2>4, <2>5 DEF OwnInv
<1>10. FreshInv'
  <2>1. CASE UNCHANGED <<agents, retired>>
    BY <1>2, <2>1, ZenonT(60) DEF FreshInv, Enrolled
  <2>2. CASE /\ agents[id].pending = cert
             /\ agents' = [agents EXCEPT ![id] = rec]
             /\ retired' = retired \cup {<<id, agents[id].cert>>}
    <3>1. agents'[id] = rec
      BY <1>1, <1>3, <2>2
    <3>2. \A p \in retired' : Enrolled(p[1])' /\ p[2].serial <= minted
      <4>1. TAKE p \in retired'
      <4>2. CASE p \in retired
        BY <1>7, <4>2 DEF FreshInv, Enrolled
      <4>3. CASE p = <<id, agents[id].cert>>
        BY <1>3, <1>7, <4>3, Zenon DEF FreshInv, Enrolled
      <4> QED BY <2>2, <4>2, <4>3
    <3>3. \A i \in 1..Len(agents') :
            /\ agents'[i].cert.serial <= minted
            /\ agents'[i].pending.serial <= minted
            /\ <<i, agents'[i].cert>> \notin retired'
            /\ <<i, agents'[i].pending>> \notin retired'
            /\ agents'[i].pending # agents'[i].cert
      <4>1. TAKE i \in 1..Len(agents')
      <4>2. CASE i # id
        BY <1>7, <2>2, <4>2 DEF FreshInv
      <4>3. CASE i = id
        <5>1. cert.serial <= minted /\ <<id, cert>> \notin retired'
          BY <2>2, Zenon DEF FreshInv
        <5>2. NoCert.serial <= minted /\ cert # NoCert
          BY NoCertIsNone DEF NoCert, Minted, IdentityTypeOK
        <5>3. <<id, NoCert>> \notin retired'
          BY <1>3, <2>2, NoCertIsNone DEF IdentityTypeOK, Records
        <5> QED BY <1>5, <3>1, <4>3, <5>1, <5>2, <5>3
      <4> QED BY <4>2, <4>3, Zenon
    <3>4. \A r \in rotating :
            /\ <<r.id, r.cert>> \notin retired'
            /\ r.cert \notin {agents'[r.id].cert, agents'[r.id].pending}
      <4>1. TAKE r \in rotating
      <4>2. r.id \in 1..Len(agents) /\ r.cert # NoCert
        BY NoCertIsNone DEF IdentityTypeOK, OwnInv, Belongs, Enrolled
      <4> QED BY <1>5, <1>7, <2>2, <3>1, <4>2 DEF FreshInv
    <3> QED BY <1>2, <3>2, <3>3, <3>4 DEF FreshInv
  <2> QED BY <1>4, <2>1, <2>2, Zenon
<1> QED BY <1>2, <1>8, <1>9, <1>10

(* Minting: the new certificate has a number nothing else has.             *)
LEMMA IssueStep ==
    ASSUME IdentityInv, NEW id \in Ids, IssueCert(id)
    PROVE  IdentityInv'
<1> USE DEF IdentityInv
<1> DEFINE new == [id |-> id, cert |-> Minted(agents[id].host, minted + 1)]
<1>1. /\ minted \in Nat /\ minted' = minted + 1
      /\ rotating' = rotating \cup {new}
      /\ UNCHANGED <<agents, handed, disk, agentOf, session, retired, accepted>>
  BY DEF IssueCert, hostVars, IdentityTypeOK
<1>2. id \in 1..Len(agents) /\ id \in Nat /\ agents[id].host \in Hosts
  <2>1. id \in 1..Len(agents) /\ Len(agents) \in Nat
    BY DEF IssueCert, Enrolled, IdentityTypeOK
  <2>2. agents[id] \in Records
    BY <2>1 DEF IdentityTypeOK
  <2> QED BY <2>1, <2>2 DEF Records
<1>3. /\ new \in [id : Nat, cert : Certs] /\ new.id = id
      /\ new.cert.host = agents[id].host /\ new.cert.serial = minted + 1
  BY <1>1, <1>2 DEF Minted, Certs
<1> HIDE DEF new
<1>4. IdentityTypeOK'
  BY <1>1, <1>3 DEF IdentityTypeOK
<1>5. OwnInv'
  BY <1>1, <1>2, <1>3, ZenonT(60) DEF OwnInv, Belongs, Enrolled
<1>6. FreshInv'
  <2>1. \A c \in Certs \cup {NoCert} : c.serial \in Nat
    BY DEF Certs, NoCert, Minted
  <2>2. \A i \in 1..Len(agents) : agents[i] \in Records
    BY DEF IdentityTypeOK
  <2>3. \A r \in rotating : r.cert.serial \in Nat /\ r.cert.serial <= minted
    BY <2>1, ZenonT(60) DEF IdentityTypeOK, FreshInv
  <2>4. \A h \in Hosts : disk'[h].serial <= minted'
    BY <1>1, <2>1 DEF FreshInv, IdentityTypeOK
  <2>5. \A c \in handed' : c.serial <= minted'
    BY <1>1, <2>1 DEF FreshInv, IdentityTypeOK
  <2>6. \A p \in retired' : Enrolled(p[1])' /\ p[2].serial <= minted'
    BY <1>1, <2>1 DEF FreshInv, IdentityTypeOK, Enrolled
  <2>7. \A i \in 1..Len(agents') :
          /\ agents'[i].cert.serial <= minted'
          /\ agents'[i].pending.serial <= minted'
          /\ <<i, agents'[i].cert>> \notin retired'
          /\ <<i, agents'[i].pending>> \notin retired'
          /\ agents'[i].pending # agents'[i].cert
    BY <1>1, <2>1, <2>2 DEF FreshInv, Records
  <2>8. /\ <<new.id, new.cert>> \notin retired
        /\ new.cert \notin {agents[new.id].cert, agents[new.id].pending}
        /\ \A q \in rotating : q.cert # new.cert
    <3>1. \A p \in retired : p[2].serial <= minted /\ p[2] \in Certs
      BY DEF FreshInv, IdentityTypeOK
    <3>2. <<new.id, new.cert>>[2] = new.cert
      OBVIOUS
    <3>3. <<new.id, new.cert>> \notin retired
      BY <1>1, <1>3, <2>1, <3>1, <3>2
    <3>4. /\ agents[id].cert \in Certs /\ agents[id].pending \in Certs \cup {NoCert}
          /\ agents[id].cert.serial <= minted /\ agents[id].pending.serial <= minted
      BY <1>2, <2>2, Zenon DEF FreshInv, Records
    <3>5. new.cert \notin {agents[new.id].cert, agents[new.id].pending}
      BY <1>1, <1>3, <2>1, <3>4
    <3>6. \A q \in rotating : q.cert # new.cert
      BY <1>1, <1>3, <2>3
    <3> QED BY <3>3, <3>5, <3>6
  <2>9. \A r \in rotating' :
          /\ r.cert.serial <= minted'
          /\ <<r.id, r.cert>> \notin retired'
          /\ r.cert \notin {agents'[r.id].cert, agents'[r.id].pending}
          /\ \A q \in rotating' : q.cert = r.cert => q = r
    <3>1. TAKE r \in rotating'
    <3>2. CASE r \in rotating
      <4>1. r.cert.serial <= minted'
        BY <1>1, <2>3, <3>2
      <4>2. \A q \in rotating' : q.cert = r.cert => q = r
        BY <1>1, <2>8, <3>2, Zenon DEF FreshInv
      <4> QED BY <1>1, <3>2, <4>1, <4>2 DEF FreshInv
    <3>3. CASE r = new
      BY <1>1, <1>3, <2>8, <3>3
    <3> QED BY <1>1, <3>2, <3>3
  <2> QED BY <2>4, <2>5, <2>6, <2>7, <2>9 DEF FreshInv
<1> QED BY <1>1, <1>4, <1>5, <1>6

(* Staging: the last rotation to get there is the one pending.             *)
LEMMA StageStep ==
    ASSUME IdentityInv, NEW r \in rotating, SetPendingCert(r)
    PROVE  IdentityInv'
<1> USE DEF IdentityInv
<1>1. r \in [id : Nat, cert : Certs] /\ r.id \in 1..Len(agents) /\ r.cert.host = agents[r.id].host
  BY DEF IdentityTypeOK, OwnInv, Belongs, Enrolled
<1> DEFINE rec == [agents[r.id] EXCEPT !.pending = r.cert]
<1>2. agents \in Seq(Records) /\ agents[r.id] \in Records
  BY <1>1 DEF IdentityTypeOK
<1>3. /\ rec \in Records /\ rec.host = agents[r.id].host
      /\ rec.cert = agents[r.id].cert /\ rec.pending = r.cert
  BY <1>1, <1>2, Zenon DEF Records
<1>4. /\ rotating' = rotating \ {r}
      /\ agents' = [agents EXCEPT ![r.id] = rec]
      /\ handed' = handed \cup {r.cert}
      /\ UNCHANGED <<minted, disk, agentOf, session, retired, accepted>>
  BY <1>1, <1>2 DEF SetPendingCert
<1> HIDE DEF rec
<1>5. /\ agents' \in Seq(Records) /\ Len(agents') = Len(agents)
      /\ \A i \in 1..Len(agents) : agents'[i] = IF i = r.id THEN rec ELSE agents[i]
  BY <1>1, <1>2, <1>3, <1>4, UpdateEffect
<1>6. IdentityTypeOK'
  BY <1>1, <1>4, <1>5, ZenonT(60) DEF IdentityTypeOK
<1>7. OwnInv'
  <2>1. \A c, i : Belongs(c, i) => Belongs(c, i)'
    BY <1>3, <1>5, SMTT(60) DEF Belongs, Enrolled
  <2> QED BY <1>1, <1>3, <1>4, <1>5, <2>1 DEF OwnInv
<1>8. FreshInv'
  <2>1. \A i \in 1..Len(agents') :
          /\ agents'[i].cert.serial <= minted'
          /\ agents'[i].pending.serial <= minted'
          /\ <<i, agents'[i].cert>> \notin retired'
          /\ <<i, agents'[i].pending>> \notin retired'
          /\ agents'[i].pending # agents'[i].cert
    <3>1. TAKE i \in 1..Len(agents')
    <3>2. CASE i # r.id
      BY <1>4, <1>5, <3>2 DEF FreshInv
    <3>3. CASE i = r.id
      <4>1. /\ r.cert.serial <= minted /\ <<r.id, r.cert>> \notin retired
            /\ r.cert # agents[r.id].cert
        BY DEF FreshInv
      <4>2. agents[r.id].cert.serial <= minted /\ <<r.id, agents[r.id].cert>> \notin retired
        BY <1>1, Zenon DEF FreshInv
      <4> QED BY <1>1, <1>3, <1>4, <1>5, <3>3, <4>1, <4>2
    <3> QED BY <3>2, <3>3
  <2>2. \A q \in rotating' : q.cert \notin {agents'[q.id].cert, agents'[q.id].pending}
    <3>1. TAKE q \in rotating'
    <3>2. q \in rotating /\ q # r /\ q.id \in 1..Len(agents)
      BY <1>4 DEF OwnInv, Belongs, Enrolled
    <3>3. q.cert # r.cert /\ q.cert \notin {agents[q.id].cert, agents[q.id].pending}
      BY <3>2, Zenon DEF FreshInv
    <3> QED BY <1>3, <1>5, <3>2, <3>3, ZenonT(60)
  <2> QED BY <1>4, <1>5, <2>1, <2>2, Zenon DEF FreshInv, Enrolled
<1> QED BY <1>4, <1>6, <1>7, <1>8

(* Every step of every request and rotation keeps the books.               *)
LEMMA IdentityStep == IdentityInv /\ [Next]_vars => IdentityInv'
<1> SUFFICES ASSUME IdentityInv, [Next]_vars PROVE IdentityInv'
  BY Zenon
<1>1. CASE UNCHANGED vars
  BY <1>1, ZenonT(60) DEF vars, IdentityInv, IdentityTypeOK, OwnInv, FreshInv, Belongs, Enrolled
<1>2. CASE Next
  BY <1>2, ConnectionSteps, EnrollStep, RequestSteps, PromoteStep, IssueStep, StageStep
     DEF Next, SessionStep
<1> QED BY <1>1, <1>2

(* The inductive invariant of the server's books of certificates.          *)
THEOREM IdentityInvariance == Spec => []IdentityInv
BY IdentityInit, IdentityStep, PTL DEF Spec

(* However rotations and requests interleave, a request accepted for an    *)
(* agent came from that agent's own host (service.go authorizeIdentity).   *)
THEOREM RequestsAreOwn == Spec => []NoImpersonation
<1>1. IdentityInv => NoImpersonation
  BY DEF IdentityInv, OwnInv, Belongs, NoImpersonation
<1> QED BY <1>1, IdentityInvariance, PTL

(* A replaced certificate never becomes an agent's identity again, and     *)
(* opens nothing but a stream that was authorized earlier (PromoteCert).   *)
THEOREM RotationIsFinal == Spec => []RetiredStaysRetired
<1>1. IdentityInv => RetiredStaysRetired
  BY Zenon DEF IdentityInv, FreshInv, RetiredStaysRetired
<1> QED BY <1>1, IdentityInvariance, PTL

-----------------------------------------------------------------------------
(* The keypair loader.                                                     *)
CONSTANTS Partial, None, MaxPairs, MaxTime

VARIABLES now, file, mtime, latest, cached, modTime, loader, result

Loader == INSTANCE KeypairLoader

(* A load in progress, and the types of the loader.                        *)
Loads ==
    [pc : {"stat", "key"}, newest : Nat, cert : Nat \cup {Partial, None}, expected : Nat \cup {None}]

LoaderTypeOK ==
    /\ now \in Nat
    /\ latest \in Nat
    /\ modTime \in Nat
    /\ mtime \in [Loader!FileNames -> Nat]
    /\ file \in [Loader!FileNames -> Nat \cup {Partial}]
    /\ loader \in {Loader!Idle} \cup Loads

(* The halves of a replaced keypair are never both on disk again, and a    *)
(* cached keypair that was replaced is older than the files.               *)
CacheInv ==
    /\ \A f \in Loader!FileNames : mtime[f] <= now
    /\ file["cert"] = file["key"] => file["cert"] \in {Partial, latest}
    /\ modTime <= Loader!Newest
    /\ cached = latest \/ modTime < Loader!Newest

(* So is one that is being loaded, unless its other half is gone.  A load  *)
(* that no write overtook has seen the files as they are.                  *)
LoadInv ==
    loader # Loader!Idle =>
        /\ loader.newest <= Loader!Newest
        /\ loader.pc = "key" /\ loader.cert \notin {Partial, latest} =>
              loader.newest < Loader!Newest \/ file["key"] # loader.cert
        /\ loader.expected # None =>
              /\ Loader!Installed
              /\ loader.expected = latest
              /\ loader.newest = Loader!Newest
              /\ loader.pc = "key" => loader.cert = latest

(* The inductive invariant of the loader.                                  *)
LoaderInv == LoaderTypeOK /\ CacheInv /\ LoadInv /\ Loader!AdoptsDelivered

(* Nothing is cached at the start.                                         *)
LEMMA LoaderInit ==
    Loader!Init => LoaderInv
BY DEF Loader!Init, LoaderInv, LoaderTypeOK, CacheInv, LoadInv, Loader!AdoptsDelivered,
       Loader!FileNames, Loader!Idle, Loader!Newest

(* A write stamps the file with the current time: no write makes the files *)
(* look older.                                                             *)
LEMMA WritesMakeNewer ==
    ASSUME LoaderTypeOK, CacheInv, NEW f \in Loader!FileNames, mtime' = [mtime EXCEPT ![f] = now]
    PROVE  /\ Loader!Newest <= Loader!Newest'
           /\ Loader!Newest < now => Loader!Newest < Loader!Newest'
           /\ Loader!Newest \in Nat /\ Loader!Newest' \in Nat
           /\ mtime' \in [Loader!FileNames -> Nat]
           /\ \A g \in Loader!FileNames : mtime'[g] <= now
BY DEF LoaderTypeOK, CacheInv, Loader!FileNames, Loader!Newest

(* A load that a write disturbs claims nothing.                            *)
LEMMA DisturbedLoad ==
    ASSUME LoaderTypeOK, loader' = Loader!Disturb(loader)
    PROVE  /\ loader' \in {Loader!Idle} \cup Loads
           /\ (loader' = Loader!Idle) <=> (loader = Loader!Idle)
           /\ loader' # Loader!Idle =>
                 /\ loader'.expected = None
                 /\ loader'.pc = loader.pc
                 /\ loader'.newest = loader.newest
                 /\ loader'.cert = loader.cert
BY DEF LoaderTypeOK, Loader!Disturb, Loads, Loader!Idle

(* Writes and the clock.                                                   *)
LEMMA OperatorSteps ==
    ASSUME Partial \notin Nat, LoaderInv, Loader!OperatorStep
    PROVE  LoaderInv'
<1> USE DEF LoaderInv
<1>1. CASE Loader!Tick
  BY <1>1 DEF Loader!Tick, LoaderTypeOK, CacheInv, LoadInv, Loader!AdoptsDelivered,
              Loader!FileNames, Loader!Newest, Loader!Installed
<1>2. CASE Loader!BeginRotation
  <2>1. PICK f \in Loader!FileNames :
          /\ file' = [file EXCEPT ![f] = Partial]
          /\ mtime' = [mtime EXCEPT ![f] = now]
    BY <1>2, Zenon DEF Loader!BeginRotation
  <2>2. /\ Loader!Installed
        /\ Loader!Newest < now
        /\ latest' = latest + 1
        /\ loader' = Loader!Disturb(loader)
        /\ now' = now /\ cached' = cached /\ modTime' = modTime /\ result' = result
    BY <1>2 DEF Loader!BeginRotation
  <2>3. /\ Loader!Newest < Loader!Newest'
        /\ Loader!Newest \in Nat /\ Loader!Newest' \in Nat
        /\ mtime' \in [Loader!FileNames -> Nat]
        /\ \A g \in Loader!FileNames : mtime'[g] <= now
    BY <2>1, <2>2, WritesMakeNewer, Zenon
  <2>4. LoaderTypeOK'
    BY <2>1, <2>2, <2>3, DisturbedLoad DEF LoaderTypeOK
  <2>5. CacheInv'
    BY <2>1, <2>2, <2>3 DEF CacheInv, LoaderTypeOK, Loader!Installed, Loader!FileNames
  <2>6. LoadInv'
    <3>1. ASSUME loader # Loader!Idle
          PROVE  loader.newest <= Loader!Newest /\ loader.newest \in Nat
      BY <3>1 DEF LoadInv, LoaderTypeOK, Loads
    <3> QED  BY <2>2, <2>3, <3>1, DisturbedLoad DEF LoadInv
  <2> QED  BY <2>2, <2>4, <2>5, <2>6 DEF Loader!AdoptsDelivered
<1>3. ASSUME NEW f \in Loader!FileNames, Loader!WriteFile(f)
      PROVE  LoaderInv'
  <2>1. /\ file[f] # latest
        /\ file' = [file EXCEPT ![f] = IF @ = Partial THEN latest ELSE Partial]
        /\ mtime' = [mtime EXCEPT ![f] = now]
        /\ loader' = Loader!Disturb(loader)
        /\ now' = now /\ latest' = latest /\ cached' = cached /\ modTime' = modTime
        /\ result' = result
    BY <1>3 DEF Loader!WriteFile
  <2>2. /\ Loader!Newest <= Loader!Newest'
        /\ Loader!Newest \in Nat /\ Loader!Newest' \in Nat
        /\ mtime' \in [Loader!FileNames -> Nat]
        /\ \A g \in Loader!FileNames : mtime'[g] <= now
    BY <2>1, WritesMakeNewer, Zenon
  <2>3. /\ file' \in [Loader!FileNames -> Nat \cup {Partial}]
        /\ file'[f] \in {Partial, latest}
        /\ \A g \in Loader!FileNames \ {f} : file'[g] = file[g]
    BY <2>1 DEF LoaderTypeOK
  <2>4. LoaderTypeOK'
    BY <2>1, <2>2, <2>3, DisturbedLoad DEF LoaderTypeOK
  <2>5. CacheInv'
    BY <2>1, <2>2, <2>3 DEF CacheInv, LoaderTypeOK, Loader!FileNames
  <2>6. LoadInv'
    <3>1. ASSUME loader # Loader!Idle
          PROVE  /\ loader.newest <= Loader!Newest
                 /\ loader.newest \in Nat
                 /\ loader.pc = "key" /\ loader.cert \notin {Partial, latest} =>
                       loader.newest < Loader!Newest \/ file["key"] # loader.cert
      BY <3>1 DEF LoadInv, LoaderTypeOK, Loads
    <3>2. ASSUME NEW c, c \notin {Partial, latest}, file["key"] # c
          PROVE  file'["key"] # c
      BY <2>3, <3>2 DEF Loader!FileNames
    <3> QED  BY <2>1, <2>2, <3>1, <3>2, DisturbedLoad DEF LoadInv
  <2> QED  BY <2>1, <2>4, <2>5, <2>6 DEF Loader!AdoptsDelivered
<1> QED  BY <1>1, <1>2, <1>3 DEF Loader!OperatorStep

(* The reads of load, one by one.                                          *)
LEMMA LoadSteps ==
    ASSUME Partial \notin Nat, LoaderInv, Loader!LoadStep
    PROVE  LoaderInv'
<1> USE DEF LoaderInv
<1>1. /\ now' = now /\ file' = file /\ mtime' = mtime /\ latest' = latest
      /\ Loader!Newest' = Loader!Newest
      /\ Loader!Installed' <=> Loader!Installed
      /\ Loader!Newest \in Nat
  BY ZenonT(60) DEF Loader!LoadStep, Loader!Stat, Loader!CacheHit, Loader!ReadCert, Loader!ReadKey,
         Loader!diskVars, Loader!Newest, Loader!Installed, LoaderTypeOK, Loader!FileNames
<1>2. CASE Loader!Stat
  <2>1. /\ loader' \in Loads
        /\ loader'.pc = "stat"
        /\ loader'.newest = Loader!Newest
        /\ loader'.expected # None => Loader!Installed /\ loader'.expected = latest
    BY <1>1, <1>2 DEF Loader!Stat, Loads, LoaderTypeOK
  <2> QED  BY <1>1, <1>2, <2>1 DEF Loader!Stat, LoaderTypeOK, CacheInv, LoadInv, Loader!AdoptsDelivered
<1>3. CASE Loader!CacheHit
  <2>1. /\ loader # Loader!Idle
        /\ loader' = Loader!Idle
        /\ result' = [pair |-> cached, expected |-> loader.expected]
        /\ cached' = cached /\ modTime' = modTime
        /\ loader.newest = modTime
    BY <1>3 DEF Loader!CacheHit, Loader!Idle, Loader!Return
  <2>2. loader.expected # None => cached = loader.expected
    BY <1>1, <2>1 DEF CacheInv, LoadInv, LoaderTypeOK
  <2> QED  BY <1>1, <2>1, <2>2 DEF LoaderTypeOK, CacheInv, LoadInv, Loader!AdoptsDelivered
<1>4. CASE Loader!ReadCert
  <2>1. loader # Loader!Idle /\ loader \in Loads
    BY <1>4 DEF Loader!ReadCert, Loader!Idle, LoaderTypeOK
  <2>2. /\ loader' \in Loads
        /\ loader'.pc = "key"
        /\ loader'.cert = file["cert"]
        /\ loader'.newest = loader.newest
        /\ loader'.expected = loader.expected
        /\ cached' = cached /\ modTime' = modTime /\ result' = result
    BY <1>4, <2>1, Zenon DEF Loader!ReadCert, Loads, LoaderTypeOK, Loader!FileNames
  <2>3. LoadInv'
    BY <1>1, <2>1, <2>2 DEF LoadInv, CacheInv, Loader!Installed, Loader!FileNames
  <2> QED  BY <1>1, <2>2, <2>3 DEF LoaderTypeOK, CacheInv, Loader!AdoptsDelivered
<1>5. CASE Loader!ReadKey
  <2>1. loader # Loader!Idle /\ loader \in Loads /\ loader.pc = "key" /\ loader' = Loader!Idle
    BY <1>5 DEF Loader!ReadKey, Loader!Return, Loader!Idle, LoaderTypeOK
  <2>2. CASE loader.cert = file["key"] /\ loader.cert # Partial
    <3>1. /\ cached' = loader.cert /\ modTime' = loader.newest
          /\ result' = [pair |-> loader.cert, expected |-> loader.expected]
      BY <1>5, <2>2 DEF Loader!ReadKey, Loader!Return
    <3>2. loader.cert = latest \/ loader.newest < Loader!Newest
      BY <2>1, <2>2 DEF LoadInv
    <3>3. loader.newest \in Nat /\ loader.newest <= Loader!Newest
      BY <2>1 DEF LoadInv, Loads
    <3>4. loader.expected # None => loader.cert = loader.expected
      BY <2>1 DEF LoadInv
    <3> QED  BY <1>1, <2>1, <3>1, <3>2, <3>3, <3>4, Zenon
             DEF LoaderTypeOK, CacheInv, LoadInv, Loader!AdoptsDelivered
  <2>3. CASE ~(loader.cert = file["key"] /\ loader.cert # Partial)
    <3>1. /\ cached' = cached /\ modTime' = modTime
          /\ result' = [pair |-> None, expected |-> loader.expected]
      BY <1>5, <2>3 DEF Loader!ReadKey, Loader!Return
    <3>2. loader.expected = None
      BY <2>1, <2>3 DEF LoadInv, Loader!Installed, Loader!FileNames, LoaderTypeOK
    <3> QED  BY <1>1, <2>1, <3>1, <3>2, Zenon
             DEF LoaderTypeOK, CacheInv, LoadInv, Loader!AdoptsDelivered
  <2> QED  BY <2>2, <2>3
<1> QED  BY <1>2, <1>3, <1>4, <1>5 DEF Loader!LoadStep

(* A swapped certificate is adopted on the next connection: a load during  *)
(* which both files hold the delivered keypair returns that keypair, for   *)
(* any number of rotations, interleaved with loads in any way, as long as  *)
(* a rotation starts in a later clock tick than the last write.            *)
THEOREM SwappedPairIsAdopted ==
    ASSUME Partial \notin Nat
    PROVE  Loader!Spec => []Loader!AdoptsDelivered
<1>1. LoaderInv /\ [Loader!Next]_(Loader!vars) => LoaderInv'
  <2>1. ASSUME LoaderInv, UNCHANGED Loader!vars
        PROVE  LoaderInv'
    BY <2>1 DEF Loader!vars, LoaderInv, LoaderTypeOK, CacheInv, LoadInv, Loader!AdoptsDelivered,
                Loader!Newest, Loader!Installed
  <2> QED  BY <2>1, OperatorSteps, LoadSteps, ZenonT(60) DEF Loader!Next
<1>2. LoaderInv => Loader!AdoptsDelivered
  BY SMTT(60) DEF LoaderInv
<1> QED  BY <1>1, <1>2, LoaderInit, PTL DEF Loader!Spec

-----------------------------------------------------------------------------
(* The fan-out of events to subscribers.                                   *)
CONSTANTS Publishers, Subscribers, Exclusive, Buffer, MaxEvents

VARIABLES subs, closed, dropped, chan, received, publish, next, panicked

Bus == INSTANCE EventBus

(* Sequences of numbers in increasing order.                               *)
Increasing(s) == \A i, j \in 1..Len(s) : i < j => s[i] < s[j]

(* What append does to a list of events that are all older.                *)
IsAppended(t, s, x) ==
    /\ t \in Seq(Nat)
    /\ Range(t) = Range(s) \cup {x}
    /\ Increasing(s) /\ (\A y \in Range(s) : y < x) => Increasing(t)

(* What Append does to an increasing sequence.                             *)
LEMMA AppendFacts ==
    ASSUME NEW s \in Seq(Nat), NEW x \in Nat
    PROVE  IsAppended(Append(s, x), s, x)
<1>1. PICK t : t = Append(s, x)
  BY Zenon
<1>2. /\ t \in Seq(Nat) /\ Len(t) = Len(s) + 1 /\ t[Len(t)] = x
      /\ \A i \in 1..Len(s) : t[i] = s[i]
      /\ DOMAIN t = 1..Len(t) /\ DOMAIN s = 1..Len(s) /\ Len(s) \in Nat
  BY <1>1
<1>3. Range(t) = Range(s) \cup {x}
  <2>1. ASSUME NEW y \in Range(t) PROVE y \in Range(s) \cup {x}
    BY <1>2 DEF Range
  <2>2. ASSUME NEW y \in Range(s) \cup {x} PROVE y \in Range(t)
    BY <1>2, SMTT(60) DEF Range
  <2> QED
    BY <2>1, <2>2
<1>4. ASSUME Increasing(s), \A y \in Range(s) : y < x
      PROVE  Increasing(t)
  <2>1. \A i \in 1..Len(s) : s[i] < x
    BY <1>2, <1>4, Zenon DEF Range
  <2>2. ASSUME NEW i \in 1..Len(t), NEW j \in 1..Len(t), i < j PROVE t[i] < t[j]
    <3>1. Len(s) \in Nat /\ Len(t) = Len(s) + 1
      BY <1>2
    <3>2. i \in 1..Len(s) /\ (j \in 1..Len(s) \/ j = Len(t))
      <4>1. PICK n \in Nat : n = Len(s)
        BY <3>1
      <4>2. i \in 1..(n + 1) /\ j \in 1..(n + 1) /\ i < j
        BY <2>2, <3>1, <4>1
      <4>3. i \in 1..n /\ (j \in 1..n \/ j = n + 1)
        BY <4>2
      <4> QED
        BY <3>1, <4>1, <4>3
    <3>3. CASE j \in 1..Len(s)
      <4>1. s[i] < s[j]
        BY <1>4, <2>2, <3>2, <3>3 DEF Increasing
      <4> QED
        BY <1>2, <3>2, <3>3, <4>1
    <3>4. CASE j = Len(t)
      BY <1>2, <2>1, <3>2, <3>4
    <3> QED
      BY <3>2, <3>3, <3>4
  <2> QED
    BY <2>2 DEF Increasing
<1> QED
  BY <1>1, <1>2, <1>3, <1>4 DEF IsAppended

(* What taking the first one does.                                         *)
IsSplit(s, h, t) ==
    /\ t \in Seq(Nat) /\ h \in Nat
    /\ Range(s) = {h} \cup Range(t)
    /\ Increasing(s) => Increasing(t) /\ \A y \in Range(t) : h < y

(* What Head and Tail take from one.                                       *)
LEMMA TailFacts ==
    ASSUME NEW s \in Seq(Nat), s # << >>
    PROVE  IsSplit(s, Head(s), Tail(s))
<1>1. PICK h, t : h = Head(s) /\ t = Tail(s)
  BY Zenon
<1>2. /\ t \in Seq(Nat) /\ h \in Nat /\ h = s[1]
      /\ Len(s) = Len(t) + 1 /\ Len(t) \in Nat /\ Len(s) \in Nat
      /\ \A i \in 1..Len(t) : t[i] = s[i + 1]
      /\ DOMAIN t = 1..Len(t) /\ DOMAIN s = 1..Len(s)
  BY <1>1
<1>3. Range(s) = {h} \cup Range(t)
  <2>1. ASSUME NEW y \in Range(s) PROVE y \in {h} \cup Range(t)
    <3>1. PICK i \in 1..Len(s) : y = s[i]
      BY <1>2 DEF Range
    <3>2. CASE i = 1
      BY <1>2, <3>1, <3>2
    <3>3. CASE i # 1
      <4>1. i - 1 \in 1..Len(t) /\ (i - 1) + 1 = i
        BY <1>2, <3>3
      <4>2. y = t[i - 1]
        BY <1>2, <3>1, <4>1
      <4> QED
        BY <1>2, <4>1, <4>2, Zenon DEF Range
    <3> QED
      BY <3>2, <3>3
  <2>2. ASSUME NEW y \in {h} \cup Range(t) PROVE y \in Range(s)
    <3>1. CASE y = h
      BY <1>2, <3>1 DEF Range
    <3>2. CASE y \in Range(t)
      <4>1. PICK i \in 1..Len(t) : y = t[i]
        BY <1>2, <3>2 DEF Range
      <4>2. i + 1 \in 1..Len(s) /\ y = s[i + 1]
        BY <1>2, <4>1
      <4> QED
        BY <1>2, <4>2, Zenon DEF Range
    <3> QED
      BY <3>1, <3>2
  <2> QED
    BY <2>1, <2>2
<1>4. ASSUME Increasing(s)
      PROVE  Increasing(t) /\ \A y \in Range(t) : h < y
  <2>1. Increasing(t)
    <3> SUFFICES ASSUME NEW i \in 1..Len(t), NEW j \in 1..Len(t), i < j PROVE t[i] < t[j]
      BY DEF Increasing
    <3>1. i + 1 \in 1..Len(s) /\ j + 1 \in 1..Len(s) /\ i + 1 < j + 1
      BY <1>2
    <3>2. s[i + 1] < s[j + 1]
      BY <1>4, <3>1 DEF Increasing
    <3> QED
      BY <1>2, <3>2
  <2>2. \A i \in 1..Len(t) : h < t[i]
    BY <1>2, <1>4, SMTT(60) DEF Increasing
  <2> QED
    BY <1>2, <2>1, <2>2 DEF Range
<1> QED
  BY <1>1, <1>2, <1>3, <1>4 DEF IsSplit

(* The empty sequence.                                                     *)
LEMMA EmptyFacts == << >> \in Seq(Nat) /\ Range(<< >>) = {} /\ Increasing(<< >>)
BY DEF Range, Increasing

-----------------------------------------------------------------------------

(* A subscriber's channel.                                                 *)
Channel == [buf : Seq(Nat), state : {"none", "open", "closed"}]

(* Types of the bus.                                                       *)
BusTypes ==
    /\ subs \subseteq Subscribers
    /\ next \in Nat \ {0}
    /\ chan \in [Subscribers -> Channel]
    /\ received \in [Subscribers -> Seq(Nat)]
    /\ publish \in [Publishers -> [event : Nat, left : SUBSET Subscribers]]

(* Who is in the map, and so whoever a publisher still has to serve, has   *)
(* an open channel.                                                        *)
BusSafe ==
    /\ ~panicked
    /\ \A s \in subs : chan[s].state = "open"
    /\ \A p \in Publishers : publish[p].left \subseteq subs

(* A publisher that has yet to send.                                       *)
Busy(p) == publish[p] # Bus!Resting

(* What a subscriber has read, and what waits in its channel after it.     *)
Reading(s) == Range(received[s]) \cup Range(chan[s].buf)

(* What a subscriber got, and will get, is in the order of publication.    *)
InOrder(s) ==
    /\ Increasing(received[s]) /\ Increasing(chan[s].buf)
    /\ \A x \in Range(received[s]) : \A y \in Range(chan[s].buf) : x < y
    /\ \A x \in Reading(s) : x < next

(* At most one publisher holds the lock, with the latest event, and who it *)
(* has not served yet saw only earlier ones.                               *)
BusOrder ==
    /\ \A p, q \in Publishers : Busy(p) /\ Busy(q) => p = q
    /\ \A p \in Publishers : Busy(p) => publish[p].event + 1 = next
    /\ \A s \in Subscribers : InOrder(s)
    /\ \A p \in Publishers : \A s \in publish[p].left :
          \A x \in Reading(s) : x < publish[p].event

(* The inductive invariant of the bus.                                     *)
BusInv == BusTypes /\ BusSafe /\ (Exclusive => BusOrder)

(* One channel changes, the others do not.                                 *)
LEMMA BufferChanges ==
    ASSUME BusTypes, NEW s \in Subscribers, NEW b \in Seq(Nat),
           chan' = [chan EXCEPT ![s].buf = b]
    PROVE  /\ chan' \in [Subscribers -> Channel]
           /\ chan'[s].buf = b /\ chan'[s].state = chan[s].state
           /\ \A r \in Subscribers \ {s} : chan'[r] = chan[r]
           /\ \A r \in Subscribers : chan'[r].state = chan[r].state
<1>1. PICK c : c = [chan[s] EXCEPT !.buf = b]
  BY Zenon
<1>2. chan[s] \in Channel /\ c \in Channel /\ c.buf = b /\ c.state = chan[s].state
  BY <1>1 DEF BusTypes, Channel
<1>3. chan' = [chan EXCEPT ![s] = c]
  BY <1>1
<1>4. chan \in [Subscribers -> Channel]
  BY DEF BusTypes
<1>5. /\ chan' \in [Subscribers -> Channel] /\ chan'[s] = c
      /\ \A r \in Subscribers \ {s} : chan'[r] = chan[r]
  BY <1>2, <1>3, <1>4
<1> QED
  BY <1>2, <1>5

(* While nobody holds the lock, nobody is about to send.                   *)
LEMMA IdlePublishers ==
    ASSUME BusTypes, Bus!Unlocked
    PROVE  \A p \in Publishers : publish[p].left = {} /\ ~Busy(p)
<1>1. Bus!Resting.left = {}
  BY DEF Bus!Resting
<1> QED
  BY <1>1, Zenon DEF Bus!Unlocked, Busy

(* An event is numbered after all others.                                  *)
LEMMA PublishIsSafe ==
    ASSUME BusInv, NEW p \in Publishers, Bus!Publish(p)
    PROVE  BusInv'
<1>1. /\ publish[p] = Bus!Resting /\ (Exclusive => Bus!Unlocked) /\ next' = next + 1
      /\ publish' = [publish EXCEPT ![p] = IF closed THEN Bus!Resting
                                           ELSE [event |-> next, left |-> subs]]
      /\ UNCHANGED <<subs, chan, received, panicked>>
  BY DEF Bus!Publish
<1>2. PICK r : r = IF closed THEN Bus!Resting ELSE [event |-> next, left |-> subs]
  BY ZenonT(60)
<1>3. /\ r \in [event : Nat, left : SUBSET Subscribers] /\ r.left \subseteq subs
      /\ r # Bus!Resting => r.event = next
      /\ r.left # {} => r.event = next
  BY <1>2 DEF BusInv, BusTypes, Bus!Resting
<1>4. /\ publish' \in [Publishers -> [event : Nat, left : SUBSET Subscribers]]
      /\ publish'[p] = r
      /\ \A q \in Publishers \ {p} : publish'[q] = publish[q]
  BY <1>1, <1>2, <1>3 DEF BusInv, BusTypes
<1>5. BusTypes' /\ BusSafe'
  BY <1>1, <1>3, <1>4 DEF BusInv, BusTypes, BusSafe
<1>6. ASSUME Exclusive PROVE BusOrder'
  <2>1. \A q \in Publishers : publish[q].left = {} /\ ~Busy(q)
    BY <1>1, <1>6, IdlePublishers, Zenon DEF BusInv
  <2>2. \A q \in Publishers \ {p} : publish'[q].left = {} /\ ~Busy(q)'
    BY <1>4, <2>1, Zenon DEF Busy, Bus!Resting
  <2>3. next \in Nat /\ \A s \in Subscribers : \A x \in Reading(s) : x < next /\ x \in Nat
    <3>1. BusTypes /\ \A s \in Subscribers : InOrder(s)
      BY <1>6, Zenon DEF BusInv, BusOrder
    <3>2. next \in Nat
      BY <3>1 DEF BusTypes
    <3>3. ASSUME NEW s \in Subscribers PROVE Reading(s) \subseteq Nat
      <4>1. received[s] \in Seq(Nat) /\ chan[s] \in Channel
        BY <3>1, Zenon DEF BusTypes
      <4> QED
        BY <4>1 DEF Reading, Channel, Range
    <3> QED
      BY <3>1, <3>2, <3>3, Zenon DEF InOrder
  <2>4. ASSUME NEW s \in Subscribers
        PROVE  InOrder(s)' /\ \A x \in Reading(s)' : x < next
    <3>1. InOrder(s)
      BY <1>6, Zenon DEF BusInv, BusOrder
    <3>2. chan' = chan /\ received' = received
      BY <1>1, Zenon
    <3>3. Reading(s)' = Reading(s)
      BY <3>2, ZenonT(60) DEF Reading
    <3>4. \A x \in Reading(s)' : x < next /\ x < next'
      BY <1>1, <2>3, <3>3
    <3> QED
      BY <3>1, <3>2, <3>4, Zenon DEF InOrder, Increasing
  <2>5. ASSUME NEW q \in Publishers PROVE Busy(q)' => q = p /\ publish'[q].event + 1 = next'
    BY <1>1, <1>3, <1>4, <2>2, Zenon DEF Busy
  <2>6. ASSUME NEW q \in Publishers, NEW s \in publish'[q].left
        PROVE  \A x \in Reading(s)' : x < publish'[q].event
    <3>1. q = p /\ s \in Subscribers /\ publish'[q].event = next
      BY <1>3, <1>4, <2>2, <2>6, Zenon
    <3> QED
      BY <2>4, <3>1, Zenon
  <2> QED
    BY <2>4, <2>5, <2>6, Zenon DEF BusOrder, Busy, InOrder, Reading, Increasing
<1> QED
  BY <1>5, <1>6 DEF BusInv

(* It goes into an open channel, or is dropped and counted.                *)
LEMMA SendIsSafe ==
    ASSUME BusInv, NEW p \in Publishers, NEW s \in Subscribers, Bus!Send(p, s)
    PROVE  BusInv'
<1>1. /\ s \in publish[p].left /\ publish' = [publish EXCEPT ![p] = Bus!Remaining(p, s)]
      /\ UNCHANGED <<subs, received, next>>
  BY ZenonT(60) DEF Bus!Send
<1>2. chan[s].state = "open" /\ chan[s] \in Channel /\ publish[p].event \in Nat
  BY <1>1 DEF BusInv, BusTypes, BusSafe, Channel
<1>3. /\ UNCHANGED panicked
      /\ \/ chan' = [chan EXCEPT ![s].buf = Append(chan[s].buf, publish[p].event)]
         \/ chan' = chan
  BY <1>2 DEF Bus!Send
<1>4. PICK r : r = Bus!Remaining(p, s)
  OBVIOUS
<1>5. /\ r \in [event : Nat, left : SUBSET Subscribers] /\ r.left \subseteq publish[p].left \ {s}
      /\ r # Bus!Resting => r.event = publish[p].event
      /\ r.left # {} => r.event = publish[p].event
  BY <1>1, <1>4 DEF BusInv, BusTypes, Bus!Remaining, Bus!Resting
<1>6. /\ publish' \in [Publishers -> [event : Nat, left : SUBSET Subscribers]]
      /\ publish'[p] = r
      /\ \A q \in Publishers \ {p} : publish'[q] = publish[q]
  BY <1>1, <1>4, <1>5 DEF BusInv, BusTypes
<1>7. /\ chan' \in [Subscribers -> Channel]
      /\ chan'[s].buf = Append(chan[s].buf, publish[p].event) \/ chan'[s] = chan[s]
      /\ \A t \in Subscribers \ {s} : chan'[t] = chan[t]
      /\ \A t \in Subscribers : chan'[t].state = chan[t].state
  <2>1. PICK b : b = Append(chan[s].buf, publish[p].event)
    BY Zenon
  <2>2. b \in Seq(Nat)
    BY <1>2, <2>1 DEF Channel
  <2>3. CASE chan' = [chan EXCEPT ![s].buf = Append(chan[s].buf, publish[p].event)]
    BY <2>1, <2>2, <2>3, BufferChanges, Zenon DEF BusInv
  <2>4. CASE chan' = chan
    BY <2>4 DEF BusInv, BusTypes
  <2> QED
    BY <1>3, <2>3, <2>4
<1>8. BusTypes' /\ BusSafe'
  BY <1>1, <1>3, <1>5, <1>6, <1>7, Zenon DEF BusInv, BusTypes, BusSafe
<1>9. ASSUME Exclusive PROVE BusOrder'
  <2>1. PICK e : e = publish[p].event
    BY Zenon
  <2>2. Busy(p) /\ e + 1 = next /\ \A x \in Reading(s) : x < e
    <3>1. Bus!Resting.left = {}
      BY DEF Bus!Resting
    <3>2. Busy(p)
      BY <1>1, <3>1, Zenon DEF Busy
    <3> QED
      BY <1>1, <1>9, <2>1, <3>2, Zenon DEF BusInv, BusOrder
  <2>3. InOrder(s)' /\ Reading(s)' \subseteq Reading(s) \cup {e}
    <3>1. CASE chan'[s] = chan[s]
      BY <1>1, <1>9, <3>1, Zenon DEF BusInv, BusOrder, InOrder, Reading, Increasing
    <3>2. CASE chan'[s].buf = Append(chan[s].buf, e)
      <4>1. IsAppended(chan'[s].buf, chan[s].buf, e)
        BY <1>2, <2>1, <3>2, AppendFacts, Zenon DEF Channel
      <4>2. InOrder(s)
        BY <1>9 DEF BusInv, BusOrder
      <4>3. e < next
        <5>1. publish[p] \in [event : Nat, left : SUBSET Subscribers]
          BY <1>1, Zenon DEF BusInv, BusTypes
        <5>2. e \in Nat
          BY <2>1, <5>1
        <5> QED
          BY <2>2, <5>2
      <4> QED
        BY <1>1, <2>2, <4>1, <4>2, <4>3, Zenon DEF IsAppended, InOrder, Reading, Increasing
    <3> QED
      BY <1>7, <2>1, <3>1, <3>2, Zenon
  <2>4. ASSUME NEW t \in Subscribers, t # s PROVE InOrder(t)' /\ Reading(t)' = Reading(t)
    BY <1>1, <1>7, <1>9, <2>4, Zenon DEF BusInv, BusOrder, InOrder, Reading, Increasing
  <2>5. ASSUME NEW q \in Publishers
        PROVE  Busy(q)' => Busy(q) /\ publish'[q].event + 1 = next'
    BY <1>1, <1>5, <1>6, <1>9, <2>1, <2>2, Zenon DEF BusInv, BusOrder, Busy, Bus!Resting
  <2>6. ASSUME NEW q \in Publishers, NEW t \in publish'[q].left
        PROVE  \A x \in Reading(t)' : x < publish'[q].event
    <3>1. t \in publish[q].left /\ publish'[q].event = publish[q].event /\ t \in Subscribers
      BY <1>5, <1>6, <2>6, Zenon DEF BusInv, BusTypes
    <3>2. t # s
      <4>1. Busy(q)
        BY <3>1 DEF Busy, Bus!Resting
      <4>2. q = p
        BY <1>9, <2>2, <4>1, Zenon DEF BusInv, BusOrder
      <4> QED
        BY <1>5, <1>6, <2>6, <4>2, ZenonT(60)
    <3> QED
      BY <1>9, <2>4, <3>1, <3>2, Zenon DEF BusInv, BusOrder
  <2>7. \A q, u \in Publishers : Busy(q)' /\ Busy(u)' => q = u
    BY <1>9, <2>5, Zenon DEF BusInv, BusOrder
  <2>8. \A t \in Subscribers : InOrder(t)'
    BY <2>3, <2>4
  <2> QED
    BY <2>5, <2>6, <2>7, <2>8, Zenon DEF BusOrder, Busy, InOrder, Reading, Increasing
<1> QED
  BY <1>8, <1>9 DEF BusInv

(* A publisher that served everyone rests.                                 *)
LEMMA RestingAgain ==
    ASSUME BusInv, NEW p \in Publishers, Bus!PublishNobody(p)
    PROVE  BusInv'
<1>1. /\ publish' = [publish EXCEPT ![p] = Bus!Resting]
      /\ UNCHANGED <<subs, chan, received, next, panicked>>
  BY ZenonT(60) DEF Bus!PublishNobody
<1>2. /\ publish' \in [Publishers -> [event : Nat, left : SUBSET Subscribers]]
      /\ publish'[p] = Bus!Resting /\ publish'[p].left = {}
      /\ \A q \in Publishers \ {p} : publish'[q] = publish[q]
  BY <1>1 DEF BusInv, BusTypes, Bus!Resting
<1>3. BusTypes' /\ BusSafe'
  BY <1>1, <1>2, Zenon DEF BusInv, BusTypes, BusSafe
<1>4. ASSUME Exclusive PROVE BusOrder'
  <2>1. \A q \in Publishers : Busy(q)' => Busy(q) /\ publish'[q] = publish[q]
    BY <1>2, Zenon DEF Busy, Bus!Resting
  <2>2. \A q, u \in Publishers : Busy(q)' /\ Busy(u)' => q = u
    BY <1>4, <2>1, Zenon DEF BusInv, BusOrder
  <2>3. \A q \in Publishers : Busy(q)' => publish'[q].event + 1 = next'
    BY <1>1, <1>4, <2>1, Zenon DEF BusInv, BusOrder
  <2>4. \A s \in Subscribers : InOrder(s)' /\ Reading(s)' = Reading(s)
    BY <1>1, <1>4, ZenonT(60) DEF BusInv, BusOrder, InOrder, Reading, Increasing
  <2>5. ASSUME NEW q \in Publishers, NEW s \in publish'[q].left
        PROVE  \A x \in Reading(s)' : x < publish'[q].event
    <3>1. q # p /\ publish'[q] = publish[q]
      BY <1>2, <2>5
    <3>2. s \in publish[q].left /\ s \in Subscribers
      BY <2>5, <3>1, ZenonT(60) DEF BusInv, BusTypes
    <3>3. Reading(s)' = Reading(s)
      BY <2>4, <3>2
    <3> QED
      BY <1>4, <3>1, <3>2, <3>3, Zenon DEF BusInv, BusOrder
  <2> QED
    BY <2>2, <2>3, <2>4, <2>5, Zenon DEF BusOrder, Busy, InOrder, Reading, Increasing
<1> QED
  BY <1>3, <1>4 DEF BusInv

(* Subscribing, leaving and closing happen while nobody publishes, and     *)
(* change no buffer.                                                       *)
LEMMA MembershipIsSafe ==
    ASSUME BusInv, Bus!Unlocked, BusTypes', UNCHANGED <<received, publish, next>>,
           \A s \in Subscribers : chan'[s].buf = chan[s].buf,
           ~panicked', (\A s \in subs : chan[s].state = "open")'
    PROVE  BusInv'
<1>1. \A p \in Publishers : publish'[p].left = {} /\ ~Busy(p)'
  BY IdlePublishers, Zenon DEF BusInv, Busy, Bus!Resting
<1>2. BusSafe'
  BY <1>1, Zenon DEF BusSafe
<1>3. ASSUME Exclusive PROVE BusOrder'
  <2>1. \A s \in Subscribers : InOrder(s)'
    BY <1>3 DEF BusInv, BusOrder, InOrder, Reading, Increasing
  <2> QED
    BY <1>1, <2>1, ZenonT(60) DEF BusOrder, Busy, InOrder, Reading, Increasing
<1> QED
  BY <1>2, <1>3, Zenon DEF BusInv

(* A subscriber gets a channel of its own.                                 *)
LEMMA SubscribeIsSafe ==
    ASSUME BusInv, NEW s \in Subscribers, Bus!Subscribe(s)
    PROVE  BusInv'
<1>1. /\ Bus!Unlocked /\ subs' = subs \cup {s} /\ chan' = [chan EXCEPT ![s].state = "open"]
      /\ UNCHANGED <<received, publish, next, panicked>>
  BY DEF Bus!Subscribe
<1>2. PICK c : c = [chan[s] EXCEPT !.state = "open"]
  BY Zenon
<1>3. chan \in [Subscribers -> Channel]
  BY DEF BusInv, BusTypes
<1>4. c \in Channel /\ c.state = "open" /\ c.buf = chan[s].buf
  BY <1>2, <1>3 DEF Channel
<1>5. chan' = [chan EXCEPT ![s] = c]
  BY <1>1, <1>2
<1>6. /\ chan' \in [Subscribers -> Channel] /\ chan'[s] = c
      /\ \A t \in Subscribers \ {s} : chan'[t] = chan[t]
  BY <1>3, <1>4, <1>5
<1>7. \A t \in subs' : t \in Subscribers /\ chan'[t].state = "open"
  BY <1>1, <1>4, <1>6, Zenon DEF BusInv, BusTypes, BusSafe
<1>8. \A t \in Subscribers : chan'[t].buf = chan[t].buf
  BY <1>4, <1>6
<1>9. BusTypes' /\ ~panicked'
  BY <1>1, <1>6, <1>7 DEF BusInv, BusTypes, BusSafe
<1> QED
  BY <1>1, <1>7, <1>8, <1>9, MembershipIsSafe

(* Channels that leave the map are closed once.                            *)
LEMMA ClosingChannels ==
    ASSUME BusInv, NEW gone, chan' = Bus!ClosedAll(gone)
    PROVE  /\ chan' \in [Subscribers -> Channel]
           /\ \A t \in Subscribers : chan'[t].buf = chan[t].buf
           /\ \A t \in Subscribers \ gone : chan'[t] = chan[t]
<1>1. chan \in [Subscribers -> Channel]
  BY DEF BusInv, BusTypes
<1>2. ASSUME NEW t \in Subscribers
      PROVE  /\ [chan[t] EXCEPT !.state = "closed"] \in Channel
             /\ [chan[t] EXCEPT !.state = "closed"].buf = chan[t].buf
  BY <1>1 DEF Channel
<1> QED
  BY <1>1, <1>2 DEF Bus!ClosedAll

(* One subscriber leaves.                                                  *)
LEMMA UnsubscribeIsSafe ==
    ASSUME BusInv, NEW s \in Subscribers, Bus!Unsubscribe(s)
    PROVE  BusInv'
<1>1. /\ Bus!Unlocked /\ s \in subs /\ subs' = subs \ {s} /\ chan' = Bus!ClosedAll({s})
      /\ panicked' = (panicked \/ chan[s].state = "closed")
      /\ UNCHANGED <<received, publish, next>>
  BY Zenon DEF Bus!Unsubscribe
<1>2. ~panicked'
  BY <1>1, Zenon DEF BusInv, BusSafe
<1>3. /\ chan' \in [Subscribers -> Channel]
      /\ \A t \in Subscribers : chan'[t].buf = chan[t].buf
      /\ \A t \in Subscribers \ {s} : chan'[t] = chan[t]
  BY <1>1, ClosingChannels, Zenon
<1>4. \A t \in subs' : chan'[t].state = "open"
  BY <1>1, <1>3, Zenon DEF BusInv, BusTypes, BusSafe
<1>5. BusTypes'
  BY <1>1, <1>3, Zenon DEF BusInv, BusTypes
<1> QED
  BY <1>1, <1>2, <1>3, <1>4, <1>5, MembershipIsSafe, ZenonT(60)

(* All do.                                                                 *)
LEMMA ClosingIsSafe ==
    ASSUME BusInv, Bus!Close
    PROVE  BusInv'
<1>1. /\ Bus!Unlocked /\ subs' = {} /\ chan' = Bus!ClosedAll(subs)
      /\ panicked' = (panicked \/ \E s \in subs : chan[s].state = "closed")
      /\ UNCHANGED <<received, publish, next>>
  BY DEF Bus!Close
<1>2. ~panicked'
  BY <1>1, Zenon DEF BusInv, BusSafe
<1>3. /\ chan' \in [Subscribers -> Channel]
      /\ \A t \in Subscribers : chan'[t].buf = chan[t].buf
  BY <1>1, ClosingChannels
<1>4. BusTypes' /\ \A t \in subs' : chan'[t].state = "open"
  BY <1>1, <1>3 DEF BusInv, BusTypes
<1> QED
  BY <1>1, <1>2, <1>3, <1>4, MembershipIsSafe

(* A subscriber reads in the order of its channel.                         *)
LEMMA ReceiveIsSafe ==
    ASSUME BusInv, NEW s \in Subscribers, Bus!Receive(s)
    PROVE  BusInv'
<1>1. PICK h, b : h = Head(chan[s].buf) /\ b = Tail(chan[s].buf)
  BY Zenon
<1>2. /\ chan[s].buf # << >>
      /\ received' = [received EXCEPT ![s] = Append(received[s], h)]
      /\ chan' = [chan EXCEPT ![s].buf = b]
      /\ UNCHANGED <<subs, publish, next, panicked>>
  BY <1>1 DEF Bus!Receive
<1>3. /\ chan[s].buf \in Seq(Nat) /\ received[s] \in Seq(Nat)
      /\ received \in [Subscribers -> Seq(Nat)]
  BY DEF BusInv, BusTypes, Channel
<1>4. IsSplit(chan[s].buf, h, b)
  BY <1>1, <1>2, <1>3, TailFacts
<1>5. h \in Nat /\ b \in Seq(Nat)
  BY <1>4 DEF IsSplit
<1>6. IsAppended(Append(received[s], h), received[s], h)
  BY <1>3, <1>5, AppendFacts
<1>7. /\ received' \in [Subscribers -> Seq(Nat)] /\ received'[s] = Append(received[s], h)
      /\ \A t \in Subscribers \ {s} : received'[t] = received[t]
  BY <1>2, <1>3, <1>6 DEF IsAppended
<1>8. /\ chan' \in [Subscribers -> Channel]
      /\ chan'[s].buf = b /\ chan'[s].state = chan[s].state
      /\ \A t \in Subscribers \ {s} : chan'[t] = chan[t]
      /\ \A t \in Subscribers : chan'[t].state = chan[t].state
  BY <1>2, <1>5, BufferChanges, Zenon DEF BusInv
<1>9. BusTypes' /\ BusSafe'
  BY <1>2, <1>7, <1>8, ZenonT(60) DEF BusInv, BusTypes, BusSafe
<1>10. Range(received'[s]) = Range(received[s]) \cup {h} /\ Range(chan[s].buf) = {h} \cup Range(b)
  BY <1>4, <1>6, <1>7 DEF IsSplit, IsAppended
<1>11. ASSUME NEW t \in Subscribers PROVE Reading(t)' = Reading(t)
  BY <1>7, <1>8, <1>10, ZenonT(60) DEF Reading
<1>12. ASSUME Exclusive PROVE BusOrder'
  <2>1. ASSUME NEW t \in Subscribers PROVE InOrder(t)'
    <3>1. InOrder(t)
      BY <1>12 DEF BusInv, BusOrder
    <3>2. CASE t = s
      <4>1. Increasing(received'[s]) /\ Increasing(chan'[s].buf) /\ \A y \in Range(b) : h < y
        BY <1>4, <1>6, <1>7, <1>8, <1>10, <3>1, <3>2, Zenon DEF InOrder, IsSplit, IsAppended
      <4>2. \A x \in Range(received'[s]) : \A y \in Range(b) : x < y
        BY <1>10, <3>1, <3>2, <4>1, Zenon DEF InOrder
      <4> QED
        BY <1>2, <1>8, <1>11, <3>1, <3>2, <4>1, <4>2, ZenonT(60) DEF InOrder, Reading, Increasing
    <3>3. CASE t # s
      BY <1>2, <1>7, <1>8, <3>1, <3>3 DEF InOrder, Reading, Increasing
    <3> QED
      BY <3>2, <3>3
  <2>2. \A p \in Publishers : \A t \in publish'[p].left : \A x \in Reading(t)' : x < publish'[p].event
    BY <1>2, <1>11, <1>12 DEF BusInv, BusTypes, BusOrder
  <2>3. \A p \in Publishers : Busy(p)' => Busy(p)
    BY <1>2 DEF Busy, Bus!Resting
  <2>4. /\ \A p, q \in Publishers : Busy(p)' /\ Busy(q)' => p = q
        /\ \A p \in Publishers : Busy(p)' => publish'[p].event + 1 = next'
    BY <1>2, <1>12, <2>3 DEF BusInv, BusOrder
  <2> QED
    BY <2>1, <2>2, <2>4, Zenon DEF BusOrder, Busy, InOrder, Reading, Increasing
<1> QED
  BY <1>9, <1>12 DEF BusInv

(* Every step keeps channels open while someone may send.                  *)
LEMMA BusStep ==
    ASSUME BusInv, [Bus!Next]_(Bus!vars)
    PROVE  BusInv'
<1>1. CASE Bus!Next
  BY <1>1, PublishIsSafe, SendIsSafe, RestingAgain, SubscribeIsSafe, UnsubscribeIsSafe,
     ReceiveIsSafe, ClosingIsSafe DEF Bus!Next
<1>2. CASE UNCHANGED Bus!vars
  <2>1. UNCHANGED <<subs, chan, received, publish, next, panicked>>
    BY <1>2 DEF Bus!vars
  <2>2. BusTypes' /\ BusSafe'
    BY <2>1, Zenon DEF BusInv, BusTypes, BusSafe
  <2>3. Exclusive => BusOrder'
    BY <2>1, Zenon DEF BusInv, BusOrder, Busy, Bus!Resting, InOrder, Reading, Increasing
  <2> QED
    BY <2>2, <2>3 DEF BusInv
<1> QED
  BY <1>1, <1>2

(* Nobody is subscribed at the start.                                      *)
LEMMA BusStart == Bus!Init => BusInv
<1> SUFFICES ASSUME Bus!Init PROVE BusInv
  OBVIOUS
<1>1. /\ subs = {} /\ next = 1 /\ panicked = FALSE
      /\ chan = [s \in Subscribers |-> [buf |-> << >>, state |-> "none"]]
      /\ received = [s \in Subscribers |-> << >>]
      /\ publish = [p \in Publishers |-> Bus!Resting]
  BY DEF Bus!Init
<1>2. [buf |-> << >>, state |-> "none"] \in Channel
  BY EmptyFacts, Zenon DEF Channel
<1>3. BusTypes
  BY <1>1, <1>2, EmptyFacts DEF BusTypes, Bus!Resting
<1>4. BusSafe
  BY <1>1, ZenonT(60) DEF BusSafe, Bus!Resting
<1>5. ASSUME NEW s \in Subscribers PROVE InOrder(s)
  <2>1. received[s] = << >> /\ chan[s].buf = << >>
    BY <1>1
  <2> QED
    BY <2>1, EmptyFacts DEF InOrder, Reading
<1>6. \A p \in Publishers : ~Busy(p) /\ publish[p].left = {}
  BY <1>1, Zenon DEF Busy, Bus!Resting
<1> QED
  BY <1>3, <1>4, <1>5, <1>6 DEF BusInv, BusOrder

(* Two sequences in increasing order list what they have in common in the  *)
(* same order.                                                             *)
LEMMA GotIsIncreasing ==
    ASSUME BusTypes, NEW s \in Subscribers, InOrder(s)
    PROVE  /\ Bus!Got(s) \in Seq(Nat)
           /\ Increasing(Bus!Got(s))
<1>1. PICK a, b : a = received[s] /\ b = chan[s].buf
  OBVIOUS
<1>2. a \in Seq(Nat) /\ b \in Seq(Nat)
  BY <1>1 DEF BusTypes, Channel
<1>3. PICK g : g = a \o b
  BY Zenon
<1>4. /\ g \in Seq(Nat) /\ Len(g) = Len(a) + Len(b) /\ Len(a) \in Nat /\ Len(b) \in Nat
      /\ \A i \in 1..Len(g) : g[i] = IF i <= Len(a) THEN a[i] ELSE b[i - Len(a)]
  BY <1>2, <1>3
<1>5. /\ \A i, j \in 1..Len(a) : i < j => a[i] < a[j]
      /\ \A i, j \in 1..Len(b) : i < j => b[i] < b[j]
      /\ \A i \in 1..Len(a) : \A j \in 1..Len(b) : a[i] < b[j]
  <2>1. Increasing(a) /\ Increasing(b) /\ \A x \in Range(a) : \A y \in Range(b) : x < y
    BY <1>1, Zenon DEF InOrder
  <2>2. \A i \in 1..Len(a) : a[i] \in Range(a)
    BY <1>2 DEF Range
  <2>3. \A j \in 1..Len(b) : b[j] \in Range(b)
    BY <1>2 DEF Range
  <2> QED
    BY <2>1, <2>2, <2>3, Zenon DEF Increasing
<1>6. ASSUME NEW i \in 1..Len(g), NEW j \in 1..Len(g), i < j PROVE g[i] < g[j]
  <2>0. Len(g) = Len(a) + Len(b) /\ Len(a) \in Nat /\ Len(b) \in Nat
    BY <1>4, Zenon
  <2>1. CASE j <= Len(a)
    <3>1. i \in 1..Len(a) /\ j \in 1..Len(a) /\ i <= Len(a)
      BY <1>6, <2>0, <2>1
    <3>2. g[i] = a[i] /\ g[j] = a[j]
      BY <1>4, <2>1, <3>1, Zenon
    <3> QED
      BY <1>5, <1>6, <3>1, <3>2
  <2>2. CASE i > Len(a)
    <3>1. /\ i - Len(a) \in 1..Len(b) /\ j - Len(a) \in 1..Len(b)
          /\ i - Len(a) < j - Len(a) /\ ~(i <= Len(a)) /\ ~(j <= Len(a))
      BY <1>6, <2>0, <2>2
    <3> QED
      BY <1>4, <1>5, <3>1, Zenon
  <2>3. CASE i <= Len(a) /\ j > Len(a)
    <3>1. i \in 1..Len(a) /\ j - Len(a) \in 1..Len(b) /\ ~(j <= Len(a))
      BY <1>6, <2>0, <2>3
    <3> QED
      BY <1>4, <1>5, <2>3, <3>1, Zenon
  <2> QED
    BY <1>6, <2>0, <2>1, <2>2, <2>3
<1> QED
  BY <1>1, <1>3, <1>4, <1>6, Zenon DEF Increasing, Bus!Got

(* An element of a sequence of events.                                     *)
LEMMA ElementFacts ==
    ASSUME NEW g \in Seq(Nat), NEW i \in DOMAIN g
    PROVE  i \in 1..Len(g) /\ g[i] \in Nat /\ Len(g) \in Nat
OBVIOUS

(* For any number of publishers and subscribers, on the bus as well as on  *)
(* the broadcaster: nobody sends on a closed channel or closes one twice,  *)
(* and where publishers exclude each other two subscribers never see two   *)
(* events in different orders (internal/bus/inproc.go Publish and remove,  *)
(* cmd/argus-server/stream.go).                                            *)
THEOREM FanOutIsSafe == Bus!Spec => []Bus!SubscribersAreSafe
<1>1. Bus!Init => BusInv
  BY BusStart
<1>2. BusInv /\ [Bus!Next]_(Bus!vars) => BusInv'
  BY BusStep
<1>3. BusInv => Bus!SubscribersAreSafe
  <2> SUFFICES ASSUME BusInv PROVE Bus!SubscribersAreSafe
    OBVIOUS
  <2>1. Bus!NoPanic
    BY DEF BusInv, BusSafe, Bus!NoPanic
  <2>2. ASSUME Exclusive, NEW s \in Subscribers, NEW t \in Subscribers,
               NEW i \in DOMAIN Bus!Got(s), NEW j \in DOMAIN Bus!Got(s),
               NEW k \in DOMAIN Bus!Got(t), NEW l \in DOMAIN Bus!Got(t),
               Bus!Got(s)[i] = Bus!Got(t)[k], Bus!Got(s)[j] = Bus!Got(t)[l], i < j
        PROVE  k < l
    <3>1. PICK g, h : g = Bus!Got(s) /\ h = Bus!Got(t)
      BY Zenon
    <3>2. g \in Seq(Nat) /\ Increasing(g) /\ h \in Seq(Nat) /\ Increasing(h)
      BY <2>2, <3>1, GotIsIncreasing, Zenon DEF BusInv, BusOrder
    <3>3. /\ i \in 1..Len(g) /\ j \in 1..Len(g) /\ k \in 1..Len(h) /\ l \in 1..Len(h)
          /\ g[i] \in Nat /\ g[j] \in Nat /\ Len(h) \in Nat
      <4>1. i \in DOMAIN g /\ j \in DOMAIN g /\ k \in DOMAIN h /\ l \in DOMAIN h
        BY <2>2, <3>1, Zenon
      <4> QED
        BY <3>2, <4>1, ElementFacts, Zenon
    <3>4. g[i] < g[j] /\ h[k] < h[l]
      BY <2>2, <3>1, <3>2, <3>3, Zenon DEF Increasing
    <3>5. h[k] \in Nat /\ h[l] \in Nat /\ (l < k => h[l] < h[k])
      <4>1. h[k] \in Nat /\ h[l] \in Nat
        BY <2>2, <3>1, <3>3
      <4>2. l < k => h[l] < h[k]
        BY <3>2, <3>3, Zenon DEF Increasing
      <4> QED
        BY <4>1, <4>2
    <3>6. ~(l < k) /\ l # k
      BY <3>4, <3>5
    <3> QED
      BY <3>3, <3>6
  <2>3. Bus!SameOrder
    BY <2>2 DEF Bus!SameOrder
  <2> QED
    BY <2>1, <2>3 DEF Bus!SubscribersAreSafe
<1> QED
  BY <1>1, <1>2, <1>3, PTL DEF Bus!Spec

=============================================================================
