------------------------------ MODULE AuditLog ------------------------------
(***************************************************************************)
(* The admin API's hash-chained audit log (cmd/argus-server/audit.go):     *)
(* concurrent requests append entries under a mutex, each linked to the    *)
(* previous one by its hash, to a file opened in append mode.  The chain   *)
(* state lives in memory, so it starts over when the server does.          *)
(*                                                                         *)
(* SHA-256 is modelled as injective: the hash of an entry is what it       *)
(* covers.  An HMAC is that hash together with the key.                    *)
(***************************************************************************)
EXTENDS Naturals, Sequences

CONSTANTS
    Writers,        \* admin requests being served
    Actions,        \* what an entry says
    Key,            \* the signing key, or NoKey
    NoKey,
    MaxEntries,     \* bound: entries
    MaxRestarts     \* bound: server restarts

ASSUME AuditAssumption == MaxEntries \in Nat /\ MaxRestarts \in Nat

VARIABLES
    seq,        \* auditLog.seq
    prev,       \* auditLog.prev
    mu,         \* the writer that holds auditLog.mu, or NoKey
    writer,     \* [Writers -> the entry it is about to write, or NoKey]
    file,       \* the append-only sink
    gaps,       \* history: a sink write failed
    restarts

vars == <<seq, prev, mu, writer, file, gaps, restarts>>

Zero == << >>

(* computeHash over canonical(): every field but Hash and Sig.             *)
computeHash(e) == <<e.seq, e.action, e.prev>>

sign(hash, key) == IF key = NoKey THEN NoKey ELSE <<key, hash>>

(* The entry record builds: linked, hashed, signed when there is a key.    *)
Entry(n, action, previous) ==
    LET e == [seq |-> n, action |-> action, prev |-> previous] IN
    [seq |-> n, action |-> action, prev |-> previous,
     hash |-> computeHash(e), sig |-> sign(computeHash(e), Key)]

Init ==
    /\ seq = 0
    /\ prev = Zero
    /\ mu = NoKey
    /\ writer = [w \in Writers |-> NoKey]
    /\ file = << >>
    /\ gaps = FALSE
    /\ restarts = 0

-----------------------------------------------------------------------------
(* record: take the mutex, ...                                             *)
Lock(w) ==
    /\ mu = NoKey
    /\ seq < MaxEntries
    /\ mu' = w
    /\ UNCHANGED <<seq, prev, writer, file, gaps, restarts>>

(* ... number, link and seal the entry, ...                                *)
Seal(w, action) ==
    /\ mu = w
    /\ writer[w] = NoKey
    /\ seq' = seq + 1
    /\ writer' = [writer EXCEPT ![w] = Entry(seq', action, prev)]
    /\ prev' = writer'[w].hash
    /\ UNCHANGED <<mu, file, gaps, restarts>>

(* ... and write it, whether or not the write succeeds.                    *)
Write(w) ==
    /\ mu = w
    /\ writer[w] # NoKey
    /\ \/ file' = Append(file, writer[w]) /\ UNCHANGED gaps
       \/ gaps' = TRUE /\ UNCHANGED file
    /\ writer' = [writer EXCEPT ![w] = NoKey]
    /\ mu' = NoKey
    /\ UNCHANGED <<seq, prev, restarts>>

(* newAuditLog on the same file.                                           *)
Restart ==
    /\ restarts < MaxRestarts
    /\ restarts' = restarts + 1
    /\ seq' = 0
    /\ prev' = Zero
    /\ mu' = NoKey
    /\ writer' = [w \in Writers |-> NoKey]
    /\ UNCHANGED <<file, gaps>>

Next ==
    \/ \E w \in Writers :
          \/ Lock(w)
          \/ \E action \in Actions : Seal(w, action)
          \/ Write(w)
    \/ Restart

Spec == Init /\ [][Next]_vars

-----------------------------------------------------------------------------
(* A faulty verification that only checks the hashes of single entries.    *)
verifyAuditChainUnlinked(entries, key) ==
    \A i \in 1..Len(entries) :
        /\ computeHash(entries[i]) = entries[i].hash
        /\ key # NoKey => entries[i].sig = sign(entries[i].hash, key)

(* verifyAuditChain: links, hashes and, with a key, signatures.            *)
verifyAuditChain(entries, key) ==
    \A i \in 1..Len(entries) :
        /\ entries[i].prev = IF i = 1 THEN Zero ELSE entries[i - 1].hash
        /\ computeHash(entries[i]) = entries[i].hash
        /\ key # NoKey => entries[i].sig = sign(entries[i].hash, key)

(* What an entry may be changed into without redoing its hash.             *)
Altered(e) == {[e EXCEPT !.action = a] : a \in Actions \ {e.action}}

(* The log without its i-th entry.                                         *)
Without(s, i) == [k \in 1..(Len(s) - 1) |-> IF k < i THEN s[k] ELSE s[k + 1]]

(* "A tampered or reordered log fails here": the log of one server run     *)
(* verifies, however many requests wrote to it at the same time, and fails *)
(* once an entry is altered, two change places or one but the last is      *)
(* missing, be it removed or never written.                                *)
TamperingShows ==
    restarts = 0 /\ ~gaps =>
        /\ verifyAuditChain(file, Key)
        /\ \A i \in 1..Len(file) :
              /\ \A e \in Altered(file[i]) : ~verifyAuditChain([file EXCEPT ![i] = e], Key)
              /\ i < Len(file) => ~verifyAuditChain(Without(file, i), Key)
              /\ \A j \in (i + 1)..Len(file) :
                    ~verifyAuditChain([file EXCEPT ![i] = file[j], ![j] = file[i]], Key)

(* audit.go: "verifyAuditChain ... confirms the chain is intact": the log  *)
(* a correctly working server wrote verifies.                              *)
LogVerifies ==
    ~gaps => verifyAuditChain(file, Key)
=============================================================================
