--------------------------- MODULE KeypairLoader ---------------------------
(***************************************************************************)
(* The agent's reloading client keypair (internal/fleet/tls.go): load is   *)
(* called for every handshake, compares modification times, and reads and  *)
(* parses the two files only when they moved.  The files are replaced by   *)
(* an operator, one after the other, while load may be running.            *)
(*                                                                         *)
(* Content n of either file belongs to keypair n.  Modification times have *)
(* the clock's granularity, so several writes may share one.               *)
(***************************************************************************)
EXTENDS Naturals

CONSTANTS
    Partial,    \* a file truncated or only partly written
    None,       \* no cached keypair
    MaxPairs,   \* bound: keypairs installed over time
    MaxTime     \* bound: clock ticks

FileNames == {"cert", "key"}

VARIABLES
    now,        \* the clock, in units of the file system's time stamps
    file,       \* [FileNames -> content]
    mtime,      \* [FileNames -> modification time]
    latest,     \* the keypair the operator installs, or has installed
    cached,     \* keypairLoader.cached
    modTime,    \* keypairLoader.modTime
    loader,     \* load, which holds the loader's mutex while it runs
    result      \* history: how the last load went

vars == <<now, file, mtime, latest, cached, modTime, loader, result>>
diskVars == <<now, file, mtime, latest>>

Newest == IF mtime["cert"] > mtime["key"] THEN mtime["cert"] ELSE mtime["key"]
Installed == \A f \in FileNames : file[f] = latest
Idle == [pc |-> "idle"]

(* The configuration is only built when the first load succeeds.           *)
Init ==
    /\ now = 0
    /\ file = [f \in FileNames |-> 1]
    /\ mtime = [f \in FileNames |-> 0]
    /\ latest = 1
    /\ cached = 1
    /\ modTime = 0
    /\ loader = Idle
    /\ result = [pair |-> 1, expected |-> 1]

-----------------------------------------------------------------------------
(* The operator.  A rotation starts in a later tick than the last write of *)
(* the previous one; within a rotation writes may share a tick.            *)
Tick ==
    /\ now < MaxTime
    /\ now' = now + 1
    /\ UNCHANGED <<file, mtime, latest, cached, modTime, loader, result>>

(* A load that a write overtakes is not held to any keypair.               *)
Disturb(l) == IF l = Idle THEN l ELSE [l EXCEPT !.expected = None]

BeginRotation ==
    /\ Installed
    /\ latest < MaxPairs
    /\ Newest < now
    /\ latest' = latest + 1
    /\ \E f \in FileNames :
          /\ file' = [file EXCEPT ![f] = Partial]
          /\ mtime' = [mtime EXCEPT ![f] = now]
    /\ loader' = Disturb(loader)
    /\ UNCHANGED <<now, cached, modTime, result>>

WriteFile(f) ==
    /\ file[f] # latest
    /\ file' = [file EXCEPT ![f] = IF @ = Partial THEN latest ELSE Partial]
    /\ mtime' = [mtime EXCEPT ![f] = now]
    /\ loader' = Disturb(loader)
    /\ UNCHANGED <<now, latest, cached, modTime, result>>

-----------------------------------------------------------------------------
(* The end of a load: release the mutex, return pair (None: an error).     *)
Return(pair) ==
    /\ loader' = Idle
    /\ result' = [pair |-> pair, expected |-> loader.expected]

(* load up to the decision on the cache.  The keypair expected of it is    *)
(* the one installed, if the files are whole and stay so until it returns. *)
Stat ==
    /\ loader = Idle
    /\ loader' = [pc |-> "stat", newest |-> Newest, cert |-> None,
                  expected |-> IF Installed THEN latest ELSE None]
    /\ UNCHANGED <<diskVars, cached, modTime, result>>

CacheHit ==
    /\ loader.pc = "stat"
    /\ cached # None /\ loader.newest = modTime
    /\ Return(cached)
    /\ UNCHANGED <<diskVars, cached, modTime>>

ReadCert ==
    /\ loader.pc = "stat"
    /\ ~(cached # None /\ loader.newest = modTime)
    /\ loader' = [loader EXCEPT !.pc = "key", !.cert = file["cert"]]
    /\ UNCHANGED <<diskVars, cached, modTime, result>>

(* A faulty end of load that stamps the cache with the time of the files   *)
(* after it has read them.                                                 *)
ReadKeyStatLate ==
    /\ loader.pc = "key"
    /\ IF loader.cert = file["key"] /\ loader.cert # Partial
       THEN /\ cached' = loader.cert
            /\ modTime' = now
            /\ Return(loader.cert)
       ELSE /\ Return(None)
            /\ UNCHANGED <<cached, modTime>>
    /\ UNCHANGED diskVars

(* Read the key and parse: X509KeyPair refuses a pair whose halves do not  *)
(* match, and nothing is cached then.                                      *)
ReadKey ==
    /\ loader.pc = "key"
    /\ IF loader.cert = file["key"] /\ loader.cert # Partial
       THEN /\ cached' = loader.cert
            /\ modTime' = loader.newest
            /\ Return(loader.cert)
       ELSE /\ Return(None)
            /\ UNCHANGED <<cached, modTime>>
    /\ UNCHANGED diskVars

-----------------------------------------------------------------------------
OperatorStep == Tick \/ BeginRotation \/ \E f \in FileNames : WriteFile(f)
LoadStep == Stat \/ CacheHit \/ ReadCert \/ ReadKey

Next == OperatorStep \/ LoadStep

Spec == Init /\ [][Next]_vars

-----------------------------------------------------------------------------
(* "The common no-rotation handshake stays a cache hit while a swapped     *)
(* certificate is adopted on the next connection": a load during which     *)
(* both files hold the delivered keypair returns that keypair, however     *)
(* earlier loads interleaved with the writes.                              *)
AdoptsDelivered ==
    result.expected # None => result.pair = result.expected
=============================================================================
