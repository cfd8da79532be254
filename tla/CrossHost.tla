----------------------------- MODULE CrossHost -----------------------------
(***************************************************************************)
(* The control plane's cross-host correlation (server/correlate): a        *)
(* technique, or a destination, seen on enough distinct hosts raises one   *)
(* signal.  Both indexes work alike and are swept together.                *)
(*                                                                         *)
(* Alerts carry the time their agent gave them, at most Skew behind the    *)
(* latest time in the fleet.                                               *)
(***************************************************************************)
EXTENDS Naturals, FiniteSets

CONSTANTS
    Hosts,
    Techniques,     \* keys of byTechnique
    Dests,          \* keys of byDest
    None,           \* an alert without technique, or without destination
    MinHosts,       \* hosts that make a signal
    Window,
    MaxTrackedKeys, \* cap of each index
    Skew,           \* how late an alert's time may be
    MaxTime         \* bound: clock ticks

Keys == Techniques \cup Dests

VARIABLES
    now,            \* the latest time in the fleet
    byTechnique,    \* technique -> window
    byDest,         \* destination -> window
    lastSweep,      \* [any, at]: CrossHost.lastSweep, zero at start
    signals,        \* what the last Observe returned: set of [key, first, hosts, at]
    seen,           \* history: [Keys -> [Hosts -> last sighting]]
    raised          \* history: [Keys -> last signal]

vars == <<now, byTechnique, byDest, lastSweep, signals, seen, raised>>

Empty == [k \in {} |-> 0]
Never == [any |-> FALSE, at |-> 0]
At(t) == [any |-> TRUE, at |-> t]
NotRaised == [any |-> FALSE, first |-> 0, at |-> 0]

Init ==
    /\ now = 0
    /\ byTechnique = Empty
    /\ byDest = Empty
    /\ lastSweep = Never
    /\ signals = {}
    /\ seen = [k \in Keys |-> [h \in Hosts |-> Never]]
    /\ raised = [k \in Keys |-> NotRaised]

-----------------------------------------------------------------------------
Restricted(f, dom) == [x \in dom |-> f[x]]
Put(f, x, v) == [y \in DOMAIN f \cup {x} |-> IF y = x THEN v ELSE f[y]]

(* A faulty pruneExpired that keeps every host.                            *)
pruneExpiredNever(hosts, t) == hosts

pruneExpired(hosts, t) ==
    Restricted(hosts, {h \in DOMAIN hosts : ~(t > hosts[h] + Window)})

(* A faulty sweep that drops every key when it runs.                       *)
sweepAll(index, t) == Empty

(* sweep: prune every key, then drop the ones without hosts.               *)
sweep(index, t) ==
    LET pruned == [k \in DOMAIN index |->
                      [index[k] EXCEPT !.hosts = pruneExpired(@, t)]]
    IN Restricted(pruned, {k \in DOMAIN index : DOMAIN pruned[k].hosts # {}})

SweepDue(t) == ~lastSweep.any \/ t >= lastSweep.at + Window

NewWindow(t) == [hosts |-> Empty, first |-> t, fired |-> FALSE]

(* track up to the window it uses: an old window is replaced, a new key    *)
(* needs room, and without room after a sweep the index stays without it.  *)
OpenWindow(index, key, t) ==
    LET swept == IF Cardinality(DOMAIN index) >= MaxTrackedKeys
                 THEN sweep(index, t) ELSE index
    IN
    IF key \in DOMAIN index
    THEN IF t > index[key].first + Window THEN Put(index, key, NewWindow(t)) ELSE index
    ELSE IF Cardinality(DOMAIN swept) >= MaxTrackedKeys THEN swept
         ELSE Put(swept, key, NewWindow(t))

(* The rest of track: record the host, prune, fire once.                   *)
Track(index, key, host, t) ==
    LET window == index[key]
        hosts == pruneExpired(Put(window.hosts, host, t), t)
        fires == ~window.fired /\ Cardinality(DOMAIN hosts) >= MinHosts
    IN [index |-> Put(index, key, [window EXCEPT !.hosts = hosts, !.fired = @ \/ fires]),
        signals |-> IF fires
                    THEN {[key |-> key, first |-> window.first, hosts |-> DOMAIN hosts,
                           at |-> t]}
                    ELSE {}]

track(index, key, host, t) ==
    IF key = None THEN [index |-> index, signals |-> {}]
    ELSE LET opened == OpenWindow(index, key, t) IN
         IF key \in DOMAIN opened THEN Track(opened, key, host, t)
         ELSE [index |-> opened, signals |-> {}]

(* Observe, under the mutex: sweep when due, then both indexes.            *)
Observe(host, technique, dest, t) ==
    LET techniques == IF SweepDue(t) THEN sweep(byTechnique, t) ELSE byTechnique
        dests == IF SweepDue(t) THEN sweep(byDest, t) ELSE byDest
        one == track(techniques, technique, host, t)
        two == track(dests, dest, host, t)
    IN
    /\ byTechnique' = one.index
    /\ byDest' = two.index
    /\ lastSweep' = IF SweepDue(t) THEN At(t) ELSE lastSweep
    /\ signals' = one.signals \cup two.signals
    /\ seen' = [k \in Keys |-> IF k \in {technique, dest}
                               THEN [seen[k] EXCEPT ![host] = At(t)] ELSE seen[k]]
    /\ raised' = [k \in Keys |->
                     IF \E s \in signals' : s.key = k
                     THEN [any |-> TRUE, at |-> t,
                           first |-> (CHOOSE s \in signals' : s.key = k).first]
                     ELSE raised[k]]
    /\ UNCHANGED now

Tick ==
    /\ now < MaxTime
    /\ now' = now + 1
    /\ UNCHANGED <<byTechnique, byDest, lastSweep, signals, seen, raised>>

Next ==
    \/ \E host \in Hosts, technique \in Techniques \cup {None}, dest \in Dests \cup {None},
          t \in {u \in 0..now : u + Skew >= now} : Observe(host, technique, dest, t)
    \/ Tick

Spec == Init /\ [][Next]_vars

-----------------------------------------------------------------------------
(* "Seen on enough distinct hosts within the window": the hosts a signal   *)
(* names really showed the key, the last time no longer than the window    *)
(* before the alert that raised it, nor after it by more than the skew.    *)
(* And neither index outgrows its cap.                                     *)
SignalIsTight ==
    /\ \A s \in signals :
        /\ Cardinality(s.hosts) >= MinHosts
        /\ \A h \in s.hosts :
              /\ seen[s.key][h].any
              /\ seen[s.key][h].at + Window >= s.at
              /\ seen[s.key][h].at <= s.at + Skew
    /\ \A index \in {byTechnique, byDest} : Cardinality(DOMAIN index) <= MaxTrackedKeys

(* A key is reported once per window: the windows of two signals for it    *)
(* start more than a window apart, less what the clocks are off by, sweeps *)
(* and dropped keys included.                                              *)
NewSignalIsApart ==
    \A k \in Keys :
        raised[k].any /\ raised'[k] # raised[k] =>
            raised'[k].first + 2 * Skew > raised[k].first + Window
=============================================================================
