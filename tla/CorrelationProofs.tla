-------------------------- MODULE CorrelationProofs -------------------------
(***************************************************************************)
(* Proofs about the correlation of alerts: across hosts, on the control    *)
(* plane (CrossHost), and per process, on the agent (Correlator), for any  *)
(* hosts, techniques, destinations, processes, times and limits.           *)
(*                                                                         *)
(* Across hosts, a window says when each of its hosts was last seen with   *)
(* its key, and a key that was reported is either still tracked as         *)
(* reported or was swept once its window had elapsed. Per process, the     *)
(* correlator is compared with one that never sweeps: that one has every   *)
(* tracked state, and of the others only states whose window has elapsed.  *)
(***************************************************************************)
EXTENDS CrossHost, Sequences, FiniteSetTheorems, TLAPS

(* Times and limits are natural numbers, and the two indexes have keys of  *)
(* their own.                                                              *)
CrossHostAssumption ==
    /\ Window \in Nat
    /\ Skew \in Nat
    /\ MaxTrackedKeys \in Nat
    /\ Techniques \cap Dests = {}
    /\ None \notin Techniques \cup Dests

(* A window: which hosts showed the key and when, none of them earlier     *)
(* than the window's start by more than the skew.                          *)
IsWindow(w) ==
    /\ w = [hosts |-> w.hosts, first |-> w.first, fired |-> w.fired]
    /\ w.first \in Nat /\ w.first <= now
    /\ w.fired \in BOOLEAN
    /\ DOMAIN w.hosts \subseteq Hosts
    /\ \A h \in DOMAIN w.hosts : w.hosts[h] \in Nat /\ w.hosts[h] + Skew >= w.first

(* The window of a key says when its hosts were last seen.                 *)
WindowIsSeen(w, k) ==
    \A h \in DOMAIN w.hosts : seen[k][h].any /\ w.hosts[h] = seen[k][h].at

(* The last signal for a key is the one its window fired, or so old that   *)
(* the next window starts a window later.                                  *)
SignalIsShown(index, k) ==
    raised[k].any =>
        /\ raised[k].first \in Nat
        /\ IF k \in DOMAIN index /\ index[k].fired
           THEN index[k].first = raised[k].first
           ELSE /\ now + Skew > raised[k].first + Window
                /\ k \in DOMAIN index =>
                      index[k].first + 2 * Skew > raised[k].first + Window

(* An index, in which only the window of key "fresh" may be without hosts. *)
IndexInv(index, keys, fresh) ==
    /\ IsFiniteSet(DOMAIN index)
    /\ DOMAIN index \subseteq keys
    /\ Cardinality(DOMAIN index) <= MaxTrackedKeys
    /\ \A k \in DOMAIN index :
          /\ IsWindow(index[k])
          /\ WindowIsSeen(index[k], k)
          /\ k # fresh => DOMAIN index[k].hosts # {}
    /\ \A k \in keys : SignalIsShown(index, k)

(* sweep drops a key only when its hosts have all expired, and then its    *)
(* last signal is old enough.                                              *)
LEMMA SweepKeepsIndex ==
    ASSUME CrossHostAssumption, NEW index, NEW keys, None \notin keys,
           IndexInv(index, keys, None), now \in Nat, NEW t \in Nat, t <= now
    PROVE  IndexInv(sweep(index, t), keys, None)
<1>1. PICK pruned : pruned = [k \in DOMAIN index |->
                      [index[k] EXCEPT !.hosts = pruneExpired(@, t)]]
  BY Zenon
<1>2. PICK kept : kept = {k \in DOMAIN index : DOMAIN pruned[k].hosts # {}}
  BY Zenon
<1>3. PICK swept : swept = [k \in kept |-> pruned[k]]
  BY Zenon
<1>4. sweep(index, t) = swept
  BY <1>1, <1>2, <1>3 DEF sweep, Restricted
<1>5. ASSUME NEW k \in DOMAIN index
      PROVE  /\ pruned[k].first = index[k].first
             /\ pruned[k].fired = index[k].fired
             /\ IsWindow(pruned[k])
             /\ DOMAIN pruned[k].hosts =
                   {h \in DOMAIN index[k].hosts : ~(t > index[k].hosts[h] + Window)}
             /\ \A h \in DOMAIN pruned[k].hosts :
                   h \in DOMAIN index[k].hosts /\ pruned[k].hosts[h] = index[k].hosts[h]
  <2>1. IsWindow(index[k])
    BY DEF IndexInv
  <2>2. PICK hosts : hosts = index[k].hosts
    OBVIOUS
  <2>3. PICK live : live = {h \in DOMAIN hosts : ~(t > hosts[h] + Window)}
    BY Zenon
  <2>4. PICK left : left = [h \in live |-> hosts[h]]
    BY Zenon
  <2>5. pruneExpired(hosts, t) = left
    BY <2>3, <2>4 DEF pruneExpired, Restricted
  <2>6. pruned[k] = [hosts |-> left, first |-> index[k].first, fired |-> index[k].fired]
    BY <1>1, <2>1, <2>2, <2>5 DEF IsWindow
  <2>7. DOMAIN left = live /\ \A h \in live : h \in DOMAIN hosts /\ left[h] = hosts[h]
    BY <2>3, <2>4
  <2>8. IsWindow(pruned[k])
    BY <2>1, <2>2, <2>3, <2>6, <2>7 DEF IsWindow
  <2> QED
    BY <2>2, <2>3, <2>6, <2>7, <2>8
<1>6. kept \subseteq DOMAIN index /\ DOMAIN swept = kept
  BY <1>2, <1>3
<1>7. IsFiniteSet(kept) /\ Cardinality(kept) <= MaxTrackedKeys
  <2>1. IsFiniteSet(DOMAIN index) /\ Cardinality(DOMAIN index) <= MaxTrackedKeys
    BY DEF IndexInv
  <2>2. IsFiniteSet(kept) /\ Cardinality(kept) <= Cardinality(DOMAIN index)
    BY <1>6, <2>1, FS_Subset
  <2>3. Cardinality(kept) \in Nat /\ Cardinality(DOMAIN index) \in Nat
    BY <2>1, <2>2, FS_CardinalityType
  <2> QED
    BY <2>1, <2>2, <2>3 DEF CrossHostAssumption
<1>8. ASSUME NEW k \in kept
      PROVE  /\ IsWindow(swept[k])
             /\ WindowIsSeen(swept[k], k)
             /\ DOMAIN swept[k].hosts # {}
  <2>1. swept[k] = pruned[k] /\ k \in DOMAIN index
    BY <1>2, <1>3
  <2> QED
    BY <1>2, <1>5, <2>1 DEF IndexInv, WindowIsSeen
<1>9. ASSUME NEW k \in keys
      PROVE  SignalIsShown(swept, k)
  <2>1. SUFFICES ASSUME raised[k].any PROVE SignalIsShown(swept, k)
    BY DEF SignalIsShown
  <2>2. SignalIsShown(index, k)
    BY DEF IndexInv
  <2>3. CASE k \in kept
    <3>1. /\ k \in DOMAIN index /\ k \in DOMAIN swept
          /\ swept[k].first = index[k].first /\ swept[k].fired = index[k].fired
      BY <1>3, <1>5, <1>6, <2>3
    <3> QED
      BY <2>2, <3>1 DEF SignalIsShown
  <2>4. CASE k \in DOMAIN index /\ k \notin kept
    <3>1. IsWindow(index[k]) /\ DOMAIN index[k].hosts # {}
      BY <2>4 DEF IndexInv
    <3>2. PICK h \in DOMAIN index[k].hosts : TRUE
      BY <3>1
    <3>3. t > index[k].hosts[h] + Window
      BY <1>2, <1>5, <2>4
    <3>4. /\ index[k].hosts[h] \in Nat /\ index[k].first \in Nat
          /\ index[k].hosts[h] + Skew >= index[k].first
      BY <3>1 DEF IsWindow
    <3> QED
      BY <1>6, <2>1, <2>2, <2>4, <3>3, <3>4 DEF SignalIsShown, CrossHostAssumption
  <2>5. CASE k \notin DOMAIN index
    BY <1>6, <2>2, <2>5 DEF SignalIsShown
  <2> QED
    BY <2>3, <2>4, <2>5
<1> QED
  BY <1>4, <1>6, <1>7, <1>8, <1>9 DEF IndexInv

(* sweep adds no key.                                                      *)
LEMMA SweepAddsNothing ==
    ASSUME NEW index, NEW t
    PROVE  DOMAIN sweep(index, t) \subseteq DOMAIN index
BY DEF sweep, Restricted

(* A new window, for a key whose last signal is old enough.                *)
LEMMA NewWindowKeepsIndex ==
    ASSUME CrossHostAssumption, NEW index, NEW keys, NEW key \in keys, None \notin keys,
           IndexInv(index, keys, None), now \in Nat,
           NEW t \in Nat, t <= now, t + Skew >= now,
           Cardinality(DOMAIN index \cup {key}) <= MaxTrackedKeys,
           raised[key].any =>
               raised[key].first \in Nat /\ now + Skew > raised[key].first + Window
    PROVE  IndexInv(Put(index, key, NewWindow(t)), keys, key)
<1>1. PICK w : w = NewWindow(t)
  OBVIOUS
<1>2. PICK put : put = Put(index, key, w)
  OBVIOUS
<1>3. /\ DOMAIN put = DOMAIN index \cup {key}
      /\ put[key] = w
      /\ \A k \in DOMAIN index : k # key => put[k] = index[k]
  BY <1>2 DEF Put
<1>4. DOMAIN w.hosts = {} /\ w.first = t /\ w.fired = FALSE
  BY <1>1 DEF NewWindow, Empty
<1>5. IsWindow(w)
  <2>1. w = [hosts |-> w.hosts, first |-> w.first, fired |-> w.fired]
    BY <1>1 DEF NewWindow
  <2> QED
    BY <1>4, <2>1, Zenon DEF IsWindow
<1>6. IsFiniteSet(DOMAIN put)
  BY <1>3, FS_AddElement DEF IndexInv
<1>7. \A k \in keys : SignalIsShown(put, k)
  <2> SUFFICES ASSUME NEW k \in keys PROVE SignalIsShown(put, k)
    OBVIOUS
  <2>1. CASE k = key
    BY <1>3, <1>4, <2>1 DEF SignalIsShown, CrossHostAssumption
  <2>2. CASE k # key
    <3>1. SignalIsShown(index, k)
      BY DEF IndexInv
    <3>2. k \in DOMAIN put <=> k \in DOMAIN index
      BY <1>3, <2>2
    <3>3. k \in DOMAIN index => put[k] = index[k]
      BY <1>3, <2>2
    <3> QED
      BY <3>1, <3>2, <3>3 DEF SignalIsShown
  <2> QED
    BY <2>1, <2>2
<1>8. \A k \in DOMAIN put :
          /\ IsWindow(put[k])
          /\ WindowIsSeen(put[k], k)
          /\ k # key => DOMAIN put[k].hosts # {}
  <2> SUFFICES ASSUME NEW k \in DOMAIN put
               PROVE  /\ IsWindow(put[k])
                      /\ WindowIsSeen(put[k], k)
                      /\ k # key => DOMAIN put[k].hosts # {}
    OBVIOUS
  <2>1. CASE k = key
    BY <1>3, <1>4, <1>5, <2>1 DEF WindowIsSeen
  <2>2. CASE k # key
    <3>1. k \in DOMAIN index /\ k # None /\ put[k] = index[k]
      <4>1. k \in DOMAIN index /\ put[k] = index[k]
        BY <1>3, <2>2
      <4> QED
        BY <4>1 DEF IndexInv
    <3> QED
      BY <3>1 DEF IndexInv
  <2> QED
    BY <2>1, <2>2
<1> QED
  BY <1>1, <1>2, <1>3, <1>6, <1>7, <1>8 DEF IndexInv

(* track, up to the window it uses (crosshost.go).                         *)
LEMMA OpenWindowKeepsIndex ==
    ASSUME CrossHostAssumption, NEW index, NEW keys, NEW key \in keys, None \notin keys,
           IndexInv(index, keys, None), now \in Nat,
           NEW t \in Nat, t <= now, t + Skew >= now
    PROVE  IndexInv(OpenWindow(index, key, t), keys, key)
<1>1. \A x : IndexInv(x, keys, None) => IndexInv(x, keys, key)
  <2> SUFFICES ASSUME NEW x, IndexInv(x, keys, None) PROVE IndexInv(x, keys, key)
    OBVIOUS
  <2>1. \A k \in DOMAIN x : k # None
    BY DEF IndexInv
  <2> QED
    BY <2>1 DEF IndexInv
<1>2. SignalIsShown(index, key)
  BY DEF IndexInv
<1>3. CASE key \in DOMAIN index
  <2>1. CASE t > index[key].first + Window
    <3>1. OpenWindow(index, key, t) = Put(index, key, NewWindow(t))
      BY <1>3, <2>1 DEF OpenWindow
    <3>2. Cardinality(DOMAIN index \cup {key}) <= MaxTrackedKeys
      <4>1. DOMAIN index \cup {key} = DOMAIN index
        BY <1>3, Zenon
      <4> QED
        BY <4>1 DEF IndexInv
    <3>3. raised[key].any =>
              raised[key].first \in Nat /\ now + Skew > raised[key].first + Window
      BY <1>2, <1>3, <2>1 DEF SignalIsShown, CrossHostAssumption
    <3> QED
      BY <3>1, <3>2, <3>3, NewWindowKeepsIndex
  <2>2. CASE ~(t > index[key].first + Window)
    BY <1>1, <1>3, <2>2 DEF OpenWindow
  <2> QED
    BY <2>1, <2>2
<1>4. CASE key \notin DOMAIN index
  <2>1. PICK swept : swept = IF Cardinality(DOMAIN index) >= MaxTrackedKeys
                             THEN sweep(index, t) ELSE index
    OBVIOUS
  <2>2. IndexInv(swept, keys, None)
    BY <2>1, SweepKeepsIndex
  <2>3. key \notin DOMAIN swept
    BY <1>4, <2>1, SweepAddsNothing
  <2>4. OpenWindow(index, key, t) =
            IF Cardinality(DOMAIN swept) >= MaxTrackedKeys THEN swept
            ELSE Put(swept, key, NewWindow(t))
    BY <1>4, <2>1 DEF OpenWindow
  <2>5. CASE Cardinality(DOMAIN swept) >= MaxTrackedKeys
    BY <1>1, <2>2, <2>4, <2>5
  <2>6. CASE ~(Cardinality(DOMAIN swept) >= MaxTrackedKeys)
    <3>1. IsFiniteSet(DOMAIN swept) /\ Cardinality(DOMAIN swept) \in Nat
      BY <2>2, FS_CardinalityType DEF IndexInv
    <3>2. Cardinality(DOMAIN swept \cup {key}) = Cardinality(DOMAIN swept) + 1
      BY <2>3, <3>1, FS_AddElement, Zenon
    <3>3. Cardinality(DOMAIN swept \cup {key}) <= MaxTrackedKeys
      BY <2>6, <3>1, <3>2 DEF CrossHostAssumption
    <3>4. raised[key].any =>
              raised[key].first \in Nat /\ now + Skew > raised[key].first + Window
      BY <1>2, <1>4 DEF SignalIsShown
    <3> QED
      BY <2>2, <2>4, <2>6, <3>3, <3>4, NewWindowKeepsIndex
  <2> QED
    BY <2>5, <2>6
<1> QED
  BY <1>3, <1>4

(* What Observe records of an index's keys: the host that showed one of    *)
(* them, and the signal raised for it.                                     *)
Sights(keys, key, host, t) ==
    \A k \in keys :
        seen'[k] = IF k = key THEN [seen[k] EXCEPT ![host] = At(t)] ELSE seen[k]

(* The history of a key changes exactly with a signal for it.              *)
Reports(keys, sigs) ==
    \A k \in keys :
        \/ \E s \in sigs : s.key = k /\ raised'[k].any /\ raised'[k].first = s.first
        \/ (\A s \in sigs : s.key # k) /\ raised'[k] = raised[k]

(* The history says for each host whether and when it last showed a key.   *)
SeenInv(keys) ==
    \A k \in keys :
        /\ seen[k] \in [Hosts -> [any : BOOLEAN, at : Nat]]
        /\ \A h \in Hosts : seen[k][h].at <= now

(* Enough hosts, all of which showed the key within the window.            *)
IsTight(s) ==
    /\ Cardinality(s.hosts) >= MinHosts
    /\ \A h \in s.hosts :
          /\ seen[s.key][h].any
          /\ seen[s.key][h].at + Window >= s.at
          /\ seen[s.key][h].at <= s.at + Skew

(* A second signal for a key starts a window after the first, less the     *)
(* skew of both.                                                           *)
Apart(k) ==
    raised[k].any /\ raised'[k] # raised[k] =>
        raised'[k].first + 2 * Skew > raised[k].first + Window

(* The rest of track: the window records the host, keeps no expired one    *)
(* and fires once.                                                         *)
LEMMA TrackKeepsIndex ==
    ASSUME CrossHostAssumption, NEW index, NEW keys, NEW key \in keys,
           IndexInv(index, keys, key), key \in DOMAIN index, SeenInv(keys),
           now \in Nat, now' = now, NEW host \in Hosts,
           NEW t \in Nat, t <= now, t + Skew >= now,
           NEW r, r = Track(index, key, host, t),
           Sights(keys, key, host, t), Reports(keys, r.signals)
    PROVE  /\ IndexInv(r.index, keys, None)'
           /\ \A s \in r.signals : s.key = key /\ IsTight(s)'
           /\ \A k \in keys : Apart(k)
<1>1. PICK w : w = index[key]
  OBVIOUS
<1>2. PICK with : with = Put(w.hosts, host, t)
  OBVIOUS
<1>3. PICK live : live = {h \in DOMAIN with : ~(t > with[h] + Window)}
  BY Zenon
<1>4. PICK hosts : hosts = [h \in live |-> with[h]]
  BY Zenon
<1>5. PICK fires \in BOOLEAN : fires = (~w.fired /\ Cardinality(live) >= MinHosts)
  BY Zenon
<1>6. PICK fired \in BOOLEAN : fired = (w.fired \/ fires)
  BY Zenon
<1>7. hosts = pruneExpired(Put(w.hosts, host, t), t) /\ DOMAIN hosts = live
  BY <1>2, <1>3, <1>4 DEF pruneExpired, Restricted
<1>8. IsWindow(w) /\ WindowIsSeen(w, key)
  BY <1>1 DEF IndexInv
<1>9. PICK v : v = [hosts |-> hosts, first |-> w.first, fired |-> fired]
  BY Zenon
<1>10. r = [index |-> Put(index, key, [w EXCEPT !.hosts = hosts, !.fired = fired]),
            signals |-> IF fires
                        THEN {[key |-> key, first |-> w.first, hosts |-> live, at |-> t]}
                        ELSE {}]
  BY <1>1, <1>5, <1>6, <1>7, Zenon DEF Track
<1>11. [w EXCEPT !.hosts = hosts, !.fired = fired] = v
  <2>1. PICK a, b, c : w = [hosts |-> a, first |-> b, fired |-> c] /\ b = w.first
    BY <1>8 DEF IsWindow
  <2>2. PICK x : x = [w EXCEPT !.hosts = hosts]
    BY Zenon
  <2>3. x = [hosts |-> hosts, first |-> b, fired |-> c]
    BY <2>1, <2>2
  <2>4. [w EXCEPT !.hosts = hosts, !.fired = fired] = [x EXCEPT !.fired = fired]
    BY <2>1, <2>2
  <2>5. [x EXCEPT !.fired = fired] = [hosts |-> hosts, first |-> b, fired |-> fired]
    BY <2>3
  <2> QED
    BY <1>9, <2>1, <2>4, <2>5
<1>12. PICK put : put = Put(index, key, v)
  OBVIOUS
<1>13. r.index = put
  BY <1>10, <1>11, <1>12
<1>14. PICK sig : sig = [key |-> key, first |-> w.first, hosts |-> live, at |-> t]
  BY Zenon
<1>15. r.signals = IF fires THEN {sig} ELSE {}
  BY <1>10, <1>14
<1>16. sig.key = key /\ sig.first = w.first /\ sig.hosts = live /\ sig.at = t
  BY <1>14
<1>17. v.hosts = hosts /\ v.first = w.first /\ v.fired = fired
  BY <1>9
<1>18. /\ DOMAIN put = DOMAIN index
       /\ put[key] = v
       /\ \A k \in DOMAIN index : k # key => put[k] = index[k]
  BY <1>12 DEF Put
<1>19. Window \in Nat /\ Skew \in Nat
  BY DEF CrossHostAssumption
<1>20. /\ DOMAIN with = DOMAIN w.hosts \cup {host}
       /\ with[host] = t
       /\ \A h \in DOMAIN w.hosts : h # host => with[h] = w.hosts[h]
  BY <1>2 DEF Put
<1>21. host \in live /\ hosts[host] = t
  BY <1>3, <1>4, <1>19, <1>20
<1>22. ASSUME NEW h \in live
       PROVE  /\ h \in Hosts
              /\ hosts[h] \in Nat
              /\ hosts[h] + Skew >= w.first
              /\ hosts[h] + Window >= t
              /\ hosts[h] <= now
              /\ seen'[key][h].any /\ hosts[h] = seen'[key][h].at
  <2>1. hosts[h] = with[h] /\ ~(t > with[h] + Window) /\ h \in DOMAIN with
    BY <1>3, <1>4
  <2>2. seen[key] \in [Hosts -> [any : BOOLEAN, at : Nat]]
    BY DEF SeenInv
  <2>3. seen'[key] = [seen[key] EXCEPT ![host] = At(t)]
    BY DEF Sights
  <2>4. w.first \in Nat /\ w.first <= now
    BY <1>8 DEF IsWindow
  <2>5. CASE h = host
    <3>1. seen'[key][h] = At(t)
      BY <2>2, <2>3, <2>5
    <3>2. seen'[key][h].any /\ seen'[key][h].at = t
      BY <3>1 DEF At
    <3> QED
      BY <1>19, <1>21, <2>4, <2>5, <3>2
  <2>6. CASE h # host
    <3>1. h \in DOMAIN w.hosts /\ hosts[h] = w.hosts[h]
      BY <1>20, <2>1, <2>6
    <3>2. h \in Hosts /\ w.hosts[h] \in Nat /\ w.hosts[h] + Skew >= w.first
      BY <1>8, <3>1, Zenon DEF IsWindow
    <3>3. seen[key][h].any /\ w.hosts[h] = seen[key][h].at
      BY <1>8, <3>1 DEF WindowIsSeen
    <3>4. seen'[key][h] = seen[key][h]
      BY <2>2, <2>3, <2>6, <3>2
    <3>5. seen[key][h].at <= now
      BY <3>2 DEF SeenInv
    <3> QED
      BY <1>19, <2>1, <3>1, <3>2, <3>3, <3>4, <3>5
  <2> QED
    BY <2>5, <2>6
<1>23. ASSUME NEW s \in r.signals
       PROVE  s.key = key /\ IsTight(s)' /\ fires
  <2>1. fires /\ s = sig
    BY <1>15
  <2>2. Cardinality(s.hosts) >= MinHosts
    BY <1>5, <1>16, <2>1, Zenon
  <2> QED
    BY <1>16, <1>19, <1>22, <2>1, <2>2 DEF IsTight
<1>24. ASSUME NEW k \in DOMAIN put
       PROVE  /\ IsWindow(put[k])'
              /\ WindowIsSeen(put[k], k)'
              /\ DOMAIN put[k].hosts # {}
  <2>1. k \in keys
    BY <1>18, Zenon DEF IndexInv
  <2>2. CASE k = key
    <3>1. v = [hosts |-> v.hosts, first |-> v.first, fired |-> v.fired]
      BY <1>9
    <3>2. w.first \in Nat /\ w.first <= now
      BY <1>8 DEF IsWindow
    <3>3. IsWindow(v)'
      BY <1>7, <1>17, <1>22, <3>1, <3>2, ZenonT(60) DEF IsWindow
    <3>4. WindowIsSeen(v, key)'
      BY <1>7, <1>17, <1>22 DEF WindowIsSeen
    <3> QED
      BY <1>7, <1>17, <1>18, <1>21, <2>2, <3>3, <3>4
  <2>3. CASE k # key
    <3>1. put[k] = index[k] /\ seen'[k] = seen[k]
      BY <1>18, <2>1, <2>3, Zenon DEF Sights
    <3>2. /\ IsWindow(index[k])
          /\ WindowIsSeen(index[k], k)
          /\ DOMAIN index[k].hosts # {}
      BY <1>18, <2>3, ZenonT(60) DEF IndexInv
    <3>3. IsWindow(put[k])'
      BY <3>1, <3>2 DEF IsWindow
    <3> QED
      BY <3>1, <3>2, <3>3 DEF WindowIsSeen
  <2> QED
    BY <2>2, <2>3
<1>25. ASSUME NEW k \in keys
       PROVE  SignalIsShown(put, k)' /\ Apart(k)
  <2>1. SignalIsShown(index, k)
    BY DEF IndexInv
  <2>2. CASE k # key
    <3>1. raised'[k] = raised[k]
      BY <1>23, <2>2 DEF Reports
    <3>2. k \in DOMAIN index => put[k] = index[k]
      BY <1>18, <2>2
    <3> QED
      BY <1>18, <2>1, <3>1, <3>2, ZenonT(60) DEF SignalIsShown, Apart
  <2>3. CASE k = key /\ fires
    <3>1. raised'[key].any /\ raised'[key].first = w.first
      BY <1>15, <1>16, <2>3 DEF Reports
    <3>2. put[key].fired /\ put[key].first = w.first /\ key \in DOMAIN put
      BY <1>6, <1>17, <1>18, <2>3, Zenon
    <3>3. w.first \in Nat /\ ~w.fired
      BY <1>5, <1>8, <2>3, Zenon DEF IsWindow
    <3>4. SignalIsShown(put, key)'
      BY <3>1, <3>2, <3>3, Zenon DEF SignalIsShown
    <3>5. Apart(key)
      BY <1>1, <2>1, <2>3, <3>1, <3>3, Zenon DEF SignalIsShown, Apart
    <3> QED
      BY <2>3, <3>4, <3>5
  <2>4. CASE k = key /\ ~fires
    <3>1. raised'[key] = raised[key]
      BY <1>23, <2>4 DEF Reports
    <3>2. put[key].fired = w.fired /\ put[key].first = w.first /\ key \in DOMAIN put
      BY <1>6, <1>8, <1>17, <1>18, <2>4, Zenon DEF IsWindow
    <3> QED
      BY <1>1, <2>1, <2>4, <3>1, <3>2, ZenonT(60) DEF SignalIsShown, Apart
  <2> QED
    BY <2>2, <2>3, <2>4
<1>26. IndexInv(put, keys, None)'
  BY <1>18, <1>24, <1>25, ZenonT(60) DEF IndexInv
<1> QED
  BY <1>13, <1>23, <1>25, <1>26

(* An index survives what touches none of its keys, and the clock.         *)
LEMMA IndexSurvives ==
    ASSUME CrossHostAssumption, NEW index, NEW keys, NEW fresh,
           IndexInv(index, keys, fresh), fresh \notin DOMAIN index,
           now \in Nat, now' \in Nat, now <= now',
           \A k \in keys : raised'[k] = raised[k],
           \A k \in DOMAIN index : seen'[k] = seen[k]
    PROVE  IndexInv(index, keys, None)'
<1>1. ASSUME NEW k \in DOMAIN index
      PROVE  /\ IsWindow(index[k])'
             /\ WindowIsSeen(index[k], k)'
             /\ DOMAIN index[k].hosts # {}
  <2>1. IsWindow(index[k]) /\ WindowIsSeen(index[k], k) /\ DOMAIN index[k].hosts # {}
    BY Zenon DEF IndexInv
  <2>2. IsWindow(index[k])'
    BY <2>1 DEF IsWindow
  <2> QED
    BY <2>1, <2>2 DEF WindowIsSeen
<1>2. ASSUME NEW k \in keys
      PROVE  SignalIsShown(index, k)'
  <2>1. SignalIsShown(index, k)
    BY Zenon DEF IndexInv
  <2> QED
    BY <2>1 DEF SignalIsShown, CrossHostAssumption
<1> QED
  BY <1>1, <1>2 DEF IndexInv

(* track, whole: an alert without the key, a key without room, or the rest.*)
LEMMA TrackingKeepsIndex ==
    ASSUME CrossHostAssumption, NEW index, NEW keys, None \notin keys,
           NEW key \in keys \cup {None},
           IndexInv(index, keys, None), SeenInv(keys),
           now \in Nat, now' = now, NEW host \in Hosts,
           NEW t \in Nat, t <= now, t + Skew >= now,
           NEW r, r = track(index, key, host, t),
           Sights(keys, key, host, t), Reports(keys, r.signals)
    PROVE  /\ IndexInv(r.index, keys, None)'
           /\ \A s \in r.signals : IsTight(s)'
           /\ \A k \in keys : Apart(k)
<1>1. CASE key = None
  <2>1. r = [index |-> index, signals |-> {}]
    BY <1>1, ZenonT(60) DEF track
  <2>2. \A k \in keys : raised'[k] = raised[k] /\ seen'[k] = seen[k]
    <3>1. r.signals = {}
      BY <2>1
    <3>2. \A k \in keys : raised'[k] = raised[k]
      BY <3>1 DEF Reports
    <3>3. \A k \in keys : k # key
      BY <1>1
    <3>4. \A k \in keys : seen'[k] = seen[k]
      BY <3>3, Zenon DEF Sights
    <3> QED
      BY <3>2, <3>4
  <2>3. DOMAIN index \subseteq keys
    BY Zenon DEF IndexInv
  <2>4. IndexInv(index, keys, None)'
    BY <2>2, <2>3, IndexSurvives
  <2>5. \A k \in keys : Apart(k)
    BY <2>2 DEF Apart
  <2>6. r.index = index /\ r.signals = {}
    BY <2>1
  <2>7. IndexInv(r.index, keys, None)'
    BY <2>4, <2>6, ZenonT(60)
  <2> QED
    BY <2>5, <2>6, <2>7, Zenon
<1>2. CASE key # None
  <2>1. PICK open : open = OpenWindow(index, key, t)
    OBVIOUS
  <2>2. key \in keys /\ IndexInv(open, keys, key)
    BY <1>2, <2>1, OpenWindowKeepsIndex, Zenon
  <2>3. CASE key \in DOMAIN open
    <3>1. r = Track(open, key, host, t)
      BY <1>2, <2>1, <2>3, ZenonT(60) DEF track
    <3> QED
      BY <2>2, <2>3, <3>1, TrackKeepsIndex, Zenon
  <2>4. CASE key \notin DOMAIN open
    <3>1. r = [index |-> open, signals |-> {}]
      BY <1>2, <2>1, <2>4, SMTT(60) DEF track
    <3>2. \A k \in keys : raised'[k] = raised[k]
      BY <3>1 DEF Reports
    <3>3. \A k \in DOMAIN open : seen'[k] = seen[k]
      BY <2>2, <2>4, ZenonT(60) DEF Sights, IndexInv
    <3>4. IndexInv(open, keys, None)'
      BY <2>2, <2>4, <3>2, <3>3, IndexSurvives
    <3> QED
      BY <3>1, <3>2, <3>4 DEF Apart
  <2> QED
    BY <2>3, <2>4
<1> QED
  BY <1>1, <1>2, Zenon

(* A signal of an index is about the alert's own key.                      *)
LEMMA SignalsAreOwn ==
    ASSUME NEW index, NEW key, NEW host, NEW t
    PROVE  \A s \in track(index, key, host, t).signals : s.key = key
<1>1. \A x : \A s \in Track(x, key, host, t).signals : s.key = key
  BY DEF Track
<1> QED
  BY <1>1 DEF track

(* The invariant of the fleet's correlator.                                *)
CrossHostInv ==
    /\ now \in Nat
    /\ SeenInv(Techniques \cup Dests)
    /\ IndexInv(byTechnique, Techniques, None)
    /\ IndexInv(byDest, Dests, None)
    /\ \A s \in signals : IsTight(s)

(* Observe keeps both indexes, raises only tight signals and none too      *)
(* early.                                                                  *)
LEMMA ObserveKeepsFleet ==
    ASSUME CrossHostAssumption, CrossHostInv, NEW host \in Hosts,
           NEW technique \in Techniques \cup {None}, NEW dest \in Dests \cup {None},
           NEW t \in {u \in 0..now : u + Skew >= now},
           Observe(host, technique, dest, t)
    PROVE  CrossHostInv' /\ \A k \in Techniques \cup Dests : Apart(k)
<1>1. PICK techniques : techniques = IF SweepDue(t)
                                     THEN sweep(byTechnique, t) ELSE byTechnique
  OBVIOUS
<1>2. PICK dests : dests = IF SweepDue(t) THEN sweep(byDest, t) ELSE byDest
  OBVIOUS
<1>3. PICK one : one = track(techniques, technique, host, t)
  OBVIOUS
<1>4. PICK two : two = track(dests, dest, host, t)
  OBVIOUS
<1>5. /\ byTechnique' = one.index
      /\ byDest' = two.index
      /\ signals' = one.signals \cup two.signals
      /\ now' = now
  BY <1>1, <1>2, <1>3, <1>4 DEF Observe
<1>6. /\ t \in Nat /\ now \in Nat /\ t <= now /\ t + Skew >= now
      /\ None \notin Techniques /\ None \notin Dests
      /\ \A k \in Techniques : k # dest
      /\ \A k \in Dests : k # technique
  BY DEF CrossHostInv, CrossHostAssumption
<1>7. IndexInv(techniques, Techniques, None)
  BY <1>1, <1>6, SweepKeepsIndex DEF CrossHostInv
<1>8. IndexInv(dests, Dests, None)
  BY <1>2, <1>6, SweepKeepsIndex, Zenon DEF CrossHostInv
<1>9. \A k \in Techniques \cup Dests :
          seen'[k] = IF k \in {technique, dest}
                     THEN [seen[k] EXCEPT ![host] = At(t)] ELSE seen[k]
  BY Zenon DEF Observe, Keys
<1>10. Sights(Techniques, technique, host, t) /\ Sights(Dests, dest, host, t)
  BY <1>6, <1>9, Zenon DEF Sights
<1>11. \A k \in Techniques \cup Dests :
          raised'[k] = IF \E s \in signals' : s.key = k
                       THEN [any |-> TRUE, at |-> t,
                             first |-> (CHOOSE s \in signals' : s.key = k).first]
                       ELSE raised[k]
  BY Zenon DEF Observe, Keys
<1>12. /\ \A s \in one.signals : s.key = technique
       /\ \A s \in two.signals : s.key = dest
  BY <1>3, <1>4, SignalsAreOwn, ZenonT(60)
<1>13. ASSUME NEW k \in Techniques \cup Dests
       PROVE  \/ \E s \in signals' : s.key = k /\ raised'[k].any /\ raised'[k].first = s.first
              \/ (\A s \in signals' : s.key # k) /\ raised'[k] = raised[k]
  <2>1. CASE \E s \in signals' : s.key = k
    <3>1. PICK s : s = CHOOSE x \in signals' : x.key = k
      OBVIOUS
    <3>2. s \in signals' /\ s.key = k
      BY <2>1, <3>1, Zenon
    <3>3. raised'[k] = [any |-> TRUE, at |-> t, first |-> s.first]
      BY <1>11, <2>1, <3>1, Zenon
    <3>4. raised'[k].any /\ raised'[k].first = s.first
      BY <3>3
    <3> QED
      BY <3>2, <3>4
  <2>2. CASE ~\E s \in signals' : s.key = k
    BY <1>11, <2>2, ZenonT(60)
  <2> QED
    BY <2>1, <2>2
<1>14. Reports(Techniques, one.signals)
  BY <1>5, <1>6, <1>12, <1>13 DEF Reports
<1>15. Reports(Dests, two.signals)
  BY <1>5, <1>6, <1>12, <1>13 DEF Reports
<1>16. SeenInv(Techniques) /\ SeenInv(Dests)
  BY Zenon DEF CrossHostInv, SeenInv
<1>17. /\ IndexInv(one.index, Techniques, None)'
       /\ \A s \in one.signals : IsTight(s)'
       /\ \A k \in Techniques : Apart(k)
  BY <1>3, <1>5, <1>6, <1>7, <1>10, <1>14, <1>16, TrackingKeepsIndex, Zenon
<1>18. /\ IndexInv(two.index, Dests, None)'
       /\ \A s \in two.signals : IsTight(s)'
       /\ \A k \in Dests : Apart(k)
  BY <1>4, <1>5, <1>6, <1>8, <1>10, <1>15, <1>16, TrackingKeepsIndex, Zenon
<1>19. SeenInv(Techniques \cup Dests)'
  <2> SUFFICES ASSUME NEW k \in Techniques \cup Dests
               PROVE  /\ seen'[k] \in [Hosts -> [any : BOOLEAN, at : Nat]]
                      /\ \A h \in Hosts : seen'[k][h].at <= now'
    BY DEF SeenInv
  <2>1. /\ seen[k] \in [Hosts -> [any : BOOLEAN, at : Nat]]
        /\ \A h \in Hosts : seen[k][h].at <= now
    BY DEF CrossHostInv, SeenInv
  <2>2. At(t) \in [any : BOOLEAN, at : Nat] /\ At(t).at = t
    BY <1>6 DEF At
  <2>3. seen'[k] = seen[k] \/ seen'[k] = [seen[k] EXCEPT ![host] = At(t)]
    BY <1>9, SMTT(60)
  <2> QED
    BY <1>5, <1>6, <2>1, <2>2, <2>3, ZenonT(60)
<1>20. IndexInv(byTechnique, Techniques, None)' /\ IndexInv(byDest, Dests, None)'
  BY <1>5, <1>17, <1>18, ZenonT(60) DEF IndexInv, SignalIsShown
<1>21. (\A s \in signals : IsTight(s))'
  BY <1>5, <1>17, <1>18
<1> QED
  BY <1>5, <1>6, <1>17, <1>18, <1>19, <1>20, <1>21 DEF CrossHostInv

(* So does the passing of time.                                            *)
LEMMA CrossHostStep ==
    ASSUME CrossHostAssumption, CrossHostInv, [Next]_(vars)
    PROVE  CrossHostInv' /\ [NewSignalIsApart]_(vars)
<1>1. ASSUME NEW host \in Hosts, NEW technique \in Techniques \cup {None},
             NEW dest \in Dests \cup {None}, NEW t \in {u \in 0..now : u + Skew >= now},
             Observe(host, technique, dest, t)
      PROVE  CrossHostInv' /\ NewSignalIsApart
  BY <1>1, ObserveKeepsFleet DEF NewSignalIsApart, Keys, Apart
<1>2. CASE Tick \/ UNCHANGED vars
  <2>1. /\ UNCHANGED <<byTechnique, byDest, signals, seen, raised>>
        /\ now' \in Nat /\ now <= now'
    BY <1>2 DEF Tick, vars, CrossHostInv
  <2>2. PICK techniques, dests : techniques = byTechnique /\ dests = byDest
    BY SMTT(60)
  <2>3. /\ IndexInv(techniques, Techniques, None) /\ None \notin DOMAIN techniques
        /\ IndexInv(dests, Dests, None) /\ None \notin DOMAIN dests
    BY <2>2, Zenon DEF CrossHostInv, IndexInv, CrossHostAssumption
  <2>4. IndexInv(techniques, Techniques, None)' /\ IndexInv(dests, Dests, None)'
    BY <2>1, <2>3, IndexSurvives, Zenon DEF CrossHostInv
  <2>5. IndexInv(byTechnique, Techniques, None)' /\ IndexInv(byDest, Dests, None)'
    BY <2>1, <2>2, <2>4, ZenonT(60) DEF IndexInv, SignalIsShown
  <2>6. SeenInv(Techniques \cup Dests)'
    BY <2>1 DEF CrossHostInv, SeenInv
  <2>7. (\A s \in signals : IsTight(s))'
    BY <2>1 DEF CrossHostInv, IsTight
  <2>8. NewSignalIsApart
    BY <2>1 DEF NewSignalIsApart
  <2> QED
    BY <2>1, <2>5, <2>6, <2>7, <2>8 DEF CrossHostInv
<1> QED
  BY <1>1, <1>2 DEF Next

(* New indexes are empty.                                                  *)
LEMMA CrossHostStarts == ASSUME CrossHostAssumption, Init PROVE CrossHostInv
<1>1. DOMAIN byTechnique = {} /\ DOMAIN byDest = {} /\ signals = {} /\ now = 0
  BY DEF Init, Empty
<1>2. IsFiniteSet({}) /\ Cardinality({}) <= MaxTrackedKeys
  BY FS_EmptySet DEF CrossHostAssumption
<1>3. \A k \in Techniques \cup Dests : raised[k] = NotRaised /\ ~raised[k].any
  BY DEF Init, NotRaised, Keys
<1>4. SeenInv(Techniques \cup Dests)
  BY <1>1 DEF Init, Keys, Never, SeenInv
<1>5. \A index, keys : DOMAIN index = {} /\ keys \subseteq Techniques \cup Dests
          => IndexInv(index, keys, None)
  BY <1>2, <1>3 DEF IndexInv, SignalIsShown
<1> QED
  BY <1>1, <1>4, <1>5 DEF CrossHostInv

(* "Seen on enough distinct hosts within the window" (crosshost.go): for   *)
(* any hosts, keys, limits and window, the hosts a signal names really     *)
(* showed the key, the last time no longer than the window before the      *)
(* alert that raised it, and neither index outgrows its cap.               *)
THEOREM SignalsAreTight ==
    ASSUME CrossHostAssumption
    PROVE  Spec => []SignalIsTight
<1>1. Init => CrossHostInv
  BY CrossHostStarts
<1>2. CrossHostInv /\ [Next]_(vars) => CrossHostInv'
  BY CrossHostStep, Zenon
<1>3. CrossHostInv => SignalIsTight
  BY Zenon DEF CrossHostInv, SignalIsTight, IsTight, IndexInv
<1> QED
  BY <1>1, <1>2, <1>3, PTL DEF Spec

(* A key is reported once per window (crosshost.go track): the windows of  *)
(* two signals for it start more than a window apart, less what the clocks *)
(* are off by, through every sweep and every key dropped for want of room. *)
THEOREM SignalsAreApart ==
    ASSUME CrossHostAssumption
    PROVE  Spec => [][NewSignalIsApart]_(vars)
<1>1. Init => CrossHostInv
  BY CrossHostStarts
<1>2. CrossHostInv /\ [Next]_(vars)
          => CrossHostInv' /\ [NewSignalIsApart]_(vars)
  BY CrossHostStep
<1> QED
  BY <1>1, <1>2, PTL DEF Spec

-----------------------------------------------------------------------------
(* The agent's correlator.                                                 *)
CONSTANTS Processes, Risks, Threshold, MaxTracked

VARIABLES states, ideal, incident, expected, inserted, opened

Local == INSTANCE Correlator WITH Keys <- Processes

(* Risk scores, thresholds and times are natural numbers.                  *)
CorrelatorAssumption ==
    /\ Risks \subseteq Nat
    /\ Threshold \in Nat
    /\ Window \in Nat
    /\ MaxTracked \in Nat
    /\ Skew \in Nat

(* What the agent's correlator keeps per process.                          *)
States == [score : Nat, first : Nat, last : Nat, opened : BOOLEAN]

IsMap(map) ==
    /\ IsFiniteSet(DOMAIN map)
    /\ map = [k \in DOMAIN map |-> map[k]]
    /\ \A k \in DOMAIN map : map[k] \in States

(* The instance counts as the library does.                                *)
LEMMA LocalCardinality == \A S : Local!Cardinality(S) = Cardinality(S)
BY DEF Cardinality, Local!Cardinality, IsFiniteSet, Local!IsFiniteSet

(* What Observe leaves of a process's state.                               *)
LEMMA AddRiskFacts ==
    ASSUME CorrelatorAssumption, NEW state \in States, NEW risk \in Risks, NEW t \in Nat
    PROVE  /\ Local!AddRisk(state, risk, t) \in States
           /\ Local!AddRisk(state, risk, t).last = t
           /\ state.opened => Local!AddRisk(state, risk, t).opened
<1>1. PICK score \in Nat : score = Local!Cap(state.score + risk)
  BY DEF CorrelatorAssumption, States, Local!Cap
<1>2. PICK open \in BOOLEAN : open = (state.opened \/ score >= Threshold)
  BY Zenon
<1>3. Local!AddRisk(state, risk, t) =
          [state EXCEPT !.score = score, !.last = t, !.opened = open]
  BY <1>1, <1>2 DEF Local!AddRisk
<1> QED
  BY <1>1, <1>2, <1>3, Zenon DEF States

(* stateFor keeps the state of every process but the ones it sweeps, whose *)
(* windows have elapsed, and the key's own, which it renews.               *)
IsSwept(map, old, key, t) ==
    /\ IsMap(map)
    /\ DOMAIN map \subseteq DOMAIN old \cup {key}
    /\ key \in DOMAIN map
    /\ \A k \in DOMAIN map : k # key => map[k] = old[k]
    /\ \A k \in DOMAIN old : k \notin DOMAIN map => Local!Elapsed(t, old[k].last)
    /\ map[key] = IF Local!Renews(old, key, t) THEN Local!Fresh(t) ELSE old[key]

(* What stateFor leaves of the map: at most a sweep.                       *)
LEMMA StateForSweeps ==
    ASSUME CorrelatorAssumption, NEW old, IsMap(old), NEW key, NEW t \in Nat
    PROVE  IsSwept(Local!stateFor(old, key, t), old, key, t)
<1>1. Local!Fresh(t) \in States /\ Local!Fresh(t).last = t
  BY DEF Local!Fresh, States
<1>2. CASE ~Local!Renews(old, key, t)
  BY <1>2 DEF Local!stateFor, Local!Renews, IsSwept
<1>3. CASE Local!Renews(old, key, t)
  <2>1. PICK put : put = Local!Put(old, key, Local!Fresh(t))
    BY Zenon
  <2>2. /\ DOMAIN put = DOMAIN old \cup {key}
        /\ put = [k \in DOMAIN put |-> put[k]]
        /\ put[key] = Local!Fresh(t)
        /\ \A k \in DOMAIN put : k # key => k \in DOMAIN old /\ put[k] = old[k]
    BY <2>1 DEF Local!Put
  <2>3. IsFiniteSet(DOMAIN put)
    BY <2>2, FS_AddElement DEF IsMap
  <2>4. \A k \in DOMAIN put : put[k] \in States
    BY <1>1, <2>2 DEF IsMap
  <2>5. Local!stateFor(old, key, t) = Local!sweep(put, t)
    BY <1>3, <2>1, Zenon DEF Local!stateFor
  <2>6. CASE Cardinality(DOMAIN put) <= MaxTracked
    <3>1. Local!stateFor(old, key, t) = put
      BY <2>5, <2>6, LocalCardinality, ZenonT(60) DEF Local!sweep
    <3> QED
      BY <1>3, <2>2, <2>3, <2>4, <3>1 DEF IsSwept, IsMap
  <2>7. CASE ~(Cardinality(DOMAIN put) <= MaxTracked)
    <3>1. PICK kept : kept = {j \in DOMAIN put : ~Local!Elapsed(t, put[j].last)}
      BY Zenon
    <3>2. PICK map : map = [k \in kept |-> put[k]]
      BY Zenon
    <3>3. Local!stateFor(old, key, t) = map
      BY <2>5, <2>7, <3>1, <3>2, LocalCardinality, Zenon DEF Local!sweep
    <3>4. IsFiniteSet(kept)
      BY <2>3, <3>1, FS_Subset
    <3>5. key \in kept
      BY <1>1, <2>2, <3>1 DEF Local!Elapsed, CorrelatorAssumption
    <3>6. IsMap(map)
      BY <2>4, <3>1, <3>2, <3>4 DEF IsMap
    <3>7. \A k \in DOMAIN old : k \notin DOMAIN map => Local!Elapsed(t, old[k].last)
      BY <2>2, <3>1, <3>2, <3>5, Zenon
    <3>8. \A k \in DOMAIN map : k # key => map[k] = old[k]
      BY <2>2, <3>1, <3>2
    <3> QED
      BY <1>3, <2>2, <3>1, <3>2, <3>3, <3>5, <3>6, <3>7, <3>8 DEF IsSwept
  <2> QED
    BY <2>6, <2>7
<1> QED
  BY <1>2, <1>3

(* When stateFor inserts, it leaves at most MaxTracked states or only      *)
(* active ones.                                                            *)
LEMMA InsertingSweeps ==
    ASSUME CorrelatorAssumption, NEW old, IsMap(old), NEW key, NEW t \in Nat,
           Local!Renews(old, key, t)
    PROVE  LET map == Local!stateFor(old, key, t) IN
           \/ Cardinality(DOMAIN map) <= MaxTracked
           \/ \A k \in DOMAIN map : ~Local!Elapsed(t, map[k].last)
<1>1. PICK put : put = Local!Put(old, key, Local!Fresh(t))
  BY Zenon
<1>2. Local!stateFor(old, key, t) = Local!sweep(put, t)
  BY <1>1 DEF Local!stateFor
<1>3. CASE Cardinality(DOMAIN put) <= MaxTracked
  BY <1>2, <1>3, LocalCardinality DEF Local!sweep
<1>4. CASE ~(Cardinality(DOMAIN put) <= MaxTracked)
  <2>1. PICK kept : kept = {j \in DOMAIN put : ~Local!Elapsed(t, put[j].last)}
    BY Zenon
  <2>2. Local!stateFor(old, key, t) = [k \in kept |-> put[k]]
    BY <1>2, <1>4, <2>1, LocalCardinality DEF Local!sweep
  <2> QED
    BY <2>1, <2>2
<1> QED
  BY <1>3, <1>4

(* The parts of the invariant.  Every incident the correlator has opened   *)
(* is still shown by the state of its process, or so old that the window   *)
(* has passed; the tracked states are as late as the clock allows.         *)
IncidentIsShown(k) ==
    opened[k].any =>
        /\ opened[k].at <= now
        /\ IF k \in DOMAIN states /\ states[k].opened
           THEN states[k].last + Skew >= opened[k].at
           ELSE now + Skew > opened[k].at + Window

(* When each process last had an incident.                                 *)
Openings == [Processes -> [any : BOOLEAN, at : Nat]]

(* No state is later than the clock.                                       *)
StatesArePast == \A k \in DOMAIN states : states[k].last <= now

(* The invariant of the agent's correlator.                                *)
CorrelatorInv ==
    /\ now \in Nat /\ inserted \in 0..now
    /\ IsMap(states)
    /\ opened \in Openings
    /\ StatesArePast
    /\ \A k \in Processes : IncidentIsShown(k)

(* What Observe makes of the map: the state before, without the swept ones *)
(* and perhaps renewed, and the state after for the process.               *)
IsObserved(before, after, key, t, risk) ==
    /\ before = Local!stateFor(states, key, t)
    /\ IsSwept(before, states, key, t)
    /\ after = Local!AddRisk(before[key], risk, t)
    /\ before[key] \in States
    /\ after \in States
    /\ after.last = t
    /\ states' = Local!Put(before, key, after)
    /\ DOMAIN states' = DOMAIN before
    /\ states'[key] = after
    /\ \A k \in DOMAIN before : k # key => states'[k] = states[k]
    /\ IsMap(states')

(* What Observe does, without its local names.                             *)
LEMMA ObserveFacts ==
    ASSUME CorrelatorAssumption, CorrelatorInv,
           NEW key \in Processes, NEW t \in Local!Timestamps, NEW risk \in Risks,
           Local!Observe(key, t, risk)
    PROVE  \E before, after : IsObserved(before, after, key, t, risk)
<1>1. PICK before : before = Local!stateFor(states, key, t)
  BY Zenon
<1>2. PICK after : after = Local!AddRisk(before[key], risk, t)
  BY Zenon
<1>3. t \in Nat
  BY DEF Local!Timestamps, CorrelatorInv
<1>4. IsSwept(before, states, key, t)
  BY <1>1, <1>3, StateForSweeps DEF CorrelatorInv
<1>5. before[key] \in States /\ key \in DOMAIN before
  BY <1>4 DEF IsSwept, IsMap
<1>6. after \in States /\ after.last = t
  BY <1>2, <1>3, <1>5, AddRiskFacts, ZenonT(60)
<1>7. states' = Local!Put(before, key, after)
  BY <1>1, <1>2 DEF Local!Observe
<1>8. /\ DOMAIN states' = DOMAIN before
      /\ states'[key] = after
      /\ \A k \in DOMAIN before : k # key => states'[k] = before[k]
      /\ states' = [k \in DOMAIN states' |-> states'[k]]
  BY <1>5, <1>7 DEF Local!Put
<1>9. IsMap(states')
  BY <1>4, <1>6, <1>8 DEF IsSwept, IsMap
<1>10. \A k \in DOMAIN before : k # key => states'[k] = states[k]
  BY <1>4, <1>8, Zenon DEF IsSwept
<1> QED
  BY <1>1, <1>2, <1>4, <1>5, <1>6, <1>7, <1>8, <1>9, <1>10, ZenonT(60) DEF IsObserved

(* An event of a process keeps what the states show of every incident, and *)
(* a second incident of a process comes a window after the first.          *)
LEMMA ObserveKeepsCorrelator ==
    ASSUME CorrelatorAssumption, CorrelatorInv,
           NEW key \in Processes, NEW t \in Local!Timestamps, NEW risk \in Risks,
           Local!Observe(key, t, risk)
    PROVE  CorrelatorInv' /\ Local!NewIncidentIsApart
<1>1. PICK before, after : IsObserved(before, after, key, t, risk)
  BY ObserveFacts, Zenon
<1>2. now' = now /\ inserted' = IF Local!Renews(states, key, t) THEN t ELSE inserted
  BY Zenon DEF Local!Observe
<1>3. opened' = IF after.opened /\ ~before[key].opened
                THEN [opened EXCEPT ![key] = Local!At(t)] ELSE opened
  <2>1. /\ before = Local!stateFor(states, key, t)
        /\ after = Local!AddRisk(before[key], risk, t)
    BY <1>1, Zenon DEF IsObserved
  <2> QED
    BY <2>1, Zenon DEF Local!Observe
<1>4. /\ t \in Nat /\ now \in Nat /\ t <= now /\ t + Skew >= now
      /\ Window \in Nat /\ Skew \in Nat
  BY DEF Local!Timestamps, CorrelatorInv, CorrelatorAssumption
<1>5. /\ key \in DOMAIN states' /\ states'[key] = after /\ after.last = t
      /\ \A k \in DOMAIN states' : k # key => k \in DOMAIN states /\ states'[k] = states[k]
  BY <1>1, Zenon DEF IsObserved, IsSwept
<1>6. \A k \in DOMAIN states : k \notin DOMAIN states' => Local!Elapsed(t, states[k].last)
  BY <1>1, Zenon DEF IsObserved, IsSwept
<1>7. before[key] = IF Local!Renews(states, key, t) THEN Local!Fresh(t) ELSE states[key]
  BY <1>1, Zenon DEF IsObserved, IsSwept
<1>8. opened \in Openings /\ Local!At(t) \in [any : BOOLEAN, at : Nat]
  BY <1>4 DEF CorrelatorInv, Local!At
<1>9. opened' \in Openings
  BY <1>3, <1>8 DEF Openings
<1>10. inserted' \in 0..now'
  <2>1. now' = now /\ (inserted' = t \/ inserted' = inserted) /\ inserted \in 0..now
    BY <1>2, Zenon DEF CorrelatorInv
  <2> QED
    BY <1>4, <2>1
<1>11. StatesArePast'
  <2>1. \A k \in DOMAIN states : states[k].last <= now
    BY Zenon DEF CorrelatorInv, StatesArePast
  <2> QED
    BY <1>2, <1>4, <1>5, <2>1 DEF StatesArePast
<1>12. before[key].opened => after.opened
  <2>1. after = Local!AddRisk(before[key], risk, t) /\ before[key] \in States
    BY <1>1, Zenon DEF IsObserved
  <2> QED
    BY <1>4, <2>1, AddRiskFacts, Zenon
<1>13. ASSUME NEW k \in Processes
       PROVE  /\ IncidentIsShown(k)'
              /\ opened'[k] # opened[k] /\ opened[k].any =>
                     opened'[k].at + 2 * Skew > opened[k].at + Window
  <2>1. IncidentIsShown(k) /\ opened[k].at \in Nat
    BY <1>8 DEF CorrelatorInv, Openings
  <2>2. k \in DOMAIN states => states[k].last \in Nat
    BY DEF CorrelatorInv, IsMap, States
  <2>3. CASE k # key
    <3>1. opened'[k] = opened[k]
      <4>1. opened' = opened \/ opened' = [opened EXCEPT ![key] = Local!At(t)]
        BY <1>3, ZenonT(60)
      <4> QED
        BY <1>8, <2>3, <4>1 DEF Openings
    <3>2. CASE k \in DOMAIN states'
      <4>1. k \in DOMAIN states /\ states'[k] = states[k]
        BY <1>5, <2>3, <3>2, Zenon
      <4> QED
        BY <1>2, <2>1, <3>1, <3>2, <4>1 DEF IncidentIsShown
    <3>3. CASE k \notin DOMAIN states'
      <4>1. k \in DOMAIN states => t > states[k].last + Window
        BY <1>6, <3>3, Zenon DEF Local!Elapsed
      <4>2. opened[k].any => opened[k].at <= now /\ now + Skew > opened[k].at + Window
        BY <1>4, <2>1, <2>2, <4>1 DEF IncidentIsShown
      <4> QED
        BY <1>2, <3>1, <3>3, <4>2, Zenon DEF IncidentIsShown
    <3> QED
      BY <3>2, <3>3, Zenon
  <2>4. CASE k = key
    <3>1. CASE before[key].opened
      <4>1. ~Local!Renews(states, key, t) /\ states[key].opened
        BY <1>7, <3>1 DEF Local!Fresh
      <4>2. key \in DOMAIN states
        BY <4>1, Zenon DEF Local!Renews
      <4>3. opened' = opened /\ states'[key].opened
        BY <1>3, <1>5, <1>12, <3>1, Zenon
      <4>4. opened[k].any => opened[k].at <= now /\ states[k].last + Skew >= opened[k].at
        BY <2>1, <2>4, <4>1, <4>2, ZenonT(60) DEF IncidentIsShown
      <4>5. opened[k].any => opened[k].at <= now /\ t + Skew >= opened[k].at
        BY <1>4, <2>1, <4>4
      <4> QED
        BY <1>2, <1>5, <2>4, <4>3, <4>5, ZenonT(60) DEF IncidentIsShown
    <3>2. CASE ~before[key].opened
      <4>1. opened[k].any => opened[k].at <= now /\ now + Skew > opened[k].at + Window
        <5>1. CASE key \in DOMAIN states /\ t > states[key].last + Window
          BY <1>4, <2>1, <2>2, <2>4, <5>1 DEF IncidentIsShown
        <5>2. CASE key \notin DOMAIN states \/ ~states[key].opened
          BY <2>1, <2>4, <5>2, Zenon DEF IncidentIsShown
        <5> QED
          BY <1>7, <3>2, <5>1, <5>2, ZenonT(60) DEF Local!Renews, Local!Elapsed
      <4>2. CASE after.opened
        <5>1. opened'[k] = Local!At(t)
          <6>1. opened' = [opened EXCEPT ![key] = Local!At(t)]
            BY <1>3, <3>2, <4>2, Zenon
          <6> QED
            BY <1>8, <2>4, <6>1 DEF Openings
        <5>2. opened'[k].any /\ opened'[k].at = t
          BY <5>1 DEF Local!At
        <5>3. t <= now /\ t + Skew >= t
          BY <1>4
        <5>4. IncidentIsShown(k)'
          BY <1>2, <1>5, <2>4, <4>2, <5>2, <5>3, ZenonT(60) DEF IncidentIsShown
        <5>5. opened[k].any => t + 2 * Skew > opened[k].at + Window
          BY <1>4, <2>1, <4>1
        <5> QED
          BY <5>2, <5>4, <5>5, Zenon
      <4>3. CASE ~after.opened
        <5>1. opened' = opened /\ ~states'[key].opened
          BY <1>3, <1>5, <4>3, Zenon
        <5> QED
          BY <1>2, <2>4, <4>1, <5>1, Zenon DEF IncidentIsShown
      <4> QED
        BY <4>2, <4>3, Zenon
    <3> QED
      BY <3>1, <3>2, Zenon
  <2> QED
    BY <2>3, <2>4, Zenon
<1>14. Local!NewIncidentIsApart
  BY <1>13, Zenon DEF Local!NewIncidentIsApart
<1>15. now' \in Nat /\ IsMap(states)'
  BY <1>1, <1>2, <1>4, Zenon DEF IsObserved, IsMap
<1> QED
  BY <1>9, <1>10, <1>11, <1>13, <1>14, <1>15, Zenon DEF CorrelatorInv

(* So does the passing of time.                                            *)
LEMMA CorrelatorStep ==
    ASSUME CorrelatorAssumption, CorrelatorInv, [Local!Next]_(Local!vars)
    PROVE  CorrelatorInv' /\ [Local!NewIncidentIsApart]_(Local!vars)
<1>1. CASE Local!Tick
  <2>1. UNCHANGED <<states, inserted, opened>> /\ now' = now + 1
    BY <1>1, Zenon DEF Local!Tick
  <2>2. ASSUME NEW k \in Processes
        PROVE  IncidentIsShown(k)'
    <3>1. IncidentIsShown(k) /\ opened[k].at \in Nat
      BY DEF CorrelatorInv, Openings
    <3> QED
      BY <2>1, <3>1 DEF CorrelatorInv, CorrelatorAssumption, IncidentIsShown
  <2>3. StatesArePast'
    BY <2>1 DEF CorrelatorInv, IsMap, States, StatesArePast
  <2>4. now' \in Nat /\ inserted' \in 0..now'
    BY <2>1 DEF CorrelatorInv
  <2>5. IsMap(states)' /\ (opened \in Openings)'
    BY <2>1, Zenon DEF CorrelatorInv, IsMap, Openings
  <2>6. CorrelatorInv'
    BY <2>2, <2>3, <2>4, <2>5, Zenon DEF CorrelatorInv
  <2> QED
    BY <2>1, <2>6, Zenon DEF Local!NewIncidentIsApart
<1>2. ASSUME NEW key \in Processes, NEW t \in Local!Timestamps, NEW risk \in Risks,
             Local!Observe(key, t, risk)
      PROVE  CorrelatorInv' /\ Local!NewIncidentIsApart
  BY <1>2, ObserveKeepsCorrelator
<1>3. CASE UNCHANGED Local!vars
  BY <1>3, Zenon DEF Local!vars, CorrelatorInv, IncidentIsShown, IsMap, Openings, StatesArePast
<1> QED
  BY <1>1, <1>2, <1>3 DEF Local!Next

(* A new correlator satisfies it.                                          *)
LEMMA CorrelatorStarts == ASSUME Local!Init PROVE CorrelatorInv
<1>1. DOMAIN states = {}
  BY DEF Local!Init
<1>2. IsMap(states)
  BY <1>1, FS_EmptySet DEF Local!Init, IsMap
<1>3. \A k \in Processes : opened[k] = Local!Never /\ ~opened[k].any
  BY DEF Local!Init, Local!Never
<1> QED
  BY <1>1, <1>2, <1>3 DEF Local!Init, Local!Never, CorrelatorInv, IncidentIsShown,
                          Openings, StatesArePast

(* "Opens a single incident instead of N loose alerts" (correlate.go):     *)
(* whatever the risks, the threshold, the window and the size of the map,  *)
(* and through every sweep, two incidents of one process are more than a   *)
(* window apart, less what the timestamps are off by.                      *)
THEOREM IncidentsAreApart ==
    ASSUME CorrelatorAssumption
    PROVE  Local!Spec => [][Local!NewIncidentIsApart]_(Local!vars)
<1>1. Local!Init => CorrelatorInv
  BY CorrelatorStarts
<1>2. CorrelatorInv /\ [Local!Next]_(Local!vars)
          => CorrelatorInv' /\ [Local!NewIncidentIsApart]_(Local!vars)
  BY CorrelatorStep
<1> QED
  BY <1>1, <1>2, PTL DEF Local!Spec

(* The map outgrows its limit only by active processes: a step that        *)
(* inserts sweeps, and one that does not only makes a process younger.     *)
LEMMA OverflowStep ==
    ASSUME CorrelatorAssumption, Skew <= Window, CorrelatorInv, Local!OverflowIsActive,
           [Local!Next]_(Local!vars)
    PROVE  Local!OverflowIsActive'
<1>1. CASE UNCHANGED <<states, inserted>>
  BY <1>1 DEF Local!OverflowIsActive, Local!Tracked
<1>2. ASSUME NEW key \in Processes, NEW t \in Local!Timestamps, NEW risk \in Risks,
             Local!Observe(key, t, risk)
      PROVE  Local!OverflowIsActive'
  <2>1. PICK before, after : IsObserved(before, after, key, t, risk)
    BY <1>2, ObserveFacts, Zenon
  <2>2. inserted' = IF Local!Renews(states, key, t) THEN t ELSE inserted
    BY <1>2, Zenon DEF Local!Observe
  <2>3. /\ t \in Nat /\ now \in Nat /\ t <= now /\ t + Skew >= now
        /\ Window \in Nat /\ Skew \in Nat /\ inserted \in Nat /\ inserted <= now
    BY DEF Local!Timestamps, CorrelatorInv, CorrelatorAssumption
  <2>4. Cardinality(DOMAIN states') \in Nat /\ MaxTracked \in Nat
    <3>1. IsFiniteSet(DOMAIN states')
      BY <2>1, Zenon DEF IsObserved, IsMap
    <3> QED
      BY <3>1, FS_CardinalityType DEF CorrelatorAssumption
  <2>5. SUFFICES ASSUME Cardinality(DOMAIN states') > MaxTracked,
                        NEW k \in DOMAIN states'
                 PROVE  ~Local!Elapsed(inserted', states'[k].last)
    BY LocalCardinality DEF Local!OverflowIsActive, Local!Tracked, Local!Elapsed
  <2>6. /\ before = Local!stateFor(states, key, t)
        /\ DOMAIN states' = DOMAIN before
        /\ states'[key].last = t
        /\ k # key => states'[k] = before[k]
    BY <2>1, <2>5, Zenon DEF IsObserved, IsSwept
  <2>7. ~Local!Elapsed(t, t)
    BY <2>3 DEF Local!Elapsed
  <2>8. CASE Local!Renews(states, key, t)
    <3>1. ~(Cardinality(DOMAIN before) <= MaxTracked)
      BY <2>4, <2>5, <2>6
    <3>2. IsMap(states)
      BY Zenon DEF CorrelatorInv
    <3>3. \A j \in DOMAIN before : ~Local!Elapsed(t, before[j].last)
      BY <2>3, <2>6, <2>8, <3>1, <3>2, InsertingSweeps, Zenon
    <3> QED
      BY <2>2, <2>6, <2>7, <2>8, <3>3, Zenon
  <2>9. CASE ~Local!Renews(states, key, t)
    <3>1. before = states /\ inserted' = inserted
      BY <2>2, <2>6, <2>9, Zenon DEF Local!stateFor
    <3>2. CASE k = key
      <4>1. ~Local!Elapsed(inserted, t)
        BY <2>3 DEF Local!Elapsed
      <4> QED
        BY <2>6, <3>1, <3>2, <4>1, Zenon
    <3>3. CASE k # key
      <4>1. Cardinality(DOMAIN states) > MaxTracked /\ k \in DOMAIN states
        BY <2>5, <2>6, <3>1, Zenon
      <4>2. ~Local!Elapsed(inserted, states[k].last)
        BY <4>1, LocalCardinality, Zenon DEF Local!OverflowIsActive, Local!Tracked
      <4> QED
        BY <2>6, <3>1, <3>3, <4>2, Zenon
    <3> QED
      BY <3>2, <3>3, Zenon
  <2> QED
    BY <2>8, <2>9, Zenon
<1> QED
  BY <1>1, <1>2 DEF Local!Next, Local!Tick, Local!vars

(* stateFor and sweep (correlate.go): the map only outgrows                *)
(* maxTrackedProcesses by processes that were active within the window     *)
(* when the last one was added, if no timestamp is late by more than that. *)
THEOREM OverflowIsOnlyActive ==
    ASSUME CorrelatorAssumption, Skew <= Window
    PROVE  Local!Spec => []Local!OverflowIsActive
<1>1. Local!Init => CorrelatorInv /\ Local!OverflowIsActive
  <2> SUFFICES ASSUME Local!Init PROVE CorrelatorInv /\ Local!OverflowIsActive
    OBVIOUS
  <2>1. DOMAIN states = {}
    BY DEF Local!Init
  <2> QED
    BY <2>1, CorrelatorStarts DEF Local!OverflowIsActive, Local!Tracked
<1>2. CorrelatorInv /\ Local!OverflowIsActive /\ [Local!Next]_(Local!vars)
          => CorrelatorInv' /\ Local!OverflowIsActive'
  BY CorrelatorStep, OverflowStep
<1> QED
  BY <1>1, <1>2, PTL DEF Local!Spec

(* The correlator that never sweeps has every tracked state, and of the    *)
(* others only states whose window has elapsed.                            *)
IdealInv ==
    /\ \A k \in DOMAIN states : k \in DOMAIN ideal /\ states[k] = ideal[k]
    /\ \A k \in DOMAIN ideal :
          k \notin DOMAIN states => ideal[k].last \in Nat /\ now > ideal[k].last + Window
    /\ Local!SweepIsInvisible

(* With timestamps in order, both renew a state at the same events.        *)
LEMMA IdealStep ==
    ASSUME CorrelatorAssumption, Skew = 0, "none" \notin Processes,
           CorrelatorInv, IdealInv, [Local!Next]_(Local!vars)
    PROVE  IdealInv'
<1>1. CASE Local!Tick
  <2>1. UNCHANGED <<states, ideal, incident, expected>> /\ now' = now + 1
    BY <1>1 DEF Local!Tick
  <2> QED
    BY <2>1 DEF IdealInv, CorrelatorInv, CorrelatorAssumption, Local!SweepIsInvisible
<1>2. ASSUME NEW key \in Processes, NEW t \in Local!Timestamps, NEW risk \in Risks,
             Local!Observe(key, t, risk)
      PROVE  IdealInv'
  <2>1. PICK before, after : IsObserved(before, after, key, t, risk)
    BY <1>2, ObserveFacts, Zenon
  <2>2. t = now /\ now \in Nat /\ Window \in Nat
    BY DEF Local!Timestamps, CorrelatorInv, CorrelatorAssumption
  <2>3. Local!Renews(states, key, t) = Local!Renews(ideal, key, t)
    BY <2>2 DEF Local!Renews, Local!Elapsed, IdealInv
  <2>4. PICK idealBefore : idealBefore =
            IF Local!Renews(ideal, key, t) THEN Local!Fresh(t) ELSE ideal[key]
    BY Zenon
  <2>5. /\ before = Local!stateFor(states, key, t)
        /\ after = Local!AddRisk(before[key], risk, t)
    BY <2>1, Zenon DEF IsObserved
  <2>6. idealBefore = before[key]
    <3>1. before[key] = IF Local!Renews(states, key, t) THEN Local!Fresh(t) ELSE states[key]
      BY <2>1, Zenon DEF IsObserved, IsSwept
    <3> QED
      BY <2>3, <2>4, <3>1, Zenon DEF Local!Renews, IdealInv
  <2>7. /\ ideal' = Local!Put(ideal, key, after)
        /\ expected' = (after.opened /\ ~before[key].opened)
        /\ incident' = IF after.opened /\ ~before[key].opened
                       THEN [key |-> key, first |-> after.first, last |-> t]
                       ELSE Local!NoIncident
        /\ now' = now
    BY <1>2, <2>4, <2>5, <2>6, Zenon DEF Local!Observe
  <2>8. /\ DOMAIN ideal' = DOMAIN ideal \cup {key}
        /\ ideal'[key] = after
        /\ \A k \in DOMAIN ideal : k # key => ideal'[k] = ideal[k]
    BY <2>7 DEF Local!Put
  <2>9. Local!SweepIsInvisible'
    <3>1. [key |-> key, first |-> after.first, last |-> t] # Local!NoIncident
      BY DEF Local!NoIncident
    <3> QED
      BY <2>7, <3>1 DEF Local!SweepIsInvisible
  <2>10. /\ key \in DOMAIN states' /\ states'[key] = after
         /\ \A k \in DOMAIN states' : k # key => k \in DOMAIN states /\ states'[k] = states[k]
         /\ \A k \in DOMAIN states : k \notin DOMAIN states' => Local!Elapsed(t, states[k].last)
    BY <2>1, Zenon DEF IsObserved, IsSwept
  <2>11. /\ \A k \in DOMAIN states : k \in DOMAIN ideal /\ states[k] = ideal[k]
         /\ \A k \in DOMAIN ideal :
               k \notin DOMAIN states => ideal[k].last \in Nat /\ now > ideal[k].last + Window
    BY Zenon DEF IdealInv
  <2>12. ASSUME NEW k \in DOMAIN states'
         PROVE  k \in DOMAIN ideal' /\ states'[k] = ideal'[k]
    BY <2>8, <2>10, <2>11, Zenon
  <2>13. ASSUME NEW k \in DOMAIN ideal', k \notin DOMAIN states'
         PROVE  ideal'[k].last \in Nat /\ now' > ideal'[k].last + Window
    <3>1. k \in DOMAIN ideal /\ ideal'[k] = ideal[k]
      BY <2>8, <2>10, <2>13, Zenon
    <3>2. CASE k \in DOMAIN states
      <4>1. states[k].last \in Nat
        BY <3>2 DEF CorrelatorInv, IsMap, States
      <4>2. states[k] = ideal[k] /\ Local!Elapsed(t, states[k].last)
        BY <2>10, <2>11, <2>13, <3>2, Zenon
      <4> QED
        BY <2>2, <2>7, <3>1, <4>1, <4>2, Zenon DEF Local!Elapsed
    <3>3. CASE k \notin DOMAIN states
      BY <2>7, <2>11, <3>1, <3>3, Zenon
    <3> QED
      BY <3>2, <3>3, Zenon
  <2> QED
    BY <2>9, <2>12, <2>13, Zenon DEF IdealInv
<1>3. CASE UNCHANGED Local!vars
  BY <1>3 DEF Local!vars, IdealInv, Local!SweepIsInvisible
<1> QED
  BY <1>1, <1>2, <1>3 DEF Local!Next

(* Sweeping is only housekeeping (correlate.go sweep): with timestamps in  *)
(* order and for any limit of the map, the correlator opens exactly the    *)
(* incidents it would open with unlimited memory.                          *)
THEOREM SweepingIsHousekeeping ==
    ASSUME CorrelatorAssumption, Skew = 0, "none" \notin Processes
    PROVE  Local!Spec => []Local!SweepIsInvisible
<1>1. Local!Init => CorrelatorInv /\ IdealInv
  <2> SUFFICES ASSUME Local!Init PROVE CorrelatorInv /\ IdealInv
    OBVIOUS
  <2>1. DOMAIN states = {} /\ ideal = states /\ ~expected /\ incident = Local!NoIncident
    BY DEF Local!Init
  <2>2. expected = (incident # Local!NoIncident)
    BY Zenon DEF Local!Init
  <2> QED
    BY <2>1, <2>2, CorrelatorStarts DEF IdealInv, Local!SweepIsInvisible
<1>2. CorrelatorInv /\ IdealInv /\ [Local!Next]_(Local!vars)
          => CorrelatorInv' /\ IdealInv'
  BY CorrelatorStep, IdealStep
<1>3. IdealInv => Local!SweepIsInvisible
  BY DEF IdealInv
<1> QED
  BY <1>1, <1>2, <1>3, PTL DEF Local!Spec
=============================================================================
