--------------------------- MODULE DetectionProofs --------------------------
(***************************************************************************)
(* Proofs about what detection relies on: the process tree (ProcessTree),  *)
(* for any ids, names, kernel events and losses, and the configuration the *)
(* agent starts with (Config), for any edits of the file.                  *)
(*                                                                         *)
(* While nothing was lost, the tree knows every task by its name and its   *)
(* key, and the parent it recorded is the real one, nobody, or one whose   *)
(* id was reused since. Chains of recorded parents are then compared with  *)
(* the real ancestors, the smallest set that is closed under parents.      *)
(***************************************************************************)
EXTENDS ProcessTree, Integers, FiniteSetTheorems, WellFoundedInduction, TLAPS

(* Names of tasks, that of init included.                                  *)
NamesInUse == Names \cup {"init"}

(* Tasks of the kernel, entries of the tree, keys of processes and records *)
(* of the LSM hook.                                                        *)
Tasks == [tgid : Ids, parent : 0..MaxId, name : NamesInUse, born : Nat]
Entries == [ppid : 0..MaxId, name : NamesInUse, start : Nat \ {0}]
Keys == [pid : Ids \ {1}, start : Nat \ {0}, born : Nat]
Records == [type : {"exec_blocked"}, pid : Ids \ {1}, ppid : {0}, name : NamesInUse,
            born : Nat, time : Nat \ {0}, start : Nat \ {0}]

(* Types of the kernel's side ...                                          *)
KernelTypeOK ==
    /\ task \in [DOMAIN task -> Tasks] /\ DOMAIN task \subseteq Ids /\ 1 \in DOMAIN task
    /\ now \in Nat \ {0}
    /\ threaded \in BOOLEAN

(* ... and of the agent's.                                                 *)
TreeTypeOK ==
    /\ procs \in [DOMAIN procs -> Entries] /\ DOMAIN procs \subseteq Ids \ {1}
    /\ keys \subseteq Keys
    /\ dropped \in Nat
    /\ blocked # << >> => blocked = <<blocked[1]>> /\ blocked[1] \in Records
    /\ stale \in BOOLEAN

(* The kernel's own order: threads belong to a live leader, whose parent   *)
(* is another live leader, or nobody for init.                             *)
KinInv ==
    /\ task[1].tgid = 1 /\ task[1].parent = 0
    /\ \A a \in DOMAIN task :
        /\ task[a].tgid \in DOMAIN task
        /\ task[task[a].tgid].tgid = task[a].tgid
        /\ a # 1 => task[a].tgid # 1
        /\ task[a].parent # 0 =>
              task[a].parent \in DOMAIN task /\ task[task[a].parent].tgid = task[a].parent
        /\ task[a].parent # task[a].tgid
        /\ task[a].born < now
        /\ ~threaded => task[a].tgid = a

(* What the tree and the keys say of a task.                               *)
TrackedInv ==
    Faithful => \A a \in DOMAIN task \ {1} :
        /\ a \in DOMAIN procs
        /\ procs[a].name = task[a].name
        /\ [pid |-> a, start |-> procs[a].start, born |-> task[a].born] \in keys

(* What the recorded parent of a task stands for.                          *)
Gone(p) == \E k \in keys : k.pid = p /\ (p \in DOMAIN task => k.born # task[p].born)

(* A recorded parent is the real one, unknown, or had its id reused.       *)
UpInv ==
    Faithful /\ ~threaded =>
        /\ DOMAIN procs \subseteq DOMAIN task
        /\ \A a \in DOMAIN procs : procs[a].ppid \in {0, task[a].parent} \/ Gone(procs[a].ppid)

(* Keys are from the past, so that of a new process is new.                *)
KeyInv ==
    Faithful =>
        /\ \A k \in keys : k.start < now /\ k.born < now
        /\ blocked # << >> =>
              blocked[1].start < now /\ \A k \in keys : k.start # blocked[1].start
        /\ KeysAreApart

(* The event enriched last was annotated with the tree as it is.           *)
LastInv ==
    last.type # "none" /\ Faithful =>
        /\ last.parent # "" => last.parent = last.truth
        /\ ~threaded => /\ last.ancestors \in Chains(procs)
                        /\ ancestry(procs, last.pid, last.ppid, last.ancestors)

(* There is an id for init; the depth is a natural number (proctree.go     *)
(* maxDepth).                                                              *)
TreeAssumption == MaxId \in Nat \ {0} /\ maxDepth \in Nat

(* The inductive invariant.                                                *)
TreeInv == KernelTypeOK /\ TreeTypeOK /\ KinInv /\ TrackedInv /\ UpInv /\ KeyInv /\ LastInv

(* Events as the sensors make them.                                        *)
Events == [type : {"fork", "exec", "open", "exit", "exec_blocked"}, pid : Ids \ {1},
           ppid : 0..MaxId, name : NamesInUse, born : Nat, time : Nat \ {0}, start : Nat]

(* A fork gives a task a parent that is there.                             *)
LEMMA ForkKeepsKin ==
    ASSUME TreeAssumption, KernelTypeOK, KinInv, NEW t \in Ids, NEW c \in Ids, Fork(t, c)
    PROVE  KernelTypeOK' /\ KinInv'
<1> DEFINE new == [tgid |-> c, parent |-> task[t].tgid, name |-> task[t].name, born |-> now]
<1>1. t \in DOMAIN task /\ c \notin DOMAIN task /\ c # 1
  BY DEF Fork, Free, KernelTypeOK
<1>2. /\ DOMAIN task' = DOMAIN task \cup {c}
      /\ task'[c] = new
      /\ \A a \in DOMAIN task : task'[a] = task[a]
      /\ task' = [a \in DOMAIN task' |-> task'[a]]
  BY <1>1 DEF Fork, Put
<1>3. now' = now + 1 /\ UNCHANGED threaded /\ now \in Nat \ {0}
  BY DEF Fork, Tick, KernelTypeOK
<1>4. new \in Tasks /\ \A a \in DOMAIN task : task[a] \in Tasks
  BY <1>1, <1>3 DEF KernelTypeOK, Tasks, Ids, TreeAssumption
<1>5. KernelTypeOK'
  BY <1>2, <1>3, <1>4 DEF KernelTypeOK
<1>6. task'[c].tgid = c /\ task'[c].parent = task[t].tgid /\ task'[c].born = now
  BY <1>2
<1>7. KinInv'
  BY <1>1, <1>2, <1>3, <1>4, <1>6 DEF KinInv, Tasks, KernelTypeOK
<1> QED BY <1>5, <1>7

(* So does a thread, with the parent of its group.                         *)
LEMMA ThreadKeepsKin ==
    ASSUME TreeAssumption, KernelTypeOK, KinInv, NEW t \in Ids, NEW c \in Ids, Thread(t, c)
    PROVE  KernelTypeOK' /\ KinInv'
<1> DEFINE new == [tgid |-> task[t].tgid, parent |-> task[t].parent,
                   name |-> task[t].name, born |-> now]
<1>1. t \in DOMAIN task /\ t # 1 /\ c \notin DOMAIN task /\ c # 1
  BY DEF Thread, Free, KernelTypeOK
<1>2. /\ DOMAIN task' = DOMAIN task \cup {c}
      /\ task'[c] = new
      /\ \A a \in DOMAIN task : task'[a] = task[a]
      /\ task' = [a \in DOMAIN task' |-> task'[a]]
  BY <1>1 DEF Thread, Put
<1>3. now' = now + 1 /\ threaded' = TRUE /\ now \in Nat \ {0}
  BY DEF Thread, Tick, KernelTypeOK
<1>4. new \in Tasks /\ \A a \in DOMAIN task : task[a] \in Tasks
  BY <1>1, <1>3 DEF KernelTypeOK, Tasks, Ids, TreeAssumption
<1>5. KernelTypeOK'
  BY <1>2, <1>3, <1>4 DEF KernelTypeOK
<1>6. task'[c].tgid = task[t].tgid /\ task'[c].parent = task[t].parent /\ task'[c].born = now
  BY <1>2
<1>7. KinInv'
  BY <1>1, <1>2, <1>3, <1>4, <1>6 DEF KinInv, Tasks, KernelTypeOK
<1> QED BY <1>5, <1>7

(* exec changes a name.                                                    *)
LEMMA ExecKeepsKin ==
    ASSUME TreeAssumption, KernelTypeOK, KinInv, NEW t \in Ids, NEW name \in Names, Exec(t, name)
    PROVE  /\ KernelTypeOK' /\ KinInv'
           /\ DOMAIN task' = {a \in DOMAIN task : a = t \/ task[a].tgid # t}
           /\ \A a \in DOMAIN task' : /\ task'[a].parent = task[a].parent
                                      /\ task'[a].born = task[a].born
                                      /\ task'[a].name = IF a = t THEN name ELSE task[a].name
<1>1. t \in DOMAIN task /\ t # 1 /\ task[t].tgid = t
  BY ZenonT(60) DEF Exec, Leader
<1>2. /\ DOMAIN task' = {a \in DOMAIN task : a = t \/ task[a].tgid # t}
      /\ task'[t] = [task[t] EXCEPT !.name = name]
      /\ \A a \in DOMAIN task' : a # t => task'[a] = task[a]
      /\ task' = [a \in DOMAIN task' |-> task'[a]]
  BY <1>1 DEF Exec, Put, Without
<1>3. now' = now + 1 /\ UNCHANGED threaded /\ now \in Nat \ {0}
  BY DEF Exec, Tick, KernelTypeOK
<1>4. \A a \in DOMAIN task : task[a] \in Tasks
  BY DEF KernelTypeOK
<1>5. /\ task'[t] \in Tasks
      /\ task'[t].tgid = t /\ task'[t].parent = task[t].parent
      /\ task'[t].name = name /\ task'[t].born = task[t].born
  BY <1>1, <1>2, <1>4 DEF Tasks, NamesInUse
<1>6. KernelTypeOK'
  BY <1>1, <1>2, <1>3, <1>4, <1>5, SMTT(60) DEF KernelTypeOK, KinInv
<1>7. \A a \in DOMAIN task' : /\ task'[a].parent = task[a].parent
                              /\ task'[a].born = task[a].born
                              /\ task'[a].tgid = task[a].tgid
                              /\ task'[a].name = IF a = t THEN name ELSE task[a].name
  BY <1>1, <1>2, <1>5, Zenon
<1>8. KinInv'
  <2>1. 1 \in DOMAIN task' /\ task'[1] = task[1]
    BY <1>1, <1>2, <1>6 DEF KernelTypeOK
  <2>2. ASSUME NEW a \in DOMAIN task'
        PROVE  /\ task[a].tgid \in DOMAIN task'
               /\ task[a].parent # 0 => task[a].parent \in DOMAIN task'
               /\ task[a].born < now'
    BY <1>1, <1>2, <1>3, <1>4 DEF KinInv, Tasks
  <2> QED BY <1>1, <1>2, <1>3, <1>7, <2>1, <2>2 DEF KinInv
<1> QED BY <1>2, <1>6, <1>7, <1>8

(* A thread that ends is nobody's parent.                                  *)
LEMMA ThreadExitKeepsKin ==
    ASSUME TreeAssumption, KernelTypeOK, KinInv, NEW t \in Ids, ThreadExit(t)
    PROVE  KernelTypeOK' /\ KinInv' /\ threaded
<1>1. t \in DOMAIN task /\ t # 1 /\ task[t].tgid # t /\ now \in Nat \ {0}
  BY DEF ThreadExit, KinInv, KernelTypeOK
<1>2. /\ DOMAIN task' = DOMAIN task \ {t}
      /\ \A a \in DOMAIN task' : task'[a] = task[a]
      /\ task' = [a \in DOMAIN task' |-> task'[a]]
      /\ UNCHANGED <<now, threaded>>
  BY <1>1 DEF ThreadExit, Without
<1>3. KernelTypeOK' /\ threaded
  BY <1>1, <1>2 DEF KernelTypeOK, KinInv
<1>4. KinInv'
  BY <1>1, <1>2, <1>3 DEF KinInv, KernelTypeOK
<1> QED BY <1>3, <1>4

(* The children of a process that ends get a live parent.                  *)
LEMMA ExitKeepsKin ==
    ASSUME TreeAssumption, KernelTypeOK, KinInv, NEW t \in Ids, Exit(t)
    PROVE  /\ KernelTypeOK' /\ KinInv'
           /\ DOMAIN task' = DOMAIN task \ {t}
           /\ \A a \in DOMAIN task' :
                /\ task'[a].parent = IF task[a].parent = t THEN 1 ELSE task[a].parent
                /\ task'[a].born = task[a].born
                /\ task'[a].name = task[a].name
<1>1. /\ t \in DOMAIN task /\ t # 1 /\ task[t].tgid = t
      /\ \A c \in DOMAIN task \ {t} : task[c].tgid # t
      /\ t # 0
  BY DEF Exit, Leader, Ids, TreeAssumption
<1>2. /\ DOMAIN task' = DOMAIN task \ {t}
      /\ \A a \in DOMAIN task' :
            task'[a] = IF task[a].parent = t THEN [task[a] EXCEPT !.parent = 1] ELSE task[a]
      /\ task' = [a \in DOMAIN task' |-> task'[a]]
  BY DEF Exit
<1>3. now' = now + 1 /\ UNCHANGED threaded /\ now \in Nat \ {0}
  BY DEF Exit, Tick, KernelTypeOK
<1>4. \A a \in DOMAIN task : task[a] \in Tasks
  BY DEF KernelTypeOK
<1>5. \A a \in DOMAIN task' : /\ task'[a] \in Tasks
                              /\ task'[a].tgid = task[a].tgid
                              /\ task'[a].parent = IF task[a].parent = t THEN 1 ELSE task[a].parent
                              /\ task'[a].born = task[a].born
                              /\ task'[a].name = task[a].name
  BY <1>2, <1>4 DEF Tasks, TreeAssumption
<1>6. KernelTypeOK'
  BY <1>1, <1>2, <1>3, <1>5 DEF KernelTypeOK
<1>7. KinInv'
  <2>1. 1 \in DOMAIN task' /\ task'[1].tgid = 1 /\ task'[1].parent = 0
    BY <1>1, <1>2, <1>5, <1>6 DEF KinInv, KernelTypeOK
  <2>2. ASSUME NEW a \in DOMAIN task'
        PROVE  /\ task'[a].tgid \in DOMAIN task'
               /\ task'[task'[a].tgid].tgid = task'[a].tgid
               /\ a # 1 => task'[a].tgid # 1
               /\ task'[a].parent # task'[a].tgid
               /\ task'[a].born < now'
               /\ ~threaded => task'[a].tgid = a
    BY <1>1, <1>2, <1>3, <1>4, <1>5 DEF KinInv, Tasks
  <2>3. ASSUME NEW a \in DOMAIN task', task'[a].parent # 0
        PROVE  /\ task'[a].parent \in DOMAIN task'
               /\ task'[task'[a].parent].tgid = task'[a].parent
    BY <1>1, <1>2, <1>5, <2>1, <2>3 DEF KinInv
  <2> QED BY <1>3, <2>1, <2>2, <2>3 DEF KinInv
<1> QED BY <1>2, <1>5, <1>6, <1>7
-----------------------------------------------------------------------------
(* The entry and the key an event leaves.                                  *)
Entry(e) == [ppid |-> e.ppid, name |-> e.name, start |-> startOf(e)]
KeyOf(e, start) == [pid |-> e.pid, start |-> start, born |-> e.born]

(* The key of an event: its own start time or the one on record.           *)
LEMMA EnrichStamps ==
    ASSUME NEW e, Enrich(e)
    PROVE  last'.start = Stamped(e, procs')
<1>1. procs' = Updated(e)
  BY Zenon DEF Enrich
<1>2. PICK chain : last' = [type |-> e.type, pid |-> e.pid, ppid |-> e.ppid, born |-> e.born,
                    parent |-> IF e.ppid \in DOMAIN procs' THEN procs'[e.ppid].name ELSE "",
                    truth |-> IF e.ppid \in DOMAIN task THEN task[e.ppid].name ELSE "",
                    start |-> Stamped(e, procs'),
                    ancestors |-> chain]
  BY <1>1, Zenon DEF Enrich
<1> QED BY <1>2, Zenon

(* A fork, an exec or a denied exec is recorded under its pid.             *)
LEMMA EnrichPuts ==
    ASSUME TreeAssumption, TreeTypeOK, NEW e \in Events, Enrich(e),
           e.type \in {"fork", "exec", "exec_blocked"}
    PROVE  /\ DOMAIN procs' = DOMAIN procs \cup {e.pid}
           /\ procs'[e.pid] = Entry(e)
           /\ \A a \in DOMAIN procs : a # e.pid => procs'[a] = procs[a]
           /\ procs' \in [DOMAIN procs' -> Entries] /\ DOMAIN procs' \subseteq Ids \ {1}
           /\ keys' = keys \cup {KeyOf(e, startOf(e))}
           /\ keys' \subseteq Keys
<1>1. procs' = Put(procs, e.pid, Entry(e))
  BY Zenon DEF Enrich, Updated, Entry
<1>2. /\ DOMAIN procs' = DOMAIN procs \cup {e.pid}
      /\ procs'[e.pid] = Entry(e)
      /\ \A a \in DOMAIN procs : a # e.pid => procs'[a] = procs[a]
      /\ procs' = [a \in DOMAIN procs' |-> procs'[a]]
  BY <1>1 DEF Put
<1>3. startOf(e) \in Nat \ {0} /\ Entry(e) \in Entries /\ KeyOf(e, startOf(e)) \in Keys
  BY DEF startOf, Events, Entry, Entries, Keys, KeyOf
<1>4. procs' \in [DOMAIN procs' -> Entries] /\ DOMAIN procs' \subseteq Ids \ {1}
  BY <1>2, <1>3 DEF TreeTypeOK, Events
<1>5. last'.start = startOf(e)
  <2>1. last'.start = Stamped(e, procs')
    BY EnrichStamps
  <2> QED BY <1>2, <2>1 DEF Stamped, Entry, startOf
<1>6. keys' = keys \cup {KeyOf(e, startOf(e))}
  BY <1>3, <1>5, Zenon DEF Enrich, KeyOf
<1> QED BY <1>2, <1>3, <1>4, <1>6 DEF TreeTypeOK

(* Other events leave the tree alone.                                      *)
LEMMA EnrichLooks ==
    ASSUME TreeAssumption, TreeTypeOK, NEW e \in Events, Enrich(e), e.type = "open", e.start = 0
    PROVE  /\ procs' = procs
           /\ e.pid \in DOMAIN procs => keys' = keys \cup {KeyOf(e, procs[e.pid].start)}
           /\ e.pid \notin DOMAIN procs => keys' = keys
           /\ keys' \subseteq Keys
<1>1. procs' = procs
  BY Zenon DEF Enrich, Updated
<1>2. last'.start = Stamped(e, procs)
  BY <1>1, EnrichStamps
<1>3. CASE e.pid \notin DOMAIN procs
  <2>1. last'.start = 0
    BY <1>2, <1>3 DEF Stamped
  <2> QED BY <1>1, <1>3, <2>1, Zenon DEF Enrich, TreeTypeOK
<1>4. CASE e.pid \in DOMAIN procs
  <2>1. last'.start = procs[e.pid].start /\ procs[e.pid].start \in Nat \ {0}
    BY <1>2, <1>4 DEF Stamped, TreeTypeOK, Entries
  <2>2. keys' = keys \cup {KeyOf(e, procs[e.pid].start)}
    BY <2>1, Zenon DEF Enrich, KeyOf
  <2>3. KeyOf(e, procs[e.pid].start) \in Keys
    BY <2>1 DEF KeyOf, Keys, Events
  <2> QED BY <1>1, <1>4, <2>2, <2>3 DEF TreeTypeOK
<1> QED BY <1>3, <1>4

(* An exit removes its pid.                                                *)
LEMMA EnrichForgets ==
    ASSUME TreeAssumption, TreeTypeOK, NEW e \in Events, Enrich(e), e.type = "exit", e.start = 0
    PROVE  /\ DOMAIN procs' = DOMAIN procs \ {e.pid}
           /\ \A a \in DOMAIN procs' : procs'[a] = procs[a]
           /\ procs' \in [DOMAIN procs' -> Entries] /\ DOMAIN procs' \subseteq Ids \ {1}
           /\ keys' = keys
<1>1. procs' = Without(procs, {e.pid})
  BY Zenon DEF Enrich, Updated
<1>2. /\ DOMAIN procs' = DOMAIN procs \ {e.pid}
      /\ \A a \in DOMAIN procs' : procs'[a] = procs[a]
      /\ procs' = [a \in DOMAIN procs' |-> procs'[a]]
  BY <1>1 DEF Without
<1>3. procs' \in [DOMAIN procs' -> Entries] /\ DOMAIN procs' \subseteq Ids \ {1}
  BY <1>2 DEF TreeTypeOK
<1>4. last'.start = 0
  <2>1. last'.start = Stamped(e, procs')
    BY EnrichStamps
  <2> QED BY <1>2, <2>1 DEF Stamped
<1> QED BY <1>2, <1>3, <1>4, Zenon DEF Enrich

(* What Enrich annotates comes from the entry of the parent.               *)
LEMMA EnrichTells ==
    ASSUME NEW e, Enrich(e),
           Faithful' /\ e.ppid \in DOMAIN procs' =>
               e.ppid \in DOMAIN task /\ procs'[e.ppid].name = task[e.ppid].name
    PROVE  LastInv'
<1>1. procs' = Updated(e)
  BY Zenon DEF Enrich
<1>2. PICK chain \in Chains(procs') :
        /\ ancestry(procs', e.pid, e.ppid, chain)
        /\ last' = [type |-> e.type, pid |-> e.pid, ppid |-> e.ppid, born |-> e.born,
                    parent |-> IF e.ppid \in DOMAIN procs' THEN procs'[e.ppid].name ELSE "",
                    truth |-> IF e.ppid \in DOMAIN task THEN task[e.ppid].name ELSE "",
                    start |-> Stamped(e, procs'),
                    ancestors |-> chain]
  BY <1>1, Zenon DEF Enrich
<1>3. /\ last'.pid = e.pid /\ last'.ppid = e.ppid /\ last'.ancestors = chain
      /\ last'.parent = IF e.ppid \in DOMAIN procs' THEN procs'[e.ppid].name ELSE ""
      /\ last'.truth = IF e.ppid \in DOMAIN task THEN task[e.ppid].name ELSE ""
  BY <1>2, Zenon
<1>4. Faithful' /\ last'.parent # "" => last'.parent = last'.truth
  BY <1>3, Zenon
<1>5. /\ (last.ancestors \in Chains(procs))'
      /\ ancestry(procs, last.pid, last.ppid, last.ancestors)'
  BY <1>2, <1>3, Zenon
<1> QED BY <1>4, <1>5, Zenon DEF LastInv
-----------------------------------------------------------------------------
(* The part of the invariant that an event can disturb.                    *)
TreeStepInv == TreeTypeOK /\ TrackedInv /\ UpInv /\ KeyInv /\ LastInv

(* A lost event is counted, after which nothing is claimed.                *)
LEMMA LostEvent ==
    ASSUME TreeInv, UNCHANGED <<treeVars, blocked, stale>>, dropped' = dropped + 1
    PROVE  TreeStepInv'
<1>1. UNCHANGED <<procs, last, keys, blocked, stale>> /\ dropped \in Nat
  BY DEF treeVars, TreeInv, TreeTypeOK
<1>2. ~Faithful'
  BY <1>1 DEF Faithful
<1>3. TreeTypeOK'
  BY <1>1 DEF TreeInv, TreeTypeOK
<1> QED BY <1>2, <1>3, Zenon DEF TreeStepInv, TrackedInv, UpInv, KeyInv, LastInv

(* The event of a fork.                                                    *)
Fresh(t, c) == [type |-> "fork", pid |-> c, ppid |-> t, name |-> task[t].name,
                born |-> now, time |-> now, start |-> 0]

(* A new process gets a key no other process had.                          *)
LEMMA Birth ==
    ASSUME TreeAssumption, TreeInv, NEW t \in DOMAIN task, NEW c \in Ids, c \notin DOMAIN task,
           Enrich(Fresh(t, c)), UNCHANGED <<dropped, blocked, stale>>, now' = now + 1,
           DOMAIN task' = DOMAIN task \cup {c},
           \A a \in DOMAIN task : task'[a] = task[a],
           task'[c].name = task[t].name, task'[c].born = now,
           ~threaded' => ~threaded /\ task'[c].parent = t
    PROVE  TreeStepInv'
<1> DEFINE e == Fresh(t, c)
<1>1. /\ now \in Nat \ {0} /\ c # 1 /\ c # t /\ t \in Ids /\ task[t].name \in NamesInUse
      /\ t \in 0..MaxId
  BY DEF TreeInv, KernelTypeOK, Tasks, Ids, TreeAssumption
<1>2. /\ e \in Events /\ e.type = "fork" /\ e.pid = c /\ e.ppid = t /\ e.born = now
      /\ e.name = task[t].name /\ startOf(e) = now
  BY <1>1 DEF Fresh, Events, startOf
<1>3. /\ DOMAIN procs' = DOMAIN procs \cup {c}
      /\ procs'[c] = Entry(e)
      /\ \A a \in DOMAIN procs : a # c => procs'[a] = procs[a]
      /\ procs' \in [DOMAIN procs' -> Entries] /\ DOMAIN procs' \subseteq Ids \ {1}
      /\ keys' = keys \cup {KeyOf(e, now)}
      /\ keys' \subseteq Keys
  BY <1>2, EnrichPuts DEF TreeInv
<1>4. /\ procs'[c].name = task[t].name /\ procs'[c].start = now /\ procs'[c].ppid = t
      /\ KeyOf(e, now) = [pid |-> c, start |-> now, born |-> now]
  BY <1>2, <1>3 DEF Entry, KeyOf
<1>5. TreeTypeOK'
  BY <1>3 DEF TreeInv, TreeTypeOK
<1>6. Faithful' <=> Faithful
  BY DEF Faithful
<1>7. TrackedInv'
  <2>1. [pid |-> c, start |-> procs'[c].start, born |-> task'[c].born] \in keys'
    BY <1>3, <1>4
  <2>2. ASSUME Faithful, NEW a \in DOMAIN task \ {1}
        PROVE  /\ a \in DOMAIN procs' /\ procs'[a].name = task'[a].name
               /\ [pid |-> a, start |-> procs'[a].start, born |-> task'[a].born] \in keys'
    <3>1. a \in DOMAIN procs /\ procs[a].name = task[a].name
          /\ [pid |-> a, start |-> procs[a].start, born |-> task[a].born] \in keys
      BY <2>2 DEF TreeInv, TrackedInv
    <3>2. procs'[a] = procs[a] /\ task'[a] = task[a]
      BY <1>3, <3>1
    <3> QED BY <1>3, <3>1, <3>2
  <2> QED BY <1>3, <1>4, <1>6, <2>1, <2>2 DEF TrackedInv
<1>8. UpInv'
  <2> SUFFICES ASSUME Faithful, ~threaded'
               PROVE  /\ DOMAIN procs' \subseteq DOMAIN task'
                      /\ \A a \in DOMAIN procs' :
                            procs'[a].ppid \in {0, task'[a].parent} \/ Gone(procs[a].ppid)'
    BY <1>6 DEF UpInv
  <2>1. /\ DOMAIN procs \subseteq DOMAIN task
        /\ \A a \in DOMAIN procs : procs[a].ppid \in {0, task[a].parent} \/ Gone(procs[a].ppid)
        /\ \A k \in keys : k.born < now
    BY DEF TreeInv, UpInv, KeyInv
  <2>2. ASSUME NEW p, Gone(p)
        PROVE  Gone(p)'
    BY <1>1, <1>3, <2>1, <2>2 DEF Gone, Keys, TreeInv, TreeTypeOK
  <2> QED BY <1>3, <1>4, <2>1, <2>2
<1>9. KeyInv'
  BY <1>1, <1>3, <1>4, <1>6 DEF TreeInv, KeyInv, KeysAreApart, Keys, TreeTypeOK, Records
<1>10. LastInv'
  <2>1. Faithful' /\ t \in DOMAIN procs' => procs'[t].name = task[t].name
    BY <1>1, <1>3, <1>6, Zenon DEF TreeInv, TrackedInv
  <2> QED BY <1>2, <2>1, EnrichTells
<1> QED BY <1>5, <1>7, <1>8, <1>9, <1>10 DEF TreeStepInv
(* A fork or a new thread, with the event delivered or lost.               *)
LEMMA ForkStep ==
    ASSUME TreeAssumption, TreeInv, NEW t \in Ids, NEW c \in Ids, Fork(t, c) \/ Thread(t, c)
    PROVE  TreeInv'
<1>1. KernelTypeOK' /\ KinInv'
  BY ForkKeepsKin, ThreadKeepsKin DEF TreeInv
<1>2. /\ t \in DOMAIN task /\ c \notin DOMAIN task
      /\ UNCHANGED <<blocked, stale>> /\ now' = now + 1
      /\ emit(Fresh(t, c))
  BY DEF Fork, Thread, Free, Tick, handle_fork, Fresh
<1>3. /\ DOMAIN task' = DOMAIN task \cup {c}
      /\ \A a \in DOMAIN task : task'[a] = task[a]
      /\ task'[c].name = task[t].name /\ task'[c].born = now
  BY <1>2 DEF Fork, Thread, Put
<1>4. ~threaded' => ~threaded /\ task'[c].parent = t
  <2>1. CASE Thread(t, c)
    BY <2>1 DEF Thread
  <2>2. CASE Fork(t, c)
    BY <1>2, <2>2 DEF Fork, Put, TreeInv, KinInv
  <2> QED BY <2>1, <2>2
<1>5. CASE Enrich(Fresh(t, c)) /\ UNCHANGED dropped
  BY <1>1, <1>2, <1>3, <1>4, <1>5, Birth DEF TreeStepInv, TreeInv
<1>6. CASE dropped' = dropped + 1 /\ UNCHANGED treeVars
  BY <1>1, <1>2, <1>6, LostEvent DEF TreeStepInv, TreeInv
<1> QED BY <1>2, <1>5, <1>6 DEF emit

(* A key stamped now is new.                                               *)
LEMMA KeysAdvance ==
    ASSUME TreeTypeOK, KeyInv, now \in Nat, now' = now + 1, blocked' = blocked,
           Faithful' => Faithful, NEW new, new.start = now, new.born \in Nat, new.born < now,
           Faithful => keys' \subseteq keys \cup {new}
    PROVE  KeyInv'
<1> SUFFICES ASSUME Faithful'
             PROVE  /\ \A k \in keys' : k.start < now' /\ k.born < now'
                    /\ blocked' # << >> =>
                          /\ blocked'[1].start < now'
                          /\ \A k \in keys' : k.start # blocked'[1].start
                    /\ KeysAreApart'
  BY Zenon DEF KeyInv
<1>1. /\ \A k \in keys : k.start < now /\ k.born < now
      /\ blocked # << >> => blocked[1].start < now /\ \A k \in keys : k.start # blocked[1].start
      /\ \A k, l \in keys : k.pid = l.pid /\ k.start = l.start => k.born = l.born
  BY Zenon DEF KeyInv, KeysAreApart
<1>2. \A k \in keys : k.start \in Nat /\ k.born \in Nat
  BY DEF TreeTypeOK, Keys
<1>3. blocked # << >> => blocked[1].start \in Nat
  BY DEF TreeTypeOK, Records
<1>4. \A k \in keys' : k \in keys \/ k = new
  BY Zenon
<1>5. \A k \in keys' : k.start < now' /\ k.born < now'
  BY <1>1, <1>2, <1>4
<1>6. \A k \in keys : k.start # new.start
  BY <1>1, <1>2
<1>7. blocked # << >> => blocked[1].start < now' /\ blocked[1].start # new.start
  BY <1>1, <1>3
<1>8. KeysAreApart'
  BY <1>1, <1>4, <1>6, Zenon DEF KeysAreApart
<1> QED BY <1>1, <1>4, <1>5, <1>7, <1>8, Zenon

(* No new key.                                                             *)
LEMMA KeysStay ==
    ASSUME TreeTypeOK, KeyInv, now \in Nat \ {0}, now' = now + 1, blocked' = blocked,
           Faithful' => Faithful, Faithful => keys' = keys
    PROVE  KeyInv'
<1>1. PICK new : new = [start |-> now, born |-> 0]
  BY Zenon
<1>2. new.start = now /\ new.born \in Nat /\ new.born < now /\ now \in Nat
  BY <1>1
<1> QED BY <1>2, KeysAdvance, Zenon

(* exec.                                                                   *)
LEMMA ExecStep ==
    ASSUME TreeAssumption, TreeInv, NEW t \in Ids, NEW name \in Names, Exec(t, name)
    PROVE  TreeInv'
<1> DEFINE e == Event("exec", t, name)
<1>1. /\ KernelTypeOK' /\ KinInv'
      /\ DOMAIN task' = {a \in DOMAIN task : a = t \/ task[a].tgid # t}
      /\ \A a \in DOMAIN task' : /\ task'[a].parent = task[a].parent
                                 /\ task'[a].born = task[a].born
                                 /\ task'[a].name = IF a = t THEN name ELSE task[a].name
  BY ExecKeepsKin, Zenon DEF TreeInv
<1>2. /\ t \in DOMAIN task /\ t # 1 /\ task[t].tgid = t
      /\ UNCHANGED <<threaded, blocked, stale>> /\ now' = now + 1
      /\ emit(e)
  BY DEF Exec, Leader, Tick, handle_exec
<1>3. CASE dropped' = dropped + 1 /\ UNCHANGED treeVars
  BY <1>1, <1>2, <1>3, LostEvent DEF TreeStepInv, TreeInv
<1>4. CASE Enrich(e) /\ UNCHANGED dropped
  <2>1. /\ now \in Nat \ {0} /\ task[t] \in Tasks
        /\ task[t].parent # t /\ (task[t].parent # 0 => task[t].parent \in DOMAIN task)
    BY <1>2 DEF TreeInv, KernelTypeOK, KinInv
  <2>2. /\ e \in Events /\ e.type = "exec" /\ e.pid = t /\ e.ppid = task[t].parent
        /\ e.born = task[t].born /\ e.name = name /\ startOf(e) = now
    BY <1>2, <2>1 DEF Event, Events, startOf, applyTypeSpecific, Tasks, NamesInUse
  <2>3. /\ DOMAIN procs' = DOMAIN procs \cup {t}
        /\ procs'[t] = Entry(e)
        /\ \A a \in DOMAIN procs : a # t => procs'[a] = procs[a]
        /\ procs' \in [DOMAIN procs' -> Entries] /\ DOMAIN procs' \subseteq Ids \ {1}
        /\ keys' = keys \cup {KeyOf(e, now)}
        /\ keys' \subseteq Keys
    BY <1>4, <2>2, EnrichPuts DEF TreeInv
  <2>4. /\ procs'[t].name = name /\ procs'[t].start = now /\ procs'[t].ppid = task[t].parent
        /\ KeyOf(e, now) = [pid |-> t, start |-> now, born |-> task[t].born]
    BY <2>2, <2>3 DEF Entry, KeyOf
  <2>5. TreeTypeOK'
    BY <1>2, <1>4, <2>3 DEF TreeInv, TreeTypeOK
  <2>6. Faithful' <=> Faithful
    BY <1>2, <1>4 DEF Faithful
  <2>7. TrackedInv'
    <3>1. [pid |-> t, start |-> procs'[t].start, born |-> task[t].born] \in keys'
      BY <2>3, <2>4
    <3>2. ASSUME Faithful, NEW a \in DOMAIN task' \ {1}, a # t
          PROVE  /\ a \in DOMAIN procs' /\ procs'[a].name = task'[a].name
                 /\ [pid |-> a, start |-> procs'[a].start, born |-> task'[a].born] \in keys'
      <4>1. a \in DOMAIN procs /\ procs[a].name = task[a].name
            /\ [pid |-> a, start |-> procs[a].start, born |-> task[a].born] \in keys
        BY <1>1, <3>2 DEF TreeInv, TrackedInv
      <4>2. procs'[a] = procs[a] /\ task'[a].name = task[a].name /\ task'[a].born = task[a].born
        BY <1>1, <2>3, <3>2, <4>1
      <4> QED BY <2>3, <4>1, <4>2
    <3>3. t \in DOMAIN task' /\ t \in DOMAIN procs' /\ task'[t].name = name
          /\ task'[t].born = task[t].born
      BY <1>1, <1>2, <2>3
    <3> QED BY <2>4, <2>6, <3>1, <3>2, <3>3, Zenon DEF TrackedInv
  <2>8. UpInv'
    <3> SUFFICES ASSUME Faithful, ~threaded
                 PROVE  /\ DOMAIN procs' \subseteq DOMAIN task'
                        /\ \A a \in DOMAIN procs' :
                              procs'[a].ppid \in {0, task'[a].parent} \/ Gone(procs[a].ppid)'
      BY <1>2, <2>6 DEF UpInv
    <3>1. /\ DOMAIN procs \subseteq DOMAIN task
          /\ \A a \in DOMAIN procs : procs[a].ppid \in {0, task[a].parent} \/ Gone(procs[a].ppid)
      BY DEF TreeInv, UpInv
    <3>2. DOMAIN task' = DOMAIN task
      BY <1>1, <1>2, ZenonT(60) DEF TreeInv, KinInv
    <3>3. ASSUME NEW p, Gone(p)
          PROVE  Gone(p)'
      BY <1>1, <2>3, <3>2, <3>3 DEF Gone
    <3> QED BY <1>1, <1>2, <2>3, <2>4, <3>1, <3>2, <3>3, ZenonT(60)
  <2>9. KeyInv'
    <3>1. PICK new : new = KeyOf(e, now)
      BY Zenon
    <3>2. new.start = now /\ new.born = task[t].born /\ now \in Nat
      BY <2>1, <2>4, <3>1
    <3>3. task[t].born \in Nat /\ task[t].born < now
      BY <1>2, <2>1 DEF TreeInv, KinInv, Tasks
    <3> QED BY <1>2, <2>3, <2>6, <3>1, <3>2, <3>3, KeysAdvance, Zenon DEF TreeInv
  <2>10. LastInv'
    <3>1. Faithful' /\ e.ppid \in DOMAIN procs' =>
             e.ppid \in DOMAIN task /\ procs'[e.ppid].name = task[e.ppid].name
      <4>1. 0 \notin DOMAIN procs' /\ 1 \notin DOMAIN procs'
        BY <2>3 DEF Ids, TreeAssumption
      <4> QED BY <2>1, <2>2, <2>3, <2>6, <4>1, ZenonT(60) DEF TreeInv, TrackedInv
    <3> QED BY <1>4, <3>1, EnrichTells
  <2> QED BY <1>1, <2>5, <2>7, <2>8, <2>9, <2>10 DEF TreeInv
<1> QED BY <1>2, <1>3, <1>4 DEF emit
(* The exit of a process.                                                  *)
LEMMA ExitStep ==
    ASSUME TreeAssumption, TreeInv, NEW t \in Ids, Exit(t)
    PROVE  TreeInv'
<1> DEFINE e == Event("exit", t, task[t].name)
<1>1. /\ KernelTypeOK' /\ KinInv'
      /\ DOMAIN task' = DOMAIN task \ {t}
      /\ \A a \in DOMAIN task' :
            /\ task'[a].parent = IF task[a].parent = t THEN 1 ELSE task[a].parent
            /\ task'[a].born = task[a].born
            /\ task'[a].name = task[a].name
  BY ExitKeepsKin DEF TreeInv
<1>2. /\ t \in DOMAIN task /\ t # 1 /\ task[t].tgid = t
      /\ UNCHANGED <<threaded, blocked, stale>> /\ now' = now + 1
      /\ emit(e)
  BY DEF Exit, Leader, Tick
<1>3. CASE dropped' = dropped + 1 /\ UNCHANGED treeVars
  BY <1>1, <1>2, <1>3, LostEvent, Zenon DEF TreeStepInv, TreeInv
<1>4. CASE Enrich(e) /\ UNCHANGED dropped
  <2>1. /\ now \in Nat \ {0} /\ task[t] \in Tasks
        /\ task[t].parent # t /\ (task[t].parent # 0 => task[t].parent \in DOMAIN task)
    BY <1>2, ZenonT(60) DEF TreeInv, KernelTypeOK, KinInv
  <2>2. /\ e \in Events /\ e.type = "exit" /\ e.pid = t /\ e.ppid = task[t].parent
        /\ e.start = 0
    BY <1>2, <2>1 DEF Event, Events, applyTypeSpecific, Tasks
  <2>3. /\ DOMAIN procs' = DOMAIN procs \ {t}
        /\ \A a \in DOMAIN procs' : procs'[a] = procs[a]
        /\ procs' \in [DOMAIN procs' -> Entries] /\ DOMAIN procs' \subseteq Ids \ {1}
        /\ keys' = keys
    BY <1>4, <2>2, EnrichForgets DEF TreeInv
  <2>4. TreeTypeOK'
    BY <1>2, <1>4, <2>3, Zenon DEF TreeInv, TreeTypeOK
  <2>5. Faithful' <=> Faithful
    BY <1>2, <1>4 DEF Faithful
  <2>6. TrackedInv'
    BY <1>1, <2>3, <2>5, Zenon DEF TreeInv, TrackedInv
  <2>7. UpInv'
    <3> SUFFICES ASSUME Faithful, ~threaded
                 PROVE  /\ DOMAIN procs' \subseteq DOMAIN task'
                        /\ \A a \in DOMAIN procs' :
                              procs'[a].ppid \in {0, task'[a].parent} \/ Gone(procs[a].ppid)'
      BY <1>2, <2>5 DEF UpInv
    <3>1. /\ DOMAIN procs \subseteq DOMAIN task
          /\ \A a \in DOMAIN procs : procs[a].ppid \in {0, task[a].parent} \/ Gone(procs[a].ppid)
      BY DEF TreeInv, UpInv
    <3>2. ASSUME NEW p, Gone(p)
          PROVE  Gone(p)'
      BY <1>1, <2>3, <3>2 DEF Gone
    <3>3. Gone(t)'
      <4>1. [pid |-> t, start |-> procs[t].start, born |-> task[t].born] \in keys
        BY <1>2 DEF TreeInv, TrackedInv
      <4> QED BY <1>1, <2>3, <4>1, Zenon DEF Gone
    <3> QED BY <1>1, <2>3, <3>1, <3>2, <3>3, ZenonT(60)
  <2>8. KeyInv'
    BY <1>2, <2>1, <2>3, <2>5, KeysStay, ZenonT(60) DEF TreeInv
  <2>9. LastInv'
    <3>1. Faithful' /\ e.ppid \in DOMAIN procs' =>
             e.ppid \in DOMAIN task /\ procs'[e.ppid].name = task[e.ppid].name
      <4>1. 0 \notin DOMAIN procs' /\ 1 \notin DOMAIN procs'
        BY <2>3 DEF Ids, TreeAssumption
      <4> QED BY <2>1, <2>2, <2>3, <2>5, <4>1, Zenon DEF TreeInv, TrackedInv
    <3> QED BY <1>4, <3>1, EnrichTells
  <2> QED BY <1>1, <2>4, <2>6, <2>7, <2>8, <2>9, Zenon DEF TreeInv
<1> QED BY <1>2, <1>3, <1>4 DEF emit

(* Any other event.                                                        *)
LEMMA ActStep ==
    ASSUME TreeAssumption, TreeInv, NEW t \in Ids, Act(t)
    PROVE  TreeInv'
<1> DEFINE e == Event("open", t, task[t].name)
           l == task[t].tgid
<1>1. /\ t \in DOMAIN task /\ t # 1 /\ now' = now + 1
      /\ UNCHANGED <<task, threaded, blocked, stale>>
      /\ emit(e)
  BY DEF Act, Tick
<1>2. /\ now \in Nat \ {0} /\ task[t] \in Tasks /\ \A a \in DOMAIN task : task[a] \in Tasks
      /\ l \in DOMAIN task /\ l # 1
      /\ task[t].parent # l /\ (task[t].parent # 0 => task[t].parent \in DOMAIN task)
  BY <1>1 DEF TreeInv, KernelTypeOK, KinInv
<1>3. KernelTypeOK' /\ KinInv'
  BY <1>1, <1>2 DEF TreeInv, KernelTypeOK, KinInv, Tasks
<1>4. CASE dropped' = dropped + 1 /\ UNCHANGED treeVars
  BY <1>1, <1>3, <1>4, LostEvent DEF TreeStepInv, TreeInv
<1>5. CASE Enrich(e) /\ UNCHANGED dropped
  <2>1. /\ e \in Events /\ e.type = "open" /\ e.pid = l /\ e.ppid = task[t].parent
        /\ e.start = 0 /\ e.born = task[l].born
    BY <1>1, <1>2, ZenonT(60) DEF Event, Events, applyTypeSpecific, Tasks
  <2>2. /\ procs' = procs
        /\ l \in DOMAIN procs => keys' = keys \cup {KeyOf(e, procs[l].start)}
        /\ l \notin DOMAIN procs => keys' = keys
        /\ keys' \subseteq Keys
    BY <1>5, <2>1, EnrichLooks DEF TreeInv
  <2>3. TreeTypeOK'
    BY <1>1, <1>5, <2>2 DEF TreeInv, TreeTypeOK
  <2>4. Faithful' <=> Faithful
    BY <1>1, <1>5, Zenon DEF Faithful
  <2>5. Faithful => keys' = keys
    <3>1. KeyOf(e, procs[l].start) = [pid |-> l, start |-> procs[l].start, born |-> task[l].born]
      BY <2>1 DEF KeyOf
    <3> QED BY <1>2, <2>2, <3>1, ZenonT(60) DEF TreeInv, TrackedInv
  <2>6. TrackedInv'
    BY <1>1, <2>2, <2>4, <2>5, Zenon DEF TreeInv, TrackedInv
  <2>7. UpInv'
    BY <1>1, <2>2, <2>4, <2>5, Zenon DEF TreeInv, UpInv, Gone
  <2>8. KeyInv'
    BY <1>1, <2>4, <2>5, KeysStay, ZenonT(60) DEF TreeInv, KernelTypeOK
  <2>9. LastInv'
    <3>1. Faithful' /\ e.ppid \in DOMAIN procs' =>
             e.ppid \in DOMAIN task /\ procs'[e.ppid].name = task[e.ppid].name
      <4>1. 0 \notin DOMAIN procs /\ 1 \notin DOMAIN procs
        BY DEF Ids, TreeAssumption, TreeInv, TreeTypeOK
      <4> QED BY <1>2, <2>1, <2>2, <2>4, <4>1, Zenon DEF TreeInv, TrackedInv
    <3> QED BY <1>5, <3>1, EnrichTells, SMTT(60)
  <2> QED BY <1>3, <2>3, <2>6, <2>7, <2>8, <2>9, Zenon DEF TreeInv
<1> QED BY <1>1, <1>4, <1>5 DEF emit
(* A denied exec goes through the other buffer.                            *)
LEMMA ExecBlockedStep ==
    ASSUME TreeAssumption, TreeInv, NEW t \in Ids, ExecBlocked(t)
    PROVE  TreeInv'
<1> DEFINE e == [Event("exec_blocked", t, task[t].name) EXCEPT !.ppid = 0]
<1>1. /\ t \in DOMAIN task /\ t # 1 /\ task[t].tgid = t /\ now' = now + 1
      /\ UNCHANGED <<task, procs, last, keys, threaded, dropped, stale>>
      /\ blocked' = <<e>>
  BY DEF ExecBlocked, Leader, Tick, treeVars
<1>2. now \in Nat \ {0} /\ task[t] \in Tasks
  BY <1>1 DEF TreeInv, KernelTypeOK
<1>3. e \in Records /\ e.start = now /\ blocked' = <<blocked'[1]>> /\ blocked'[1] = e
  BY <1>1, <1>2 DEF Event, Records, applyTypeSpecific, Tasks
<1>4. KernelTypeOK' /\ KinInv'
  BY <1>1, <1>2 DEF TreeInv, KernelTypeOK, KinInv, Tasks
<1>5. TreeTypeOK'
  BY <1>1, <1>3 DEF TreeInv, TreeTypeOK
<1>6. TrackedInv' /\ UpInv'
  BY <1>1 DEF TreeInv, TrackedInv, UpInv, Gone, Faithful
<1>7. KeyInv'
  <2>1. /\ blocked'[1].start = now /\ now' = now + 1 /\ keys' = keys
        /\ Faithful' = Faithful /\ \A k \in keys : k.start \in Nat /\ k.born \in Nat
    BY <1>1, <1>3, Zenon DEF Faithful, TreeInv, TreeTypeOK, Keys
  <2>2. KeysAreApart' <=> KeysAreApart
    BY <1>1 DEF KeysAreApart, Faithful
  <2>3. Faithful => \A k \in keys : k.start < now /\ k.born < now
    BY DEF TreeInv, KeyInv
  <2> HIDE DEF e
  <2> QED BY <1>2, <2>1, <2>2, <2>3 DEF TreeInv, KeyInv
<1>8. LastInv'
  BY <1>1, Zenon DEF TreeInv, LastInv, Faithful
<1> QED BY <1>4, <1>5, <1>6, <1>7, <1>8 DEF TreeInv

(* The exit of a thread, which the tree does not hear of.                  *)
LEMMA ThreadExitStep ==
    ASSUME TreeAssumption, TreeInv, NEW t \in Ids, ThreadExit(t)
    PROVE  TreeInv'
<1>1. KernelTypeOK' /\ KinInv' /\ threaded
  BY ThreadExitKeepsKin DEF TreeInv
<1>2. /\ DOMAIN task' = DOMAIN task \ {t}
      /\ \A a \in DOMAIN task' : task'[a] = task[a]
      /\ UNCHANGED <<procs, last, keys, now, threaded, dropped, blocked, stale>>
  BY Zenon DEF ThreadExit, Without, treeVars
<1>3. TreeTypeOK' /\ TrackedInv' /\ KeyInv'
  BY <1>2 DEF TreeInv, TreeTypeOK, TrackedInv, KeyInv, KeysAreApart, Faithful
<1>4. UpInv' /\ LastInv'
  BY <1>1, <1>2, Zenon DEF TreeInv, UpInv, LastInv, Faithful
<1> QED BY <1>1, <1>3, <1>4 DEF TreeInv

(* The denied exec is read, however late.                                  *)
LEMMA ReadBlockedStep ==
    ASSUME TreeAssumption, TreeInv, ReadBlocked
    PROVE  TreeInv'
<1> DEFINE e == blocked[1]
<1>1. /\ blocked # << >> /\ blocked = <<e>> /\ e \in Records
      /\ blocked' = << >> /\ Enrich(e)
      /\ UNCHANGED <<task, now, threaded, dropped>>
  BY DEF ReadBlocked, TreeInv, TreeTypeOK
<1>2. stale' = (stale \/ Free(e.pid) \/ task[e.pid].born # e.born \/ task[e.pid].name # e.name)
  BY <1>1 DEF ReadBlocked
<1>3. Faithful' => /\ Faithful /\ e.pid \in DOMAIN task
                   /\ task[e.pid].born = e.born /\ task[e.pid].name = e.name
  BY <1>1, <1>2, Zenon DEF Faithful, Free
<1>4. stale' \in BOOLEAN
  BY <1>2 DEF Free, TreeInv, TreeTypeOK
<1>5. /\ e \in Events /\ e.type = "exec_blocked" /\ e.ppid = 0 /\ startOf(e) = e.start
      /\ e.pid \in Ids \ {1} /\ e.start \in Nat \ {0}
  BY <1>1 DEF Records, Events, startOf, TreeAssumption
<1> HIDE DEF e
<1>6. /\ DOMAIN procs' = DOMAIN procs \cup {e.pid}
      /\ procs'[e.pid] = Entry(e)
      /\ \A a \in DOMAIN procs : a # e.pid => procs'[a] = procs[a]
      /\ procs' \in [DOMAIN procs' -> Entries] /\ DOMAIN procs' \subseteq Ids \ {1}
      /\ keys' = keys \cup {KeyOf(e, e.start)}
      /\ keys' \subseteq Keys
  BY <1>1, <1>5, EnrichPuts, ZenonT(60) DEF TreeInv
<1>7. /\ procs'[e.pid].name = e.name /\ procs'[e.pid].start = e.start /\ procs'[e.pid].ppid = 0
      /\ KeyOf(e, e.start) = [pid |-> e.pid, start |-> e.start, born |-> e.born]
  BY <1>5, <1>6 DEF Entry, KeyOf
<1>8. KernelTypeOK' /\ KinInv'
  BY <1>1 DEF TreeInv, KernelTypeOK, KinInv
<1>9. TreeTypeOK'
  BY <1>1, <1>4, <1>6, Zenon DEF TreeInv, TreeTypeOK
<1>10. TrackedInv'
  <2>1. Faithful' => [pid |-> e.pid, start |-> procs'[e.pid].start, born |-> task[e.pid].born] \in keys'
    BY <1>3, <1>6, <1>7
  <2>2. ASSUME Faithful', NEW a \in DOMAIN task \ {1}, a # e.pid
        PROVE  /\ a \in DOMAIN procs' /\ procs'[a].name = task[a].name
               /\ [pid |-> a, start |-> procs'[a].start, born |-> task[a].born] \in keys'
    <3>1. a \in DOMAIN procs /\ procs[a].name = task[a].name
          /\ [pid |-> a, start |-> procs[a].start, born |-> task[a].born] \in keys
      BY <1>3, <2>2 DEF TreeInv, TrackedInv
    <3>2. procs'[a] = procs[a]
      BY <1>6, <2>2, <3>1, ZenonT(60)
    <3> QED BY <1>6, <3>1, <3>2, ZenonT(60)
  <2> QED BY <1>1, <1>3, <1>6, <1>7, <2>1, <2>2, ZenonT(60) DEF TrackedInv
<1>11. UpInv'
  BY <1>1, <1>3, <1>6, <1>7 DEF TreeInv, UpInv, Gone
<1>12. KeyInv'
  <2>1. Faithful' => \A k \in keys : k.start < now /\ k.born < now /\ k.start # e.start
    BY <1>1, <1>3 DEF TreeInv, KeyInv, e
  <2>2. Faithful' => e.start < now /\ e.born < now
    BY <1>1, <1>3 DEF TreeInv, KeyInv, KinInv, e
  <2>3. Faithful' => KeysAreApart'
    BY <1>3, <1>6, <1>7, <2>1 DEF TreeInv, KeyInv, KeysAreApart
  <2> QED BY <1>1, <1>6, <1>7, <2>1, <2>2, <2>3 DEF KeyInv
<1>13. LastInv'
  <2>1. 0 \notin DOMAIN procs'
    BY <1>6 DEF Ids, TreeAssumption
  <2> QED BY <1>1, <1>5, <2>1, EnrichTells
<1> QED BY <1>8, <1>9, <1>10, <1>11, <1>12, <1>13, ZenonT(60) DEF TreeInv

-----------------------------------------------------------------------------
(* Induction over the natural numbers, for a set of them.                  *)
LEMMA SetInduction ==
    ASSUME NEW S, 0 \in S, \A n \in Nat : n \in S => n + 1 \in S
    PROVE  \A n \in Nat : n \in S
<1> SUFFICES ASSUME Nat \ S # {} PROVE FALSE
  OBVIOUS
<1>1. PICK R : R = {ss \in Nat \X Nat : ss[1] < ss[2]}
  BY Zenon
<1>2. \A i, j \in Nat : i < j => <<i, j>> \in R
  BY <1>1
<1>3. IsWellFoundedOn(R, Nat)
  BY <1>1, NatLessThanWellFounded DEF OpToRel
<1>4. PICK x \in Nat \ S : \A y \in Nat \ S : ~(<<y, x>> \in R)
  <2>1. PICK T : T = Nat \ S
    BY Zenon
  <2>2. \E x \in T : \A y \in T : ~(<<y, x>> \in R)
    BY <1>3, <2>1, WFMin
  <2> QED
    BY <2>1, <2>2
<1>5. x # 0 /\ x - 1 \in Nat /\ x - 1 < x /\ (x - 1) + 1 = x
  OBVIOUS
<1>6. x - 1 \in S
  BY <1>2, <1>4, <1>5, Zenon
<1> QED
  BY <1>4, <1>5, <1>6

(* Each step up the tree is a step up the kernel's tree.                   *)
LEMMA AncestorsAreTrue ==
    ASSUME TreeAssumption, TreeInv, Faithful, ~threaded, NoIdReused, last.type # "none",
           NEW n \in DOMAIN last.ancestors
    PROVE  last.ancestors[n] \in TrueAncestors(last.ppid)
<1> DEFINE chain == last.ancestors
<1>1. PICK depth \in 0..maxDepth : chain \in [1..depth -> DOMAIN procs]
  BY Zenon DEF TreeInv, LastInv, Chains
<1>2. /\ 1 \in 1..depth => chain[1] = last.ppid
      /\ \A m \in 1..depth : m # 1 => chain[m] = procs[chain[m - 1]].ppid
  BY <1>1, Zenon DEF TreeInv, LastInv, ancestry
<1>3. /\ DOMAIN procs \subseteq DOMAIN task
      /\ \A a \in DOMAIN procs : procs[a].ppid \in {0, task[a].parent} \/ Gone(procs[a].ppid)
      /\ DOMAIN procs \subseteq Ids \ {1} /\ 0 \notin DOMAIN procs
  BY DEF TreeInv, UpInv, TreeTypeOK, Ids, TreeAssumption
<1>4. ASSUME NEW p \in DOMAIN procs, Gone(p)
      PROVE  FALSE
  <2>1. PICK k \in keys : k.pid = p /\ k.born # task[p].born
    BY <1>3, <1>4 DEF Gone
  <2>2. [pid |-> p, start |-> procs[p].start, born |-> task[p].born] \in keys
    BY <1>3 DEF TreeInv, TrackedInv
  <2> QED BY <2>1, <2>2 DEF NoIdReused
<1>5. \A a \in DOMAIN procs : procs[a].ppid \in DOMAIN procs => procs[a].ppid = task[a].parent
  BY <1>3, <1>4
<1>6. ASSUME NEW S \in SUBSET DOMAIN task, IsUpward(S, last.ppid)
      PROVE  chain[n] \in S
  <2>1. PICK Good : Good = {m \in Nat : m \in 1..depth => chain[m] \in S}
    BY Zenon
  <2>2. 0 \in Good
    BY <1>1, <2>1
  <2>3. ASSUME NEW m \in Nat, m \in Good
        PROVE  m + 1 \in Good
    <3> SUFFICES ASSUME m + 1 \in 1..depth
                 PROVE  chain[m + 1] \in S
      BY <2>1
    <3>1. CASE m = 0
      BY <1>1, <1>2, <1>3, <1>6, <3>1 DEF IsUpward
    <3>2. CASE m # 0
      <4>1. m \in 1..depth /\ m + 1 # 1 /\ (m + 1) - 1 = m
        BY <1>1, <3>2
      <4>2. chain[m] \in S /\ chain[m] \in DOMAIN procs
        BY <1>1, <2>1, <2>3, <4>1, Zenon
      <4>3. chain[m + 1] = procs[chain[m]].ppid /\ chain[m + 1] \in DOMAIN procs
        BY <1>1, <1>2, <4>1, Zenon
      <4>4. chain[m + 1] = task[chain[m]].parent
        BY <1>5, <4>2, <4>3
      <4> QED BY <1>3, <1>6, <4>2, <4>3, <4>4 DEF IsUpward
    <3> QED BY <3>1, <3>2
  <2>4. \A m \in Nat : m \in Good
    <3> HIDE DEF chain
    <3> QED BY <2>2, <2>3, SetInduction
  <2>5. n \in Nat /\ n \in 1..depth
    BY <1>1
  <2> QED BY <2>1, <2>4, <2>5
<1>7. chain[n] \in DOMAIN task
  BY <1>1, <1>3
<1> QED BY <1>6, <1>7 DEF TrueAncestors

(* At the start there is init, and nothing is recorded.                    *)
LEMMA TreeStarts ==
    ASSUME TreeAssumption, Init
    PROVE  TreeInv
<1>1. KernelTypeOK
  <2>1. DOMAIN task = {1} /\ task = [a \in DOMAIN task |-> task[a]]
        /\ now = 1 /\ threaded = FALSE
    BY DEF Init
  <2>2. task[1] \in Tasks /\ 1 \in Ids
    BY DEF Init, Tasks, NamesInUse, Ids, TreeAssumption
  <2>3. task \in [DOMAIN task -> Tasks]
    BY <2>1, <2>2
  <2>4. threaded \in BOOLEAN
    BY <2>1, Zenon
  <2>5. now \in Nat \ {0}
    BY <2>1
  <2> QED BY <2>1, <2>2, <2>3, <2>4, <2>5 DEF KernelTypeOK
<1>2. KinInv
  BY DEF Init, KinInv
<1>3. TreeTypeOK
  <2>1. DOMAIN procs = {} /\ procs = [a \in {} |-> procs[a]]
    BY DEF Init
  <2>2. procs \in [DOMAIN procs -> Entries]
    BY <2>1
  <2>3. /\ keys = {} /\ dropped = 0 /\ blocked = << >> /\ stale = FALSE
    BY DEF Init
  <2> QED BY <2>1, <2>2, <2>3, Zenon DEF TreeTypeOK
<1>4. TrackedInv /\ UpInv /\ KeyInv /\ LastInv
  BY DEF Init, TrackedInv, UpInv, KeyInv, LastInv, KeysAreApart
<1> QED BY <1>1, <1>2, <1>3, <1>4 DEF TreeInv

(* For any number of ids, names, events and losses: until an event is      *)
(* lost, what the tree annotates an event with is the process's real       *)
(* parent and its real ancestors, and processes that had one id have       *)
(* different keys (internal/enrich/proctree.go Enrich, ancestry).          *)
THEOREM LineageHolds ==
    ASSUME TreeAssumption
    PROVE  Spec => [](LineageIsTrue /\ KeysAreApart)
<1>1. Init => TreeInv
  BY TreeStarts
<1>2. TreeInv /\ [Next]_vars => TreeInv'
  <2> SUFFICES ASSUME TreeInv, [Next]_vars
               PROVE  TreeInv'
    OBVIOUS
  <2>1. CASE UNCHANGED vars
    <3>1. UNCHANGED <<task, procs, last, keys, now, threaded, dropped, blocked, stale>>
      BY <2>1, Zenon DEF vars, treeVars
    <3>2. KernelTypeOK' /\ KinInv' /\ TreeTypeOK'
      BY <3>1, SMTT(60) DEF TreeInv, KernelTypeOK, KinInv, TreeTypeOK
    <3>3. TrackedInv' /\ UpInv' /\ KeyInv' /\ LastInv'
      BY <3>1, Zenon DEF TreeInv, TrackedInv, UpInv, Gone, KeyInv, KeysAreApart, LastInv, Faithful
    <3> QED BY <3>2, <3>3 DEF TreeInv
  <2>2. CASE ReadBlocked
    BY <2>2, ReadBlockedStep
  <2>3. ASSUME NEW t \in Ids, NEW c \in Ids, Fork(t, c) \/ Thread(t, c)
        PROVE  TreeInv'
    BY <2>3, ForkStep
  <2>4. ASSUME NEW t \in Ids, NEW name \in Names, Exec(t, name)
        PROVE  TreeInv'
    BY <2>4, ExecStep
  <2>5. ASSUME NEW t \in Ids, ExecBlocked(t) \/ Act(t) \/ ThreadExit(t) \/ Exit(t)
        PROVE  TreeInv'
    BY <2>5, ExecBlockedStep, ActStep, ThreadExitStep, ExitStep
  <2> QED BY <2>1, <2>2, <2>3, <2>4, <2>5 DEF Next
<1>3. TreeInv => LineageIsTrue /\ KeysAreApart
  <2> SUFFICES ASSUME TreeInv
               PROVE  LineageIsTrue /\ KeysAreApart
    OBVIOUS
  <2>1. KeysAreApart
    BY DEF TreeInv, KeyInv, KeysAreApart
  <2>2. LineageIsTrue
    BY AncestorsAreTrue, Zenon DEF TreeInv, LastInv, LineageIsTrue
  <2> QED BY <2>1, <2>2
<1> QED BY <1>1, <1>2, <1>3, PTL DEF Spec
-----------------------------------------------------------------------------
(* The configuration the agent starts with.                                *)
CONSTANTS Values, Files, MaxEdits

VARIABLES file, edits, agent

Setup == INSTANCE Config

(* Settings a ticker is made of.                                           *)
Periods == {"integrity_seconds", "watchdog_seconds", "heartbeat_seconds"}

(* The periods are integers of any sign: the file is decoded into Go       *)
(* fields of type int (internal/config/config.go).                         *)
ConfigAssumption ==
    /\ \A f \in Files : \A key \in Periods \cap DOMAIN f : f[key] \in Int
    /\ \A key \in Periods \cap DOMAIN Values : Values[key] \subseteq Int

(* The file says integers where the agent needs a period.                  *)
FileInv == \A key \in Periods \cap DOMAIN file : file[key] \in Int

(* The periods a file does not set are numbers, ...                        *)
LEMMA DefaultPeriods ==
    \A key \in Periods : key \in DOMAIN Setup!Defaults /\ Setup!Defaults[key] \in Int
<1>1. /\ "integrity_seconds" \in DOMAIN Setup!Defaults /\ Setup!Defaults["integrity_seconds"] = 300
      /\ "watchdog_seconds" \in DOMAIN Setup!Defaults /\ Setup!Defaults["watchdog_seconds"] = 300
      /\ "heartbeat_seconds" \in DOMAIN Setup!Defaults /\ Setup!Defaults["heartbeat_seconds"] = 30
  BY Zenon DEF Setup!Defaults, Setup!Over
<1> QED
  BY <1>1, SMTT(60) DEF Periods

(* ... and so are those that Load yields.                                  *)
LEMMA LoadedPeriods ==
    ASSUME FileInv
    PROVE  /\ Setup!Load.integrity_seconds \in Int
           /\ Setup!Load.watchdog_seconds \in Int
           /\ Setup!Load.heartbeat_seconds \in Int
<1>1. PICK c : c = Setup!Over(file, Setup!Defaults)
  OBVIOUS
<1>2. \A key \in Periods : key \in DOMAIN c /\ c[key] \in Int
  BY <1>1, DefaultPeriods DEF Setup!Over, FileInv
<1>3. c = [key \in DOMAIN c |-> c[key]]
  BY <1>1 DEF Setup!Over
<1>4. \A key \in Periods : [c EXCEPT !.max_mode = c.mode][key] \in Int
  BY <1>2, <1>3 DEF Periods
<1> QED
  BY <1>1, <1>2, <1>4 DEF Setup!Load, Periods

(* validate and Build agree on the kinds of sink.                          *)
LEMMA ValidOutputsAreBuilt ==
    ASSUME NEW c, Setup!validateOutputs(c), NEW i \in DOMAIN c.outputs
    PROVE  Setup!buildOne(c.outputs[i])
BY Zenon DEF Setup!validateOutputs, Setup!validateEventStoreOutput, Setup!buildOne, Setup!OpenStore

(* No ticker gets a period that is not positive.                           *)
LEMMA ValidTickersRun ==
    ASSUME NEW c, Setup!validate(c), c.integrity_seconds \in Int, c.watchdog_seconds \in Int,
           c.heartbeat_seconds \in Int, NEW p \in Setup!Tickers(c)
    PROVE  ~(p <= 0)
<1>1. /\ c.self_protection => c.integrity_seconds > 0 /\ c.watchdog_seconds > 0
      /\ c.fleet => c.heartbeat_seconds > 0
  BY Zenon DEF Setup!validate, Setup!validateFleet
<1>2. CASE c.self_protection /\ p = 1000 * c.integrity_seconds
  BY <1>1, <1>2
<1>3. CASE c.self_protection /\ p = (1000 * c.watchdog_seconds) \div 2
  <2>1. 1000 * c.watchdog_seconds = 2 * (500 * c.watchdog_seconds)
    OBVIOUS
  <2>2. (1000 * c.watchdog_seconds) \div 2 = 500 * c.watchdog_seconds
    BY <2>1
  <2> QED
    BY <1>1, <1>3, <2>2
<1>4. CASE c.fleet /\ p = 1000 * c.heartbeat_seconds
  BY <1>1, <1>4
<1> QED
  BY <1>2, <1>3, <1>4, SMTT(60) DEF Setup!Tickers

(* Configuration, responder and kernel order the modes alike.              *)
LEMMA ModesAreRanked ==
    ASSUME NEW text \in DOMAIN Setup!modeRank
    PROVE  Setup!ParseMode(text) = Setup!modeRank[text] /\ Setup!ModeValue(text) = Setup!modeRank[text]
BY DEF Setup!modeRank, Setup!ParseMode, Setup!ModeValue

(* A listed name has the key of the name the kernel shows.                 *)
LEMMA ReadersAreHeard ==
    ASSUME NEW c, Setup!validateCredReaders(c), NEW i \in DOMAIN c.cred_readers
    PROVE  Setup!KernelComm(c.cred_readers[i]) \in
               {Setup!CredReaderKey(c.cred_readers[k]) : k \in DOMAIN c.cred_readers}
<1>1. c.cred_readers[i] \in 1..15
  BY DEF Setup!validateCredReaders, Setup!maxCommLen
<1>2. Setup!KernelComm(c.cred_readers[i]) = Setup!CredReaderKey(c.cred_readers[i])
  BY <1>1 DEF Setup!KernelComm, Setup!CredReaderKey
<1> QED
  BY <1>2

(* Whatever the operator writes into the file, in any number of edits: a   *)
(* configuration that validate lets through is one every constructor       *)
(* accepts and every ticker runs with, kernel and responder start in one   *)
(* mode below the ceiling, and the kernel hook recognises every name on    *)
(* the credential-reader list (internal/config/validate.go, run.go).       *)
THEOREM ValidConfigurationsRun ==
    ASSUME ConfigAssumption
    PROVE  Setup!Spec => []Setup!ValidRuns
<1> DEFINE Inv == FileInv /\ Setup!ValidRuns
<1>1. Setup!Init => Inv
  BY ConfigAssumption DEF Setup!Init, Setup!Stopped, Setup!ValidRuns, FileInv, ConfigAssumption
<1>2. Inv /\ [Setup!Next]_(Setup!vars) => Inv'
  <2> SUFFICES ASSUME Inv, [Setup!Next]_(Setup!vars) PROVE Inv'
    OBVIOUS
  <2>1. ASSUME NEW key \in DOMAIN Values, NEW value \in Values[key], Setup!Edit(key, value)
        PROVE  Inv'
    <3>1. file' = Setup!Over([k \in {key} |-> value], file) /\ agent' = [state |-> "stopped"]
      BY <2>1 DEF Setup!Edit, Setup!Stopped
    <3>2. FileInv'
      BY <2>1, <3>1 DEF Setup!Over, FileInv, ConfigAssumption
    <3> QED
      BY <3>1, <3>2 DEF Setup!ValidRuns
  <2>2. CASE Setup!runAgent
    <3>1. PICK c : c = Setup!Load
      OBVIOUS
    <3>2. /\ file' = file
          /\ \/ agent' = [state |-> "refused"]
             \/ /\ Setup!validate(c)
                /\ \/ /\ agent' = [state |-> "failed"]
                      /\ \E i \in DOMAIN c.outputs : ~Setup!buildOne(c.outputs[i])
                   \/ agent' = Setup!Running(c)
      BY <2>2, <3>1 DEF Setup!runAgent
    <3>3. FileInv'
      BY <3>2 DEF FileInv
    <3>4. CASE agent' = [state |-> "refused"]
      BY <3>3, <3>4 DEF Setup!ValidRuns
    <3>5. CASE Setup!validate(c) /\ agent' = Setup!Running(c)
      <4>1. \A p \in Setup!Tickers(c) : ~(p <= 0)
        BY <3>1, <3>5, LoadedPeriods, ValidTickersRun, ZenonT(60)
      <4>2. agent'.state = "running" /\ agent'.kernel = Setup!ModeValue(c.mode)
            /\ agent'.mode = Setup!ParseMode(c.mode) /\ agent'.ceiling = Setup!ParseMode(c.max_mode)
        BY <3>5, <4>1, SMTT(60) DEF Setup!Running
      <4>3. /\ c.mode \in DOMAIN Setup!modeRank /\ c.max_mode \in DOMAIN Setup!modeRank
            /\ Setup!modeRank[c.mode] <= Setup!modeRank[c.max_mode]
            /\ Setup!validateCredReaders(c)
        BY <3>5, ZenonT(60) DEF Setup!validate
      <4>4. agent'.unheard = {}
        BY <3>5, <4>3, ReadersAreHeard DEF Setup!Running
      <4> QED
        BY <3>3, <4>2, <4>3, <4>4, ModesAreRanked, Zenon DEF Setup!ValidRuns
    <3>6. CASE Setup!validate(c) /\ \E i \in DOMAIN c.outputs : ~Setup!buildOne(c.outputs[i])
      <4>1. Setup!validateOutputs(c)
        BY <3>6, Zenon DEF Setup!validate
      <4> QED
        BY <3>6, <4>1, ValidOutputsAreBuilt, SMTT(60)
    <3> QED
      BY <3>2, <3>4, <3>5, <3>6
  <2>3. CASE UNCHANGED Setup!vars
    BY <2>3 DEF Setup!vars, Setup!ValidRuns, FileInv
  <2> QED
    BY <2>1, <2>2, <2>3 DEF Setup!Next
<1>3. Inv => Setup!ValidRuns
  OBVIOUS
<1> QED
  BY <1>1, <1>2, <1>3, PTL DEF Setup!Spec
=============================================================================
