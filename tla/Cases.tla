-------------------------------- MODULE Cases --------------------------------
(***************************************************************************)
(* The in-memory case store (server/cases) under the admin handlers that   *)
(* use it (cmd/argus-server/investigate.go).  Every method runs under the  *)
(* store's mutex and returns a copy of the case, which the handler encodes *)
(* as JSON, or turns into a report, after the mutex is released.           *)
(*                                                                         *)
(* A copy of a Case shares the arrays behind its slices with the store, so *)
(* slices are modelled: an array is a sequence of its capacity, a slice is *)
(* an array and a length.  Comments and evidence are both appended to; one *)
(* comment is like another.  The loop of dedupeAppend is one step per id,  *)
(* under the mutex: handlers that hold copies may encode them meanwhile.   *)
(***************************************************************************)
EXTENDS Naturals, Sequences

CONSTANTS
    Requests,       \* requests being served
    Lists,          \* lists of alert ids that clients send as evidence
    MaxCases,       \* bound: cases created
    MaxLen          \* bound: comments of a case

VARIABLES
    arrays,     \* the arrays behind slices
    cases,      \* Memory.byID; the next id is Memory.seq + 1
    adding,     \* the request that holds the mutex in dedupeAppend, if any
    reply       \* what each request holds: nothing, or copies of cases

vars == <<arrays, cases, adding, reply>>

None == [pc |-> "idle"]

Blank == ""     \* the zero value of a string

nil == [array |-> 0, len |-> 0]

Elements(heap, s) == [i \in 1..s.len |-> heap[s.array][i]]

(* append: in place while there is room, else to a larger copy.            *)
append(heap, s, x) ==
    IF s.array # 0 /\ s.len < Len(heap[s.array])
    THEN [heap |-> [heap EXCEPT ![s.array][s.len + 1] = x],
          slice |-> [array |-> s.array, len |-> s.len + 1]]
    ELSE LET room == IF s.len = 0 THEN 1 ELSE 2 * s.len
             grown == [i \in 1..room |-> IF i <= s.len THEN heap[s.array][i]
                                         ELSE IF i = s.len + 1 THEN x ELSE Blank]
         IN [heap |-> Append(heap, grown), slice |-> [array |-> Len(heap) + 1, len |-> s.len + 1]]

seen(heap, s, id) == \E i \in 1..s.len : heap[s.array][i] = id

(* A faulty loop that puts each id first, in place.                        *)
dedupeAppendFirst(heap, s, id) ==
    IF id = Blank \/ seen(heap, s, id) THEN [heap |-> heap, slice |-> s]
    ELSE LET a == append(heap, s, id) IN
         [a EXCEPT !.heap[a.slice.array] =
             [i \in DOMAIN @ |-> IF i = 1 THEN id
                                 ELSE IF i <= a.slice.len THEN @[i - 1] ELSE @[i]]]

(* What dedupeAppend does with one id.                                     *)
dedupeAppend(heap, s, id) ==
    IF id = Blank \/ seen(heap, s, id) THEN [heap |-> heap, slice |-> s]
    ELSE append(heap, s, id)

(* What a handler holds when a method returned: copies by id, whether a    *)
(* change is still to be audited, and, as history, what the copies read as.*)
Read(heap, copies) ==
    [c \in DOMAIN copies |-> [evidence |-> Elements(heap, copies[c].evidence),
                              comments |-> Elements(heap, copies[c].comments)]]

Returned(heap, copies, pc) == [pc |-> pc, copies |-> copies, read |-> Read(heap, copies)]

One(id, c) == [i \in {id} |-> c]

-----------------------------------------------------------------------------
Init ==
    /\ arrays = << >>
    /\ cases = << >>
    /\ adding = None
    /\ reply = [r \in Requests |-> None]

(* A request gets the mutex.                                               *)
Lock(r) == reply[r] = None /\ adding = None

Adding(r, id, slice, ids) == [pc |-> "adding", by |-> r, id |-> id, slice |-> slice, todo |-> ids]

(* Create: the store makes arrays of its own.                              *)
Create(r, ids) ==
    /\ Lock(r)
    /\ Len(cases) < MaxCases
    /\ adding' = Adding(r, Len(cases) + 1, nil, ids)
    /\ UNCHANGED <<arrays, cases, reply>>

AddEvidence(r, id, ids) ==
    /\ Lock(r)
    /\ adding' = Adding(r, id, cases[id].evidence, ids)
    /\ UNCHANGED <<arrays, cases, reply>>

(* One turn of the loop of dedupeAppend.                                   *)
Add ==
    /\ adding # None
    /\ adding.todo # << >>
    /\ LET a == dedupeAppend(arrays, adding.slice, Head(adding.todo)) IN
       /\ arrays' = a.heap
       /\ adding' = [adding EXCEPT !.slice = a.slice, !.todo = Tail(@)]
    /\ UNCHANGED <<cases, reply>>

(* mutate; a change that is refused leaves nothing to audit.               *)
mutate(r, id, heap, c) ==
    /\ arrays' = heap
    /\ cases' = [cases EXCEPT ![id] = c]
    /\ reply' = [reply EXCEPT ![r] = Returned(heap, One(id, c), "audit")]

(* The loop is over: the case takes the slice, or is put into the store.   *)
Added ==
    /\ adding # None
    /\ adding.todo = << >>
    /\ IF adding.id \in DOMAIN cases
       THEN mutate(adding.by, adding.id, arrays,
                   [cases[adding.id] EXCEPT !.evidence = adding.slice])
       ELSE LET c == [status |-> "open", evidence |-> adding.slice, comments |-> nil] IN
            /\ cases' = Append(cases, c)
            /\ reply' = [reply EXCEPT ![adding.by] =
                            Returned(arrays, One(adding.id, c), "audit")]
            /\ UNCHANGED arrays
    /\ adding' = None

(* Assign is like it: a field without an array.                            *)
SetStatus(r, id, status) ==
    /\ Lock(r)
    /\ status \in {"open", "triage", "closed"}
    /\ mutate(r, id, arrays, [cases[id] EXCEPT !.status = status])
    /\ UNCHANGED adding

AddComment(r, id) ==
    /\ Lock(r)
    /\ cases[id].comments.len < MaxLen
    /\ LET a == append(arrays, cases[id].comments, "comment") IN
       mutate(r, id, a.heap, [cases[id] EXCEPT !.comments = a.slice])
    /\ UNCHANGED adding

Get(r, id) ==
    /\ Lock(r)
    /\ reply' = [reply EXCEPT ![r] = Returned(arrays, One(id, cases[id]), "encode")]
    /\ UNCHANGED <<arrays, cases, adding>>

(* List: the copies, whatever their order.                                 *)
List(r, status) ==
    /\ Lock(r)
    /\ LET found == {id \in DOMAIN cases : status \in {Blank, cases[id].status}} IN
       reply' = [reply EXCEPT ![r] =
                    Returned(arrays, [id \in found |-> cases[id]], "encode")]
    /\ UNCHANGED <<arrays, cases, adding>>

(* mutateCase and handleCreateCase: the change is written to the audit     *)
(* log, whose own mutex orders the entries, ...                            *)
Audit(r) ==
    /\ reply[r].pc = "audit"
    /\ reply' = [reply EXCEPT ![r].pc = "encode"]
    /\ UNCHANGED <<arrays, cases, adding>>

(* ... and the case is encoded.                                            *)
Encode(r) ==
    /\ reply[r].pc = "encode"
    /\ reply' = [reply EXCEPT ![r] = None]
    /\ UNCHANGED <<arrays, cases, adding>>

Next ==
    \/ Add
    \/ Added
    \/ \E r \in Requests :
        \/ \E ids \in Lists : Create(r, ids)
        \/ \E id \in DOMAIN cases :
            \/ \E status \in {"triage", "closed", "unknown"} : SetStatus(r, id, status)
            \/ AddComment(r, id)
            \/ \E ids \in Lists : AddEvidence(r, id, ids)
            \/ Get(r, id)
        \/ \E status \in {Blank, "open"} : List(r, status)
        \/ Audit(r)
        \/ Encode(r)

Spec == Init /\ [][Next]_vars

-----------------------------------------------------------------------------
(* "Implementations must be safe for concurrent use": while a handler      *)
(* encodes the case it was given, every change others make through the     *)
(* shared arrays leaves what it reads as it was; and no alert is listed    *)
(* twice as evidence of a case.                                            *)
SnapshotsAreStable ==
    /\ \A r \in Requests : reply[r] # None => reply[r].read = Read(arrays, reply[r].copies)
    /\ \A c \in DOMAIN cases : LET listed == Elements(arrays, cases[c].evidence) IN
          \A i, j \in DOMAIN listed : listed[i] = listed[j] => i = j
=============================================================================
