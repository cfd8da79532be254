----------------------------- MODULE CaseProofs -----------------------------
(***************************************************************************)
(* Proofs about the store of cases (Cases), for any requests and lists of  *)
(* alerts.                                                                 *)
(*                                                                         *)
(* A copy of a case shares its arrays with the store. Two slices of the    *)
(* store never share one, and a copy ends before the place where anybody   *)
(* appends.                                                                *)
(***************************************************************************)
EXTENDS Cases, TLAPS

(* Any set that holds the ids, the zero value and the comments.            *)
CONSTANT Texts


(* Arrays, slices and cases.                                               *)
Heaps == Seq(Seq(Texts))
Slices == [array : Nat, len : Nat]
CaseRecords == [status : {"open", "triage", "closed"}, evidence : Slices, comments : Slices]

(* Requests name alerts by text.                                           *)
CaseAssumption ==
    /\ Lists \subseteq Seq(Texts)
    /\ Blank \in Texts /\ "comment" \in Texts

(* The slices of a case.                                                   *)
Part(c, f) == IF f = 1 THEN c.evidence ELSE c.comments

(* A slice that lies in its array.                                         *)
Valid(heap, s) ==
    /\ s \in Slices
    /\ s.array \in 0..Len(heap)
    /\ s.array = 0 => s.len = 0
    /\ s.array # 0 => s.len <= Len(heap[s.array])

(* A slice that lists nothing twice.                                       *)
Distinct(heap, s) ==
    \A i, j \in 1..s.len : heap[s.array][i] = heap[s.array][j] => i = j

(* The slice s may be appended to without u noticing.                      *)
Short(u, s) == u.array # 0 /\ u.array = s.array => u.len <= s.len

(* A loop of dedupeAppend in progress.                                     *)
IsAdding(a) ==
    /\ a = Adding(a.by, a.id, a.slice, a.todo)
    /\ a.by \in Requests /\ a.id \in 1..(Len(cases) + 1) /\ a.slice \in Slices
    /\ a.todo \in Seq(Texts)

(* What a handler holds.                                                   *)
IsReply(p) ==
    /\ p = [pc |-> p.pc, copies |-> p.copies, read |-> p.read]
    /\ p.copies \in [DOMAIN p.copies -> CaseRecords]

(* Types of the case store.                                                *)
CaseTypeOK ==
    /\ arrays \in Heaps
    /\ cases \in Seq(CaseRecords)
    /\ adding = None \/ IsAdding(adding)
    /\ reply = [r \in Requests |-> reply[r]]
    /\ \A r \in Requests : reply[r] = None \/ IsReply(reply[r])

(* The store's slices have arrays of their own, ...                        *)
StoreInv ==
    /\ \A c \in DOMAIN cases, f \in 1..2 : Valid(arrays, Part(cases[c], f))
    /\ \A c \in DOMAIN cases : Distinct(arrays, cases[c].evidence)
    /\ \A c, d \in DOMAIN cases, f, h \in 1..2 :
          Part(cases[c], f).array # 0 /\ Part(cases[c], f).array = Part(cases[d], h).array =>
              c = d /\ f = h

(* ... as has the one being made, unless it is that of its own case.       *)
AddingInv ==
    adding # None =>
        /\ Valid(arrays, adding.slice)
        /\ Distinct(arrays, adding.slice)
        /\ \A c \in DOMAIN cases, f \in 1..2 :
              /\ Short(Part(cases[c], f), adding.slice)
              /\ adding.slice.array # 0 /\ Part(cases[c], f).array = adding.slice.array =>
                    c = adding.id /\ f = 1

(* A copy reads what it read, and does not reach where others append.      *)
CopyOK(p) ==
    /\ p.read = Read(arrays, p.copies)
    /\ \A k \in DOMAIN p.copies, g \in 1..2 :
          /\ Valid(arrays, Part(p.copies[k], g))
          /\ adding # None => Short(Part(p.copies[k], g), adding.slice)
          /\ \A c \in DOMAIN cases, f \in 1..2 :
                Short(Part(p.copies[k], g), Part(cases[c], f))

CopyInv == \A r \in Requests : reply[r] # None => CopyOK(reply[r])

(* The inductive invariant of cases.                                       *)
CaseInv == CaseTypeOK /\ StoreInv /\ AddingInv /\ CopyInv

-----------------------------------------------------------------------------
(* What append leaves alone, and what it adds.                             *)
Grows(heap, w, x, a) ==
    /\ a.heap \in Heaps /\ a.slice \in Slices
    /\ Len(a.heap) >= Len(heap)
    /\ a.slice.len = w.len + 1
    /\ a.slice.array = (IF w.array # 0 /\ w.len < Len(heap[w.array]) THEN w.array ELSE Len(heap) + 1)
    /\ Valid(a.heap, a.slice) /\ a.slice.array # 0
    /\ \A i \in 1..w.len : a.heap[a.slice.array][i] = heap[w.array][i]
    /\ a.heap[a.slice.array][w.len + 1] = x
    /\ \A b \in 1..Len(heap) : Len(a.heap[b]) = Len(heap[b])
    /\ \A b \in 1..Len(heap), i \in Nat :
          (b = w.array => i <= w.len) /\ i \in 1..Len(heap[b]) => a.heap[b][i] = heap[b][i]

(* append writes one element, after the slice or in a new array.           *)
LEMMA AppendGrows ==
    ASSUME Blank \in Texts, NEW heap \in Heaps, NEW w, Valid(heap, w), NEW x \in Texts, NEW a,
           a = append(heap, w, x)
    PROVE  Grows(heap, w, x, a)
<1>1. w.array \in Nat /\ w.len \in Nat /\ w.array \in 0..Len(heap) /\ Len(heap) \in Nat
  BY DEF Valid, Slices, Heaps
<1>2. \A b \in 1..Len(heap) : heap[b] \in Seq(Texts) /\ Len(heap[b]) \in Nat
  BY DEF Heaps
<1>3. CASE w.array # 0 /\ w.len < Len(heap[w.array])
  <2>1. PICK e : e = [heap[w.array] EXCEPT ![w.len + 1] = x]
    BY Zenon
  <2>2. PICK h : h = [heap EXCEPT ![w.array] = e]
    BY Zenon
  <2>3. w.array \in 1..Len(heap)
    BY <1>1, <1>3
  <2>4. /\ e \in Seq(Texts) /\ Len(e) = Len(heap[w.array]) /\ w.len + 1 \in 1..Len(e)
        /\ e[w.len + 1] = x
        /\ \A i \in 1..Len(e) : i # w.len + 1 => e[i] = heap[w.array][i]
    BY <1>1, <1>2, <1>3, <2>1, <2>3, SMTT(60)
  <2>5. /\ h \in Heaps /\ Len(h) = Len(heap) /\ h[w.array] = e
        /\ \A b \in 1..Len(heap) : b # w.array => h[b] = heap[b]
    BY <2>2, <2>3, <2>4 DEF Heaps
  <2>6. a = [heap |-> h, slice |-> [array |-> w.array, len |-> w.len + 1]]
    BY <1>3, <2>1, <2>2 DEF append
  <2>7. PICK t \in Slices : t = [array |-> w.array, len |-> w.len + 1]
    <3>1. w.array \in Nat /\ w.len + 1 \in Nat
      BY <1>1
    <3>2. [array |-> w.array, len |-> w.len + 1] \in Slices
      BY <3>1 DEF Slices
    <3> QED BY <3>2, Zenon
  <2>8. a.heap = h /\ a.slice = t /\ t.array = w.array /\ t.len = w.len + 1
    BY <2>6, <2>7
  <2>9. Valid(h, t)
    BY <1>1, <1>3, <2>3, <2>4, <2>5, <2>8 DEF Valid
  <2>10. \A i \in 1..w.len : e[i] = heap[w.array][i]
    BY <1>1, <2>4
  <2>11. \A b \in 1..Len(heap) : Len(h[b]) = Len(heap[b])
    BY <2>4, <2>5, ZenonT(60)
  <2>12. \A b \in 1..Len(heap), i \in Nat :
            (b = w.array => i <= w.len) /\ i \in 1..Len(heap[b]) => h[b][i] = heap[b][i]
    BY <1>1, <2>4, <2>5, SMTT(60)
  <2> QED BY <1>1, <1>3, <2>3, <2>4, <2>5, <2>8, <2>9, <2>10, <2>11, <2>12, SMTT(60) DEF Grows
<1>4. CASE ~ (w.array # 0 /\ w.len < Len(heap[w.array]))
  <2>1. PICK room \in Nat : room = IF w.len = 0 THEN 1 ELSE 2 * w.len
    BY <1>1
  <2>2. room >= w.len + 1
    BY <1>1, <2>1
  <2>3. PICK e : e = [i \in 1..room |-> IF i <= w.len THEN heap[w.array][i]
                                        ELSE IF i = w.len + 1 THEN x ELSE Blank]
    BY Zenon
  <2>4. \A i \in 1..room : i <= w.len => heap[w.array][i] \in Texts
    <3> SUFFICES ASSUME NEW i \in 1..room, i <= w.len  PROVE heap[w.array][i] \in Texts
      OBVIOUS
    <3>1. w.array \in 1..Len(heap) /\ w.len <= Len(heap[w.array])
      BY <1>1 DEF Valid
    <3>2. i \in 1..Len(heap[w.array]) /\ heap[w.array] \in Seq(Texts)
      BY <1>1, <1>2, <3>1, SMTT(60)
    <3> QED BY <3>2
  <2>5. /\ e \in Seq(Texts) /\ Len(e) = room /\ e[w.len + 1] = x
        /\ \A i \in 1..w.len : e[i] = heap[w.array][i]
    <3>1. e \in [1..room -> Texts]
      BY <2>3, <2>4
    <3>2. e \in Seq(Texts) /\ Len(e) = room
      BY <3>1
    <3>3. w.len + 1 \in 1..room /\ \A i \in 1..w.len : i \in 1..room /\ i <= w.len
      BY <1>1, <2>2
    <3>4. ~ (w.len + 1 <= w.len)
      BY <1>1
    <3> QED BY <2>3, <3>2, <3>3, <3>4
  <2>6. PICK h : h = Append(heap, e)
    BY Zenon
  <2>7. /\ h \in Heaps /\ Len(h) = Len(heap) + 1 /\ h[Len(heap) + 1] = e
        /\ \A b \in 1..Len(heap) : h[b] = heap[b]
    BY <2>5, <2>6 DEF Heaps
  <2>8. a = [heap |-> h, slice |-> [array |-> Len(heap) + 1, len |-> w.len + 1]]
    BY <1>4, <2>1, <2>3, <2>6 DEF append
  <2>9. PICK t \in Slices : t = [array |-> Len(heap) + 1, len |-> w.len + 1]
    <3>1. Len(heap) + 1 \in Nat /\ w.len + 1 \in Nat
      BY <1>1
    <3>2. [array |-> Len(heap) + 1, len |-> w.len + 1] \in Slices
      BY <3>1 DEF Slices
    <3> QED BY <3>2, Zenon
  <2>10. a.heap = h /\ a.slice = t /\ t.array = Len(heap) + 1 /\ t.len = w.len + 1
    BY <2>8, <2>9
  <2>11. Valid(h, t)
    BY <1>1, <2>2, <2>5, <2>7, <2>10, SMTT(60) DEF Valid
  <2>12. /\ Len(h) >= Len(heap) /\ Len(heap) + 1 # 0
         /\ t.array = IF w.array # 0 /\ w.len < Len(heap[w.array]) THEN w.array ELSE Len(heap) + 1
    BY <1>1, <1>4, <2>7, <2>10
  <2>13. /\ \A i \in 1..w.len : h[t.array][i] = heap[w.array][i]
         /\ h[t.array][w.len + 1] = x
    BY <2>5, <2>7, <2>10
  <2>14. /\ \A b \in 1..Len(heap) : Len(h[b]) = Len(heap[b])
         /\ \A b \in 1..Len(heap), i \in Nat : h[b][i] = heap[b][i]
    BY <2>7, SMTT(60)
  <2> QED BY <2>7, <2>10, <2>11, <2>12, <2>13, <2>14 DEF Grows
<1> QED BY <1>3, <1>4

(* A slice that ends where appending starts, or before, is not affected.   *)
LEMMA SliceKept ==
    ASSUME NEW heap \in Heaps, NEW w, Valid(heap, w), NEW x, NEW a, Grows(heap, w, x, a),
           NEW u, Valid(heap, u), Short(u, w)
    PROVE  /\ Valid(a.heap, u)
           /\ \A i \in 1..u.len : a.heap[u.array][i] = heap[u.array][i]
           /\ Elements(a.heap, u) = Elements(heap, u)
           /\ Short(u, a.slice)
           /\ u.array # 0 /\ u.array = a.slice.array => u.array = w.array
<1>1. /\ u.array \in Nat /\ u.len \in Nat /\ u.array \in 0..Len(heap) /\ Len(heap) \in Nat
      /\ w.array \in Nat /\ w.len \in Nat
  BY DEF Valid, Slices, Heaps
<1>2. \A b \in 1..Len(heap) : Len(heap[b]) \in Nat
  BY SMTT(60) DEF Heaps
<1>3. \A i \in 1..u.len : a.heap[u.array][i] = heap[u.array][i]
  <2> SUFFICES ASSUME NEW i \in 1..u.len  PROVE a.heap[u.array][i] = heap[u.array][i]
    OBVIOUS
  <2>1. u.array \in 1..Len(heap) /\ u.len <= Len(heap[u.array]) /\ u.array # 0
    BY <1>1 DEF Valid
  <2>2. i \in Nat /\ i \in 1..Len(heap[u.array])
    BY <1>1, <1>2, <2>1
  <2>3. u.array = w.array => i <= w.len
    BY <1>1, <2>1 DEF Short
  <2> QED BY <2>1, <2>2, <2>3, Zenon DEF Grows
<1>4. Elements(a.heap, u) = Elements(heap, u)
  BY <1>3 DEF Elements
<1>5. Valid(a.heap, u)
  <2>1. Len(a.heap) >= Len(heap) /\ Len(a.heap) \in Nat
    BY DEF Grows, Heaps
  <2>2. u.array # 0 => Len(a.heap[u.array]) = Len(heap[u.array])
    BY <1>1, SMTT(60) DEF Grows
  <2> QED BY <1>1, <2>1, <2>2, SMTT(60) DEF Valid
<1>6. u.array # 0 /\ u.array = a.slice.array => u.array = w.array
  BY <1>1, SMTT(60) DEF Grows
<1>7. Short(u, a.slice)
  <2>1. a.slice.len = w.len + 1
    BY DEF Grows
  <2> QED BY <1>1, <1>6, <2>1, SMTT(60) DEF Short
<1> QED BY <1>3, <1>4, <1>5, <1>6, <1>7

(* Elements that stay as they were stay distinct.                          *)
LEMMA DistinctKept ==
    ASSUME NEW heap, NEW other, NEW u, Distinct(heap, u),
           \A i \in 1..u.len : other[u.array][i] = heap[u.array][i]
    PROVE  Distinct(other, u)
BY SMTT(60) DEF Distinct

(* An id that is not in the slice leaves its elements distinct.            *)
LEMMA DistinctGrows ==
    ASSUME NEW heap \in Heaps, NEW w, Valid(heap, w), NEW x, NEW a, Grows(heap, w, x, a),
           Distinct(heap, w), ~ seen(heap, w, x)
    PROVE  Distinct(a.heap, a.slice)
<1>1. w.len \in Nat /\ a.slice.len = w.len + 1
  BY DEF Valid, Slices, Grows
<1>2. \A i \in 1..(w.len + 1) : i \in 1..w.len \/ i = w.len + 1
  BY <1>1, SMTT(60)
<1>3. \A i \in 1..w.len : a.heap[a.slice.array][i] # x
  BY Zenon DEF Grows, seen
<1> QED BY <1>1, <1>2, <1>3, ZenonT(60) DEF Distinct, Grows

(* Copies whose slices a step did not disturb.                             *)
LEMMA CopiesKept ==
    ASSUME NEW p, IsReply(p), p.read = Read(arrays, p.copies),
           \A k \in DOMAIN p.copies, g \in 1..2 :
               Elements(arrays', Part(p.copies[k], g)) = Elements(arrays, Part(p.copies[k], g))
    PROVE  p.read = Read(arrays', p.copies)
<1>1. 1 \in 1..2 /\ 2 \in 1..2
  OBVIOUS
<1>2. \A k \in DOMAIN p.copies :
          /\ Elements(arrays', p.copies[k].evidence) = Elements(arrays, p.copies[k].evidence)
          /\ Elements(arrays', p.copies[k].comments) = Elements(arrays, p.copies[k].comments)
  BY <1>1 DEF Part
<1> QED BY <1>2 DEF Read

(* Copies of cases as they are in the store.                               *)
LEMMA CopiesMade ==
    ASSUME StoreInv', (adding = None)', NEW ids, ids \subseteq DOMAIN cases',
           NEW copies, copies = [k \in ids |-> cases'[k]], cases' \in Seq(CaseRecords),
           NEW pc, NEW p, p = Returned(arrays', copies, pc)
    PROVE  CopyOK(p)' /\ IsReply(p)
<1>1. p = [pc |-> pc, copies |-> copies, read |-> Read(arrays', copies)]
  BY DEF Returned
<1>2. p.pc = pc /\ p.copies = copies /\ p.read = Read(arrays', copies)
  BY <1>1
<1>3. DOMAIN copies = ids /\ \A k \in ids : copies[k] = cases'[k] /\ k \in DOMAIN cases'
  OBVIOUS
<1>4. \A k \in ids, g \in 1..2 :
          /\ Valid(arrays', Part(copies[k], g))
          /\ \A c \in DOMAIN cases', f \in 1..2 : Short(Part(copies[k], g), Part(cases'[c], f))
  <2> SUFFICES ASSUME NEW k \in ids, NEW g \in 1..2
               PROVE  /\ Valid(arrays', Part(cases'[k], g))
                      /\ \A c \in DOMAIN cases', f \in 1..2 :
                            Short(Part(cases'[k], g), Part(cases'[c], f))
    BY <1>3
  <2>1. Valid(arrays', Part(cases'[k], g)) /\ Part(cases'[k], g).len \in Nat
    BY <1>3 DEF StoreInv, Valid, Slices
  <2>2. ASSUME NEW c \in DOMAIN cases', NEW f \in 1..2
        PROVE  Short(Part(cases'[k], g), Part(cases'[c], f))
    BY <1>3, <2>1, SMTT(60) DEF StoreInv, Short
  <2> QED BY <2>1, <2>2
<1>5. CopyOK(p)'
  BY <1>2, <1>3, <1>4, Zenon DEF CopyOK
<1>6. copies \in [DOMAIN copies -> CaseRecords]
  BY <1>3
<1> QED BY <1>1, <1>2, <1>5, <1>6 DEF IsReply

(* There is nothing to share at the start.                                 *)
LEMMA CasesStart == Init => CaseInv
<1> SUFFICES ASSUME Init  PROVE CaseInv
  OBVIOUS
<1>1. CaseTypeOK
  BY DEF Init, CaseTypeOK, Heaps
<1>2. StoreInv /\ AddingInv /\ CopyInv
  BY DEF Init, StoreInv, AddingInv, CopyInv
<1> QED BY <1>1, <1>2 DEF CaseInv

(* The mutex is taken for a loop that starts with a slice of the store, or *)
(* with none.                                                              *)
LEMMA LoopStarts ==
    ASSUME CaseAssumption, CaseInv, adding = None, NEW r \in Requests,
           NEW id \in 1..(Len(cases) + 1), NEW slice, NEW ids \in Lists,
           \/ id \in DOMAIN cases /\ slice = cases[id].evidence
           \/ slice = nil,
           adding' = Adding(r, id, slice, ids), UNCHANGED <<arrays, cases, reply>>
    PROVE  CaseInv'
<1>1. /\ adding'.by = r /\ adding'.id = id /\ adding'.slice = slice /\ adding'.todo = ids
      /\ adding' # None
  BY DEF Adding, None
<1>2. slice \in Slices /\ Valid(arrays, slice) /\ Distinct(arrays, slice)
  <2>1. CASE id \in DOMAIN cases /\ slice = cases[id].evidence
    <3>1. 1 \in 1..2 /\ Part(cases[id], 1) = cases[id].evidence
      BY DEF Part
    <3> QED BY <2>1, <3>1 DEF CaseInv, StoreInv, Valid
  <2>2. CASE slice = nil
    <3>1. slice \in Slices /\ slice.array = 0 /\ slice.len = 0
      BY <2>2 DEF nil, Slices
    <3>2. Len(arrays) \in Nat
      BY SMTT(60) DEF CaseInv, CaseTypeOK, Heaps
    <3> QED BY <3>1, <3>2 DEF Valid, Distinct
  <2> QED BY <2>1, <2>2, SMTT(60)
<1>3. \A c \in DOMAIN cases, f \in 1..2 :
          /\ Short(Part(cases[c], f), slice)
          /\ slice.array # 0 /\ Part(cases[c], f).array = slice.array => c = id /\ f = 1
  <2> SUFFICES ASSUME NEW c \in DOMAIN cases, NEW f \in 1..2, slice.array # 0,
                      Part(cases[c], f).array = slice.array
               PROVE  Part(cases[c], f).len <= slice.len /\ c = id /\ f = 1
    BY DEF Short
  <2>1. id \in DOMAIN cases /\ slice = Part(cases[id], 1) /\ 1 \in 1..2
    BY SMTT(60) DEF nil, Part
  <2>2. c = id /\ f = 1
    BY <2>1, SMTT(60) DEF CaseInv, StoreInv
  <2> QED BY <1>2, <2>1, <2>2, SMTT(60) DEF Slices
<1>4. AddingInv'
  BY <1>1, <1>2, <1>3 DEF AddingInv
<1>5. IsAdding(adding)'
  BY <1>1, <1>2, SMTT(60) DEF IsAdding, Adding, CaseAssumption
<1>6. CaseTypeOK' /\ StoreInv'
  BY <1>5, SMTT(60) DEF CaseInv, CaseTypeOK, StoreInv, IsReply
<1>7. CopyInv'
  <2> SUFFICES ASSUME NEW q \in Requests, reply[q] # None  PROVE CopyOK(reply[q])'
    BY DEF CopyInv
  <2>1. CopyOK(reply[q])
    BY SMTT(60) DEF CaseInv, CopyInv
  <2>2. ASSUME NEW k \in DOMAIN reply[q].copies, NEW g \in 1..2
        PROVE  Short(Part(reply[q].copies[k], g), slice)
    <3>1. CASE slice.array = 0
      BY <3>1, SMTT(60) DEF Short
    <3>2. CASE slice.array # 0
      <4>1. id \in DOMAIN cases /\ slice = Part(cases[id], 1) /\ 1 \in 1..2
        BY <3>2 DEF nil, Part
      <4> QED BY <2>1, <4>1 DEF CopyOK
    <3> QED BY <3>1, <3>2, SMTT(60)
  <2> QED BY <1>1, <2>1, <2>2, Zenon DEF CopyOK
<1> QED BY <1>4, <1>6, <1>7 DEF CaseInv

(* One turn of the loop.                                                   *)
LEMMA LoopStep ==
    ASSUME CaseAssumption, CaseInv, Add  PROVE CaseInv'
<1>0. adding # None /\ adding.todo # << >> /\ UNCHANGED <<cases, reply>>
  BY DEF Add
<1>1. PICK w, x : w = adding.slice /\ x = Head(adding.todo)
  OBVIOUS
<1>2. PICK a : a = dedupeAppend(arrays, w, x)
  OBVIOUS
<1>3. arrays' = a.heap /\ adding' = [adding EXCEPT !.slice = a.slice, !.todo = Tail(@)]
  BY <1>1, <1>2 DEF Add
<1>4. IsAdding(adding) /\ arrays \in Heaps
  BY <1>0 DEF CaseInv, CaseTypeOK
<1>5. x \in Texts /\ Tail(adding.todo) \in Seq(Texts)
  BY <1>0, <1>1, <1>4, SMTT(60) DEF IsAdding
<1>6. /\ Valid(arrays, w) /\ Distinct(arrays, w)
      /\ \A c \in DOMAIN cases, f \in 1..2 :
            /\ Short(Part(cases[c], f), w)
            /\ w.array # 0 /\ Part(cases[c], f).array = w.array => c = adding.id /\ f = 1
  BY <1>0, <1>1, SMTT(60) DEF CaseInv, AddingInv
<1>7. /\ adding'.by = adding.by /\ adding'.id = adding.id /\ adding'.slice = a.slice
      /\ adding'.todo = Tail(adding.todo) /\ adding' # None
      /\ adding' = Adding(adding'.by, adding'.id, adding'.slice, adding'.todo)
  <2>1. PICK r, id, todo : r = adding.by /\ id = adding.id /\ todo = adding.todo
    OBVIOUS
  <2>2. adding = [pc |-> "adding", by |-> r, id |-> id, slice |-> w, todo |-> todo]
    BY <1>1, <1>4, <2>1 DEF IsAdding, Adding
  <2>3. adding' = [pc |-> "adding", by |-> r, id |-> id, slice |-> a.slice,
                   todo |-> Tail(todo)]
    BY <1>3, <2>2, ZenonT(60)
  <2> QED BY <2>1, <2>3 DEF Adding, None
<1>8. CASE x = Blank \/ seen(arrays, w, x)
  <2>1. a = [heap |-> arrays, slice |-> w]
    BY <1>2, <1>8 DEF dedupeAppend
  <2>2. arrays' = arrays /\ adding'.slice = w
    BY <1>3, <1>7, <2>1
  <2>3. IsAdding(adding)'
    BY <1>0, <1>1, <1>4, <1>5, <1>7, <2>2 DEF IsAdding
  <2>4. CaseTypeOK' /\ StoreInv'
    BY <1>0, <2>2, <2>3, SMTT(60) DEF CaseInv, CaseTypeOK, StoreInv, IsReply
  <2>5. AddingInv'
    BY <1>0, <1>6, <1>7, <2>2, ZenonT(60) DEF AddingInv
  <2>6. CopyInv'
    BY <1>0, <1>1, <1>7, <2>2 DEF CaseInv, CopyInv, CopyOK
  <2> QED BY <2>4, <2>5, <2>6 DEF CaseInv
<1>9. CASE ~ (x = Blank \/ seen(arrays, w, x))
  <2>1. a = append(arrays, w, x)
    BY <1>2, <1>9, SMTT(60) DEF dedupeAppend
  <2>2. Grows(arrays, w, x, a)
    BY <1>4, <1>5, <1>6, <2>1, AppendGrows, SMTT(60) DEF CaseAssumption
  <2>3. a.heap \in Heaps /\ a.slice \in Slices /\ Valid(a.heap, a.slice)
    BY <2>2, SMTT(60) DEF Grows
  <2>4. Distinct(a.heap, a.slice)
    BY <1>4, <1>6, <1>9, <2>2, DistinctGrows, SMTT(60)
  <2>5. ASSUME NEW u, Valid(arrays, u), Short(u, w)
        PROVE  /\ Valid(a.heap, u)
               /\ \A i \in 1..u.len : a.heap[u.array][i] = arrays[u.array][i]
               /\ Elements(a.heap, u) = Elements(arrays, u)
               /\ Short(u, a.slice)
               /\ u.array # 0 /\ u.array = a.slice.array => u.array = w.array
    BY <1>4, <1>6, <2>2, <2>5, SliceKept, SMTT(60)
  <2>6. \A c \in DOMAIN cases, f \in 1..2 : Valid(arrays, Part(cases[c], f))
    BY DEF CaseInv, StoreInv
  <2>7. StoreInv'
    <3>1. \A c \in DOMAIN cases, f \in 1..2 : Valid(a.heap, Part(cases[c], f))
      BY <1>6, <2>5, <2>6
    <3>2. \A c \in DOMAIN cases : Distinct(a.heap, cases[c].evidence)
      <4> SUFFICES ASSUME NEW c \in DOMAIN cases  PROVE Distinct(a.heap, cases[c].evidence)
        OBVIOUS
      <4>1. 1 \in 1..2 /\ Part(cases[c], 1) = cases[c].evidence
        BY SMTT(60) DEF Part
      <4>2. \A i \in 1..cases[c].evidence.len :
                a.heap[cases[c].evidence.array][i] = arrays[cases[c].evidence.array][i]
        BY <1>6, <2>5, <2>6, <4>1, Zenon
      <4>3. Distinct(arrays, cases[c].evidence)
        BY DEF CaseInv, StoreInv
      <4> QED BY <4>2, <4>3, DistinctKept
    <3> QED BY <1>0, <1>3, <3>1, <3>2 DEF CaseInv, StoreInv
  <2>8. AddingInv'
    <3>1. ASSUME NEW c \in DOMAIN cases, NEW f \in 1..2
          PROVE  /\ Short(Part(cases[c], f), a.slice)
                 /\ a.slice.array # 0 /\ Part(cases[c], f).array = a.slice.array =>
                        c = adding.id /\ f = 1
      BY <1>6, <2>5, <2>6, ZenonT(60)
    <3> QED BY <1>0, <1>3, <1>7, <2>3, <2>4, <3>1, SMTT(60) DEF AddingInv
  <2>9. CopyInv'
    <3> SUFFICES ASSUME NEW q \in Requests, reply[q] # None  PROVE CopyOK(reply[q])'
      BY <1>0 DEF CopyInv
    <3>1. PICK p : p = reply[q]
      OBVIOUS
    <3>2. CopyOK(p) /\ IsReply(p)
      BY <3>1, SMTT(60) DEF CaseInv, CopyInv, CaseTypeOK
    <3>3. ASSUME NEW k \in DOMAIN p.copies, NEW g \in 1..2
          PROVE  /\ Valid(a.heap, Part(p.copies[k], g))
                 /\ Short(Part(p.copies[k], g), a.slice)
                 /\ Elements(a.heap, Part(p.copies[k], g)) = Elements(arrays, Part(p.copies[k], g))
      BY <1>0, <1>1, <2>5, <3>2, Zenon DEF CopyOK
    <3>4. p.read = Read(arrays', p.copies)
      BY <1>3, <3>2, <3>3, CopiesKept DEF CopyOK
    <3>5. CopyOK(p)'
      BY <1>0, <1>3, <1>7, <3>2, <3>3, <3>4, SMTT(60) DEF CopyOK
    <3> QED BY <1>0, <3>1, <3>5
  <2>10. IsAdding(adding)'
    BY <1>0, <1>4, <1>5, <1>7, <2>3 DEF IsAdding
  <2>11. CaseTypeOK'
    BY <1>0, <1>3, <2>3, <2>10 DEF CaseInv, CaseTypeOK, IsReply
  <2> QED BY <2>7, <2>8, <2>9, <2>11 DEF CaseInv
<1> QED BY <1>8, <1>9

(* The case a method returns is the one it leaves in the store.            *)
LEMMA MethodReturns ==
    ASSUME CaseAssumption, CaseInv, NEW r \in Requests, NEW id, id \in DOMAIN cases',
           NEW pc, adding' = None, arrays' \in Heaps, cases' \in Seq(CaseRecords), StoreInv',
           reply' = [reply EXCEPT ![r] = Returned(arrays', One(id, cases'[id]), pc)],
           \A q \in Requests : q # r /\ reply[q] # None => CopyOK(reply[q])'
    PROVE  CaseInv'
<1>1. PICK copies : copies = [k \in {id} |-> cases'[k]]
  BY Zenon
<1>2. copies = One(id, cases'[id])
  BY <1>1 DEF One
<1>3. PICK p : p = Returned(arrays', copies, pc)
  OBVIOUS
<1>4. {id} \subseteq DOMAIN cases'
  OBVIOUS
<1>5. CopyOK(p)' /\ IsReply(p)
  BY <1>1, <1>3, <1>4, CopiesMade, Zenon
<1>6. reply' = [reply EXCEPT ![r] = p]
  BY <1>2, <1>3
<1>7. reply = [q \in Requests |-> reply[q]] /\ \A q \in Requests : reply[q] = None \/ IsReply(reply[q])
  BY DEF CaseInv, CaseTypeOK
<1>8. reply'[r] = p /\ \A q \in Requests : q # r => reply'[q] = reply[q]
  BY <1>6, <1>7
<1>9. reply' = [q \in Requests |-> reply'[q]]
  BY <1>6, <1>7
<1>10. \A q \in Requests : reply'[q] = None \/ IsReply(reply'[q])
  BY <1>5, <1>7, <1>8, SMTT(60)
<1>11. CaseTypeOK'
  BY <1>9, <1>10 DEF CaseTypeOK, IsReply
<1>12. CopyInv'
  <2> SUFFICES ASSUME NEW q \in Requests, reply'[q] # None  PROVE CopyOK(reply[q])'
    BY SMTT(60) DEF CopyInv
  <2>1. CASE q = r
    BY <1>5, <1>8, <2>1, ZenonT(60) DEF CopyOK
  <2>2. CASE q # r
    BY <1>8, <2>2, SMTT(60)
  <2> QED BY <2>1, <2>2
<1>13. AddingInv'
  BY DEF AddingInv
<1> QED BY <1>11, <1>12, <1>13 DEF CaseInv

(* A field without an array disturbs no slice.                             *)
LEMMA StatusStep ==
    ASSUME CaseAssumption, CaseInv, NEW r \in Requests, NEW id \in DOMAIN cases, NEW status,
           SetStatus(r, id, status)
    PROVE  CaseInv'
<1>1. /\ adding = None /\ adding' = None /\ status \in {"open", "triage", "closed"}
      /\ arrays' = arrays
      /\ cases' = [cases EXCEPT ![id] = [cases[id] EXCEPT !.status = status]]
      /\ reply' = [reply EXCEPT ![r] =
            Returned(arrays, One(id, [cases[id] EXCEPT !.status = status]), "audit")]
  BY DEF SetStatus, Lock, mutate
<1>0. cases[id] \in CaseRecords
  BY DEF CaseInv, CaseTypeOK
<1>2. PICK c \in CaseRecords : c = [cases[id] EXCEPT !.status = status]
  <2>1. [cases[id] EXCEPT !.status = status] \in CaseRecords
    BY <1>0, <1>1 DEF CaseRecords
  <2> QED BY <2>1
<1>3. c.evidence = cases[id].evidence /\ c.comments = cases[id].comments
  BY <1>0, <1>2 DEF CaseRecords
<1>4. /\ cases' \in Seq(CaseRecords) /\ DOMAIN cases' = DOMAIN cases /\ cases'[id] = c
      /\ \A d \in DOMAIN cases : d # id => cases'[d] = cases[d]
  BY <1>1, <1>2 DEF CaseInv, CaseTypeOK
<1>5. \A d \in DOMAIN cases : /\ cases'[d].evidence = cases[d].evidence
                              /\ \A f \in 1..2 : Part(cases'[d], f) = Part(cases[d], f)
  BY <1>3, <1>4 DEF Part
<1>6. StoreInv'
  BY <1>1, <1>4, <1>5, SMTT(60) DEF CaseInv, StoreInv
<1>7. ASSUME NEW q \in Requests, q # r, reply[q] # None  PROVE CopyOK(reply[q])'
  <2>1. PICK p : p = reply[q]
    OBVIOUS
  <2>2. CopyOK(p) /\ reply'[q] = p
    BY <1>1, <1>7, <2>1 DEF CaseInv, CopyInv, CaseTypeOK
  <2>3. CopyOK(p)'
    BY <1>1, <1>4, <1>5, <2>2 DEF CopyOK
  <2> QED BY <2>2, <2>3, Zenon DEF CopyOK
<1>8. arrays' \in Heaps
  BY <1>1 DEF CaseInv, CaseTypeOK
<1>9. reply' = [reply EXCEPT ![r] = Returned(arrays', One(id, cases'[id]), "audit")]
  BY <1>1, <1>2, <1>4
<1> QED BY <1>1, <1>4, <1>6, <1>7, <1>8, <1>9, MethodReturns, Zenon

(* What a change of arrays into heap leaves alone: all slices of the store *)
(* but one, which t replaces in an array no other slice is in, ...         *)
StoreKept(heap, id, h, t) ==
    \A d \in DOMAIN cases, f \in 1..2 : d # id \/ f # h =>
        /\ Valid(heap, Part(cases[d], f))
        /\ \A i \in 1..Part(cases[d], f).len :
              heap[Part(cases[d], f).array][i] = arrays[Part(cases[d], f).array][i]
        /\ Part(cases[d], f).array # 0 => Part(cases[d], f).array # t.array

(* ... and all copies, none of which reaches beyond t.                     *)
CopiesPass(heap, t) ==
    \A q \in Requests : reply[q] # None =>
        \A k \in DOMAIN reply[q].copies, g \in 1..2 :
            /\ Valid(heap, Part(reply[q].copies[k], g))
            /\ Short(Part(reply[q].copies[k], g), t)
            /\ Elements(heap, Part(reply[q].copies[k], g)) =
                  Elements(arrays, Part(reply[q].copies[k], g))

(* A case takes a slice in place of one of its own, in an array that no    *)
(* other slice of the store is in and that copies do not reach beyond.     *)
LEMMA SliceTaken ==
    ASSUME CaseAssumption, CaseInv, NEW r \in Requests, NEW id \in DOMAIN cases,
           NEW h \in 1..2, NEW t, NEW c \in CaseRecords,
           Part(c, h) = t, \A f \in 1..2 : f # h => Part(c, f) = Part(cases[id], f),
           arrays' \in Heaps, adding' = None,
           cases' = [cases EXCEPT ![id] = c],
           reply' = [reply EXCEPT ![r] = Returned(arrays', One(id, c), "audit")],
           Valid(arrays', t), h = 1 => Distinct(arrays', t),
           StoreKept(arrays', id, h, t), CopiesPass(arrays', t)
    PROVE  /\ id \in DOMAIN cases' /\ cases' \in Seq(CaseRecords) /\ StoreInv'
           /\ reply' = [reply EXCEPT ![r] = Returned(arrays', One(id, cases'[id]), "audit")]
           /\ \A q \in Requests : q # r /\ reply[q] # None => CopyOK(reply[q])'
<1>1. /\ cases' \in Seq(CaseRecords) /\ DOMAIN cases' = DOMAIN cases /\ cases'[id] = c
      /\ \A d \in DOMAIN cases : d # id => cases'[d] = cases[d]
  BY DEF CaseInv, CaseTypeOK
<1>2. \A d \in DOMAIN cases, f \in 1..2 :
          Part(cases'[d], f) = IF d = id /\ f = h THEN t ELSE Part(cases[d], f)
  BY <1>1
<1>3. \A d \in DOMAIN cases, f \in 1..2 : Valid(arrays', Part(cases'[d], f))
  BY <1>2 DEF StoreKept
<1>4. \A d \in DOMAIN cases : Distinct(arrays', cases'[d].evidence)
  <2> SUFFICES ASSUME NEW d \in DOMAIN cases  PROVE Distinct(arrays', cases'[d].evidence)
    OBVIOUS
  <2>1. 1 \in 1..2 /\ cases'[d].evidence = Part(cases'[d], 1)
        /\ cases[d].evidence = Part(cases[d], 1)
    BY DEF Part
  <2>2. CASE d = id /\ h = 1
    BY <1>2, <2>1, <2>2, SMTT(60)
  <2>3. CASE d # id \/ h # 1
    <3>1. cases'[d].evidence = Part(cases[d], 1)
      BY <1>2, <2>1, <2>3
    <3>2. Distinct(arrays, Part(cases[d], 1))
      BY <2>1 DEF CaseInv, StoreInv
    <3>3. \A i \in 1..Part(cases[d], 1).len :
             arrays'[Part(cases[d], 1).array][i] = arrays[Part(cases[d], 1).array][i]
      BY <2>1, <2>3 DEF StoreKept
    <3> QED BY <3>1, <3>2, <3>3, DistinctKept
  <2> QED BY <2>2, <2>3
<1>5. ASSUME NEW d \in DOMAIN cases, NEW e \in DOMAIN cases, NEW f \in 1..2, NEW g \in 1..2,
             Part(cases'[d], f).array # 0, Part(cases'[d], f).array = Part(cases'[e], g).array
      PROVE  d = e /\ f = g
  <2>1. CASE (d = id /\ f = h) /\ (e = id /\ g = h)
    BY <2>1
  <2>2. CASE ~ (d = id /\ f = h) /\ ~ (e = id /\ g = h)
    BY <1>2, <1>5, <2>2, SMTT(60) DEF CaseInv, StoreInv
  <2>3. CASE (d = id /\ f = h) /\ ~ (e = id /\ g = h)
    BY <1>2, <1>5, <2>3, SMTT(60) DEF StoreKept
  <2>4. CASE ~ (d = id /\ f = h) /\ (e = id /\ g = h)
    BY <1>2, <1>5, <2>4, SMTT(60) DEF StoreKept
  <2> QED BY <2>1, <2>2, <2>3, <2>4
<1>6. StoreInv'
  BY <1>1, <1>3, <1>4, <1>5, SMTT(60) DEF StoreInv
<1>7. ASSUME NEW q \in Requests, q # r, reply[q] # None  PROVE CopyOK(reply[q])'
  <2>1. PICK p : p = reply[q]
    OBVIOUS
  <2>2. CopyOK(p) /\ IsReply(p) /\ reply'[q] = p
    BY <1>7, <2>1 DEF CaseInv, CopyInv, CaseTypeOK
  <2>3. \A k \in DOMAIN p.copies, g \in 1..2 :
            Elements(arrays', Part(p.copies[k], g)) = Elements(arrays, Part(p.copies[k], g))
    BY <1>7, <2>1 DEF CopiesPass
  <2>4. p.read = Read(arrays', p.copies)
    BY <2>2, <2>3, CopiesKept DEF CopyOK
  <2>5. ASSUME NEW k \in DOMAIN p.copies, NEW g \in 1..2, NEW d \in DOMAIN cases,
               NEW f \in 1..2
        PROVE  Short(Part(p.copies[k], g), Part(cases'[d], f))
    <3>1. CASE d = id /\ f = h
      BY <1>2, <1>7, <2>1, <3>1, SMTT(60) DEF CopiesPass
    <3>2. CASE ~ (d = id /\ f = h)
      BY <1>2, <2>2, <3>2, SMTT(60) DEF CopyOK
    <3> QED BY <3>1, <3>2, SMTT(60)
  <2>6. CopyOK(p)'
    BY <1>1, <1>7, <2>1, <2>4, <2>5 DEF CopyOK, CopiesPass
  <2> QED BY <2>2, <2>6, SMTT(60) DEF CopyOK
<1>8. reply' = [reply EXCEPT ![r] = Returned(arrays', One(id, cases'[id]), "audit")]
  BY <1>1
<1>9. id \in DOMAIN cases' /\ cases' \in Seq(CaseRecords)
  BY <1>1
<1> QED BY <1>6, <1>7, <1>8, <1>9

(* A comment goes behind those that copies have.                           *)
LEMMA CommentStep ==
    ASSUME CaseAssumption, CaseInv, NEW r \in Requests, NEW id \in DOMAIN cases,
           AddComment(r, id)
    PROVE  CaseInv'
<1>1. PICK w : w = cases[id].comments
  OBVIOUS
<1>2. PICK a : a = append(arrays, w, "comment")
  OBVIOUS
<1>3. /\ adding = None /\ adding' = None /\ arrays' = a.heap
      /\ cases' = [cases EXCEPT ![id] = [cases[id] EXCEPT !.comments = a.slice]]
      /\ reply' = [reply EXCEPT ![r] =
            Returned(a.heap, One(id, [cases[id] EXCEPT !.comments = a.slice]), "audit")]
  BY <1>1, <1>2 DEF AddComment, Lock, mutate
<1>4. cases[id] \in CaseRecords /\ arrays \in Heaps
  BY DEF CaseInv, CaseTypeOK
<1>5. 2 \in 1..2 /\ 1 \in 1..2 /\ w = Part(cases[id], 2)
  BY <1>1 DEF Part
<1>6. Valid(arrays, w)
  BY <1>5 DEF CaseInv, StoreInv
<1>7. Grows(arrays, w, "comment", a)
  BY <1>2, <1>4, <1>6, AppendGrows, SMTT(60) DEF CaseAssumption
<1>8. PICK t \in Slices : t = a.slice
  BY <1>7, Zenon DEF Grows
<1>9. PICK c \in CaseRecords : c = [cases[id] EXCEPT !.comments = t]
  <2>1. [cases[id] EXCEPT !.comments = t] \in CaseRecords
    BY <1>4, <1>8 DEF CaseRecords
  <2> QED BY <2>1
<1>10. c.comments = t /\ c.evidence = cases[id].evidence
  BY <1>4, <1>9 DEF CaseRecords
<1>11. Part(c, 2) = t /\ \A f \in 1..2 : f # 2 => Part(c, f) = Part(cases[id], f)
  BY <1>10 DEF Part
<1>12. arrays' \in Heaps /\ Valid(arrays', t) /\ t.array # 0
  BY <1>3, <1>7, <1>8 DEF Grows
<1>13. ASSUME NEW u, Valid(arrays, u), Short(u, w)
       PROVE  /\ Valid(arrays', u)
              /\ \A i \in 1..u.len : arrays'[u.array][i] = arrays[u.array][i]
              /\ Elements(arrays', u) = Elements(arrays, u)
              /\ Short(u, t)
              /\ u.array # 0 /\ u.array = t.array => u.array = w.array
  BY <1>3, <1>4, <1>6, <1>7, <1>8, <1>13, SliceKept, SMTT(60)
<1>14. ASSUME NEW d \in DOMAIN cases, NEW f \in 1..2, d # id \/ f # 2
       PROVE  /\ Valid(arrays', Part(cases[d], f))
              /\ \A i \in 1..Part(cases[d], f).len :
                    arrays'[Part(cases[d], f).array][i] = arrays[Part(cases[d], f).array][i]
              /\ Part(cases[d], f).array # 0 => Part(cases[d], f).array # t.array
  <2>1. Valid(arrays, Part(cases[d], f))
    BY DEF CaseInv, StoreInv
  <2>2. Part(cases[d], f).array # 0 => Part(cases[d], f).array # w.array
    BY <1>5, <1>14 DEF CaseInv, StoreInv
  <2>3. Short(Part(cases[d], f), w)
    BY <2>2, SMTT(60) DEF Short
  <2> QED BY <1>13, <2>1, <2>2, <2>3, Zenon
<1>15. ASSUME NEW q \in Requests, reply[q] # None, NEW k \in DOMAIN reply[q].copies, NEW g \in 1..2
       PROVE  LET u == Part(reply[q].copies[k], g) IN
              /\ Valid(arrays', u) /\ Short(u, t)
              /\ Elements(arrays', u) = Elements(arrays, u)
  <2>1. Valid(arrays, Part(reply[q].copies[k], g)) /\ Short(Part(reply[q].copies[k], g), w)
    BY <1>5, <1>15, Zenon DEF CaseInv, CopyInv, CopyOK
  <2> QED BY <1>13, <2>1, ZenonT(60)
<1>16. /\ id \in DOMAIN cases' /\ cases' \in Seq(CaseRecords) /\ StoreInv'
       /\ reply' = [reply EXCEPT ![r] = Returned(arrays', One(id, cases'[id]), "audit")]
       /\ \A q \in Requests : q # r /\ reply[q] # None => CopyOK(reply[q])'
  <2>1. /\ cases' = [cases EXCEPT ![id] = c]
        /\ reply' = [reply EXCEPT ![r] = Returned(arrays', One(id, c), "audit")]
    BY <1>3, <1>8, <1>9
  <2>2. 2 = 1 => Distinct(arrays', t)
    OBVIOUS
  <2>3. StoreKept(arrays', id, 2, t)
    BY <1>14, Zenon DEF StoreKept
  <2>4. CopiesPass(arrays', t)
    BY <1>15 DEF CopiesPass
  <2> QED BY <1>3, <1>5, <1>11, <1>12, <2>1, <2>2, <2>3, <2>4, SliceTaken, Zenon
<1> QED BY <1>3, <1>12, <1>16, MethodReturns, Zenon

(* The evidence of a case is replaced by what the loop made of it.         *)
LEMMA EvidenceStep ==
    ASSUME CaseAssumption, CaseInv, Added, adding.id \in DOMAIN cases
    PROVE  CaseInv'
<1>1. PICK t : t = adding.slice
  OBVIOUS
<1>2. adding # None /\ IsAdding(adding)
  BY DEF Added, CaseInv, CaseTypeOK
<1>3. PICK r \in Requests, id \in DOMAIN cases : r = adding.by /\ id = adding.id
  BY <1>2 DEF IsAdding
<1>4. /\ adding' = None /\ arrays' = arrays
      /\ cases' = [cases EXCEPT ![id] = [cases[id] EXCEPT !.evidence = t]]
      /\ reply' = [reply EXCEPT ![r] =
            Returned(arrays, One(id, [cases[id] EXCEPT !.evidence = t]), "audit")]
  BY <1>1, <1>3 DEF Added, mutate
<1>5. cases[id] \in CaseRecords /\ arrays' \in Heaps /\ t \in Slices
  BY <1>1, <1>2, <1>4 DEF CaseInv, CaseTypeOK, IsAdding
<1>6. PICK c \in CaseRecords : c = [cases[id] EXCEPT !.evidence = t]
  <2>1. [cases[id] EXCEPT !.evidence = t] \in CaseRecords
    BY <1>5 DEF CaseRecords
  <2> QED BY <2>1
<1>7. c.evidence = t /\ c.comments = cases[id].comments
  BY <1>5, <1>6 DEF CaseRecords
<1>8. Part(c, 1) = t /\ \A f \in 1..2 : f # 1 => Part(c, f) = Part(cases[id], f)
  BY <1>7 DEF Part
<1>9. /\ Valid(arrays', t) /\ Distinct(arrays', t)
      /\ \A d \in DOMAIN cases, f \in 1..2 :
            t.array # 0 /\ Part(cases[d], f).array = t.array => d = id /\ f = 1
  BY <1>1, <1>2, <1>3, <1>4 DEF CaseInv, AddingInv
<1>10. ASSUME NEW d \in DOMAIN cases, NEW f \in 1..2, d # id \/ f # 1
       PROVE  /\ Valid(arrays', Part(cases[d], f))
              /\ \A i \in 1..Part(cases[d], f).len :
                    arrays'[Part(cases[d], f).array][i] = arrays[Part(cases[d], f).array][i]
              /\ Part(cases[d], f).array # 0 => Part(cases[d], f).array # t.array
  <2>1. Valid(arrays, Part(cases[d], f))
    BY Zenon DEF CaseInv, StoreInv
  <2> QED BY <1>4, <1>9, <1>10, <2>1, SMTT(60)
<1>11. ASSUME NEW q \in Requests, reply[q] # None, NEW k \in DOMAIN reply[q].copies, NEW g \in 1..2
       PROVE  LET u == Part(reply[q].copies[k], g) IN
              /\ Valid(arrays', u) /\ Short(u, t)
              /\ Elements(arrays', u) = Elements(arrays, u)
  BY <1>1, <1>2, <1>4, <1>11 DEF CaseInv, CopyInv, CopyOK
<1>12. /\ id \in DOMAIN cases' /\ cases' \in Seq(CaseRecords) /\ StoreInv'
       /\ reply' = [reply EXCEPT ![r] = Returned(arrays', One(id, cases'[id]), "audit")]
       /\ \A q \in Requests : q # r /\ reply[q] # None => CopyOK(reply[q])'
  <2>1. /\ cases' = [cases EXCEPT ![id] = c]
        /\ reply' = [reply EXCEPT ![r] = Returned(arrays', One(id, c), "audit")]
    BY <1>4, <1>6
  <2>2. 1 \in 1..2
    OBVIOUS
  <2>3. StoreKept(arrays', id, 1, t)
    BY <1>10 DEF StoreKept
  <2>4. CopiesPass(arrays', t)
    BY <1>11, ZenonT(60) DEF CopiesPass
  <2> QED BY <1>4, <1>5, <1>8, <1>9, <2>1, <2>2, <2>3, <2>4, SliceTaken, ZenonT(60)
<1> QED BY <1>4, <1>5, <1>12, MethodReturns, Zenon

(* A new case is put into the store with the array the loop made.          *)
LEMMA CreateStep ==
    ASSUME CaseAssumption, CaseInv, Added, adding.id \notin DOMAIN cases
    PROVE  CaseInv'
<1>1. PICK t : t = adding.slice
  OBVIOUS
<1>2. adding # None /\ IsAdding(adding)
  BY DEF Added, CaseInv, CaseTypeOK
<1>3. PICK id \in Nat : id = Len(cases) + 1
  BY DEF CaseInv, CaseTypeOK
<1>4. PICK r \in Requests : r = adding.by
  BY <1>2 DEF IsAdding
<1>5. adding.id = id /\ cases \in Seq(CaseRecords) /\ arrays \in Heaps /\ t \in Slices
  BY <1>1, <1>2, <1>3 DEF CaseInv, CaseTypeOK, IsAdding
<1>6. PICK c \in CaseRecords : c = [status |-> "open", evidence |-> t, comments |-> nil]
  <2>1. [status |-> "open", evidence |-> t, comments |-> nil] \in CaseRecords
    BY <1>5 DEF CaseRecords, nil, Slices
  <2> QED BY <2>1
<1>7. /\ adding' = None /\ arrays' = arrays /\ cases' = Append(cases, c)
      /\ reply' = [reply EXCEPT ![r] = Returned(arrays, One(id, c), "audit")]
  BY <1>1, <1>4, <1>5, <1>6, SMTT(60) DEF Added
<1>8. /\ cases' \in Seq(CaseRecords) /\ id \in DOMAIN cases' /\ cases'[id] = c
      /\ DOMAIN cases' = DOMAIN cases \cup {id} /\ id \notin DOMAIN cases
      /\ \A d \in DOMAIN cases : cases'[d] = cases[d]
  BY <1>3, <1>5, <1>6, <1>7, SMTT(60)
<1>9. Part(c, 1) = t /\ Part(c, 2) = nil /\ c.evidence = t
  BY <1>6, SMTT(60) DEF Part
<1>10. /\ Valid(arrays, t) /\ Distinct(arrays, t)
       /\ \A d \in DOMAIN cases, f \in 1..2 :
             t.array # 0 => Part(cases[d], f).array # t.array
  BY <1>1, <1>2, <1>5, <1>8, Zenon DEF CaseInv, AddingInv
<1>11. Valid(arrays, nil) /\ nil.array = 0
  BY <1>5, SMTT(60) DEF Valid, nil, Slices, Heaps
<1>12. \A d \in DOMAIN cases', f \in 1..2 : Valid(arrays, Part(cases'[d], f))
  <2> SUFFICES ASSUME NEW d \in DOMAIN cases', NEW f \in 1..2
               PROVE  Valid(arrays, Part(cases'[d], f))
    BY SMTT(60)
  <2>1. CASE d = id
    BY <1>8, <1>9, <1>10, <1>11, <2>1, SMTT(60)
  <2>2. CASE d \in DOMAIN cases
    BY <1>8, <2>2, Zenon DEF CaseInv, StoreInv
  <2> QED BY <1>8, <2>1, <2>2
<1>13. \A d \in DOMAIN cases' : Distinct(arrays, cases'[d].evidence)
  BY <1>8, <1>9, <1>10, SMTT(60) DEF CaseInv, StoreInv
<1>14. ASSUME NEW d \in DOMAIN cases', NEW e \in DOMAIN cases', NEW f \in 1..2, NEW g \in 1..2,
              Part(cases'[d], f).array # 0, Part(cases'[d], f).array = Part(cases'[e], g).array
       PROVE  d = e /\ f = g
  <2>1. CASE d = id /\ e = id
    BY <1>8, <1>9, <1>11, <1>14, <2>1, SMTT(60)
  <2>2. CASE d = id /\ e \in DOMAIN cases
    BY <1>8, <1>9, <1>10, <1>11, <1>14, <2>2, SMTT(60)
  <2>3. CASE d \in DOMAIN cases /\ e = id
    BY <1>8, <1>9, <1>10, <1>11, <1>14, <2>3, SMTT(60)
  <2>4. CASE d \in DOMAIN cases /\ e \in DOMAIN cases
    BY <1>8, <1>14, <2>4, SMTT(60) DEF CaseInv, StoreInv
  <2> QED BY <1>8, <2>1, <2>2, <2>3, <2>4, SMTT(60)
<1>15. StoreInv'
  <2>1. \A d \in DOMAIN cases', f \in 1..2 : Valid(arrays', Part(cases'[d], f))
    BY <1>7, <1>12, Zenon
  <2>2. \A d \in DOMAIN cases' : Distinct(arrays', cases'[d].evidence)
    BY <1>7, <1>13, Zenon
  <2>3. \A d, e \in DOMAIN cases', f, g \in 1..2 :
           Part(cases'[d], f).array # 0 /\ Part(cases'[d], f).array = Part(cases'[e], g).array =>
              d = e /\ f = g
    BY <1>14
  <2> QED BY <2>1, <2>2, <2>3 DEF StoreInv
<1>16. ASSUME NEW q \in Requests, q # r, reply[q] # None  PROVE CopyOK(reply[q])'
  <2>1. PICK p : p = reply[q]
    OBVIOUS
  <2>2. CopyOK(p) /\ reply'[q] = p
    BY <1>7, <1>16, <2>1 DEF CaseInv, CopyInv, CaseTypeOK
  <2>3. ASSUME NEW k \in DOMAIN p.copies, NEW g \in 1..2, NEW d \in DOMAIN cases', NEW f \in 1..2
        PROVE  Short(Part(p.copies[k], g), Part(cases'[d], f))
    <3>1. CASE d \in DOMAIN cases
      BY <1>8, <2>2, <3>1, SMTT(60) DEF CopyOK
    <3>2. CASE d = id
      <4>1. Short(Part(p.copies[k], g), t)
        BY <1>1, <1>2, <2>2, Zenon DEF CopyOK
      <4>2. Short(Part(p.copies[k], g), nil)
        BY <1>11, SMTT(60) DEF Short
      <4> QED BY <1>8, <1>9, <3>2, <4>1, <4>2, SMTT(60)
    <3> QED BY <1>8, <3>1, <3>2, Zenon
  <2>4. CopyOK(p)'
    BY <1>7, <2>2, <2>3, ZenonT(60) DEF CopyOK
  <2> QED BY <2>2, <2>4, ZenonT(60) DEF CopyOK
<1>17. arrays' \in Heaps /\ reply' = [reply EXCEPT ![r] = Returned(arrays', One(id, cases'[id]), "audit")]
  BY <1>5, <1>7, <1>8, ZenonT(60)
<1>18. adding' = None /\ id \in DOMAIN cases' /\ cases' \in Seq(CaseRecords)
  BY <1>7, <1>8, Zenon
<1> QED BY <1>15, <1>16, <1>17, <1>18, MethodReturns, Zenon

(* The store is left as it is.                                             *)
LEMMA StoreSame ==
    ASSUME StoreInv, AddingInv, UNCHANGED <<arrays, cases, adding>>
    PROVE  StoreInv' /\ AddingInv'
<1>1. StoreInv'
  BY DEF StoreInv
<1>2. AddingInv'
  BY DEF AddingInv
<1> QED BY <1>1, <1>2

(* A request takes, or gives up, what it holds; the store is left as it is.*)
LEMMA ReadStep ==
    ASSUME CaseAssumption, CaseInv, NEW r \in Requests,
           UNCHANGED <<arrays, cases, adding>>, NEW p,
           p = None \/ (CopyOK(p)' /\ IsReply(p)), reply' = [reply EXCEPT ![r] = p]
    PROVE  CaseInv'
<1>1. reply = [q \in Requests |-> reply[q]] /\ \A q \in Requests : reply[q] = None \/ IsReply(reply[q])
  BY DEF CaseInv, CaseTypeOK
<1>2. reply'[r] = p /\ \A q \in Requests : q # r => reply'[q] = reply[q]
  BY <1>1
<1>3. reply' = [q \in Requests |-> reply'[q]]
  BY <1>1
<1>4. \A q \in Requests : reply'[q] = None \/ IsReply(reply'[q])
  BY <1>1, <1>2, SMTT(60)
<1>5. CaseTypeOK'
  BY <1>3, <1>4, Zenon DEF CaseInv, CaseTypeOK, IsAdding, IsReply
<1>6. StoreInv' /\ AddingInv'
  BY StoreSame, Zenon DEF CaseInv
<1>7. CopyInv'
  <2> SUFFICES ASSUME NEW q \in Requests, reply'[q] # None  PROVE CopyOK(reply[q])'
    BY ZenonT(60) DEF CopyInv
  <2>1. CASE q = r
    BY <1>2, <2>1, SMTT(60) DEF CopyOK
  <2>2. CASE q # r
    BY <1>2, <2>2, ZenonT(60) DEF CaseInv, CopyInv, CopyOK
  <2> QED BY <2>1, <2>2
<1> QED BY <1>5, <1>6, <1>7 DEF CaseInv

(* List copies from a store that stays as it is.                           *)
LEMMA ListStep ==
    ASSUME CaseAssumption, CaseInv, NEW r \in Requests, adding = None,
           UNCHANGED <<arrays, cases, adding>>, NEW ids, ids \subseteq DOMAIN cases,
           reply' = [reply EXCEPT ![r] =
                        Returned(arrays, [id \in ids |-> cases[id]], "encode")]
    PROVE  CaseInv'
<1>1. PICK copies : copies = [k \in ids |-> cases'[k]]
  OBVIOUS
<1>2. PICK p : p = Returned(arrays', copies, "encode")
  OBVIOUS
<1>3. StoreInv' /\ cases' \in Seq(CaseRecords) /\ ids \subseteq DOMAIN cases'
  BY SMTT(60) DEF CaseInv, CaseTypeOK, StoreInv
<1>4. CopyOK(p)' /\ IsReply(p)
  BY <1>1, <1>2, <1>3, CopiesMade, Zenon
<1>5. reply' = [reply EXCEPT ![r] = p]
  BY <1>1, <1>2
<1> QED BY <1>4, <1>5, ReadStep

(* Get is a List of one case.                                              *)
LEMMA GetStep ==
    ASSUME CaseAssumption, CaseInv, NEW r \in Requests, NEW id \in DOMAIN cases, Get(r, id)
    PROVE  CaseInv'
<1>1. PICK ids : ids = {id}
  BY Zenon
<1>2. One(id, cases[id]) = [k \in ids |-> cases[k]]
  BY <1>1 DEF One
<1>3. /\ adding = None /\ UNCHANGED <<arrays, cases, adding>>
      /\ reply' = [reply EXCEPT ![r] = Returned(arrays, [k \in ids |-> cases[k]], "encode")]
  BY <1>2 DEF Get, Lock
<1> QED BY <1>1, <1>3, ListStep

(* The handler goes on to encode what it holds.                            *)
LEMMA AuditStep ==
    ASSUME CaseAssumption, CaseInv, NEW r \in Requests, Audit(r)
    PROVE  CaseInv'
<1>1. /\ reply[r].pc = "audit" /\ reply' = [reply EXCEPT ![r].pc = "encode"]
      /\ UNCHANGED <<arrays, cases, adding>>
  BY DEF Audit
<1>2. reply[r] # None
  BY <1>1 DEF None
<1>3. IsReply(reply[r]) /\ CopyOK(reply[r])
  BY <1>2 DEF CaseInv, CaseTypeOK, CopyInv
<1>4. PICK copies, read : copies = reply[r].copies /\ read = reply[r].read
  OBVIOUS
<1>5. PICK p : p = [pc |-> "encode", copies |-> copies, read |-> read]
  BY Zenon
<1>6. reply[r] = [pc |-> "audit", copies |-> copies, read |-> read]
  BY <1>1, <1>3, <1>4 DEF IsReply
<1>7. reply' = [reply EXCEPT ![r] = p]
  <2>1. reply' = [reply EXCEPT ![r] = [reply[r] EXCEPT !.pc = "encode"]]
    BY <1>1
  <2>2. [reply[r] EXCEPT !.pc = "encode"] = p
    BY <1>5, <1>6
  <2> QED BY <2>1, <2>2, Zenon
<1>8. p.copies = copies /\ p.read = read /\ p.pc = "encode"
  BY <1>5, SMTT(60)
<1>9. IsReply(p)
  BY <1>3, <1>4, <1>5, <1>8 DEF IsReply
<1>10. CopyOK(p)'
  BY <1>1, <1>3, <1>4, <1>8 DEF CopyOK
<1> QED BY <1>1, <1>7, <1>9, <1>10, ReadStep, Zenon

(* The handler is done with its copies.                                    *)
LEMMA EncodeStep ==
    ASSUME CaseAssumption, CaseInv, NEW r \in Requests, Encode(r)
    PROVE  CaseInv'
<1>1. reply' = [reply EXCEPT ![r] = None] /\ UNCHANGED <<arrays, cases, adding>>
  BY DEF Encode
<1> QED BY <1>1, ReadStep, Zenon

(* Every step of a handler keeps copies and store apart.                   *)
LEMMA CaseStep == ASSUME CaseAssumption, CaseInv, [Next]_vars  PROVE CaseInv'
<1>1. CASE Add
  BY <1>1, LoopStep
<1>2. CASE Added
  BY <1>2, EvidenceStep, CreateStep
<1>3. ASSUME NEW r \in Requests, NEW ids \in Lists, Create(r, ids)  PROVE CaseInv'
  <2>0. PICK id \in 1..(Len(cases) + 1) : id = Len(cases) + 1
    BY DEF CaseInv, CaseTypeOK
  <2>1. PICK slice : slice = nil
    OBVIOUS
  <2>2. adding = None /\ adding' = Adding(r, id, slice, ids) /\ UNCHANGED <<arrays, cases, reply>>
    BY <1>3, <2>0, <2>1 DEF Create, Lock
  <2> QED BY <2>1, <2>2, LoopStarts
<1>4. ASSUME NEW r \in Requests, NEW id \in DOMAIN cases, NEW ids \in Lists, AddEvidence(r, id, ids)
      PROVE  CaseInv'
  <2>1. PICK slice : slice = cases[id].evidence
    OBVIOUS
  <2>2. adding = None /\ adding' = Adding(r, id, slice, ids) /\ UNCHANGED <<arrays, cases, reply>>
    BY <1>4, <2>1 DEF AddEvidence, Lock
  <2>3. id \in 1..(Len(cases) + 1)
    BY DEF CaseInv, CaseTypeOK
  <2> QED BY <2>1, <2>2, <2>3, LoopStarts
<1>5. ASSUME NEW r \in Requests, NEW status, List(r, status)  PROVE CaseInv'
  <2>1. PICK ids : ids = {id \in DOMAIN cases : status \in {Blank, cases[id].status}}
    BY Zenon
  <2>2. ids \subseteq DOMAIN cases
    BY <2>1
  <2>3. /\ adding = None /\ UNCHANGED <<arrays, cases, adding>>
        /\ reply' = [reply EXCEPT ![r] = Returned(arrays, [id \in ids |-> cases[id]], "encode")]
    BY <1>5, <2>1, Zenon DEF List, Lock
  <2> QED BY <2>2, <2>3, ListStep
<1>6. CASE UNCHANGED vars
  <2>1. UNCHANGED <<arrays, cases, adding>> /\ reply' = reply
    BY <1>6, Zenon DEF vars
  <2>2. StoreInv' /\ AddingInv'
    BY <2>1, StoreSame, Zenon DEF CaseInv
  <2>3. CaseTypeOK'
    BY <2>1, ZenonT(60) DEF CaseInv, CaseTypeOK, IsAdding, IsReply
  <2>4. CopyInv'
    <3> SUFFICES ASSUME NEW r \in Requests, reply[r] # None  PROVE CopyOK(reply[r])'
      BY <2>1, Zenon DEF CopyInv
    <3>1. CopyOK(reply[r])
      BY Zenon DEF CaseInv, CopyInv
    <3> QED BY <2>1, <3>1 DEF CopyOK
  <2> QED BY <2>2, <2>3, <2>4, Zenon DEF CaseInv
<1> QED
  BY <1>1, <1>2, <1>3, <1>4, <1>5, <1>6, StatusStep, CommentStep, GetStep, AuditStep, EncodeStep
  DEF Next

(* Whatever handlers do between the steps of others, a copy of a case      *)
(* reads as it did when the store returned it, and no case lists an alert  *)
(* twice as evidence.                                                      *)
THEOREM SnapshotsStayStable == ASSUME CaseAssumption  PROVE Spec => []SnapshotsAreStable
<1>1. CaseInv => SnapshotsAreStable
  <2> SUFFICES ASSUME CaseInv  PROVE SnapshotsAreStable
    OBVIOUS
  <2>1. \A r \in Requests : reply[r] # None => reply[r].read = Read(arrays, reply[r].copies)
    BY ZenonT(60) DEF CaseInv, CopyInv, CopyOK
  <2>2. ASSUME NEW c \in DOMAIN cases, NEW i \in DOMAIN Elements(arrays, cases[c].evidence),
               NEW j \in DOMAIN Elements(arrays, cases[c].evidence),
               Elements(arrays, cases[c].evidence)[i] = Elements(arrays, cases[c].evidence)[j]
        PROVE  i = j
    BY <2>2 DEF CaseInv, StoreInv, Distinct, Elements
  <2> QED BY <2>1, <2>2 DEF SnapshotsAreStable
<1> QED BY CasesStart, CaseStep, <1>1, PTL DEF Spec
=============================================================================
