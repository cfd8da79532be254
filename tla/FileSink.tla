------------------------------ MODULE FileSink ------------------------------
(***************************************************************************)
(* The rotating log file of the agent (internal/output/file.go): the file  *)
(* at path, the rotated "path.1", and the sink that appends to the first   *)
(* through a handle and a byte count of its own.  A write happens under    *)
(* the sink's mutex; the system calls in it may fail one by one, and the   *)
(* process may stop in between and open the file again.                    *)
(***************************************************************************)
EXTENDS Naturals, Sequences

CONSTANTS
    Sizes,              \* bytes of a line
    rotateMaxBytes,
    MaxLines,           \* bound: lines offered to the sink
    MaxFaults           \* bound: system calls that fail, and restarts

VARIABLES
    path,       \* lines of the file at path
    rotated,    \* lines of "path.1"
    handle,     \* "open" on path, or "closed"
    size,       \* FileSink.size
    offered,    \* lines offered so far
    accepted,   \* history: the number of lines whose write returned no error
    faults      \* faults so far

vars == <<path, rotated, handle, size, offered, accepted, faults>>

(* A line is its number among those accepted and where it ends in the      *)
(* file.  A write that fails halfway leaves a torn one, without a number.  *)
Line(n, end) == [n |-> n, end |-> end]
Torn == 0

Bytes(lines) == IF lines = << >> THEN 0 ELSE lines[Len(lines)].end

Init ==
    /\ path = << >>
    /\ rotated = << >>
    /\ handle = "open"
    /\ size = 0
    /\ offered = 0
    /\ accepted = 0
    /\ faults = 0

(* A faulty NewFile that counts from nothing.                              *)
NewFileAtZero ==
    /\ handle' = "open"
    /\ size' = 0

(* NewFile opens for appending and takes the size from Stat.               *)
NewFile ==
    /\ handle' = "open"
    /\ size' = Bytes(path)

(* The agent stops, or dies at any point of a write, and starts again.     *)
Restart ==
    /\ faults < MaxFaults
    /\ faults' = faults + 1
    /\ NewFile
    /\ UNCHANGED <<path, rotated, offered, accepted>>

-----------------------------------------------------------------------------
full(bytes) == rotateMaxBytes > 0 /\ size + bytes > rotateMaxBytes

(* rotateIfNeeded: Close (an error when a past rotation left the handle    *)
(* closed), Rename over "path.1", OpenFile.  It stops at the call that     *)
(* fails.  The result is the state it leaves.                              *)
Kept == [path |-> path, rotated |-> rotated, handle |-> handle, size |-> size]

rotateIfNeeded(bytes, fails) ==
    IF ~full(bytes) \/ handle = "closed" THEN Kept
    ELSE CASE fails = "rename" -> [Kept EXCEPT !.handle = "closed"]
           [] fails = "open"   -> [Kept EXCEPT !.handle = "closed", !.path = << >>,
                                               !.rotated = path]
           [] OTHER            -> [path |-> << >>, rotated |-> path, handle |-> "open",
                                   size |-> 0]

(* The handle appends n bytes of a line.                                   *)
Appended(r, number, n) ==
    /\ path' = Append(r.path, Line(number, Bytes(r.path) + n))
    /\ size' = r.size + n

(* A line is written unless the rotation failed or the handle is closed.   *)
write(bytes, fails) ==
    LET r == rotateIfNeeded(bytes, fails) IN
    /\ rotated' = r.rotated
    /\ handle' = r.handle
    /\ \/ /\ r.handle = "closed" \/ fails = "write"
          /\ path' = r.path /\ size' = r.size /\ accepted' = accepted
       \/ /\ r.handle = "open" /\ fails = "midway"
          /\ Appended(r, Torn, 1) /\ accepted' = accepted
       \/ /\ r.handle = "open" /\ fails \notin {"write", "midway"}
          /\ Appended(r, accepted + 1, bytes) /\ accepted' = accepted + 1

Write(bytes, fails) ==
    /\ offered < MaxLines
    /\ offered' = offered + 1
    /\ faults' = IF fails = "none" THEN faults ELSE faults + 1
    /\ faults' <= MaxFaults
    /\ fails \in {"rename", "open"} => full(bytes)
    /\ write(bytes, fails)

Next ==
    \/ Restart
    \/ \E bytes \in Sizes, fails \in {"none", "rename", "open", "write", "midway"} :
          Write(bytes, fails)

Spec == Init /\ [][Next]_vars

-----------------------------------------------------------------------------
(* The whole lines of a file are those after the first `from` accepted, up *)
(* to the one numbered `to`, in order.                                     *)
Holds(lines, from, to) ==
    /\ {lines[i].n : i \in DOMAIN lines} \ {Torn} = (from + 1)..to
    /\ \A i, j \in DOMAIN lines : i < j /\ lines[j].n # Torn => lines[i].n < lines[j].n

(* Rotation keeps what it promises, whatever call fails and whenever the   *)
(* agent restarts: path.1 followed by the file is an unbroken tail of the  *)
(* accepted lines; neither passes the limit, unless a single line does;    *)
(* and once lines were dropped, path.1 was full to within one line, so     *)
(* that much history is always there (file.go rotateIfNeeded).             *)
LogIsTail ==
    /\ \E from \in 0..accepted : \E middle \in from..accepted :
          /\ Holds(rotated, from, middle)
          /\ Holds(path, middle, accepted)
          /\ from > 0 => \E last \in Sizes : Bytes(rotated) + last > rotateMaxBytes
    /\ \A lines \in {path, rotated} :
          rotateMaxBytes > 0 /\ Len(lines) > 1 => Bytes(lines) <= rotateMaxBytes
=============================================================================
