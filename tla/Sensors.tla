------------------------------- MODULE Sensors -------------------------------
(***************************************************************************)
(* From a system call to a decoded event: the sensors (bpf/edr.bpf.c) fill *)
(* a struct event in a per-CPU slot that is used again and again, and copy *)
(* it to the ring buffer; the agent decodes the record                     *)
(* (internal/decode/wire.go).  The arguments of an execve are captured on  *)
(* entry and stitched to the exec event later, if there is one.            *)
(*                                                                         *)
(* A system call carries a value; a field holds the value it was filled    *)
(* with, or Zero.  A sensor runs to its end on its CPU: the kernel does    *)
(* not nest tracing programs.  Arguments are sequences of characters.      *)
(***************************************************************************)
EXTENDS Naturals, Sequences, SequencesExt, FiniteSets

CONSTANTS
    CPUs,
    Pids,
    Types,          \* the plain sensors that may fire
    Data,           \* what a system call may carry
    Argvs,          \* what may be passed to execve
    Messages,       \* what may be sent to port 53, without the DNS header
    MaxArgsLen,     \* MAX_ARGS_LEN
    MaxArgvCount,   \* MAX_ARGV_COUNT
    MaxLabel,       \* 63, the longest DNS label
    CacheSize       \* max_entries of argv_cache

VARIABLES
    scratch,    \* the per-CPU slot: field -> value
    argv_cache, \* thread -> struct argv_buf
    calling,    \* the threads inside execve, and what they passed
    tried,      \* history: what a live process passed since its last exec
    event       \* the last event decoded, with what it should tell

vars == <<scratch, argv_cache, calling, tried, event>>

Zero == 0
NUL == "NUL"

(* pid_tgid: a process's leader, or another of its threads.                *)
Leader(p) == <<p, "leader">>
IdsOf(p) == {Leader(p), <<p, "thread">>}

Put(f, k, v) == [i \in DOMAIN f \cup {k} |-> IF i = k THEN v ELSE f[i]]
Without(f, ks) == [i \in DOMAIN f \ ks |-> f[i]]

-----------------------------------------------------------------------------
(* What each sensor fills: those of files, ...                             *)
FileFills ==
    [open |-> {"filename", "fmode"}, cred_open |-> {"filename"}, unlink |-> {"filename"},
     rename |-> {"filename", "args"}, chmod |-> {"filename", "fmode"}]

(* ... of sockets (the name of a dns event apart), ...                     *)
SocketFills == [connect |-> {"addr"}, accept |-> {"addr"}, dns |-> {"addr"}]

(* ... of what changes a process or the kernel, ...                        *)
KernelFills ==
    [ptrace |-> {"fmode", "ret"}, kmod |-> {"filename"}, bpf |-> {"fmode"},
     memfd |-> {"filename", "fmode"}, mmap_exec |-> {"fmode"}, priv_change |-> {"ret"}]

(* ... and of a process's life.  handle_file_open's event is an open, too. *)
Fills ==
    FileFills @@ SocketFills @@ KernelFills @@ [exec |-> {"filename"}, exit |-> {"ret"}]

(* What applyTypeSpecific reads.                                           *)
Reads ==
    [open |-> {"filename", "fmode"}, cred_open |-> {"filename", "fmode"}, unlink |-> {"filename"},
     rename |-> {"filename", "args"}, chmod |-> {"filename", "fmode"},
     connect |-> {"addr"}, accept |-> {"addr"}, ptrace |-> {"fmode", "ret"},
     kmod |-> {"filename"}, bpf |-> {"fmode"}, memfd |-> {"filename"},
     mmap_exec |-> {"fmode"}, priv_change |-> {"ret"}, exit |-> {"ret"},
     exec |-> {"filename"}, dns |-> {"addr"}]

Scalars == {"filename", "args", "fmode", "ret", "addr"}

NoArgs == [data |-> [i \in 1..MaxArgsLen |-> NUL], len |-> 0]

(* new_event clears everything that lies before "domain".                  *)
new_event(cpu) ==
    [plain |-> [f \in Scalars |-> Zero], argv |-> NoArgs, domain |-> scratch[cpu].domain]

(* A string that cannot be read leaves its field as it was.                *)
Filled(e, type, d, faults) ==
    [e EXCEPT !.plain = [f \in Scalars |-> IF f \in Fills[type] \ faults THEN d ELSE @[f]]]

-----------------------------------------------------------------------------
(* bpf_probe_read_user_str: at most size bytes, the last one NUL.          *)
read_user_str(src, size) ==
    SubSeq(src, 1, IF Len(src) < size THEN Len(src) ELSE size - 1) \o <<NUL>>

Write(data, off, bytes) ==
    [i \in DOMAIN data |-> IF i \in off + 1..off + Len(bytes) THEN bytes[i - off] ELSE data[i]]

(* The loop of handle_execve; an argument that cannot be read ends it, as  *)
(* a shorter list would.                                                   *)
Packed(argv) ==
    FoldLeft(LAMBDA buf, arg :
                 IF buf.len >= MaxArgsLen - 1 THEN buf
                 ELSE LET bytes == read_user_str(arg, MaxArgsLen - buf.len) IN
                      [data |-> Write(buf.data, buf.len, bytes), len |-> buf.len + Len(bytes)],
             NoArgs, SubSeq(argv, 1, IF Len(argv) < MaxArgvCount THEN Len(argv) ELSE MaxArgvCount))

(* The parts of a string between NULs that are not empty, in order.        *)
Parts(s) ==
    LET Part(i, j) ==
            /\ i <= j /\ \A k \in i..j : s[k] # NUL
            /\ i = 1 \/ s[i - 1] = NUL
            /\ j = Len(s) \/ s[j + 1] = NUL
        starts == {i \in DOMAIN s : \E j \in DOMAIN s : Part(i, j)}
        order == SetToSortSeq(starts, <)
    IN [n \in DOMAIN order |->
           SubSeq(s, order[n], CHOOSE j \in DOMAIN s : Part(order[n], j))]

parseArgs(blob, used) ==
    Parts(IF used < Len(blob) THEN SubSeq(blob, 1, used) ELSE blob)

(* parseDNSName: the labels up to the zero length or the end; none at all  *)
(* when one is too long.                                                   *)
parseDNSName(labels) ==
    LET valid[o \in 1..Len(labels) + 1] ==
          IF o > Len(labels) THEN TRUE
          ELSE IF labels[o] = 0 THEN TRUE
          ELSE /\ labels[o] <= MaxLabel /\ o + labels[o] <= Len(labels)
               /\ valid[o + 1 + labels[o]]
        from[o \in 1..Len(labels) + 1] ==
          IF o > Len(labels) THEN << >>
          ELSE IF labels[o] = 0 THEN << >>
          ELSE <<SubSeq(labels, o + 1, o + labels[o])>> \o from[o + 1 + labels[o]]
    IN IF valid[1] THEN from[1] ELSE << >>

(* Decode: the fields of the event's type.                                 *)
Decode(type, e) ==
    [plain |-> {e.plain[f] : f \in Reads[type]},
     argv |-> IF type = "exec" THEN parseArgs(e.argv.data, e.argv.len) ELSE << >>,
     name |-> IF type = "dns" THEN parseDNSName(e.domain) ELSE << >>]

(* The slot after a sensor ran, and the record it emitted, decoded.  "own" *)
(* is history: the value, the argument lists and the message of the call.  *)
emit(cpu, type, e, d, argvs, message) ==
    /\ scratch' = [scratch EXCEPT ![cpu] = e]
    /\ event' = [type |-> type, got |-> Decode(type, e),
                 own |-> [value |-> d, argvs |-> argvs, message |-> message]]

-----------------------------------------------------------------------------
Nothing == [type |-> "none"]

Init ==
    /\ scratch = [cpu \in CPUs |->
                    [plain |-> [f \in Scalars |-> Zero], argv |-> NoArgs, domain |-> << >>]]
    /\ argv_cache = << >>
    /\ calling = << >>
    /\ tried = << >>
    /\ event = Nothing

(* The handlers that fill an event and emit it; the filters they apply     *)
(* first (write flags, writable and executable mappings, a socket) only    *)
(* leave out events.                                                       *)
Handle(cpu, type, d, faults) ==
    /\ emit(cpu, type, Filled(new_event(cpu), type, d, faults), d, {}, << >>)
    /\ UNCHANGED <<argv_cache, calling, tried>>

(* handle_sendto: without the whole query there is no event.               *)
handle_sendto(cpu, d, message, fault) ==
    /\ IF fault
       THEN scratch' = [scratch EXCEPT ![cpu] = new_event(cpu)] /\ UNCHANGED event
       ELSE emit(cpu, "dns", [Filled(new_event(cpu), "dns", d, {}) EXCEPT !.domain = message],
                 d, {}, message)
    /\ UNCHANGED <<argv_cache, calling, tried>>

Fork(p) ==
    /\ p \notin DOMAIN tried
    /\ tried' = Put(tried, p, {})
    /\ UNCHANGED <<scratch, argv_cache, calling, event>>

(* handle_execve; the map refuses a new entry when it is full.             *)
handle_execve(id, argv) ==
    /\ id[1] \in DOMAIN tried /\ id \notin DOMAIN calling
    /\ calling' = Put(calling, id, argv)
    /\ tried' = [tried EXCEPT ![id[1]] = @ \cup {argv}]
    /\ argv_cache' = IF id \in DOMAIN argv_cache \/ Cardinality(DOMAIN argv_cache) < CacheSize
                     THEN Put(argv_cache, id, Packed(argv)) ELSE argv_cache
    /\ UNCHANGED <<scratch, event>>

(* execve returns to its caller: no such file.                             *)
ExecveFails(id) ==
    /\ id \in DOMAIN calling
    /\ calling' = Without(calling, {id})
    /\ UNCHANGED <<scratch, argv_cache, tried, event>>

(* handle_exec: by then the thread that called is the leader, and the only *)
(* one.  The entry of the leader's id is used and deleted.                 *)
handle_exec(cpu, p, d, argvs) ==
    LET e == Filled(new_event(cpu), "exec", d, {}) IN
    /\ emit(cpu, "exec", IF Leader(p) \in DOMAIN argv_cache
                         THEN [e EXCEPT !.argv = argv_cache[Leader(p)]] ELSE e, d, argvs, << >>)
    /\ argv_cache' = Without(argv_cache, {Leader(p)})
    /\ calling' = Without(calling, IdsOf(p))
    /\ tried' = [tried EXCEPT ![p] = {}]

(* A program starts: by execve, ...                                        *)
Exec(cpu, id, d) ==
    /\ id \in DOMAIN calling
    /\ handle_exec(cpu, id[1], d,
                   IF id = Leader(id[1]) /\ id \in DOMAIN argv_cache THEN {calling[id]}
                   ELSE tried[id[1]] \cup {<< >>})

(* ... or by execveat, whose entry no sensor sees.                         *)
Execveat(cpu, p, d) ==
    /\ p \in DOMAIN tried
    /\ handle_exec(cpu, p, d, tried[p] \cup {<< >>})

(* A faulty handle_exit that leaves the entry to the next owner of the id. *)
handle_exit_keep(cpu, p, d) ==
    /\ p \in DOMAIN tried
    /\ emit(cpu, "exit", Filled(new_event(cpu), "exit", d, {}), d, {}, << >>)
    /\ tried' = Without(tried, {p})
    /\ calling' = Without(calling, IdsOf(p))
    /\ UNCHANGED argv_cache

(* handle_exit of the leader; the other threads have ended, unreported,    *)
(* and their entries stay.                                                 *)
handle_exit(cpu, p, d) ==
    /\ p \in DOMAIN tried
    /\ emit(cpu, "exit", Filled(new_event(cpu), "exit", d, {}), d, {}, << >>)
    /\ tried' = Without(tried, {p})
    /\ calling' = Without(calling, IdsOf(p))
    /\ argv_cache' = Without(argv_cache, {Leader(p)})

Next ==
    \/ \E cpu \in CPUs, d \in Data :
        \/ \E type \in Types, faults \in {{}, {"filename"}, {"args"}} : Handle(cpu, type, d, faults)
        \/ \E message \in Messages, fault \in BOOLEAN : handle_sendto(cpu, d, message, fault)
        \/ \E p \in Pids :
            \/ Execveat(cpu, p, d)
            \/ handle_exit(cpu, p, d)
            \/ \E id \in IdsOf(p) : Exec(cpu, id, d)
    \/ \E p \in Pids :
        \/ Fork(p)
        \/ \E id \in IdsOf(p) :
            \/ ExecveFails(id)
            \/ \E argv \in Argvs : handle_execve(id, argv)

Spec == Init /\ [][Next]_vars

-----------------------------------------------------------------------------
(* The arguments as they should be reported: one after the other, each     *)
(* followed by NUL, cut to what the buffer holds.                          *)
Reported(argv) ==
    LET all == FlattenSeq([i \in 1..(IF Len(argv) < MaxArgvCount THEN Len(argv) ELSE MaxArgvCount)
                             |-> argv[i] \o <<NUL>>])
    IN Parts(SubSeq(all, 1, IF Len(all) < MaxArgsLen THEN Len(all) ELSE MaxArgsLen - 1))

Encoded(name) == FlattenSeq([i \in DOMAIN name |-> <<Len(name[i])>> \o name[i]])

(* An event tells of its own system call, though the slot it is built in   *)
(* holds an earlier one and the arguments of an execve are stored until    *)
(* the program starts: every field is unset or the call's own; an exec     *)
(* event carries the arguments of the execve that started the program, or, *)
(* when that one was not seen or not stored, none or those of a failed     *)
(* execve of the same process; and a queried name is what the message      *)
(* says up to a zero length, or to the end of what was captured.           *)
EventsAreOwn ==
    event.type # "none" =>
        LET own == event.own
            name == event.got.name
        IN /\ event.got.plain \subseteq {Zero, own.value}
           /\ event.type = "exec" => event.got.argv \in {Reported(a) : a \in own.argvs}
           /\ \A label \in Range(name) : Len(label) \in 1..MaxLabel
           /\ name # << >> =>
                /\ IsPrefix(Encoded(name), own.message)
                /\ \/ Len(Encoded(name)) = Len(own.message)
                   \/ own.message[Len(Encoded(name)) + 1] = 0
=============================================================================
