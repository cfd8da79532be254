---------------------------- MODULE KernelGuard ----------------------------
(***************************************************************************)
(* Enforcement in the kernel (bpf/edr_lsm.bpf.c) and the loader that arms  *)
(* it (internal/bpfloader), beside the responder's posture.  The BPF maps  *)
(* enforce_config, protected_pid and cred_readers are written once, when   *)
(* the objects are loaded; the hooks read them on every decision.          *)
(*                                                                         *)
(* Loading is best effort: a map write or the attachment of a hook may     *)
(* fail, in which case it is logged and the load goes on.  An array map    *)
(* that was never written reads as zero.                                   *)
(***************************************************************************)
EXTENDS Posture

CONSTANTS
    Agent,          \* the agent's own tgid
    Others,         \* the other tgids of the host
    Comms,          \* process names
    CredReaders     \* response.cred_reader_allowlist

ASSUME GuardAssumption ==
    /\ Agent \notin Others
    /\ Others # {}
    /\ CredReaders \subseteq Comms

Unset == 0
Hooks == {"bprm_check", "task_kill", "ptrace_guard", "file_open_guard"}

VARIABLES
    loader,         \* "start", "armed", "loaded" or "closed"
    config,         \* enforce_config[0]
    guarded,        \* protected_pid[0], or Unset
    readers,        \* cred_readers
    attached,       \* the hooks with a live link
    verdict         \* the last decision of a hook: see Decide

guardVars == <<loader, config, guarded, readers, attached, verdict>>
vars == <<postureVars, guardVars>>

NoVerdict == [hook |-> "none", subject |-> "none", denied |-> FALSE,
              recorded |-> FALSE]

Init ==
    /\ PostureInit
    /\ loader = "start"
    /\ config = ModeOff
    /\ guarded = Unset
    /\ readers = {}
    /\ attached = {}
    /\ verdict = NoVerdict

-----------------------------------------------------------------------------
(* Run goes on without enforcement: the configured mode is off (the object *)
(* path is empty), or the object does not load.                            *)
SkipEnforcement ==
    /\ loader = "start"
    /\ loader' = "loaded"
    /\ UNCHANGED <<postureVars, config, guarded, readers, attached, verdict>>

(* loadEnforcement, armSelfProtection and loadCredReaderAllowlist: each    *)
(* map write succeeds or is only logged (cred_readers holds 64 entries).   *)
loadEnforcement ==
    /\ loader = "start"
    /\ cfgMode # ModeOff
    /\ loader' = "armed"
    /\ config' \in {config, cfgMode}
    /\ guarded' \in {Unset, Agent}
    /\ readers' \in SUBSET CredReaders
    /\ UNCHANGED <<postureVars, attached, verdict>>

(* The loop over lsmPrograms: each hook attaches or is only logged.        *)
AttachLSM ==
    /\ loader = "armed"
    /\ loader' = "loaded"
    /\ attached' \in SUBSET Hooks
    /\ UNCHANGED <<postureVars, config, guarded, readers, verdict>>

(* Close: the links are closed and the maps freed.                         *)
Close ==
    /\ loader = "loaded"
    /\ loader' = "closed"
    /\ attached' = {}
    /\ config' = ModeOff
    /\ guarded' = Unset
    /\ readers' = {}
    /\ UNCHANGED <<postureVars, verdict>>

(* The control plane changes the responder's posture.                      *)
SetResponseMode(text) ==
    /\ loader = "loaded"
    /\ SetMode(ParseMode(text))
    /\ UNCHANGED guardVars

-----------------------------------------------------------------------------
(* A faulty hook that denies whatever it records.                          *)
DecideDenyInDryRun(hook, subject, applies) ==
    LET acts == applies /\ config # ModeOff IN
    /\ hook \in attached
    /\ \E reserved \in BOOLEAN :
          verdict' = [hook |-> hook, subject |-> subject, denied |-> acts,
                      recorded |-> acts /\ reserved]
    /\ UNCHANGED <<postureVars, loader, config, guarded, readers, attached>>

(* What every hook does with a subject it cares about: nothing when off,   *)
(* otherwise a record (lost when the ring buffer is full) and, in enforce, *)
(* -EPERM.                                                                 *)
Decide(hook, subject, applies) ==
    LET acts == applies /\ config # ModeOff IN
    /\ hook \in attached
    /\ \E reserved \in BOOLEAN :
          verdict' = [hook |-> hook, subject |-> subject,
                      denied |-> acts /\ config = ModeEnforce,
                      recorded |-> acts /\ reserved]
    /\ UNCHANGED <<postureVars, loader, config, guarded, readers, attached>>

bprm_check(isTemp) == Decide("bprm_check", "exec", isTemp)

GuardedSignals == {"SIGKILL", "SIGTERM", "SIGSTOP"}

task_kill(sender, target, sig) ==
    Decide("task_kill", <<sender, target>>,
           /\ guarded # Unset
           /\ target = guarded
           /\ sender # guarded
           /\ sig \in GuardedSignals)

ptrace_guard(tracer, target) ==
    Decide("ptrace_guard", <<tracer, target>>,
           /\ guarded # Unset
           /\ target = guarded
           /\ tracer # guarded)

file_open_guard(comm, isShadow) ==
    Decide("file_open_guard", comm, isShadow /\ comm \notin readers)

Tgids == Others \cup {Agent}

Next ==
    \/ SkipEnforcement
    \/ loadEnforcement
    \/ AttachLSM
    \/ Close
    \/ \E text \in ModeTexts : SetResponseMode(text)
    \/ \E isTemp \in BOOLEAN : bprm_check(isTemp)
    \/ \E s, t \in Tgids, sig \in GuardedSignals \cup {"SIGUSR1"} : task_kill(s, t, sig)
    \/ \E s, t \in Tgids : ptrace_guard(s, t)
    \/ \E comm \in Comms, isShadow \in BOOLEAN : file_open_guard(comm, isShadow)

Spec == Init /\ [][Next]_vars

-----------------------------------------------------------------------------
(* On a host whose ceiling is below enforce no hook ever denies anything,  *)
(* and on one configured off none even records, whatever the control plane *)
(* asks for and however the load went.  And self-protection is narrow: the *)
(* signal and ptrace hooks only ever deny an operation of another process  *)
(* on the agent itself.                                                    *)
KernelBelowCeiling ==
    /\ verdict.denied =>
          /\ maxMode = ModeEnforce /\ cfgMode = ModeEnforce
          /\ verdict.hook \in {"task_kill", "ptrace_guard"} =>
                verdict.subject[2] = Agent /\ verdict.subject[1] # Agent
    /\ verdict.recorded => cfgMode # ModeOff
=============================================================================
