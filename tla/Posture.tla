------------------------------ MODULE Posture ------------------------------
(***************************************************************************)
(* The response posture of one agent (internal/respond, internal/config):  *)
(* the mode the responder runs in, and the local ceiling max_mode that no  *)
(* runtime change may pass.  Modes are the integers of the Go constants,   *)
(* so that "at most" is the numeric order that clampMode uses.             *)
(***************************************************************************)
EXTENDS Naturals

ModeOff == 0
ModeDryRun == 1
ModeEnforce == 2
Modes == {ModeOff, ModeDryRun, ModeEnforce}

(* What a configuration file, a command argument or a pushed policy can    *)
(* say: a valid mode, or any other text.                                   *)
ValidModeTexts == {"off", "dry-run", "enforce"}
ModeTexts == ValidModeTexts \cup {"other"}

(* A faulty ParseMode that counts the modes from one.                      *)
ParseModeFromOne(text) ==
    CASE text = "dry-run" -> 2
      [] text = "enforce" -> 3
      [] OTHER -> 1

ParseMode(text) ==
    CASE text = "dry-run" -> ModeDryRun
      [] text = "enforce" -> ModeEnforce
      [] OTHER -> ModeOff

clampMode(requested, ceiling) ==
    IF requested > ceiling THEN ceiling ELSE requested

VARIABLES
    mode,       \* Responder.mode, an atomic
    maxMode,    \* Responder.maxMode, immutable after New
    cfgMode     \* response.mode of the configuration the agent started with

postureVars == <<mode, maxMode, cfgMode>>

(* config.Load: an absent max_mode defaults to mode, and a mode above      *)
(* max_mode is refused before the agent is built.                          *)
LoadedConfigs ==
    {c \in [mode : ValidModeTexts, max : ValidModeTexts] :
        ParseMode(c.mode) <= ParseMode(c.max)}

(* respond.New on a loaded configuration.                                  *)
New(c) ==
    /\ maxMode = ParseMode(c.max)
    /\ mode = clampMode(ParseMode(c.mode), ParseMode(c.max))
    /\ cfgMode = ParseMode(c.mode)

PostureInit == \E c \in LoadedConfigs : New(c)

(* A faulty SetMode that does not clamp.                                   *)
SetModeUnclamped(requested) ==
    /\ mode' = requested
    /\ UNCHANGED <<maxMode, cfgMode>>

(* Responder.SetMode: clamp, then one atomic swap.                         *)
SetMode(requested) ==
    /\ mode' = clampMode(requested, maxMode)
    /\ UNCHANGED <<maxMode, cfgMode>>

PostureTypeOK ==
    /\ mode \in Modes
    /\ maxMode \in Modes
    /\ cfgMode \in Modes

(* The posture never passes the local ceiling, and the configured mode did *)
(* not either (config.validate).                                           *)
BelowCeiling ==
    /\ mode <= maxMode
    /\ cfgMode <= maxMode
=============================================================================
