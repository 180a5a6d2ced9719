------------------------------- MODULE Startup --------------------------------
(* What a program makes of what it is given in words before it does anything   *)
(* else: a filter from `--filter`, parsed first (stallwatch.rs main), or its   *)
(* settings, `when` filters among them.  A filter touches no setting, so it is *)
(* explored by itself, and in Settings a filter only parses or does not.       *)
EXTENDS Settings, Filter

startupVars == <<settingsVars, filterVars>>

StartupInit ==
    /\ SettingsInit
    /\ text = << >> /\ tokens = << >> /\ at = 0 /\ stage = "none"

GiveFilter ==
    /\ stage = "none" /\ phase = "open" /\ path = 1
    /\ GiveText \/ GiveTokens
    /\ UNCHANGED settingsVars

StartupNext ==
    \/ GiveFilter
    \/ stage # "none" /\ FilterNext /\ UNCHANGED settingsVars
    \/ stage = "none" /\ SettingsNext /\ UNCHANGED filterVars

StartupSpec == StartupInit /\ [][StartupNext]_startupVars
=============================================================================
