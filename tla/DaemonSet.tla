------------------------------ MODULE DaemonSet ------------------------------
(* The processes that share socket paths, a log and a textfile.                *)
EXTENDS Integers, FiniteSets

CONSTANTS
    Daemons,
    None       \* no file

ASSUME DaemonSetAssumption == IsFiniteSet(Daemons)
=============================================================================
