------------------------------- MODULE Pathology ------------------------------
(* The conditions that explain a stall (pathology/): what sysfs says of btrfs   *)
(* filesystems and drive sensors at one moment, and the warnings made of it.    *)
EXTENDS Integers, FiniteSets

CONSTANTS
    Filesystems,   \* the directories of /sys/fs/btrfs that have an allocation
    Sensors,       \* the temperature files of the drives' hwmons
    Missing,       \* a file that is missing or holds no number
    Sizes,         \* of a filesystem's devices together
    Allocated,     \* disk_total of data, metadata and system together
    Queued,        \* extents awaiting discard
    Degrees        \* temperatures and limits

ASSUME PathologyAssumption ==
    /\ Sizes \union Allocated \union Queued \union Degrees \subseteq Nat
    /\ IsFiniteSet(Filesystems) /\ IsFiniteSet(Sensors)

VARIABLES
    btrfs,      \* what can be read of each filesystem
    hwmon,      \* what can be read of each sensor
    warnings

UNALLOCATED_FLOOR_PCT == 1
DISCARD_EXTENT_FLOOR == 10000
NEAR_LIMIT_MARGIN_C == 5

Btrfs == [allocated : Allocated \union {Missing}, size : Sizes, queued : Queued \union {Missing}]
Sensor == [temp : Degrees \union {Missing}, crit : Degrees \union {Missing}]

PathologyInit == btrfs = << >> /\ hwmon = << >> /\ warnings = {}

Discarding(f) == btrfs[f].queued # Missing /\ btrfs[f].queued >= DISCARD_EXTENT_FLOOR

(* Nothing is said of a size that is not known or that the allocation exceeds.  *)
Exhausted(f) ==
    LET b == btrfs[f]
    IN  /\ b.allocated # Missing /\ b.size # 0 /\ b.allocated <= b.size
        /\ (b.size - b.allocated) * 100 < b.size * UNALLOCATED_FLOOR_PCT

(* A sensor without a limit of its own is not one the drive is managed by.      *)
NearLimit(s) ==
    LET t == hwmon[s].temp  limit == hwmon[s].crit
    IN  t # Missing /\ limit # Missing /\ t >= limit - NEAR_LIMIT_MARGIN_C

Severity(kind, of) ==
    CASE kind = "allocation" -> "warn"
      [] kind = "temperature" -> IF hwmon[of].temp >= hwmon[of].crit THEN "critical" ELSE "note"
      [] OTHER -> "note"

Warning(kind, of) ==
    [kind |-> kind, of |-> of, severity |-> Severity(kind, of), transient |-> kind = "discard"]

Warnings ==
    {Warning("discard", f) : f \in {g \in Filesystems : Discarding(g)}}
    \union {Warning("allocation", f) : f \in {g \in Filesystems : Exhausted(g)}}
    \union {Warning("temperature", s) : s \in {t \in Sensors : NearLimit(t)}}

(* Whatever the machine is like.                                                *)
Scan ==
    /\ btrfs' \in [Filesystems -> Btrfs] /\ hwmon' \in [Sensors -> Sensor]
    /\ warnings' = Warnings'
=============================================================================
