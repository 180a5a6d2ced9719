-------------------------------- MODULE Metrics -------------------------------
(* A scrape (metrics.rs render): the pressure counters of every cgroup, up to a *)
(* cap, and gauges for what Pathology warns about, which are read and judged    *)
(* here by code of their own.  The document is a sequence of lines, each the    *)
(* declaration of a family, a sample of it, or a sample that is a count.        *)
EXTENDS Pathology, Orders, SequencesExt

CONSTANTS
    Pairs,        \* <<cgroup, resource>>, sorted as the paths are
    MAX_SERIES

ASSUME MetricsAssumption ==
    /\ MAX_SERIES \in Nat
    /\ Pairs \in Seq(Range(Pairs)) /\ IsInjective(Pairs)

VARIABLES
    pressed,     \* the pairs with any pressure since boot
    scraped

MetricsInit == pressed = {} /\ scraped = FALSE

Type(name) == [family |-> name, is |-> "type", of |-> << >>, n |-> 0]
Series(name, of) == [family |-> name, is |-> "series", of |-> of, n |-> 0]
Count(name, n) == <<Type(name), [family |-> name, is |-> "count", of |-> << >>, n |-> n]>>

Block(name, labels) == <<Type(name)>> \o [i \in DOMAIN labels |-> Series(name, labels[i])]

(* A family of no samples is not declared.                                      *)
Gauge(name, S) == IF S = {} THEN << >> ELSE Block(name, SetToSeq(S))

Candidates == Members(Pairs, {i \in DOMAIN Pairs : Pairs[i] \in pressed})

Shown == First(Candidates, MAX_SERIES)
Stalled(labels) == Members(labels, {i \in DOMAIN labels : labels[i][2] # "cpu"})

(* Mutant: what the cap left out is counted from what the cap let in.           *)
DroppedBeyond == IF Len(Shown) < MAX_SERIES THEN 0 ELSE Len(Candidates) - Len(Shown) - 1

Dropped == Len(Candidates) - Len(Shown)

(* Mutant: a full device is taken for one whose size is not known.              *)
UnallocatedAbove == {f \in Filesystems : btrfs[f].allocated # Missing /\ btrfs[f].size > btrfs[f].allocated}

Unallocated == {f \in Filesystems : btrfs[f].allocated # Missing /\ btrfs[f].size >= btrfs[f].allocated}
Discards == {f \in Filesystems : btrfs[f].queued # Missing}
Limited == {s \in Sensors : hwmon[s].temp # Missing /\ hwmon[s].crit # Missing}

Pressure(labels) == Block("waiting", labels) \o Block("stalled", Stalled(labels))

PathologySeries ==
    Gauge("unallocated", Unallocated) \o Gauge("discard", Discards)
        \o Gauge("temperature", Limited) \o Gauge("limit", Limited)

(* Every cgroup is walked, with pressure or none.                               *)
Walked == {pair[1] : pair \in Range(Pairs)}

Render ==
    LET shown == Shown
    IN  Pressure(shown) \o PathologySeries
            \o Count("emitted", Len(shown)) \o Count("dropped", Dropped)
            \o Count("scanned", Cardinality(Walked)) \o Block("duration", <<<< >>>>)

Scrape ==
    /\ UNCHANGED <<btrfs, hwmon, warnings>>
    /\ pressed' \in SUBSET Range(Pairs)
    /\ scraped' = TRUE

(* What the scrape was answered, a pure function of what render reads.          *)
document == IF scraped THEN Render ELSE << >>

-----------------------------------------------------------------------------
Told(name) == {l.of : l \in {k \in Range(document) : k.family = name /\ k.is = "series"}}
Counted(name) == {l.n : l \in {k \in Range(document) : k.family = name /\ k.is = "count"}}

(* "a silent cap is a lie" (metrics.rs:35): a document has only pairs that have *)
(* pressure, and says of how many others that have it too it does not tell.     *)
CapIsTold ==
    document # << >> =>
        /\ Told("waiting") \subseteq pressed
        /\ Counted("dropped") = {Cardinality(pressed \ Told("waiting"))}

(* What an incident warned of can be seen and alerted on: the two readings of   *)
(* the same files, here and in pathology/, agree on what they leave out.        *)
WarnedIsMeasured ==
    document # << >> => \A w \in warnings :
        CASE w.kind = "allocation" -> w.of \in Told("unallocated")
          [] w.kind = "discard" -> w.of \in Told("discard")
          [] w.kind = "temperature" -> w.of \in Told("temperature") \intersect Told("limit")
=============================================================================
