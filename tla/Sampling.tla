------------------------------ MODULE Sampling ------------------------------
(***************************************************************************)
(* How stalls are measured (cgroup.rs, attribution.rs).  A sweep lists the *)
(* cgroups and reads the pressure files of one after the other, while time *)
(* passes, counters grow and cgroups come and go.  `collect` takes two     *)
(* sweeps of one list for every report; the Sampler takes one per tick and *)
(* compares it with the one before.                                        *)
(*                                                                         *)
(* The kernel's counter of a cgroup grows by at most one in a unit of      *)
(* time, alike in all its files, and restarts when the path is reused.     *)
(* `stalled` is what the kernel has counted for a path altogether.         *)
(***************************************************************************)
EXTENDS Cgroups

CONSTANTS ROOT,         \* the cgroup that is always there
          Resource,     \* Resource::ALL
          Unreadable,   \* the sets of files of a living cgroup that may fail together
          MaxStalls,    \* MAX_STALLS
          MaxRemovals,  \* bound: how many cgroups are removed
          MaxNow        \* bound: how long the model runs

ASSUME SamplingAssumption ==
    /\ ROOT \in Paths
    /\ IsFiniteSet(Resource)
    /\ Unreadable \subseteq SUBSET Resource
    /\ MaxStalls \in Nat

VARIABLES now, alive, removals, total, stalled,
          resident,     \* is it the Sampler, not collect
          pc,           \* "rest", "first", "sleep", "second" or "diff"
          listed,       \* the cgroups listed
          todo,         \* those of them the sweep has not come to
          snap,         \* the samples of this sweep
          prev,         \* those of the sweep before
          since,        \* t0, or Sampler::prev_at
          opened,       \* `stalled` when the sweep before began,
          settled,      \*   when it ended,
          began,        \*   and when this sweep began
          steady,       \* the cgroups alive and readable ever since `opened`
          steadyNext,   \*   and ever since `began`
          report,       \* the report just made
          reported      \* all that has been reported of a path so far

kernelVars == <<now, alive, removals, total, stalled>>
sweepVars == <<listed, todo, snap, began>>
baseVars == <<prev, since, opened, settled>>
steadyVars == <<steady, steadyNext>>
reportVars == <<report, reported>>
vars == <<kernelVars, resident, pc, sweepVars, baseVars, steadyVars, reportVars>>

NoSample == [r \in Resource |-> 0]
NoSamples == [p \in {} |-> NoSample]
NoReport == [window |-> 0, stalls |-> {}, grown |-> [p \in Paths |-> 0],
             slept |-> [p \in Paths |-> 0]]

Init ==
    /\ now = 0
    /\ alive \in SUBSET Paths /\ ROOT \in alive
    /\ \A p \in alive : Above[p] \subseteq alive
    /\ removals = 0
    /\ total = [p \in Paths |-> 0]
    /\ stalled = [p \in Paths |-> 0]
    /\ resident \in BOOLEAN
    /\ pc = "rest"
    /\ listed = {} /\ todo = {} /\ snap = NoSamples
    /\ prev = NoSamples /\ since = 0
    /\ opened = stalled /\ settled = stalled /\ began = stalled
    /\ steady = {} /\ steadyNext = {}
    /\ report = NoReport
    /\ reported = [r \in Resource |-> [p \in Paths |-> 0]]

-----------------------------------------------------------------------------
(* The kernel. *)

(* Time passes, and some cgroups are stalled for all of it. *)
Advance ==
    /\ now < MaxNow
    /\ now' = now + 1
    /\ \E S \in SUBSET alive :
         /\ total' = [p \in Paths |-> total[p] + (IF p \in S THEN 1 ELSE 0)]
         /\ stalled' = [p \in Paths |-> stalled[p] + (IF p \in S THEN 1 ELSE 0)]
    /\ UNCHANGED <<alive, removals, resident, pc, sweepVars, baseVars, steadyVars, reportVars>>

CreateCgroup(p) ==
    /\ p \notin alive /\ Above[p] \subseteq alive
    /\ alive' = alive \cup {p}
    /\ total' = [total EXCEPT ![p] = 0]
    /\ UNCHANGED <<now, removals, stalled, resident, pc, sweepVars, baseVars, steadyVars, reportVars>>

RemoveCgroup(p) ==
    /\ p \in alive \ {ROOT} /\ Below(p) \cap alive = {}
    /\ removals < MaxRemovals /\ removals' = removals + 1
    /\ alive' = alive \ {p}
    /\ steady' = steady \ {p} /\ steadyNext' = steadyNext \ {p}
    /\ UNCHANGED <<now, total, stalled, resident, pc, sweepVars, baseVars, reportVars>>

-----------------------------------------------------------------------------
(* cgroup::sample. *)

Sampled(p, sample) == [q \in DOMAIN snap \cup {p} |-> IF q = p THEN sample ELSE snap[q]]

(* One cgroup's files: those that cannot be read stay zero, and a cgroup    *)
(* with none is left out.                                                   *)
ReadCgroup(p) ==
    /\ p \in todo
    /\ todo' = todo \ {p}
    /\ \E F \in Unreadable :
         /\ snap' = IF p \notin alive \/ F = Resource THEN snap
                    ELSE Sampled(p, [r \in Resource |-> IF r \in F THEN 0 ELSE total[p]])
         /\ IF F = {} THEN UNCHANGED steadyVars
                      ELSE steady' = steady \ {p} /\ steadyNext' = steadyNext \ {p}
    /\ UNCHANGED <<kernelVars, resident, pc, listed, began, baseVars, reportVars>>

(* The cgroup is removed when some of its files have been read.             *)
RemoveWhileRead(p) ==
    /\ p \in (todo \cap alive) \ {ROOT} /\ Below(p) \cap alive = {}
    /\ todo' = todo \ {p}
    /\ removals < MaxRemovals /\ removals' = removals + 1
    /\ alive' = alive \ {p}
    /\ steady' = steady \ {p} /\ steadyNext' = steadyNext \ {p}
    /\ \E F \in SUBSET Resource \ {{}, Resource} :
         snap' = Sampled(p, [r \in Resource |-> IF r \in F THEN total[p] ELSE 0])
    /\ UNCHANGED <<now, total, stalled, resident, pc, listed, began, baseVars, reportVars>>

Swept == todo = {}

StartSweep(S) ==
    /\ listed' = S
    /\ todo' = S
    /\ snap' = NoSamples
    /\ began' = stalled
    /\ steadyNext' = alive

-----------------------------------------------------------------------------
(* The difference of two sweeps. *)

MIN_REPORTABLE_PCT == 1
CHILD_DOMINANCE == 80

MinusOrZero(a, b) == IF a > b THEN a - b ELSE 0

(* Mutant: what the sweep before did not have counts from zero. *)
DeltasFromZero(r) ==
    [p \in DOMAIN snap |-> IF p \in DOMAIN prev THEN MinusOrZero(snap[p][r], prev[p][r]) ELSE snap[p][r]]

(* What each cgroup in both sweeps stalled in between. *)
Deltas(r) == [p \in DOMAIN snap \cap DOMAIN prev |-> MinusOrZero(snap[p][r], prev[p][r])]

Responsible(p, usecs) ==
    /\ usecs[p] # 0
    /\ \A q \in DOMAIN usecs \cap Below(p) : usecs[q] * 100 < usecs[p] * CHILD_DOMINANCE

Stalls(window) ==
    UNION {LET usecs == Deltas(r)
           IN  {[cgroup |-> p, resource |-> r, usec |-> usecs[p]] : p \in
                  {q \in DOMAIN usecs : /\ usecs[q] * 100 >= window * MIN_REPORTABLE_PCT
                                        /\ Responsible(q, usecs)}}
           : r \in Resource}

(* Sorted worst first and truncated; equal ones come in any order. *)
Worst(S) ==
    {T \in SUBSET S :
        /\ Cardinality(T) = IF Cardinality(S) < MaxStalls THEN Cardinality(S) ELSE MaxStalls
        /\ \A s \in T : \A t \in S \ T : s.usec >= t.usec}

(* A report has one entry for a cgroup and a resource, or none. *)
Usec(stalls, r, p) ==
    LET of == {s \in stalls : s.resource = r /\ s.cgroup = p}
    IN  IF of = {} THEN 0 ELSE (CHOOSE s \in of : TRUE).usec

(* A window of no length reports nothing. *)
Report(window) ==
    \E T \in IF window = 0 THEN {{}} ELSE Worst(Stalls(window)) :
        /\ report' = [window |-> window, stalls |-> T,
                      grown |-> [p \in Paths |-> stalled[p] - opened[p]],
                      slept |-> [p \in Paths |-> IF p \in steady THEN began[p] - settled[p] ELSE 0]]
        /\ reported' = [r \in Resource |-> [p \in Paths |-> reported[r][p] + Usec(T, r, p)]]

-----------------------------------------------------------------------------
(* collect and the Sampler. *)

(* collect, or Sampler::new, lists the cgroups and starts the clock. *)
Begin ==
    /\ pc = "rest"
    /\ StartSweep(alive)
    /\ since' = now
    /\ opened' = stalled
    /\ steady' = alive
    /\ pc' = "first"
    /\ report' = NoReport
    /\ UNCHANGED <<kernelVars, resident, prev, settled, reported>>

(* Mutant: the clock is started after the opening sweep. *)
EndFirstStartingClock ==
    /\ pc = "first" /\ Swept
    /\ prev' = snap
    /\ settled' = stalled
    /\ since' = now
    /\ pc' = "sleep"
    /\ UNCHANGED <<kernelVars, resident, sweepVars, opened, steadyVars, reportVars>>

EndFirst ==
    /\ pc = "first" /\ Swept
    /\ prev' = snap
    /\ settled' = stalled
    /\ pc' = "sleep"
    /\ UNCHANGED <<kernelVars, resident, sweepVars, since, opened, steadyVars, reportVars>>

(* Mutant: the Sampler, too, goes by the first list. *)
BeginSecondAsListed ==
    /\ pc = "sleep"
    /\ StartSweep(listed)
    /\ pc' = "second"
    /\ UNCHANGED <<kernelVars, resident, baseVars, steady, reportVars>>

(* collect reads what it listed at first, a tick lists again. *)
BeginSecond ==
    /\ pc = "sleep"
    /\ StartSweep(IF resident THEN alive ELSE listed)
    /\ pc' = "second"
    /\ UNCHANGED <<kernelVars, resident, baseVars, steady, reportVars>>

EndCollect ==
    /\ ~resident /\ pc = "second" /\ Swept
    /\ Report(now - since)
    /\ pc' = "rest"
    /\ snap' = NoSamples /\ prev' = NoSamples /\ listed' = {}
    /\ steady' = {} /\ steadyNext' = {}
    /\ UNCHANGED <<kernelVars, resident, todo, began, since, opened, settled>>

EndTick ==
    /\ resident /\ pc = "second" /\ Swept
    /\ Report(now - since)
    /\ pc' = "diff"
    /\ UNCHANGED <<kernelVars, resident, sweepVars, baseVars, steadyVars>>

(* Mutant: the snapshot to compare with is not replaced. *)
RebaseClock ==
    /\ pc = "diff"
    /\ since' = now
    /\ opened' = began
    /\ settled' = stalled
    /\ steady' = steadyNext
    /\ pc' = "sleep"
    /\ report' = NoReport
    /\ snap' = NoSamples
    /\ UNCHANGED <<kernelVars, resident, listed, todo, began, prev, steadyNext, reported>>

(* The closing sweep of a tick is the opening one of the next, and the next *)
(* window begins once the comparison is done.                               *)
Rebase ==
    /\ pc = "diff"
    /\ prev' = snap
    /\ since' = now
    /\ opened' = began
    /\ settled' = stalled
    /\ steady' = steadyNext
    /\ pc' = "sleep"
    /\ report' = NoReport
    /\ snap' = NoSamples
    /\ UNCHANGED <<kernelVars, resident, listed, todo, began, steadyNext, reported>>

Next ==
    \/ Advance
    \/ \E p \in Paths :
         \/ CreateCgroup(p) \/ RemoveCgroup(p)
         \/ ReadCgroup(p) \/ RemoveWhileRead(p)
    \/ Begin \/ EndFirst \/ BeginSecond \/ EndCollect \/ EndTick \/ Rebase

Spec == Init /\ [][Next]_vars

-----------------------------------------------------------------------------
(* Properties. *)

Samples == UNION {[S -> [Resource -> 0 .. now]] : S \in SUBSET Paths}

(* No counter, sample or delta ever exceeds the time there has been: a      *)
(* counter that restarted does not underflow (attribution.rs:146-148).      *)
TypeOK ==
    /\ now \in 0 .. MaxNow
    /\ alive \subseteq Paths
    /\ total \in [Paths -> 0 .. now] /\ stalled \in [Paths -> 0 .. now]
    /\ pc \in {"rest", "first", "sleep", "second", "diff"}
    /\ todo \subseteq listed /\ listed \subseteq Paths
    /\ snap \in Samples /\ prev \in Samples
    /\ since \in 0 .. now /\ report.window \in 0 .. now
    /\ \A s \in report.stalls : s.usec \in 1 .. now

(* What is reported of a cgroup was stalled since the opening sweep began,  *)
(* though paths are reused and files fail (cgroup.rs:41-43,                 *)
(* attribution.rs:138-148).                                                 *)
NothingFabricated == \A s \in report.stalls : s.usec <= report.grown[s.cgroup]

(* Tick after tick, no stall is reported twice (attribution.rs:375-390).    *)
NothingTwice == \A r \in Resource : \A p \in Paths : reported[r][p] <= stalled[p]

(* A leaf that was there and readable all along, and stalled between the    *)
(* two sweeps, is reported for at least that, unless the report is full.    *)
NothingMissed ==
    \A r \in Resource : \A p \in Paths :
        \/ Below(p) # {} \/ report.slept[p] = 0
        \/ report.slept[p] * 100 < report.window * MIN_REPORTABLE_PCT
        \/ Cardinality(report.stalls) = MaxStalls
        \/ \E s \in report.stalls :
             s.cgroup = p /\ s.resource = r /\ s.usec >= report.slept[p]

(* delta_usec is the "Microseconds stalled during the window" (lib.rs:81):  *)
(* no cgroup stalls for longer than the window it is a share of.            *)
WithinWindow == \A s \in report.stalls : s.usec <= report.window

CollectFitsWindow == ~resident => WithinWindow
TickFitsWindow == resident => WithinWindow
=============================================================================
