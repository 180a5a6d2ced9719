---------------------------- MODULE SamplingProofs ----------------------------
(* Proofs about what is measured, for any tree of cgroups that come and go,    *)
(* any resources and any number of ticks.                                      *)
EXTENDS Sampling, FiniteSetTheorems, TLAPS

(* The files of a living cgroup can be read, or none of them can: what the     *)
(* permissions of a cgroup's directory do.                                     *)
AllOrNone == Unreadable \subseteq {{}, Resource}

IsSweep(s) == DOMAIN s \subseteq Paths /\ s \in [DOMAIN s -> [Resource -> Nat]]

Types ==
    /\ now \in Nat /\ since \in Nat /\ since <= now
    /\ alive \subseteq Paths
    /\ total \in [Paths -> Nat] /\ stalled \in [Paths -> Nat]
    /\ opened \in [Paths -> Nat] /\ settled \in [Paths -> Nat] /\ began \in [Paths -> Nat]
    /\ resident \in BOOLEAN
    /\ pc \in {"rest", "first", "sleep", "second", "diff"}
    /\ listed \subseteq Paths /\ todo \subseteq Paths
    /\ IsSweep(snap) /\ IsSweep(prev)
    /\ steady \subseteq alive /\ steadyNext \subseteq alive
    /\ reported \in [Resource -> [Paths -> Nat]]

(* Where things are in each phase.                                             *)
Phases ==
    /\ pc = "rest" => DOMAIN snap = {}
    /\ pc \in {"rest", "first"} => DOMAIN prev = {}
    /\ pc = "first" => opened = began /\ steady \subseteq listed
    /\ pc \in {"rest", "sleep", "diff"} => todo = {}
    /\ pc = "diff" => resident
    /\ pc \in {"sleep", "second"} /\ ~resident => steady \subseteq listed
    /\ \A p \in Paths : began[p] <= stalled[p] /\ opened[p] <= stalled[p]

(* A counter that still runs has grown since a reading by no more than the     *)
(* kernel counted since that sweep began.                                      *)
Grown ==
    \A p \in Paths, r \in Resource :
        /\ p \in alive \cap DOMAIN prev => total[p] + opened[p] <= stalled[p] + prev[p][r]
        /\ p \in alive \cap DOMAIN snap => total[p] + began[p] <= stalled[p] + snap[p][r]
        /\ pc = "second" /\ p \in DOMAIN snap \cap DOMAIN prev =>
               snap[p][r] + opened[p] <= stalled[p] + prev[p][r]

(* For collect, nor by more than the time since its clock was started.         *)
Timed ==
    ~resident => \A p \in Paths, r \in Resource :
        /\ p \in alive \cap DOMAIN prev => total[p] + since <= now + prev[p][r]
        /\ pc = "first" /\ p \in alive \cap DOMAIN snap => total[p] + since <= now + snap[p][r]
        /\ pc = "second" /\ p \in DOMAIN snap \cap DOMAIN prev =>
               snap[p][r] + since <= now + prev[p][r]

Delta(r, p) == IF p \in DOMAIN prev THEN MinusOrZero(snap[p][r], prev[p][r]) ELSE 0

(* What has been reported, what the sweeps have still to report and what the   *)
(* counter has grown by since do not overlap.                                  *)
Reported ==
    \A p \in Paths, r \in Resource :
        /\ reported[r][p] <= stalled[p]
        /\ pc # "diff" /\ p \in alive \cap DOMAIN prev =>
               total[p] + reported[r][p] <= stalled[p] + prev[p][r]
        /\ pc \in {"first", "second"} /\ p \in DOMAIN snap =>
               /\ reported[r][p] + Delta(r, p) <= stalled[p]
               /\ p \in alive => total[p] + reported[r][p] + Delta(r, p) <= stalled[p] + snap[p][r]
        /\ pc = "diff" /\ p \in alive \cap DOMAIN snap =>
               total[p] + reported[r][p] <= stalled[p] + snap[p][r]

(* What was there and readable all along has been read, and has counted all    *)
(* that was stalled since the sweep before ended.                              *)
KeptAt(p, r) ==
    /\ pc \in {"sleep", "second"} => stalled[p] + since <= now + settled[p]
    /\ pc \in {"sleep", "second"} /\ p \in steady =>
           p \in DOMAIN prev /\ stalled[p] + prev[p][r] <= total[p] + settled[p]
    /\ pc = "second" /\ p \in steady \ todo =>
           p \in DOMAIN snap /\ began[p] + prev[p][r] <= snap[p][r] + settled[p]
    /\ pc = "first" /\ p \in steady \ todo => p \in DOMAIN snap /\ snap[p][r] <= total[p]
    /\ resident /\ pc \in {"second", "diff"} /\ p \in steadyNext \ todo =>
           p \in DOMAIN snap /\ snap[p][r] <= total[p]

Kept == \A p \in Paths, r \in Resource : KeptAt(p, r)

-----------------------------------------------------------------------------
LEMMA SampledFacts ==
    ASSUME IsSweep(snap), NEW p \in Paths, NEW s \in [Resource -> Nat], snap' = Sampled(p, s)
    PROVE  /\ IsSweep(snap') /\ DOMAIN snap' = DOMAIN snap \cup {p}
           /\ snap'[p] = s
           /\ \A q \in DOMAIN snap : q # p => snap'[q] = snap[q]
  BY DEF Sampled, IsSweep

LEMMA NoSamplesFacts == DOMAIN NoSamples = {} /\ IsSweep(NoSamples)
  BY DEF NoSamples, IsSweep

(* What a sweep may take down of one cgroup.                                   *)
LEMMA ReadFacts ==
    ASSUME Types, NEW p \in Paths, ReadCgroup(p)
    PROVE  /\ IsSweep(snap')
           /\ \/ snap' = snap
              \/ /\ p \in alive
                 /\ DOMAIN snap' = DOMAIN snap \cup {p}
                 /\ \A q \in DOMAIN snap : q # p => snap'[q] = snap[q]
                 /\ AllOrNone => \A r \in Resource : snap'[p][r] = total[p]
           /\ UNCHANGED <<now, alive, total, stalled, opened, settled, began, since, resident, pc,
                          listed, prev, report, reported>>
           /\ p \in todo /\ todo' = todo \ {p}
           /\ steady' \subseteq steady /\ steadyNext' \subseteq steadyNext
           /\ p \in steady' \/ p \in steadyNext' =>
                 \A r \in Resource : p \in DOMAIN snap' /\ (p \in alive => snap'[p][r] = total[p])
<1>1. PICK F \in Unreadable :
         /\ snap' = IF p \notin alive \/ F = Resource THEN snap
                    ELSE Sampled(p, [r \in Resource |-> IF r \in F THEN 0 ELSE total[p]])
         /\ IF F = {} THEN UNCHANGED steadyVars
                      ELSE steady' = steady \ {p} /\ steadyNext' = steadyNext \ {p}
  BY DEF ReadCgroup
<1> DEFINE s == [r \in Resource |-> IF r \in F THEN 0 ELSE total[p]]
<1>2. s \in [Resource -> Nat] /\ IsSweep(snap)
  BY DEF Types
<1>3. /\ UNCHANGED <<now, alive, total, stalled, opened, settled, began, since, resident, pc,
                     listed, prev, report, reported>>
      /\ p \in todo /\ todo' = todo \ {p}
  BY DEF ReadCgroup, kernelVars, baseVars, reportVars
<1>4. steady' \subseteq steady /\ steadyNext' \subseteq steadyNext
  BY <1>1 DEF steadyVars
<1>5. CASE p \notin alive \/ F = Resource
  <2>1. snap' = snap
    BY <1>1, <1>5
  <2>2. p \in steady' \/ p \in steadyNext' => Resource = {}
    BY <1>1, <1>5 DEF Types, steadyVars
  <2>3. QED
    BY <1>2, <1>3, <1>4, <2>1, <2>2
<1>6. CASE p \in alive /\ F # Resource
  <2>1. snap' = Sampled(p, s)
    BY <1>1, <1>6
  <2>2. /\ IsSweep(snap') /\ DOMAIN snap' = DOMAIN snap \cup {p}
        /\ snap'[p] = s
        /\ \A q \in DOMAIN snap : q # p => snap'[q] = snap[q]
    <3> HIDE DEF s
    <3> QED
      BY <1>2, <2>1, SampledFacts
  <2>3. AllOrNone => F = {}
    BY <1>6 DEF AllOrNone
  <2>4. F = {} => \A r \in Resource : snap'[p][r] = total[p]
    BY <2>2
  <2>5. p \in steady' \/ p \in steadyNext' => F = {}
    BY <1>1
  <2> HIDE DEF s
  <2>6. QED
    BY <1>3, <1>4, <1>6, <2>2, <2>3, <2>4, <2>5
<1>7. QED
  BY <1>5, <1>6

LEMMA RemoveWhileReadFacts ==
    ASSUME Types, NEW p \in Paths, RemoveWhileRead(p)
    PROVE  /\ IsSweep(snap') /\ DOMAIN snap' = DOMAIN snap \cup {p}
           /\ \A q \in DOMAIN snap : q # p => snap'[q] = snap[q]
           /\ \A r \in Resource : snap'[p][r] = 0 \/ snap'[p][r] = total[p]
           /\ p \in alive /\ alive' = alive \ {p}
           /\ UNCHANGED <<now, total, stalled, opened, settled, began, since, resident, pc,
                          listed, prev, report, reported>>
           /\ p \in todo /\ todo' = todo \ {p}
           /\ steady' = steady \ {p} /\ steadyNext' = steadyNext \ {p}
<1>1. PICK F \in SUBSET Resource :
         snap' = Sampled(p, [r \in Resource |-> IF r \in F THEN total[p] ELSE 0])
  BY DEF RemoveWhileRead
<1> DEFINE s == [r \in Resource |-> IF r \in F THEN total[p] ELSE 0]
<1>2. s \in [Resource -> Nat] /\ IsSweep(snap) /\ \A r \in Resource : s[r] = 0 \/ s[r] = total[p]
  BY DEF Types
<1>3. /\ IsSweep(snap') /\ DOMAIN snap' = DOMAIN snap \cup {p}
      /\ snap'[p] = s
      /\ \A q \in DOMAIN snap : q # p => snap'[q] = snap[q]
  <2> HIDE DEF s
  <2> QED
    BY <1>1, <1>2, SampledFacts DEF s
<1>4. /\ p \in alive /\ alive' = alive \ {p}
      /\ UNCHANGED <<now, total, stalled, opened, settled, began, since, resident, pc,
                     listed, prev, report, reported>>
      /\ p \in todo /\ todo' = todo \ {p}
      /\ steady' = steady \ {p} /\ steadyNext' = steadyNext \ {p}
  BY DEF RemoveWhileRead, baseVars, reportVars
<1> HIDE DEF s
<1>5. QED
  BY <1>2, <1>3, <1>4

(* Advance, pointwise.                                                         *)
LEMMA AdvanceFacts ==
    ASSUME Types, Advance
    PROVE  /\ now' = now + 1
           /\ total' \in [Paths -> Nat] /\ stalled' \in [Paths -> Nat]
           /\ \A p \in Paths :
                 \/ total'[p] = total[p] /\ stalled'[p] = stalled[p]
                 \/ p \in alive /\ total'[p] = total[p] + 1 /\ stalled'[p] = stalled[p] + 1
           /\ UNCHANGED <<alive, resident, pc, listed, todo, snap, began, prev, since, opened,
                          settled, steady, steadyNext, report, reported>>
<1>1. PICK S \in SUBSET alive :
         /\ total' = [p \in Paths |-> total[p] + (IF p \in S THEN 1 ELSE 0)]
         /\ stalled' = [p \in Paths |-> stalled[p] + (IF p \in S THEN 1 ELSE 0)]
  BY DEF Advance
<1>2. QED
  BY <1>1 DEF Advance, Types, sweepVars, baseVars, steadyVars, reportVars

-----------------------------------------------------------------------------
(* Reports.                                                                    *)

(* A stall is what one cgroup, in both sweeps, counted in between.             *)
LEMMA StallFacts ==
    ASSUME Types, NEW w \in Nat, NEW s \in Stalls(w)
    PROVE  /\ s.resource \in Resource
           /\ s.cgroup \in DOMAIN snap \cap DOMAIN prev /\ s.cgroup \in Paths
           /\ s.usec = Delta(s.resource, s.cgroup)
           /\ s.usec \in Nat /\ s.usec # 0
<1>1. PICK r \in Resource :
         s \in {[cgroup |-> p, resource |-> r, usec |-> Deltas(r)[p]] : p \in
                  {q \in DOMAIN Deltas(r) : /\ Deltas(r)[q] * 100 >= w * MIN_REPORTABLE_PCT
                                            /\ Responsible(q, Deltas(r))}}
  BY DEF Stalls
<1>2. PICK p \in DOMAIN Deltas(r) :
         s = [cgroup |-> p, resource |-> r, usec |-> Deltas(r)[p]] /\ Responsible(p, Deltas(r))
  BY <1>1
<1>3. p \in DOMAIN snap \cap DOMAIN prev /\ Deltas(r)[p] = MinusOrZero(snap[p][r], prev[p][r])
  BY <1>2 DEF Deltas
<1>4. p \in Paths /\ snap[p][r] \in Nat /\ prev[p][r] \in Nat
  BY <1>3 DEF Types, IsSweep
<1>5. s.usec = Delta(r, p) /\ s.usec \in Nat
  BY <1>2, <1>3, <1>4 DEF Delta, MinusOrZero
<1>6. s.usec # 0
  BY <1>2 DEF Responsible
<1>7. QED
  BY <1>2, <1>3, <1>4, <1>5, <1>6

Found(r, p) == IF p \in DOMAIN snap THEN Delta(r, p) ELSE 0

LEMMA DeltaIsNat ==
    ASSUME Types, NEW p \in Paths, NEW r \in Resource
    PROVE  /\ Found(r, p) \in Nat
           /\ p \in DOMAIN snap => Delta(r, p) \in Nat /\ snap[p][r] \in Nat
           /\ p \in DOMAIN prev => prev[p][r] \in Nat
  BY DEF Types, IsSweep, Delta, Found, MinusOrZero

LEMMA ReportFacts ==
    ASSUME Types, NEW w \in Nat, Report(w)
    PROVE  /\ report'.window = w
           /\ report'.stalls \subseteq Stalls(w)
           /\ report'.grown = [p \in Paths |-> stalled[p] - opened[p]]
           /\ report'.slept = [p \in Paths |-> IF p \in steady THEN began[p] - settled[p] ELSE 0]
           /\ report'.stalls \in IF w = 0 THEN {{}} ELSE Worst(Stalls(w))
           /\ reported' \in [Resource -> [Paths -> Nat]]
           /\ \A p \in Paths, r \in Resource : reported'[r][p] <= reported[r][p] + Found(r, p)
<1>1. PICK T \in IF w = 0 THEN {{}} ELSE Worst(Stalls(w)) :
        /\ report' = [window |-> w, stalls |-> T,
                      grown |-> [p \in Paths |-> stalled[p] - opened[p]],
                      slept |-> [p \in Paths |-> IF p \in steady THEN began[p] - settled[p] ELSE 0]]
        /\ reported' = [r \in Resource |-> [p \in Paths |-> reported[r][p] + Usec(T, r, p)]]
  BY DEF Report
<1>2. T \subseteq Stalls(w)
  BY <1>1 DEF Worst
<1>3. ASSUME NEW p \in Paths, NEW r \in Resource
      PROVE  Usec(T, r, p) \in Nat /\ Usec(T, r, p) <= Found(r, p)
  <2> DEFINE of == {s \in T : s.resource = r /\ s.cgroup = p}
  <2>1. Found(r, p) \in Nat
    BY DeltaIsNat
  <2>2. CASE of = {}
    BY <2>1, <2>2 DEF Usec
  <2>3. CASE of # {}
    <3> DEFINE s == CHOOSE s \in of : TRUE
    <3>1. s \in of
      BY <2>3
    <3>2. Usec(T, r, p) = s.usec
      BY <2>3 DEF Usec
    <3>3. s \in Stalls(w) /\ s.resource = r /\ s.cgroup = p
      BY <1>2, <3>1
    <3> HIDE DEF s
    <3>4. s.usec \in Nat /\ s.usec = Delta(r, p) /\ p \in DOMAIN snap
      BY <3>3, StallFacts
    <3>5. QED
      BY <2>1, <3>2, <3>4 DEF Found
  <2>4. QED
    BY <2>2, <2>3
<1>4. reported \in [Resource -> [Paths -> Nat]]
  BY DEF Types
<1>5. /\ reported' \in [Resource -> [Paths -> Nat]]
      /\ \A p \in Paths, r \in Resource : reported'[r][p] <= reported[r][p] + Found(r, p)
  <2>1. ASSUME NEW p \in Paths, NEW r \in Resource
        PROVE  /\ reported'[r][p] = reported[r][p] + Usec(T, r, p)
               /\ reported[r][p] \in Nat /\ Found(r, p) \in Nat
    BY <1>1, <1>4, DeltaIsNat
  <2>2. \A p \in Paths, r \in Resource : reported'[r][p] <= reported[r][p] + Found(r, p)
    BY <1>3, <2>1
  <2>3. \A r \in Resource : reported'[r] \in [Paths -> Nat]
    BY <1>1, <1>3, <1>4
  <2>4. QED
    BY <1>1, <2>2, <2>3
<1>6. QED
  BY <1>1, <1>2, <1>5

-----------------------------------------------------------------------------
(* The invariant, part by part; one step for each action.                      *)

LEMMA InitInv == Init => Types /\ Phases /\ Grown /\ Timed /\ Reported /\ Kept
<1> SUFFICES ASSUME Init
             PROVE  Types /\ Phases /\ Grown /\ Timed /\ Reported /\ Kept
  OBVIOUS
<1>1. DOMAIN NoSamples = {} /\ IsSweep(NoSamples)
  BY NoSamplesFacts
<1>2. Types
  BY <1>1 DEF Init, Types
<1>3. Phases
  BY <1>1 DEF Init, Phases
<1>4. Grown /\ Timed /\ Kept
  BY <1>1 DEF Init, Grown, Timed, KeptAt, Kept
<1>5. Reported
  BY <1>1 DEF Init, Reported
<1>6. QED
  BY <1>2, <1>3, <1>4, <1>5

LEMMA InvTypes ==
    ASSUME Types, Phases, [Next]_vars
    PROVE  Types' /\ Phases'
<1>1. CASE Advance
  <2>1. Types'
    BY <1>1, AdvanceFacts DEF Types
  <2>2. \A p \in Paths : stalled'[p] >= stalled[p] /\ stalled[p] \in Nat /\ stalled'[p] \in Nat
                        /\ began[p] \in Nat /\ opened[p] \in Nat
    BY <1>1, AdvanceFacts DEF Types
  <2>3. Phases'
    BY <1>1, <2>2, AdvanceFacts DEF Phases
  <2>4. QED
    BY <2>1, <2>3
<1>2. ASSUME NEW p \in Paths, CreateCgroup(p)
      PROVE  Types' /\ Phases'
  BY <1>2 DEF CreateCgroup, Types, Phases, sweepVars, baseVars, steadyVars, reportVars
<1>3. ASSUME NEW p \in Paths, RemoveCgroup(p)
      PROVE  Types' /\ Phases'
  BY <1>3 DEF RemoveCgroup, Types, Phases, sweepVars, baseVars, reportVars
<1>4. ASSUME NEW p \in Paths, ReadCgroup(p)
      PROVE  Types' /\ Phases'
  BY <1>4, ReadFacts DEF Types, Phases
<1>5. ASSUME NEW p \in Paths, RemoveWhileRead(p)
      PROVE  Types' /\ Phases'
  BY <1>5, RemoveWhileReadFacts DEF Types, Phases
<1>6. CASE Begin
  BY <1>6, NoSamplesFacts DEF Begin, StartSweep, Types, Phases, kernelVars
<1>7. CASE EndFirst
  BY <1>7 DEF EndFirst, Swept, Types, Phases, kernelVars, sweepVars, steadyVars, reportVars
<1>8. CASE BeginSecond
  BY <1>8, NoSamplesFacts
  DEF BeginSecond, StartSweep, Types, Phases, kernelVars, baseVars, reportVars
<1>9. CASE EndCollect
  <2>1. now - since \in Nat
    BY DEF Types
  <2>2. reported' \in [Resource -> [Paths -> Nat]]
    BY <1>9, <2>1, ReportFacts DEF EndCollect
  <2>3. QED
    BY <1>9, <2>2, NoSamplesFacts DEF EndCollect, Swept, Types, Phases, kernelVars
<1>10. CASE EndTick
  <2>1. now - since \in Nat
    BY DEF Types
  <2>2. reported' \in [Resource -> [Paths -> Nat]]
    BY <1>10, <2>1, ReportFacts DEF EndTick
  <2>3. QED
    BY <1>10, <2>2 DEF EndTick, Swept, Types, Phases, kernelVars, sweepVars, baseVars, steadyVars
<1>11. CASE Rebase
  BY <1>11, NoSamplesFacts DEF Rebase, Types, Phases, kernelVars
<1>12. CASE UNCHANGED vars
  BY <1>12 DEF vars, kernelVars, sweepVars, baseVars, steadyVars, reportVars, Types, Phases
<1>13. QED
  BY <1>1, <1>2, <1>3, <1>4, <1>5, <1>6, <1>7, <1>8, <1>9, <1>10, <1>11, <1>12 DEF Next

(* The values the parts of the invariant are about.                            *)
LEMMA Numbers ==
    ASSUME Types, NEW p \in Paths, NEW r \in Resource
    PROVE  /\ total[p] \in Nat /\ stalled[p] \in Nat /\ opened[p] \in Nat
           /\ settled[p] \in Nat /\ began[p] \in Nat /\ reported[r][p] \in Nat
           /\ p \in DOMAIN prev => prev[p][r] \in Nat
           /\ p \in DOMAIN snap => snap[p][r] \in Nat
           /\ now \in Nat /\ since \in Nat /\ since <= now
  BY DEF Types, IsSweep

(* Facts about the actions that touch none of the samples or all of them.      *)
LEMMA CreateFacts ==
    ASSUME Types, Phases, NEW p \in Paths, CreateCgroup(p)
    PROVE  /\ p \notin alive /\ alive' = alive \cup {p}
           /\ \A q \in Paths : total'[q] = IF q = p THEN 0 ELSE total[q]
           /\ \A q \in Paths : began[q] <= stalled[q] /\ opened[q] <= stalled[q]
           /\ UNCHANGED <<now, stalled, opened, settled, began, since, resident, pc, listed, todo,
                          snap, prev, steady, steadyNext, report, reported>>
  BY DEF CreateCgroup, Types, Phases, sweepVars, baseVars, steadyVars, reportVars

LEMMA RemoveFacts ==
    ASSUME NEW p \in Paths, RemoveCgroup(p)
    PROVE  /\ alive' = alive \ {p} /\ steady' = steady \ {p} /\ steadyNext' = steadyNext \ {p}
           /\ UNCHANGED <<now, total, stalled, opened, settled, began, since, resident, pc, listed,
                          todo, snap, prev, report, reported>>
  BY DEF RemoveCgroup, sweepVars, baseVars, reportVars

LEMMA ReadInSweep ==
    ASSUME Types, Phases, NEW p \in todo
    PROVE  pc \in {"first", "second"} /\ (pc = "first" => DOMAIN prev = {} /\ opened = began)
  BY DEF Phases, Types

(* What reading a cgroup leaves alone.                                         *)
ReadIs(p) ==
    /\ p \in todo /\ pc \in {"first", "second"}
    /\ pc = "first" => DOMAIN prev = {}
    /\ UNCHANGED <<now, total, stalled, opened, settled, began, since, resident, pc, listed, prev,
                   report, reported>>
    /\ alive' \subseteq alive

LEMMA InvGrown ==
    ASSUME Types, Phases, Grown, AllOrNone, [Next]_vars
    PROVE  Grown'
<1>1. CASE Advance
  BY <1>1, AdvanceFacts, Numbers DEF Grown
<1>2. ASSUME NEW p \in Paths, CreateCgroup(p)
      PROVE  Grown'
  BY <1>2, CreateFacts, Numbers DEF Grown
<1>3. ASSUME NEW p \in Paths, RemoveCgroup(p)
      PROVE  Grown'
  BY <1>3, RemoveFacts DEF Grown
<1>4. ASSUME NEW p \in Paths, ReadCgroup(p)
      PROVE  Grown'
  <2>1. CASE snap' = snap
    BY <1>4, <2>1, ReadFacts DEF Grown
  <2>2. CASE /\ p \in alive /\ DOMAIN snap' = DOMAIN snap \cup {p}
             /\ \A q \in DOMAIN snap : q # p => snap'[q] = snap[q]
             /\ \A r \in Resource : snap'[p][r] = total[p]
    <3>1. \A r \in Resource : began[p] <= stalled[p] /\ total[p] + began[p] <= stalled[p] + total[p]
      BY Numbers DEF Phases
    <3>2. QED
      BY <1>4, <2>2, <3>1, ReadFacts, Numbers DEF Grown
  <2>3. QED
    BY <1>4, <2>1, <2>2, ReadFacts
<1>5. ASSUME NEW p \in Paths, RemoveWhileRead(p)
      PROVE  Grown'
  <2>1. ASSUME NEW r \in Resource
        PROVE  snap'[p][r] \in Nat /\ snap'[p][r] <= total[p] /\ opened[p] <= stalled[p]
    <3>1. snap'[p][r] = 0 \/ snap'[p][r] = total[p]
      BY <1>5, RemoveWhileReadFacts
    <3>2. QED
      BY <3>1, Numbers DEF Phases
  <2>2. /\ DOMAIN snap' = DOMAIN snap \cup {p} /\ alive' = alive \ {p} /\ p \in alive
        /\ \A q \in DOMAIN snap : q # p => snap'[q] = snap[q]
        /\ UNCHANGED <<now, since, total, stalled, opened, began, prev, pc, resident>>
    BY <1>5, RemoveWhileReadFacts
  <2>3. QED
    BY <2>1, <2>2, Numbers DEF Grown
<1>6. CASE Begin
  BY <1>6, NoSamplesFacts DEF Begin, StartSweep, kernelVars, Phases, Grown
<1>7. CASE EndFirst
  BY <1>7 DEF EndFirst, kernelVars, sweepVars, Phases, Grown
<1>8. CASE BeginSecond
  BY <1>8, NoSamplesFacts DEF BeginSecond, StartSweep, kernelVars, baseVars, Grown
<1>9. CASE EndCollect
  BY <1>9, NoSamplesFacts DEF EndCollect, Grown
<1>10. CASE EndTick
  BY <1>10 DEF EndTick, kernelVars, sweepVars, baseVars, Grown
<1>11. CASE Rebase
  BY <1>11, NoSamplesFacts DEF Rebase, kernelVars, Grown
<1>12. CASE UNCHANGED vars
  BY <1>12 DEF vars, kernelVars, sweepVars, baseVars, Grown
<1>13. QED
  BY <1>1, <1>2, <1>3, <1>4, <1>5, <1>6, <1>7, <1>8, <1>9, <1>10, <1>11, <1>12 DEF Next

LEMMA InvTimed ==
    ASSUME Types, Phases, Timed, AllOrNone, [Next]_vars
    PROVE  Timed'
<1>1. CASE Advance
  BY <1>1, AdvanceFacts, Numbers DEF Timed
<1>2. ASSUME NEW p \in Paths, CreateCgroup(p)
      PROVE  Timed'
  BY <1>2, CreateFacts, Numbers DEF Timed
<1>3. ASSUME NEW p \in Paths, RemoveCgroup(p)
      PROVE  Timed'
  BY <1>3, RemoveFacts DEF Timed
<1>4. ASSUME NEW p \in Paths, ReadCgroup(p)
      PROVE  Timed'
  <2>1. CASE snap' = snap
    BY <1>4, <2>1, ReadFacts DEF Timed
  <2>2. CASE /\ p \in alive /\ DOMAIN snap' = DOMAIN snap \cup {p}
             /\ \A q \in DOMAIN snap : q # p => snap'[q] = snap[q]
             /\ \A r \in Resource : snap'[p][r] = total[p]
    BY <1>4, <2>2, ReadFacts, Numbers DEF Timed
  <2>3. QED
    BY <1>4, <2>1, <2>2, ReadFacts
<1>5. ASSUME NEW p \in Paths, RemoveWhileRead(p)
      PROVE  Timed'
  <2>1. ASSUME NEW r \in Resource
        PROVE  snap'[p][r] \in Nat /\ snap'[p][r] <= total[p]
    <3>1. snap'[p][r] = 0 \/ snap'[p][r] = total[p]
      BY <1>5, RemoveWhileReadFacts
    <3>2. QED
      BY <3>1, Numbers
  <2>2. /\ DOMAIN snap' = DOMAIN snap \cup {p} /\ alive' = alive \ {p} /\ p \in alive
        /\ \A q \in DOMAIN snap : q # p => snap'[q] = snap[q]
        /\ UNCHANGED <<now, since, total, stalled, opened, began, prev, pc, resident>>
    BY <1>5, RemoveWhileReadFacts
  <2>3. QED
    BY <2>1, <2>2, Numbers DEF Timed
<1>6. CASE Begin
  BY <1>6, NoSamplesFacts DEF Begin, StartSweep, kernelVars, Phases, Timed
<1>7. CASE EndFirst
  BY <1>7 DEF EndFirst, kernelVars, sweepVars, Timed
<1>8. CASE BeginSecond
  BY <1>8, NoSamplesFacts DEF BeginSecond, StartSweep, kernelVars, baseVars, Timed
<1>9. CASE EndCollect
  BY <1>9, NoSamplesFacts DEF EndCollect, Timed
<1>10. CASE EndTick
  BY <1>10 DEF EndTick, Timed
<1>11. CASE Rebase
  BY <1>11 DEF Rebase, Phases, Timed
<1>12. CASE UNCHANGED vars
  BY <1>12 DEF vars, kernelVars, sweepVars, baseVars, Timed
<1>13. QED
  BY <1>1, <1>2, <1>3, <1>4, <1>5, <1>6, <1>7, <1>8, <1>9, <1>10, <1>11, <1>12 DEF Next

LEMMA InvReported ==
    ASSUME Types, Phases, Reported, AllOrNone, [Next]_vars
    PROVE  Reported'
<1>1. CASE Advance
  <2>1. \A p \in Paths, r \in Resource :
           p \in DOMAIN snap => Delta(r, p)' = Delta(r, p) /\ Delta(r, p) \in Nat
    BY <1>1, AdvanceFacts, DeltaIsNat DEF Delta
  <2>2. QED
    BY <1>1, <2>1, AdvanceFacts, Numbers DEF Reported
<1>2. ASSUME NEW p \in Paths, CreateCgroup(p)
      PROVE  Reported'
  <2>1. \A q \in Paths, r \in Resource :
           q \in DOMAIN snap => Delta(r, q)' = Delta(r, q) /\ Delta(r, q) \in Nat
    BY <1>2, CreateFacts, DeltaIsNat DEF Delta
  <2>2. QED
    BY <1>2, <2>1, CreateFacts, Numbers DEF Reported
<1>3. ASSUME NEW p \in Paths, RemoveCgroup(p)
      PROVE  Reported'
  BY <1>3, RemoveFacts DEF Reported, Delta
<1>4. ASSUME NEW p \in Paths, ReadCgroup(p)
      PROVE  Reported'
  <2>1. CASE snap' = snap
    BY <1>4, <2>1, ReadFacts DEF Reported, Delta
  <2>2. CASE /\ p \in alive /\ DOMAIN snap' = DOMAIN snap \cup {p}
             /\ \A q \in DOMAIN snap : q # p => snap'[q] = snap[q]
             /\ \A r \in Resource : snap'[p][r] = total[p]
    <3>1. ReadIs(p)
      BY <1>4, ReadFacts, ReadInSweep DEF ReadIs
    <3>2. ASSUME NEW r \in Resource
          PROVE  reported[r][p] + Delta(r, p)' <= stalled[p] /\ Delta(r, p)' \in Nat
      BY <2>2, <3>1, Numbers DEF ReadIs, Delta, MinusOrZero, Reported
    <3>3. \A q \in DOMAIN snap, r \in Resource :
             q # p => Delta(r, q)' = Delta(r, q) /\ Delta(r, q) \in Nat /\ q \in Paths
      BY <2>2, <3>1, DeltaIsNat DEF ReadIs, Delta, Types, IsSweep
    <3>4. QED
      BY SMTT(20), <2>2, <3>1, <3>2, <3>3, Numbers DEF ReadIs, Reported
  <2>3. QED
    BY <1>4, <2>1, <2>2, ReadFacts
<1>5. ASSUME NEW p \in Paths, RemoveWhileRead(p)
      PROVE  Reported'
  <2>1. /\ DOMAIN snap' = DOMAIN snap \cup {p} /\ alive' = alive \ {p} /\ p \in alive
        /\ \A q \in DOMAIN snap : q # p => snap'[q] = snap[q]
        /\ \A r \in Resource : snap'[p][r] = 0 \/ snap'[p][r] = total[p]
        /\ ReadIs(p)
    BY <1>5, RemoveWhileReadFacts, ReadInSweep DEF ReadIs
  <2>2. ASSUME NEW r \in Resource
        PROVE  reported[r][p] + Delta(r, p)' <= stalled[p]
    BY <2>1, Numbers DEF ReadIs, Delta, MinusOrZero, Reported
  <2>3. \A q \in DOMAIN snap, r \in Resource :
           q # p => Delta(r, q)' = Delta(r, q) /\ q \in Paths
    BY <2>1 DEF ReadIs, Delta, Types, IsSweep
  <2>4. QED
    BY <2>1, <2>2, <2>3, Numbers DEF ReadIs, Reported
<1>6. CASE Begin
  BY <1>6, NoSamplesFacts DEF Begin, StartSweep, kernelVars, Phases, Reported
<1>7. CASE EndFirst
  BY <1>7, Numbers DEF EndFirst, kernelVars, sweepVars, reportVars, Phases, Reported, Delta
<1>8. CASE BeginSecond
  BY <1>8, NoSamplesFacts DEF BeginSecond, StartSweep, kernelVars, baseVars, reportVars, Reported
<1>9. CASE EndCollect
  <2>1. now - since \in Nat
    BY Numbers DEF Types
  <2>2. ASSUME NEW p \in Paths, NEW r \in Resource
        PROVE  reported'[r][p] <= stalled[p]
    <3>1. reported'[r][p] <= reported[r][p] + Found(r, p) /\ reported'[r][p] \in Nat
      BY ZenonT(30), <1>9, <2>1, ReportFacts DEF EndCollect
    <3>2. reported[r][p] + Found(r, p) <= stalled[p]
      BY <1>9, Numbers DEF EndCollect, Found, Reported
    <3>3. QED
      BY <3>1, <3>2, Numbers, DeltaIsNat
  <2>3. QED
    BY <1>9, <2>2, NoSamplesFacts DEF EndCollect, kernelVars, Reported
<1>10. CASE EndTick
  <2>1. now - since \in Nat
    BY Numbers DEF Types
  <2>2. ASSUME NEW p \in Paths, NEW r \in Resource
        PROVE  /\ reported'[r][p] <= stalled[p]
               /\ p \in alive \cap DOMAIN snap => total[p] + reported'[r][p] <= stalled[p] + snap[p][r]
    <3>1. reported'[r][p] <= reported[r][p] + Found(r, p) /\ reported'[r][p] \in Nat
      BY ZenonT(30), <1>10, <2>1, ReportFacts DEF EndTick
    <3>2. /\ reported[r][p] + Found(r, p) <= stalled[p]
          /\ p \in alive \cap DOMAIN snap =>
                total[p] + reported[r][p] + Found(r, p) <= stalled[p] + snap[p][r]
      BY <1>10, Numbers DEF EndTick, Found, Reported
    <3>3. QED
      BY <3>1, <3>2, Numbers, DeltaIsNat
  <2>3. QED
    BY <1>10, <2>2 DEF EndTick, kernelVars, sweepVars, baseVars, Reported
<1>11. CASE Rebase
  BY <1>11, NoSamplesFacts DEF Rebase, kernelVars, Reported
<1>12. CASE UNCHANGED vars
  BY <1>12 DEF vars, kernelVars, sweepVars, baseVars, reportVars, Reported, Delta
<1>13. QED
  BY <1>1, <1>2, <1>3, <1>4, <1>5, <1>6, <1>7, <1>8, <1>9, <1>10, <1>11, <1>12 DEF Next

LEMMA InvKept ==
    ASSUME Types, Phases, Kept, [Next]_vars
    PROVE  Kept'
<1>1. CASE Advance
  <2>1. steady \subseteq alive /\ steadyNext \subseteq alive
    BY DEF Types
  <2>2. QED
    BY <1>1, <2>1, AdvanceFacts, Numbers DEF KeptAt, Kept
<1>2. ASSUME NEW p \in Paths, CreateCgroup(p)
      PROVE  Kept'
  <2>1. steady \subseteq alive /\ steadyNext \subseteq alive
    BY DEF Types
  <2>2. QED
    BY <1>2, <2>1, CreateFacts DEF KeptAt, Kept
<1>3. ASSUME NEW p \in Paths, RemoveCgroup(p)
      PROVE  Kept'
  BY <1>3, RemoveFacts DEF KeptAt, Kept
<1>4. ASSUME NEW p \in Paths, ReadCgroup(p)
      PROVE  Kept'
  <2>1. /\ ReadIs(p)
        /\ todo' = todo \ {p} /\ steady' \subseteq steady /\ steadyNext' \subseteq steadyNext
        /\ \A q \in DOMAIN snap : q # p => q \in DOMAIN snap' /\ snap'[q] = snap[q]
    BY <1>4, ReadFacts, ReadInSweep DEF ReadIs
  <2>2. /\ steady \subseteq alive /\ steadyNext \subseteq alive
        /\ p \in steady' \/ p \in steadyNext' =>
              \A r \in Resource : p \in DOMAIN snap' /\ snap'[p][r] = total[p]
    BY <1>4, <2>1, ReadFacts DEF Types
  <2>3. \A q \in Paths : began[q] <= stalled[q]
    BY DEF Phases
  <2>4. ASSUME NEW q \in Paths, NEW r \in Resource, q # p
        PROVE  KeptAt(q, r)'
    BY <2>1, <2>4 DEF ReadIs, Kept, KeptAt
  <2>5. ASSUME NEW r \in Resource
        PROVE  KeptAt(p, r)'
    BY <2>1, <2>2, <2>3, Numbers DEF ReadIs, Kept, KeptAt
  <2>6. QED
    BY <2>4, <2>5 DEF Kept
<1>5. ASSUME NEW p \in Paths, RemoveWhileRead(p)
      PROVE  Kept'
  <2>1. /\ ReadIs(p) /\ todo' = todo \ {p} /\ steady' = steady \ {p} /\ steadyNext' = steadyNext \ {p}
        /\ \A q \in DOMAIN snap : q # p => q \in DOMAIN snap' /\ snap'[q] = snap[q]
    BY <1>5, RemoveWhileReadFacts, ReadInSweep DEF ReadIs
  <2>2. QED
    BY <2>1 DEF ReadIs, Kept, KeptAt
<1>6. CASE Begin
  BY <1>6 DEF Begin, StartSweep, KeptAt, Kept
<1>7. CASE EndFirst
  BY <1>7, Numbers DEF EndFirst, Swept, kernelVars, sweepVars, steadyVars, Phases, KeptAt, Kept
<1>8. CASE BeginSecond
  BY <1>8, Numbers DEF BeginSecond, StartSweep, kernelVars, baseVars, Types, Phases, KeptAt, Kept
<1>9. CASE EndCollect
  BY <1>9 DEF EndCollect, KeptAt, Kept
<1>10. CASE EndTick
  BY <1>10 DEF EndTick, Swept, kernelVars, sweepVars, baseVars, steadyVars, KeptAt, Kept
<1>11. CASE Rebase
  BY <1>11, Numbers DEF Rebase, kernelVars, Phases, KeptAt, Kept
<1>12. CASE UNCHANGED vars
  BY <1>12 DEF vars, kernelVars, sweepVars, baseVars, steadyVars, KeptAt, Kept
<1>13. QED
  BY <1>1, <1>2, <1>3, <1>4, <1>5, <1>6, <1>7, <1>8, <1>9, <1>10, <1>11, <1>12 DEF Next

-----------------------------------------------------------------------------
(* What holds whatever files fail, and what a file failing alone would break:  *)
(* its zero makes the whole counter a difference.                              *)
Sound == Types /\ Phases /\ Kept
Exact == AllOrNone => Grown /\ Timed /\ Reported

LEMMA Always == Spec => [](Sound /\ Exact)
<1>1. Init => Sound /\ Exact
  BY InitInv DEF Sound, Exact
<1>2. Sound /\ Exact /\ [Next]_vars => (Sound /\ Exact)'
  <2> SUFFICES ASSUME Sound, Exact, [Next]_vars
               PROVE  Sound' /\ Exact'
    OBVIOUS
  <2>1. Sound'
    BY InvTypes, InvKept DEF Sound
  <2>2. ASSUME AllOrNone PROVE Grown' /\ Timed' /\ Reported'
    BY <2>2, InvGrown, InvTimed, InvReported DEF Sound, Exact
  <2>3. AllOrNone <=> AllOrNone'
    BY DEF AllOrNone
  <2>4. QED
    BY <2>1, <2>2, <2>3 DEF Exact
<1>3. QED
  BY <1>1, <1>2, PTL DEF Spec

(* A step reports nothing, keeps the report, or compares two whole sweeps.     *)
LEMMA ReportSteps ==
    ASSUME [Next]_vars
    PROVE  /\ resident' = resident
           /\ \/ report' = report
              \/ report' = NoReport
              \/ /\ pc = "second" /\ Swept /\ Report(now - since)
                 /\ UNCHANGED <<stalled, now>>
<1>1. ASSUME NEW p \in Paths, CreateCgroup(p) \/ RemoveCgroup(p) \/ ReadCgroup(p) \/ RemoveWhileRead(p)
      PROVE  report' = report /\ resident' = resident
  BY <1>1 DEF CreateCgroup, RemoveCgroup, ReadCgroup, RemoveWhileRead, reportVars
<1>2. CASE Advance \/ EndFirst \/ BeginSecond \/ UNCHANGED vars
  BY <1>2 DEF Advance, EndFirst, BeginSecond, vars, reportVars
<1>3. CASE Begin \/ Rebase
  BY <1>3 DEF Begin, Rebase
<1>4. CASE EndCollect \/ EndTick
  BY <1>4 DEF EndCollect, EndTick, kernelVars
<1>5. QED
  BY <1>1, <1>2, <1>3, <1>4 DEF Next

(* Of what was there and readable all along, a leaf that stalled for a         *)
(* hundredth of the window is among the stalls.                                *)
LEMMA LeafIsFound ==
    ASSUME Types, Phases, Kept, pc = "second", Swept,
           NEW p \in steady, Below(p) = {}, NEW r \in Resource,
           began[p] - settled[p] # 0,
           ~((began[p] - settled[p]) * 100 < (now - since) * MIN_REPORTABLE_PCT)
    PROVE  /\ now - since # 0
           /\ \E s \in Stalls(now - since) :
                 s.cgroup = p /\ s.resource = r /\ s.usec >= began[p] - settled[p]
<1> DEFINE w == now - since
           slept == began[p] - settled[p]
           usecs == Deltas(r)
           s == [cgroup |-> p, resource |-> r, usec |-> usecs[p]]
<1>1. p \in Paths /\ began[p] <= stalled[p]
  BY DEF Types, Phases
<1>2. KeptAt(p, r) /\ p \notin todo
  BY <1>1 DEF Kept, Swept
<1>3. /\ p \in DOMAIN snap \cap DOMAIN prev
      /\ began[p] + prev[p][r] <= snap[p][r] + settled[p]
      /\ stalled[p] + since <= now + settled[p]
  BY <1>2 DEF KeptAt
<1>4. usecs[p] = MinusOrZero(snap[p][r], prev[p][r])
  BY <1>3 DEF Deltas
<1>5. w \in Nat /\ slept \in Int /\ slept # 0 /\ slept * 100 >= w /\ slept <= w
  BY <1>1, <1>3, Numbers DEF MIN_REPORTABLE_PCT
<1>6. slept > 0 /\ w # 0
  BY <1>5
<1>7. usecs[p] \in Nat /\ usecs[p] >= slept
  BY <1>1, <1>3, <1>4, <1>6, Numbers DEF MinusOrZero
<1>8. usecs[p] # 0 /\ usecs[p] * 100 >= w * MIN_REPORTABLE_PCT
  BY <1>5, <1>6, <1>7 DEF MIN_REPORTABLE_PCT
<1>9. p \in DOMAIN usecs
  BY <1>3 DEF Deltas
<1>10. Responsible(p, usecs)
  BY <1>8 DEF Responsible
<1>11. s \in Stalls(w)
  BY <1>8, <1>9, <1>10 DEF Stalls
<1>12. QED
  BY <1>6, <1>7, <1>11

LEMMA StallsFinite ==
    ASSUME Types, NEW w \in Nat
    PROVE  IsFiniteSet(Stalls(w))
<1> DEFINE D == Resource \X Paths
           f == [x \in D |-> [cgroup |-> x[2], resource |-> x[1], usec |-> Delta(x[1], x[2])]]
           T == {f[x] : x \in D}
<1>1. IsFiniteSet(D)
  BY FS_Product, SamplingAssumption, CgroupAssumption
<1>2. f \in Surjection(D, T)
  BY DEF Surjection
<1>3. IsFiniteSet(T)
  BY <1>1, <1>2, FS_Surjection
<1>4. ASSUME NEW s \in Stalls(w)
      PROVE  s \in T
  <2>1. s = [cgroup |-> s.cgroup, resource |-> s.resource, usec |-> s.usec]
    BY DEF Stalls
  <2>2. s.resource \in Resource /\ s.cgroup \in Paths /\ s.usec = Delta(s.resource, s.cgroup)
    BY StallFacts
  <2>3. s = f[<<s.resource, s.cgroup>>] /\ <<s.resource, s.cgroup>> \in D
    BY <2>1, <2>2
  <2>4. QED
    BY <2>3
<1>5. QED
  BY <1>3, <1>4, FS_Subset

-----------------------------------------------------------------------------
(* What is reported of a cgroup was stalled since the opening sweep began,     *)
(* though paths are reused, if its files are readable all or none.             *)
THEOREM ReportsAreReal == AllOrNone => (Spec => []NothingFabricated)
<1> SUFFICES ASSUME AllOrNone PROVE Spec => []NothingFabricated
  OBVIOUS
<1>1. Init => NothingFabricated
  BY DEF Init, NoReport, NothingFabricated
<1>2. NothingFabricated /\ Sound /\ Exact /\ [Next]_vars => NothingFabricated'
  <2> SUFFICES ASSUME NothingFabricated, Sound, Exact, [Next]_vars PROVE NothingFabricated'
    OBVIOUS
  <2>1. CASE report' = report \/ report' = NoReport
    BY <2>1 DEF NothingFabricated, NoReport
  <2>2. CASE pc = "second" /\ Report(now - since)
    <3>1. now - since \in Nat /\ Types /\ Grown
      BY DEF Sound, Exact, Types
    <3>2. ASSUME NEW s \in report'.stalls
          PROVE  s.usec <= report'.grown[s.cgroup]
      <4> DEFINE p == s.cgroup
                 r == s.resource
      <4>1. s \in Stalls(now - since) /\ report'.grown = [q \in Paths |-> stalled[q] - opened[q]]
        BY <2>2, <3>1, ReportFacts
      <4>2. /\ r \in Resource /\ p \in DOMAIN snap \cap DOMAIN prev /\ p \in Paths
            /\ s.usec = Delta(r, p)
        BY <3>1, <4>1, StallFacts
      <4>3. snap[p][r] + opened[p] <= stalled[p] + prev[p][r] /\ opened[p] <= stalled[p]
        BY <2>2, <3>1, <4>2 DEF Grown, Sound, Phases
      <4>4. Delta(r, p) <= stalled[p] - opened[p]
        BY <3>1, <4>2, <4>3, Numbers DEF Delta, MinusOrZero
      <4>5. QED
        BY <4>1, <4>2, <4>4
    <3>3. QED
      BY <3>2 DEF NothingFabricated
  <2>3. QED
    BY <2>1, <2>2, ReportSteps
<1>3. QED
  BY <1>1, <1>2, Always, PTL DEF Spec

(* No cgroup stalls for longer than the window `collect` divides its stall by. *)
THEOREM CollectFits == AllOrNone => (Spec => []CollectFitsWindow)
<1> SUFFICES ASSUME AllOrNone PROVE Spec => []CollectFitsWindow
  OBVIOUS
<1>1. Init => CollectFitsWindow
  BY DEF Init, NoReport, CollectFitsWindow, WithinWindow
<1>2. CollectFitsWindow /\ Sound /\ Exact /\ [Next]_vars => CollectFitsWindow'
  <2> SUFFICES ASSUME CollectFitsWindow, Sound, Exact, [Next]_vars, ~resident PROVE WithinWindow'
    BY ReportSteps DEF CollectFitsWindow
  <2>1. CASE report' = report \/ report' = NoReport
    BY <2>1 DEF CollectFitsWindow, WithinWindow, NoReport
  <2>2. CASE pc = "second" /\ Report(now - since)
    <3>1. now - since \in Nat /\ Types /\ Timed
      BY DEF Sound, Exact, Types
    <3>2. ASSUME NEW s \in report'.stalls
          PROVE  s.usec <= report'.window
      <4> DEFINE p == s.cgroup
                 r == s.resource
      <4>1. s \in Stalls(now - since) /\ report'.window = now - since
        BY <2>2, <3>1, ReportFacts
      <4>2. /\ r \in Resource /\ p \in DOMAIN snap \cap DOMAIN prev /\ p \in Paths
            /\ s.usec = Delta(r, p)
        BY <3>1, <4>1, StallFacts
      <4>3. snap[p][r] + since <= now + prev[p][r]
        BY <2>2, <3>1, <4>2 DEF Timed
      <4>4. Delta(r, p) <= now - since
        BY <3>1, <4>2, <4>3, Numbers DEF Delta, MinusOrZero
      <4>5. QED
        BY <4>1, <4>2, <4>4
    <3>3. QED
      BY <3>2 DEF WithinWindow
  <2>3. QED
    BY <2>1, <2>2, ReportSteps
<1>3. QED
  BY <1>1, <1>2, Always, PTL DEF Spec

(* Over any number of ticks, no stall is reported twice.                       *)
THEOREM StallsAddUp == AllOrNone => (Spec => []NothingTwice)
<1> SUFFICES ASSUME AllOrNone PROVE Spec => []NothingTwice
  OBVIOUS
<1>1. Sound /\ Exact => NothingTwice
  BY DEF Exact, Reported, NothingTwice
<1>2. QED
  BY <1>1, Always, PTL

(* A leaf that was there and readable all along, and stalled for a hundredth   *)
(* of the window, is reported for all of it, unless the report is full.        *)
THEOREM LeavesAreReported == Spec => []NothingMissed
<1>1. Init => NothingMissed
  BY DEF Init, NoReport, NothingMissed
<1>2. NothingMissed /\ Sound /\ [Next]_vars => NothingMissed'
  <2> SUFFICES ASSUME NothingMissed, Sound, [Next]_vars PROVE NothingMissed'
    OBVIOUS
  <2>1. CASE report' = report
    BY <2>1 DEF NothingMissed
  <2>2. CASE report' = NoReport
    BY <2>2 DEF NothingMissed, NoReport
  <2>3. CASE pc = "second" /\ Swept /\ Report(now - since)
    <3> DEFINE w == now - since
               T == report'.stalls
    <3>1. w \in Nat /\ Types /\ Phases /\ Kept
      BY DEF Sound, Types
    <3>2. /\ report'.window = w
          /\ report'.slept = [p \in Paths |-> IF p \in steady THEN began[p] - settled[p] ELSE 0]
          /\ T \in IF w = 0 THEN {{}} ELSE Worst(Stalls(w))
      BY <2>3, <3>1, ReportFacts
    <3>3. ASSUME NEW r \in Resource, NEW p \in Paths,
                 Below(p) = {}, report'.slept[p] # 0,
                 ~(report'.slept[p] * 100 < w * MIN_REPORTABLE_PCT),
                 Cardinality(T) # MaxStalls
          PROVE  \E s \in T : s.cgroup = p /\ s.resource = r /\ s.usec >= report'.slept[p]
      <4>1. p \in steady /\ report'.slept[p] = began[p] - settled[p]
        BY <3>2, <3>3
      <4>2. /\ w # 0
            /\ \E s \in Stalls(w) :
                  s.cgroup = p /\ s.resource = r /\ s.usec >= began[p] - settled[p]
        BY <2>3, <3>1, <3>3, <4>1, LeafIsFound
      <4>3. T \in Worst(Stalls(w)) /\ IsFiniteSet(Stalls(w))
        BY <3>1, <3>2, <4>2, StallsFinite
      <4>4. T = Stalls(w)
        <5>1. /\ T \in SUBSET Stalls(w)
              /\ Cardinality(T) = IF Cardinality(Stalls(w)) < MaxStalls
                                  THEN Cardinality(Stalls(w)) ELSE MaxStalls
          BY <4>3 DEF Worst
        <5>2. Cardinality(T) = Cardinality(Stalls(w))
          BY <3>3, <5>1
        <5>3. QED
          BY <4>3, <5>1, <5>2, FS_Subset
      <4>5. QED
        BY <4>1, <4>2, <4>4
    <3>4. QED
      BY <3>2, <3>3 DEF NothingMissed
  <2>4. QED
    BY <2>1, <2>2, <2>3, ReportSteps
<1>3. QED
  BY <1>1, <1>2, Always, PTL DEF Spec
=============================================================================
