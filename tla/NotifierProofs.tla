--------------------------- MODULE NotifierProofs ---------------------------
(***************************************************************************)
(* Proofs about the notifier, for every window, threshold, cooldown and    *)
(* way of stepping the wall clock: notices of a process are a cooldown     *)
(* apart, and the deque of beats is the episode the rule speaks of.        *)
(***************************************************************************)
EXTENDS Notifier, Counting

LEMMA SinceFacts ==
    \A a, b \in Nat : /\ Since(a, b) \in Nat
                      /\ a >= b => Since(a, b) = a - b
                      /\ a < b => Since(a, b) = 0
  BY DEF Since

LEMMA EmptyFacts == ASSUME NEW S PROVE <<>> \in Seq(S)
  OBVIOUS

LEMMA AppendFacts ==
    ASSUME NEW S, NEW q \in Seq(S), NEW e \in S
    PROVE  /\ Append(q, e) \in Seq(S)
           /\ Len(q) \in Nat
           /\ Len(Append(q, e)) = Len(q) + 1
           /\ Append(q, e)[Len(q) + 1] = e
           /\ \A i \in 1 .. Len(q) : Append(q, e)[i] = q[i] /\ q[i] \in S
  OBVIOUS

(* Pruning keeps an end of the queue: all of what it drops is before the   *)
(* cutoff, and what it keeps starts with a beat that is not.               *)
LEMMA PrunedFacts ==
    ASSUME NEW q \in Seq(Beats), NEW cutoff \in Nat
    PROVE  \E k \in 0 .. Len(q) :
             /\ \A i \in 1 .. k : q[i].at < cutoff
             /\ k < Len(q) => q[k + 1].at >= cutoff
             /\ Pruned(q, cutoff) \in Seq(Beats)
             /\ Len(Pruned(q, cutoff)) = Len(q) - k
             /\ \A i \in 1 .. Len(q) - k : Pruned(q, cutoff)[i] = q[k + i]
<1> DEFINE Dropped(k) == /\ \A i \in 1 .. k : q[i].at < cutoff
                         /\ k < Len(q) => q[k + 1].at >= cutoff
           k0 == CHOOSE j \in 0 .. Len(q) : Dropped(j)
<1>1. Len(q) \in Nat /\ \A i \in 1 .. Len(q) : q[i] \in Beats /\ q[i].at \in Nat
  <2>1. Len(q) \in Nat /\ \A i \in 1 .. Len(q) : q[i] \in Beats
    OBVIOUS
  <2>2. \A b \in Beats : b.at \in Nat
    BY DEF Beats
  <2>3. QED
    BY <2>1, <2>2
<1>2. \E j \in 0 .. Len(q) : Dropped(j)
  <2> DEFINE T == {i \in 1 .. Len(q) : q[i].at >= cutoff}
  <2>1. CASE T = {}
    <3>1. Dropped(Len(q))
      BY <1>1, <2>1
    <3>2. QED
      BY <1>1, <3>1
  <2>2. CASE T # {}
    <3>1. PICK x \in T : \A y \in T : x <= y
      <4>1. T \subseteq Nat
        BY <1>1
      <4> HIDE DEF T
      <4> QED
        BY <2>2, <4>1, LeastNat
    <3>2. x \in 1 .. Len(q) /\ q[x].at >= cutoff /\ x - 1 \in 0 .. Len(q)
      BY <1>1
    <3>3. \A i \in 1 .. x - 1 : q[i].at < cutoff
      BY <1>1, <3>1, <3>2
    <3>4. Dropped(x - 1)
      BY <1>1, <3>2, <3>3
    <3>5. QED
      BY <3>2, <3>4
  <2>3. QED
    BY <2>1, <2>2
<1>3. k0 \in 0 .. Len(q) /\ Dropped(k0)
  <2> HIDE DEF Dropped
  <2> QED
    BY <1>2
<1>4. Pruned(q, cutoff) = SubSeq(q, k0 + 1, Len(q))
  BY DEF Pruned
<1> HIDE DEF k0
<1>5. /\ SubSeq(q, k0 + 1, Len(q)) \in Seq(Beats)
      /\ Len(SubSeq(q, k0 + 1, Len(q))) = Len(q) - k0
      /\ \A i \in 1 .. Len(q) - k0 : SubSeq(q, k0 + 1, Len(q))[i] = q[k0 + i]
  BY <1>1, <1>3
<1>6. QED
  BY <1>3, <1>4, <1>5

-----------------------------------------------------------------------------
LEMMA KeptType == TypeOK => \A delta \in Deltas : Beat(delta) \in Beats /\ Kept(delta) \in Seq(Beats)
<1> SUFFICES ASSUME TypeOK, NEW delta \in Deltas
             PROVE  Beat(delta) \in Beats /\ Kept(delta) \in Seq(Beats)
  OBVIOUS
<1>1. Beat(delta) \in Beats
  BY NotifierAssumption DEF TypeOK, Beat, Beats
<1>2. Append(beats, Beat(delta)) \in Seq(Beats) /\ Since(clock, Window) \in Nat
  BY <1>1, AppendFacts, SinceFacts, NotifierAssumption DEF TypeOK
<1>3. Kept(delta) \in Seq(Beats)
  BY <1>2, PrunedFacts DEF Kept
<1>4. QED
  BY <1>1, <1>3

LEMMA TypeStep == TypeOK /\ [Next]_vars => TypeOK'
<1> SUFFICES ASSUME TypeOK, [Next]_vars
             PROVE  TypeOK'
  OBVIOUS
<1> USE DEF notifierVars, ghostVars
<1>1. CASE Advance
  BY <1>1 DEF Advance, TypeOK
<1>2. CASE StepClock
  BY <1>2 DEF StepClock, TypeOK
<1>3. CASE Restart
  <2>1. run' \in Nat /\ lastSent' \in Nat \cup {Never} /\ suppressed' \in Nat /\ sent' \in Nat
    BY <1>3 DEF Restart, TypeOK
  <2>2. beats' \in Seq(Beats) /\ history' \in Seq(Beats) /\ stepped' \in BOOLEAN
    BY <1>3, EmptyFacts DEF Restart
  <2>3. UNCHANGED <<clock, notices>>
    BY <1>3 DEF Restart
  <2>4. QED
    BY <2>1, <2>2, <2>3 DEF TypeOK
<1>4. CASE IgnoreTransient
  BY <1>4 DEF IgnoreTransient, TypeOK
<1>5. ASSUME NEW delta \in Deltas, Considered(delta)
      PROVE  /\ history' \in Seq(Beats) /\ Len(history') \in Nat
             /\ Kept(delta) \in Seq(Beats) /\ Notice(delta) \in Notices
             /\ UNCHANGED <<clock, run, stepped>>
  <2>1. Kept(delta) \in Seq(Beats) /\ Beat(delta) \in Beats
    BY KeptType
  <2>2. history' \in Seq(Beats) /\ Len(history') \in Nat
    BY <1>5, <2>1, AppendFacts DEF Considered, TypeOK
  <2>3. Notice(delta) \in Notices
    BY <2>1, <2>2, AppendFacts DEF Notice, Notices, TypeOK
  <2>4. QED
    BY <1>5, <2>1, <2>2, <2>3 DEF Considered
<1>6. ASSUME NEW delta \in Deltas, KeepWatching(delta)
      PROVE  TypeOK'
  BY <1>5, <1>6 DEF KeepWatching, TypeOK
<1>7. ASSUME NEW delta \in Deltas, HoldBack(delta)
      PROVE  TypeOK'
  BY <1>5, <1>7 DEF HoldBack, TypeOK
<1>8. ASSUME NEW delta \in Deltas, Announce(delta)
      PROVE  TypeOK'
  <2>1. Notice(delta) \in Notices /\ Considered(delta)
    BY <1>5, <1>8 DEF Announce
  <2>2. notices' \in Seq(Notices)
    BY <1>8, <2>1, AppendFacts DEF Announce, TypeOK
  <2>3. QED
    BY <1>5, <1>8, <2>2 DEF Announce, TypeOK
<1>9. CASE UNCHANGED vars
  BY <1>9 DEF vars, TypeOK
<1>10. QED
  BY <1>1, <1>2, <1>3, <1>4, <1>6, <1>7, <1>8, <1>9 DEF Next

LEMMA InitFacts == Init => TypeOK /\ LastSentIsLast /\ NoticesSpaced
<1> SUFFICES ASSUME Init
             PROVE  TypeOK /\ LastSentIsLast /\ NoticesSpaced
  OBVIOUS
<1>1. /\ clock \in Nat /\ suppressed \in Nat /\ sent \in Nat /\ run \in Nat
      /\ lastSent = Never /\ stepped = FALSE
      /\ beats = <<>> /\ history = <<>> /\ notices = <<>>
  BY DEF Init, Fresh
<1>2. TypeOK
  <2>1. beats \in Seq(Beats) /\ history \in Seq(Beats) /\ notices \in Seq(Notices)
    BY <1>1, EmptyFacts
  <2>2. lastSent \in Nat \cup {Never} /\ stepped \in BOOLEAN
    BY <1>1
  <2>3. QED
    BY <1>1, <2>1, <2>2 DEF TypeOK
<1>3. Len(notices) = 0
  BY <1>1
<1>4. LastSentIsLast /\ NoticesSpaced
  BY <1>1, <1>3 DEF LastSentIsLast, NoticesSpaced
<1>5. QED
  BY <1>2, <1>4

(* The type of the notifier's state (notify.rs:102). *)
THEOREM TypeCorrect == Spec => []TypeOK
<1>1. Init => TypeOK
  BY InitFacts
<1>2. QED
  BY <1>1, TypeStep, PTL DEF Spec

-----------------------------------------------------------------------------
LEMMA SpacedStep == TypeOK /\ LastSentIsLast /\ NoticesSpaced /\ [Next]_vars
                      => LastSentIsLast' /\ NoticesSpaced'
<1> SUFFICES ASSUME TypeOK, LastSentIsLast, NoticesSpaced, [Next]_vars
             PROVE  LastSentIsLast' /\ NoticesSpaced'
  OBVIOUS
<1> USE DEF notifierVars, ghostVars
<1>1. CASE UNCHANGED <<notices, run, lastSent>>
  BY <1>1 DEF LastSentIsLast, NoticesSpaced
<1>2. CASE Restart
  <2>1. NoticesSpaced'
    BY <1>2 DEF Restart, NoticesSpaced
  <2>2. \A i \in 1 .. Len(notices) : notices[i].run < run'
    <3>1. \A i \in 1 .. Len(notices) : notices[i].run <= run /\ notices[i].run \in Nat
      <4>1. \A n \in Notices : n.run \in Nat
        BY DEF Notices
      <4>2. QED
        BY <4>1 DEF LastSentIsLast, TypeOK
    <3>2. run \in Nat /\ run' = run + 1
      BY <1>2 DEF Restart, TypeOK
    <3>3. QED
      BY <3>1, <3>2
  <2>3. notices' = notices /\ lastSent' = Never
    BY <1>2 DEF Restart
  <2>4. LastSentIsLast'
    <3>1. \A i \in 1 .. Len(notices) : notices[i].run <= run' /\ notices[i].run # run'
      <4>1. \A i \in 1 .. Len(notices) : notices[i].run \in Nat
        <5>1. \A n \in Notices : n.run \in Nat
          BY DEF Notices
        <5>2. QED
          BY <5>1 DEF TypeOK
      <4>2. run' \in Nat
        BY <1>2 DEF Restart, TypeOK
      <4>3. QED
        BY <2>2, <4>1, <4>2
    <3>2. QED
      BY <2>3, <3>1 DEF LastSentIsLast
  <2>5. QED
    BY <2>1, <2>4
<1>3. ASSUME NEW delta \in Deltas, Announce(delta)
      PROVE  LastSentIsLast' /\ NoticesSpaced'
  <2> DEFINE L == Len(notices)
  <2>1. /\ L \in Nat /\ clock \in Nat /\ run \in Nat /\ Cooldown \in Nat
        /\ \A i \in 1 .. L : notices[i].at \in Nat /\ notices[i].run \in Nat
    <3>1. \A n \in Notices : n.at \in Nat /\ n.run \in Nat
      BY DEF Notices
    <3>2. \A i \in 1 .. L : notices[i] \in Notices
      BY DEF TypeOK
    <3>3. QED
      BY <3>1, <3>2, NotifierAssumption DEF TypeOK
  <2>2. /\ lastSent' = clock /\ UNCHANGED <<clock, run>>
        /\ notices' = Append(notices, Notice(delta))
        /\ Notice(delta).at = clock /\ Notice(delta).run = run
    BY <1>3 DEF Announce, Considered, Notice
  <2>3. /\ Len(notices') = L + 1
        /\ notices'[L + 1].at = clock /\ notices'[L + 1].run = run
        /\ \A i \in 1 .. L : notices'[i] = notices[i]
    <3>1. notices \in Seq(Notices)
      BY DEF TypeOK
    <3>2. QED
      BY <2>2, <3>1
  <2>4. LastSentIsLast'
    <3>1. \A i \in 1 .. L + 1 : notices'[i].run <= run
      BY <2>1, <2>3 DEF LastSentIsLast
    <3>2. lastSent' # Never
      BY <2>1, <2>2 DEF Never
    <3>3. QED
      BY <2>1, <2>2, <2>3, <3>1, <3>2 DEF LastSentIsLast
  <2>5. ASSUME NEW i \in 1 .. L, notices[i].run = run
        PROVE  Cooldown = 0 \/ clock - notices[i].at >= Cooldown
    <3>1. /\ lastSent # Never /\ L \in 1 .. L /\ notices[L].run = run
          /\ notices[L].at = lastSent
      BY <2>1, <2>5 DEF LastSentIsLast
    <3>2. lastSent \in Nat
      BY <2>1, <3>1
    <3>3. ~(Since(clock, lastSent) < Cooldown)
      BY <1>3, <3>1 DEF Announce, Cooling
    <3>4. Cooldown = 0 \/ (clock >= lastSent /\ clock - lastSent >= Cooldown)
      BY <2>1, <3>2, <3>3 DEF Since
    <3>5. i = L \/ Cooldown = 0 \/ lastSent - notices[i].at >= Cooldown
      BY <2>1, <2>5, <3>1 DEF NoticesSpaced
    <3>6. notices[i].at \in Nat
      BY <2>1
    <3>7. QED
      BY <2>1, <3>1, <3>2, <3>4, <3>5, <3>6
  <2>6. NoticesSpaced'
    <3> SUFFICES ASSUME NEW i \in 1 .. L + 1, NEW j \in 1 .. L + 1,
                        i < j, notices'[i].run = notices'[j].run
                 PROVE  Cooldown = 0 \/ notices'[j].at - notices'[i].at >= Cooldown
      BY <2>2, <2>3 DEF NoticesSpaced
    <3>1. i \in 1 .. L /\ notices'[i] = notices[i]
      BY <2>1, <2>3
    <3>2. CASE j = L + 1
      BY <2>3, <2>5, <3>1, <3>2
    <3>3. CASE j \in 1 .. L
      BY <2>3, <3>1, <3>3 DEF NoticesSpaced
    <3>4. QED
      BY <2>1, <3>2, <3>3
  <2>7. QED
    BY <2>4, <2>6
<1>4. QED
  BY <1>1, <1>2, <1>3
  DEF Next, vars, Advance, StepClock, IgnoreTransient, KeepWatching, HoldBack, Considered

(* Two notices of a process are a cooldown apart by their stamps, whatever *)
(* the wall clock did in between: saturating_sub makes a clock that went   *)
(* back postpone a notice and never hasten it (notify.rs:191-196).         *)
THEOREM NoticesAreSpaced == Spec => []NoticesSpaced
<1>1. Init => TypeOK /\ LastSentIsLast /\ NoticesSpaced
  BY InitFacts
<1>2. TypeOK /\ LastSentIsLast /\ NoticesSpaced /\ [Next]_vars
        => (TypeOK /\ LastSentIsLast /\ NoticesSpaced)'
  BY TypeStep, SpacedStep
<1>3. QED
  BY <1>1, <1>2, PTL DEF Spec

-----------------------------------------------------------------------------
(* What makes BeatsAreEpisode inductive: until the clock goes back, the    *)
(* captures are stamped in order and none in the future.                   *)
InOrder ==
    ~stepped =>
        /\ \A i \in 1 .. Len(history) : history[i].at <= clock
        /\ \A i, j \in 1 .. Len(history) :
             i < j => history[i].at <= history[j].at

LEMMA HistoryTyped == ASSUME TypeOK
                      PROVE  /\ clock \in Nat /\ sent \in Nat
                             /\ Len(history) \in Nat /\ Len(beats) \in Nat
                             /\ \A i \in 1 .. Len(history) : history[i].at \in Nat
<1>1. \A b \in Beats : b.at \in Nat
  BY DEF Beats
<1>2. history \in Seq(Beats) /\ beats \in Seq(Beats)
  BY DEF TypeOK
<1>3. \A i \in 1 .. Len(history) : history[i] \in Beats
  BY <1>2
<1>4. QED
  BY <1>1, <1>2, <1>3 DEF TypeOK

(* A considered capture is stamped with the clock at the end of history. *)
LEMMA HistoryGrows == ASSUME TypeOK, NEW delta \in Deltas, Considered(delta)
                      PROVE  /\ Len(history') = Len(history) + 1
                             /\ history'[Len(history) + 1] = Beat(delta)
                             /\ Beat(delta).at = clock
                             /\ \A i \in 1 .. Len(history) : history'[i] = history[i]
                             /\ UNCHANGED <<clock, run, stepped>>
<1>1. Beat(delta) \in Beats /\ history \in Seq(Beats)
  BY KeptType DEF TypeOK
<1>2. history' = Append(history, Beat(delta)) /\ UNCHANGED <<clock, run, stepped>>
  BY DEF Considered
<1>3. Beat(delta).at = clock
  BY DEF Beat
<1>4. QED
  BY <1>1, <1>2, <1>3, AppendFacts

LEMMA InOrderStep == TypeOK /\ InOrder /\ [Next]_vars => InOrder'
<1> SUFFICES ASSUME TypeOK, InOrder, [Next]_vars
             PROVE  InOrder'
  OBVIOUS
<1> USE DEF notifierVars, ghostVars
<1>0. /\ clock \in Nat /\ Len(history) \in Nat
      /\ \A i \in 1 .. Len(history) : history[i].at \in Nat
  BY HistoryTyped
<1>1. CASE Advance
  BY <1>0, <1>1 DEF Advance, InOrder
<1>2. CASE StepClock
  <2>1. CASE clock' < clock
    BY <1>2, <2>1 DEF StepClock, InOrder
  <2>2. CASE ~(clock' < clock)
    <3>1. clock' \in Int /\ clock <= clock' /\ history' = history
      BY <1>0, <1>2, <2>2, NotifierAssumption DEF StepClock
    <3>2. stepped' = stepped \/ stepped'
      BY <1>2, <2>2 DEF StepClock, TypeOK
    <3>3. QED
      BY <1>0, <3>1, <3>2, <1>2, <2>2 DEF StepClock, InOrder
  <2>3. QED
    BY <2>1, <2>2
<1>3. CASE Restart
  <2>1. Len(history') = 0
    BY <1>3 DEF Restart
  <2>2. QED
    BY <2>1 DEF InOrder
<1>4. ASSUME NEW delta \in Deltas, Considered(delta)
      PROVE  InOrder'
  <2>1. /\ Len(history') = Len(history) + 1
        /\ history'[Len(history) + 1].at = clock
        /\ \A i \in 1 .. Len(history) : history'[i] = history[i]
        /\ UNCHANGED <<clock, stepped>>
    BY <1>4, HistoryGrows
  <2>2. QED
    BY <1>0, <2>1 DEF InOrder
<1>5. CASE UNCHANGED <<clock, history, stepped>>
  BY <1>5 DEF InOrder
<1>6. QED
  BY <1>1, <1>2, <1>3, <1>4, <1>5
  DEF Next, vars, IgnoreTransient, KeepWatching, HoldBack, Announce

(* The deque once a capture is accounted for is the episode. *)
LEMMA KeptFacts ==
    ASSUME TypeOK, InOrder, BeatsAreEpisode, NEW delta \in Deltas, Considered(delta)
    PROVE  LET k == Len(history') - Len(Kept(delta))
           IN  /\ sent <= k
               /\ k <= Len(history')
               /\ \A i \in 1 .. Len(Kept(delta)) : Kept(delta)[i] = history'[k + i]
               /\ ~stepped => Episode(history') = k + 1 .. Len(history')
<1> DEFINE n == Len(history)
           kept == Kept(delta)
           q == Append(beats, Beat(delta))
           k0 == n - Len(beats)
           cutoff == Since(clock, Window)
<1>1. /\ n \in Nat /\ clock \in Nat /\ sent \in Nat /\ Len(beats) \in Nat
      /\ \A i \in 1 .. n : history[i].at \in Nat
      /\ Window \in Nat /\ cutoff \in Nat
  BY HistoryTyped, SinceFacts, NotifierAssumption
<1>2. /\ Len(history') = n + 1
      /\ history'[n + 1] = Beat(delta)
      /\ Beat(delta).at = clock
      /\ \A i \in 1 .. n : history'[i] = history[i]
      /\ UNCHANGED <<clock, run, stepped>>
  BY HistoryGrows
<1>3. /\ sent <= k0
      /\ \A i \in 1 .. Len(beats) : beats[i] = history[k0 + i]
      /\ ~stepped => Episode(history) = k0 + 1 .. n
  BY DEF BeatsAreEpisode
<1>4. /\ q \in Seq(Beats) /\ Len(q) = Len(beats) + 1
      /\ \A i \in 1 .. Len(q) : q[i] = history'[k0 + i]
  <2>1. beats \in Seq(Beats) /\ Beat(delta) \in Beats
    BY KeptType DEF TypeOK
  <2>2. /\ q \in Seq(Beats) /\ Len(q) = Len(beats) + 1
        /\ q[Len(beats) + 1] = Beat(delta)
        /\ \A i \in 1 .. Len(beats) : q[i] = beats[i]
    BY <2>1, AppendFacts
  <2>3. ASSUME NEW i \in 1 .. Len(beats)
        PROVE  q[i] = history'[k0 + i]
    <3>1. k0 + i \in 1 .. n
      BY <1>1, <1>3
    <3>2. QED
      BY <1>2, <1>3, <2>2, <3>1
  <2>4. q[Len(beats) + 1] = history'[k0 + (Len(beats) + 1)]
    <3>1. k0 + (Len(beats) + 1) = n + 1
      BY <1>1
    <3>2. QED
      BY <1>2, <2>2, <3>1
  <2>5. \A i \in 1 .. Len(q) : i \in 1 .. Len(beats) \/ i = Len(beats) + 1
    BY <1>1, <2>2
  <2>6. QED
    BY <2>2, <2>3, <2>4, <2>5
<1>5. kept = Pruned(q, cutoff)
  BY DEF Kept
<1> HIDE DEF q, cutoff, kept
<1>6. PICK k \in 0 .. Len(q) :
             /\ \A i \in 1 .. k : q[i].at < cutoff
             /\ k < Len(q) => q[k + 1].at >= cutoff
             /\ Pruned(q, cutoff) \in Seq(Beats)
             /\ Len(Pruned(q, cutoff)) = Len(q) - k
             /\ \A i \in 1 .. Len(q) - k : Pruned(q, cutoff)[i] = q[k + i]
  BY <1>1, <1>4, PrunedFacts
<1> DEFINE k1 == k0 + k
<1>7. /\ k0 \in Nat /\ k1 \in Nat /\ k0 <= n /\ k1 <= n + 1 /\ k \in Nat
      /\ k1 = Len(history') - Len(kept)
      /\ n - k0 = Len(q) - 1 /\ Len(kept) = Len(q) - k /\ sent <= k1
  BY <1>1, <1>2, <1>3, <1>4, <1>5, <1>6
<1>8. /\ n = Len(history) /\ n \in Nat /\ sent \in Nat /\ cutoff \in Nat /\ clock \in Nat
       /\ k0 \in Nat /\ k1 \in Nat /\ k \in Nat
       /\ k0 <= n /\ k1 <= n + 1 /\ sent <= k1 /\ k1 = k0 + k
  BY <1>1, <1>7
<1> HIDE DEF k1, k0, n
<1>9. \A i \in 1 .. Len(kept) : kept[i] = history'[k1 + i]
  <2> TAKE i \in 1 .. Len(kept)
  <2>1. kept[i] = q[k + i]
    BY <1>5, <1>6, <1>7
  <2>2. k + i \in 1 .. Len(q) /\ k0 + (k + i) = k1 + i
    <3>1. Len(q) \in Nat /\ i \in Nat /\ 1 <= i /\ i <= Len(q) - k
      <4>1. Len(q) \in Nat /\ Len(kept) = Len(q) - k /\ k <= Len(q)
        BY <1>4, <1>7
      <4>2. QED
        BY <1>8, <4>1
    <3>2. QED
      BY <1>8, <3>1
  <2>3. q[k + i] = history'[k0 + (k + i)]
    BY <1>4, <2>2
  <2>4. QED
    BY <2>1, <2>2, <2>3
<1>10. ASSUME ~stepped
      PROVE  Episode(history') = k1 + 1 .. n + 1
  <2>1. /\ \A i \in 1 .. n : history[i].at <= clock
        /\ Episode(history) = k0 + 1 .. n
        /\ \A i, j \in 1 .. n : i < j => history[i].at <= history[j].at
    BY <1>2, <1>3, <1>8, <1>10 DEF InOrder
  <2>2. /\ \A j \in 1 .. n + 1 : history'[j].at \in Nat
        /\ \A i, j \in 1 .. n + 1 : i < j => history'[i].at <= history'[j].at
    <3>1. \A j \in 1 .. n + 1 : j = n + 1 \/ j \in 1 .. n
      BY <1>8
    <3>2. \A j \in 1 .. n + 1 : history'[j].at \in Nat /\ history'[j].at <= clock
      BY <1>1, <1>2, <1>8, <2>1, <3>1
    <3>3. ASSUME NEW i \in 1 .. n + 1, NEW j \in 1 .. n + 1, i < j
          PROVE  history'[i].at <= history'[j].at
      <4>1. i \in 1 .. n
        BY <1>8, <3>3
      <4>2. QED
        BY <1>2, <2>1, <3>1, <3>2, <3>3, <4>1
    <3>4. QED
      BY <3>2, <3>3
  <2>3. Episode(history') = {i \in sent + 1 .. n + 1 : history'[i].at >= cutoff}
    BY <1>2 DEF Episode, cutoff
  <2>4. ASSUME NEW i \in k1 + 1 .. n + 1
        PROVE  i \in sent + 1 .. n + 1 /\ history'[i].at >= cutoff
    <3>1. k < Len(q) /\ q[k + 1] = history'[k1 + 1] /\ k1 + 1 \in 1 .. n + 1
      <4>1. k < Len(q) /\ k1 + 1 \in 1 .. n + 1 /\ k + 1 \in 1 .. Len(q)
        BY <1>1, <1>4, <1>7, <1>8
      <4>2. k0 + (k + 1) = k1 + 1
        BY <1>7, <1>8
      <4>3. QED
        BY <1>4, <4>1, <4>2
    <3>2. i = k1 + 1 \/ k1 + 1 < i
      BY <1>8
    <3>3. i \in 1 .. n + 1 /\ i \in sent + 1 .. n + 1
      BY <1>8
    <3>4. history'[k1 + 1].at >= cutoff /\ history'[i].at >= history'[k1 + 1].at
      BY <1>6, <2>2, <3>1, <3>2, <3>3
    <3>5. history'[k1 + 1].at \in Nat /\ history'[i].at \in Nat
      BY <2>2, <3>1, <3>3
    <3>6. QED
      BY SMTT(20), <1>8, <3>3, <3>4, <3>5
  <2>5. ASSUME NEW i \in sent + 1 .. k1
        PROVE  history'[i].at < cutoff
    <3>1. CASE i > k0
      <4>1. i - k0 \in 1 .. k /\ k0 + (i - k0) = i
        BY <1>8, <3>1
      <4>2. i - k0 \in 1 .. Len(q)
        BY <1>4, <1>7, <4>1
      <4>3. QED
        BY <1>4, <1>6, <4>1, <4>2
    <3>2. CASE i <= k0
      <4>1. /\ i \in sent + 1 .. n /\ i \in 1 .. n /\ n \in 1 .. n
            /\ i \notin k0 + 1 .. n
        BY <1>8, <3>2
      <4>2. ~(history[i].at >= Since(history[n].at, Window))
        BY <1>8, <2>1, <4>1 DEF Episode
      <4>3. /\ history[n].at \in Nat /\ history[n].at <= clock
            /\ history[i].at \in Nat /\ history'[i] = history[i]
        BY <1>1, <1>2, <2>1, <4>1
      <4>4. Since(history[n].at, Window) \in Nat /\ Since(history[n].at, Window) <= cutoff
        BY <1>1, <4>3 DEF Since, cutoff
      <4>5. QED
        BY <1>8, <4>2, <4>3, <4>4
    <3>3. QED
      BY <1>8, <3>1, <3>2
  <2>6. \A i \in sent + 1 .. n + 1 : history'[i].at >= cutoff <=> i \in k1 + 1 .. n + 1
    <3> TAKE i \in sent + 1 .. n + 1
    <3>1. \/ i \in k1 + 1 .. n + 1
          \/ i \in sent + 1 .. k1 /\ i \notin k1 + 1 .. n + 1
      BY <1>8
    <3>2. CASE i \in k1 + 1 .. n + 1
      BY <2>4, <3>2
    <3>3. CASE i \in sent + 1 .. k1 /\ i \notin k1 + 1 .. n + 1
      <4>1. history'[i].at < cutoff /\ i \in 1 .. n + 1
        BY <1>8, <2>5, <3>3
      <4>2. history'[i].at \in Nat
        BY <2>2, <4>1
      <4>3. QED
        BY <1>8, <3>3, <4>1, <4>2
    <3>4. QED
      BY <3>1, <3>2, <3>3
  <2>7. QED
    BY <2>3, <2>4, <2>6
<1>11. QED
  <2>1. k1 = Len(history') - Len(kept) /\ Len(history') = n + 1 /\ sent <= k1
    BY <1>2, <1>7
  <2>2. QED
    BY <1>7, <1>8, <1>9, <1>10, <2>1 DEF kept

LEMMA KeptIsEpisode ==
    ASSUME TypeOK, InOrder, BeatsAreEpisode,
           NEW delta \in Deltas, Considered(delta),
           beats' = Kept(delta), sent' = sent
    PROVE  BeatsAreEpisode'
<1>1. Episode(history)' = Episode(history')
  BY DEF Episode
<1>2. stepped' = stepped
  BY HistoryGrows
<1>3. QED
  BY KeptFacts, <1>1, <1>2 DEF BeatsAreEpisode

LEMMA EpisodeStep == TypeOK /\ InOrder /\ BeatsAreEpisode /\ [Next]_vars
                       => BeatsAreEpisode'
<1> SUFFICES ASSUME TypeOK, InOrder, BeatsAreEpisode, [Next]_vars
             PROVE  BeatsAreEpisode'
  OBVIOUS
<1> USE DEF notifierVars, ghostVars
<1>1. CASE UNCHANGED <<history, sent, beats>> /\ (stepped => stepped')
  <2>1. Episode(history)' = Episode(history)
    BY <1>1 DEF Episode
  <2>2. QED
    BY <1>1, <2>1 DEF BeatsAreEpisode
<1>2. CASE Restart
  <2>1. history' = <<>> /\ beats' = <<>> /\ sent' = 0
    BY <1>2 DEF Restart
  <2>2. Len(history') = 0 /\ Len(beats') = 0
    BY <2>1
  <2>3. Episode(history)' = {}
    BY <2>1, <2>2 DEF Episode
  <2>4. QED
    BY <2>1, <2>2, <2>3 DEF BeatsAreEpisode
<1>3. ASSUME NEW delta \in Deltas, KeepWatching(delta) \/ HoldBack(delta)
      PROVE  BeatsAreEpisode'
  <2>1. Considered(delta) /\ beats' = Kept(delta) /\ sent' = sent
    BY <1>3 DEF KeepWatching, HoldBack
  <2>2. QED
    BY <2>1, KeptIsEpisode
<1>4. ASSUME NEW delta \in Deltas, Announce(delta)
      PROVE  BeatsAreEpisode'
  <2>1. /\ beats' = <<>> /\ sent' = Len(history')
        /\ Len(history') = Len(history) + 1 /\ Len(history) \in Nat
    <3>1. Considered(delta) /\ beats' = <<>> /\ sent' = Len(history')
      BY <1>4 DEF Announce
    <3>2. QED
      BY <3>1, HistoryGrows, HistoryTyped
  <2>2. Len(beats') = 0
    BY <2>1
  <2>3. Episode(history)' = {} /\ Len(history') + 1 .. Len(history') = {}
    BY <2>1 DEF Episode
  <2>4. QED
    BY <2>1, <2>2, <2>3 DEF BeatsAreEpisode
<1>5. CASE Advance
  BY <1>1, <1>5 DEF Advance
<1>6. CASE StepClock
  BY <1>1, <1>6 DEF StepClock
<1>7. CASE IgnoreTransient
  BY <1>1, <1>7 DEF IgnoreTransient
<1>8. CASE UNCHANGED vars
  BY <1>1, <1>8 DEF vars
<1>9. QED
  BY <1>1, <1>2, <1>3, <1>4, <1>5, <1>6, <1>7, <1>8 DEF Next

LEMMA EpisodeInit == Init => InOrder /\ BeatsAreEpisode
<1> SUFFICES ASSUME Init
             PROVE  InOrder /\ BeatsAreEpisode
  OBVIOUS
<1>1. history = <<>> /\ beats = <<>> /\ sent = 0 /\ Len(history) = 0 /\ Len(beats) = 0
  BY DEF Init, Fresh
<1>2. InOrder
  BY <1>1 DEF InOrder
<1>3. Episode(history) = {}
  BY <1>1 DEF Episode
<1>4. BeatsAreEpisode
  BY <1>1, <1>3 DEF BeatsAreEpisode
<1>5. QED
  BY <1>2, <1>4

(* Pruning the deque at its front alone forgets exactly the captures that  *)
(* have aged out of the window, while the wall clock does not go back; if  *)
(* it does, the deque is still the end of what no notice has spoken of     *)
(* (notify.rs:175-184).                                                    *)
THEOREM TheDequeIsTheEpisode == Spec => []BeatsAreEpisode
<1>1. Init => TypeOK /\ InOrder /\ BeatsAreEpisode
  BY EpisodeInit, InitFacts
<1>2. TypeOK /\ InOrder /\ BeatsAreEpisode /\ [Next]_vars
        => (TypeOK /\ InOrder /\ BeatsAreEpisode)'
  BY TypeStep, InOrderStep, EpisodeStep
<1>3. QED
  BY <1>1, <1>2, PTL DEF Spec

-----------------------------------------------------------------------------
(* What some captures add up to depends on those captures only: it is the  *)
(* same in a history that has grown, and in a queue that is a part of it.  *)
LEMMA StalledSame ==
    ASSUME NEW g, NEW h, NEW I, \A i \in I : g[i] = h[i]
    PROVE  Stalled(g, I) = Stalled(h, I)
<1>1. [i \in I |-> g[i].stalled] = [i \in I |-> h[i].stalled]
  OBVIOUS
<1>2. QED
  BY <1>1 DEF Stalled

LEMMA StalledPart ==
    ASSUME NEW h \in Seq(Beats), NEW q \in Seq(Beats), NEW k \in Nat,
           k + Len(q) <= Len(h), \A i \in 1 .. Len(q) : q[i] = h[k + i]
    PROVE  Stalled(q, DOMAIN q) = Stalled(h, k + 1 .. k + Len(q))
<1> DEFINE m == Len(q)
           I == 1 .. m
           J == k + 1 .. k + m
           f == [i \in I |-> q[i].stalled]
           g == [j \in J |-> h[j].stalled]
           b == [i \in I |-> k + i]
<1>1. m \in Nat /\ DOMAIN q = I
  OBVIOUS
<1>2. IsFiniteSet(I) /\ IsFiniteSet(J)
  BY <1>1, FS_Interval
<1>3. /\ b \in [I -> J]
      /\ \A x, y \in I : b[x] = b[y] => x = y
  BY <1>1
<1>4. \A x \in I : f[x] = g[b[x]] /\ f[x] \in Int
  <2> TAKE x \in I
  <2>1. q[x] \in Beats /\ q[x] = h[k + x] /\ b[x] = k + x /\ b[x] \in J
    BY <1>1
  <2>2. q[x].stalled \in Int
    <3>1. \A r \in Beats : r.stalled \in Nat
      BY DEF Beats
    <3>2. QED
      BY <2>1, <3>1
  <2>3. QED
    BY <2>1, <2>2
<1>5. {b[x] : x \in I} = J
  <2>1. ASSUME NEW j \in J PROVE j \in {b[x] : x \in I}
    <3>1. j - k \in I /\ b[j - k] = j
      BY <1>1
    <3>2. QED
      BY <3>1
  <2>2. QED
    BY <1>3, <2>1
<1>6. SumFunctionOnSet(f, I) = SumFunctionOnSet(g, {b[x] : x \in I})
  <2> HIDE DEF f, g, b, I, J
  <2>1. QED
    BY <1>2, <1>3, <1>4, SumReindex
<1>7. DOMAIN f = I /\ DOMAIN g = J
  OBVIOUS
<1>8. QED
  BY <1>1, <1>5, <1>6, <1>7 DEF Stalled, SumFunction

-----------------------------------------------------------------------------
(* What makes PaidOnce inductive: what a notice of this process has spoken *)
(* of, the next one leaves out.                                            *)
SpokenOf ==
    \A j \in 1 .. Len(notices) :
        notices[j].run = run => notices[j].from >= 1 /\ notices[j].upTo <= sent

PaidInv ==
    /\ TypeOK /\ InOrder /\ BeatsAreEpisode /\ LastSentIsLast /\ NoticesSpaced
    /\ SpokenOf /\ PaidOnce

(* The captures a notice rests on are the deque's, and add up to as much.  *)
LEMMA NoticeFacts ==
    ASSUME TypeOK, InOrder, BeatsAreEpisode, NEW delta \in Deltas, Considered(delta)
    PROVE  /\ Notice(delta).run = run /\ Notice(delta).at = clock
           /\ Notice(delta).from \in Nat /\ Notice(delta).from > sent
           /\ Notice(delta).upTo = Len(history')
           /\ Stalled(history', Notice(delta).from .. Notice(delta).upTo)
                = Stalled(Kept(delta), DOMAIN Kept(delta))
           /\ ~stepped =>
                Stalled(history', Episode(history'))
                  = Stalled(Kept(delta), DOMAIN Kept(delta))
<1> DEFINE q == Kept(delta)
           k == Len(history') - Len(q)
<1>1. /\ sent <= k /\ k <= Len(history')
      /\ \A i \in 1 .. Len(q) : q[i] = history'[k + i]
      /\ ~stepped => Episode(history') = k + 1 .. Len(history')
  BY KeptFacts
<1>2. history' \in Seq(Beats) /\ q \in Seq(Beats)
  <2>1. Beat(delta) \in Beats /\ q \in Seq(Beats)
    BY KeptType
  <2>2. QED
    BY <2>1, AppendFacts DEF Considered, TypeOK
<1>3. Len(history') \in Nat /\ Len(q) \in Nat /\ sent \in Nat
  BY <1>2 DEF TypeOK
<1>4. k \in Nat /\ k + Len(q) = Len(history')
  BY <1>1, <1>3
<1>5. /\ Notice(delta).run = run /\ Notice(delta).at = clock
      /\ Notice(delta).from = k + 1 /\ Notice(delta).upTo = k + Len(q)
  BY <1>4 DEF Notice
<1> HIDE DEF q, k
<1>6. Stalled(history', k + 1 .. k + Len(q)) = Stalled(q, DOMAIN q)
  BY <1>1, <1>2, <1>4, StalledPart
<1>7. QED
  BY SMTT(20), <1>1, <1>3, <1>4, <1>5, <1>6 DEF q

(* Notices of earlier captures stay paid for when the history grows.       *)
LEMMA PaidGrows ==
    ASSUME PaidInv, NEW delta \in Deltas, Considered(delta),
           NEW j \in 1 .. Len(notices), notices[j].run = run
    PROVE  /\ notices[j].upTo <= Len(history')
           /\ Stalled(history', notices[j].from .. notices[j].upTo) >= MinStall
<1>1. /\ Len(history') = Len(history) + 1 /\ Len(history) \in Nat
      /\ \A i \in 1 .. Len(history) : history'[i] = history[i]
  BY HistoryGrows, HistoryTyped DEF PaidInv
<1>2. notices[j].from \in Int /\ notices[j].upTo \in Nat
  <2>1. \A n \in Notices : n.from \in Int /\ n.upTo \in Nat
    BY DEF Notices
  <2>2. QED
    BY <2>1 DEF PaidInv, TypeOK
<1>3. /\ notices[j].from >= 1 /\ notices[j].upTo <= Len(history)
      /\ Stalled(history, notices[j].from .. notices[j].upTo) >= MinStall
  BY DEF PaidInv, SpokenOf, PaidOnce
<1> DEFINE I == notices[j].from .. notices[j].upTo
<1>4. \A i \in I : i \in 1 .. Len(history)
  BY <1>1, <1>2, <1>3
<1> HIDE DEF I
<1>5. Stalled(history', I) = Stalled(history, I)
  BY <1>1, <1>4, StalledSame
<1>6. QED
  BY <1>1, <1>2, <1>3, <1>5 DEF I

LEMMA PaidStep == PaidInv /\ [Next]_vars => SpokenOf' /\ PaidOnce'
<1> SUFFICES ASSUME PaidInv, [Next]_vars
             PROVE  SpokenOf' /\ PaidOnce'
  OBVIOUS
<1> USE DEF notifierVars, ghostVars
<1>1. CASE UNCHANGED <<notices, run, sent, history>>
  BY <1>1 DEF PaidInv, SpokenOf, PaidOnce
<1>2. CASE Restart
  <2>1. \A i \in 1 .. Len(notices) : notices[i].run <= run /\ notices[i].run \in Nat
    <3>1. \A n \in Notices : n.run \in Nat
      BY DEF Notices
    <3>2. QED
      BY <3>1 DEF PaidInv, LastSentIsLast, TypeOK
  <2>2. run \in Nat /\ run' = run + 1 /\ notices' = notices
    BY <1>2 DEF Restart, PaidInv, TypeOK
  <2>3. \A i \in 1 .. Len(notices') : notices'[i].run # run'
    BY <2>1, <2>2
  <2>4. QED
    BY <2>3 DEF SpokenOf, PaidOnce
<1>3. ASSUME NEW delta \in Deltas, KeepWatching(delta) \/ HoldBack(delta)
      PROVE  SpokenOf' /\ PaidOnce'
  <2>1. Considered(delta) /\ UNCHANGED <<notices, sent, run>>
    BY <1>3 DEF KeepWatching, HoldBack, Considered
  <2>2. SpokenOf'
    BY <2>1 DEF PaidInv, SpokenOf
  <2>3. \A j \in 1 .. Len(notices) : notices[j].run = run =>
          /\ notices[j].upTo <= Len(history')
          /\ Stalled(history', notices[j].from .. notices[j].upTo) >= MinStall
    BY <2>1, PaidGrows
  <2>4. PaidOnce'
    BY <2>1, <2>3 DEF PaidInv, PaidOnce
  <2>5. QED
    BY <2>2, <2>4
<1>4. ASSUME NEW delta \in Deltas, Announce(delta)
      PROVE  SpokenOf' /\ PaidOnce'
  <2> DEFINE L == Len(notices)
             new == Notice(delta)
  <2>1. /\ Considered(delta) /\ Chronic(delta) /\ sent' = Len(history')
        /\ notices' = Append(notices, new)
    BY <1>4 DEF Announce
  <2>2. run' = run
    BY <2>1 DEF Considered
  <2>3. /\ new.run = run /\ new.from \in Nat /\ new.from > sent
        /\ new.upTo = Len(history')
        /\ Stalled(history', new.from .. new.upTo) = Stalled(Kept(delta), DOMAIN Kept(delta))
    BY <2>1, NoticeFacts DEF PaidInv
  <2>4. Stalled(history', new.from .. new.upTo) >= MinStall
    BY <2>1, <2>3 DEF Chronic
  <2>5. new \in Notices /\ notices \in Seq(Notices)
    <3>1. Len(history') \in Nat
      BY <2>1, HistoryGrows, HistoryTyped DEF PaidInv
    <3>2. QED
      BY <2>3, <3>1 DEF Notice, Notices, PaidInv, TypeOK
  <2> HIDE DEF new
  <2>6. /\ Len(notices') = L + 1 /\ L \in Nat
        /\ notices'[L + 1] = new
        /\ \A i \in 1 .. L : notices'[i] = notices[i]
    BY <2>1, <2>5
  <2>7. sent \in Nat /\ sent <= Len(history') /\ Len(history') \in Nat
    <3>1. sent <= Len(history) - Len(beats)
      BY DEF PaidInv, BeatsAreEpisode
    <3>2. QED
      BY <2>1, <3>1, HistoryGrows, HistoryTyped DEF PaidInv
  <2>8. \A i \in 1 .. L : notices[i].upTo \in Nat
    <3>1. \A n \in Notices : n.upTo \in Nat
      BY DEF Notices
    <3>2. QED
      BY <3>1 DEF PaidInv, TypeOK
  <2>9. \A i \in 1 .. L : notices[i].run = run =>
          notices[i].from >= 1 /\ notices[i].upTo <= sent
    BY DEF PaidInv, SpokenOf
  <2>10. \A j \in 1 .. L + 1 : j = L + 1 \/ j \in 1 .. L
    BY <2>6
  <2>11. SpokenOf'
    <3> SUFFICES ASSUME NEW j \in 1 .. L + 1, notices'[j].run = run
                 PROVE  notices'[j].from >= 1 /\ notices'[j].upTo <= Len(history')
      BY <2>1, <2>2, <2>6 DEF SpokenOf
    <3>1. CASE j = L + 1
      BY <2>3, <2>6, <2>7, <3>1
    <3>2. CASE j \in 1 .. L
      BY <2>6, <2>7, <2>8, <2>9, <3>2
    <3>3. QED
      BY <2>10, <3>1, <3>2
  <2>12. PaidOnce'
    <3> SUFFICES ASSUME NEW j \in 1 .. L + 1, notices'[j].run = run
                 PROVE  /\ notices'[j].upTo <= Len(history')
                        /\ Stalled(history', notices'[j].from .. notices'[j].upTo) >= MinStall
                        /\ \A i \in 1 .. j - 1 :
                             notices'[i].run = run => notices'[i].upTo < notices'[j].from
      BY <2>2, <2>6 DEF PaidOnce
    <3>1. CASE j = L + 1
      <4>1. \A i \in 1 .. j - 1 : i \in 1 .. L /\ notices'[i] = notices[i]
        BY <2>6, <3>1
      <4>2. \A i \in 1 .. j - 1 : notices'[i].run = run => notices'[i].upTo < new.from
        <5> SUFFICES ASSUME NEW i \in 1 .. j - 1, notices'[i].run = run
                     PROVE  notices'[i].upTo < new.from
          OBVIOUS
        <5>1. i \in 1 .. L /\ notices'[i] = notices[i]
          BY <4>1
        <5>2. notices[i].upTo \in Nat /\ notices[i].upTo <= sent
          BY <2>8, <2>9, <5>1
        <5>3. QED
          BY <2>3, <2>7, <5>1, <5>2
      <4>3. QED
        BY <2>3, <2>4, <2>6, <2>7, <3>1, <4>2
    <3>2. CASE j \in 1 .. L
      <4>1. notices'[j] = notices[j] /\ notices[j].run = run
        BY <2>6, <3>2
      <4>2. /\ notices[j].upTo <= Len(history')
            /\ Stalled(history', notices[j].from .. notices[j].upTo) >= MinStall
        BY <2>1, <3>2, <4>1, PaidGrows
      <4>3. \A i \in 1 .. j - 1 : i \in 1 .. L
        BY <2>6, <3>2
      <4>4. \A i \in 1 .. j - 1 : notices[i].run = run => notices[i].upTo < notices[j].from
        BY <3>2, <4>1 DEF PaidInv, PaidOnce
      <4>5. QED
        BY <2>6, <4>1, <4>2, <4>3, <4>4
    <3>3. QED
      BY <2>10, <3>1, <3>2
  <2>13. QED
    BY <2>11, <2>12
<1>5. QED
  BY <1>1, <1>2, <1>3, <1>4 DEF Next, vars, Advance, StepClock, IgnoreTransient

LEMMA PaidInvariant == Spec => []PaidInv
<1>1. Init => PaidInv
  <2> SUFFICES ASSUME Init PROVE PaidInv
    OBVIOUS
  <2>1. notices = <<>> /\ Len(notices) = 0
    BY DEF Init
  <2>2. SpokenOf /\ PaidOnce
    BY <2>1 DEF SpokenOf, PaidOnce
  <2>3. QED
    BY <2>2, EpisodeInit, InitFacts DEF PaidInv
<1>2. PaidInv /\ [Next]_vars => PaidInv'
  BY PaidStep, TypeStep, InOrderStep, EpisodeStep, SpacedStep DEF PaidInv
<1>3. QED
  BY <1>1, <1>2, PTL DEF Spec

(* No capture is counted for two notices of a process, and every notice    *)
(* rests on MinStall of captures of its own process, however the clock is  *)
(* stepped: what is added up is the deque, and the deque is emptied when   *)
(* the notice is built (notify.rs:184-200).                                *)
THEOREM NoticesArePaidOnce == Spec => []PaidOnce
  BY PaidInvariant, PTL DEF PaidInv

-----------------------------------------------------------------------------
(* Until the clock goes back under this process, its notices are not in    *)
(* the future.                                                             *)
SaidInPast ==
    ~stepped => \A i \in 1 .. Len(notices) :
                  notices[i].run = run => notices[i].at <= clock

LEMMA NoticesTyped ==
    ASSUME TypeOK
    PROVE  /\ Len(notices) \in Nat /\ clock \in Nat /\ run \in Nat /\ Cooldown \in Nat
           /\ \A i \in 1 .. Len(notices) : notices[i].at \in Nat /\ notices[i].run \in Nat
<1>1. \A n \in Notices : n.at \in Nat /\ n.run \in Nat
  BY DEF Notices
<1>2. notices \in Seq(Notices)
  BY DEF TypeOK
<1>3. \A i \in 1 .. Len(notices) : notices[i] \in Notices
  BY <1>2
<1>4. QED
  BY <1>1, <1>2, <1>3, NotifierAssumption DEF TypeOK

LEMMA SaidStep == TypeOK /\ LastSentIsLast /\ SaidInPast /\ [Next]_vars => SaidInPast'
<1> SUFFICES ASSUME TypeOK, LastSentIsLast, SaidInPast, [Next]_vars
             PROVE  SaidInPast'
  OBVIOUS
<1> USE DEF notifierVars, ghostVars
<1>1. /\ Len(notices) \in Nat /\ clock \in Nat /\ run \in Nat
      /\ \A i \in 1 .. Len(notices) : notices[i].at \in Nat /\ notices[i].run \in Nat
  BY NoticesTyped
<1>2. CASE UNCHANGED <<clock, notices, run, stepped>>
  BY <1>2 DEF SaidInPast
<1>3. CASE Advance
  BY <1>1, <1>3 DEF Advance, SaidInPast
<1>4. CASE StepClock
  <2>1. clock' \in Int /\ UNCHANGED <<notices, run>> /\ stepped' = (stepped \/ clock' < clock)
    BY <1>4, NotifierAssumption DEF StepClock
  <2>2. CASE stepped'
    BY <2>2 DEF SaidInPast
  <2>3. CASE ~stepped'
    <3>1. ~stepped /\ ~(clock' < clock)
      BY <2>1, <2>3
    <3>2. \A i \in 1 .. Len(notices) : notices[i].run = run => notices[i].at <= clock
      BY <3>1 DEF SaidInPast
    <3>3. clock <= clock'
      BY <1>1, <2>1, <3>1
    <3>4. \A i \in 1 .. Len(notices) : notices[i].run = run => notices[i].at <= clock'
      BY <1>1, <2>1, <3>2, <3>3
    <3>5. QED
      BY <2>1, <3>4 DEF SaidInPast
  <2>4. QED
    BY <2>2, <2>3
<1>5. CASE Restart
  <2>1. run' = run + 1 /\ notices' = notices
    BY <1>5 DEF Restart
  <2>2. \A i \in 1 .. Len(notices) : notices[i].run <= run
    BY DEF LastSentIsLast
  <2>3. \A i \in 1 .. Len(notices') : notices'[i].run # run'
    BY <1>1, <2>1, <2>2
  <2>4. QED
    BY <2>3 DEF SaidInPast
<1>6. ASSUME NEW delta \in Deltas, Announce(delta)
      PROVE  SaidInPast'
  <2> DEFINE L == Len(notices)
             new == Notice(delta)
  <2>1. notices' = Append(notices, new) /\ UNCHANGED <<clock, run, stepped>> /\ new.at = clock
    BY <1>6 DEF Announce, Considered, Notice
  <2>2. notices \in Seq(Notices)
    BY DEF TypeOK
  <2> HIDE DEF new
  <2>3. /\ Len(notices') = L + 1
        /\ notices'[L + 1] = new
        /\ \A i \in 1 .. L : notices'[i] = notices[i]
    BY <2>1, <2>2
  <2>4. \A i \in 1 .. L + 1 : i = L + 1 \/ i \in 1 .. L
    BY <1>1
  <2>5. QED
    BY <1>1, <2>1, <2>3, <2>4 DEF SaidInPast
<1>7. QED
  BY <1>2, <1>3, <1>4, <1>5, <1>6
  DEF Next, vars, IgnoreTransient, KeepWatching, HoldBack, Considered

(* While the clock does not go back, the rate limit is a cooldown since    *)
(* every notice of the process, not only since the last.                   *)
LEMMA CoolingRule ==
    ASSUME TypeOK, LastSentIsLast, NoticesSpaced, SaidInPast, ~stepped
    PROVE  ~Cooling <=> \A i \in 1 .. Len(notices) :
                           notices[i].run = run => clock - notices[i].at >= Cooldown
<1> DEFINE L == Len(notices)
<1>1. /\ L \in Nat /\ clock \in Nat /\ Cooldown \in Nat
      /\ \A i \in 1 .. L : notices[i].at \in Nat
  BY NoticesTyped
<1>2. CASE lastSent = Never
  BY <1>2 DEF Cooling, LastSentIsLast
<1>3. CASE lastSent # Never
  <2>1. L \in 1 .. L /\ notices[L].run = run /\ notices[L].at = lastSent
    BY <1>1, <1>3 DEF LastSentIsLast
  <2>2. lastSent \in Nat /\ lastSent <= clock
    BY <1>1, <2>1 DEF SaidInPast
  <2>3. ~Cooling <=> clock - lastSent >= Cooldown
    BY <1>1, <1>3, <2>2 DEF Cooling, Since
  <2>4. ASSUME clock - lastSent >= Cooldown,
               NEW i \in 1 .. L, notices[i].run = run
        PROVE  clock - notices[i].at >= Cooldown
    <3>1. notices[i].at \in Nat /\ notices[i].at <= clock
      BY <1>1, <2>4 DEF SaidInPast
    <3>2. i = L \/ Cooldown = 0 \/ lastSent - notices[i].at >= Cooldown
      BY <1>1, <2>1, <2>4 DEF NoticesSpaced
    <3>3. QED
      BY <1>1, <2>1, <2>2, <2>4, <3>1, <3>2
  <2>5. QED
    BY <2>1, <2>3, <2>4
<1>4. QED
  BY <1>2, <1>3

LEMMA RuleStep ==
    ASSUME PaidInv, SaidInPast, [Next]_vars, ~stepped, Len(history') = Len(history) + 1
    PROVE  notices' # notices <=>
             /\ Stalled(history', Episode(history')) >= MinStall
             /\ \A i \in 1 .. Len(notices) :
                  notices[i].run = run => clock - notices[i].at >= Cooldown
<1> USE DEF notifierVars, ghostVars
<1>1. Len(history) \in Nat
  BY HistoryTyped DEF PaidInv
<1>2. PICK delta \in Deltas : KeepWatching(delta) \/ HoldBack(delta) \/ Announce(delta)
  <2>1. history' # history
    BY <1>1
  <2>2. ~Restart
    <3>1. ASSUME Restart PROVE FALSE
      <4>1. Len(history') = 0
        BY <3>1 DEF Restart
      <4>2. QED
        BY <1>1, <4>1
    <3>2. QED
      BY <3>1
  <2>3. QED
    BY <2>1, <2>2 DEF Next, vars, Advance, StepClock, IgnoreTransient
<1>3. Considered(delta)
  BY <1>2 DEF KeepWatching, HoldBack, Announce
<1>4. Stalled(history', Episode(history')) >= MinStall <=> Chronic(delta)
  BY <1>3, NoticeFacts DEF PaidInv, Chronic
<1>5. ~Cooling <=> \A i \in 1 .. Len(notices) :
                      notices[i].run = run => clock - notices[i].at >= Cooldown
  BY CoolingRule DEF PaidInv
<1>6. notices' # notices <=> Announce(delta)
  <2>1. CASE Announce(delta)
    <3>1. notices' = Append(notices, Notice(delta)) /\ notices \in Seq(Notices)
      BY <2>1 DEF Announce, PaidInv, TypeOK
    <3>2. Len(notices') = Len(notices) + 1 /\ Len(notices) \in Nat
      BY <3>1
    <3>3. QED
      BY <2>1, <3>2
  <2>2. CASE ~Announce(delta)
    BY <1>2, <2>2 DEF KeepWatching, HoldBack
  <2>3. QED
    BY <2>1, <2>2
<1>7. Announce(delta) <=> Chronic(delta) /\ ~Cooling
  BY <1>2 DEF KeepWatching, HoldBack, Announce
<1>8. QED
  BY <1>4, <1>5, <1>6, <1>7

(* The rule of notify.rs:34-38 as it reads, on the captures: while the     *)
(* clock does not go back, a capture is announced if and only if those of  *)
(* the last Window that no notice has spoken of add up to MinStall and     *)
(* every notice of the process is a cooldown old.  The deque, the running  *)
(* window and the single time stamp of the code are enough to follow it.   *)
THEOREM TheRuleIsFollowed == Spec => RuleFollowed
<1>1. Init => SaidInPast
  <2> SUFFICES ASSUME Init PROVE SaidInPast
    OBVIOUS
  <2>1. Len(notices) = 0
    BY DEF Init
  <2>2. QED
    BY <2>1 DEF SaidInPast
<1>2. PaidInv /\ SaidInPast /\ [Next]_vars => SaidInPast'
  BY SaidStep DEF PaidInv
<1>3. PaidInv /\ SaidInPast /\ [Next]_vars =>
        [~stepped /\ Len(history') = Len(history) + 1 =>
           (notices' # notices <=>
              /\ Stalled(history', Episode(history')) >= MinStall
              /\ \A i \in 1 .. Len(notices) :
                   notices[i].run = run => clock - notices[i].at >= Cooldown)]_vars
  BY RuleStep
<1>4. QED
  BY <1>1, <1>2, <1>3, PaidInvariant, PTL DEF Spec, RuleFollowed
=============================================================================
