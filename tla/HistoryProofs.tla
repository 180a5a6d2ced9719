---------------------------- MODULE HistoryProofs ----------------------------
(***************************************************************************)
(* Proofs about what the ring retains and what SINCE counts, for every     *)
(* history length, tick, pace, clock granularity and way of stepping the   *)
(* wall clock.  The inductive invariant IInv is stated in History.         *)
(***************************************************************************)
EXTENDS History, Counting

(* Whole seconds: q is the floor of a by u. *)
LEMMA Floor ==
    ASSUME NEW a \in Nat, NEW u \in Nat \ {0}
    PROVE  /\ a \div u \in Nat
           /\ u * (a \div u) <= a
           /\ a < u * (a \div u) + u
  OBVIOUS

LEMMA Product ==
    ASSUME NEW u \in Nat \ {0}, NEW p \in Nat, NEW q \in Nat, u * p < u * q + u
    PROVE  p <= q
  OBVIOUS

LEMMA Spread ==
    ASSUME NEW u \in Nat, NEW p \in Nat, NEW q \in Nat
    PROVE  /\ u * (p + q) = u * p + q * u
           /\ (q + 1) * u = q * u + u
           /\ u * p \in Nat /\ q * u \in Nat
  OBVIOUS

LEMMA FrameCountType == FrameCount \in Nat \ {0}
<1>1. HistorySecs * Second \in Nat
  BY HistoryAssumption
<1>2. (HistorySecs * Second) \div Tick \in Nat
  BY <1>1, Floor, HistoryAssumption
<1>3. QED
  BY <1>2 DEF FrameCount

LEMMA WallType == \A t \in Nat, o \in Offsets : WallAt(t, o) \in Nat
<1> SUFFICES ASSUME NEW t \in Nat, NEW o \in Offsets
             PROVE  WallAt(t, o) \in Nat
  OBVIOUS
<1>1. t + o \in Int
  BY HistoryAssumption
<1>2. CASE t + o < 0
  BY <1>2 DEF WallAt
<1>3. CASE t + o \in Nat
  BY <1>3, Floor, HistoryAssumption DEF WallAt
<1>4. QED
  BY <1>1, <1>2, <1>3

(* A moment at most s seconds before another one reads at most s seconds   *)
(* less on the wall clock.                                                 *)
LEMMA WallClose ==
    ASSUME NEW t \in Nat, NEW o \in Offsets, NEW t2 \in Nat, NEW o2 \in Offsets,
           NEW s \in Nat, t2 + o2 <= t + o + s * Second
    PROVE  \/ WallAt(t2, o2) < s
           \/ WallAt(t2, o2) - s <= WallAt(t, o)
<1> DEFINE x == t + o
           y == t2 + o2
<1>1. x \in Int /\ y \in Int /\ s * Second \in Nat /\ Second \in Nat \ {0}
  BY HistoryAssumption
<1>2. CASE y < 0
  BY <1>2, WallType DEF WallAt
<1>3. CASE y \in Nat /\ x < 0
  <2>1. y < s * Second
    BY <1>1, <1>3
  <2>2. Second * (y \div Second) <= y /\ y \div Second \in Nat
    BY <1>1, <1>3, Floor
  <2>3. ~(s <= y \div Second)
    <3>1. s <= y \div Second => Second * s <= Second * (y \div Second)
      BY <1>1, <2>2
    <3>2. QED
      BY <3>1, <2>1, <2>2, <1>1
  <2>4. QED
    BY <2>3, <2>2, <1>3 DEF WallAt
<1>4. CASE y \in Nat /\ x \in Nat
  <2>1. /\ Second * (y \div Second) <= y /\ y \div Second \in Nat
        /\ x < Second * (x \div Second) + Second /\ x \div Second \in Nat
    BY <1>1, <1>4, Floor
  <2>2. Second * (y \div Second) < Second * ((x \div Second) + s) + Second
    BY <2>1, <1>1
  <2>3. y \div Second <= (x \div Second) + s
    BY <2>1, <2>2, <1>1, Product
  <2>4. QED
    BY <2>1, <2>3, <1>4 DEF WallAt
<1>5. QED
  BY <1>1, <1>2, <1>3, <1>4

(* And one that reads at most s seconds less, off the epoch, was less than *)
(* s + 1 seconds before.                                                   *)
LEMMA WallFar ==
    ASSUME NEW t \in Nat, NEW o \in Offsets, NEW t2 \in Nat, NEW o2 \in Offsets,
           NEW s \in Nat, WallAt(t2, o2) > s, WallAt(t2, o2) - s <= WallAt(t, o)
    PROVE  t2 + o2 < t + o + (s + 1) * Second
<1> DEFINE x == t + o
           y == t2 + o2
<1>1. x \in Int /\ y \in Int /\ Second \in Nat \ {0}
  BY HistoryAssumption
<1>2. x \in Nat /\ y \in Nat
  BY <1>1, WallType DEF WallAt
<1>3. /\ x \div Second \in Nat /\ y \div Second \in Nat
      /\ Second * (x \div Second) <= x
      /\ y < Second * (y \div Second) + Second
  BY <1>1, <1>2, Floor
<1>4. y \div Second <= (x \div Second) + s
  BY <1>2, <1>3 DEF WallAt
<1>5. Second * (y \div Second) <= Second * ((x \div Second) + s)
  BY <1>1, <1>3, <1>4
<1>6. /\ Second * ((x \div Second) + s) = Second * (x \div Second) + s * Second
      /\ (s + 1) * Second = s * Second + Second
      /\ Second * (x \div Second) \in Nat /\ s * Second \in Nat
  BY <1>1, <1>3, Spread
<1>7. y < x + (s * Second + Second)
  <2> HIDE DEF x, y
  <2> QED
    BY <1>1, <1>3, <1>5, <1>6
<1>8. QED
  BY <1>1, <1>6, <1>7

-----------------------------------------------------------------------------
(* What Ring::push makes of a ring that is not over its capacity. *)
LEMMA PushFacts ==
    ASSUME NEW S, NEW fs \in Seq(S), NEW e \in S, Len(fs) <= FrameCount
    PROVE  /\ RingOf!PushTo(fs, e) \in Seq(S)
           /\ Len(RingOf!PushTo(fs, e)) =
                IF Len(fs) = FrameCount THEN FrameCount ELSE Len(fs) + 1
           /\ \A i \in 1 .. Len(RingOf!PushTo(fs, e)) :
                RingOf!PushTo(fs, e)[i] =
                  IF i = Len(RingOf!PushTo(fs, e)) THEN e
                  ELSE fs[i + (Len(fs) + 1) - Len(RingOf!PushTo(fs, e))]
<1>1. FrameCount \in Nat \ {0} /\ Len(fs) \in Nat
  BY FrameCountType
<1>2. CASE Len(fs) = FrameCount
  <2>1. fs # <<>>
    BY <1>1, <1>2
  <2>2. /\ Tail(fs) \in Seq(S)
        /\ Len(Tail(fs)) = FrameCount - 1
        /\ \A i \in 1 .. FrameCount - 1 : Tail(fs)[i] = fs[i + 1]
    BY <1>1, <1>2, <2>1
  <2>3. RingOf!PushTo(fs, e) = Append(Tail(fs), e)
    BY <1>2 DEF RingOf!PushTo
  <2>4. /\ Append(Tail(fs), e) \in Seq(S)
        /\ Len(Append(Tail(fs), e)) = FrameCount
        /\ \A i \in 1 .. FrameCount :
             Append(Tail(fs), e)[i] = IF i = FrameCount THEN e ELSE fs[i + 1]
    BY <1>1, <2>2
  <2>5. QED
    BY <1>1, <1>2, <2>3, <2>4
<1>3. CASE Len(fs) # FrameCount
  <2>1. RingOf!PushTo(fs, e) = Append(fs, e)
    BY <1>3 DEF RingOf!PushTo
  <2>2. QED
    BY <1>1, <1>3, <2>1
<1>4. QED
  BY <1>2, <1>3

LEMMA AppendFacts ==
    ASSUME NEW S, NEW q \in Seq(S), NEW e \in S
    PROVE  /\ Append(q, e) \in Seq(S)
           /\ Len(q) \in Nat
           /\ Len(Append(q, e)) = Len(q) + 1
           /\ Append(q, e)[Len(q) + 1] = e
           /\ \A i \in 1 .. Len(q) : Append(q, e)[i] = q[i] /\ q[i] \in S
  OBVIOUS

LEMMA FrameFields ==
    ASSUME NEW f \in Frame
    PROVE  f.at \in Nat /\ f.born \in Nat /\ f.under \in Offsets
  BY DEF Frame

LEMMA AnswerType ==
    ASSUME NEW q \in Query, NEW n \in Nat, NEW m \in Nat, NEW C \in SUBSET Int
    PROVE  /\ [q EXCEPT !.state = "answered", !.answered = n, !.upTo = m,
                        !.counted = C] \in Query
           /\ [q EXCEPT !.state = "shown", !.answered = n, !.upTo = m] \in Query
  BY DEF Query

LEMMA TypeStep == TypeOK /\ [Next]_vars => TypeOK'
<1> SUFFICES ASSUME TypeOK, [Next]_vars
             PROVE  TypeOK'
  OBVIOUS
<1> USE DEF TypeOK, clockVars, ringVars, recorderVars, queryVars
<1>0. Wall \in Nat /\ Idle \in Query
  BY WallType, HistoryAssumption DEF Wall, Idle, Query
<1>1. CASE Advance
  BY <1>1 DEF Advance
<1>2. CASE StepClock
  BY <1>2 DEF StepClock
<1>3. CASE Stamp
  <2>1. PICK k \in Kinds : pending' = [at |-> Wall, born |-> now, under |-> offset,
                                     window |-> k.window, stalls |-> k.stalls]
    BY <1>3 DEF Stamp
  <2>2. k.window \in Nat /\ k.stalls \in {l.stalls : l \in Kinds}
    BY KindsAssumption
  <2>3. pending' \in Frame
    BY <1>0, <2>1, <2>2 DEF Frame
  <2>4. QED
    BY <1>3, <2>3 DEF Stamp
<1>4. CASE PushFrame
  <2>1. pending \in Frame
    BY <1>4 DEF PushFrame
  <2>2. frames' \in Seq(Frame) /\ Len(frames') <= FrameCount
    BY <1>4, <2>1, PushFacts, FrameCountType DEF PushFrame
  <2>3. pushed' \in Seq(Frame)
    BY <1>4, <2>1, AppendFacts DEF PushFrame
  <2>4. QED
    BY <1>4, <2>2, <2>3 DEF PushFrame
<1>5. ASSUME NEW secs \in Spans, Ask(secs)
      PROVE  TypeOK'
  <2>1. secs \in Nat /\ (IF Wall < secs THEN 0 ELSE Wall - secs) \in Nat
    BY <1>0, HistoryAssumption
  <2>2. query' \in Query
    BY <1>0, <1>5, <2>1 DEF Ask, Query
  <2>3. QED
    BY <1>5, <2>2 DEF Ask
<1>6. CASE AnswerSince
  <2> DEFINE evicted == Len(pushed) - Len(frames)
  <2>1. {evicted + i : i \in Counted(frames, query.since)} \subseteq Int
    BY DEF Counted
  <2>2. {evicted + i : i \in Counted(frames, query.since)} \in SUBSET Int
    BY <2>1
  <2> DEFINE C == {evicted + i : i \in Counted(frames, query.since)}
  <2>3. query' \in Query
    <3>1. query' = [query EXCEPT !.state = "answered", !.answered = now,
                                 !.upTo = Len(pushed), !.counted = C]
      BY <1>6 DEF AnswerSince
    <3>2. Len(pushed) \in Nat /\ C \in SUBSET Int /\ query \in Query /\ now \in Nat
      BY <2>2
    <3> HIDE DEF C, TypeOK
    <3> QED
      BY <3>1, <3>2, AnswerType
  <2>4. QED
    BY <1>6, <2>3 DEF AnswerSince
<1>7. CASE AnswerNow
  <2>1. query' \in Query
    <3>1. query' = [Idle EXCEPT !.state = "shown", !.answered = now, !.upTo = Len(pushed)]
      BY <1>7 DEF AnswerNow
    <3>2. Len(pushed) \in Nat /\ now \in Nat /\ {} \in SUBSET Int
      OBVIOUS
    <3> HIDE DEF TypeOK
    <3> QED
      BY <1>0, <3>1, <3>2, AnswerType
  <2>2. QED
    BY <1>7, <2>1 DEF AnswerNow
<1>8. CASE Reply
  BY <1>0, <1>8 DEF Reply
<1>9. CASE UNCHANGED vars
  BY <1>9 DEF vars
<1>10. QED
  BY <1>1, <1>2, <1>3, <1>4, <1>5, <1>6, <1>7, <1>8, <1>9 DEF Next

-----------------------------------------------------------------------------
(* Retention follows: a frame that was dropped is followed by FrameCount   *)
(* others, each at least Gap after the one before.                         *)
LEMMA RetentionHolds == TypeOK /\ RingInv /\ Paced => Retention
<1> SUFFICES ASSUME TypeOK, RingInv, Paced,
                    NEW i \in 1 .. Len(pushed), ~Held(i)
             PROVE  ~(now < pushed[i].born + FrameCount * Gap)
  BY DEF Retention
<1>1. /\ Len(pushed) \in Nat /\ Len(frames) \in Nat /\ FrameCount \in Nat \ {0}
      /\ Gap \in Nat /\ now \in Nat /\ began \in Nat /\ pushed[i].born \in Nat
  BY FrameCountType, HistoryAssumption, FrameFields DEF TypeOK
<1>2. Len(pushed) - i >= FrameCount /\ Len(pushed) - i \in Nat
  BY <1>1 DEF Held, RingInv, RingIsSuffix, TypeOK
<1>3. (Len(pushed) - i) * Gap >= FrameCount * Gap
  BY <1>1, <1>2
<1>4. pushed[i].born + (Len(pushed) - i) * Gap <= now
  BY <1>1, <1>2 DEF Paced
<1>5. QED
  BY <1>1, <1>2, <1>3, <1>4

LEMMA RingStep == IInv /\ PushFrame => RingInv'
<1> SUFFICES ASSUME IInv, PushFrame
             PROVE  RingInv'
  OBVIOUS
<1> DEFINE p == Len(pushed)
           f == Len(frames)
<1>1. /\ pending \in Frame /\ frames \in Seq(Frame) /\ pushed \in Seq(Frame)
      /\ f <= FrameCount /\ FrameCount \in Nat \ {0} /\ f \in Nat /\ p \in Nat
  BY FrameCountType DEF IInv, TypeOK, PushFrame
<1>2. /\ Len(pushed') = p + 1
      /\ pushed'[p + 1] = pending
      /\ \A i \in 1 .. p : pushed'[i] = pushed[i]
  BY <1>1, AppendFacts DEF PushFrame
<1>3. /\ Len(frames') = IF f = FrameCount THEN FrameCount ELSE f + 1
      /\ \A i \in 1 .. Len(frames') :
           frames'[i] = IF i = Len(frames') THEN pending
                        ELSE frames[i + (f + 1) - Len(frames')]
  <2>1. frames' = RingOf!PushTo(frames, pending)
    BY DEF PushFrame
  <2>2. pending \in Frame /\ frames \in Seq(Frame) /\ Len(frames) <= FrameCount
    BY <1>1
  <2>3. /\ Len(RingOf!PushTo(frames, pending)) =
             IF Len(frames) = FrameCount THEN FrameCount ELSE Len(frames) + 1
        /\ \A i \in 1 .. Len(RingOf!PushTo(frames, pending)) :
             RingOf!PushTo(frames, pending)[i] =
               IF i = Len(RingOf!PushTo(frames, pending)) THEN pending
               ELSE frames[i + (Len(frames) + 1) - Len(RingOf!PushTo(frames, pending))]
    BY <2>2, PushFacts
  <2> QED
    BY <2>1, <2>3
<1>4. f <= p /\ \A i \in 1 .. f : frames[i] = pushed[p - f + i]
  BY DEF IInv, RingInv, RingIsSuffix
<1>5. Len(frames') \in Nat /\ Len(frames') <= p + 1
  BY <1>1, <1>3, <1>4
<1>6. ASSUME NEW i \in 1 .. Len(frames')
      PROVE  frames'[i] = pushed'[Len(pushed') - Len(frames') + i]
  <2>1. CASE i = Len(frames')
    <3>1. frames'[i] = pending
      BY <1>3, <2>1
    <3>2. Len(pushed') - Len(frames') + i = p + 1
      BY <1>1, <1>2, <1>5, <2>1
    <3>3. QED
      BY <1>2, <3>1, <3>2
  <2>2. CASE i # Len(frames')
    <3>1. i + (f + 1) - Len(frames') \in 1 .. f
      BY <1>1, <1>3, <1>5, <2>2
    <3>2. p - f + (i + (f + 1) - Len(frames')) = Len(pushed') - Len(frames') + i
      BY <1>1, <1>2, <1>5
    <3>3. Len(pushed') - Len(frames') + i \in 1 .. p
      BY <1>1, <1>2, <1>4, <1>5, <3>1, <3>2
    <3>4. frames'[i] = frames[i + (f + 1) - Len(frames')]
      BY <1>3, <2>2
    <3>5. QED
      BY <1>2, <1>4, <3>1, <3>2, <3>3, <3>4
  <2>3. QED
    BY <2>1, <2>2
<1>7. Len(frames') < FrameCount => Len(frames') = Len(pushed')
  BY <1>1, <1>2, <1>3 DEF IInv, RingInv
<1>8. QED
  BY <1>2, <1>5, <1>6, <1>7 DEF RingInv, RingIsSuffix

LEMMA PaceStep == IInv /\ PushFrame => Paced'
<1> SUFFICES ASSUME IInv, PushFrame
             PROVE  Paced'
  OBVIOUS
<1> DEFINE p == Len(pushed)
<1>1. /\ pending \in Frame /\ pushed \in Seq(Frame) /\ p \in Nat
      /\ began \in Nat /\ now \in Nat /\ Gap \in Nat
  BY HistoryAssumption DEF IInv, TypeOK, PushFrame
<1>2. /\ Len(pushed') = p + 1
      /\ pushed'[p + 1] = pending
      /\ \A i \in 1 .. p : pushed'[i] = pushed[i] /\ pushed[i] \in Frame
  BY <1>1, AppendFacts DEF PushFrame
<1>3. /\ stage' = "sampling" /\ began' = now /\ now' = now
      /\ began + Gap <= pending.born /\ pending.born <= now /\ pending.born \in Nat
  BY <1>1, FrameFields DEF IInv, Paced, PushFrame, clockVars
<1>4. ASSUME NEW i \in 1 .. p + 1
      PROVE  pushed'[i].born + (p + 1 - i) * Gap <= now
  <2>1. CASE i = p + 1
    BY <1>1, <1>2, <1>3, <2>1
  <2>2. CASE i \in 1 .. p
    <3>1. pushed[i].born + (p - i) * Gap <= began /\ pushed[i].born \in Nat
      BY <1>2, <2>2, FrameFields DEF IInv, Paced
    <3>2. p - i \in Nat /\ (p + 1) - i = (p - i) + 1
      BY <1>1, <2>2
    <3>3. (p + 1 - i) * Gap = (p - i) * Gap + Gap /\ (p - i) * Gap \in Nat
      BY <1>1, <3>2, Spread
    <3>4. QED
      BY <1>1, <1>2, <1>3, <2>2, <3>1, <3>3
  <2>3. QED
    BY <1>1, <2>1, <2>2
<1>5. QED
  BY <1>1, <1>2, <1>3, <1>4 DEF Paced

(* What a question counts when it is answered. *)
LEMMA AnswerStep ==
    IInv /\ AnswerSince => Answered' /\ RecentCounted' /\ OldNotCounted'
<1> SUFFICES ASSUME IInv, AnswerSince
             PROVE  Answered' /\ RecentCounted' /\ OldNotCounted'
  OBVIOUS
<1> DEFINE evicted == Len(pushed) - Len(frames)
<1>1. /\ TypeOK /\ Retention
      /\ Len(pushed) \in Nat /\ Len(frames) \in Nat /\ evicted \in Nat
      /\ \A i \in 1 .. Len(frames) : frames[i] = pushed[evicted + i]
  BY RetentionHolds DEF IInv, RingInv, RingIsSuffix, TypeOK
<1>2. /\ query'.state = "answered" /\ query'.secs = query.secs
      /\ query'.since = query.since /\ query'.asked = query.asked
      /\ query'.under = query.under /\ query'.answered = now
      /\ query'.upTo = Len(pushed)
      /\ query'.counted = {evicted + i : i \in Counted(frames, query.since)}
      /\ pushed' = pushed
  BY <1>1 DEF AnswerSince, TypeOK, Query, ringVars
<1>3. \A i \in 1 .. Len(pushed) :
        i \in query'.counted <=> Held(i) /\ pushed[i].at >= query.since
  <2> SUFFICES ASSUME NEW i \in 1 .. Len(pushed)
               PROVE  i \in query'.counted <=> Held(i) /\ pushed[i].at >= query.since
    OBVIOUS
  <2>1. ASSUME i \in query'.counted
        PROVE  Held(i) /\ pushed[i].at >= query.since
    <3>1. PICK j \in Counted(frames, query.since) : i = evicted + j
      BY <1>2, <2>1
    <3>2. j \in 1 .. Len(frames) /\ frames[j].at >= query.since
      BY <1>1 DEF Counted, TypeOK
    <3>3. QED
      BY <1>1, <3>1, <3>2 DEF Held
  <2>2. ASSUME Held(i), pushed[i].at >= query.since
        PROVE  i \in query'.counted
    <3>1. i - evicted \in 1 .. Len(frames) /\ evicted + (i - evicted) = i
      BY <1>1, <2>2 DEF Held
    <3>2. i - evicted \in Counted(frames, query.since)
      <4>1. DOMAIN frames = 1 .. Len(frames)
        BY <1>1 DEF TypeOK
      <4>2. frames[i - evicted] = pushed[i]
        BY <1>1, <3>1
      <4>3. QED
        BY <2>2, <3>1, <4>1, <4>2 DEF Counted
    <3>3. QED
      BY <1>2, <3>1, <3>2
  <2>3. QED
    BY <2>1, <2>2
<1>4. query'.counted \subseteq 1 .. Len(pushed)
  <2> SUFFICES ASSUME NEW j \in Counted(frames, query.since)
               PROVE  evicted + j \in 1 .. Len(pushed)
    BY <1>2
  <2> QED
    BY <1>1 DEF Counted, TypeOK
<1>5. /\ query.secs \in Nat /\ query.asked \in Nat /\ query.under \in Offsets
      /\ WallAt(query.asked, query.under) \in Nat
      /\ query.since = IF WallAt(query.asked, query.under) < query.secs THEN 0
                       ELSE WallAt(query.asked, query.under) - query.secs
  BY <1>1, WallType DEF IInv, Asked, AnswerSince, TypeOK, Query
<1>6. \A i \in 1 .. Len(pushed) :
        /\ pushed[i].born \in Nat /\ pushed[i].under \in Offsets /\ pushed[i].at \in Nat
        /\ pushed[i].at = WallAt(pushed[i].born, pushed[i].under)
  BY <1>1, AppendFacts, FrameFields DEF IInv, TypeOK, Stamped
<1>7. Offsets \subseteq Int /\ Second \in Nat \ {0}
  BY HistoryAssumption
<1>8. RecentCounted'
  <2> SUFFICES ASSUME NEW i \in 1 .. Len(pushed),
                      pushed[i].under >= query.under,
                      pushed[i].born + query.secs * Second >= query.asked,
                      now < pushed[i].born + FrameCount * Gap
               PROVE  i \in query'.counted
    BY <1>2 DEF RecentCounted
  <2>1. Held(i)
    BY <1>1 DEF Retention
  <2>2. query.asked + query.under <= pushed[i].born + pushed[i].under + query.secs * Second
    <3>1. query.secs * Second \in Nat /\ query.under \in Int
      <4>1. query.secs * Second \in Nat
        BY <1>5, <1>7, Spread
      <4>2. query.under \in Int
        BY <1>5, <1>7
      <4>3. QED
        BY <4>1, <4>2
    <3>2. pushed[i].born \in Nat /\ pushed[i].under \in Int /\ query.asked \in Nat
      BY <1>5, <1>6, <1>7
    <3>3. QED
      BY <3>1, <3>2
  <2>3. \/ WallAt(query.asked, query.under) < query.secs
        \/ WallAt(query.asked, query.under) - query.secs <= pushed[i].at
    BY <1>5, <1>6, <2>2, WallClose
  <2>4. pushed[i].at >= query.since
    BY <1>5, <1>6, <2>3
  <2>5. QED
    BY <1>3, <2>1, <2>4
<1>9. OldNotCounted'
  <2> SUFFICES ASSUME NEW i \in query'.counted,
                      pushed[i].under <= query.under,
                      query.since > 0
               PROVE  pushed[i].born + (query.secs + 1) * Second > query.asked
    BY <1>2 DEF OldNotCounted
  <2>1. i \in 1 .. Len(pushed) /\ pushed[i].at >= query.since
    BY <1>3, <1>4
  <2>2. /\ WallAt(query.asked, query.under) > query.secs
        /\ WallAt(query.asked, query.under) - query.secs
             <= WallAt(pushed[i].born, pushed[i].under)
    BY <1>5, <1>6, <2>1
  <2>3. query.asked + query.under
          < pushed[i].born + pushed[i].under + (query.secs + 1) * Second
    BY <1>5, <1>6, <2>1, <2>2, WallFar
  <2>4. (query.secs + 1) * Second \in Nat /\ query.under \in Int
    <3>1. query.secs + 1 \in Nat /\ Second \in Nat
      BY <1>5, <1>7
    <3>2. (query.secs + 1) * Second \in Nat
      BY <3>1, Spread
    <3>3. query.under \in Int
      BY <1>5, <1>7
    <3>4. QED
      BY <3>2, <3>3
  <2>5. pushed[i].born \in Nat /\ pushed[i].under \in Int /\ query.asked \in Nat
    BY <1>5, <1>6, <1>7, <2>1
  <2>6. QED
    BY <2>3, <2>4, <2>5
<1>10. QED
  BY <1>2, <1>4, <1>8, <1>9 DEF Answered

LEMMA InitHolds == Init => IInv
<1> SUFFICES ASSUME Init
             PROVE  IInv
  OBVIOUS
<1>1. Idle \in Query
  BY HistoryAssumption DEF Idle, Query
<1>2. TypeOK
  BY <1>1, FrameCountType, HistoryAssumption DEF Init, TypeOK
<1>3. Len(pushed) = 0 /\ Len(frames) = 0
  BY DEF Init
<1>4. RingInv /\ Stamped
  BY <1>3 DEF Init, RingInv, RingIsSuffix, Stamped
<1>5. Paced
  BY <1>3 DEF Init, Paced
<1>6. query.state = "idle"
  BY DEF Init, Idle
<1>7. QED
  BY <1>2, <1>4, <1>5, <1>6 DEF IInv, Asked, Answered, RecentCounted, OldNotCounted

(* A step that leaves the question alone leaves what is known of it alone, *)
(* provided the frames it counted are where they were.                     *)
LEMMA QueryKept ==
    ASSUME IInv, UNCHANGED query, Len(pushed) \in Nat, Len(pushed') \in Nat,
           Len(pushed) <= Len(pushed'),
           \A i \in 1 .. Len(pushed) : pushed'[i] = pushed[i]
    PROVE  Asked' /\ Answered' /\ RecentCounted' /\ OldNotCounted'
<1>1. Asked'
  BY DEF IInv, Asked
<1>2. CASE query.state # "answered"
  BY <1>1, <1>2 DEF Answered, RecentCounted, OldNotCounted
<1>3. CASE query.state = "answered"
  <2>1. /\ query.upTo <= Len(pushed) /\ query.upTo \in Nat
        /\ query.counted \subseteq 1 .. query.upTo
    BY <1>3 DEF IInv, Answered, TypeOK, Query
  <2>2. \A i \in 1 .. query.upTo : pushed'[i] = pushed[i]
    BY <2>1
  <2>3. Answered'
    BY <2>1 DEF Answered
  <2>4. RecentCounted'
    BY <2>2 DEF IInv, RecentCounted
  <2>5. OldNotCounted'
    BY <2>1, <2>2 DEF IInv, OldNotCounted
  <2>6. QED
    BY <1>1, <2>3, <2>4, <2>5
<1>4. QED
  BY <1>2, <1>3

LEMMA InvariantStep == IInv /\ [Next]_vars => IInv'
<1> SUFFICES ASSUME IInv, [Next]_vars
             PROVE  IInv'
  OBVIOUS
<1> USE DEF clockVars, ringVars, recorderVars, queryVars
<1>1. TypeOK /\ TypeOK' /\ Len(pushed) \in Nat /\ now \in Nat
  BY TypeStep DEF IInv, TypeOK
<1>2. CASE Advance
  <2>1. Asked' /\ Answered' /\ RecentCounted' /\ OldNotCounted'
    BY <1>1, <1>2, QueryKept DEF Advance
  <2>2. RingInv' /\ Stamped'
    BY <1>2 DEF Advance, IInv, RingInv, RingIsSuffix, Stamped
  <2>3. Paced'
    <3>1. began \in Nat /\ (stage = "stamped" => pending.born \in Nat)
      BY <1>1, FrameFields DEF TypeOK
    <3>2. QED
      BY <1>1, <1>2, <3>1 DEF Advance, IInv, Paced
  <2>4. QED
    BY <1>1, <2>1, <2>2, <2>3 DEF IInv
<1>3. CASE StepClock
  <2>1. Asked' /\ Answered' /\ RecentCounted' /\ OldNotCounted'
    BY <1>1, <1>3, QueryKept DEF StepClock
  <2>2. RingInv' /\ Stamped' /\ Paced'
    BY <1>3 DEF StepClock, IInv, RingInv, RingIsSuffix, Stamped, Paced
  <2>3. QED
    BY <1>1, <2>1, <2>2 DEF IInv
<1>4. CASE Stamp
  <2>1. Asked' /\ Answered' /\ RecentCounted' /\ OldNotCounted'
    BY <1>1, <1>4, QueryKept DEF Stamp
  <2>2. RingInv'
    BY <1>4 DEF Stamp, IInv, RingInv, RingIsSuffix
  <2>3. /\ pending'.born = now /\ pending'.at = WallAt(now, offset)
        /\ pending'.under = offset /\ now >= began + Gap
    BY <1>4 DEF Stamp, Wall
  <2>4. Stamped'
    BY <1>4, <2>3 DEF Stamp, IInv, Stamped
  <2>5. Paced'
    BY <1>1, <1>4, <2>3 DEF Stamp, IInv, Paced
  <2>6. QED
    BY <1>1, <2>1, <2>2, <2>4, <2>5 DEF IInv
<1>5. CASE PushFrame
  <2>1. pending \in Frame /\ pushed \in Seq(Frame) /\ pushed' = Append(pushed, pending)
    BY <1>1, <1>5 DEF PushFrame, TypeOK
  <2>2. /\ Len(pushed') = Len(pushed) + 1
        /\ pushed'[Len(pushed) + 1] = pending
        /\ \A i \in 1 .. Len(pushed) : pushed'[i] = pushed[i]
    BY <2>1, AppendFacts
  <2>3. Asked' /\ Answered' /\ RecentCounted' /\ OldNotCounted'
    <3>1. UNCHANGED query
      BY <1>5 DEF PushFrame
    <3>2. Len(pushed') \in Nat /\ Len(pushed) <= Len(pushed')
      BY <1>1, <2>2
    <3>3. QED
      BY <1>1, <2>2, <3>1, <3>2, QueryKept
  <2>4. Stamped'
    <3>1. stage' # "stamped" /\ pending.at = WallAt(pending.born, pending.under)
      BY <1>5 DEF PushFrame, IInv, Stamped
    <3>2. ASSUME NEW i \in 1 .. Len(pushed')
          PROVE  pushed'[i].at = WallAt(pushed'[i].born, pushed'[i].under)
      <4>1. CASE i = Len(pushed) + 1
        BY <2>2, <3>1, <4>1
      <4>2. CASE i \in 1 .. Len(pushed)
        BY <2>2, <4>2 DEF IInv, Stamped
      <4>3. QED
        BY <1>1, <2>2, <4>1, <4>2
    <3>3. QED
      BY <3>1, <3>2 DEF Stamped
  <2>5. QED
    BY <1>1, <1>5, <2>3, <2>4, RingStep, PaceStep DEF IInv
<1>6. ASSUME NEW secs \in Spans, Ask(secs)
      PROVE  IInv'
  <2>1. /\ query'.state = "asked" /\ query'.secs = secs
        /\ query'.since = (IF Wall < secs THEN 0 ELSE Wall - secs)
        /\ query'.asked = now /\ query'.under = offset
    BY <1>6 DEF Ask, Idle
  <2>2. Asked'
    BY <2>1 DEF Asked, Wall
  <2>3. Answered' /\ RecentCounted' /\ OldNotCounted'
    BY <2>1 DEF Answered, RecentCounted, OldNotCounted
  <2>4. RingInv' /\ Stamped' /\ Paced'
    BY <1>6 DEF Ask, IInv, RingInv, RingIsSuffix, Stamped, Paced
  <2>5. QED
    BY <1>1, <2>2, <2>3, <2>4 DEF IInv
<1>7. CASE AnswerSince
  <2>1. /\ query'.state = "answered" /\ query.state = "asked"
        /\ query'.secs = query.secs /\ query'.since = query.since
        /\ query'.asked = query.asked /\ query'.under = query.under
    BY <1>1, <1>7 DEF AnswerSince, TypeOK, Query
  <2>2. Asked'
    BY <2>1 DEF IInv, Asked
  <2>3. RingInv' /\ Stamped' /\ Paced'
    BY <1>7 DEF AnswerSince, IInv, RingInv, RingIsSuffix, Stamped, Paced
  <2>4. QED
    BY <1>1, <1>7, <2>2, <2>3, AnswerStep DEF IInv
<1>8. CASE AnswerNow \/ Reply
  <2>1. query'.state \in {"shown", "idle"}
    <3>1. CASE AnswerNow
      BY <3>1 DEF AnswerNow, Idle
    <3>2. CASE Reply
      BY <3>2 DEF Reply, Idle
    <3>3. QED
      BY <1>8, <3>1, <3>2
  <2>2. Asked' /\ Answered' /\ RecentCounted' /\ OldNotCounted'
    BY <2>1 DEF Asked, Answered, RecentCounted, OldNotCounted
  <2>3. RingInv' /\ Stamped' /\ Paced'
    BY <1>8 DEF AnswerNow, Reply, IInv, RingInv, RingIsSuffix, Stamped, Paced
  <2>4. QED
    BY <1>1, <2>2, <2>3 DEF IInv
<1>9. CASE UNCHANGED vars
  <2>1. Asked' /\ Answered' /\ RecentCounted' /\ OldNotCounted'
    BY <1>1, <1>9, QueryKept DEF vars
  <2>2. RingInv' /\ Stamped' /\ Paced'
    BY <1>9 DEF vars, IInv, RingInv, RingIsSuffix, Stamped, Paced
  <2>3. QED
    BY <1>1, <2>1, <2>2 DEF IInv
<1>10. QED
  BY <1>2, <1>3, <1>4, <1>5, <1>6, <1>7, <1>8, <1>9 DEF Next

-----------------------------------------------------------------------------
LEMMA Inductive == Spec => []IInv
<1>1. Init => IInv
  BY InitHolds
<1>2. IInv /\ [Next]_vars => IInv'
  BY InvariantStep
<1>3. QED
  BY <1>1, <1>2, PTL DEF Spec

(* The variables of the ring, its recorder and its readers keep their      *)
(* types, and the ring never outgrows its capacity (ring.rs:39).           *)
THEOREM TypeCorrect == Spec => []TypeOK
<1>1. IInv => TypeOK
  BY DEF IInv
<1>2. QED
  BY <1>1, Inductive, PTL

(* The ring keeps every frame for FrameCount * Gap, however the wall clock *)
(* is stepped and however late frames are pushed (stallwatchd.rs:359).     *)
THEOREM FramesAreRetained == Spec => []Retention
<1>1. IInv => Retention
  BY RetentionHolds DEF IInv
<1>2. QED
  BY <1>1, Inductive, PTL

(* As many ticks as the ring has frames last for the history but for less  *)
(* than one tick.                                                          *)
LEMMA FramesSpanHistory == HistorySecs * Second - (Tick - 1) <= Tick * FrameCount
<1> DEFINE h == HistorySecs * Second
           n == h \div Tick
<1>1. h \in Nat /\ Tick \in Nat \ {0}
  BY HistoryAssumption
<1>2. FrameCount = IF n = 0 THEN 1 ELSE n
  BY DEF FrameCount
<1> HIDE DEF h
<1>3. n \in Nat /\ h < Tick * n + Tick
  BY <1>1, Floor
<1> HIDE DEF n
<1>4. CASE n = 0
  <2>1. Tick * n = 0 /\ Tick * 1 = Tick
    BY <1>1, <1>4
  <2>2. h - (Tick - 1) <= Tick
    BY <1>1, <1>3, <2>1
  <2>3. QED
    BY <1>2, <1>4, <2>1, <2>2 DEF h
<1>5. CASE n # 0
  <2>1. Tick * n \in Nat
    BY <1>1, <1>3
  <2>2. h - (Tick - 1) <= Tick * n
    BY <1>1, <1>3, <2>1
  <2>3. QED
    BY <1>2, <1>5, <2>2 DEF h
<1>6. QED
  BY <1>4, <1>5

(* What is true of age, tick, history and gap is true of them per tick.    *)
LEMMA PerTick ==
    ASSUME NEW age \in Int, NEW t \in Nat \ {0}, NEW h \in Int, NEW n \in Nat, NEW g \in Nat,
           h <= t * n, age * t < h * g
    PROVE  age < n * g
<1>1. h * g <= (t * n) * g
  OBVIOUS
<1>2. (t * n) * g = (n * g) * t
  OBVIOUS
<1>3. n * g \in Int
  OBVIOUS
<1>4. age * t < (n * g) * t
  BY <1>1, <1>2, <1>3
<1>5. n * g <= age => (n * g) * t <= age * t
  BY <1>3
<1>6. QED
  BY <1>3, <1>4, <1>5

(* For every --history, --tick and pace, polling or not: frames last for   *)
(* the history less what is left of it after whole ticks, scaled by Gap    *)
(* over Tick (stallwatchd.rs:359).                                         *)
THEOREM HistoryIsKept == Spec => []HistoryKept
<1>1. IInv => HistoryKept
  <2> SUFFICES ASSUME IInv, NEW i \in 1 .. Len(pushed),
                      (now - pushed[i].born) * Tick
                          < (HistorySecs * Second - (Tick - 1)) * Gap
               PROVE  Held(i)
    BY DEF HistoryKept
  <2>1. Retention
    BY RetentionHolds DEF IInv
  <2>2. now \in Nat /\ pushed[i].born \in Nat
    BY AppendFacts, FrameFields DEF IInv, TypeOK
  <2>3. /\ HistorySecs * Second - (Tick - 1) \in Int /\ now - pushed[i].born \in Int
        /\ FrameCount \in Nat /\ Gap \in Nat /\ Tick \in Nat \ {0}
    BY <2>2, FrameCountType, HistoryAssumption
  <2>4. now - pushed[i].born < FrameCount * Gap
    BY <2>3, FramesSpanHistory, PerTick
  <2>5. now < pushed[i].born + FrameCount * Gap
    BY <2>2, <2>3, <2>4
  <2>6. QED
    BY <2>1, <2>5 DEF Retention
<1>2. QED
  BY <1>1, Inductive, PTL

(* SINCE secs counts every frame of the last secs seconds that was stamped *)
(* under a wall clock not since stepped forward, the rounding to whole     *)
(* seconds and the delay between question and answer included.             *)
THEOREM SinceCountsTheRecent == Spec => []RecentCounted
<1>1. IInv => RecentCounted
  BY DEF IInv
<1>2. QED
  BY <1>1, Inductive, PTL

(* And none a whole second older, under a clock not since stepped back.    *)
THEOREM SinceSkipsTheOld == Spec => []OldNotCounted
<1>1. IInv => OldNotCounted
  BY DEF IInv
<1>2. QED
  BY <1>1, Inductive, PTL

-----------------------------------------------------------------------------
(* The same report comes of the same frames at other positions of another  *)
(* sequence: the ring's and those of the whole history.                    *)
LEMMA ReportsMoved ==
    ASSUME NEW fs, NEW gs, NEW C, NEW D, IsFiniteSet(C), IsFiniteSet(D),
           NEW b \in [C -> D], \A x, y \in C : b[x] = b[y] => x = y, D = {b[i] : i \in C},
           \A i \in C : /\ fs[i].window = gs[b[i]].window /\ fs[i].window \in Int
                        /\ fs[i].stalls = gs[b[i]].stalls
                        /\ \A k \in DOMAIN fs[i].stalls : fs[i].stalls[k] \in Int
    PROVE  Reports(fs, C) = Reports(gs, D)
<1>1. Total(fs, C) = Total(gs, D)
  <2> DEFINE f == [i \in C |-> fs[i].window]
             g == [j \in D |-> gs[j].window]
  <2>1. \A x \in C : f[x] = g[b[x]] /\ f[x] \in Int
    OBVIOUS
  <2>2. DOMAIN f = C /\ DOMAIN g = D
    OBVIOUS
  <2>3. Total(fs, C) = SumFunctionOnSet(f, C) /\ Total(gs, D) = SumFunctionOnSet(g, D)
    BY <2>2 DEF Total, SumFunction
  <2> HIDE DEF f, g
  <2>4. SumFunctionOnSet(f, C) = SumFunctionOnSet(g, {b[x] : x \in C})
    BY <2>1, SumReindex
  <2>5. QED
    BY <2>3, <2>4
<1>2. ASSUME NEW k
      PROVE  Usec(fs, C, k) = Usec(gs, D, k)
  <2> DEFINE f == [i \in C |-> IF k \in DOMAIN fs[i].stalls THEN fs[i].stalls[k] ELSE 0]
             g == [j \in D |-> IF k \in DOMAIN gs[j].stalls THEN gs[j].stalls[k] ELSE 0]
  <2>1. ASSUME NEW x \in C PROVE f[x] = g[b[x]] /\ f[x] \in Int
    <3>1. fs[x].stalls = gs[b[x]].stalls /\ b[x] \in D
      OBVIOUS
    <3>2. k \in DOMAIN fs[x].stalls => fs[x].stalls[k] \in Int
      OBVIOUS
    <3>3. QED
      BY <3>1, <3>2
  <2>2. DOMAIN f = C /\ DOMAIN g = D
    OBVIOUS
  <2>3. Usec(fs, C, k) = SumFunctionOnSet(f, C) /\ Usec(gs, D, k) = SumFunctionOnSet(g, D)
    BY <2>2 DEF Usec, SumFunction
  <2> HIDE DEF f, g
  <2>4. SumFunctionOnSet(f, C) = SumFunctionOnSet(g, {b[x] : x \in C})
    BY <2>1, SumReindex
  <2>5. QED
    BY <2>3, <2>4
<1>3. ASSUME NEW k
      PROVE  Ticks(fs, C, k) = Ticks(gs, D, k)
  <2>1. ASSUME NEW t \in Ticks(fs, C, k) PROVE t \in Ticks(gs, D, k)
    <3>1. PICK i \in C : /\ k \in DOMAIN fs[i].stalls
                         /\ t = [usec |-> fs[i].stalls[k], window |-> fs[i].window]
      BY DEF Ticks
    <3>2. b[i] \in D /\ k \in DOMAIN gs[b[i]].stalls
          /\ t = [usec |-> gs[b[i]].stalls[k], window |-> gs[b[i]].window]
      BY <3>1
    <3>3. QED
      BY <3>2 DEF Ticks
  <2>2. ASSUME NEW t \in Ticks(gs, D, k) PROVE t \in Ticks(fs, C, k)
    <3>1. PICK j \in D : /\ k \in DOMAIN gs[j].stalls
                         /\ t = [usec |-> gs[j].stalls[k], window |-> gs[j].window]
      BY DEF Ticks
    <3>2. PICK i \in C : j = b[i]
      OBVIOUS
    <3>3. k \in DOMAIN fs[i].stalls /\ t = [usec |-> fs[i].stalls[k], window |-> fs[i].window]
      BY <3>1, <3>2
    <3>4. QED
      BY <3>3 DEF Ticks
  <2>3. QED
    BY <2>1, <2>2
<1>4. UNION {DOMAIN fs[i].stalls : i \in C} = UNION {DOMAIN gs[j].stalls : j \in D}
  <2>1. {DOMAIN fs[i].stalls : i \in C} = {DOMAIN gs[j].stalls : j \in D}
    <3>1. \A i \in C : b[i] \in D /\ DOMAIN fs[i].stalls = DOMAIN gs[b[i]].stalls
      OBVIOUS
    <3>2. \A j \in D : \E i \in C : j = b[i]
      OBVIOUS
    <3>3. QED
      BY <3>1, <3>2
  <2>2. QED
    BY <2>1
<1>5. Lines(fs, C) = Lines(gs, D)
  <2> DEFINE K == UNION {DOMAIN fs[i].stalls : i \in C}
  <2>1. \A k \in K : [key |-> k, usec |-> Usec(fs, C, k), peak |-> Peak(Ticks(fs, C, k))]
                       = [key |-> k, usec |-> Usec(gs, D, k), peak |-> Peak(Ticks(gs, D, k))]
    BY <1>2, <1>3
  <2>2. /\ Lines(fs, C) = {[key |-> k, usec |-> Usec(fs, C, k), peak |-> Peak(Ticks(fs, C, k))]
                             : k \in K}
        /\ Lines(gs, D) = {[key |-> k, usec |-> Usec(gs, D, k), peak |-> Peak(Ticks(gs, D, k))]
                             : k \in K}
    BY <1>4 DEF Lines
  <2> DEFINE F(k) == [key |-> k, usec |-> Usec(fs, C, k), peak |-> Peak(Ticks(fs, C, k))]
             G(k) == [key |-> k, usec |-> Usec(gs, D, k), peak |-> Peak(Ticks(gs, D, k))]
  <2>3. \A k \in K : F(k) = G(k)
    BY <2>1
  <2>4. Lines(fs, C) = {F(k) : k \in K} /\ Lines(gs, D) = {G(k) : k \in K}
    BY <2>2
  <2> HIDE DEF K, F, G
  <2>5. {F(k) : k \in K} = {G(k) : k \in K}
    BY <2>3
  <2>6. QED
    BY <2>4, <2>5
<1>6. QED
  BY <1>1, <1>5 DEF Reports

-----------------------------------------------------------------------------
(* Every frame is one that a tick can have made. *)
FromKinds ==
    /\ \A i \in 1 .. Len(pushed) :
         \E k \in Kinds : pushed[i].window = k.window /\ pushed[i].stalls = k.stalls
    /\ stage = "stamped" =>
         \E k \in Kinds : pending.window = k.window /\ pending.stalls = k.stalls

(* What makes AnswerComplete and HardestFirst inductive: an answer is the  *)
(* report of the frames it counted, and those are all of the newest        *)
(* FrameCount of its moment that are in the span asked for.                *)
AnsweredAll ==
    query.state = "answered" =>
        /\ query.counted = {i \in 1 .. query.upTo :
                              i > query.upTo - FrameCount /\ pushed[i].at >= query.since}
        /\ report \in Reports(pushed, query.counted)

LEMMA FromKindsStep == TypeOK /\ FromKinds /\ [Next]_vars => FromKinds'
<1> SUFFICES ASSUME TypeOK, FromKinds, [Next]_vars
             PROVE  FromKinds'
  OBVIOUS
<1> USE DEF clockVars, ringVars, recorderVars, queryVars
<1>1. CASE UNCHANGED <<pushed, stage, pending>>
  BY <1>1 DEF FromKinds
<1>2. CASE Stamp
  <2>1. \E k \in Kinds : pending'.window = k.window /\ pending'.stalls = k.stalls
    BY <1>2 DEF Stamp
  <2>2. pushed' = pushed
    BY <1>2 DEF Stamp
  <2>3. QED
    BY <2>1, <2>2 DEF FromKinds
<1>3. CASE PushFrame
  <2>1. /\ pending \in Frame /\ pushed \in Seq(Frame) /\ pushed' = Append(pushed, pending)
        /\ stage = "stamped" /\ stage' = "sampling"
    BY <1>3 DEF PushFrame, TypeOK
  <2>2. /\ Len(pushed) \in Nat
        /\ Len(pushed') = Len(pushed) + 1
        /\ pushed'[Len(pushed) + 1] = pending
        /\ \A i \in 1 .. Len(pushed) : pushed'[i] = pushed[i]
    BY <2>1, AppendFacts
  <2>3. \A i \in 1 .. Len(pushed') : i = Len(pushed) + 1 \/ i \in 1 .. Len(pushed)
    BY <2>2
  <2>4. QED
    BY <2>1, <2>2, <2>3 DEF FromKinds
<1>4. QED
  BY <1>1, <1>2, <1>3 DEF Next, vars, Advance, StepClock, Ask, AnswerSince, AnswerNow, Reply

LEMMA FrameData ==
    ASSUME FromKinds, NEW i \in 1 .. Len(pushed)
    PROVE  /\ pushed[i].window \in Nat
           /\ IsFiniteSet(DOMAIN pushed[i].stalls)
           /\ \A k \in DOMAIN pushed[i].stalls : pushed[i].stalls[k] \in Nat
           /\ pushed[i].window = 0 => DOMAIN pushed[i].stalls = {}
<1>1. PICK k \in Kinds : pushed[i].window = k.window /\ pushed[i].stalls = k.stalls
  BY DEF FromKinds
<1>2. QED
  BY <1>1, KindsAssumption

(* The ring's part of the history gives the ring's report. *)
LEMMA RingReport ==
    ASSUME IInv, FromKinds, query.state = "asked",
           query'.counted = {Len(pushed) - Len(frames) + i : i \in Counted(frames, query.since)}
    PROVE  Reports(frames, Counted(frames, query.since)) = Reports(pushed, query'.counted)
<1> DEFINE e == Len(pushed) - Len(frames)
           C == Counted(frames, query.since)
           D == query'.counted
           b == [i \in C |-> e + i]
<1>1. /\ Len(pushed) \in Nat /\ Len(frames) \in Nat /\ e \in Nat
      /\ \A i \in 1 .. Len(frames) : frames[i] = pushed[e + i]
  BY DEF IInv, RingInv, RingIsSuffix, TypeOK
<1>2. C \subseteq 1 .. Len(frames)
  BY DEF Counted, IInv, TypeOK
<1>3. IsFiniteSet(C)
  BY <1>1, <1>2, FiniteIndices
<1>4. D \subseteq 1 .. Len(pushed)
  BY <1>1, <1>2
<1>5. IsFiniteSet(D)
  BY <1>1, <1>4, FiniteIndices
<1>6. /\ b \in [C -> D] /\ D = {b[i] : i \in C}
      /\ \A x, y \in C : b[x] = b[y] => x = y
  BY <1>1, <1>2
<1>7. \A i \in C : /\ frames[i].window = pushed[b[i]].window /\ frames[i].window \in Int
                   /\ frames[i].stalls = pushed[b[i]].stalls
                   /\ \A k \in DOMAIN frames[i].stalls : frames[i].stalls[k] \in Int
  <2> TAKE i \in C
  <2>1. i \in 1 .. Len(frames) /\ b[i] = e + i /\ e + i \in 1 .. Len(pushed)
    BY <1>1, <1>2, <1>4
  <2>2. frames[i] = pushed[e + i]
    BY <1>1, <2>1
  <2> HIDE DEF e, b
  <2>3. QED
    BY <2>1, <2>2, FrameData
<1> HIDE DEF C, D, b
<1>8. Reports(frames, C) = Reports(pushed, D)
  BY <1>3, <1>5, <1>6, <1>7, ReportsMoved
<1>9. QED
  BY <1>8 DEF C, D

(* The history's growing leaves the reports of its earlier frames alone.   *)
LEMMA GrownReport ==
    ASSUME FromKinds, NEW C, C \subseteq 1 .. Len(pushed), Len(pushed) \in Nat,
           \A i \in 1 .. Len(pushed) : pushed'[i] = pushed[i]
    PROVE  Reports(pushed, C) = Reports(pushed', C)
<1> DEFINE b == [i \in C |-> i]
           D == {b[i] : i \in C}
<1>1. IsFiniteSet(C)
  BY FiniteIndices
<1>2. /\ b \in [C -> D] /\ D = {b[i] : i \in C} /\ D = C
      /\ \A x, y \in C : b[x] = b[y] => x = y
  OBVIOUS
<1>3. \A i \in C : /\ pushed[i].window = pushed'[b[i]].window /\ pushed[i].window \in Int
                   /\ pushed[i].stalls = pushed'[b[i]].stalls
                   /\ \A k \in DOMAIN pushed[i].stalls : pushed[i].stalls[k] \in Int
  <2> TAKE i \in C
  <2>1. i \in 1 .. Len(pushed) /\ b[i] = i /\ pushed'[i] = pushed[i]
    OBVIOUS
  <2> HIDE DEF b
  <2>2. QED
    BY <2>1, FrameData
<1> HIDE DEF b, D
<1>4. IsFiniteSet(D)
  BY <1>1, <1>2
<1>5. Reports(pushed, C) = Reports(pushed', D)
  BY SMTT(20), <1>1, <1>2, <1>3, <1>4, ReportsMoved
<1>6. QED
  BY <1>2, <1>5

LEMMA AnsweredAllStep == IInv /\ FromKinds /\ AnsweredAll /\ [Next]_vars => AnsweredAll'
<1> SUFFICES ASSUME IInv, FromKinds, AnsweredAll, [Next]_vars
             PROVE  AnsweredAll'
  OBVIOUS
<1> USE DEF clockVars, ringVars, recorderVars, queryVars
<1>1. CASE UNCHANGED <<pushed, query, report>>
  BY <1>1 DEF AnsweredAll
<1>2. CASE PushFrame
  <2>1. pending \in Frame /\ pushed \in Seq(Frame) /\ pushed' = Append(pushed, pending)
        /\ UNCHANGED <<query, report>>
    BY <1>2 DEF PushFrame, IInv, TypeOK
  <2>2. /\ Len(pushed) \in Nat
        /\ \A i \in 1 .. Len(pushed) : pushed'[i] = pushed[i]
    BY <2>1, AppendFacts
  <2>3. CASE query.state = "answered"
    <3>1. /\ query.upTo <= Len(pushed) /\ query.upTo \in Nat
          /\ query.counted \subseteq 1 .. query.upTo
      BY <2>3 DEF IInv, Answered, TypeOK, Query
    <3>2. query.counted \subseteq 1 .. Len(pushed)
      BY <2>2, <3>1
    <3>3. Reports(pushed, query.counted) = Reports(pushed', query.counted)
      BY <2>2, <3>2, GrownReport
    <3>4. \A i \in 1 .. query.upTo : pushed'[i].at = pushed[i].at
      BY <2>2, <3>1
    <3>5. {i \in 1 .. query.upTo : i > query.upTo - FrameCount /\ pushed'[i].at >= query.since}
            = {i \in 1 .. query.upTo : i > query.upTo - FrameCount /\ pushed[i].at >= query.since}
      BY <3>4
    <3>6. QED
      BY <2>1, <2>3, <3>3, <3>5 DEF AnsweredAll
  <2>4. CASE query.state # "answered"
    BY <2>1, <2>4 DEF AnsweredAll
  <2>5. QED
    BY <2>3, <2>4
<1>3. CASE AnswerSince
  <2> DEFINE e == Len(pushed) - Len(frames)
             n == Len(pushed)
  <2>1. /\ n \in Nat /\ Len(frames) \in Nat /\ e \in Nat
        /\ \A i \in 1 .. Len(frames) : frames[i] = pushed[e + i]
        /\ FrameCount \in Nat \ {0}
        /\ Len(frames) <= FrameCount /\ (Len(frames) < FrameCount => Len(frames) = n)
        /\ DOMAIN frames = 1 .. Len(frames)
    BY FrameCountType DEF IInv, RingInv, RingIsSuffix, TypeOK
  <2>2. /\ query.state = "asked" /\ query'.since = query.since /\ query'.upTo = n
        /\ query'.counted = {e + i : i \in Counted(frames, query.since)}
        /\ report' \in Reports(frames, Counted(frames, query.since))
        /\ pushed' = pushed
    BY <1>3 DEF AnswerSince, IInv, TypeOK, Query
  <2>3. report' \in Reports(pushed', query'.counted)
    BY <2>2, RingReport
  <2>4. ASSUME NEW i \in query'.counted
        PROVE  i \in 1 .. n /\ i > n - FrameCount /\ pushed[i].at >= query.since
    <3>1. PICK j \in Counted(frames, query.since) : i = e + j
      BY <2>2
    <3>2. j \in 1 .. Len(frames) /\ frames[j].at >= query.since
      BY <2>1 DEF Counted
    <3>3. QED
      BY <2>1, <3>1, <3>2
  <2>5. ASSUME NEW i \in 1 .. n, i > n - FrameCount, pushed[i].at >= query.since
        PROVE  i \in query'.counted
    <3>1. i - e \in 1 .. Len(frames) /\ e + (i - e) = i
      BY <2>1, <2>5
    <3>2. i - e \in Counted(frames, query.since)
      BY <2>1, <2>5, <3>1 DEF Counted
    <3>3. QED
      BY <2>2, <3>1, <3>2
  <2> HIDE DEF e, n
  <2>6. query'.counted = {i \in 1 .. n : i > n - FrameCount /\ pushed[i].at >= query.since}
    BY <2>4, <2>5
  <2>7. QED
    BY <2>2, <2>3, <2>6 DEF AnsweredAll, n
<1>4. ASSUME NEW secs \in Spans, Ask(secs)
      PROVE  AnsweredAll'
  <2>1. query'.state = "asked"
    BY <1>4 DEF Ask, Idle
  <2>2. QED
    BY <2>1 DEF AnsweredAll
<1>5. CASE AnswerNow
  <2>1. query'.state = "shown"
    BY <1>5 DEF AnswerNow, Idle
  <2>2. QED
    BY <2>1 DEF AnsweredAll
<1>6. CASE Reply
  <2>1. query'.state = "idle"
    BY <1>6 DEF Reply, Idle
  <2>2. QED
    BY <2>1 DEF AnsweredAll
<1>7. QED
  BY <1>1, <1>2, <1>3, <1>4, <1>5, <1>6 DEF Next, vars, Advance, StepClock, Stamp

LEMMA AnsweredAllAlways == Spec => [](IInv /\ FromKinds /\ AnsweredAll)
<1>1. Init => FromKinds /\ AnsweredAll
  <2> SUFFICES ASSUME Init PROVE FromKinds /\ AnsweredAll
    OBVIOUS
  <2>1. Len(pushed) = 0 /\ stage = "sampling" /\ query.state = "idle"
    BY DEF Init, Idle
  <2>2. QED
    BY <2>1 DEF FromKinds, AnsweredAll
<1>2. IInv /\ FromKinds /\ [Next]_vars => FromKinds'
  BY FromKindsStep DEF IInv
<1>3. QED
  BY <1>1, <1>2, AnsweredAllStep, Inductive, PTL DEF Spec

(* If no frame the ring has dropped is in the span asked for, SINCE gives  *)
(* what the whole history would have given: eviction by position and the   *)
(* filter by a clock that is stepped do not get into each other's way, and *)
(* no frame pushed between question and answer is half counted             *)
(* (ring.rs:81-108).                                                       *)
THEOREM AnswersAreComplete == Spec => []AnswerComplete
<1>1. IInv /\ FromKinds /\ AnsweredAll => AnswerComplete
  <2> SUFFICES ASSUME IInv, FromKinds, AnsweredAll, query.state = "answered",
                      ~ \E i \in 1 .. query.upTo - FrameCount : pushed[i].at >= query.since
               PROVE  report \in Reports(pushed, {i \in 1 .. query.upTo : pushed[i].at >= query.since})
    BY DEF AnswerComplete
  <2>1. query.upTo \in Nat /\ FrameCount \in Nat
    BY FrameCountType DEF IInv, TypeOK, Query
  <2>2. \A i \in 1 .. query.upTo : pushed[i].at >= query.since => i > query.upTo - FrameCount
    BY <2>1
  <2>3. query.counted = {i \in 1 .. query.upTo : pushed[i].at >= query.since}
    BY <2>2 DEF AnsweredAll
  <2>4. QED
    BY <2>3 DEF AnsweredAll
<1>2. QED
  BY <1>1, AnsweredAllAlways, PTL

-----------------------------------------------------------------------------
(* A tick that can hold a stall. *)
TickOf == [usec : Nat, window : Nat \ {0}]

LEMMA Cancel ==
    ASSUME NEW a \in Nat, NEW b \in Nat, NEW w \in Nat \ {0}, w * a <= w * b
    PROVE  a <= b
  OBVIOUS

LEMMA Scale ==
    ASSUME NEW a \in Nat, NEW b \in Nat, NEW w \in Nat, a <= b
    PROVE  w * a <= w * b
  OBVIOUS

LEMMA Regroup ==
    ASSUME NEW a \in Nat, NEW b \in Nat, NEW c \in Nat
    PROVE  /\ c * (a * b) = a * (b * c)
           /\ a * b = b * a
           /\ a * b \in Nat
  OBVIOUS

LEMMA RatioTransitive ==
    ASSUME NEW u1 \in Nat, NEW w1 \in Nat, NEW u2 \in Nat, NEW w2 \in Nat \ {0},
           NEW u3 \in Nat, NEW w3 \in Nat,
           u1 * w2 <= u2 * w1, u2 * w3 <= u3 * w2
    PROVE  u1 * w3 <= u3 * w1
<1>1. /\ u1 * w2 \in Nat /\ u2 * w1 \in Nat /\ u2 * w3 \in Nat /\ u3 * w2 \in Nat
      /\ u1 * w3 \in Nat /\ u3 * w1 \in Nat
  BY Regroup
<1>2. w3 * (u1 * w2) <= w3 * (u2 * w1)
  BY <1>1, Scale
<1>3. w1 * (u2 * w3) <= w1 * (u3 * w2)
  BY <1>1, Scale
<1>4. w3 * (u1 * w2) = w2 * (u1 * w3)
  BY Regroup
<1>5. w3 * (u2 * w1) = w1 * (u2 * w3)
  BY Regroup
<1>6. w1 * (u3 * w2) = w2 * (u3 * w1)
  BY Regroup
<1>7. w2 * (u1 * w3) <= w2 * (u3 * w1)
  <2>1. /\ w3 * (u1 * w2) \in Nat /\ w1 * (u2 * w3) \in Nat /\ w1 * (u3 * w2) \in Nat
    BY <1>1, Regroup
  <2>2. QED
    BY <1>2, <1>3, <1>4, <1>5, <1>6, <2>1
<1>8. QED
  BY <1>1, <1>7, Cancel

LEMMA NotHarder ==
    ASSUME NEW t \in [usec : Nat, window : Nat], NEW u \in TickOf, NEW v \in [usec : Nat, window : Nat],
           ~Harder(t, u), ~Harder(u, v)
    PROVE  ~Harder(t, v)
<1>1. /\ t.usec \in Nat /\ t.window \in Nat /\ u.usec \in Nat /\ u.window \in Nat \ {0}
      /\ v.usec \in Nat /\ v.window \in Nat
  BY DEF TickOf
<1>2. t.usec * u.window <= u.usec * t.window /\ u.usec * v.window <= v.usec * u.window
  BY <1>1, Regroup DEF Harder
<1>3. t.usec * v.window <= v.usec * t.window
  BY <1>1, <1>2, RatioTransitive
<1>4. t.usec * v.window \in Nat /\ v.usec * t.window \in Nat
  BY <1>1, Regroup
<1>5. QED
  BY <1>3, <1>4 DEF Harder

LEMMA HarderIsOrder ==
    ASSUME NEW t \in TickOf, NEW u \in TickOf
    PROVE  ~Harder(t, u) \/ ~Harder(u, t)
<1>1. t.usec * u.window \in Nat /\ u.usec * t.window \in Nat
  BY Regroup DEF TickOf
<1>2. QED
  BY <1>1 DEF Harder

(* To be worth reporting is not to be less hard than one percent. *)
OnePercent == [usec |-> 1, window |-> 100]

LEMMA ReportableIsHard ==
    ASSUME NEW t \in [usec : Nat, window : Nat]
    PROVE  Reportable(t) <=> ~Harder(OnePercent, t)
<1>1. t.usec \in Nat /\ t.window \in Nat
  OBVIOUS
<1>2. OnePercent.usec = 1 /\ OnePercent.window = 100
  BY DEF OnePercent
<1>3. QED
  BY <1>1, <1>2 DEF Harder, Reportable

LEMMA PeakFacts ==
    ASSUME NEW T \in SUBSET TickOf, IsFiniteSet(T), T # {}
    PROVE  Peak(T) \in T /\ \A u \in T : ~Harder(u, Peak(T))
<1> DEFINE Topped(v) == \E t \in v : \A u \in v : ~Harder(u, t)
           Z == {v \in SUBSET T : v # {} /\ ~Topped(v)}
<1>1. Topped(T)
  <2> SUFFICES ASSUME ~Topped(T) PROVE FALSE
    OBVIOUS
  <2>1. PICK v \in Z : /\ IsFiniteSet(v)
                       /\ \A w \in Z : IsFiniteSet(w) => Cardinality(v) <= Cardinality(w)
    <3>1. T \in Z
      OBVIOUS
    <3> HIDE DEF Z
    <3>2. QED
      BY <3>1, SmallestSet
  <2>2. v \in SUBSET T /\ v # {} /\ ~Topped(v)
    OBVIOUS
  <2>3. PICK p : p \in v
    BY <2>2
  <2> DEFINE w == v \ {p}
  <2>4. IsFiniteSet(w) /\ ~(Cardinality(v) <= Cardinality(w)) /\ w \in SUBSET T
    BY <2>1, <2>2, <2>3, SmallerSubset
  <2>5. p \in TickOf /\ ~Harder(p, p)
    <3>1. p \in TickOf
      BY <2>2, <2>3
    <3>2. QED
      BY <3>1, HarderIsOrder
  <2>6. w # {}
    <3>1. ASSUME w = {} PROVE FALSE
      <4>1. v = {p}
        BY <2>3, <3>1
      <4>2. QED
        BY <2>2, <2>5, <4>1
    <3>2. QED
      BY <3>1
  <2>7. Topped(w)
    BY <2>1, <2>4, <2>6
  <2>8. PICK t \in w : \A u \in w : ~Harder(u, t)
    BY <2>7
  <2>9. t \in TickOf /\ t \in v /\ \A u \in w : u \in TickOf
    BY <2>2, <2>8
  <2>10. CASE ~Harder(p, t)
    <3>1. \A u \in v : ~Harder(u, t)
      BY <2>8, <2>10
    <3>2. QED
      BY <2>2, <2>9, <3>1
  <2>11. CASE ~Harder(t, p)
    <3>1. \A x \in TickOf : x \in [usec : Nat, window : Nat]
      BY DEF TickOf
    <3>2. \A u \in w : ~Harder(u, p)
      BY <2>5, <2>8, <2>9, <2>11, <3>1, NotHarder
    <3>3. \A u \in v : ~Harder(u, p)
      BY <2>5, <3>2
    <3>4. QED
      BY <2>2, <2>3, <3>3
  <2>12. QED
    BY <2>5, <2>9, <2>10, <2>11, HarderIsOrder
<1>2. QED
  BY <1>1 DEF Peak

(* The ticks of what stalled in a counted frame. *)
LEMMA TicksFacts ==
    ASSUME FromKinds, Len(pushed) \in Nat, NEW C, C \subseteq 1 .. Len(pushed),
           NEW i \in C, NEW k \in DOMAIN pushed[i].stalls
    PROVE  /\ [usec |-> pushed[i].stalls[k], window |-> pushed[i].window] \in Ticks(pushed, C, k)
           /\ Ticks(pushed, C, k) \in SUBSET TickOf
           /\ IsFiniteSet(Ticks(pushed, C, k))
<1> DEFINE I == {j \in C : k \in DOMAIN pushed[j].stalls}
           tick == [j \in I |-> [usec |-> pushed[j].stalls[k], window |-> pushed[j].window]]
<1>1. IsFiniteSet(I)
  <2>1. I \subseteq 1 .. Len(pushed)
    OBVIOUS
  <2>2. QED
    BY <2>1, FiniteIndices
<1>2. Ticks(pushed, C, k) = {tick[j] : j \in I}
  BY DEF Ticks
<1>3. IsFiniteSet({tick[j] : j \in I})
  <2> HIDE DEF I, tick
  <2>1. QED
    BY <1>1, FiniteImage
<1>4. ASSUME NEW j \in I
      PROVE  [usec |-> pushed[j].stalls[k], window |-> pushed[j].window] \in TickOf
  <2>1. j \in 1 .. Len(pushed) /\ k \in DOMAIN pushed[j].stalls
    OBVIOUS
  <2>2. /\ pushed[j].window \in Nat
        /\ pushed[j].stalls[k] \in Nat
        /\ pushed[j].window = 0 => DOMAIN pushed[j].stalls = {}
    BY <2>1, FrameData
  <2>3. pushed[j].window # 0
    BY <2>1, <2>2
  <2>4. QED
    BY <2>2, <2>3 DEF TickOf
<1>5. i \in I
  OBVIOUS
<1>6. QED
  BY <1>2, <1>3, <1>4, <1>5

LEMMA LinesFinite ==
    ASSUME FromKinds, Len(pushed) \in Nat, NEW C, C \subseteq 1 .. Len(pushed)
    PROVE  IsFiniteSet(Lines(pushed, C))
<1> DEFINE dom == [i \in C |-> DOMAIN pushed[i].stalls]
           D == {dom[i] : i \in C}
           K == UNION D
           line == [k \in K |-> [key |-> k, usec |-> Usec(pushed, C, k),
                                 peak |-> Peak(Ticks(pushed, C, k))]]
<1>1. IsFiniteSet(C)
  BY FiniteIndices
<1>2. IsFiniteSet(D)
  <2> HIDE DEF dom
  <2>1. QED
    BY <1>1, FiniteImage
<1>3. \A d \in D : IsFiniteSet(d)
  <2>1. \A i \in C : IsFiniteSet(DOMAIN pushed[i].stalls)
    BY FrameData
  <2>2. QED
    BY <2>1
<1>4. IsFiniteSet(K)
  <2> HIDE DEF D
  <2>1. QED
    BY <1>2, <1>3, FS_UNION
<1>5. Lines(pushed, C) = {line[k] : k \in K}
  <2>1. K = UNION {DOMAIN pushed[i].stalls : i \in C}
    OBVIOUS
  <2> HIDE DEF K
  <2>2. QED
    BY <2>1 DEF Lines
<1> HIDE DEF K, line
<1>6. QED
  BY <1>4, <1>5, FiniteImage

(* The average of a line is never above its peak. *)
LEMMA AverageBelowPeak ==
    ASSUME FromKinds, Len(pushed) \in Nat, NEW C, C \subseteq 1 .. Len(pushed),
           NEW k, Ticks(pushed, C, k) \in SUBSET TickOf,
           Peak(Ticks(pushed, C, k)) \in Ticks(pushed, C, k),
           \A t \in Ticks(pushed, C, k) : ~Harder(t, Peak(Ticks(pushed, C, k)))
    PROVE  LET p == Peak(Ticks(pushed, C, k))
           IN  ~Harder([usec |-> Usec(pushed, C, k), window |-> Total(pushed, C)], p)
<1> DEFINE p == Peak(Ticks(pushed, C, k))
           f == [i \in C |-> IF k \in DOMAIN pushed[i].stalls THEN pushed[i].stalls[k] ELSE 0]
           g == [i \in C |-> pushed[i].window]
<1>1. IsFiniteSet(C)
  BY FiniteIndices
<1>2. DOMAIN f = C /\ DOMAIN g = C
  OBVIOUS
<1>3. Usec(pushed, C, k) = SumFunctionOnSet(f, C) /\ Total(pushed, C) = SumFunctionOnSet(g, C)
  BY <1>2 DEF Usec, Total, SumFunction
<1>4. p.usec \in Nat /\ p.window \in Nat
  BY DEF TickOf
<1>5. ASSUME NEW i \in C
      PROVE  f[i] \in Nat /\ g[i] \in Nat /\ f[i] * p.window <= p.usec * g[i]
  <2>1. /\ pushed[i].window \in Nat
        /\ \A s \in DOMAIN pushed[i].stalls : pushed[i].stalls[s] \in Nat
    BY FrameData
  <2>2. CASE k \in DOMAIN pushed[i].stalls
    <3>1. f[i] = pushed[i].stalls[k] /\ g[i] = pushed[i].window
      BY <2>2
    <3>2. [usec |-> f[i], window |-> g[i]] \in Ticks(pushed, C, k)
      BY <2>2, <3>1 DEF Ticks
    <3> HIDE DEF f, g, p
    <3>3. ~Harder([usec |-> f[i], window |-> g[i]], p)
      BY <3>2 DEF p
    <3>4. f[i] \in Nat /\ g[i] \in Nat
      BY <2>1, <2>2, <3>1
    <3>5. f[i] * p.window \in Nat /\ p.usec * g[i] \in Nat
      BY <1>4, <3>4, Regroup
    <3>6. QED
      BY <3>3, <3>4, <3>5 DEF Harder
  <2>3. CASE k \notin DOMAIN pushed[i].stalls
    <3>1. f[i] = 0 /\ g[i] = pushed[i].window
      BY <2>3
    <3> HIDE DEF f, g, p
    <3>2. f[i] * p.window = 0 /\ p.usec * g[i] \in Nat
      BY <1>4, <2>1, <3>1, Regroup
    <3>3. QED
      BY <2>1, <3>1, <3>2
  <2>4. QED
    BY <2>2, <2>3
<1> HIDE DEF f, g, p
<1>6. SumFunctionOnSet(f, C) * p.window <= p.usec * SumFunctionOnSet(g, C)
  BY <1>1, <1>4, <1>5, SumRatio
<1>7. SumFunctionOnSet(f, C) \in Nat /\ SumFunctionOnSet(g, C) \in Nat
  BY <1>1, <1>5, SumNat
<1>8. /\ SumFunctionOnSet(f, C) * p.window \in Nat
      /\ p.usec * SumFunctionOnSet(g, C) \in Nat
  BY <1>4, <1>7, Regroup
<1>9. ~Harder([usec |-> Usec(pushed, C, k), window |-> Total(pushed, C)], p)
  BY <1>3, <1>6, <1>8 DEF Harder
<1>10. QED
  BY <1>9 DEF p

(* A ranking of lines some of which there are starts with a hardest one.   *)
LEMMA RankingFacts ==
    ASSUME NEW L, IsFiniteSet(L), NEW o \in Rankings(L)
    PROVE  /\ \A r \in DOMAIN o : o[r] \in L
           /\ L # {} => /\ o # <<>>
                        /\ o[1] \in L
                        /\ \A l \in L : ~Harder(l.peak, o[1].peak)
<1> DEFINE n == IF Cardinality(L) < MaxStalls THEN Cardinality(L) ELSE MaxStalls
<1>1. /\ o \in [1 .. n -> L]
      /\ \A r \in 1 .. n : \A l \in L :
           Harder(l.peak, o[r].peak) => \E q \in 1 .. r - 1 : o[q] = l
  BY DEF Rankings
<1>2. Cardinality(L) \in Nat /\ (L # {} => Cardinality(L) # 0)
  BY FS_CardinalityType, FS_EmptySet
<1>3. n \in Nat /\ (L # {} => 1 \in 1 .. n)
  BY <1>2, KindsAssumption
<1> HIDE DEF n
<1>4. ASSUME L # {}
      PROVE  /\ o # <<>>
             /\ o[1] \in L
             /\ \A l \in L : ~Harder(l.peak, o[1].peak)
  <2>1. 1 \in DOMAIN o
    BY <1>1, <1>3, <1>4
  <2>2. o # <<>>
    BY <2>1
  <2>3. 1 .. 1 - 1 = {}
    OBVIOUS
  <2>4. \A l \in L : ~Harder(l.peak, o[1].peak)
    BY <1>1, <1>3, <1>4, <2>3
  <2>5. QED
    BY <1>1, <1>3, <1>4, <2>2, <2>4
<1>5. QED
  BY <1>1, <1>4

LEMMA LinePeaks ==
    ASSUME FromKinds, Len(pushed) \in Nat, NEW C, C \subseteq 1 .. Len(pushed),
           NEW l \in Lines(pushed, C)
    PROVE  /\ l.peak \in TickOf
           /\ l.peak = Peak(Ticks(pushed, C, l.key))
           /\ \A t \in Ticks(pushed, C, l.key) : ~Harder(t, l.peak)
           /\ ~Harder([usec |-> l.usec, window |-> Total(pushed, C)], l.peak)
<1>1. PICK k \in UNION {DOMAIN pushed[i].stalls : i \in C} :
        l = [key |-> k, usec |-> Usec(pushed, C, k), peak |-> Peak(Ticks(pushed, C, k))]
  BY DEF Lines
<1>2. PICK i \in C : k \in DOMAIN pushed[i].stalls
  OBVIOUS
<1>3. /\ Ticks(pushed, C, k) \in SUBSET TickOf
      /\ IsFiniteSet(Ticks(pushed, C, k))
      /\ Ticks(pushed, C, k) # {}
  BY <1>2, TicksFacts
<1>4. /\ Peak(Ticks(pushed, C, k)) \in Ticks(pushed, C, k)
      /\ \A t \in Ticks(pushed, C, k) : ~Harder(t, Peak(Ticks(pushed, C, k)))
  BY <1>3, PeakFacts
<1>5. ~Harder([usec |-> Usec(pushed, C, k), window |-> Total(pushed, C)],
              Peak(Ticks(pushed, C, k)))
  BY <1>3, <1>4, AverageBelowPeak
<1>6. l.key = k /\ l.usec = Usec(pushed, C, k) /\ l.peak = Peak(Ticks(pushed, C, k))
  BY <1>1
<1>7. QED
  BY <1>3, <1>4, <1>5, <1>6

(* "What froze the machine hardest" comes first (ring.rs:117): ranking and *)
(* filtering by the hardest tick of a line, after summing, never puts a    *)
(* line before one with a harder tick nor drops the only one worth a       *)
(* report, and a line's average never exceeds its peak.                    *)
THEOREM TheHardestComesFirst == Spec => []HardestFirst
<1>1. IInv /\ FromKinds /\ AnsweredAll => HardestFirst
  <2> SUFFICES ASSUME IInv, FromKinds, AnsweredAll, query.state = "answered"
               PROVE  HardestFirst
    BY DEF HardestFirst
  <2> DEFINE C == query.counted
             L == {l \in Lines(pushed, C) : Reportable(l.peak)}
  <2>1. Len(pushed) \in Nat /\ C \subseteq 1 .. Len(pushed)
    <3>1. /\ query.upTo <= Len(pushed) /\ query.upTo \in Nat /\ Len(pushed) \in Nat
          /\ query.counted \subseteq 1 .. query.upTo
      BY DEF IInv, Answered, TypeOK, Query
    <3>2. QED
      BY <3>1
  <2>2. report \in Reports(pushed, C)
    BY DEF AnsweredAll
  <2>3. IsFiniteSet(L)
    BY <2>1, LinesFinite, FS_Subset
  <2> HIDE DEF C
  <2>4. ASSUME NEW i \in C, NEW k \in DOMAIN pushed[i].stalls,
               Reportable([usec |-> pushed[i].stalls[k], window |-> pushed[i].window])
        PROVE  /\ report.stalls # <<>>
               /\ ~Harder([usec |-> pushed[i].stalls[k], window |-> pushed[i].window],
                          report.stalls[1].peak)
    <3> DEFINE tick == [usec |-> pushed[i].stalls[k], window |-> pushed[i].window]
               l == [key |-> k, usec |-> Usec(pushed, C, k), peak |-> Peak(Ticks(pushed, C, k))]
    <3>1. tick \in Ticks(pushed, C, k) /\ tick \in TickOf
      BY <2>1, TicksFacts
    <3>2. l \in Lines(pushed, C)
      BY DEF Lines
    <3>3. l.key = k
      OBVIOUS
    <3> HIDE DEF l
    <3>4. l.peak \in TickOf /\ ~Harder(tick, l.peak)
      BY <2>1, <3>1, <3>2, <3>3, LinePeaks
    <3>5. Reportable(l.peak)
      <4>1. OnePercent \in [usec : Nat, window : Nat]
        BY DEF OnePercent
      <4>2. \A x \in TickOf : x \in [usec : Nat, window : Nat]
        BY DEF TickOf
      <4>3. ~Harder(OnePercent, tick)
        BY <2>4, <3>1, <4>2, ReportableIsHard
      <4> HIDE DEF tick
      <4>4. ~Harder(OnePercent, l.peak)
        BY <3>1, <3>4, <4>1, <4>2, <4>3, NotHarder
      <4>5. QED
        BY <3>4, <4>2, <4>4, ReportableIsHard
    <3>6. l \in L
      BY <3>2, <3>5
    <3>7. Total(pushed, C) # 0
      <4> DEFINE g == [j \in C |-> pushed[j].window]
      <4>1. IsFiniteSet(C) /\ \A j \in C : g[j] \in Nat
        BY <2>1, FiniteIndices, FrameData
      <4>2. Total(pushed, C) = SumFunctionOnSet(g, C)
        BY DEF Total, SumFunction
      <4>3. g[i] = tick.window
        OBVIOUS
      <4>4. g[i] \in Nat \ {0}
        BY <3>1, <4>3 DEF TickOf
      <4> HIDE DEF g
      <4>5. g[i] <= SumFunctionOnSet(g, C)
        BY <4>1, SumPart
      <4>6. SumFunctionOnSet(g, C) \in Nat
        BY <4>1, SumNat
      <4>7. QED
        BY <4>2, <4>4, <4>5, <4>6
    <3>8. PICK o \in Rankings(L) : report = [window |-> Total(pushed, C), stalls |-> o]
      BY <2>2, <3>7 DEF Reports
    <3> HIDE DEF L, tick
    <3>9. o # <<>> /\ o[1] \in L /\ ~Harder(l.peak, o[1].peak)
      BY <2>3, <3>6, <3>8, RankingFacts
    <3>10. o[1].peak \in TickOf
      BY <2>1, <3>9, LinePeaks DEF L
    <3>11. ~Harder(tick, o[1].peak)
      <4>1. \A x \in TickOf : x \in [usec : Nat, window : Nat]
        BY DEF TickOf
      <4>2. QED
        BY <3>1, <3>4, <3>9, <3>10, <4>1, NotHarder
    <3>12. report.stalls = o
      BY <3>8
    <3>13. QED
      BY <3>9, <3>11, <3>12 DEF tick
  <2>5. ASSUME NEW r \in DOMAIN report.stalls
        PROVE  ~Harder([usec |-> report.stalls[r].usec, window |-> report.window],
                       report.stalls[r].peak)
    <3>1. Total(pushed, C) # 0
      <4>1. ASSUME Total(pushed, C) = 0 PROVE FALSE
        <5>1. report = Nothing
          BY <2>2, <4>1 DEF Reports
        <5>2. report.stalls = <<>>
          BY <5>1 DEF Nothing
        <5>3. QED
          BY <5>2
      <4>2. QED
        BY <4>1
    <3>2. PICK o \in Rankings(L) : report = [window |-> Total(pushed, C), stalls |-> o]
      BY <2>2, <3>1 DEF Reports
    <3>3. report.stalls = o /\ report.window = Total(pushed, C)
      BY <3>2
    <3> HIDE DEF L
    <3>4. o[r] \in L
      BY <2>3, <3>2, <3>3, RankingFacts
    <3>5. ~Harder([usec |-> o[r].usec, window |-> Total(pushed, C)], o[r].peak)
      BY <2>1, <3>4, LinePeaks DEF L
    <3>6. QED
      BY <3>3, <3>5
  <2>6. QED
    BY <2>4, <2>5 DEF HardestFirst, C
<1>2. QED
  BY <1>1, AnsweredAllAlways, PTL
=============================================================================
