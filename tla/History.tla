------------------------------ MODULE History -------------------------------
(***************************************************************************)
(* What the daemon remembers and what it answers: the recorder pushes      *)
(* frames stamped with the wall clock into a ring sized in frames, while   *)
(* query threads ask for the newest frame (NOW) or for the last `secs`     *)
(* seconds (SINCE, Varlink's GetHistory).  A question reads the clock      *)
(* first and takes the ring's lock later; the wall clock may be stepped    *)
(* either way at any moment.                                               *)
(*                                                                         *)
(* Time is counted in units of which `Second` make a second.  `now` never  *)
(* goes back; the wall clock is `now + offset`.  A frame also carries, for *)
(* the properties, when it was stamped and under which offset.             *)
(***************************************************************************)
EXTENDS Integers, Sequences, FiniteSets, Functions

CONSTANTS HistorySecs,  \* --history
          Tick,         \* --tick
          Gap,          \* least time from a push to the next stamp: the polling
                        \*   interval, or the two sweeps of an event capture
          Second,       \* units of time in a second
          Kinds,        \* what a frame can hold: [window, stalls] records,
                        \*   stalls a function from the stalled to their usec
          MaxStalls,    \* MAX_STALLS
          Spans,        \* the seconds a client asks for
          Offsets,      \* bound: what the wall clock can be off by
          MaxNow        \* bound: how long the model runs

(* What frames and query threads agree on. *)
ASSUME HistoryAssumption ==
    /\ HistorySecs \in Nat
    /\ Tick \in Nat \ {0}
    /\ Gap \in Nat
    /\ Second \in Nat \ {0}
    /\ Spans \subseteq Nat
    /\ Offsets \subseteq Int
    /\ 0 \in Offsets

(* A collection without elapsed time returns no stalls. *)
ASSUME KindsAssumption ==
    /\ MaxStalls \in Nat \ {0}
    /\ \A k \in Kinds :
         /\ k.window \in Nat
         /\ IsFiniteSet(DOMAIN k.stalls)
         /\ \A s \in DOMAIN k.stalls : k.stalls[s] \in Nat
         /\ k.window = 0 => DOMAIN k.stalls = {}

(* Mutant: one slot is never used. *)
FrameCountLessOne ==
    LET n == (HistorySecs * Second) \div Tick IN IF n <= 1 THEN 1 ELSE n - 1

(* One frame per tick, so capacity is history divided by tick length. *)
FrameCount ==
    LET n == (HistorySecs * Second) \div Tick IN IF n = 0 THEN 1 ELSE n

RingOf == INSTANCE Ring WITH Capacity <- FrameCount

VARIABLES now,      \* time since the model began
          offset,   \* wall clock minus `now`
          frames,   \* Ring::frames
          pushed,   \* every frame pushed so far
          stage,    \* the recorder: "sampling" or "stamped"
          began,    \* since when it has been sampling
          pending,  \* the frame it has stamped and is about to push
          query,    \* a query thread
          report    \* what that thread has answered

clockVars == <<now, offset>>
ringVars == <<frames, pushed>>
recorderVars == <<stage, began, pending>>
queryVars == <<query, report>>
vars == <<clockVars, ringVars, recorderVars, queryVars>>

(* now_unix(): whole seconds, 0 before the epoch. *)
WallAt(time, off) == IF time + off < 0 THEN 0 ELSE (time + off) \div Second
Wall == WallAt(now, offset)

-----------------------------------------------------------------------------
(* Ring::aggregate. *)

(* Tick t was more stalled than tick u. *)
Harder(t, u) == t.usec * u.window > u.usec * t.window

(* MIN_REPORTABLE_PCT is 1 percent. *)
Reportable(t) == t.usec * 100 >= t.window

(* Mutant: walks back from the newest frame and stops at the first older one. *)
CountedFromNewest(fs, since) ==
    {i \in DOMAIN fs : \A j \in i .. Len(fs) : fs[j].at >= since}

(* Mutant: strictly after the time asked for. *)
CountedAfter(fs, since) == {i \in DOMAIN fs : fs[i].at > since}

Counted(fs, since) == {i \in DOMAIN fs : fs[i].at >= since}

(* The ticks of the counted frames in which k stalled. *)
Ticks(fs, C, k) ==
    {[usec |-> fs[i].stalls[k], window |-> fs[i].window] :
        i \in {j \in C : k \in DOMAIN fs[j].stalls}}

Peak(ticks) == CHOOSE t \in ticks : \A u \in ticks : ~Harder(u, t)

Usec(fs, C, k) ==
    SumFunction([i \in C |-> IF k \in DOMAIN fs[i].stalls THEN fs[i].stalls[k] ELSE 0])

(* The time the counted frames were sampled for. *)
Total(fs, C) == SumFunction([i \in C |-> fs[i].window])

(* What stalled in the counted frames, with its sum and its hardest tick. *)
Lines(fs, C) ==
    {[key |-> k, usec |-> Usec(fs, C, k), peak |-> Peak(Ticks(fs, C, k))] :
        k \in UNION {DOMAIN fs[i].stalls : i \in C}}

Nothing == [window |-> 0, stalls |-> <<>>]

(* Mutant: stalls ranked by what they add up to. *)
RankingsByTotal(lines) ==
    LET n == IF Cardinality(lines) < MaxStalls THEN Cardinality(lines) ELSE MaxStalls
        Listed(o) == {o[r] : r \in 1 .. n}
    IN  {o \in [1 .. n -> lines] :
           /\ Cardinality(Listed(o)) = n
           /\ \A r \in 1 .. n : \A l \in lines :
                l.usec > o[r].usec => \E q \in 1 .. r - 1 : o[q] = l}

(* The hardest peaks first, no more than MaxStalls of them; equal peaks in *)
(* any order, because they come out of a hash map.                         *)
Rankings(lines) ==
    LET n == IF Cardinality(lines) < MaxStalls THEN Cardinality(lines) ELSE MaxStalls
        Listed(o) == {o[r] : r \in 1 .. n}
    IN  {o \in [1 .. n -> lines] :
           /\ Cardinality(Listed(o)) = n
           /\ \A r \in 1 .. n : \A l \in lines :
                Harder(l.peak, o[r].peak) => \E q \in 1 .. r - 1 : o[q] = l}

(* The reports aggregate may return when it counts the frames C of fs. *)
Reports(fs, C) ==
    IF Total(fs, C) = 0
    THEN {Nothing}
    ELSE {[window |-> Total(fs, C), stalls |-> o] :
            o \in Rankings({l \in Lines(fs, C) : Reportable(l.peak)})}

-----------------------------------------------------------------------------
NoFrame == [at |-> 0, born |-> 0, under |-> 0, window |-> 0, stalls |-> <<>>]

Idle == [state |-> "idle", secs |-> 0, since |-> 0, asked |-> 0, under |-> 0,
         answered |-> 0, upTo |-> 0, counted |-> {}]

Init ==
    /\ now = 0
    /\ offset = 0
    /\ frames = <<>>
    /\ pushed = <<>>
    /\ stage = "sampling"
    /\ began = 0
    /\ pending = NoFrame
    /\ query = Idle
    /\ report = Nothing

Advance ==
    /\ now < MaxNow
    /\ now' = now + 1
    /\ UNCHANGED <<offset, ringVars, recorderVars, queryVars>>

(* The wall clock is set: NTP, a resume, an administrator. *)
StepClock ==
    /\ offset' \in Offsets \ {offset}
    /\ UNCHANGED <<now, ringVars, recorderVars, queryVars>>

(* Mutant: the recorder does not wait out its interval. *)
StampAtOnce ==
    /\ stage = "sampling"
    /\ \E k \in Kinds :
         pending' = [at |-> Wall, born |-> now, under |-> offset,
                     window |-> k.window, stalls |-> k.stalls]
    /\ stage' = "stamped"
    /\ UNCHANGED <<clockVars, ringVars, began, queryVars>>

(* The sweeps end: the incident, or the polled frame, gets its at_unix. *)
Stamp ==
    /\ stage = "sampling"
    /\ now >= began + Gap
    /\ \E k \in Kinds :
         pending' = [at |-> Wall, born |-> now, under |-> offset,
                     window |-> k.window, stalls |-> k.stalls]
    /\ stage' = "stamped"
    /\ UNCHANGED <<clockVars, ringVars, began, queryVars>>

(* Records, rules and the notice are done with and the ring is locked. *)
PushFrame ==
    /\ stage = "stamped"
    /\ frames' = RingOf!PushTo(frames, pending)
    /\ pushed' = Append(pushed, pending)
    /\ stage' = "sampling"
    /\ began' = now
    /\ pending' = NoFrame
    /\ UNCHANGED <<clockVars, queryVars>>

(* Mutant: one second more, to be safe. *)
AskOneMore(secs) ==
    /\ query.state = "idle"
    /\ query' = [Idle EXCEPT !.state = "asked",
                             !.secs = secs,
                             !.since = IF Wall < secs + 1 THEN 0 ELSE Wall - secs - 1,
                             !.asked = now,
                             !.under = offset]
    /\ UNCHANGED <<clockVars, ringVars, recorderVars, report>>

(* SINCE secs is parsed and turned into a time on the wall clock. *)
Ask(secs) ==
    /\ query.state = "idle"
    /\ query' = [Idle EXCEPT !.state = "asked",
                             !.secs = secs,
                             !.since = IF Wall < secs THEN 0 ELSE Wall - secs,
                             !.asked = now,
                             !.under = offset]
    /\ UNCHANGED <<clockVars, ringVars, recorderVars, report>>

(* The ring is locked and aggregated. *)
AnswerSince ==
    /\ query.state = "asked"
    /\ LET evicted == Len(pushed) - Len(frames)
       IN  query' = [query EXCEPT
                       !.state = "answered",
                       !.answered = now,
                       !.upTo = Len(pushed),
                       !.counted = {evicted + i : i \in Counted(frames, query.since)}]
    /\ report' \in Reports(frames, Counted(frames, query.since))
    /\ UNCHANGED <<clockVars, ringVars, recorderVars>>

(* NOW: the newest frame as it is. *)
AnswerNow ==
    /\ query.state = "idle"
    /\ query' = [Idle EXCEPT !.state = "shown", !.answered = now, !.upTo = Len(pushed)]
    /\ report' = IF frames = <<>> THEN Nothing
                 ELSE [window |-> frames[Len(frames)].window,
                       stalls |-> frames[Len(frames)].stalls]
    /\ UNCHANGED <<clockVars, ringVars, recorderVars>>

Reply ==
    /\ query.state \in {"answered", "shown"}
    /\ query' = Idle
    /\ report' = Nothing
    /\ UNCHANGED <<clockVars, ringVars, recorderVars>>

Next ==
    \/ Advance \/ StepClock
    \/ Stamp \/ PushFrame
    \/ \E secs \in Spans : Ask(secs)
    \/ AnswerSince \/ AnswerNow \/ Reply

Spec == Init /\ [][Next]_vars

-----------------------------------------------------------------------------
(* Properties. *)

Frame == [at : Nat, born : Nat, under : Offsets, window : Nat,
          stalls : {k.stalls : k \in Kinds}]

Query == [state : {"idle", "asked", "answered", "shown"}, secs : Nat,
          since : Nat, asked : Nat, under : Offsets, answered : Nat,
          upTo : Nat, counted : SUBSET Int]

(* The variables keep their shapes, and the ring is never longer than the  *)
(* capacity computed in main (stallwatchd.rs:359).                         *)
TypeOK ==
    /\ now \in Nat
    /\ offset \in Offsets
    /\ frames \in Seq(Frame)
    /\ Len(frames) <= FrameCount
    /\ pushed \in Seq(Frame)
    /\ stage \in {"sampling", "stamped"}
    /\ began \in Nat
    /\ pending \in Frame \cup {NoFrame}
    /\ stage = "stamped" => pending \in Frame
    /\ query \in Query

(* The push at position i is still in the ring. *)
Held(i) == i > Len(pushed) - Len(frames)

(* What is in the ring is the newest part of what was pushed, in order. *)
RingIsSuffix ==
    /\ Len(frames) <= Len(pushed)
    /\ \A i \in 1 .. Len(frames) :
         frames[i] = pushed[Len(pushed) - Len(frames) + i]

(* A ring sized in frames keeps every frame for as long as that many       *)
(* frames take at the fastest, however late they are pushed and whatever   *)
(* the wall clock does.                                                    *)
Retention ==
    \A i \in 1 .. Len(pushed) :
        now < pushed[i].born + FrameCount * Gap => Held(i)

(* A frame stays for as long as --history asks, but for what is left over   *)
(* of it after whole ticks, which is less than one, and in proportion to   *)
(* how fast frames come: a daemon that polls makes one every tick at the   *)
(* most (Gap >= Tick) and keeps that time in full; one that is woken by    *)
(* events can be faster than --tick, and then keeps Gap / Tick of it       *)
(* (stallwatchd.rs:359).  Line 47 calls --history "how much history to     *)
(* retain", which is so of a daemon that polls, if the tick divides it.    *)
HistoryKept ==
    \A i \in 1 .. Len(pushed) :
        (now - pushed[i].born) * Tick < (HistorySecs * Second - (Tick - 1)) * Gap
            => Held(i)

(* SINCE secs leaves out no frame of the last secs seconds that the ring   *)
(* must still hold, unless the wall clock was stepped forward between that *)
(* frame and the question: not for the rounding to whole seconds, nor for  *)
(* the frames pushed between the question and the answer.                  *)
RecentCounted ==
    query.state = "answered" =>
        \A i \in 1 .. query.upTo :
            /\ pushed[i].under >= query.under
            /\ pushed[i].born + query.secs * Second >= query.asked
            /\ query.answered < pushed[i].born + FrameCount * Gap
            => i \in query.counted

(* SINCE secs counts no frame a whole second older than it was asked for,  *)
(* unless the wall clock was stepped back in between or the span asked for *)
(* reaches back to the epoch, where time stamps stick.                     *)
OldNotCounted ==
    query.state = "answered" =>
        \A i \in query.counted :
            /\ pushed[i].under <= query.under
            /\ query.since > 0
            => pushed[i].born + (query.secs + 1) * Second > query.asked

(* If no frame the ring has dropped is in the span asked for, the answer   *)
(* is what the whole history would have given, out of order stamps or not. *)
AnswerComplete ==
    query.state = "answered" =>
        \/ \E i \in 1 .. query.upTo - FrameCount : pushed[i].at >= query.since
        \/ report \in Reports(pushed, {i \in 1 .. query.upTo : pushed[i].at >= query.since})

(* "What froze the machine hardest" comes first: no single tick of a frame *)
(* in the span, of any unit, was harder than the peak of the first stall   *)
(* reported; and summing over frames never makes an average exceed a peak. *)
HardestFirst ==
    query.state = "answered" =>
        /\ \A i \in query.counted : \A k \in DOMAIN pushed[i].stalls :
             LET tick == [usec |-> pushed[i].stalls[k], window |-> pushed[i].window]
             IN  Reportable(tick) =>
                   /\ report.stalls # <<>>
                   /\ ~Harder(tick, report.stalls[1].peak)
        /\ \A r \in DOMAIN report.stalls :
             LET line == report.stalls[r]
             IN  ~Harder([usec |-> line.usec, window |-> report.window], line.peak)

(* The inductive invariant behind Retention, RecentCounted and OldNotCounted: *)
(* frames are Gap apart, each stamped with the wall clock of its moment, and  *)
(* a question carries the wall clock of its own.                              *)
Paced ==
    /\ began <= now
    /\ \A i \in 1 .. Len(pushed) :
         pushed[i].born + (Len(pushed) - i) * Gap <= began
    /\ stage = "stamped" => began + Gap <= pending.born /\ pending.born <= now

Stamped ==
    /\ \A i \in 1 .. Len(pushed) : pushed[i].at = WallAt(pushed[i].born, pushed[i].under)
    /\ stage = "stamped" => pending.at = WallAt(pending.born, pending.under)

Asked ==
    query.state \in {"asked", "answered"} =>
        LET wall == WallAt(query.asked, query.under)
        IN  query.since = IF wall < query.secs THEN 0 ELSE wall - query.secs

Answered ==
    query.state = "answered" =>
        /\ query.upTo <= Len(pushed)
        /\ query.counted \subseteq 1 .. query.upTo

RingInv ==
    /\ RingIsSuffix
    /\ Len(frames) < FrameCount => Len(frames) = Len(pushed)

IInv ==
    /\ TypeOK /\ RingInv /\ Paced /\ Stamped /\ Asked /\ Answered
    /\ RecentCounted /\ OldNotCounted
=============================================================================
