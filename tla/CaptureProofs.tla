---------------------------- MODULE CaptureProofs ----------------------------
(***************************************************************************)
(* Proofs about the capture pipeline, for every set of resources and rules *)
(* and every bound.  The inductive invariant IInv is stated in Capture.    *)
(***************************************************************************)
EXTENDS Capture, SequenceTheorems, TLAPS

(* What Append and Tail do to a queue of wakes. *)
LEMMA QueueFacts ==
    ASSUME NEW S, NEW q \in Seq(S)
    PROVE  /\ Len(q) \in Nat
           /\ \A i \in 1 .. Len(q) : q[i] \in S
           /\ \A e \in S :
                /\ Append(q, e) \in Seq(S)
                /\ Len(Append(q, e)) = Len(q) + 1
                /\ Append(q, e)[Len(q) + 1] = e
                /\ \A i \in 1 .. Len(q) : Append(q, e)[i] = q[i]
           /\ q # <<>> =>
                /\ Len(q) >= 1
                /\ Head(q) = q[1]
                /\ Head(q) \in S
                /\ Tail(q) \in Seq(S)
                /\ Len(Tail(q)) = Len(q) - 1
                /\ \A i \in 1 .. Len(q) - 1 : Tail(q)[i] = q[i + 1]
  OBVIOUS

LEMMA PushType ==
    ASSUME NEW frames \in Seq(Nat), NEW frame \in Nat
    PROVE  PushTo(frames, frame) \in Seq(Nat)
<1>1. frames # <<>> => Tail(frames) \in Seq(Nat)
  OBVIOUS
<1>2. Len(frames) = Capacity => frames # <<>>
  BY RingAssumption
<1>3. QED
  BY <1>1, <1>2 DEF PushTo

LEMMA TypeStep == TypeOK /\ [Next]_vars => TypeOK'
<1> SUFFICES ASSUME TypeOK, [Next]_vars
             PROVE  TypeOK'
  OBVIOUS
<1> USE DEF TypeOK, None, kernelVars, watcherVars, captureVars, sinkVars
<1>1. CASE StartTriggers
  BY <1>1 DEF StartTriggers
<1>2. CASE StartPolling
  BY <1>2 DEF StartPolling
<1>3. ASSUME NEW r \in Resources, Notify(r)
      PROVE  TypeOK'
  BY SMTT(20), <1>3 DEF Notify
<1>4. ASSUME NEW r \in Resources, WaitFails(r)
      PROVE  TypeOK'
  BY <1>4 DEF WaitFails
<1>5. ASSUME NEW r \in Resources, WaitStalled(r)
      PROVE  TypeOK'
  BY <1>5 DEF WaitStalled
<1>6. ASSUME NEW r \in Resources, Send(r)
      PROVE  TypeOK'
  <2>1. [res |-> r, n |-> held[r]] \in Wake
    BY DEF Wake
  <2>2. Append(channel, [res |-> r, n |-> held[r]]) \in Seq(Wake)
    BY <2>1
  <2>3. channel' \in Seq(Wake) /\ watcher' \in [Resources -> {"none", "waiting", "woken", "stopped"}]
    BY <1>6, <2>2 DEF Send
  <2>4. QED
    BY <1>6, <2>3 DEF Send
<1>7. CASE Receive
  <2>1. Head(channel) \in Wake /\ Tail(channel) \in Seq(Wake)
    BY <1>7, QueueFacts DEF Receive
  <2>2. Head(channel).res \in Resources /\ Head(channel).n \in Nat
    BY <2>1 DEF Wake
  <2>3. <<Head(channel).res>> \in Seq(Resources)
    BY <2>2
  <2>4. wokeOn' \in Seq(Resources)
    BY <1>7, <2>3 DEF Receive
  <2>5. upTo' \in [Resources -> Nat]
    BY <1>7, <2>2 DEF Receive
  <2>6. QED
    BY SMTT(20), <1>7, <2>1, <2>4, <2>5 DEF Receive
<1>8. CASE ReceiveFails
  BY <1>8 DEF ReceiveFails
<1>9. CASE Drain
  <2>1. Head(channel) \in Wake /\ Tail(channel) \in Seq(Wake)
    BY <1>9, QueueFacts DEF Drain
  <2>2. Head(channel).res \in Resources /\ Head(channel).n \in Nat
    BY <2>1 DEF Wake
  <2>3. Append(wokeOn, Head(channel).res) \in Seq(Resources)
    BY <2>2
  <2>4. QED
    BY <1>9, <2>1, <2>2, <2>3 DEF Drain
<1>10. CASE BeginCollect
  BY <1>10 DEF BeginCollect
<1>11. CASE BuildIncident
  BY <1>11 DEF BuildIncident
<1>12. CASE AppendIncident
  <2>1. Append(log, captures) \in Seq(Nat)
    OBVIOUS
  <2>2. log' \in Seq(Nat)
    BY <1>12, <2>1 DEF AppendIncident
  <2>3. covered' \in [Resources -> Nat]
    BY <1>12 DEF AppendIncident
  <2>4. QED
    BY <1>12, <2>2, <2>3 DEF AppendIncident
<1>13. CASE SkipRuleAction
  BY <1>13 DEF SkipRuleAction, Firing
<1>14. CASE RunRuleCommand
  BY <1>14 DEF RunRuleCommand, CommandDue, Firing
<1>15. CASE AppendRuleLog
  <2> DEFINE rule == RuleActions[at].rule
  <2>1. rule \in Rules /\ ruleLog[rule] \in Seq(Nat)
    BY <1>15 DEF AppendRuleLog
  <2>2. Append(ruleLog[rule], captures) \in Seq(Nat)
    BY <2>1
  <2>3. ruleLog' \in [Rules -> Seq(Nat)]
    BY <1>15, <2>1, <2>2 DEF AppendRuleLog
  <2>4. QED
    BY <1>15, <2>3 DEF AppendRuleLog
<1>16. CASE Consider
  BY <1>16 DEF Consider
<1>17. CASE SendNotice
  BY <1>17 DEF SendNotice
<1>18. CASE PushFrame
  BY <1>18, PushType DEF PushFrame
<1>19. CASE PollTick
  BY <1>19 DEF PollTick
<1>20. CASE PollPush
  BY <1>20, PushType DEF PollPush
<1>21. CASE UNCHANGED vars
  BY <1>21 DEF vars
<1>22. QED
  BY <1>1, <1>2, <1>3, <1>4, <1>5, <1>6, <1>7, <1>8, <1>9, <1>10, <1>11,
     <1>12, <1>13, <1>14, <1>15, <1>16, <1>17, <1>18, <1>19, <1>20, <1>21
     DEF Next, WatcherThread, CaptureThread, PollThread

(* Type correctness of the whole pipeline (stallwatchd.rs:160-295). *)
THEOREM TypeCorrect == Spec => []TypeOK
<1>1. Init => TypeOK
  BY DEF Init, TypeOK, None
<1>2. QED
  BY <1>1, TypeStep, PTL DEF Spec

-----------------------------------------------------------------------------
(* The order of the pipeline. *)

(* Sending appends the watcher's notification to the queue. *)
LEMMA SendQueue ==
    ASSUME TypeOK, NEW s \in Resources, Send(s), pc # "ended"
    PROVE  /\ Len(channel) \in Nat
           /\ Len(channel') = Len(channel) + 1
           /\ channel'[Len(channel) + 1] = [res |-> s, n |-> held[s]]
           /\ \A i \in 1 .. Len(channel) : channel'[i] = channel[i]
           /\ \A i \in 1 .. Len(channel) : channel[i] \in Wake
<1>1. channel \in Seq(Wake) /\ [res |-> s, n |-> held[s]] \in Wake
  BY DEF TypeOK, Wake
<1>2. channel' = Append(channel, [res |-> s, n |-> held[s]])
  BY DEF Send
<1>3. QED
  BY <1>1, <1>2, QueueFacts

(* Receiving removes the oldest wake. *)
LEMMA ReceiveQueue ==
    ASSUME TypeOK, Receive \/ Drain
    PROVE  /\ Len(channel) \in Nat /\ Len(channel) >= 1
           /\ Head(channel) = channel[1]
           /\ Len(channel') = Len(channel) - 1
           /\ \A i \in 1 .. Len(channel) - 1 : channel'[i] = channel[i + 1]
           /\ \A i \in 1 .. Len(channel) : channel[i] \in Wake
<1>1. channel \in Seq(Wake) /\ channel # <<>>
  BY DEF TypeOK, Receive, Drain
<1>2. channel' = Tail(channel)
  BY DEF Receive, Drain
<1>3. QED
  BY <1>1, <1>2, QueueFacts

LEMMA OrderStep ==
    ASSUME TypeOK, ModeInv, CaptureInv, PipelineOrder, [Next]_vars
    PROVE  PipelineOrder'
<1> SUFFICES ASSUME NEW r \in Resources
             PROVE  OrderOf(r)'
  BY DEF PipelineOrder
<1>0. /\ OrderOf(r)
      /\ breaches[r] \in Nat /\ event[r] \in Nat /\ held[r] \in Nat
      /\ upTo[r] \in Nat /\ covered[r] \in Nat
  BY DEF PipelineOrder, TypeOK
<1>q. ASSUME UNCHANGED <<breaches, event, held, channel, upTo, covered>>
      PROVE  OrderOf(r)'
  BY <1>0, <1>q DEF OrderOf, Queued, Later
<1> USE DEF kernelVars, watcherVars, captureVars, sinkVars
<1>1. CASE StartTriggers
  BY <1>1, <1>q DEF StartTriggers
<1>2. CASE StartPolling
  BY <1>2, <1>q DEF StartPolling
<1>3. ASSUME NEW s \in Resources, Notify(s)
      PROVE  OrderOf(r)'
  <2>0. \A i \in 1 .. Len(channel) : channel[i] \in Wake
    BY QueueFacts DEF TypeOK
  <2>1. \A i \in 1 .. Len(channel) : channel[i].n \in Nat
    BY <2>0 DEF Wake
  <2>2. UNCHANGED <<held, channel, upTo, covered>>
    BY <1>3 DEF Notify
  <2>3. CASE r # s
    <3>1. breaches'[r] = breaches[r] /\ event'[r] = event[r]
      BY <1>3, <2>3 DEF Notify, TypeOK
    <3>2. QED
      BY <1>0, <2>2, <3>1 DEF OrderOf, Queued, Later
  <2>4. CASE r = s
    <3>1. breaches'[r] = breaches[r] + 1 /\ event'[r] = breaches[r] + 1
      BY <1>3, <2>4 DEF Notify, TypeOK
    <3>2. QED
      BY SMTT(20), <1>0, <2>1, <2>2, <3>1 DEF OrderOf, Queued, Later
  <2>5. QED
    BY <2>3, <2>4
<1>4. ASSUME NEW s \in Resources, WaitFails(s)
      PROVE  OrderOf(r)'
  BY <1>4, <1>q DEF WaitFails
<1>5. ASSUME NEW s \in Resources, WaitStalled(s)
      PROVE  OrderOf(r)'
  <2>1. UNCHANGED <<breaches, channel, upTo, covered>>
    BY <1>5 DEF WaitStalled
  <2>2. CASE r # s
    <3>1. held'[r] = held[r] /\ event'[r] = event[r]
      BY <1>5, <2>2 DEF WaitStalled, TypeOK
    <3>2. QED
      BY <1>0, <2>1, <3>1 DEF OrderOf, Queued, Later
  <2>3. CASE r = s
    <3>1. held'[r] = event[r] /\ event'[r] = 0 /\ event[r] # 0
      BY <1>5, <2>3 DEF WaitStalled, TypeOK
    <3>2. QED
      BY <1>0, <2>1, <3>1 DEF OrderOf, Queued, Later
  <2>4. QED
    BY <2>2, <2>3
<1>6. ASSUME NEW s \in Resources, Send(s)
      PROVE  OrderOf(r)'
  <2>1. UNCHANGED <<breaches, event, upTo, covered>>
    BY <1>6 DEF Send
  <2>2. held' = [held EXCEPT ![s] = 0] /\ held[s] # 0
    BY <1>6 DEF Send, CaptureInv
  <2>3. held'[r] = IF r = s THEN 0 ELSE held[r]
    BY <2>2 DEF TypeOK
  <2>4. CASE pc = "ended"
    <3>1. UNCHANGED channel
      BY <1>6, <2>4 DEF Send
    <3>2. QED
      BY <1>0, <2>1, <2>3, <3>1 DEF OrderOf, Queued, Later
  <2>5. CASE pc # "ended"
    <3>1. /\ Len(channel) \in Nat
          /\ Len(channel') = Len(channel) + 1
          /\ channel'[Len(channel) + 1] = [res |-> s, n |-> held[s]]
          /\ \A i \in 1 .. Len(channel) : channel'[i] = channel[i]
      BY <1>6, <2>5, SendQueue
    <3>2. CASE r # s
      <4>1. Queued(r)' = Queued(r)
        BY <3>1, <3>2 DEF Queued
      <4>2. \A i \in Queued(r) : channel'[i] = channel[i]
        BY <3>1 DEF Queued
      <4>3. held'[r] = held[r]
        BY <2>3, <3>2
      <4>4. QED
        BY <1>0, <2>1, <4>1, <4>2, <4>3 DEF OrderOf, Later
    <3>3. CASE r = s
      <4>1. Queued(r)' = Queued(r) \cup {Len(channel) + 1}
        BY <3>1, <3>3 DEF Queued
      <4>2. \A i \in Queued(r) : channel'[i] = channel[i] /\ i < Len(channel) + 1
        BY <3>1 DEF Queued
      <4>3. held'[r] = 0 /\ held[r] # 0 /\ channel'[Len(channel) + 1].n = held[r]
        BY <2>2, <2>3, <3>1, <3>3
      <4>4. Queued(r) \subseteq Nat
        BY DEF Queued
      <4>5. QED
        BY <1>0, <2>1, <3>1, <4>1, <4>2, <4>3, <4>4 DEF OrderOf, Later
    <3>4. QED
      BY <3>2, <3>3
  <2>6. QED
    BY <2>4, <2>5
<1>7. ASSUME Receive \/ Drain
      PROVE  OrderOf(r)'
  <2>1. UNCHANGED <<breaches, event, held, covered>>
    BY <1>7 DEF Receive, Drain
  <2>2. /\ Len(channel) \in Nat /\ Len(channel) >= 1
        /\ Head(channel) = channel[1]
        /\ Len(channel') = Len(channel) - 1
        /\ \A i \in 1 .. Len(channel) - 1 : channel'[i] = channel[i + 1]
        /\ \A i \in 1 .. Len(channel) : channel[i].n \in Nat
    BY <1>7, ReceiveQueue DEF Wake
  <2>3. \A i \in Queued(r)' : /\ i \in Nat \ {0} /\ i + 1 \in Queued(r)
                              /\ channel'[i] = channel[i + 1]
    BY <2>2 DEF Queued
  <2>4. CASE channel[1].res = r
    <3>1. upTo'[r] = channel[1].n
      BY <1>7, <2>2, <2>4 DEF Receive, Drain, TypeOK, None
    <3>2. 1 \in Queued(r)
      BY <2>2, <2>4 DEF Queued
    <3>3. \A i \in Queued(r)' : 1 < i + 1
      BY <2>3
    <3>4. QED
      <4>1. \A i \in Queued(r) : channel[i].n \in Nat
        BY <2>2 DEF Queued
      <4>2. \A i \in Queued(r)' : channel[1].n < channel'[i].n
        BY <1>0, <2>3, <3>2, <3>3 DEF OrderOf
      <4>3. QED
        BY <1>0, <2>1, <2>3, <3>1, <3>2, <4>1, <4>2 DEF OrderOf, Later
  <2>5. CASE channel[1].res # r
    <3>1. upTo'[r] \in {0, upTo[r]}
      BY <1>7, <2>2, <2>5 DEF Receive, Drain, TypeOK, None
    <3>2. QED
      <4>1. \A i \in Queued(r) : channel[i].n \in Nat
        BY <2>2 DEF Queued
      <4>2. QED
        BY <1>0, <2>1, <2>3, <3>1, <4>1 DEF OrderOf, Later
  <2>6. QED
    BY <2>4, <2>5
<1>8. CASE ReceiveFails
  BY <1>8, <1>q DEF ReceiveFails
<1>10. CASE BeginCollect
  BY <1>10, <1>q DEF BeginCollect
<1>11. CASE BuildIncident
  BY <1>11, <1>q DEF BuildIncident
<1>12. CASE AppendIncident
  <2>1. UNCHANGED <<breaches, event, held, channel, upTo>>
    BY <1>12 DEF AppendIncident
  <2>2. covered'[r] = IF upTo[r] # 0 THEN upTo[r] ELSE covered[r]
    BY <1>12 DEF AppendIncident
  <2>3. QED
    BY <1>0, <2>1, <2>2 DEF OrderOf, Later, Queued
<1>13. CASE SkipRuleAction
  BY <1>13, <1>q DEF SkipRuleAction
<1>14. CASE RunRuleCommand
  BY <1>14, <1>q DEF RunRuleCommand
<1>15. CASE AppendRuleLog
  BY <1>15, <1>q DEF AppendRuleLog
<1>16. CASE Consider
  BY <1>16, <1>q DEF Consider
<1>17. CASE SendNotice
  BY <1>17, <1>q DEF SendNotice
<1>18. CASE PushFrame
  BY <1>18, <1>q DEF PushFrame
<1>19. CASE PollTick
  BY <1>19, <1>q DEF PollTick
<1>20. CASE PollPush
  BY <1>20, <1>q DEF PollPush
<1>21. CASE UNCHANGED vars
  BY <1>21, <1>q DEF vars
<1>22. QED
  BY <1>1, <1>2, <1>3, <1>4, <1>5, <1>6, <1>7, <1>8, <1>10, <1>11, <1>12,
     <1>13, <1>14, <1>15, <1>16, <1>17, <1>18, <1>19, <1>20, <1>21
     DEF Next, WatcherThread, CaptureThread, PollThread

-----------------------------------------------------------------------------
(* The modes of the daemon and the progress of one capture. *)

LEMMA ModeStep ==
    ASSUME TypeOK, ModeInv, [Next]_vars
    PROVE  ModeInv'
<1> USE DEF TypeOK, ModeInv, None, kernelVars, watcherVars, captureVars, sinkVars
<1>1. CASE StartTriggers
  BY <1>1 DEF StartTriggers
<1>2. CASE StartPolling
  BY <1>2 DEF StartPolling
<1>3. ASSUME NEW s \in Resources, Notify(s)
      PROVE  ModeInv'
  <2>1. mode # "boot" /\ mode = "trigger"
    BY <1>3 DEF Notify, Watching
  <2>2. QED
    BY <1>3, <2>1 DEF Notify
<1>4. ASSUME NEW s \in Resources, WaitFails(s)
      PROVE  ModeInv'
  <2>1. mode = "trigger"
    BY <1>4 DEF WaitFails
  <2>2. QED
    BY <1>4, <2>1 DEF WaitFails
<1>5. ASSUME NEW s \in Resources, WaitStalled(s)
      PROVE  ModeInv'
  <2>1. mode = "trigger"
    BY <1>5 DEF WaitStalled
  <2>2. QED
    BY <1>5, <2>1 DEF WaitStalled
<1>6. ASSUME NEW s \in Resources, Send(s)
      PROVE  ModeInv'
  <2>1. mode = "trigger"
    BY <1>6 DEF Send
  <2>2. QED
    BY <1>6, <2>1 DEF Send
<1>7. CASE Receive
  BY <1>7 DEF Receive
<1>8. CASE ReceiveFails
  BY <1>8 DEF ReceiveFails
<1>9. CASE Drain
  BY <1>9 DEF Drain
<1>10. CASE BeginCollect
  BY <1>10 DEF BeginCollect
<1>11. CASE BuildIncident
  BY <1>11 DEF BuildIncident
<1>12. CASE AppendIncident
  BY <1>12 DEF AppendIncident
<1>13. CASE SkipRuleAction
  BY <1>13 DEF SkipRuleAction, Firing
<1>14. CASE RunRuleCommand
  BY <1>14 DEF RunRuleCommand, CommandDue, Firing
<1>15. CASE AppendRuleLog
  BY <1>15 DEF AppendRuleLog, Firing
<1>16. CASE Consider
  BY <1>16 DEF Consider
<1>17. CASE SendNotice
  BY <1>17 DEF SendNotice
<1>18. CASE PushFrame
  BY <1>18 DEF PushFrame
<1>19. CASE PollTick
  BY <1>19 DEF PollTick
<1>20. CASE PollPush
  BY <1>20 DEF PollPush
<1>21. CASE UNCHANGED vars
  BY <1>21 DEF vars
<1>22. QED
  BY <1>1, <1>2, <1>3, <1>4, <1>5, <1>6, <1>7, <1>8, <1>9, <1>10,
     <1>11, <1>12, <1>13, <1>14, <1>15, <1>16, <1>17, <1>18, <1>19,
     <1>20, <1>21
     DEF Next, WatcherThread, CaptureThread, PollThread

LEMMA OrphanStep ==
    ASSUME TypeOK, ModeInv, NeverOrphaned, [Next]_vars
    PROVE  NeverOrphaned'
<1> USE DEF NeverOrphaned, Watching, kernelVars, watcherVars, captureVars, sinkVars
<1>1. CASE StartTriggers
  BY <1>1 DEF StartTriggers
<1>2. CASE StartPolling
  BY <1>2 DEF StartPolling
<1>3. ASSUME NEW s \in Resources, Notify(s)
      PROVE  NeverOrphaned'
  BY <1>3 DEF Notify
<1>4. ASSUME NEW s \in Resources, WaitFails(s)
      PROVE  NeverOrphaned'
  BY <1>4 DEF WaitFails, TypeOK
<1>5. ASSUME NEW s \in Resources, WaitStalled(s)
      PROVE  NeverOrphaned'
  BY <1>5 DEF WaitStalled, TypeOK
<1>6. ASSUME NEW s \in Resources, Send(s)
      PROVE  NeverOrphaned'
  BY <1>6 DEF Send, TypeOK
<1>7. CASE Receive
  BY <1>7 DEF Receive
<1>8. CASE ReceiveFails
  BY <1>8 DEF ReceiveFails
<1>9. CASE Drain
  BY <1>9 DEF Drain
<1>10. CASE BeginCollect
  BY <1>10 DEF BeginCollect
<1>11. CASE BuildIncident
  BY <1>11 DEF BuildIncident
<1>12. CASE AppendIncident
  BY <1>12 DEF AppendIncident
<1>13. CASE SkipRuleAction
  BY <1>13 DEF SkipRuleAction, Firing
<1>14. CASE RunRuleCommand
  BY <1>14 DEF RunRuleCommand, CommandDue, Firing
<1>15. CASE AppendRuleLog
  BY <1>15 DEF AppendRuleLog, Firing
<1>16. CASE Consider
  BY <1>16 DEF Consider
<1>17. CASE SendNotice
  BY <1>17 DEF SendNotice
<1>18. CASE PushFrame
  BY <1>18 DEF PushFrame
<1>19. CASE PollTick
  BY <1>19 DEF PollTick
<1>20. CASE PollPush
  BY <1>20 DEF PollPush
<1>21. CASE UNCHANGED vars
  BY <1>21 DEF vars
<1>22. QED
  BY <1>1, <1>2, <1>3, <1>4, <1>5, <1>6, <1>7, <1>8, <1>9, <1>10,
     <1>11, <1>12, <1>13, <1>14, <1>15, <1>16, <1>17, <1>18, <1>19,
     <1>20, <1>21
     DEF Next, WatcherThread, CaptureThread, PollThread

LEMMA CaptureStep ==
    ASSUME TypeOK, ModeInv, CaptureInv, PipelineOrder, [Next]_vars
    PROVE  CaptureInv'
<1> USE DEF kernelVars, watcherVars, captureVars, sinkVars
<1>1. CASE StartTriggers
  BY <1>1 DEF StartTriggers, CaptureInv, ModeInv, None
<1>2. CASE StartPolling
  BY <1>2 DEF CaptureInv, StartPolling
<1>3. ASSUME NEW s \in Resources, Notify(s)
      PROVE  CaptureInv'
  BY <1>3 DEF CaptureInv, Notify
<1>4. ASSUME NEW s \in Resources, WaitFails(s)
      PROVE  CaptureInv'
  BY <1>4 DEF WaitFails, CaptureInv, TypeOK
<1>5. ASSUME NEW s \in Resources, WaitStalled(s)
      PROVE  CaptureInv'
  BY <1>5 DEF WaitStalled, CaptureInv, TypeOK
<1>6. ASSUME NEW s \in Resources, Send(s)
      PROVE  CaptureInv'
  BY <1>6 DEF Send, CaptureInv, TypeOK
<1>7. CASE Receive
  <2> DEFINE first == Head(channel)
  <2>1. first = channel[1] /\ Len(channel) >= 1 /\ Len(channel) \in Nat /\ channel[1] \in Wake
    BY <1>7, ReceiveQueue
  <2>2. first.res \in Resources
    BY <2>1 DEF Wake
  <2>3. covered[first.res] < first.n
    BY <2>1, <2>2 DEF PipelineOrder, OrderOf, Queued, Later
  <2>4. upTo'[first.res] = first.n /\ covered' = covered
    BY <1>7, <2>2 DEF Receive, None
  <2>5. captures' # 0 /\ pc' = "drain" /\ UNCHANGED <<watcher, held>>
    BY <1>7 DEF Receive, TypeOK
  <2>6. QED
    BY <2>2, <2>3, <2>4, <2>5 DEF CaptureInv
<1>8. CASE ReceiveFails
  BY <1>8 DEF CaptureInv, ReceiveFails
<1>9. CASE Drain
  <2> DEFINE also == Head(channel)
  <2>1. also = channel[1] /\ Len(channel) >= 1 /\ Len(channel) \in Nat /\ channel[1] \in Wake
    BY <1>9, ReceiveQueue
  <2>2. also.res \in Resources
    BY <2>1 DEF Wake
  <2>3. covered[also.res] < also.n
    BY <2>1, <2>2 DEF PipelineOrder, OrderOf, Queued, Later
  <2>4. upTo'[also.res] = also.n /\ covered' = covered
    BY <1>9, <2>2 DEF Drain, TypeOK
  <2>5. pc = "drain" /\ pc' = "drain" /\ UNCHANGED <<watcher, held, captures>>
    BY <1>9 DEF Drain
  <2>6. QED
    BY <2>2, <2>3, <2>4, <2>5 DEF CaptureInv
<1>10. CASE BeginCollect
  BY <1>10 DEF CaptureInv, BeginCollect
<1>11. CASE BuildIncident
  BY <1>11 DEF CaptureInv, BuildIncident
<1>12. CASE AppendIncident
  BY <1>12 DEF AppendIncident, CaptureInv, TypeOK
<1>13. CASE SkipRuleAction
  BY <1>13 DEF CaptureInv, SkipRuleAction, Firing
<1>14. CASE RunRuleCommand
  BY <1>14 DEF CaptureInv, RunRuleCommand, CommandDue, Firing
<1>15. CASE AppendRuleLog
  BY <1>15 DEF CaptureInv, AppendRuleLog, Firing
<1>16. CASE Consider
  BY <1>16 DEF CaptureInv, Consider
<1>17. CASE SendNotice
  BY <1>17 DEF CaptureInv, SendNotice
<1>18. CASE PushFrame
  BY <1>18 DEF CaptureInv, PushFrame
<1>19. CASE PollTick
  BY <1>19 DEF PollTick, CaptureInv, TypeOK
<1>20. CASE PollPush
  BY <1>20 DEF CaptureInv, PollPush
<1>21. CASE UNCHANGED vars
  BY <1>21 DEF CaptureInv, vars
<1>22. QED
  BY <1>1, <1>2, <1>3, <1>4, <1>5, <1>6, <1>7, <1>8, <1>9, <1>10,
     <1>11, <1>12, <1>13, <1>14, <1>15, <1>16, <1>17, <1>18, <1>19,
     <1>20, <1>21
     DEF Next, WatcherThread, CaptureThread, PollThread

(* What a capture answers stays below what was raised when it began. *)
LEMMA SamplingStep ==
    ASSUME TypeOK, SamplingInv, PipelineOrder, [Next]_vars
    PROVE  SamplingInv'
<1> USE DEF kernelVars, watcherVars, captureVars, sinkVars
<1>q. ASSUME UNCHANGED <<pc, upTo, sampled>>
      PROVE  SamplingInv'
  BY <1>q DEF SamplingInv
<1>a. ASSUME pc' \notin {"collect", "append"}
      PROVE  SamplingInv'
  BY <1>a DEF SamplingInv
<1>1. CASE StartTriggers
  BY <1>1, <1>a DEF StartTriggers
<1>2. CASE StartPolling \/ UNCHANGED vars
  BY <1>2, <1>q DEF StartPolling, vars
<1>3. ASSUME NEW s \in Resources, Notify(s) \/ WaitFails(s) \/ WatcherThread(s)
      PROVE  SamplingInv'
  BY <1>3, <1>q DEF Notify, WaitFails, WatcherThread, WaitStalled, Send
<1>4. CASE Receive \/ ReceiveFails \/ Drain
  <2>1. pc' \in {"drain", "ended"}
    BY <1>4 DEF Receive, ReceiveFails, Drain
  <2>2. QED
    BY <2>1, <1>a
<1>5. CASE BeginCollect
  BY <1>5 DEF BeginCollect, SamplingInv, PipelineOrder, OrderOf
<1>6. CASE BuildIncident
  BY <1>6 DEF BuildIncident, SamplingInv
<1>7. CASE AppendIncident
  BY <1>7, <1>a DEF AppendIncident
<1>8. CASE SkipRuleAction \/ RunRuleCommand \/ AppendRuleLog
  BY <1>8, <1>q DEF SkipRuleAction, RunRuleCommand, AppendRuleLog
<1>9. CASE Consider \/ SendNotice \/ PushFrame
  <2>1. pc' \in {"send", "push", "recv"}
    BY <1>9 DEF Consider, SendNotice, PushFrame
  <2>2. QED
    BY <2>1, <1>a
<1>10. CASE PollThread
  BY <1>10, <1>q DEF PollThread, PollTick, PollPush
<1>11. QED
  BY <1>1, <1>2, <1>3, <1>4, <1>5, <1>6, <1>7, <1>8, <1>9, <1>10
     DEF Next, CaptureThread

(* No notification that is still owed an answer leaves the pipeline. *)
LEMMA WakeStep ==
    ASSUME TypeOK, ModeInv, CaptureInv, PipelineOrder, NoWakeLost, [Next]_vars
    PROVE  NoWakeLost'
<1> SUFFICES ASSUME NEW r \in Resources, Watching(r)'
             PROVE  Kept(r)'
  BY DEF NoWakeLost
<1>0. /\ OrderOf(r)
      /\ breaches[r] \in Nat /\ event[r] \in Nat /\ held[r] \in Nat
      /\ upTo[r] \in Nat /\ covered[r] \in Nat
  BY DEF PipelineOrder, TypeOK
<1>w. Watching(r) => breaches[r] \in {event[r], held[r]} \/ Sent(r, breaches[r])
  BY DEF NoWakeLost, Kept
<1>q. ASSUME UNCHANGED <<breaches, event, watcher, held, channel, upTo, covered>>
      PROVE  Kept(r)'
  BY <1>w, <1>q DEF Watching, Sent, Kept
<1> USE DEF kernelVars, watcherVars, captureVars, sinkVars
<1>1. CASE StartTriggers
  <2>1. breaches'[r] = 0 /\ covered'[r] = 0
    BY <1>1 DEF StartTriggers, ModeInv, None
  <2>2. QED
    BY <2>1 DEF Kept, Sent
<1>2. CASE StartPolling
  BY <1>2, <1>q DEF StartPolling
<1>3. ASSUME NEW s \in Resources, Notify(s)
      PROVE  Kept(r)'
  <2>1. Watching(r)
    BY <1>3 DEF Notify, Watching
  <2>2. CASE r = s
    BY <1>3, <2>2 DEF Notify, Kept, TypeOK
  <2>3. CASE r # s
    BY <1>3, <2>1, <2>3, <1>w DEF Notify, Kept, TypeOK, Sent
  <2>4. QED
    BY <2>2, <2>3
<1>4. ASSUME NEW s \in Resources, WaitFails(s)
      PROVE  Kept(r)'
  <2>1. Watching(r)
    BY <1>4 DEF WaitFails, Watching, TypeOK
  <2>2. QED
    BY <1>4, <2>1, <1>w DEF WaitFails, Kept, Sent
<1>5. ASSUME NEW s \in Resources, WaitStalled(s)
      PROVE  Kept(r)'
  <2>1. Watching(r)
    BY <1>5 DEF WaitStalled, Watching, TypeOK
  <2>2. UNCHANGED <<breaches, channel, upTo, covered>>
    BY <1>5 DEF WaitStalled
  <2>3. CASE r = s
    <3>1. held'[r] = event[r] /\ event[r] # 0
      BY <1>5, <2>3 DEF WaitStalled, TypeOK
    <3>2. event[r] = breaches[r]
      BY <1>0, <3>1 DEF OrderOf
    <3>3. QED
      BY <2>2, <3>1, <3>2 DEF Kept
  <2>4. CASE r # s
    <3>1. held'[r] = held[r] /\ event'[r] = event[r]
      BY <1>5, <2>4 DEF WaitStalled, TypeOK
    <3>2. QED
      BY <2>1, <2>2, <3>1, <1>w DEF Kept, Sent
  <2>5. QED
    BY <2>3, <2>4
<1>6. ASSUME NEW s \in Resources, Send(s)
      PROVE  Kept(r)'
  <2>1. Watching(r)
    BY <1>6 DEF Send, Watching, TypeOK
  <2>2. UNCHANGED <<breaches, event, upTo, covered>>
    BY <1>6 DEF Send
  <2>3. held'[r] = IF r = s THEN 0 ELSE held[r]
    BY <1>6 DEF Send, TypeOK
  <2>4. CASE pc = "ended"
    <3>1. r # s /\ UNCHANGED channel
      BY <1>6, <2>4 DEF Send, Watching, TypeOK
    <3>2. QED
      BY <2>1, <2>2, <2>3, <3>1, <1>w DEF Kept, Sent
  <2>5. CASE pc # "ended"
    <3>1. /\ Len(channel) \in Nat
          /\ Len(channel') = Len(channel) + 1
          /\ channel'[Len(channel) + 1] = [res |-> s, n |-> held[s]]
          /\ \A i \in 1 .. Len(channel) : channel'[i] = channel[i]
      BY <1>6, <2>5, SendQueue
    <3>2. Sent(r, breaches[r]) => Sent(r, breaches[r])'
      BY <2>2, <3>1 DEF Sent
    <3>3. CASE r = s /\ breaches[r] = held[r]
      <4>1. channel'[Len(channel) + 1].res = r /\ channel'[Len(channel) + 1].n = breaches'[r]
        BY <2>2, <3>1, <3>3
      <4>2. Len(channel) + 1 \in 1 .. Len(channel')
        BY <3>1
      <4>3. QED
        BY <4>1, <4>2 DEF Kept, Sent
    <3>4. CASE ~(r = s /\ breaches[r] = held[r])
      BY <2>1, <2>2, <2>3, <3>2, <3>4, <1>w DEF Kept
    <3>5. QED
      BY <3>3, <3>4
  <2>6. QED
    BY <2>4, <2>5
<1>7. CASE Receive
  <2>1. Watching(r) /\ UNCHANGED <<breaches, event, held, covered>>
    BY <1>7 DEF Receive, Watching
  <2>2. CASE breaches[r] \in {event[r], held[r]}
    BY <2>1, <2>2 DEF Kept
  <2>3. CASE breaches[r] \in {upTo[r], covered[r]}
    <3>1. breaches[r] = covered[r]
      BY <1>7, <1>0, <2>3 DEF Receive, CaptureInv, OrderOf
    <3>2. QED
      BY <2>1, <3>1 DEF Kept, Sent
  <2>4. ASSUME NEW i \in 1 .. Len(channel),
               channel[i].res = r, channel[i].n = breaches[r]
        PROVE  Kept(r)'
    <3>1. /\ Len(channel) \in Nat /\ Len(channel) >= 1
          /\ Head(channel) = channel[1]
          /\ Len(channel') = Len(channel) - 1
          /\ \A j \in 1 .. Len(channel) - 1 : channel'[j] = channel[j + 1]
      BY <1>7, ReceiveQueue
    <3>2. CASE i = 1
      <4>1. upTo'[r] = breaches[r]
        BY <1>7, <2>4, <3>1, <3>2 DEF Receive, None
      <4>2. QED
        BY <2>1, <4>1 DEF Kept, Sent
    <3>3. CASE i # 1
      <4>1. i - 1 \in 1 .. Len(channel') /\ channel'[i - 1] = channel[i]
        BY <3>1, <3>3
      <4>2. QED
        BY <2>1, <2>4, <4>1 DEF Kept, Sent
    <3>4. QED
      BY <3>2, <3>3
  <2>5. QED
    BY <2>1, <2>2, <2>3, <2>4, <1>w DEF Sent
<1>8. CASE ReceiveFails
  BY <1>8, <1>q DEF ReceiveFails
<1>9. CASE Drain
  <2>1. Watching(r) /\ UNCHANGED <<breaches, event, held, covered>>
    BY <1>9 DEF Drain, Watching
  <2>0. /\ Len(channel) \in Nat /\ Len(channel) >= 1
        /\ Head(channel) = channel[1]
        /\ Len(channel') = Len(channel) - 1
        /\ \A j \in 1 .. Len(channel) - 1 : channel'[j] = channel[j + 1]
        /\ \A j \in 1 .. Len(channel) : channel[j] \in Wake
    BY <1>9, ReceiveQueue
  <2>2. CASE breaches[r] \in {event[r], held[r], covered[r]}
    BY <2>1, <2>2 DEF Kept, Sent
  <2>3. CASE breaches[r] = upTo[r]
    <3>1. channel[1].res # r
      <4>1. 1 \in 1 .. Len(channel) /\ channel[1].n \in Nat
        BY <2>0 DEF Wake
      <4>2. QED
        BY <1>0, <2>3, <4>1 DEF OrderOf, Queued, Later
    <3>2. upTo'[r] = upTo[r]
      BY <1>9, <2>0, <3>1 DEF Drain, TypeOK
    <3>3. QED
      BY <2>1, <2>3, <3>2 DEF Kept, Sent
  <2>4. ASSUME NEW i \in 1 .. Len(channel),
               channel[i].res = r, channel[i].n = breaches[r]
        PROVE  Kept(r)'
    <3>2. CASE i = 1
      <4>1. upTo'[r] = breaches[r]
        BY <1>9, <2>4, <2>0, <3>2 DEF Drain, TypeOK
      <4>2. QED
        BY <2>1, <4>1 DEF Kept, Sent
    <3>3. CASE i # 1
      <4>1. i - 1 \in 1 .. Len(channel') /\ channel'[i - 1] = channel[i]
        BY <2>0, <3>3
      <4>2. QED
        BY <2>1, <2>4, <4>1 DEF Kept, Sent
    <3>4. QED
      BY <3>2, <3>3
  <2>5. QED
    BY <2>1, <2>2, <2>3, <2>4, <1>w DEF Sent
<1>10. CASE BeginCollect
  BY <1>10, <1>q DEF BeginCollect
<1>11. CASE BuildIncident
  BY <1>11, <1>q DEF BuildIncident
<1>12. CASE AppendIncident
  <2>1. Watching(r) /\ UNCHANGED <<breaches, event, held, channel, upTo>>
    BY <1>12 DEF AppendIncident, Watching
  <2>2. covered'[r] = IF upTo[r] # 0 THEN upTo[r] ELSE covered[r]
    BY <1>12 DEF AppendIncident
  <2>3. breaches[r] = covered[r] => covered'[r] = covered[r]
    BY <1>0, <2>2 DEF OrderOf
  <2>4. QED
    BY <2>1, <2>3, <1>w DEF Kept, Sent
<1>13. CASE SkipRuleAction
  BY <1>13, <1>q DEF SkipRuleAction, Firing
<1>14. CASE RunRuleCommand
  BY <1>14, <1>q DEF RunRuleCommand, CommandDue, Firing
<1>15. CASE AppendRuleLog
  BY <1>15, <1>q DEF AppendRuleLog, Firing
<1>16. CASE Consider
  BY <1>16, <1>q DEF Consider
<1>17. CASE SendNotice
  BY <1>17, <1>q DEF SendNotice
<1>18. CASE PushFrame
  BY <1>18, <1>q DEF PushFrame
<1>19. CASE PollTick
  BY <1>19, <1>q DEF PollTick
<1>20. CASE PollPush
  BY <1>20, <1>q DEF PollPush
<1>21. CASE UNCHANGED vars
  BY <1>21, <1>q DEF vars
<1>22. QED
  BY <1>1, <1>2, <1>3, <1>4, <1>5, <1>6, <1>7, <1>8, <1>9, <1>10,
     <1>11, <1>12, <1>13, <1>14, <1>15, <1>16, <1>17, <1>18, <1>19,
     <1>20, <1>21
     DEF Next, WatcherThread, CaptureThread, PollThread

-----------------------------------------------------------------------------
(* The inductive invariant, and what follows from it. *)

THEOREM Inductive == Spec => []IInv
<1>1. Init => IInv
  <2>1. Init => TypeOK
    BY DEF Init, TypeOK, None
  <2>2. Init => ModeInv /\ CaptureInv /\ SamplingInv /\ NoWakeLost /\ NeverOrphaned
    BY DEF Init, None, ModeInv, CaptureInv, SamplingInv, NoWakeLost, NeverOrphaned,
       Watching, Kept, Sent
  <2>3. Init => PipelineOrder
    <3> SUFFICES ASSUME Init, NEW r \in Resources
                 PROVE  OrderOf(r)
      BY DEF PipelineOrder
    <3>1. Queued(r) = {}
      BY DEF Init, Queued
    <3>2. breaches[r] = 0 /\ event[r] = 0 /\ held[r] = 0 /\ upTo[r] = 0 /\ covered[r] = 0
      BY DEF Init, None
    <3>3. QED
      BY <3>1, <3>2 DEF OrderOf
  <2>4. QED
    BY <2>1, <2>2, <2>3 DEF IInv
<1>2. IInv /\ [Next]_vars => IInv'
  BY TypeStep, ModeStep, CaptureStep, SamplingStep, OrderStep, WakeStep, OrphanStep DEF IInv
<1>3. QED
  BY <1>1, <1>2, PTL DEF Spec

(* The latest kernel notification of a watched resource is never lost      *)
(* between the trigger, the channel, the drain loop and the record         *)
(* (stallwatchd.rs:178-218, 272).                                          *)
THEOREM WakesAreKept == Spec => []NoWakeLost
<1>1. IInv => NoWakeLost
  BY DEF IInv
<1>2. QED
  BY <1>1, Inductive, PTL

(* Notifications are handled in order and none twice (stallwatchd.rs:178-218). *)
THEOREM WakesInOrder == Spec => []PipelineOrder
<1>1. IInv => PipelineOrder
  BY DEF IInv
<1>2. QED
  BY <1>1, Inductive, PTL

(* The capture thread ends only after every watcher has returned and the   *)
(* queue is empty (stallwatchd.rs:201, 209).                               *)
THEOREM CaptureOutlivesWatchers == Spec => []NeverOrphaned
<1>1. IInv => NeverOrphaned
  BY DEF IInv
<1>2. QED
  BY <1>1, Inductive, PTL

-----------------------------------------------------------------------------
(* The pipeline implements the recorder: each step is a recorder step or   *)
(* leaves everything the recorder sees unchanged.                          *)

(* What the recorder sees, in the pipeline's variables. *)
Busy == pc \in {"collect", "append"}
Seen == <<mode # "boot", {r \in Resources : Watching(r)}, breaches, Busy, sampled,
          covered, Records, Len(log)>>

LEMMA BeginStep ==
    ASSUME IInv, BeginCollect
    PROVE  R!Begin
<1> USE DEF IInv
<1>1. PICK r \in Resources : covered[r] < upTo[r]
  BY DEF CaptureInv, BeginCollect
<1>2. upTo[r] <= breaches[r] /\ upTo[r] \in Nat /\ covered[r] \in Nat /\ breaches[r] \in Nat
  BY DEF PipelineOrder, OrderOf, TypeOK
<1>3. covered[r] < breaches[r]
  BY <1>1, <1>2
<1>4. Records' = Records
  BY DEF BeginCollect, captureVars, Records
<1>5. QED
  BY <1>3, <1>4 DEF BeginCollect, watcherVars, sinkVars, Watching, R!Begin

LEMMA RecordStep ==
    ASSUME IInv, AppendIncident
    PROVE  \E S \in SUBSET Resources : R!Record(S)
<1> DEFINE S == {r \in Resources : covered[r] < upTo[r]}
<1> USE DEF IInv
<1>1. S # {} /\ captures # 0 /\ captures \in Nat
  BY DEF CaptureInv, AppendIncident, TypeOK
<1>2. UNCHANGED <<mode, breaches, watcher, captures>> /\ pc = "append" /\ pc' = "rules"
  BY DEF AppendIncident, kernelVars, watcherVars
<1>3. mode = "trigger"
  BY <1>2 DEF ModeInv
<1>4. Records' = Records + 1
  BY <1>1, <1>2, <1>3 DEF Records
<1>5. ASSUME NEW r \in Resources
      PROVE  /\ covered'[r] = IF upTo[r] # 0 THEN upTo[r] ELSE covered[r]
             /\ upTo[r] <= sampled[r]
             /\ upTo[r] # 0 => covered[r] <= upTo[r]
             /\ upTo[r] \in Nat /\ covered[r] \in Nat /\ sampled[r] \in Nat
  BY DEF AppendIncident, SamplingInv, PipelineOrder, OrderOf, TypeOK
<1>6. \A r \in S : covered'[r] \in (covered[r] + 1) .. sampled[r]
  BY <1>5
<1>7. \A r \in Resources \ S : covered'[r] = covered[r]
  BY <1>5
<1>8. DOMAIN covered' = Resources
  BY DEF AppendIncident
<1>9. {r \in Resources : Watching(r)}' = {r \in Resources : Watching(r)}
  BY <1>2 DEF Watching
<1>10. Len(log') \in {Len(log), Len(log) + 1}
  <2>1. Len(Append(log, captures)) = Len(log) + 1
    BY <1>1 DEF TypeOK
  <2>2. QED
    BY <2>1 DEF AppendIncident
<1>11. sampled' = [r \in Resources |-> 0]
  BY DEF AppendIncident, None
<1>12. R!Record(S)
  BY <1>1, <1>2, <1>4, <1>6, <1>7, <1>8, <1>9, <1>10, <1>11 DEF R!Record
<1>13. QED
  BY <1>12

LEMMA RecorderStep ==
    ASSUME IInv, [Next]_vars
    PROVE  R!Next \/ UNCHANGED Seen
<1> USE DEF IInv, Busy, kernelVars, watcherVars, captureVars, sinkVars
<1>1. CASE StartTriggers
  <2>1. mode = "boot" /\ mode' = "trigger" /\ pc' = "recv" /\ captures' = 0
    BY <1>1 DEF StartTriggers, ModeInv
  <2>2. Records' = 0 /\ Records = 0 /\ UNCHANGED <<breaches, sampled, covered, log>>
    BY <1>1, <2>1 DEF Records, StartTriggers
  <2>3. Busy = FALSE /\ Busy' = FALSE
    BY <2>1 DEF ModeInv
  <2>4. R!Start
    BY <2>1, <2>2, <2>3 DEF R!Start
  <2>5. QED
    BY <2>4 DEF R!Next
<1>2. CASE StartPolling
  <2>1. /\ mode = "boot" /\ mode' = "poll" /\ UNCHANGED Busy
        /\ UNCHANGED <<breaches, sampled, covered, log>>
    BY <1>2 DEF StartPolling
  <2>2. Records' = 0 /\ Records = 0
    BY <2>1 DEF Records
  <2>3. R!Start
    BY <2>1, <2>2 DEF R!Start
  <2>4. QED
    BY <2>3 DEF R!Next
<1>3. ASSUME NEW s \in Resources, Notify(s)
      PROVE  R!Next \/ UNCHANGED Seen
  <2>1. Records' = Records /\ UNCHANGED <<mode, watcher, covered>>
    BY <1>3 DEF Notify, Records
  <2>2. R!Raise(s)
    BY <1>3, <2>1 DEF Notify, R!Raise, Watching
  <2>3. QED
    BY <2>2 DEF R!Next
<1>4. ASSUME NEW s \in Resources, WaitFails(s)
      PROVE  R!Next \/ UNCHANGED Seen
  <2>1. Records' = Records /\ UNCHANGED <<mode, breaches, Busy, sampled, covered, log>>
    BY <1>4 DEF WaitFails, Records
  <2>2. \A r \in Resources : Watching(r)' <=> (Watching(r) /\ r # s)
    BY <1>4 DEF WaitFails, Watching, TypeOK
  <2>3. Watching(s)
    BY <1>4 DEF WaitFails, Watching
  <2>4. R!Deafen(s)
    BY <2>1, <2>2, <2>3 DEF R!Deafen
  <2>5. QED
    BY <2>4 DEF R!Next
<1>5. CASE AppendIncident
  BY <1>5, RecordStep DEF R!Next
<1>6. ASSUME NEW s \in Resources, WaitStalled(s)
      PROVE  R!Next \/ UNCHANGED Seen
  <2>1. \A r \in Resources : Watching(r)' <=> Watching(r)
    BY <1>6 DEF WaitStalled, Watching, TypeOK
  <2>2. QED
    BY <1>6, <2>1 DEF WaitStalled, Seen, Records
<1>7. ASSUME NEW s \in Resources, Send(s)
      PROVE  R!Next \/ UNCHANGED Seen
  <2>1. pc # "ended"
    BY <1>7 DEF Send, NeverOrphaned, Watching
  <2>2. \A r \in Resources : Watching(r)' <=> Watching(r)
    BY <1>7, <2>1 DEF Send, Watching, TypeOK
  <2>3. QED
    BY <1>7, <2>2 DEF Send, Seen, Records
<1>8. CASE Receive
  <2>1. Records' = Records
    BY <1>8 DEF Receive, Records, ModeInv, TypeOK
  <2>2. QED
    BY <1>8, <2>1 DEF Receive, Seen, Watching
<1>9. CASE ReceiveFails
  BY <1>9 DEF ReceiveFails, Seen, Watching, Records
<1>10. CASE Drain
  BY <1>10 DEF Drain, Seen, Watching, Records
<1>11. CASE BeginCollect
  BY <1>11, BeginStep DEF R!Next
<1>12. CASE BuildIncident
  BY <1>12 DEF BuildIncident, Seen, Watching, Records
<1>13. CASE SkipRuleAction
  BY <1>13 DEF SkipRuleAction, Firing, Seen, Watching, Records
<1>14. CASE RunRuleCommand
  BY <1>14 DEF RunRuleCommand, CommandDue, Firing, Seen, Watching, Records
<1>15. CASE AppendRuleLog
  BY <1>15 DEF AppendRuleLog, Firing, Seen, Watching, Records
<1>16. CASE Consider
  BY <1>16 DEF Consider, Seen, Watching, Records
<1>17. CASE SendNotice
  BY <1>17 DEF SendNotice, Seen, Watching, Records
<1>18. CASE PushFrame
  BY <1>18 DEF PushFrame, Seen, Watching, Records
<1>19. CASE PollTick
  <2>1. mode = "poll" /\ mode' = "poll"
    BY <1>19 DEF PollTick, ModeInv
  <2>2. QED
    BY <1>19, <2>1 DEF PollTick, Seen, Watching, Records
<1>20. CASE PollPush
  <2>1. mode = "poll" /\ mode' = "poll"
    BY <1>20 DEF PollPush, ModeInv
  <2>2. QED
    BY <1>20, <2>1 DEF PollPush, Seen, Watching, Records
<1>21. CASE UNCHANGED vars
  BY <1>21 DEF vars, Seen, Watching, Records
<1>22. QED
  BY <1>1, <1>2, <1>3, <1>4, <1>5, <1>6, <1>7, <1>8, <1>9, <1>10,
     <1>11, <1>12, <1>13, <1>14, <1>15, <1>16, <1>17, <1>18, <1>19,
     <1>20, <1>21
     DEF Next, WatcherThread, CaptureThread, PollThread

(* The pipeline implements the recorder: no sampling without a notification *)
(* still unanswered, no answer to one that was not raised before the       *)
(* sampling began, no record twice in the log (stallwatchd.rs:209-272).    *)
THEOREM ImplementsRecorder == Spec => RecorderSafety
<1>1. Init => R!Init
  <2>1. Len(<<>>) = 0
    OBVIOUS
  <2>2. QED
    BY <2>1 DEF Init, R!Init, None, Watching, Records
<1>2. IInv /\ [Next]_vars => [R!Next]_(R!recorderVars)
  BY RecorderStep DEF Seen, Busy, R!recorderVars
<1>3. QED
  BY <1>1, <1>2, Inductive, PTL DEF Spec, RecorderSafety, R!Safety
=============================================================================
