------------------------------ MODULE Capture -------------------------------
(***************************************************************************)
(* The sampling side of stallwatchd: one watcher thread per PSI resource   *)
(* blocked on its kernel trigger, an unbounded mpsc channel, the single    *)
(* capture thread that turns wakes into incidents (log, rules, notice,     *)
(* ring), and the polling loop used when no trigger can be registered.     *)
(*                                                                         *)
(* An incident is its number; what a sweep finds is abstracted to the set  *)
(* of rules it satisfies and to whether the notifier speaks.  A kernel     *)
(* notification is numbered per resource, so that a property can say which *)
(* notification an incident answers.                                       *)
(***************************************************************************)
EXTENDS Integers, Sequences, Ring

CONSTANTS Resources,    \* Resource::ALL
          Rules,        \* the configured rules
          RuleActions,  \* their actions in the order fire_rules runs them:
                        \*   a sequence of [rule, act] records
          ForcePoll,    \* --poll was given
          MaxBreaches,  \* bound: kernel notifications per resource
          MaxTicks      \* bound: frames pushed by the polling loop

ASSUME CaptureAssumption ==
    /\ RuleActions \in Seq([rule : Rules, act : {"notify", "run", "log"}])
    /\ ForcePoll \in BOOLEAN
    /\ MaxBreaches \in Nat
    /\ MaxTicks \in Nat

VARIABLES
    mode,      \* how the daemon samples: "boot", "trigger" or "poll"
    breaches,  \* kernel: notifications raised so far, per resource
    event,     \* kernel: the latched notification of a trigger, 0 if none
    sampled,   \* history: breaches when the sampling began whose
               \*   record is not made yet, else 0
    watcher,   \* per resource, its watcher thread
    held,      \* the notification a woken watcher is about to send
    channel,   \* wakes sent and not yet received
    pc,        \* where the capture thread is
    wokeOn,    \* its woke_on vector
    upTo,      \* per resource, the notification the current capture answers
    hits,      \* the rules the current incident matches
    at,        \* the next element of RuleActions
    captures,  \* incidents (or polled frames) started so far
    log,       \* the incident log, by incident number
    ruleLog,   \* per rule, the log its `log` action names
    covered,   \* per resource, the latest notification answered by a record,
               \*   whether or not the log could be written
    ring,      \* the ring, by incident number
    poller     \* where the polling thread is

kernelVars  == <<breaches, event, sampled>>
watcherVars == <<watcher, held>>
sinkVars    == <<log, ruleLog, covered, ring>>
captureVars == <<pc, wokeOn, upTo, hits, at, captures>>
vars == <<mode, kernelVars, watcherVars, channel, captureVars, sinkVars, poller>>

None == [r \in Resources |-> 0]

(* What a watcher sends; the number is the model's, the code sends the resource. *)
Wake == [res : Resources, n : Nat]

Watching(r) == watcher[r] \in {"waiting", "woken"}

Init ==
    /\ mode = "boot"
    /\ breaches = None
    /\ event = None
    /\ sampled = None
    /\ watcher = [r \in Resources |-> "none"]
    /\ held = None
    /\ channel = <<>>
    /\ pc = "off"
    /\ wokeOn = <<>>
    /\ upTo = None
    /\ hits = {}
    /\ at = 1
    /\ captures = 0
    /\ log = <<>>
    /\ ruleLog = [rule \in Rules |-> <<>>]
    /\ covered = None
    /\ ring = <<>>
    /\ poller = "off"

-----------------------------------------------------------------------------
(* Mutants: plausible bugs the properties are tested against. *)

TriggerNotReset(r) ==
    /\ watcher[r] = "waiting"
    /\ event[r] # 0
    /\ watcher' = [watcher EXCEPT ![r] = "woken"]
    /\ held' = [held EXCEPT ![r] = event[r]]
    /\ UNCHANGED <<mode, kernelVars, channel, captureVars, sinkVars, poller>>

(* A bounded channel and try_send. *)
SendIfEmpty(r) ==
    /\ watcher[r] = "woken"
    /\ watcher' = [watcher EXCEPT ![r] = "waiting"]
    /\ channel' = IF channel = <<>> THEN <<[res |-> r, n |-> held[r]]>> ELSE channel
    /\ held' = [held EXCEPT ![r] = 0]
    /\ UNCHANGED <<mode, kernelVars, captureVars, sinkVars, poller>>

ReceiveNewest ==
    /\ pc = "recv"
    /\ channel # <<>>
    /\ LET first == channel[Len(channel)]
       IN  /\ wokeOn' = <<first.res>>
           /\ upTo' = [None EXCEPT ![first.res] = first.n]
    /\ channel' = SubSeq(channel, 1, Len(channel) - 1)
    /\ captures' = captures + 1
    /\ pc' = "drain"
    /\ UNCHANGED <<mode, kernelVars, watcherVars, hits, at, sinkVars, poller>>

(* try_recv, whose error does not say that the senders are gone. *)
GiveUpWhenEmpty ==
    /\ pc = "recv"
    /\ channel = <<>>
    /\ pc' = "ended"
    /\ UNCHANGED <<mode, kernelVars, watcherVars, channel, wokeOn, upTo, hits,
                   at, captures, sinkVars, poller>>

(* The wakes that came during the sampling are thrown away. *)
DropWhileSampling ==
    /\ pc = "collect"
    /\ hits' \in SUBSET Rules
    /\ channel' = <<>>
    /\ pc' = "append"
    /\ UNCHANGED <<mode, kernelVars, watcherVars, wokeOn, upTo, at,
                   captures, sinkVars, poller>>

(* The queue is drained after the sampling instead of before it: the record *)
(* names wakes that its sampling did not wait for.                         *)
DrainAfterSampling ==
    /\ pc = "collect"
    /\ hits' \in SUBSET Rules
    /\ upTo' = [r \in Resources |->
                  LET wakes == SelectSeq(channel, LAMBDA wake : wake.res = r)
                  IN  IF wakes = <<>> THEN upTo[r] ELSE wakes[Len(wakes)].n]
    /\ channel' = <<>>
    /\ pc' = "append"
    /\ UNCHANGED <<mode, kernelVars, watcherVars, wokeOn, at,
                   captures, sinkVars, poller>>

-----------------------------------------------------------------------------
(* Start-up: the loop over Resource::ALL, then the choice of mode. *)

StartTriggers ==
    /\ mode = "boot"
    /\ ~ForcePoll
    /\ \E registered \in SUBSET Resources \ {{}} :
         watcher' = [r \in Resources |->
                       IF r \in registered THEN "waiting" ELSE "none"]
    /\ mode' = "trigger"
    /\ pc' = "recv"
    /\ UNCHANGED <<kernelVars, held, channel, wokeOn, upTo, hits, at, captures,
                   sinkVars, poller>>

(* --poll, or no trigger could be registered. *)
StartPolling ==
    /\ mode = "boot"
    /\ mode' = "poll"
    /\ poller' = "sleep"
    /\ UNCHANGED <<kernelVars, watcherVars, channel, captureVars, sinkVars>>

-----------------------------------------------------------------------------
(* The kernel and the watcher threads. *)

(* PSI crossed the threshold: the trigger latches one event. *)
Notify(r) ==
    /\ Watching(r)
    /\ breaches[r] < MaxBreaches
    /\ breaches' = [breaches EXCEPT ![r] = @ + 1]
    /\ event' = [event EXCEPT ![r] = breaches'[r]]
    /\ UNCHANGED <<mode, sampled, watcherVars, channel, captureVars, sinkVars, poller>>

WaitStalled(r) ==
    /\ watcher[r] = "waiting"
    /\ event[r] # 0
    /\ watcher' = [watcher EXCEPT ![r] = "woken"]
    /\ held' = [held EXCEPT ![r] = event[r]]
    /\ event' = [event EXCEPT ![r] = 0]
    /\ UNCHANGED <<mode, breaches, sampled, channel, captureVars, sinkVars, poller>>

(* poll(2) failed or returned POLLERR: the watcher thread returns. *)
WaitFails(r) ==
    /\ watcher[r] = "waiting"
    /\ watcher' = [watcher EXCEPT ![r] = "stopped"]
    /\ UNCHANGED <<mode, kernelVars, held, channel, captureVars, sinkVars, poller>>

(* tx.send fails, and the watcher returns, only if the receiver is gone. *)
Send(r) ==
    /\ watcher[r] = "woken"
    /\ IF pc = "ended"
       THEN /\ watcher' = [watcher EXCEPT ![r] = "stopped"]
            /\ UNCHANGED channel
       ELSE /\ watcher' = [watcher EXCEPT ![r] = "waiting"]
            /\ channel' = Append(channel, [res |-> r, n |-> held[r]])
    /\ held' = [held EXCEPT ![r] = 0]
    /\ UNCHANGED <<mode, kernelVars, captureVars, sinkVars, poller>>

-----------------------------------------------------------------------------
(* The capture thread. *)

(* rx.recv() returned the first wake of a new capture. *)
Receive ==
    /\ pc = "recv"
    /\ channel # <<>>
    /\ wokeOn' = <<Head(channel).res>>
    /\ upTo' = [None EXCEPT ![Head(channel).res] = Head(channel).n]
    /\ channel' = Tail(channel)
    /\ captures' = captures + 1
    /\ pc' = "drain"
    /\ UNCHANGED <<mode, kernelVars, watcherVars, hits, at, sinkVars, poller>>

(* rx.recv() fails once every sender is dropped and nothing is queued. *)
ReceiveFails ==
    /\ pc = "recv"
    /\ channel = <<>>
    /\ \A r \in Resources : ~Watching(r)
    /\ pc' = "ended"
    /\ UNCHANGED <<mode, kernelVars, watcherVars, channel, wokeOn, upTo, hits,
                   at, captures, sinkVars, poller>>

(* One turn of the try_recv loop that found a wake. *)
Drain ==
    /\ pc = "drain"
    /\ channel # <<>>
    /\ LET also == Head(channel)
       IN  /\ wokeOn' = IF \E i \in 1 .. Len(wokeOn) : wokeOn[i] = also.res
                        THEN wokeOn ELSE Append(wokeOn, also.res)
           /\ upTo' = [upTo EXCEPT ![also.res] = also.n]
    /\ channel' = Tail(channel)
    /\ UNCHANGED <<mode, kernelVars, watcherVars, pc, hits, at, captures,
                   sinkVars, poller>>

(* try_recv found nothing: attribution::collect takes its first sweep. *)
BeginCollect ==
    /\ pc = "drain"
    /\ channel = <<>>
    /\ sampled' = breaches
    /\ pc' = "collect"
    /\ UNCHANGED <<mode, breaches, event, watcherVars, channel, wokeOn, upTo,
                   hits, at, captures, sinkVars, poller>>

(* The capture window closes, process::drill sweeps, the Incident is built. *)
BuildIncident ==
    /\ pc = "collect"
    /\ hits' \in SUBSET Rules
    /\ pc' = "append"
    /\ UNCHANGED <<mode, kernelVars, watcherVars, channel, wokeOn, upTo, at,
                   captures, sinkVars, poller>>

(* append_incident, best effort: a failed write is reported and forgotten. *)
AppendIncident ==
    /\ pc = "append"
    /\ log' = Append(log, captures) \/ UNCHANGED log
    /\ covered' = [r \in Resources |->
                     IF upTo[r] # 0 THEN upTo[r] ELSE covered[r]]
    /\ sampled' = None
    /\ at' = 1
    /\ pc' = "rules"
    /\ UNCHANGED <<mode, breaches, event, watcherVars, channel, wokeOn, upTo, hits,
                   captures, ruleLog, ring, poller>>

(* The rest of fire_rules: the action at the cursor belongs to a rule that *)
(* matched no stall, or is a command to wait for, or an append to the log  *)
(* the rule names (best effort, like the incident log).                    *)
Firing == pc = "rules" /\ at <= Len(RuleActions)

CommandDue ==
    /\ Firing
    /\ RuleActions[at].rule \in hits
    /\ RuleActions[at].act \in {"notify", "run"}

SkipRuleAction ==
    /\ Firing
    /\ RuleActions[at].rule \notin hits
    /\ at' = at + 1
    /\ UNCHANGED <<mode, kernelVars, watcherVars, channel, pc, wokeOn, upTo,
                   hits, captures, sinkVars, poller>>

RunRuleCommand ==
    /\ CommandDue
    /\ at' = at + 1
    /\ UNCHANGED <<mode, kernelVars, watcherVars, channel, pc, wokeOn, upTo,
                   hits, captures, sinkVars, poller>>

AppendRuleLog ==
    /\ Firing
    /\ RuleActions[at].rule \in hits
    /\ RuleActions[at].act = "log"
    /\ \/ ruleLog' = [ruleLog EXCEPT ![RuleActions[at].rule] = Append(@, captures)]
       \/ UNCHANGED ruleLog
    /\ at' = at + 1
    /\ UNCHANGED <<mode, kernelVars, watcherVars, channel, pc, wokeOn, upTo,
                   hits, captures, log, covered, ring, poller>>

(* notifier.consider: FALSE is no notice, TRUE one that has to be sent. *)
Consider ==
    /\ pc = "rules"
    /\ at > Len(RuleActions)
    /\ pc' \in {"send", "push"}
    /\ UNCHANGED <<mode, kernelVars, watcherVars, channel, wokeOn, upTo, hits,
                   at, captures, sinkVars, poller>>

(* notify::send waits for notify-send. *)
SendNotice ==
    /\ pc = "send"
    /\ pc' = "push"
    /\ UNCHANGED <<mode, kernelVars, watcherVars, channel, wokeOn, upTo, hits,
                   at, captures, sinkVars, poller>>

PushFrame ==
    /\ pc = "push"
    /\ ring' = PushTo(ring, captures)
    /\ pc' = "recv"
    /\ UNCHANGED <<mode, kernelVars, watcherVars, channel, wokeOn, upTo, hits,
                   at, captures, log, ruleLog, covered, poller>>

-----------------------------------------------------------------------------
(* The polling loop: sleep, tick, push.  It keeps no incident log. *)

PollTick ==
    /\ poller = "sleep"
    /\ captures < MaxTicks
    /\ captures' = captures + 1
    /\ poller' = "push"
    /\ UNCHANGED <<mode, kernelVars, watcherVars, channel, pc, wokeOn, upTo,
                   hits, at, sinkVars>>

PollPush ==
    /\ poller = "push"
    /\ ring' = PushTo(ring, captures)
    /\ poller' = "sleep"
    /\ UNCHANGED <<mode, kernelVars, watcherVars, channel, captureVars, log,
                   ruleLog, covered>>

-----------------------------------------------------------------------------
CaptureThread ==
    \/ Receive \/ ReceiveFails \/ Drain \/ BeginCollect \/ BuildIncident
    \/ AppendIncident \/ SkipRuleAction \/ RunRuleCommand \/ AppendRuleLog
    \/ Consider \/ SendNotice \/ PushFrame

WatcherThread(r) == WaitStalled(r) \/ Send(r)

PollThread == PollTick \/ PollPush

Next ==
    \/ StartTriggers
    \/ StartPolling
    \/ \E r \in Resources : Notify(r) \/ WaitFails(r) \/ WatcherThread(r)
    \/ CaptureThread
    \/ PollThread

Spec == Init /\ [][Next]_vars

(* The kernel is under no obligation to stall or to fail.  The daemon's    *)
(* own steps are fair because nothing in them waits: every wait of the     *)
(* capture thread is for a wake or for a command it has started.           *)
OwnFairness ==
    /\ WF_vars(StartTriggers \/ StartPolling)
    /\ WF_vars(CaptureThread /\ ~CommandDue /\ pc # "send")
    /\ WF_vars(PollThread)
    /\ \A r \in Resources : WF_vars(WatcherThread(r))

(* Commands return: a rule's shell command, notify-send. *)
CommandFairness == WF_vars(RunRuleCommand \/ SendNotice)

FairSpec == Spec /\ OwnFairness

-----------------------------------------------------------------------------
(* Properties. *)

(* Every variable keeps the shape the daemon gives it; the channel carries *)
(* numbered wakes of known resources (stallwatchd.rs, start_trigger_capture). *)
TypeOK ==
    /\ mode \in {"boot", "trigger", "poll"}
    /\ breaches \in [Resources -> Nat]
    /\ event \in [Resources -> Nat]
    /\ sampled \in [Resources -> Nat]
    /\ watcher \in [Resources -> {"none", "waiting", "woken", "stopped"}]
    /\ held \in [Resources -> Nat]
    /\ channel \in Seq(Wake)
    /\ pc \in {"off", "recv", "drain", "collect", "append", "rules", "send",
               "push", "ended"}
    /\ wokeOn \in Seq(Resources)
    /\ upTo \in [Resources -> Nat]
    /\ hits \subseteq Rules
    /\ at \in Nat \ {0}
    /\ captures \in Nat
    /\ log \in Seq(Nat)
    /\ ruleLog \in [Rules -> Seq(Nat)]
    /\ covered \in [Resources -> Nat]
    /\ ring \in Seq(Nat)
    /\ poller \in {"off", "sleep", "push"}

(* Notification n of r is past its watcher: queued, in the capture being   *)
(* taken, or answered by a record.                                         *)
Sent(r, n) ==
    \/ n \in {upTo[r], covered[r]}
    \/ \E i \in 1 .. Len(channel) : channel[i].res = r /\ channel[i].n = n

Kept(r) == breaches[r] \in {event[r], held[r]} \/ Sent(r, breaches[r])

(* The latest notification of a resource that is still watched is always   *)
(* somewhere: latched, in its watcher's hands, queued, in the capture being *)
(* taken or recorded.  Latching, draining and the overlap of a capture with *)
(* new wakes coalesce notifications; they never drop the last one.         *)
NoWakeLost == \A r \in Resources : Watching(r) => Kept(r)

(* The positions of r's wakes in the channel. *)
Queued(r) == {i \in 1 .. Len(channel) : channel[i].res = r}

(* n is later than every notification of r being captured or recorded. *)
Later(r, n) == upTo[r] < n /\ covered[r] < n

OrderOf(r) ==
    /\ upTo[r] <= breaches[r] /\ covered[r] <= breaches[r]
    /\ upTo[r] # 0 => covered[r] <= upTo[r]
    /\ \A i \in Queued(r) :
         /\ channel[i].n <= breaches[r]
         /\ Later(r, channel[i].n)
         /\ \A j \in Queued(r) : i < j => channel[i].n < channel[j].n
    /\ held[r] # 0 =>
         /\ held[r] <= breaches[r]
         /\ Later(r, held[r])
         /\ \A i \in Queued(r) : channel[i].n < held[r]
    /\ event[r] # 0 =>
         /\ event[r] = breaches[r]
         /\ held[r] < event[r]
         /\ Later(r, event[r])
         /\ \A i \in Queued(r) : channel[i].n < event[r]

(* Notifications move through the pipeline in order and are never handled  *)
(* twice: recorded <= being captured < queued (oldest first) < in the      *)
(* watcher's hands < latched, and what is latched is the latest.           *)
PipelineOrder == \A r \in Resources : OrderOf(r)

(* The capture thread gives up only when every watcher has, with nothing   *)
(* queued: no watcher ever sends to a receiver that is gone.               *)
NeverOrphaned ==
    pc = "ended" => /\ channel = <<>>
                    /\ \A r \in Resources : ~Watching(r)

(* Incidents offered to the log. *)
Records ==
    IF mode # "trigger" THEN 0
    ELSE IF pc \in {"drain", "collect", "append"} THEN captures - 1
    ELSE captures

(* The detailed daemon implements the recorder's promise. *)
R == INSTANCE Recorder
       WITH started <- mode # "boot",
            listening <- {r \in Resources : Watching(r)},
            raised <- breaches,
            sampling <- pc \in {"collect", "append"},
            answered <- covered,
            records <- Records,
            written <- Len(log)

(* A record answers only notifications raised before its sampling began,   *)
(* at least one of them new, none twice; the daemon samples for nothing    *)
(* else, and a record reaches the log at most once (stallwatchd.rs:209-272). *)
RecorderSafety == R!Safety

(* Every notification of a resource that stays watched is answered, if the *)
(* commands the daemon starts return.                                      *)
RecorderResponsive == CommandFairness => R!Responsive

(* Without assuming that commands return: a notification is left waiting   *)
(* only behind a command of an earlier incident, never behind one of its   *)
(* own incident, whose record is made before any command is started.       *)
AnsweredUnlessCommandHangs ==
    \A r \in Resources : \A k \in 1 .. MaxBreaches :
        (breaches[r] >= k) ~>
            \/ covered[r] >= k
            \/ ~Watching(r)
            \/ upTo[r] < k /\ (CommandDue \/ pc = "send")

(* The inductive invariant behind NoWakeLost and the refinement: besides   *)
(* the order of the pipeline, where each thread can be in each mode, that  *)
(* a woken watcher holds a notification, that a capture answers something  *)
(* new until its record is made and nothing new afterwards, and that what  *)
(* it answers was raised before its sampling began.                        *)
ModeInv ==
    /\ mode = "boot" => /\ breaches = None
                        /\ upTo = None
                        /\ covered = None
                        /\ channel = <<>>
                        /\ \A r \in Resources : watcher[r] = "none"
                        /\ captures = 0
    /\ (mode = "trigger") <=> (pc # "off")
    /\ mode # "trigger" => channel = <<>>
    /\ (mode = "poll") <=> (poller # "off")
    /\ mode # "trigger" => \A r \in Resources : watcher[r] = "none"

SamplingInv ==
    pc \in {"collect", "append"} => \A r \in Resources : upTo[r] <= sampled[r]

CaptureInv ==
    /\ \A r \in Resources : watcher[r] = "woken" => held[r] # 0
    /\ pc \in {"drain", "collect", "append"} =>
         /\ \E r \in Resources : covered[r] < upTo[r]
         /\ captures # 0
    /\ pc \notin {"drain", "collect", "append"} =>
         \A r \in Resources : upTo[r] # 0 => covered[r] = upTo[r]

IInv ==
    /\ TypeOK
    /\ ModeInv
    /\ CaptureInv
    /\ SamplingInv
    /\ PipelineOrder
    /\ NoWakeLost
    /\ NeverOrphaned

(* stallwatchd.rs:155 calls sitting silently and recording nothing "the one *)
(* failure mode a diagnostic must never have": once started, something is  *)
(* always there to record.                                                 *)
NeverSilent == mode = "trigger" => pc # "ended"
=============================================================================
