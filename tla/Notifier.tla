------------------------------ MODULE Notifier ------------------------------
(***************************************************************************)
(* When the daemon speaks up (notify.rs): captures are accumulated as      *)
(* beats of an episode, and a notice is due when the beats of the last     *)
(* Window add up to MinStall and the last notice is Cooldown old.  All of  *)
(* it is reckoned on the wall clock, in seconds, which may be stepped      *)
(* either way; a restarted daemon starts over.                             *)
(*                                                                         *)
(* `history`, `sent`, `notices`, `run` and `stepped` are the model's: what *)
(* the process has been given, how much of it the last notice spoke of,    *)
(* every notice so far, which process this is, and whether the clock has   *)
(* gone back under it.                                                     *)
(***************************************************************************)
EXTENDS Integers, Sequences, Functions

CONSTANTS Enabled,      \* Notifier::enabled
          Window,       \* EPISODE_WINDOW
          MinStall,     \* EPISODE_MIN_STALL
          Cooldown,     \* Notifier::cooldown
          Deltas,       \* delta_usec of a capture's worst stall
          MaxClock,     \* bound: the latest time on the wall clock
          MaxCaptures,  \* bound: captures with stalls per process
          MaxIgnored,   \* bound: captures without, before the count is full
          MaxRuns       \* bound: processes

ASSUME NotifierAssumption ==
    /\ Enabled \in BOOLEAN
    /\ Window \in Nat
    /\ MinStall \in Nat
    /\ Cooldown \in Nat
    /\ Deltas \subseteq Nat
    /\ MaxClock \in Nat

VARIABLES clock,        \* now_unix()
          lastSent,     \* last_sent_unix
          suppressed,   \* captures silenced since the last notice
          beats,        \* the episode
          history, sent, notices, run, stepped

notifierVars == <<lastSent, suppressed, beats>>
ghostVars == <<history, sent, notices>>
vars == <<clock, notifierVars, ghostVars, run, stepped>>

(* last_sent_unix: None. *)
Never == -1

(* Mutant: abs_diff. *)
AbsDiff(later, earlier) ==
    IF later < earlier THEN earlier - later ELSE later - earlier

(* later.saturating_sub(earlier) *)
Since(later, earlier) == IF later < earlier THEN 0 ELSE later - earlier

(* Mutant: a beat just at the cutoff goes too. *)
PrunedToo(q, cutoff) ==
    LET k == CHOOSE j \in 0 .. Len(q) :
               /\ \A i \in 1 .. j : q[i].at <= cutoff
               /\ j < Len(q) => q[j + 1].at > cutoff
    IN  SubSeq(q, k + 1, Len(q))

(* pop_front while the front is before the cutoff. *)
Pruned(q, cutoff) ==
    LET k == CHOOSE j \in 0 .. Len(q) :
               /\ \A i \in 1 .. j : q[i].at < cutoff
               /\ j < Len(q) => q[j + 1].at >= cutoff
    IN  SubSeq(q, k + 1, Len(q))

(* What the captures of h at the positions I add up to. *)
Stalled(h, I) == SumFunction([i \in I |-> h[i].stalled])

(* Notifier::new *)
Fresh ==
    /\ lastSent = Never
    /\ suppressed = 0
    /\ beats = <<>>

Init ==
    /\ clock = 0
    /\ Fresh
    /\ history = <<>>
    /\ sent = 0
    /\ notices = <<>>
    /\ run = 1
    /\ stepped = FALSE

-----------------------------------------------------------------------------
Advance ==
    /\ clock < MaxClock
    /\ clock' = clock + 1
    /\ UNCHANGED <<notifierVars, ghostVars, run, stepped>>

StepClock ==
    /\ clock' \in 0 .. MaxClock
    /\ stepped' = (stepped \/ clock' < clock)
    /\ UNCHANGED <<notifierVars, ghostVars, run>>

(* A capture without stalls or of a kernel-side, transient condition only: *)
(* not a beat; the latter is counted.                                      *)
IgnoreTransient ==
    /\ Enabled
    /\ suppressed < MaxIgnored
    /\ suppressed' = suppressed + 1
    /\ UNCHANGED <<clock, lastSent, beats, ghostVars, run, stepped>>

Beat(delta) == [at |-> clock, stalled |-> delta]

(* The episode once a capture is accounted for. *)
Kept(delta) == Pruned(Append(beats, Beat(delta)), Since(clock, Window))

Considered(delta) ==
    /\ Enabled
    /\ Len(history) < MaxCaptures
    /\ history' = Append(history, Beat(delta))
    /\ UNCHANGED <<clock, run, stepped>>

Chronic(delta) == Stalled(Kept(delta), DOMAIN Kept(delta)) >= MinStall

Cooling == lastSent # Never /\ Since(clock, lastSent) < Cooldown

KeepWatching(delta) ==
    /\ Considered(delta)
    /\ ~Chronic(delta)
    /\ beats' = Kept(delta)
    /\ UNCHANGED <<lastSent, suppressed, sent, notices>>

(* Mutant: the rate limit is looked at first. *)
ForgetWhileCooling(delta) ==
    /\ Considered(delta)
    /\ Cooling
    /\ suppressed' = suppressed + 1
    /\ UNCHANGED <<beats, lastSent, sent, notices>>

HoldBack(delta) ==
    /\ Considered(delta)
    /\ Chronic(delta)
    /\ Cooling
    /\ beats' = Kept(delta)
    /\ suppressed' = suppressed + 1
    /\ UNCHANGED <<lastSent, sent, notices>>

Notice(delta) ==
    [at |-> clock, run |-> run,
     from |-> Len(history') - Len(Kept(delta)) + 1, upTo |-> Len(history')]

(* Mutant: the episode goes on after its notice. *)
AnnounceAndKeep(delta) ==
    /\ Considered(delta)
    /\ Chronic(delta)
    /\ ~Cooling
    /\ beats' = Kept(delta)
    /\ suppressed' = 0
    /\ lastSent' = clock
    /\ sent' = Len(history')
    /\ notices' = Append(notices, Notice(delta))

Announce(delta) ==
    /\ Considered(delta)
    /\ Chronic(delta)
    /\ ~Cooling
    /\ beats' = <<>>
    /\ suppressed' = 0
    /\ lastSent' = clock
    /\ sent' = Len(history')
    /\ notices' = Append(notices, Notice(delta))

Restart ==
    /\ run < MaxRuns
    /\ run' = run + 1
    /\ lastSent' = Never
    /\ suppressed' = 0
    /\ beats' = <<>>
    /\ history' = <<>>
    /\ sent' = 0
    /\ stepped' = FALSE
    /\ UNCHANGED <<clock, notices>>

Next ==
    \/ Advance \/ StepClock \/ Restart
    \/ IgnoreTransient
    \/ \E delta \in Deltas :
         KeepWatching(delta) \/ HoldBack(delta) \/ Announce(delta)

Spec == Init /\ [][Next]_vars

-----------------------------------------------------------------------------
(* Properties. *)

Beats == [at : Nat, stalled : Nat]
Notices == [at : Nat, run : Nat, from : Int, upTo : Nat]

(* The notifier's state and what it has said keep their shapes. *)
TypeOK ==
    /\ clock \in Nat
    /\ lastSent \in Nat \cup {Never}
    /\ suppressed \in Nat
    /\ beats \in Seq(Beats)
    /\ history \in Seq(Beats)
    /\ sent \in Nat
    /\ notices \in Seq(Notices)
    /\ run \in Nat
    /\ stepped \in BOOLEAN

(* Any two notices of one process are a cooldown apart by their own        *)
(* stamps, however the wall clock was stepped in between (notify.rs:191).  *)
NoticesSpaced ==
    \A i, j \in 1 .. Len(notices) :
        i < j /\ notices[i].run = notices[j].run =>
            Cooldown = 0 \/ notices[j].at - notices[i].at >= Cooldown

(* What makes NoticesSpaced inductive: last_sent_unix is the stamp of this *)
(* process's last notice, and None if it has sent none.                    *)
LastSentIsLast ==
    /\ \A i \in 1 .. Len(notices) : notices[i].run <= run
    /\ lastSent = Never => \A i \in 1 .. Len(notices) : notices[i].run # run
    /\ lastSent # Never => /\ notices # <<>>
                           /\ notices[Len(notices)].run = run
                           /\ notices[Len(notices)].at = lastSent

(* The captures the last notice has not spoken of and that were not yet    *)
(* Window old when the latest one came in.                                 *)
Episode(h) ==
    {i \in sent + 1 .. Len(h) : h[i].at >= Since(h[Len(h)].at, Window)}

(* The deque is the episode: pruning at the front alone forgets exactly    *)
(* the captures that have aged out, as long as the clock never went back;  *)
(* if it did, the deque is still the end of what was not yet spoken of.    *)
BeatsAreEpisode ==
    LET k == Len(history) - Len(beats)
    IN  /\ sent <= k
        /\ \A i \in 1 .. Len(beats) : beats[i] = history[k + i]
        /\ ~stepped => Episode(history) = k + 1 .. Len(history)

(* No capture is counted for two notices of a process, and every notice    *)
(* rests on MinStall of captures of its own process, clock steps or not.   *)
PaidOnce ==
    \A j \in 1 .. Len(notices) :
        notices[j].run = run =>
            /\ notices[j].upTo <= Len(history)
            /\ Stalled(history, notices[j].from .. notices[j].upTo) >= MinStall
            /\ \A i \in 1 .. j - 1 :
                 notices[i].run = run => notices[i].upTo < notices[j].from

(* The rule of notify.rs:34-38, on the captures and not on the deque: with *)
(* a clock that does not go back, a capture is announced if and only if    *)
(* the captures of the last Window, those of the last notice left out, add *)
(* up to MinStall and a cooldown has passed since that notice.             *)
RuleFollowed ==
    [][~stepped /\ Len(history') = Len(history) + 1 =>
         (notices' # notices <=>
            /\ Stalled(history', Episode(history')) >= MinStall
            /\ \A i \in 1 .. Len(notices) :
                 notices[i].run = run => clock - notices[i].at >= Cooldown)]_vars
=============================================================================
