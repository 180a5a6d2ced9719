------------------------------ MODULE Recorder ------------------------------
(***************************************************************************)
(* What the event-driven daemon promises, with no thread, channel or       *)
(* program counter: the kernel raises numbered notifications per resource, *)
(* the daemon samples when one is unanswered, and the incident record of a *)
(* sampling answers only what was raised before that sampling began.  Each *)
(* notification is answered, unless the daemon went deaf on its resource   *)
(* first.  One record may answer several notifications; none answers       *)
(* nothing.  A record is offered to the log once, and is there at most     *)
(* once: a log that cannot be written loses it, and nothing else.          *)
(***************************************************************************)
EXTENDS Naturals

CONSTANTS Resources,    \* the PSI resources
          MaxBreaches   \* bound of the model: notifications per resource

VARIABLES started,      \* the daemon has decided how it will sample
          listening,    \* the resources somebody is waiting on
          raised,       \* per resource, the notifications raised so far
          sampling,     \* a sampling has begun whose record is not made yet
          sampled,      \* per resource, what was raised when it began, else 0
          answered,     \* per resource, the latest notification answered
          records,      \* how many incidents have been offered to the log
          written       \* how many of them the log holds

recorderVars ==
    <<started, listening, raised, sampling, sampled, answered, records, written>>

Init ==
    /\ started = FALSE
    /\ listening = {}
    /\ raised = [r \in Resources |-> 0]
    /\ sampling = FALSE
    /\ sampled = [r \in Resources |-> 0]
    /\ answered = [r \in Resources |-> 0]
    /\ records = 0
    /\ written = 0

Start ==
    /\ ~started
    /\ started' = TRUE
    /\ listening' \in SUBSET Resources
    /\ UNCHANGED <<raised, sampling, sampled, answered, records, written>>

Raise(r) ==
    /\ r \in listening
    /\ raised[r] < MaxBreaches
    /\ raised' = [raised EXCEPT ![r] = @ + 1]
    /\ UNCHANGED <<started, listening, sampling, sampled, answered, records, written>>

(* The idle daemon samples nothing: something has to be unanswered. *)
Begin ==
    /\ ~sampling
    /\ \E r \in Resources : answered[r] < raised[r]
    /\ sampling' = TRUE
    /\ sampled' = raised
    /\ UNCHANGED <<started, listening, raised, answered, records, written>>

(* The record of the sampling answers a new notification of every resource *)
(* in S, each raised before the sampling began, and reaches the log or not. *)
Record(S) ==
    /\ sampling
    /\ sampling' = FALSE
    /\ sampled' = [r \in Resources |-> 0]
    /\ S # {}
    /\ DOMAIN answered' = Resources
    /\ \A r \in S : answered'[r] \in (answered[r] + 1) .. sampled[r]
    /\ \A r \in Resources \ S : answered'[r] = answered[r]
    /\ records' = records + 1
    /\ written' \in {written, written + 1}
    /\ UNCHANGED <<started, listening, raised>>

Deafen(r) ==
    /\ r \in listening
    /\ listening' = listening \ {r}
    /\ UNCHANGED <<started, raised, sampling, sampled, answered, records, written>>

Next ==
    \/ Start
    \/ Begin
    \/ \E r \in Resources : Raise(r) \/ Deafen(r)
    \/ \E S \in SUBSET Resources : Record(S)

(* A resource that stays listened to has its notifications answered. *)
Responsive ==
    \A r \in Resources : \A k \in 1 .. MaxBreaches :
        (raised[r] >= k) ~> (answered[r] >= k \/ r \notin listening)

Safety == Init /\ [][Next]_recorderVars

Spec == Safety /\ Responsive
=============================================================================
