------------------------------ MODULE MCCapture ------------------------------
(* Instances of Capture: two resources, one or two rules. *)
EXTENDS Capture

CONSTANTS cpu, io, pager, logger

(* A rule that runs a command and then appends to its own log. *)
OneRule == <<[rule |-> logger, act |-> "run"], [rule |-> logger, act |-> "log"]>>

(* Two rules, so that one can match without the other. *)
TwoRules == <<[rule |-> pager, act |-> "notify"], [rule |-> logger, act |-> "log"]>>
=============================================================================
