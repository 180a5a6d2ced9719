----------------------------- MODULE MCSampling -----------------------------
(* Two cgroups, one inside the other. *)
EXTENDS Sampling, TLC

CONSTANTS top, leaf, memory, io

MCAbove == (top :> {}) @@ (leaf :> {top})
MCUnreadable == {{}, Resource}
MCPlace == (top :> 1) @@ (leaf :> 2)
=============================================================================
