-------------------------------- MODULE Ring --------------------------------
(* The bounded ring of frames (ring.rs), as an operation on sequences.      *)
EXTENDS Naturals, Sequences

CONSTANT Capacity       \* frames the ring holds

ASSUME RingAssumption == Capacity \in Nat \ {0}

(* Ring::push: the oldest frame makes room when the ring is full. *)
PushTo(frames, frame) ==
    Append(IF Len(frames) = Capacity THEN Tail(frames) ELSE frames, frame)
=============================================================================
