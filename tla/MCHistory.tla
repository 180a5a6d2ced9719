------------------------------ MODULE MCHistory -----------------------------
(* Instances of History: two units that stall, one steadily and one hard.   *)
EXTENDS History, TLC

CONSTANTS steady, spiky

(* A quiet tick, one in which `steady` stalls by half, a shorter one in    *)
(* which both do and `spiky` harder.                                       *)
AllKinds ==
    {[window |-> 4, stalls |-> <<>>],
     [window |-> 4, stalls |-> steady :> 2],
     [window |-> 3, stalls |-> (steady :> 1) @@ (spiky :> 2)]}

MCOffsets == {-3, 0, 2}
=============================================================================
