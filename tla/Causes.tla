------------------------------- MODULE Causes --------------------------------
(* Which cgroups moved the bytes (attribution.rs collect_causes): io.stat is    *)
(* recursive as pressure is, so the pass of Responsibility is made over bytes,  *)
(* and of those it holds responsible the ones that moved enough are reported.   *)
EXTENDS Responsibility

CONSTANTS
    MIN_CAUSE,    \* MIN_CAUSE_BYTES, in the unit of the deltas
    MAX_CAUSES    \* how many are reported

ASSUME CausesAssumption == MIN_CAUSE \in Nat /\ MAX_CAUSES \in Nat

VARIABLES
    judged,    \* the causes are there
    causes     \* the cgroups reported

CausesInit == Init /\ judged = FALSE /\ causes = {}

Movers == {p \in Present : deltas[p] >= MIN_CAUSE /\ IsResponsible(p)}

(* Sorted by bytes and truncated; equal ones come in any order.                 *)
Biggest(S) ==
    {T \in SUBSET S :
        /\ Cardinality(T) = IF Cardinality(S) < MAX_CAUSES THEN Cardinality(S) ELSE MAX_CAUSES
        /\ \A p \in T, q \in S \ T : deltas[p] >= deltas[q]}

PropagateBytes(p) == ~judged /\ Propagate(p) /\ UNCHANGED <<judged, causes>>

(* Mutant: only a cgroup that has nothing below it answers for bytes.           *)
CollectLeaves ==
    /\ ~judged /\ todo = {} /\ \A p \in Present : deltas[p] > 0
    /\ causes' \in Biggest({p \in Movers : maxDescendant[p] = 0})
    /\ judged' = TRUE
    /\ UNCHANGED vars

(* A cgroup that moved no bytes is left out before the pass.                    *)
CollectCauses ==
    /\ ~judged /\ todo = {} /\ \A p \in Present : deltas[p] > 0
    /\ causes' \in Biggest(Movers)
    /\ judged' = TRUE
    /\ UNCHANGED vars

-----------------------------------------------------------------------------
(* The number of measured cgroups between p and the bottom of its longest chain.*)
Depth(p) ==
    LET Chain(C) == \A a, b \in C : a = b \/ a \in Above[b] \/ b \in Above[a]
        Chains == {C \in SUBSET (Present \cap Below(p)) : Chain(C)}
    IN  CHOOSE n \in 0..Cardinality(Present) :
            /\ \E C \in Chains : Cardinality(C) = n
            /\ \A C \in Chains : Cardinality(C) <= n

(* The powers of b.                                                             *)
Power(b) == LET power[n \in Nat] == IF n = 0 THEN 1 ELSE b * power[n - 1] IN power

(* Blame passed down and the threshold, applied one after the other, lose a     *)
(* mover only if it was within a fifth of the threshold for every level below   *)
(* it: otherwise it or something below it is reported, unless the list is full  *)
(* of bigger ones.                                                              *)
MoverReported ==
    judged => \A p \in Present :
        LET moved == deltas[p] * Power(CHILD_DOMINANCE)[Depth(p)]
            whole == Power(100)[Depth(p)]
        IN  moved >= MIN_CAUSE * whole =>
                \/ \E q \in causes : q = p \/ q \in Below(p)
                \/ Cardinality(causes) = MAX_CAUSES /\ \A q \in causes : deltas[q] * whole >= moved
=============================================================================
