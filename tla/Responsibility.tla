--------------------------- MODULE Responsibility ---------------------------
(***************************************************************************)
(* Who is to blame for a stall (attribution.rs): PSI counts a stall at a   *)
(* cgroup and again at the cgroups above it, so a cgroup answers for its   *)
(* stall unless one descendant owns CHILD_DOMINANCE percent of it.  The    *)
(* worst descendant of every cgroup is found in one pass over the sorted   *)
(* paths, last first, each handing its subtree's worst to the nearest      *)
(* cgroup above it that was measured.                                      *)
(***************************************************************************)
EXTENDS Cgroups

CONSTANT Usecs      \* what a cgroup may have stalled in the window

ASSUME ResponsibilityAssumption == Usecs \subseteq Nat

VARIABLES deltas,         \* the stall of each cgroup measured
          todo,           \* paths the pass has not come to
          maxDescendant   \* Responsibility::max_descendant

vars == <<deltas, todo, maxDescendant>>

Present == DOMAIN deltas

Init ==
    /\ \E S \in SUBSET Paths : deltas \in [S -> Usecs]
    /\ todo = Present
    /\ maxDescendant = [p \in Present |-> 0]

(* The worst of p's subtree, once everything below p has been handed up. *)
Subtree(p) == IF deltas[p] > maxDescendant[p] THEN deltas[p] ELSE maxDescendant[p]

IsNext(p) == p \in todo /\ \A q \in todo : Place[q] <= Place[p]

(* Mutant: the walk upwards starts at the path itself. *)
PropagateFromSelf(p) ==
    /\ IsNext(p)
    /\ todo' = todo \ {p}
    /\ maxDescendant' = [maxDescendant EXCEPT ![p] = Subtree(p)]
    /\ UNCHANGED deltas

(* Mutant: sorted ascending, ancestors first. *)
PropagateDown(p) ==
    /\ p \in todo
    /\ \A q \in todo : Place[p] <= Place[q]
    /\ todo' = todo \ {p}
    /\ maxDescendant' = [a \in Present |->
         IF Nearest(a, p, Present) /\ Subtree(p) > maxDescendant[a]
         THEN Subtree(p) ELSE maxDescendant[a]]
    /\ UNCHANGED deltas

(* One turn of the loop over the paths in reverse order. *)
Propagate(p) ==
    /\ IsNext(p)
    /\ todo' = todo \ {p}
    /\ maxDescendant' = [a \in Present |->
         IF Nearest(a, p, Present) /\ Subtree(p) > maxDescendant[a]
         THEN Subtree(p) ELSE maxDescendant[a]]
    /\ UNCHANGED deltas

Next == \E p \in Paths : Propagate(p)

Spec == Init /\ [][Next]_vars

CHILD_DOMINANCE == 80

IsResponsible(p) ==
    /\ deltas[p] # 0
    /\ maxDescendant[p] * 100 < deltas[p] * CHILD_DOMINANCE

-----------------------------------------------------------------------------
(* Properties. *)

(* The pass keeps one slot for every cgroup measured and no other          *)
(* (attribution.rs:54, 70).                                                *)
TypeOK ==
    /\ Present \subseteq Paths
    /\ deltas \in [Present -> Nat]
    /\ todo \subseteq Present
    /\ maxDescendant \in [Present -> Nat]

Finished == todo = {}

(* is_responsible_naive, "kept for differential testing": no measured      *)
(* descendant, at whatever depth, has CHILD_DOMINANCE percent of it.       *)
Naive(p) ==
    /\ deltas[p] # 0
    /\ \A q \in Present \cap Below(p) : deltas[q] * 100 < deltas[p] * CHILD_DOMINANCE

(* The pass agrees with the naive rule on every input, with gaps in the    *)
(* hierarchy.  Paths are values here: that a name which only begins like   *)
(* another (the siblings of attribution.rs:497) is not below it is left to *)
(* Path::starts_with and Path::parent.                                     *)
AgreesWithNaive == Finished => \A p \in Present : IsResponsible(p) <=> Naive(p)

(* Blame is never lost: whatever stalled, it or something below it is      *)
(* responsible.                                                            *)
SomeoneToBlame ==
    Finished =>
        \A p \in Present :
            deltas[p] # 0 => \E q \in Present \cap (Below(p) \cup {p}) : IsResponsible(q)

(* The inductive invariant: the paths done are the last ones, and a slot   *)
(* holds the worst stall of what has been handed up to it, which is the    *)
(* subtrees of the done cgroups right below it.                            *)
HandedUp(p) ==
    {q \in Present \cap Below(p) :
        \E e \in Present \ todo : Nearest(p, e, Present) /\ (q = e \/ q \in Below(e))}

IsWorst(usec, S) ==
    /\ \A q \in S : deltas[q] <= usec
    /\ usec = 0 \/ \E q \in S : deltas[q] = usec

PassInv ==
    /\ \A p \in Present \ todo : \A q \in todo : Place[q] < Place[p]
    /\ \A p \in Present : IsWorst(maxDescendant[p], HandedUp(p))
=============================================================================
