------------------------------ MODULE Cgroups -------------------------------
(* The tree of cgroup v2 paths, as Path::parent and Path's order give it.   *)
EXTENDS Naturals, FiniteSets

CONSTANTS Paths,    \* the paths cgroups may have
          Above,    \* the proper ancestors of a path
          Place     \* its place when all paths are sorted by components

ASSUME CgroupAssumption ==
    /\ IsFiniteSet(Paths)
    /\ Above \in [Paths -> SUBSET Paths]
    /\ Place \in [Paths -> 1 .. Cardinality(Paths)]
    /\ \A p, q \in Paths : Place[p] = Place[q] => p = q
    /\ \A p \in Paths : \A a \in Above[p] : Place[a] < Place[p] /\ Above[a] \subseteq Above[p]
    /\ \A p \in Paths : \A a, b \in Above[p] : a = b \/ a \in Above[b] \/ b \in Above[a]

(* other != cg && other.starts_with(cg) *)
Below(p) == {q \in Paths : p \in Above[q]}

(* p is the lowest of the paths S above q. *)
Nearest(p, q, S) ==
    /\ p \in S \cap Above[q]
    /\ \A a \in S \cap Above[q] : a = p \/ a \in Above[p]
=============================================================================
