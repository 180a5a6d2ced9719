---------------------------- MODULE IncidentProofs ----------------------------
(* Proofs about one incident, for any tree of cgroups and any processes: the   *)
(* pass blames whom it should also as a part of the whole, and loses a mover   *)
(* by a fifth for every level at most; each process is charged what it moved,  *)
(* whoever exits and whoever takes its pid, the report keeps the tops of both  *)
(* orders, and a scrape measures what was warned of.                           *)
EXTENDS Incident, Counting

(* The pass of Responsibility agrees with the naive rule, and somebody is      *)
(* always to blame, for every tree of cgroups and every set of stalls.         *)
LEMMA PlaceIsNatural ==
    ASSUME NEW p \in Paths
    PROVE  Place[p] \in Nat
<1>1. Cardinality(Paths) \in Nat
  BY CgroupAssumption, FS_CardinalityType
<1>2. QED
  BY <1>1, CgroupAssumption

(* Every nonempty set of paths has a first one and a last one.              *)
LEMMA FirstPath ==
    ASSUME NEW S, S \subseteq Paths, S # {}
    PROVE  \E x \in S : \A y \in S : Place[x] <= Place[y]
<1> DEFINE T == {Place[x] : x \in S}
<1>1. T \subseteq Nat /\ T # {}
  BY PlaceIsNatural
<1>2. PICK n \in T : \A m \in T : n <= m
  <2> HIDE DEF T
  <2> QED
    BY <1>1, LeastNat
<1>3. QED
  BY <1>2

LEMMA LastPath ==
    ASSUME NEW S, S \subseteq Paths, S # {}
    PROVE  \E x \in S : \A y \in S : Place[y] <= Place[x]
<1> DEFINE N == Cardinality(Paths)
           T == {N - Place[x] : x \in S}
<1>1. N \in Nat /\ \A x \in Paths : Place[x] \in 1 .. N
  BY CgroupAssumption, FS_CardinalityType
<1> HIDE DEF N
<1>2. T \subseteq Nat /\ T # {}
  BY <1>1
<1>3. PICK n \in T : \A m \in T : n <= m
  <2> HIDE DEF T
  <2> QED
    BY <1>2, LeastNat
<1>4. PICK x \in S : n = N - Place[x]
  BY <1>3
<1>5. \A y \in S : N - Place[x] <= N - Place[y]
  BY <1>3, <1>4
<1>6. QED
  BY <1>1, <1>5

(* What is below something below p is below p, and sorts after it.          *)
LEMMA BelowFacts ==
    ASSUME NEW p \in Paths, NEW q \in Below(p)
    PROVE  /\ q \in Paths
           /\ p \in Above[q]
           /\ Place[p] < Place[q]
           /\ Below(q) \subseteq Below(p)
<1>1. q \in Paths /\ p \in Above[q]
  BY DEF Below
<1>2. Place[p] < Place[q]
  BY <1>1, CgroupAssumption
<1>3. Below(q) \subseteq Below(p)
  BY <1>1, CgroupAssumption DEF Below
<1>4. QED
  BY <1>1, <1>2, <1>3

(* A cgroup below p is, or is below, one that p is the nearest above.       *)
LEMMA NearestReached ==
    ASSUME NEW S, S \subseteq Paths, NEW p \in S, NEW q \in S \cap Below(p)
    PROVE  \E e \in S \cap Below(p) : Nearest(p, e, S) /\ (q = e \/ q \in Below(e))
<1> DEFINE T == {x \in S : p \in Above[x] /\ (x = q \/ x \in Above[q])}
<1>1. q \in T /\ T \subseteq Paths
  BY DEF Below
<1>2. PICK e \in T : \A y \in T : Place[e] <= Place[y]
  <2> HIDE DEF T
  <2> QED
    BY <1>1, FirstPath
<1>3. e \in S \cap Below(p) /\ (q = e \/ q \in Below(e))
  BY <1>2 DEF Below
<1>4. ASSUME NEW a \in S \cap Above[e]
      PROVE  a = p \/ a \in Above[p]
  <2>1. a = p \/ a \in Above[p] \/ p \in Above[a]
    BY <1>2, CgroupAssumption
  <2>2. Place[a] < Place[e] /\ Place[a] \in Nat /\ Place[e] \in Nat
    BY <1>2, CgroupAssumption, PlaceIsNatural
  <2>3. a \notin T
    BY <1>2, <2>2
  <2>4. a \in Above[q]
    BY <1>2, CgroupAssumption
  <2>5. QED
    BY <2>1, <2>3, <2>4
<1>5. Nearest(p, e, S)
  BY <1>2, <1>4 DEF Nearest
<1>6. QED
  BY <1>3, <1>5

-----------------------------------------------------------------------------
(* The inductive invariant.                                                 *)
Inv == TypeOK /\ PassInv

(* Once nothing below p is left to do, all of it has been handed up to p.   *)
LEMMA AllHandedUp ==
    ASSUME TypeOK, NEW p \in Present, Below(p) \cap todo = {}
    PROVE  HandedUp(p) = Present \cap Below(p)
<1>1. ASSUME NEW q \in Present \cap Below(p)
      PROVE  q \in HandedUp(p)
  <2>1. Present \subseteq Paths
    BY DEF TypeOK
  <2>2. PICK e \in Present \cap Below(p) : Nearest(p, e, Present) /\ (q = e \/ q \in Below(e))
    BY <2>1, NearestReached
  <2>3. e \in Present \ todo
    BY <2>2
  <2>4. QED
    BY <2>2, <2>3 DEF HandedUp
<1>2. HandedUp(p) \subseteq Present \cap Below(p)
  BY DEF HandedUp
<1>3. QED
  BY <1>1, <1>2

LEMMA WorstOfUnion ==
    ASSUME TypeOK,
           NEW u \in Nat, NEW S, S \subseteq Present, IsWorst(u, S),
           NEW v \in Nat, NEW T, T \subseteq Present, IsWorst(v, T)
    PROVE  IsWorst(IF v > u THEN v ELSE u, S \cup T)
<1>1. \A q \in Present : deltas[q] \in Nat
  BY DEF TypeOK
<1>2. CASE v > u
  BY <1>1, <1>2 DEF IsWorst
<1>3. CASE ~(v > u)
  BY <1>1, <1>3 DEF IsWorst
<1>4. QED
  BY <1>2, <1>3

(* What p hands up is the worst of p and of all below it.                   *)
LEMMA SubtreeIsWorst ==
    ASSUME Inv, NEW p, IsNext(p)
    PROVE  /\ p \in Present
           /\ Subtree(p) \in Nat
           /\ IsWorst(Subtree(p), Present \cap ({p} \cup Below(p)))
<1>1. p \in Present /\ p \in Paths
  BY DEF Inv, TypeOK, IsNext
<1>2. deltas[p] \in Nat /\ maxDescendant[p] \in Nat
  BY <1>1 DEF Inv, TypeOK
<1>3. Below(p) \cap todo = {}
  <2> SUFFICES ASSUME NEW q \in Below(p) \cap todo
               PROVE  FALSE
    OBVIOUS
  <2>1. Place[p] < Place[q] /\ q \in Paths
    BY <1>1, BelowFacts
  <2>2. Place[q] <= Place[p]
    BY DEF IsNext
  <2>3. QED
    BY <1>1, <2>1, <2>2, PlaceIsNatural
<1>4. IsWorst(maxDescendant[p], Present \cap Below(p))
  BY <1>1, <1>3, AllHandedUp DEF Inv, PassInv
<1>5. IsWorst(deltas[p], {p})
  BY <1>2 DEF IsWorst
<1>6. IsWorst(Subtree(p), (Present \cap Below(p)) \cup {p})
  BY <1>1, <1>2, <1>4, <1>5, WorstOfUnion DEF Inv, Subtree
<1>7. (Present \cap Below(p)) \cup {p} = Present \cap ({p} \cup Below(p))
  BY <1>1
<1>8. Subtree(p) \in Nat
  BY <1>2 DEF Subtree
<1>9. QED
  BY <1>1, <1>6, <1>7, <1>8

(* The pass comes to p: the nearest above it gets p's whole subtree.        *)
LEMMA HandingUp ==
    ASSUME Inv, NEW p, Propagate(p), NEW a \in Present
    PROVE  HandedUp(a)' = IF Nearest(a, p, Present)
                          THEN HandedUp(a) \cup (Present \cap ({p} \cup Below(p)))
                          ELSE HandedUp(a)
<1>1. p \in Present /\ p \in todo /\ p \in Paths /\ a \in Paths
  BY DEF Inv, TypeOK, Propagate, IsNext
<1>2. Present' = Present /\ (Present \ todo)' = (Present \ todo) \cup {p}
  BY <1>1 DEF Propagate, Present
<1>3. HandedUp(a)' = {q \in Present \cap Below(a) :
                        \E e \in (Present \ todo) \cup {p} :
                          Nearest(a, e, Present) /\ (q = e \/ q \in Below(e))}
  BY <1>2 DEF HandedUp
<1>4. CASE Nearest(a, p, Present)
  <2>1. {p} \cup Below(p) \subseteq Below(a)
    BY <1>1, <1>4, BelowFacts DEF Nearest, Below
  <2>2. QED
    BY <1>3, <1>4, <2>1 DEF HandedUp
<1>5. CASE ~Nearest(a, p, Present)
  BY <1>3, <1>5 DEF HandedUp
<1>6. QED
  BY <1>4, <1>5

LEMMA InvInit == Init => Inv
<1> SUFFICES ASSUME Init PROVE Inv
  OBVIOUS
<1>1. PICK S \in SUBSET Paths : deltas \in [S -> Usecs]
  BY DEF Init
<1>2. Present = S /\ deltas \in [Present -> Nat]
  BY <1>1, ResponsibilityAssumption DEF Present
<1>3. TypeOK
  BY <1>2 DEF Init, TypeOK
<1>4. \A p \in Present : HandedUp(p) = {}
  BY DEF Init, HandedUp
<1>5. PassInv
  BY <1>4 DEF Init, PassInv, IsWorst
<1>6. QED
  BY <1>3, <1>5 DEF Inv

LEMMA InvNext == Inv /\ [Next]_vars => Inv'
<1> SUFFICES ASSUME Inv, [Next]_vars PROVE Inv'
  OBVIOUS
<1>1. ASSUME NEW p \in Paths, Propagate(p)
      PROVE  Inv'
  <2>1. /\ p \in Present /\ Subtree(p) \in Nat
        /\ IsWorst(Subtree(p), Present \cap ({p} \cup Below(p)))
    BY <1>1, SubtreeIsWorst DEF Propagate
  <2>2. deltas' = deltas /\ Present' = Present
    BY <1>1 DEF Propagate, Present
  <2>3. maxDescendant' = [a \in Present |->
                            IF Nearest(a, p, Present) /\ Subtree(p) > maxDescendant[a]
                            THEN Subtree(p) ELSE maxDescendant[a]]
    BY <1>1 DEF Propagate
  <2>4. \A a \in Present : maxDescendant[a] \in Nat
    BY DEF Inv, TypeOK
  <2>5. maxDescendant' \in [Present -> Nat]
    BY <2>1, <2>3, <2>4
  <2>6. TypeOK'
    BY <1>1, <2>2, <2>5 DEF Inv, TypeOK, Propagate
  <2>7. ASSUME NEW x \in (Present \ todo)', NEW q \in todo'
        PROVE  Place[q] < Place[x]
    <3>1. /\ p \in todo /\ q \in todo /\ q # p /\ q \in Paths /\ p \in Paths
          /\ Place[q] <= Place[p]
          /\ x = p \/ x \in Present \ todo
      BY <1>1, <2>2, <2>7 DEF Inv, TypeOK, Propagate, IsNext
    <3>2. Place[q] # Place[p] /\ Place[p] \in Nat /\ Place[q] \in Nat
      BY <3>1, PlaceIsNatural, CgroupAssumption
    <3>3. CASE x = p
      BY <3>1, <3>2, <3>3
    <3>4. CASE x \in Present \ todo
      BY <3>1, <3>4 DEF Inv, PassInv
    <3>5. QED
      BY <3>1, <3>3, <3>4
  <2>8. ASSUME NEW a \in Present
        PROVE  IsWorst(maxDescendant'[a], HandedUp(a)')
    <3>1. IsWorst(maxDescendant[a], HandedUp(a)) /\ maxDescendant[a] \in Nat
      BY <2>4, <2>8 DEF Inv, PassInv
    <3>2. HandedUp(a) \subseteq Present
      BY DEF HandedUp
    <3>3. CASE Nearest(a, p, Present)
      <4>1. HandedUp(a)' = HandedUp(a) \cup (Present \cap ({p} \cup Below(p)))
        BY <1>1, <2>8, <3>3, HandingUp
      <4>2. maxDescendant'[a] = IF Subtree(p) > maxDescendant[a]
                                THEN Subtree(p) ELSE maxDescendant[a]
        BY <2>3, <2>8, <3>3
      <4>3. QED
        BY <2>1, <3>1, <3>2, <4>1, <4>2, WorstOfUnion DEF Inv
    <3>4. CASE ~Nearest(a, p, Present)
      <4>1. HandedUp(a)' = HandedUp(a)
        BY <1>1, <2>8, <3>4, HandingUp
      <4>2. maxDescendant'[a] = maxDescendant[a]
        BY <2>3, <2>8, <3>4
      <4>3. QED
        BY <3>1, <4>1, <4>2
    <3>5. QED
      BY <3>3, <3>4
  <2>9. \A a \in Present' : IsWorst(maxDescendant[a], HandedUp(a))'
    BY <2>2, <2>8 DEF IsWorst
  <2>10. QED
    BY <2>6, <2>7, <2>9 DEF Inv, PassInv
<1>2. CASE UNCHANGED vars
  <2>1. deltas' = deltas /\ todo' = todo /\ maxDescendant' = maxDescendant
    BY <1>2 DEF vars
  <2>2. Present' = Present /\ TypeOK'
    BY <2>1 DEF Inv, TypeOK, Present
  <2>3. \A a : HandedUp(a)' = HandedUp(a)
    BY <2>1, <2>2 DEF HandedUp
  <2>4. PassInv'
    BY <2>1, <2>2, <2>3 DEF Inv, PassInv, IsWorst
  <2>5. QED
    BY <2>2, <2>4 DEF Inv
<1>3. QED
  BY <1>1, <1>2 DEF Next

LEMMA Invariance == Spec => []Inv
BY InvInit, InvNext, PTL DEF Spec

-----------------------------------------------------------------------------
(* The pass keeps a slot for exactly the cgroups measured: max_descendant   *)
(* gains no key for a path above that is missing (attribution.rs:68-77).    *)
THEOREM TypeCorrect == Spec => []TypeOK
BY Invariance, PTL DEF Inv

(* When the pass ends a slot holds the worst stall below its cgroup.        *)
LEMMA SlotsComplete ==
    ASSUME Inv, Finished, NEW p \in Present
    PROVE  /\ deltas[p] \in Nat /\ maxDescendant[p] \in Nat
           /\ \A q \in Present \cap Below(p) : deltas[q] \in Nat
           /\ IsWorst(maxDescendant[p], Present \cap Below(p))
<1>1. Below(p) \cap todo = {}
  BY DEF Finished
<1>2. HandedUp(p) = Present \cap Below(p)
  BY <1>1, AllHandedUp DEF Inv
<1>3. QED
  BY <1>2 DEF Inv, TypeOK, PassInv

LEMMA InvAgrees == Inv => AgreesWithNaive
<1> SUFFICES ASSUME Inv, Finished, NEW p \in Present
             PROVE  IsResponsible(p) <=> Naive(p)
  BY DEF AgreesWithNaive
<1> DEFINE S == Present \cap Below(p)
<1>1. /\ deltas[p] \in Nat /\ maxDescendant[p] \in Nat
      /\ \A q \in S : deltas[q] \in Nat
      /\ \A q \in S : deltas[q] <= maxDescendant[p]
      /\ maxDescendant[p] = 0 \/ \E q \in S : deltas[q] = maxDescendant[p]
  BY SlotsComplete DEF IsWorst
<1>2. /\ IsResponsible(p) <=> deltas[p] # 0 /\ maxDescendant[p] * 100 < deltas[p] * 80
      /\ Naive(p) <=> deltas[p] # 0 /\ \A q \in S : deltas[q] * 100 < deltas[p] * 80
  BY DEF IsResponsible, Naive, CHILD_DOMINANCE
<1> HIDE DEF S
<1>3. QED
  BY <1>1, <1>2

LEMMA InvBlames == Inv => SomeoneToBlame
<1> SUFFICES ASSUME Inv, Finished, NEW p \in Present, deltas[p] # 0
             PROVE  \E q \in Present \cap (Below(p) \cup {p}) : IsResponsible(q)
  BY DEF SomeoneToBlame
<1> DEFINE T == {q \in Present \cap (Below(p) \cup {p}) : deltas[q] # 0}
<1>1. p \in T /\ T \subseteq Paths /\ T \subseteq Present /\ p \in Paths
  BY DEF Inv, TypeOK
<1>2. PICK q \in T : \A y \in T : Place[y] <= Place[q]
  <2> HIDE DEF T
  <2> QED
    BY <1>1, LastPath
<1>3. Below(q) \subseteq Below(p)
  BY <1>1, <1>2, BelowFacts
<1>4. ASSUME NEW x \in Present \cap Below(q)
      PROVE  deltas[x] = 0
  <2>1. Place[q] < Place[x] /\ x \in Paths /\ q \in Paths
    BY <1>1, <1>2, BelowFacts
  <2>2. ~(Place[x] <= Place[q])
    BY <2>1, PlaceIsNatural
  <2>3. x \notin T
    BY <1>2, <2>2
  <2>4. QED
    BY <1>3, <1>4, <2>3
<1>5. deltas[q] \in Nat /\ deltas[q] # 0 /\ maxDescendant[q] = 0
  BY <1>2, <1>4, SlotsComplete DEF IsWorst
<1>6. IsResponsible(q)
  BY <1>5 DEF IsResponsible, CHILD_DOMINANCE
<1>7. QED
  BY <1>2, <1>6

(* One reverse pass finds what comparing every pair finds: the optimised    *)
(* rule of attribution.rs:49-89 is the naive one of attribution.rs:94-105,  *)
(* whatever cgroups are missing from the middle of the tree.                *)
THEOREM PassAgrees == Spec => []AgreesWithNaive
  BY InvAgrees, Invariance, PTL

(* The dominance rule never loses a stall: the last path in a subtree with  *)
(* any stall of its own has nothing below it to blame.                      *)
THEOREM BlameIsNeverLost == Spec => []SomeoneToBlame
  BY InvBlames, Invariance, PTL

-----------------------------------------------------------------------------
(* The parts do not disturb the pass.                                          *)
LEMMA PassUndisturbed == IncidentSpec => []Inv
<1>1. IncidentInit => Inv
  BY InvInit DEF IncidentInit, CausesInit
<1>2. Inv /\ [IncidentNext]_incidentVars => Inv'
  <2> SUFFICES ASSUME Inv, [IncidentNext]_incidentVars PROVE Inv'
    OBVIOUS
  <2>1. CASE UNCHANGED vars
    BY <2>1, InvNext
  <2>2. ASSUME NEW p \in Paths, PropagateBytes(p) PROVE Inv'
    BY <2>2, InvNext DEF PropagateBytes, Next
  <2>3. CASE PutAway
    <3>1. deltas' = << >> /\ todo' = {} /\ maxDescendant' = << >>
      BY <2>3 DEF PutAway
    <3>2. Present' = {}
      BY <3>1 DEF Present
    <3>3. TypeOK'
      BY <3>1, <3>2 DEF TypeOK
    <3>4. PassInv'
      BY <3>2 DEF PassInv
    <3>5. QED
      BY <3>3, <3>4 DEF Inv
  <2>4. QED
    BY <2>1, <2>2, <2>3 DEF IncidentNext, CollectCauses, DrillMachine, ScanMachine, ScrapeMachine,
                           incidentVars, passVars
<1>3. QED
  BY <1>1, <1>2, PTL DEF IncidentSpec

(* The pass that judges an incident's cgroups is the naive rule, whatever is   *)
(* done to the incident besides.                                               *)
THEOREM IncidentAgrees == IncidentSpec => []AgreesWithNaive
  BY PassUndisturbed, InvAgrees, PTL

(* Whatever stalled, an incident has somebody to blame for it.                 *)
THEOREM IncidentBlames == IncidentSpec => []SomeoneToBlame
  BY PassUndisturbed, InvBlames, PTL

-----------------------------------------------------------------------------
(* Powers.  A recursive function is a CHOOSE of the function that meets its    *)
(* equation; there is one, put together from its beginnings.                   *)
IsPower(f, b) == f = [n \in Nat |-> IF n = 0 THEN 1 ELSE b * f[n - 1]]
PowerTo(f, b, n) ==
    f \in [0 .. n -> Nat] /\ f[0] = 1 /\ \A k \in 1 .. n : f[k] = b * f[k - 1]

LEMMA ProductIsNatural == \A a, b \in Nat : a * b \in Nat
  OBVIOUS

LEMMA PowersBegin ==
    ASSUME NEW b \in Nat
    PROVE  \A n \in Nat : \E f : PowerTo(f, b, n)
<1> DEFINE Z == {n \in Nat : ~ \E f : PowerTo(f, b, n)}
<1> SUFFICES ASSUME Z # {} PROVE FALSE
  OBVIOUS
<1>1. PICK n \in Z : \A k \in Z : n <= k
  <2>1. Z \in SUBSET Nat
    OBVIOUS
  <2> HIDE DEF Z
  <2>2. QED
    BY <2>1, LeastNat
<1>2. n \in Nat /\ ~ \E f : PowerTo(f, b, n)
  OBVIOUS
<1>3. CASE n = 0
  <2>1. PowerTo([k \in 0 .. 0 |-> 1], b, 0)
    BY DEF PowerTo
  <2>2. QED
    BY <1>2, <1>3, <2>1
<1>4. CASE n # 0
  <2>1. n - 1 \in Nat /\ n - 1 \notin Z
    <3>1. n - 1 \in Nat /\ ~(n <= n - 1)
      BY <1>2, <1>4
    <3> HIDE DEF Z
    <3>2. QED
      BY <1>1, <3>1
  <2>2. PICK f : PowerTo(f, b, n - 1)
    BY <2>1
  <2> DEFINE g == [k \in 0 .. n |-> IF k = n THEN b * f[n - 1] ELSE f[k]]
  <2>3. f[n - 1] \in Nat /\ b * f[n - 1] \in Nat
    <3>1. f[n - 1] \in Nat
      BY <2>1, <2>2 DEF PowerTo
    <3>2. QED
      BY <3>1, ProductIsNatural
  <2>4. g \in [0 .. n -> Nat] /\ g[0] = 1
    BY <1>2, <1>4, <2>2, <2>3 DEF PowerTo
  <2>5. ASSUME NEW k \in 1 .. n PROVE g[k] = b * g[k - 1]
    <3>1. CASE k = n
      BY <1>2, <3>1
    <3>2. CASE k # n
      <4>1. k \in 1 .. (n - 1) /\ k - 1 # n /\ k \in 0 .. n /\ k - 1 \in 0 .. n
        BY <1>2, <3>2
      <4>2. g[k] = f[k] /\ g[k - 1] = f[k - 1]
        BY <3>2, <4>1
      <4>3. f[k] = b * f[k - 1]
        BY <2>2, <4>1 DEF PowerTo
      <4>4. QED
        BY <4>2, <4>3
    <3>3. QED
      BY <3>1, <3>2
  <2> HIDE DEF g
  <2>6. PowerTo(g, b, n)
    BY <2>4, <2>5 DEF PowerTo
  <2>7. QED
    BY <1>2, <2>6
<1>5. QED
  BY <1>3, <1>4

LEMMA PowersAgree ==
    ASSUME NEW b \in Nat, NEW m \in Nat, NEW n \in Nat, m <= n,
           NEW f, PowerTo(f, b, m), NEW g, PowerTo(g, b, n)
    PROVE  \A k \in 0 .. m : f[k] = g[k]
<1> DEFINE Z == {k \in 0 .. m : f[k] # g[k]}
<1> SUFFICES ASSUME Z # {} PROVE FALSE
  OBVIOUS
<1>1. PICK k \in Z : \A j \in Z : k <= j
  <2>1. Z \in SUBSET Nat
    OBVIOUS
  <2> HIDE DEF Z
  <2>2. QED
    BY <2>1, LeastNat
<1>2. k \in 0 .. m /\ f[k] # g[k]
  OBVIOUS
<1>3. k # 0
  BY <1>2 DEF PowerTo
<1>4. k - 1 \in 0 .. m /\ k \in 1 .. m /\ k \in 1 .. n /\ ~(k <= k - 1)
  BY <1>2, <1>3
<1>5. f[k - 1] = g[k - 1]
  BY <1>1, <1>4
<1>6. f[k] = b * f[k - 1] /\ g[k] = b * g[k - 1]
  BY <1>4 DEF PowerTo
<1>7. QED
  BY <1>2, <1>5, <1>6

LEMMA PowerFacts ==
    ASSUME NEW b \in Nat
    PROVE  /\ Power(b)[0] = 1
           /\ \A n \in Nat : Power(b)[n + 1] = b * Power(b)[n]
           /\ \A n \in Nat : Power(b)[n] \in Nat
<1> DEFINE F(n) == CHOOSE f : PowerTo(f, b, n)
           g == [n \in Nat |-> F(n)[n]]
<1>1. \A n \in Nat : PowerTo(F(n), b, n)
  BY PowersBegin
<1> HIDE DEF F
<1>2. ASSUME NEW n \in Nat PROVE g[n] \in Nat
  <2>1. n \in 0 .. n
    OBVIOUS
  <2>2. QED
    BY <1>1, <2>1 DEF PowerTo
<1>3. g[0] = 1
  BY <1>1 DEF PowerTo
<1>4. ASSUME NEW n \in Nat, n # 0 PROVE g[n] = b * g[n - 1]
  <2>1. n - 1 \in Nat /\ n - 1 <= n /\ n \in 1 .. n /\ n - 1 \in 0 .. (n - 1)
    BY <1>4
  <2>2. PowerTo(F(n), b, n) /\ PowerTo(F(n - 1), b, n - 1)
    BY <1>1, <2>1
  <2>3. F(n)[n] = b * F(n)[n - 1]
    BY <2>1, <2>2 DEF PowerTo
  <2> DEFINE m == n - 1
  <2>4. F(m)[m] = F(n)[m]
    <3>1. m \in Nat /\ m <= n /\ m \in 0 .. m /\ PowerTo(F(m), b, m)
      BY <2>1, <2>2
    <3> HIDE DEF m
    <3>2. QED
      BY <2>2, <3>1, PowersAgree
  <2>5. QED
    BY <2>1, <2>3, <2>4
<1>5. IsPower(g, b)
  <2>1. g = [n \in Nat |-> IF n = 0 THEN 1 ELSE b * g[n - 1]]
    <3>1. \A n \in Nat : g[n] = IF n = 0 THEN 1 ELSE b * g[n - 1]
      BY <1>3, <1>4
    <3>2. g = [n \in Nat |-> g[n]]
      OBVIOUS
    <3> HIDE DEF g
    <3>3. QED
      BY <3>1, <3>2
  <2> HIDE DEF g
  <2>2. QED
    BY <2>1 DEF IsPower
<1> DEFINE p == Power(b)
<1> HIDE DEF g
<1>6. IsPower(p, b)
  BY <1>5 DEF Power, IsPower
<1> HIDE DEF p
<1>7. p = [n \in Nat |-> IF n = 0 THEN 1 ELSE b * p[n - 1]]
  BY <1>6 DEF IsPower
<1>8. p[0] = 1
  BY <1>7
<1>9. ASSUME NEW n \in Nat PROVE p[n + 1] = b * p[n]
  <2>1. n + 1 \in Nat /\ n + 1 # 0 /\ (n + 1) - 1 = n
    OBVIOUS
  <2>2. p[n + 1] = b * p[(n + 1) - 1]
    BY <1>7, <2>1
  <2>3. QED
    BY <2>1, <2>2
<1>10. \A n \in Nat : p[n] \in Nat
  <2> DEFINE Z == {n \in Nat : p[n] \notin Nat}
  <2> SUFFICES ASSUME Z # {} PROVE FALSE
    OBVIOUS
  <2>1. PICK n \in Z : \A k \in Z : n <= k
    <3>1. Z \in SUBSET Nat
      OBVIOUS
    <3> HIDE DEF Z
    <3>2. QED
      BY <3>1, LeastNat
  <2>2. n # 0 /\ n \in Nat
    BY <1>8
  <2> DEFINE m == n - 1
  <2>3. m \in Nat /\ ~(n <= m) /\ n = m + 1
    BY <2>2
  <2>4. p[m] \in Nat
    BY <2>1, <2>3
  <2> HIDE DEF m
  <2>5. p[n] = b * p[m]
    BY <1>9, <2>3
  <2>6. QED
    BY <2>4, <2>5, ProductIsNatural
<1>11. QED
  BY <1>8, <1>9, <1>10 DEF p

(* A fraction that p keeps for each of some levels it keeps for more: 100 to   *)
(* the n is positive, and no less than 80 to the n.                            *)
LEMMA Scaled ==
    ASSUME NEW x \in Nat, NEW y \in Nat, x <= y, NEW c \in Nat
    PROVE  c * x <= c * y /\ x * c <= y * c
  OBVIOUS

LEMMA PowerOrder ==
    \A n \in Nat : Power(100)[n] >= 1 /\ Power(80)[n] <= Power(100)[n]
<1> DEFINE P == Power(100)
           Q == Power(80)
           Z == {n \in Nat : ~(P[n] >= 1 /\ Q[n] <= P[n])}
<1>1. /\ P[0] = 1 /\ Q[0] = 1
      /\ \A n \in Nat : P[n + 1] = 100 * P[n] /\ Q[n + 1] = 80 * Q[n]
      /\ \A n \in Nat : P[n] \in Nat /\ Q[n] \in Nat
  <2>1. 100 \in Nat /\ 80 \in Nat
    OBVIOUS
  <2>2. QED
    BY <2>1, PowerFacts
<1> HIDE DEF P, Q
<1>2. ASSUME Z # {} PROVE FALSE
  <2>1. PICK n \in Z : \A k \in Z : n <= k
    <3>1. Z \in SUBSET Nat /\ Z # {}
      BY <1>2
    <3> HIDE DEF Z
    <3>2. QED
      BY <3>1, LeastNat
  <2>2. n \in Nat /\ n # 0
    BY <1>1
  <2> DEFINE m == n - 1
  <2>3. m \in Nat /\ n = m + 1 /\ m \notin Z
    BY <2>1, <2>2
  <2> HIDE DEF m
  <2>4. P[m] >= 1 /\ Q[m] <= P[m]
    BY <2>3
  <2>5. P[n] = 100 * P[m] /\ Q[n] = 80 * Q[m]
    BY <1>1, <2>3
  <2>6. P[n] >= 1 /\ Q[n] <= P[n]
    BY <1>1, <2>3, <2>4, <2>5
  <2>7. QED
    BY <2>2, <2>6
<1>3. \A n \in Nat : P[n] >= 1 /\ Q[n] <= P[n]
  BY <1>2
<1>4. QED
  BY <1>3 DEF P, Q

(* What is left of x after losing a fifth at every one of n levels is no more  *)
(* than y.                                                                     *)
Outlasts(y, x, n) == y * Power(100)[n] >= x * Power(80)[n]

LEMMA OneMoreLevel ==
    ASSUME NEW x \in Nat, NEW y \in Nat, NEW z \in Nat, NEW n \in Nat,
           Outlasts(z, y, n), y * 100 >= x * 80
    PROVE  Outlasts(z, x, n + 1)
<1> DEFINE P == Power(100)
           Q == Power(80)
<1>1. /\ P[n + 1] = 100 * P[n] /\ Q[n + 1] = 80 * Q[n] /\ P[n] \in Nat /\ Q[n] \in Nat
  <2>1. 100 \in Nat /\ 80 \in Nat
    OBVIOUS
  <2>2. QED
    BY <2>1, PowerFacts
<1> HIDE DEF P, Q
<1>2. z * P[n] >= y * Q[n]
  BY DEF Outlasts, P, Q
<1>3. y * 100 >= x * 80
  OBVIOUS
<1> DEFINE u == z * P[n]
           v == y * Q[n]
           w == x * Q[n]
<1>4. u \in Nat /\ v \in Nat /\ w \in Nat
  BY <1>1, ProductIsNatural
<1>5. z * (100 * P[n]) = 100 * u /\ x * (80 * Q[n]) = 80 * w
  BY <1>1
<1>6. 100 * v >= 80 * w
  <2> DEFINE a == x * 80
             b == y * 100
             c == Q[n]
  <2>1. a \in Nat /\ b \in Nat /\ c \in Nat /\ a <= b
    BY <1>1, <1>3, ProductIsNatural
  <2>2. a * c = 80 * w /\ b * c = 100 * v
    BY <1>1
  <2> HIDE DEF a, b, c, v, w
  <2>3. a * c <= b * c
    BY <2>1, Scaled
  <2>4. a * c \in Nat /\ b * c \in Nat
    BY <2>1, ProductIsNatural
  <2>5. QED
    BY <2>2, <2>3, <2>4
<1>7. 100 * u >= 80 * w
  <2> HIDE DEF u, v, w
  <2>1. u >= v
    BY <1>2 DEF u, v
  <2>2. QED
    BY <1>4, <1>6, <2>1
<1>8. QED
  BY <1>1, <1>5, <1>7 DEF Outlasts, P, Q

LEMMA MoreLevels ==
    ASSUME NEW x \in Nat, NEW z \in Nat, NEW n \in Nat, NEW m \in Nat, n <= m, Outlasts(z, x, n)
    PROVE  Outlasts(z, x, m)
<1> DEFINE Z == {k \in Nat : n <= k /\ ~Outlasts(z, x, k)}
<1> SUFFICES ASSUME Z # {} PROVE FALSE
  OBVIOUS
<1>1. PICK k \in Z : \A j \in Z : k <= j
  <2>1. Z \in SUBSET Nat
    OBVIOUS
  <2> HIDE DEF Z
  <2>2. QED
    BY <2>1, LeastNat
<1>2. k \in Nat /\ n <= k /\ ~Outlasts(z, x, k) /\ k # n
  OBVIOUS
<1> DEFINE j == k - 1
<1>3. j \in Nat /\ n <= j /\ k = j + 1 /\ j \notin Z
  BY <1>1, <1>2
<1>4. Outlasts(z, x, j)
  BY <1>3
<1> HIDE DEF j
<1>5. x * 100 >= x * 80
  OBVIOUS
<1>6. Outlasts(z, x, j + 1)
  BY <1>3, <1>4, <1>5, OneMoreLevel
<1>7. QED
  BY <1>2, <1>3, <1>6

-----------------------------------------------------------------------------
(* The depth of a cgroup: there is a longest chain below it, and what is below *)
(* it is less deep.                                                            *)
Chain(C) == \A a, b \in C : a = b \/ a \in Above[b] \/ b \in Above[a]
Chains(p) == {C \in SUBSET (Present \cap Below(p)) : Chain(C)}
IsDepth(n, p) ==
    /\ \E C \in Chains(p) : Cardinality(C) = n
    /\ \A C \in Chains(p) : Cardinality(C) <= n

LEMMA ChainsAreFinite ==
    ASSUME TypeOK, NEW p \in Present, NEW C \in Chains(p)
    PROVE  /\ IsFiniteSet(C) /\ Cardinality(C) \in Nat
           /\ IsFiniteSet(Present) /\ Cardinality(Present) \in Nat
           /\ Cardinality(C) <= Cardinality(Present)
<1>1. IsFiniteSet(Present)
  BY CgroupAssumption, FS_Subset DEF TypeOK
<1>2. C \in SUBSET Present
  BY DEF Chains
<1>3. IsFiniteSet(C) /\ Cardinality(C) <= Cardinality(Present)
  BY <1>1, <1>2, FS_Subset
<1>4. QED
  BY <1>1, <1>3, FS_CardinalityType

LEMMA DepthIs ==
    ASSUME TypeOK, NEW p \in Present
    PROVE  Depth(p) \in Nat /\ IsDepth(Depth(p), p)
<1> DEFINE N == Cardinality(Present)
           B == {N - Cardinality(C) : C \in Chains(p)}
<1>1. {} \in Chains(p)
  BY DEF Chains, Chain
<1>2. N \in Nat /\ \A C \in Chains(p) : Cardinality(C) \in Nat /\ Cardinality(C) <= N
  BY <1>1, ChainsAreFinite
<1> HIDE DEF N
<1>3. PICK n \in B : \A m \in B : n <= m
  <2>1. B \in SUBSET Nat /\ B # {}
    BY <1>1, <1>2
  <2> HIDE DEF B
  <2>2. QED
    BY <2>1, LeastNat
<1>4. PICK C \in Chains(p) : n = N - Cardinality(C)
  BY <1>3
<1>5. ASSUME NEW D \in Chains(p) PROVE Cardinality(D) <= Cardinality(C)
  <2>1. N - Cardinality(D) \in B
    OBVIOUS
  <2>2. N - Cardinality(C) <= N - Cardinality(D)
    BY <1>3, <1>4, <2>1
  <2>3. QED
    BY <1>2, <2>2
<1>6. Cardinality(C) \in 0 .. N /\ IsDepth(Cardinality(C), p)
  BY <1>2, <1>5 DEF IsDepth
<1>7. Depth(p) = CHOOSE d \in 0 .. N : IsDepth(d, p)
  BY DEF Depth, IsDepth, Chains, Chain, N
<1>8. Depth(p) \in 0 .. N /\ IsDepth(Depth(p), p)
  BY <1>6, <1>7
<1>9. QED
  BY <1>2, <1>8

LEMMA LessDeep ==
    ASSUME TypeOK, NEW p \in Present, NEW q \in Present \cap Below(p)
    PROVE  Depth(q) + 1 <= Depth(p)
<1>1. p \in Paths /\ q \in Paths
  BY DEF TypeOK
<1>2. PICK C \in Chains(q) : Cardinality(C) = Depth(q)
  BY DepthIs DEF IsDepth
<1>3. IsFiniteSet(C)
  BY ChainsAreFinite
<1>4. \A x \in C : x \in Present /\ x \in Below(q)
  BY <1>2 DEF Chains
<1>5. Below(q) \subseteq Below(p)
  BY <1>1, BelowFacts
<1>6. \A x \in C : q \in Above[x] /\ x # q
  <2>1. \A x \in Below(q) : q \in Above[x] /\ Place[q] < Place[x]
    BY <1>1, BelowFacts
  <2>2. Place[q] \in Nat
    BY <1>1, PlaceIsNatural
  <2>3. QED
    BY <1>4, <2>1, <2>2
<1>7. C \union {q} \in Chains(p)
  <2>1. C \union {q} \subseteq Present \cap Below(p)
    BY <1>4, <1>5
  <2>2. Chain(C)
    BY <1>2 DEF Chains
  <2>3. Chain(C \union {q})
    BY <1>6, <2>2 DEF Chain
  <2>4. QED
    BY <2>1, <2>3 DEF Chains
<1>8. Cardinality(C \union {q}) = Depth(q) + 1
  BY <1>2, <1>3, <1>6, FS_AddElement
<1>9. QED
  BY <1>7, <1>8, DepthIs DEF IsDepth

(* Passing blame down loses a fifth at every level at most: of what p moved, a *)
(* responsible one at or below it moved what outlasts p's depth.               *)
LEMMA BlameOutlasts ==
    ASSUME TypeOK, AgreesWithNaive, Finished, \A p \in Present : deltas[p] > 0
    PROVE  \A p \in Present :
             \E q \in Present \cap (Below(p) \union {p}) :
                 IsResponsible(q) /\ Outlasts(deltas[q], deltas[p], Depth(p))
<1> DEFINE Fine(p) == \E q \in Present \cap (Below(p) \union {p}) :
                          IsResponsible(q) /\ Outlasts(deltas[q], deltas[p], Depth(p))
           Z == {Depth(p) : p \in {r \in Present : ~Fine(r)}}
<1>1. /\ \A p \in Present : deltas[p] \in Nat /\ deltas[p] # 0 /\ p \in Paths /\ Depth(p) \in Nat
      /\ \A p \in Present : IsResponsible(p) <=> Naive(p)
  BY DepthIs DEF TypeOK, AgreesWithNaive
<1> SUFFICES ASSUME Z # {} PROVE FALSE
  OBVIOUS
<1>2. PICK d \in Z : \A m \in Z : d <= m
  <2>1. Z \in SUBSET Nat
    BY <1>1
  <2> HIDE DEF Z
  <2>2. QED
    BY <2>1, LeastNat
<1>3. PICK p \in Present : ~Fine(p) /\ d = Depth(p)
  OBVIOUS
<1>4. \A q \in Present : Depth(q) < Depth(p) => Fine(q)
  BY <1>1, <1>2, <1>3
<1>5. ~IsResponsible(p)
  <2>1. Outlasts(deltas[p], deltas[p], Depth(p))
    <3> DEFINE P == Power(100)[Depth(p)]
               Q == Power(80)[Depth(p)]
    <3>1. P \in Nat /\ Q \in Nat /\ Q <= P
      <4>1. 100 \in Nat /\ 80 \in Nat /\ Depth(p) \in Nat
        BY <1>1
      <4>2. QED
        BY <4>1, PowerFacts, PowerOrder
    <3>2. deltas[p] \in Nat
      BY <1>1
    <3> HIDE DEF P, Q
    <3>3. deltas[p] * Q <= deltas[p] * P /\ deltas[p] * Q \in Nat /\ deltas[p] * P \in Nat
      BY <3>1, <3>2, Scaled, ProductIsNatural
    <3>4. QED
      BY <3>3 DEF Outlasts, P, Q
  <2>2. QED
    BY <1>3, <2>1
<1>6. PICK e \in Present \cap Below(p) : ~(deltas[e] * 100 < deltas[p] * 80)
  BY <1>1, <1>5 DEF Naive, CHILD_DOMINANCE
<1>7. Depth(e) \in Nat /\ Depth(p) \in Nat /\ Depth(e) + 1 <= Depth(p)
  BY <1>1, LessDeep
<1>8. Fine(e)
  BY <1>4, <1>7
<1> HIDE DEF Z
<1>9. PICK q \in Present \cap (Below(e) \union {e}) :
        IsResponsible(q) /\ Outlasts(deltas[q], deltas[e], Depth(e))
  BY <1>8
<1> HIDE DEF Fine
<1>10. q \in Present \cap (Below(p) \union {p})
  BY <1>1, <1>6, <1>9, BelowFacts
<1> DEFINE x == deltas[p]
           y == deltas[e]
           z == deltas[q]
           n == Depth(e)
<1>11. x \in Nat /\ y \in Nat /\ z \in Nat /\ n \in Nat /\ n + 1 \in Nat
  BY <1>1, <1>9
<1>12. y * 100 >= x * 80
  <2>1. ~(y * 100 < x * 80)
    BY <1>6
  <2> HIDE DEF x, y
  <2>2. QED
    BY <1>11, <2>1
<1>13. Outlasts(z, y, n)
  BY <1>9
<1> HIDE DEF x, y, z, n
<1>14. Outlasts(z, x, n + 1)
  BY <1>11, <1>12, <1>13, OneMoreLevel
<1>15. Outlasts(z, x, Depth(p))
  <2>1. n + 1 <= Depth(p)
    BY <1>7 DEF n
  <2>2. QED
    BY <1>7, <1>11, <1>14, <2>1, MoreLevels
<1>16. Fine(p)
  BY <1>9, <1>10, <1>15 DEF Fine, x, z
<1>17. QED
  BY <1>3, <1>16

(* What is reported was chosen from the movers of a finished pass.             *)
WellChosen ==
    judged => /\ Finished
              /\ \A p \in Present : deltas[p] > 0
              /\ causes \in Biggest(Movers)

LEMMA ChoiceKeeps == WellChosen /\ [IncidentNext]_incidentVars => WellChosen'
<1> SUFFICES ASSUME WellChosen, [IncidentNext]_incidentVars PROVE WellChosen'
  OBVIOUS
<1>1. CASE UNCHANGED passVars
  BY <1>1 DEF passVars, vars, WellChosen, Finished, Present, Biggest, Movers, IsResponsible
<1>2. ASSUME NEW p \in Paths, PropagateBytes(p) PROVE WellChosen'
  BY <1>2 DEF PropagateBytes, WellChosen
<1>3. CASE CollectCauses
  <2>1. UNCHANGED vars /\ causes' \in Biggest(Movers) /\ todo = {}
        /\ \A p \in Present : deltas[p] > 0
    BY <1>3 DEF CollectCauses
  <2>2. Biggest(Movers)' = {T \in SUBSET Movers' :
          /\ Cardinality(T) = IF Cardinality(Movers') < MAX_CAUSES THEN Cardinality(Movers') ELSE MAX_CAUSES
          /\ \A p \in T, q \in Movers' \ T : deltas'[p] >= deltas'[q]}
    BY DEF Biggest
  <2>3. Movers' = Movers /\ deltas' = deltas /\ Present' = Present /\ todo' = {}
    BY <2>1 DEF vars, Movers, Present, IsResponsible
  <2>4. QED
    BY <2>1, <2>2, <2>3 DEF WellChosen, Finished, Biggest
<1>4. CASE PutAway
  <2>1. deltas' = << >> /\ todo' = {} /\ causes' = {}
    BY <1>4 DEF PutAway
  <2>2. Present' = {}
    BY <2>1 DEF Present
  <2>3. Movers' = {}
    BY <2>2 DEF Movers
  <2>4. Cardinality({}) = 0
    BY FS_EmptySet
  <2>5. Biggest(Movers)' = {T \in SUBSET Movers' :
          /\ Cardinality(T) = IF Cardinality(Movers') < MAX_CAUSES THEN Cardinality(Movers') ELSE MAX_CAUSES
          /\ \A p \in T, q \in Movers' \ T : deltas'[p] >= deltas'[q]}
    BY DEF Biggest
  <2>6. (IF 0 < MAX_CAUSES THEN 0 ELSE MAX_CAUSES) = 0
    BY CausesAssumption
  <2>7. {} \in Biggest(Movers)'
    BY <2>3, <2>4, <2>5, <2>6
  <2>8. QED
    BY <2>1, <2>2, <2>7 DEF WellChosen, Finished
<1>5. QED
  BY <1>1, <1>2, <1>3, <1>4 DEF IncidentNext, DrillMachine, ScanMachine, ScrapeMachine,
                                incidentVars

LEMMA ChoiceReports ==
    ASSUME TypeOK, AgreesWithNaive, WellChosen
    PROVE  MoverReported
<1> SUFFICES ASSUME judged, NEW p \in Present,
                    deltas[p] * Power(CHILD_DOMINANCE)[Depth(p)] >= MIN_CAUSE * Power(100)[Depth(p)]
             PROVE  \/ \E q \in causes : q = p \/ q \in Below(p)
                    \/ /\ Cardinality(causes) = MAX_CAUSES
                       /\ \A q \in causes : deltas[q] * Power(100)[Depth(p)]
                                              >= deltas[p] * Power(CHILD_DOMINANCE)[Depth(p)]
  BY DEF MoverReported
<1>1. Finished /\ (\A r \in Present : deltas[r] > 0) /\ causes \in Biggest(Movers)
  BY DEF WellChosen
<1>2. PICK q \in Present \cap (Below(p) \union {p}) :
        IsResponsible(q) /\ Outlasts(deltas[q], deltas[p], Depth(p))
  BY <1>1, BlameOutlasts
<1> DEFINE P == Power(100)[Depth(p)]
           x == deltas[p] * Power(80)[Depth(p)]
<1>3. P \in Nat /\ P >= 1 /\ x \in Nat /\ \A r \in Present : deltas[r] \in Nat
  <2>1. 100 \in Nat /\ 80 \in Nat /\ Depth(p) \in Nat
    BY DepthIs
  <2>2. Power(80)[Depth(p)] \in Nat /\ deltas[p] \in Nat
    BY <2>1, PowerFacts DEF TypeOK
  <2>3. x \in Nat
    BY <2>2, ProductIsNatural
  <2>4. QED
    BY <2>1, <2>3, PowerFacts, PowerOrder DEF TypeOK
<1>4. deltas[q] * P >= x /\ x >= MIN_CAUSE * P
  BY <1>2 DEF Outlasts, CHILD_DOMINANCE
<1> HIDE DEF P, x
<1> DEFINE w == deltas[q]
<1>5. w \in Nat /\ MIN_CAUSE \in Nat
  BY <1>2, <1>3, CausesAssumption
<1>6. w >= MIN_CAUSE
  <2> SUFFICES ASSUME w + 1 <= MIN_CAUSE PROVE FALSE
    BY <1>5
  <2>1. w + 1 \in Nat
    BY <1>5
  <2>2. (w + 1) * P <= MIN_CAUSE * P
    BY <1>3, <1>5, <2>1, Scaled
  <2>3. (w + 1) * P = w * P + P /\ w * P \in Nat /\ MIN_CAUSE * P \in Nat
    BY <1>3, <1>5, ProductIsNatural
  <2>4. w * P >= MIN_CAUSE * P
    BY <1>3, <1>4, <2>3
  <2> HIDE DEF w
  <2>5. QED
    BY <1>3, <2>2, <2>3, <2>4
<1>7. q \in Movers
  BY <1>2, <1>6 DEF Movers
<1>8. CASE q \in causes
  BY <1>2, <1>8
<1>9. CASE q \notin causes
  <2>1. /\ causes \in SUBSET Movers
        /\ Cardinality(causes) = IF Cardinality(Movers) < MAX_CAUSES THEN Cardinality(Movers) ELSE MAX_CAUSES
        /\ \A r \in causes, s \in Movers \ causes : deltas[r] >= deltas[s]
    BY <1>1 DEF Biggest
  <2>2. IsFiniteSet(Movers)
    BY CgroupAssumption, FS_Subset DEF TypeOK, Movers
  <2>3. Cardinality(causes) # Cardinality(Movers)
    BY <1>7, <1>9, <2>1, <2>2, FS_Subset
  <2>4. Cardinality(causes) = MAX_CAUSES
    BY <2>1, <2>3
  <2>5. ASSUME NEW r \in causes PROVE deltas[r] * P >= x
    <3>1. r \in Present /\ deltas[r] \in Nat /\ deltas[r] >= w
      BY <1>3, <1>7, <1>9, <2>1 DEF Movers
    <3> DEFINE u == deltas[r]
    <3>2. u \in Nat /\ u >= w
      BY <3>1
    <3> HIDE DEF u, w
    <3>3. w * P <= u * P /\ w * P \in Nat /\ u * P \in Nat
      BY <1>3, <1>5, <3>2, Scaled, ProductIsNatural
    <3>4. QED
      BY <1>3, <1>4, <3>3 DEF u, w
  <2>6. QED
    BY <2>4, <2>5 DEF P, x, CHILD_DOMINANCE
<1>10. QED
  BY <1>8, <1>9

(* What moved much is reported, or something below it is, or the list is full  *)
(* of what moved as much: for any tree, threshold and length of the list.      *)
THEOREM MoversAreReported == IncidentSpec => []MoverReported
<1>1. IncidentInit => WellChosen
  BY DEF IncidentInit, CausesInit, WellChosen
<1>2. IncidentSpec => []WellChosen
  BY <1>1, ChoiceKeeps, PTL DEF IncidentSpec
<1>3. Inv => TypeOK /\ AgreesWithNaive
  BY InvAgrees DEF Inv
<1>4. TypeOK /\ AgreesWithNaive /\ WellChosen => MoverReported
  BY ChoiceReports
<1>5. QED
  BY <1>2, <1>3, <1>4, PassUndisturbed, PTL

-----------------------------------------------------------------------------
Reads == Nat \union {Unread}

Charges ==
    {c \in [pid : Pids, bytes : Int, blocked : Nat, seen : Nat, moved : Nat,
            again : BOOLEAN, shown : Int] :
        c.bytes <= c.moved /\ (~c.again => c.bytes >= c.shown)}

DrillTypes ==
    /\ io \in [Pids -> Nat] /\ moved \in [Pids -> Nat]
    /\ before \in [Pids -> Reads] /\ last \in [Pids -> Reads]
    /\ blocked \in [Pids -> Nat] /\ seen \in [Pids -> Nat]
    /\ closed \in Seq(Charges)

(* A counter that was read at first is read for good.  It has grown by no more *)
(* than was moved under its pid, a new process having begun at zero; and under *)
(* one process the readings only grow.                                         *)
Readings ==
    \A p \in Pids : before[p] # Unread =>
        /\ last[p] # Unread
        /\ io[p] <= before[p] + moved[p]
        /\ last[p] <= before[p] + moved[p]
        /\ p \notin reused => before[p] <= last[p] /\ last[p] <= io[p]

DrillInv == DrillTypes /\ Readings

LEMMA ChargeFacts ==
    ASSUME DrillInv, NEW p \in Pids
    PROVE  /\ Charged(p) \in Int /\ Charged(p) <= moved[p]
           /\ p \notin reused =>
                 Charged(p) >= IF before[p] = Unread THEN 0 ELSE last[p] - before[p]
<1>1. /\ io[p] \in Nat /\ moved[p] \in Nat
      /\ before[p] # Unread => before[p] \in Nat /\ last[p] \in Nat
      /\ IoBytes(p) # Unread => IoBytes(p) = io[p]
  BY DEF DrillInv, DrillTypes, Readings, Reads, IoBytes
<1>2. before[p] # Unread =>
        /\ last[p] # Unread
        /\ io[p] <= before[p] + moved[p]
        /\ last[p] <= before[p] + moved[p]
        /\ p \notin reused => before[p] <= last[p] /\ last[p] <= io[p]
  BY DEF DrillInv, Readings
<1>3. CASE before[p] = Unread
  BY <1>1, <1>3 DEF Charged
<1>4. CASE before[p] # Unread /\ IoBytes(p) # Unread
  <2>1. Charged(p) = IF io[p] < before[p] THEN 0 ELSE io[p] - before[p]
    BY <1>1, <1>4 DEF Charged
  <2>2. QED
    BY <1>1, <1>2, <1>4, <2>1
<1>5. CASE before[p] # Unread /\ IoBytes(p) = Unread
  <2>1. Charged(p) = IF last[p] < before[p] THEN 0 ELSE last[p] - before[p]
    BY <1>2, <1>5 DEF Charged
  <2>2. QED
    BY <1>1, <1>2, <1>5, <2>1
<1>6. QED
  BY <1>3, <1>4, <1>5

LEMMA DrillInvInit == DrillInit => DrillInv
  BY DEF DrillInit, DrillInv, DrillTypes, Readings, Reads, NoPids, Charges

LEMMA ReadingKeeps ==
    ASSUME DrillInv, NEW p \in Pids, Reading(p), UNCHANGED <<io, moved, before, reused>>
    PROVE  last' \in [Pids -> Reads] /\ Readings'
<1>1. CASE p \in ours
  <2>1. last' = [last EXCEPT ![p] = io[p]] /\ io[p] \in Nat
    BY <1>1 DEF Reading, DrillInv, DrillTypes
  <2>2. last' \in [Pids -> Reads]
    BY <2>1 DEF DrillInv, DrillTypes, Reads
  <2>3. Readings'
    BY SMTT(20), <2>1, DrillAssumption DEF DrillInv, DrillTypes, Readings, Reads
  <2>4. QED
    BY <2>2, <2>3
<1>2. CASE p \notin ours
  BY <1>2 DEF Reading, DrillInv, DrillTypes, Readings
<1>3. QED
  BY <1>1, <1>2

LEMMA DrillInvNext == DrillInv /\ [BeginDrill \/ DrillNext]_drillVars => DrillInv'
<1> SUFFICES ASSUME DrillInv, [BeginDrill \/ DrillNext]_drillVars PROVE DrillInv'
  OBVIOUS
<1> USE DEF DrillInv
<1>1. CASE UNCHANGED <<io, moved, before, last, blocked, seen, closed, reused>>
  BY <1>1 DEF DrillTypes, Readings
<1>2. CASE BeginDrill
  <2>1. /\ io' \in [Pids -> Nat]
        /\ \A p \in Pids : io'[p] = IF p \in alive' THEN 1 ELSE 0
        /\ before' = [p \in Pids |-> IF p \in ours' THEN io'[p] ELSE Unread]
        /\ last' = before' /\ ours' \subseteq alive'
        /\ UNCHANGED <<blocked, seen, closed, moved, reused>>
    BY <1>2 DEF BeginDrill
  <2>2. DrillTypes'
    BY <2>1 DEF DrillTypes, Reads
  <2>3. Readings'
    BY <2>1, <2>2, DrillAssumption DEF DrillTypes, Readings
  <2>4. QED
    BY <2>2, <2>3
<1>3. ASSUME NEW p \in Pids, MoveBytes(p) PROVE DrillInv'
  <2>1. /\ io' = [io EXCEPT ![p] = @ + 1] /\ moved' = [moved EXCEPT ![p] = @ + 1]
        /\ UNCHANGED <<before, last, blocked, seen, closed, reused>>
    BY <1>3 DEF MoveBytes, sweepVars
  <2>2. DrillTypes'
    BY <2>1 DEF DrillTypes
  <2>3. ASSUME NEW q \in Pids, before[q] # Unread
        PROVE  /\ last[q] # Unread
               /\ io'[q] <= before[q] + moved'[q]
               /\ last[q] <= before[q] + moved'[q]
               /\ q \notin reused => before[q] <= last[q] /\ last[q] <= io'[q]
    <3>1. /\ before[q] \in Nat /\ last[q] \in Nat /\ io[q] \in Nat /\ moved[q] \in Nat
          /\ last[q] # Unread
          /\ io[q] <= before[q] + moved[q] /\ last[q] <= before[q] + moved[q]
          /\ q \notin reused => before[q] <= last[q] /\ last[q] <= io[q]
      BY <2>3 DEF DrillTypes, Readings, Reads
    <3>2. \/ io'[q] = io[q] /\ moved'[q] = moved[q]
          \/ io'[q] = io[q] + 1 /\ moved'[q] = moved[q] + 1
      BY <2>1 DEF DrillTypes
    <3>3. QED
      BY <3>1, <3>2
  <2>4. Readings'
    BY <2>1, <2>3 DEF Readings
  <2>5. QED
    BY <2>2, <2>4
<1>4. ASSUME NEW p \in Pids, ReusePid(p) PROVE DrillInv'
  <2>1. /\ io' = [io EXCEPT ![p] = 0] /\ reused' = reused \union {p}
        /\ UNCHANGED <<before, last, blocked, seen, closed, moved>>
    BY <1>4 DEF ReusePid, sweepVars
  <2>2. DrillTypes'
    BY <2>1 DEF DrillTypes
  <2>3. Readings'
    BY <2>1 DEF DrillTypes, Readings, Reads
  <2>4. QED
    BY <2>2, <2>3
<1>5. ASSUME NEW p \in Pids, SweepProcess(p) PROVE DrillInv'
  <2>1. Reading(p) /\ UNCHANGED <<io, moved, before, reused, closed>>
    BY <1>5 DEF SweepProcess, kernelVars
  <2>2. last' \in [Pids -> Reads] /\ Readings'
    BY <2>1, ReadingKeeps
  <2>3. blocked' \in [Pids -> Nat] /\ seen' \in [Pids -> Nat]
    BY <1>5 DEF SweepProcess, DrillTypes
  <2>4. QED
    BY <2>1, <2>2, <2>3 DEF DrillTypes
<1>6. ASSUME NEW p \in Pids, SweepExiting(p) PROVE DrillInv'
  <2>1. Reading(p) /\ UNCHANGED <<io, moved, before, reused, closed, blocked, seen>>
    BY <1>6 DEF SweepExiting, Exit
  <2>2. last' \in [Pids -> Reads] /\ Readings'
    BY <2>1, ReadingKeeps
  <2>3. QED
    BY <2>1, <2>2 DEF DrillTypes
<1>7. ASSUME NEW p \in Pids, CloseProcess(p) PROVE DrillInv'
  <2> DEFINE c == [pid |-> p, bytes |-> Charged(p), blocked |-> blocked[p], seen |-> seen[p],
                   moved |-> moved[p], again |-> p \in reused,
                   shown |-> IF before[p] = Unread THEN 0 ELSE last[p] - before[p]]
  <2>1. closed' = Append(closed, c) /\ UNCHANGED <<io, moved, before, last, blocked, seen, reused>>
    BY <1>7 DEF CloseProcess, kernelVars
  <2>2. c \in Charges
    <3>1. before[p] # Unread => before[p] \in Nat /\ last[p] \in Nat
      BY DEF DrillTypes, Readings, Reads
    <3>2. blocked[p] \in Nat /\ seen[p] \in Nat /\ moved[p] \in Nat
      BY DEF DrillTypes
    <3> DEFINE again == p \in reused
               shown == IF before[p] = Unread THEN 0 ELSE last[p] - before[p]
    <3>3. again \in BOOLEAN /\ shown \in Int
      BY <3>1
    <3>4. Charged(p) \in Int /\ Charged(p) <= moved[p] /\ (~again => Charged(p) >= shown)
      BY ChargeFacts
    <3>5. c = [pid |-> p, bytes |-> Charged(p), blocked |-> blocked[p], seen |-> seen[p],
               moved |-> moved[p], again |-> again, shown |-> shown]
      OBVIOUS
    <3> HIDE DEF c, again, shown
    <3>6. QED
      BY <3>2, <3>3, <3>4, <3>5 DEF Charges
  <2> HIDE DEF c
  <2>3. closed' \in Seq(Charges)
    BY <2>1, <2>2 DEF DrillTypes
  <2>4. QED
    BY <2>1, <2>3 DEF DrillTypes, Readings
<1>8. QED
  BY <1>1, <1>2, <1>3, <1>4, <1>5, <1>6, <1>7
     DEF DrillNext, drillVars, kernelVars, sweepVars, ExitProcess, Exit, EndSweep, Tell

LEMMA DrillKeeps == DrillInv /\ [IncidentNext]_incidentVars => DrillInv'
<1> SUFFICES ASSUME DrillInv, [IncidentNext]_incidentVars PROVE DrillInv'
  OBVIOUS
<1>1. CASE [BeginDrill \/ DrillNext]_drillVars
  BY <1>1, DrillInvNext
<1>2. CASE ScanMachine
  BY <1>2 DEF ScanMachine, kernelVars, sweepVars, DrillInv, DrillTypes, Readings
<1>3. QED
  BY <1>1, <1>2 DEF IncidentNext, PutAway, DrillMachine, ScrapeMachine, incidentVars

(* No process is charged more than was moved under its pid, and none that kept *)
(* its pid less than any reading has shown, for any number of processes,       *)
(* sweeps, exits and pids used again.                                          *)
THEOREM ChargesAreRight == IncidentSpec => []ChargedRight
<1>1. IncidentInit => DrillInv
  BY DrillInvInit DEF IncidentInit
<1>2. DrillInv => ChargedRight
  <2> SUFFICES ASSUME DrillInv, NEW c \in Range(closed)
               PROVE  c.bytes <= c.moved /\ (~c.again => c.bytes >= c.shown)
    BY DEF ChargedRight
  <2>1. c \in Charges
    BY DEF DrillInv, DrillTypes, Range
  <2>2. QED
    BY <2>1 DEF Charges
<1>3. QED
  BY <1>1, <1>2, DrillKeeps, PTL DEF IncidentSpec

-----------------------------------------------------------------------------
(* What a drill tells.  The places of a sequence by a key are all of them.     *)
LEMMA RankedFacts ==
    ASSUME NEW n \in Nat, NEW key \in [1 .. n -> Int]
    PROVE  LET q == Ranked(key) IN
           /\ q \in Seq(1 .. n) /\ Len(q) = n /\ DOMAIN q = 1 .. n
           /\ \A k \in 1 .. n : q[k] \in 1 .. n
           /\ \A x \in 1 .. n : \E k \in 1 .. n : q[k] = x
           /\ \A k, l \in 1 .. n : q[k] = q[l] => k = l
           /\ \A k, l \in 1 .. n : k <= l => key[q[k]] >= key[q[l]]
<1> DEFINE R == Ahead(key)
           q == Ranked(key)
<1>1. \A x, y \in 1 .. n : <<x, y>> \in R <=> key[x] > key[y] \/ (key[x] = key[y] /\ x <= y)
  BY DEF Ahead
<1>2. \A x \in 1 .. n : key[x] \in Int /\ x \in Int
  OBVIOUS
<1> HIDE DEF R
<1>3. IsOrder(1 .. n, R)
  <2>1. ASSUME NEW x \in 1 .. n, NEW y \in 1 .. n PROVE <<x, y>> \in R \/ <<y, x>> \in R
    <3>1. key[x] > key[y] \/ key[y] > key[x] \/ (key[x] = key[y] /\ (x <= y \/ y <= x))
      BY <1>2
    <3>2. QED
      BY <1>1, <3>1
  <2>3. ASSUME NEW x \in 1 .. n, NEW y \in 1 .. n, <<x, y>> \in R, <<y, x>> \in R PROVE x = y
    BY <1>1, <1>2, <2>3
  <2>4. ASSUME NEW x \in 1 .. n, NEW y \in 1 .. n, NEW z \in 1 .. n, <<x, y>> \in R, <<y, z>> \in R
        PROVE  <<x, z>> \in R
    BY <1>1, <1>2, <2>4
  <2>5. QED
    BY <2>1, <2>3, <2>4 DEF IsOrder
<1>4. IsFiniteSet(1 .. n) /\ Cardinality(1 .. n) = n
  BY FS_Interval
<1>5. q = Sorted(1 .. n, R)
  BY DEF Ranked, R
<1> HIDE DEF q
<1>6. /\ q \in Seq(1 .. n) /\ Len(q) = n /\ DOMAIN q = 1 .. n
      /\ \A k \in 1 .. n : q[k] \in 1 .. n /\ Rank(1 .. n, R, q[k]) = k
      /\ \A k, l \in 1 .. n : k <= l => <<q[k], q[l]>> \in R
      /\ \A x \in 1 .. n : Rank(1 .. n, R, x) \in 1 .. n /\ q[Rank(1 .. n, R, x)] = x
  BY <1>3, <1>4, <1>5, SortedFacts
<1>7. \A x \in 1 .. n : \E k \in 1 .. n : q[k] = x
  BY <1>6
<1>8. \A k, l \in 1 .. n : q[k] = q[l] => k = l
  BY <1>6
<1>9. ASSUME NEW k \in 1 .. n, NEW l \in 1 .. n, k <= l PROVE key[q[k]] >= key[q[l]]
  <2>1. q[k] \in 1 .. n /\ q[l] \in 1 .. n /\ <<q[k], q[l]>> \in R
    BY <1>6, <1>9
  <2>2. QED
    BY SMTT(20), <1>1, <1>2, <2>1
<1>10. QED
  BY <1>6, <1>7, <1>8, <1>9 DEF q

LEMMA RearrangedFacts ==
    ASSUME NEW T, NEW s \in Seq(T), NEW order,
           \A k \in 1 .. Len(s) : order[k] \in 1 .. Len(s),
           \A x \in 1 .. Len(s) : \E k \in 1 .. Len(s) : order[k] = x
    PROVE  /\ Rearranged(s, order) \in Seq(T) /\ Len(Rearranged(s, order)) = Len(s)
           /\ Range(Rearranged(s, order)) = Range(s)
<1> DEFINE n == Len(s)
           f == [k \in DOMAIN s |-> s[order[k]]]
<1>1. n \in Nat /\ DOMAIN s = 1 .. n /\ \A k \in 1 .. n : s[k] \in T
  OBVIOUS
<1>2. f \in [1 .. n -> T]
  BY <1>1
<1>3. Rearranged(s, order) = f /\ f \in Seq(T) /\ Len(f) = n /\ DOMAIN f = 1 .. n
  <2>1. Rearranged(s, order) = Evaluated(f)
    BY DEF Rearranged
  <2> HIDE DEF f, n
  <2>2. QED
    BY <1>1, <1>2, <2>1, EvaluatedFacts
<1>4. \A k \in 1 .. n : f[k] = s[order[k]]
  BY <1>1
<1>0. /\ \A k \in 1 .. n : order[k] \in 1 .. n
      /\ \A x \in 1 .. n : \E k \in 1 .. n : order[k] = x
  OBVIOUS
<1> HIDE DEF f, n
<1>5. ASSUME NEW k \in 1 .. n PROVE \E x \in 1 .. n : f[k] = s[x]
  BY <1>0, <1>4
<1>9. Range(f) \subseteq Range(s)
  <2> SUFFICES ASSUME NEW v \in Range(f) PROVE v \in Range(s)
    OBVIOUS
  <2>1. PICK k \in 1 .. n : v = f[k]
    BY <1>3 DEF Range
  <2>2. PICK x \in 1 .. n : f[k] = s[x]
    BY <1>5
  <2>3. QED
    BY <1>1, <2>1, <2>2 DEF Range
<1>6. ASSUME NEW x \in 1 .. n PROVE \E k \in 1 .. n : f[k] = s[x]
  <2>1. PICK k \in 1 .. n : order[k] = x
    BY <1>0
  <2>2. QED
    BY <1>4, <2>1
<1>7. Range(s) \subseteq Range(f)
  <2> SUFFICES ASSUME NEW v \in Range(s) PROVE v \in Range(f)
    OBVIOUS
  <2>1. PICK x \in 1 .. n : v = s[x]
    BY <1>1 DEF Range
  <2>2. PICK k \in 1 .. n : f[k] = s[x]
    BY <1>6
  <2>3. QED
    BY <1>3, <2>1, <2>2 DEF Range
<1>8. QED
  BY <1>3, <1>7, <1>9 DEF n

(* A value is kept where it first comes, so no later than it comes.            *)
LEMMA WithoutRepeatsFacts ==
    ASSUME NEW T, NEW s \in Seq(T)
    PROVE  LET w == WithoutRepeats(s) IN
           /\ w \in Seq(T)
           /\ \A i \in 1 .. Len(s) : \E k \in 1 .. Len(w) : k <= i /\ w[k] = s[i]
<1> DEFINE P == {i \in DOMAIN s : \A j \in 1 .. i - 1 : s[j] # s[i]}
           w == WithoutRepeats(s)
<1>1. Len(s) \in Nat /\ DOMAIN s = 1 .. Len(s) /\ P \in SUBSET DOMAIN s
  OBVIOUS
<1>2. w = Members(s, P)
  BY DEF WithoutRepeats
<1>3. ASSUME NEW i \in 1 .. Len(s) PROVE \E j \in P : j <= i /\ s[j] = s[i]
  <2> DEFINE B == {j \in 1 .. i : s[j] = s[i]}
  <2>1. B \in SUBSET Nat /\ B # {}
    BY <1>1
  <2>2. PICK j \in B : \A l \in B : j <= l
    <3> HIDE DEF B
    <3> QED
      BY <2>1, LeastNat
  <2>3. j \in 1 .. Len(s) /\ j <= i /\ s[j] = s[i]
    BY <1>1
  <2>4. ASSUME NEW l \in 1 .. j - 1 PROVE s[l] # s[j]
    <3>1. l \in 1 .. i /\ ~(j <= l)
      BY <1>1, <2>3
    <3>2. QED
      BY <2>2, <2>3, <3>1
  <2>5. QED
    BY <1>1, <2>3, <2>4
<1> HIDE DEF P, w
<1>4. /\ w \in Seq(T) /\ Len(w) = Cardinality(P)
      /\ \A i \in P : \E k \in 1 .. Cardinality(P) : k <= i /\ w[k] = s[i]
  BY <1>1, <1>2, MembersFacts
<1>5. ASSUME NEW i \in 1 .. Len(s) PROVE \E k \in 1 .. Len(w) : k <= i /\ w[k] = s[i]
  <2>1. PICK j \in P : j <= i /\ s[j] = s[i]
    BY <1>3
  <2>2. PICK k \in 1 .. Cardinality(P) : k <= j /\ w[k] = s[j]
    BY <1>4
  <2>3. k \in Int /\ j \in Int /\ i \in Int
    BY <1>1, <1>4
  <2>4. QED
    BY <1>4, <2>1, <2>2, <2>3
<1>6. QED
  BY <1>4, <1>5 DEF w

-----------------------------------------------------------------------------
Judged == [pid : Pids, bytes : Int, blocked : Nat, seen : Nat, moved : Nat,
           again : BOOLEAN, shown : Int]

LEMMA TurnsFacts ==
    ASSUME NEW s \in Seq(Judged)
    PROVE  LET n == Len(s) IN
           /\ Turns(s) \in Seq(1 .. n) /\ Len(Turns(s)) = 2 * n
           /\ \A k \in 1 .. n : /\ ByBlocked(s)[k] \in 1 .. n /\ Turns(s)[2 * k - 1] = ByBlocked(s)[k]
                                /\ ByBytes(s)[k] \in 1 .. n /\ Turns(s)[2 * k] = ByBytes(s)[k]
<1> DEFINE n == Len(s)
           a == ByBlocked(s)
           b == ByBytes(s)
           f == [k \in 1 .. 2 * n |-> IF k % 2 = 1 THEN a[(k + 1) \div 2] ELSE b[k \div 2]]
<1>1. n \in Nat /\ DOMAIN s = 1 .. n /\ \A k \in 1 .. n : s[k].blocked \in Int /\ s[k].bytes \in Int
  <2>1. n \in Nat /\ DOMAIN s = 1 .. n /\ \A k \in 1 .. n : s[k] \in Judged
    OBVIOUS
  <2>2. \A c \in Judged : c.blocked \in Int /\ c.bytes \in Int
    BY DEF Judged
  <2>3. QED
    BY <2>1, <2>2
<1>2. \A k \in 1 .. n : a[k] \in 1 .. n /\ b[k] \in 1 .. n
  <2>1. [i \in DOMAIN s |-> s[i].blocked] \in [1 .. n -> Int] /\ [i \in DOMAIN s |-> s[i].bytes] \in [1 .. n -> Int]
    BY <1>1
  <2> HIDE DEF n
  <2>2. QED
    BY <1>1, <2>1, RankedFacts DEF ByBlocked, ByBytes
<1>3. Turns(s) = Evaluated(f)
  BY DEF Turns
<1> HIDE DEF a, b, n
<1>4. ASSUME NEW k \in 1 .. 2 * n
      PROVE  /\ k % 2 = 1 => (k + 1) \div 2 \in 1 .. n
             /\ k % 2 # 1 => k \div 2 \in 1 .. n
  BY <1>1
<1>5. f \in [1 .. 2 * n -> 1 .. n] /\ 2 * n \in Nat
  BY <1>1, <1>2, <1>4
<1>6. ASSUME NEW k \in 1 .. n PROVE f[2 * k - 1] = a[k] /\ f[2 * k] = b[k]
  <2>1. 2 * k - 1 \in 1 .. 2 * n /\ (2 * k - 1) % 2 = 1 /\ ((2 * k - 1) + 1) \div 2 = k
    BY <1>1
  <2>2. 2 * k \in 1 .. 2 * n /\ (2 * k) % 2 # 1 /\ (2 * k) \div 2 = k
    BY <1>1
  <2>3. QED
    BY <2>1, <2>2
<1> HIDE DEF f
<1>7. Turns(s) = f /\ f \in Seq(1 .. n) /\ Len(f) = 2 * n
  <2>1. PICK m \in Nat : m = 2 * n
    BY <1>5
  <2>2. f \in [1 .. m -> 1 .. n]
    BY <1>5, <2>1
  <2>3. Evaluated(f) = f /\ f \in Seq(1 .. n) /\ Len(f) = m
    BY <2>2, EvaluatedFacts
  <2>4. QED
    BY <1>3, <2>1, <2>3
<1>8. QED
  BY <1>2, <1>6, <1>7 DEF a, b, n

(* The first of both orders are kept, as many of each as half the report       *)
(* holds.                                                                      *)
LEMMA KeptFacts ==
    ASSUME NEW s \in Seq(Judged)
    PROVE  /\ Kept(s) \in Seq(Judged) /\ Range(Kept(s)) \subseteq Range(s)
           /\ \A k \in 1 .. MAX_CULPRITS \div 2 : k <= Len(s) =>
                 s[ByBlocked(s)[k]] \in Range(Kept(s)) /\ s[ByBytes(s)[k]] \in Range(Kept(s))
<1> DEFINE n == Len(s)
           t == Turns(s)
           w == WithoutRepeats(t)
           keep == First(w, MAX_CULPRITS)
           picked == [k \in DOMAIN keep |-> s[keep[k]]]
           M == MAX_CULPRITS
<1>1. /\ n \in Nat /\ DOMAIN s = 1 .. n /\ \A i \in 1 .. n : s[i] \in Judged
      /\ M \in Nat
  BY DrillAssumption
<1>2. /\ t \in Seq(1 .. n) /\ Len(t) = 2 * n
      /\ \A k \in 1 .. n : t[2 * k - 1] = ByBlocked(s)[k] /\ t[2 * k] = ByBytes(s)[k]
  BY TurnsFacts
<1> HIDE DEF t, n
<1>3. /\ w \in Seq(1 .. n)
      /\ \A i \in 1 .. Len(t) : \E k \in 1 .. Len(w) : k <= i /\ w[k] = t[i]
  BY <1>2, WithoutRepeatsFacts
<1> HIDE DEF w
<1>4. /\ keep \in Seq(1 .. n) /\ Len(keep) = (IF Len(w) < M THEN Len(w) ELSE M)
      /\ DOMAIN keep = 1 .. Len(keep)
      /\ \A i \in 1 .. Len(keep) : i \in 1 .. Len(w) /\ keep[i] = w[i]
  BY <1>1, <1>3, FirstFacts
<1> HIDE DEF keep
<1>5. ASSUME NEW i \in 1 .. Len(t), i <= M PROVE \E k \in 1 .. Len(keep) : keep[k] = t[i]
  <2>1. PICK k \in 1 .. Len(w) : k <= i /\ w[k] = t[i]
    BY <1>3
  <2>2. k \in 1 .. Len(keep)
    BY <1>1, <1>2, <1>3, <1>4, <1>5, <2>1
  <2>3. QED
    BY <1>4, <2>1, <2>2
<1>6. /\ picked \in Seq(Judged) /\ Len(picked) = Len(keep) /\ DOMAIN picked = 1 .. Len(keep)
      /\ \A k \in 1 .. Len(keep) : picked[k] = s[keep[k]] /\ keep[k] \in 1 .. n
  <2>1. PICK m \in Nat : m = Len(keep)
    BY <1>4
  <2>2. \A k \in 1 .. m : keep[k] \in 1 .. n /\ s[keep[k]] \in Judged
    BY <1>1, <1>4, <2>1
  <2>3. picked = [k \in 1 .. m |-> s[keep[k]]]
    BY <1>4, <2>1
  <2> HIDE DEF picked
  <2>4. picked \in [1 .. m -> Judged] /\ \A k \in 1 .. m : picked[k] = s[keep[k]]
    BY <2>2, <2>3
  <2>5. picked \in Seq(Judged) /\ Len(picked) = m /\ DOMAIN picked = 1 .. m
    BY <2>4, EvaluatedFacts
  <2>6. QED
    BY <2>1, <2>2, <2>4, <2>5
<1>7. Kept(s) = Rearranged(picked, ByBytes(picked))
  BY DEF Kept, keep, w, t
<1> HIDE DEF picked
<1>8. Kept(s) \in Seq(Judged) /\ Range(Kept(s)) = Range(picked)
  <2> DEFINE key == [i \in DOMAIN picked |-> picked[i].bytes]
             p == Len(picked)
  <2>1. p \in Nat /\ key \in [1 .. p -> Int]
    <3>1. p \in Nat /\ DOMAIN picked = 1 .. p /\ \A i \in 1 .. p : picked[i] \in Judged
      BY <1>6
    <3>2. \A c \in Judged : c.bytes \in Int
      BY DEF Judged
    <3> HIDE DEF p
    <3>3. QED
      BY <3>1, <3>2
  <2>2. ByBytes(picked) = Ranked(key)
    BY DEF ByBytes
  <2> HIDE DEF key
  <2>3. /\ \A k \in 1 .. p : ByBytes(picked)[k] \in 1 .. p
        /\ \A x \in 1 .. p : \E k \in 1 .. p : ByBytes(picked)[k] = x
    <3> HIDE DEF p
    <3> QED
      BY ZenonT(30), <2>1, <2>2, RankedFacts
  <2>4. QED
    BY SMTT(20), <1>6, <1>7, <2>3, RearrangedFacts
<1>9. Range(picked) \subseteq Range(s)
  BY <1>1, <1>6 DEF Range
<1>10. ASSUME NEW i \in 1 .. Len(t), i <= M PROVE s[t[i]] \in Range(picked)
  <2>1. PICK k \in 1 .. Len(keep) : keep[k] = t[i]
    BY <1>5, <1>10
  <2>2. QED
    BY <1>6, <2>1 DEF Range
<1>11. ASSUME NEW k \in 1 .. M \div 2, k <= n
       PROVE  s[ByBlocked(s)[k]] \in Range(picked) /\ s[ByBytes(s)[k]] \in Range(picked)
  <2>1. 2 * k - 1 \in 1 .. Len(t) /\ 2 * k - 1 <= M /\ 2 * k \in 1 .. Len(t) /\ 2 * k <= M
    BY <1>1, <1>2, <1>11
  <2>2. k \in 1 .. n
    BY <1>1, <1>11
  <2>3. QED
    BY <1>2, <1>10, <2>1, <2>2
<1>12. QED
  BY <1>8, <1>9, <1>11 DEF n

(* Of a sequence without repeats, what is not among those kept comes after the *)
(* first of them.                                                              *)
LEMMA GivesWay ==
    ASSUME NEW T, NEW s \in Seq(T), \A i, j \in 1 .. Len(s) : s[i] = s[j] => i = j,
           NEW key \in [1 .. Len(s) -> Int], NEW half \in Nat, NEW K,
           \A k \in 1 .. half : k <= Len(s) => s[Ranked(key)[k]] \in K,
           NEW i \in 1 .. Len(s), s[i] \notin K,
           NEW D, IsFiniteSet(D), \A j \in 1 .. Len(s) : s[j] \in K /\ key[j] >= key[i] => s[j] \in D
    PROVE  Cardinality(D) >= half
<1> DEFINE n == Len(s)
           q == Ranked(key)
           f == [k \in 1 .. half |-> s[q[k]]]
<1>1. n \in Nat
  OBVIOUS
<1>2. /\ \A k \in 1 .. n : q[k] \in 1 .. n
      /\ \A x \in 1 .. n : \E k \in 1 .. n : q[k] = x
      /\ \A k, l \in 1 .. n : q[k] = q[l] => k = l
      /\ \A k, l \in 1 .. n : k <= l => key[q[k]] >= key[q[l]]
  <2>1. key \in [1 .. n -> Int]
    OBVIOUS
  <2> HIDE DEF n
  <2>2. QED
    BY <1>1, <2>1, RankedFacts
<1> HIDE DEF q
<1>3. PICK l \in 1 .. n : q[l] = i
  BY <1>2
<1>4. half < l
  BY <1>1, <1>3 DEF q
<1>5. ASSUME NEW k \in 1 .. half PROVE k \in 1 .. n /\ s[q[k]] \in D
  <2>1. k \in 1 .. n /\ k <= l
    BY <1>1, <1>4
  <2>2. s[q[k]] \in K
    BY <2>1 DEF q
  <2>3. key[q[k]] >= key[i] /\ q[k] \in 1 .. n
    BY <1>2, <1>3, <2>1
  <2>4. QED
    BY <2>1, <2>2, <2>3
<1>6. f \in Injection(1 .. half, D)
  <2>1. f \in [1 .. half -> D]
    BY <1>5
  <2>2. ASSUME NEW a \in 1 .. half, NEW b \in 1 .. half, f[a] = f[b] PROVE a = b
    <3>1. a \in 1 .. n /\ b \in 1 .. n /\ s[q[a]] = s[q[b]]
      BY <1>5, <2>2
    <3>2. q[a] \in 1 .. n /\ q[b] \in 1 .. n
      BY <1>2, <3>1
    <3>3. q[a] = q[b]
      BY <3>1, <3>2
    <3>4. QED
      BY <1>2, <3>1, <3>3
  <2> HIDE DEF f
  <2>3. QED
    BY <2>1, <2>2 DEF Injection, IsInjective
<1>7. IsFiniteSet(1 .. half) /\ Cardinality(1 .. half) = half
  <2>1. PICK m \in Nat : m = half
    OBVIOUS
  <2> HIDE DEF f, n
  <2>2. IsFiniteSet(1 .. m)
    BY FS_Interval
  <2>3. Cardinality(1 .. m) = m
    BY FS_Interval
  <2>4. QED
    BY <2>1, <2>2, <2>3
<1>8. Cardinality(1 .. half) <= Cardinality(D)
  BY <1>6, FS_Injection
<1>9. QED
  BY <1>7, <1>8, FS_CardinalityType

-----------------------------------------------------------------------------
(* Every process is closed once.                                               *)
ClosedInv ==
    /\ stage \notin {"close", "told"} => closed = << >>
    /\ \A i, j \in DOMAIN closed : closed[i].pid = closed[j].pid => i = j
    /\ \A i \in DOMAIN closed : closed[i].pid \notin ahead

LEMMA ClosedKeeps == DrillInv /\ ClosedInv /\ [IncidentNext]_incidentVars => ClosedInv'
<1> SUFFICES ASSUME DrillInv, ClosedInv, [IncidentNext]_incidentVars PROVE ClosedInv'
  OBVIOUS
<1>1. ASSUME UNCHANGED <<stage, closed, ahead>> PROVE ClosedInv'
  BY <1>1 DEF ClosedInv
<1>2. CASE UNCHANGED drillVars
  BY <1>1, <1>2 DEF drillVars, sweepVars
<1>3. CASE BeginDrill \/ EndSweep \/ ScanMachine
  <2>1. closed = << >> /\ closed' = << >>
    BY <1>3 DEF BeginDrill, EndSweep, ScanMachine, ClosedInv
  <2>2. QED
    BY <2>1 DEF ClosedInv
<1>4. ASSUME NEW p \in Pids, MoveBytes(p) \/ ExitProcess(p) \/ ReusePid(p) PROVE ClosedInv'
  BY <1>1, <1>4 DEF MoveBytes, ExitProcess, ReusePid, sweepVars
<1>5. ASSUME NEW p \in Pids, SweepProcess(p) \/ SweepExiting(p) PROVE ClosedInv'
  <2>1. closed = << >> /\ closed' = << >>
    BY <1>5 DEF SweepProcess, SweepExiting, ClosedInv
  <2>2. QED
    BY <2>1 DEF ClosedInv
<1>6. ASSUME NEW p \in Pids, CloseProcess(p) PROVE ClosedInv'
  <2> DEFINE n == Len(closed)
             c == [pid |-> p, bytes |-> Charged(p), blocked |-> blocked[p], seen |-> seen[p],
                   moved |-> moved[p], again |-> p \in reused,
                   shown |-> IF before[p] = Unread THEN 0 ELSE last[p] - before[p]]
  <2>1. /\ stage = "close" /\ stage' = stage /\ p \in ahead /\ ahead' = ahead \ {p}
        /\ closed' = Append(closed, c)
    BY <1>6 DEF CloseProcess, IsFirst
  <2>2. c.pid = p
    OBVIOUS
  <2> HIDE DEF c
  <2>3. /\ n \in Nat /\ DOMAIN closed = 1 .. n /\ DOMAIN closed' = 1 .. (n + 1)
        /\ closed'[n + 1] = c /\ \A i \in 1 .. n : closed'[i] = closed[i]
    BY <2>1 DEF DrillInv, DrillTypes
  <2> HIDE DEF n
  <2>4. /\ \A i, j \in 1 .. n : closed[i].pid = closed[j].pid => i = j
        /\ \A i \in 1 .. n : closed[i].pid \notin ahead
    BY <2>3 DEF ClosedInv
  <2>5. \A i \in 1 .. (n + 1) : i \in 1 .. n \/ i = n + 1
    BY <2>3
  <2>6. \A i, j \in 1 .. (n + 1) : closed'[i].pid = closed'[j].pid => i = j
    BY <2>1, <2>2, <2>3, <2>4, <2>5
  <2>7. \A i \in 1 .. (n + 1) : closed'[i].pid \notin ahead'
    BY <2>1, <2>2, <2>3, <2>4, <2>5
  <2>8. QED
    BY <2>1, <2>3, <2>6, <2>7 DEF ClosedInv
<1>7. CASE Tell
  BY <1>7 DEF Tell, sweepVars, ClosedInv
<1>8. QED
  BY <1>2, <1>3, <1>4, <1>5, <1>6, <1>7 DEF IncidentNext, incidentVars, PutAway, DrillMachine, DrillNext,
     ScrapeMachine, hardwareVars, passVars

(* What was found, once each.                                                  *)
LEMMA FoundFacts ==
    ASSUME DrillInv, ClosedInv
    PROVE  Found \in Seq(Judged) /\ \A i, j \in 1 .. Len(Found) : Found[i] = Found[j] => i = j
<1> DEFINE P == {i \in DOMAIN closed : closed[i].blocked > 0 \/ closed[i].bytes > 0}
           n == Cardinality(P)
<1>1. closed \in Seq(Judged) /\ P \in SUBSET DOMAIN closed
  <2>1. closed \in Seq(Charges) /\ Charges \subseteq Judged
    BY DEF DrillInv, DrillTypes, Charges, Judged
  <2>2. QED
    BY <2>1
<1>2. Found = Members(closed, P)
  BY DEF Found
<1>3. \A i \in P : i \in Int
  BY <1>1
<1>4. \A i, j \in P : closed[i] = closed[j] => i = j
  BY DEF ClosedInv
<1> HIDE DEF P
<1>5. /\ Found \in Seq(Judged) /\ Len(Found) = n /\ n \in Nat
      /\ \A k, l \in 1 .. n : k < l => \E i, j \in P : i < j /\ Found[k] = closed[i] /\ Found[l] = closed[j]
  <2>1. PICK z \in Seq(Judged) : z = closed
    BY <1>1
  <2>2. P \in SUBSET DOMAIN z
    BY <1>1, <2>1
  <2>3. /\ Members(z, P) \in Seq(Judged) /\ Len(Members(z, P)) = Cardinality(P) /\ Cardinality(P) \in Nat
        /\ \A k, l \in 1 .. Cardinality(P) : k < l =>
               \E i, j \in P : i < j /\ Members(z, P)[k] = z[i] /\ Members(z, P)[l] = z[j]
    BY <2>2, MembersFacts
  <2>4. QED
    BY <1>2, <2>1, <2>3
<1> HIDE DEF n
<1>6. ASSUME NEW k \in 1 .. n, NEW l \in 1 .. n, k < l PROVE Found[k] # Found[l]
  <2>1. PICK i, j \in P : i < j /\ Found[k] = closed[i] /\ Found[l] = closed[j]
    BY <1>5, <1>6
  <2>2. QED
    BY <1>3, <1>4, <2>1
<1>7. \A k, l \in 1 .. n : k # l => k < l \/ l < k
  BY <1>5
<1>8. \A k, l \in 1 .. n : Found[k] = Found[l] => k = l
  BY <1>6, <1>7
<1>9. QED
  BY <1>5, <1>8

(* The report is what was kept, in another order.                              *)
LEMMA CulpritsFacts ==
    ASSUME DrillInv, ClosedInv
    PROVE  Range(Culprits) = Range(Kept(Found))
<1> DEFINE s == Kept(Found)
           key == [k \in DOMAIN s |-> Precedence[Role(s[k])]]
           n == Len(s)
<1>1. s \in Seq(Judged)
  BY FoundFacts, KeptFacts
<1>2. \A c : Precedence[Role(c)] \in Int
  BY DEF Precedence, Role
<1>3. Culprits = Rearranged(s, Ranked(key))
  BY DEF Culprits
<1> HIDE DEF s
<1>4. n \in Nat /\ key \in [1 .. n -> Int]
  BY <1>1, <1>2
<1> HIDE DEF key
<1>5. /\ \A k \in 1 .. n : Ranked(key)[k] \in 1 .. n
      /\ \A x \in 1 .. n : \E k \in 1 .. n : Ranked(key)[k] = x
  <2> HIDE DEF n
  <2> QED
    BY <1>4, RankedFacts
<1>6. QED
  BY <1>1, <1>3, <1>5, RearrangedFacts DEF s

(* A process with evidence that is left out of the report gave way to as many  *)
(* that moved no less, and to as many that were blocked no less, as half the   *)
(* report holds: however many processes there are and whatever the report      *)
(* holds, neither order starves the other.                                     *)
THEOREM NeitherOrderStarves == IncidentSpec => []TopsKept
<1>1. IncidentInit => DrillInv /\ ClosedInv
  BY DrillInvInit DEF IncidentInit, DrillInit, ClosedInv
<1>2. DrillInv /\ ClosedInv /\ [IncidentNext]_incidentVars => (DrillInv /\ ClosedInv)'
  BY DrillKeeps, ClosedKeeps
<1>3. DrillInv /\ ClosedInv => TopsKept
  <2> SUFFICES ASSUME DrillInv, ClosedInv, stage = "told", NEW c \in Range(Found) \ Range(report)
               PROVE  /\ Cardinality({r \in Range(report) : r.bytes >= c.bytes}) >= MAX_CULPRITS \div 2
                      /\ Cardinality({r \in Range(report) : r.blocked >= c.blocked}) >= MAX_CULPRITS \div 2
    BY DEF TopsKept
  <2> DEFINE s == Found
             K == Range(report)
             half == MAX_CULPRITS \div 2
             bytes == [i \in DOMAIN s |-> s[i].bytes]
             stuck == [i \in DOMAIN s |-> s[i].blocked]
  <2>1. K = Range(Kept(s))
    BY CulpritsFacts DEF report
  <2>2. s \in Seq(Judged) /\ \A i, j \in 1 .. Len(s) : s[i] = s[j] => i = j
    BY FoundFacts
  <2>3. PICK i \in 1 .. Len(s) : c = s[i]
    BY <2>2 DEF Range
  <2>4. half \in Nat
    BY DrillAssumption
  <2> HIDE DEF K, half, s
  <2>5. /\ DOMAIN s = 1 .. Len(s) /\ Len(s) \in Nat
        /\ \A j \in 1 .. Len(s) : s[j] \in Judged
    BY <2>2
  <2>6. bytes \in [1 .. Len(s) -> Int] /\ stuck \in [1 .. Len(s) -> Int]
    BY <2>5 DEF Judged
  <2>7. \A k \in 1 .. half : k <= Len(s) => s[Ranked(bytes)[k]] \in K /\ s[Ranked(stuck)[k]] \in K
    <3>1. Ranked(bytes) = ByBytes(s) /\ Ranked(stuck) = ByBlocked(s)
      BY DEF ByBytes, ByBlocked
    <3> HIDE DEF bytes, stuck
    <3>2. QED
      BY <2>1, <2>2, <3>1, KeptFacts DEF half
  <2>8. IsFiniteSet(K)
    <3>1. K \subseteq Range(s)
      BY <2>1, <2>2, KeptFacts
    <3>2. IsFiniteSet(Range(s))
      <4>1. IsFiniteSet(1 .. Len(s))
        BY <2>5, FS_Interval
      <4>2. s \in Surjection(1 .. Len(s), Range(s))
        BY <2>2, <2>5 DEF Surjection, Range
      <4>3. QED
        BY <4>1, <4>2, FS_Surjection
    <3>3. QED
      BY <3>1, <3>2, FS_Subset
  <2> DEFINE D == {r \in K : r.bytes >= c.bytes}
             E == {r \in K : r.blocked >= c.blocked}
  <2>9. IsFiniteSet(D) /\ IsFiniteSet(E)
    <3>1. D \in SUBSET K /\ E \in SUBSET K
      OBVIOUS
    <3>2. QED
      BY <2>8, <3>1, FS_Subset
  <2>10. s[i] \notin K
    BY <2>3 DEF K
  <2>11. /\ \A j \in 1 .. Len(s) : s[j] \in K /\ bytes[j] >= bytes[i] => s[j] \in D
         /\ \A j \in 1 .. Len(s) : s[j] \in K /\ stuck[j] >= stuck[i] => s[j] \in E
    BY <2>3, <2>5
  <2> HIDE DEF D, E, bytes, stuck
  <2>12. Cardinality(D) >= half
    BY <2>2, <2>4, <2>6, <2>7, <2>9, <2>10, <2>11, GivesWay
  <2>13. Cardinality(E) >= half
    BY <2>2, <2>4, <2>6, <2>7, <2>9, <2>10, <2>11, GivesWay
  <2>14. QED
    BY <2>12, <2>13 DEF D, E, K, half
<1>4. QED
  BY <1>1, <1>2, <1>3, PTL DEF IncidentSpec

-----------------------------------------------------------------------------
(* What a scrape says, put together from blocks.                               *)
LabelSet == Range(Pairs) \union Filesystems \union Sensors \union {<< >>}
Families == {"waiting", "stalled", "unallocated", "discard", "temperature", "limit", "emitted", "dropped",
             "scanned", "duration"}
Sample == [family : Families, is : {"type", "series", "count"}, of : LabelSet, n : Int]

Tells(doc, name) == {l.of : l \in {k \in Range(doc) : k.family = name /\ k.is = "series"}}
Counts(doc, name) == {l.n : l \in {k \in Range(doc) : k.family = name /\ k.is = "count"}}

LEMMA Joined ==
    ASSUME NEW a \in Seq(Sample), NEW b \in Seq(Sample), NEW name
    PROVE  /\ a \o b \in Seq(Sample)
           /\ Tells(a \o b, name) = Tells(a, name) \union Tells(b, name)
           /\ Counts(a \o b, name) = Counts(a, name) \union Counts(b, name)
<1>1. a \o b \in Seq(Sample)
  OBVIOUS
<1>2. Range(a \o b) = Range(a) \union Range(b)
  <2>1. /\ Len(a) \in Nat /\ DOMAIN a = 1 .. Len(a)
        /\ Len(b) \in Nat /\ DOMAIN b = 1 .. Len(b)
        /\ DOMAIN (a \o b) = 1 .. Len(a) + Len(b)
        /\ \A i \in 1 .. Len(a) : i \in DOMAIN (a \o b) /\ (a \o b)[i] = a[i]
        /\ \A i \in 1 .. Len(b) : i + Len(a) \in DOMAIN (a \o b) /\ (a \o b)[i + Len(a)] = b[i]
    OBVIOUS
  <2>2. ASSUME NEW i \in DOMAIN (a \o b) PROVE (a \o b)[i] \in Range(a) \union Range(b)
    <3>1. CASE i <= Len(a)
      BY <2>1, <3>1 DEF Range
    <3>2. CASE ~(i <= Len(a))
      <4>1. i - Len(a) \in 1 .. Len(b) /\ (i - Len(a)) + Len(a) = i
        BY <2>1, <3>2
      <4>2. (a \o b)[i] = b[i - Len(a)]
        BY <2>1, <4>1
      <4>3. QED
        BY <2>1, <4>1, <4>2 DEF Range
    <3>3. QED
      BY <3>1, <3>2
  <2>3. Range(a) \subseteq Range(a \o b)
    BY <2>1 DEF Range
  <2>4. Range(b) \subseteq Range(a \o b)
    BY <2>1 DEF Range
  <2>5. Range(a \o b) \subseteq Range(a) \union Range(b)
    BY <2>2 DEF Range
  <2>6. QED
    BY <2>3, <2>4, <2>5
<1>3. QED
  BY <1>1, <1>2 DEF Tells, Counts

(* Only under this name, and this.                                             *)
OnlyTells(doc, name, S) == Tells(doc, name) = S /\ \A x : x # name => Tells(doc, x) = {}
OnlyCounts(doc, name, S) == Counts(doc, name) = S /\ \A x : x # name => Counts(doc, x) = {}

LEMMA LineFacts ==
    ASSUME NEW name \in Families, NEW of \in LabelSet
    PROVE  /\ Type(name) \in Sample /\ Type(name).is = "type"
           /\ Series(name, of) \in Sample
           /\ Series(name, of).is = "series" /\ Series(name, of).family = name /\ Series(name, of).of = of
<1>1. << >> \in LabelSet
  BY DEF LabelSet
<1>2. Type(name) \in Sample /\ Type(name).is = "type"
  BY <1>1 DEF Type, Sample
<1>3. QED
  BY <1>1, <1>2 DEF Series, Sample

LEMMA BlockFacts ==
    ASSUME NEW name \in Families, NEW labels \in Seq(LabelSet)
    PROVE  /\ Block(name, labels) \in Seq(Sample)
           /\ OnlyTells(Block(name, labels), name, Range(labels))
           /\ OnlyCounts(Block(name, labels), name, {})
<1> DEFINE head == <<Type(name)>>
           body == [i \in DOMAIN labels |-> Series(name, labels[i])]
<1> DEFINE n == Len(labels)
<1>1. /\ n \in Nat /\ DOMAIN labels = 1 .. n
      /\ \A i \in 1 .. n : labels[i] \in LabelSet
  OBVIOUS
<1>2. << >> \in LabelSet
  BY DEF LabelSet
<1>3. head \in Seq(Sample) /\ \A l \in Range(head) : l.is = "type"
  <2>1. Type(name) \in Sample /\ Type(name).is = "type"
    BY <1>2, LineFacts
  <2>2. QED
    BY <2>1 DEF Range
<1>4. /\ body \in Seq(Sample) /\ DOMAIN body = 1 .. n
      /\ \A i \in 1 .. n : body[i].is = "series" /\ body[i].family = name /\ body[i].of = labels[i]
  <2> HIDE DEF n
  <2>1. \A i \in 1 .. n : body[i] = Series(name, labels[i])
    BY <1>1
  <2>2. DOMAIN body = 1 .. n
    BY <1>1
  <2>3. \A i \in 1 .. n : /\ body[i] \in Sample /\ body[i].is = "series"
                          /\ body[i].family = name /\ body[i].of = labels[i]
    BY <1>1, <2>1, LineFacts
  <2>4. body \in [1 .. n -> Sample]
    BY <2>2, <2>3
  <2> HIDE DEF body
  <2>5. body \in Seq(Sample)
    BY <1>1, <2>4
  <2>6. QED
    BY <2>2, <2>3, <2>5
<1> HIDE DEF head, body, n
<1>5. Block(name, labels) = head \o body
  BY DEF Block, head, body
<1>6. \A x : Tells(head, x) = {} /\ Counts(head, x) = {}
  BY <1>3 DEF Tells, Counts
<1>7. \A x : Counts(body, x) = {}
  BY <1>4 DEF Counts, Range
<1>8. \A x : x # name => Tells(body, x) = {}
  BY <1>4 DEF Tells, Range
<1>9. Tells(body, name) = Range(labels)
  BY <1>1, <1>4 DEF Tells, Range
<1>10. \A x : /\ Block(name, labels) \in Seq(Sample)
              /\ Tells(Block(name, labels), x) = Tells(head, x) \union Tells(body, x)
              /\ Counts(Block(name, labels), x) = Counts(head, x) \union Counts(body, x)
  BY <1>3, <1>4, <1>5, Joined
<1>11. QED
  BY <1>6, <1>7, <1>8, <1>9, <1>10 DEF OnlyTells, OnlyCounts

LEMMA CountFacts ==
    ASSUME NEW name \in Families, NEW n \in Int
    PROVE  /\ Count(name, n) \in Seq(Sample)
           /\ OnlyTells(Count(name, n), name, {})
           /\ OnlyCounts(Count(name, n), name, {n})
<1> DEFINE s == [family |-> name, is |-> "count", of |-> << >>, n |-> n]
           t == Type(name)
<1>1. << >> \in LabelSet
  BY DEF LabelSet
<1>2. t \in Sample /\ t.is = "type"
  BY <1>1, LineFacts
<1>3. s \in Sample /\ s.is = "count" /\ s.family = name /\ s.n = n
  BY <1>1 DEF Sample
<1>4. Count(name, n) = <<t, s>>
  BY DEF Count
<1> HIDE DEF s, t
<1>5. Count(name, n) \in Seq(Sample) /\ Range(Count(name, n)) = {t, s}
  BY <1>2, <1>3, <1>4 DEF Range
<1>6. QED
  BY <1>2, <1>3, <1>5 DEF OnlyTells, OnlyCounts, Tells, Counts

(* A gauge tells of every member of its set.                                   *)
LEMMA GaugeFacts ==
    ASSUME NEW name \in Families, NEW S \in SUBSET LabelSet, IsFiniteSet(S)
    PROVE  /\ Gauge(name, S) \in Seq(Sample)
           /\ OnlyTells(Gauge(name, S), name, S)
           /\ OnlyCounts(Gauge(name, S), name, {})
<1>1. CASE S = {}
  <2>1. Gauge(name, S) = << >> /\ Range(<< >>) = {} /\ << >> \in Seq(Sample)
    BY <1>1 DEF Gauge, Range
  <2>2. \A x : Tells(<< >>, x) = {} /\ Counts(<< >>, x) = {}
    BY <2>1 DEF Tells, Counts
  <2>3. QED
    BY <1>1, <2>1, <2>2 DEF OnlyTells, OnlyCounts
<1>2. CASE S # {}
  <2> DEFINE n == Cardinality(S)
             f == SetToSeq(S)
  <2>1. n \in Nat /\ IsFiniteSet(1 .. n) /\ Cardinality(1 .. n) = n
    BY FS_CardinalityType, FS_Interval
  <2>2. f \in [1 .. n -> S] /\ IsInjective(f)
    <3>1. \E g \in [1 .. n -> S] : IsInjective(g)
      BY FS_CardinalityType DEF ExistsBijection, Bijection, Injection, IsInjective
    <3> HIDE DEF n
    <3>2. QED
      BY <3>1 DEF SetToSeq, n
  <2> HIDE DEF f, n
  <2>3. f \in Injection(1 .. n, S)
    BY <2>2 DEF Injection, IsInjective
  <2>4. f \in Surjection(1 .. n, S)
    BY <2>1, <2>3, FS_Injection DEF n
  <2>5. Range(f) = S /\ f \in Seq(LabelSet)
    BY <2>1, <2>2, <2>4 DEF Range, Surjection
  <2>6. Gauge(name, S) = Block(name, f)
    BY <1>2 DEF Gauge, f
  <2>7. QED
    BY <2>5, <2>6, BlockFacts
<1>3. QED
  BY <1>1, <1>2

(* Those with pressure, in order and once each; and the first of them.         *)
LEMMA ShownFacts ==
    ASSUME pressed \subseteq Range(Pairs)
    PROVE  /\ Shown \in Seq(Range(Pairs)) /\ Range(Shown) \subseteq pressed
           /\ Dropped \in Int /\ Dropped = Cardinality(pressed \ Range(Shown))
<1> DEFINE T == Range(Pairs)
           P == {i \in DOMAIN Pairs : Pairs[i] \in pressed}
           c == Candidates
           n == Cardinality(P)
<1>1. Pairs \in Seq(T) /\ MAX_SERIES \in Nat /\ \A i, j \in P : Pairs[i] = Pairs[j] => i = j
  BY MetricsAssumption DEF IsInjective
<1>2. /\ n \in Nat /\ c \in Seq(T) /\ Len(c) = n /\ DOMAIN c = 1 .. n
      /\ \A k \in 1 .. n : \E i \in P : c[k] = Pairs[i]
      /\ \A i \in P : \E k \in 1 .. n : c[k] = Pairs[i]
      /\ \A k, l \in 1 .. n : k < l => \E i, j \in P : i < j /\ c[k] = Pairs[i] /\ c[l] = Pairs[j]
  <2>1. P \in SUBSET DOMAIN Pairs
    OBVIOUS
  <2>2. c = Members(Pairs, P)
    BY DEF Candidates
  <2>3. Pairs \in Seq(T)
    BY <1>1
  <2> HIDE DEF P, c, T
  <2>4. LET k == Cardinality(P) IN
        /\ k \in Nat /\ c \in Seq(T) /\ Len(c) = k /\ DOMAIN c = 1 .. k
        /\ \A i \in 1 .. k : \E j \in P : c[i] = Pairs[j]
        /\ \A i \in P : \E j \in 1 .. k : j <= i /\ c[j] = Pairs[i]
        /\ \A i, j \in 1 .. k : i < j => \E a, b \in P : a < b /\ c[i] = Pairs[a] /\ c[j] = Pairs[b]
    BY ZenonT(30), <2>1, <2>2, <2>3, MembersFacts
  <2>5. QED
    BY <2>4
<1>3. Range(c) = pressed
  <2>1. (\A x \in pressed : \E i \in P : x = Pairs[i]) /\ \A i \in P : Pairs[i] \in pressed
    BY DEF Range
  <2> HIDE DEF P, c, n
  <2>2. ASSUME NEW x \in pressed PROVE \E k \in 1 .. n : c[k] = x
    <3>1. PICK i \in P : x = Pairs[i]
      BY <2>1
    <3>2. PICK k \in 1 .. n : c[k] = Pairs[i]
      BY <1>2
    <3>3. QED
      BY <3>1, <3>2
  <2>3. ASSUME NEW k \in 1 .. n PROVE c[k] \in pressed
    BY <1>2, <2>1
  <2>4. Range(c) = {c[k] : k \in 1 .. n}
    BY <1>2 DEF Range
  <2>5. QED
    BY <2>2, <2>3, <2>4
<1>4. ASSUME NEW k \in 1 .. n, NEW l \in 1 .. n, k < l PROVE c[k] # c[l]
  <2>1. PICK i, j \in P : i < j /\ c[k] = Pairs[i] /\ c[l] = Pairs[j]
    BY <1>2, <1>4
  <2>2. i \in Int /\ j \in Int
    BY <1>1
  <2>3. QED
    BY <1>1, <2>1, <2>2
<1> HIDE DEF T, P, c, n
<1> DEFINE s == Shown
           m == IF Len(c) < MAX_SERIES THEN Len(c) ELSE MAX_SERIES
<1>5. /\ s \in Seq(T) /\ Len(s) = m /\ DOMAIN s = 1 .. m
      /\ \A i \in 1 .. m : i \in 1 .. n /\ s[i] = c[i]
  <2>1. s = First(c, MAX_SERIES)
    BY DEF Shown, c
  <2>2. c \in Seq(T) /\ MAX_SERIES \in Nat
    BY <1>1, <1>2
  <2> HIDE DEF s
  <2>3. s \in Seq(T) /\ Len(s) = m /\ DOMAIN s = 1 .. Len(s)
        /\ \A i \in 1 .. Len(s) : i \in 1 .. Len(c) /\ s[i] = c[i]
    BY SMTT(20), <2>1, <2>2, FirstFacts
  <2> HIDE DEF m
  <2>4. QED
    BY <1>2, <2>3
<1>6. m \in Nat /\ m <= n
  BY <1>1, <1>2
<1>7. Dropped = n - m
  BY <1>2, <1>5 DEF Dropped, c
<1> HIDE DEF s, m
<1>8. Range(s) \subseteq Range(c)
  BY <1>2, <1>5 DEF Range
<1> DEFINE left == (m + 1) .. n
           f == [k \in left |-> c[k]]
           rest == pressed \ Range(s)
<1>9. IsFiniteSet(left) /\ Cardinality(left) = n - m
  <2>1. m + 1 \in Int /\ n \in Int /\ (m + 1 > n => n - m = 0) /\ n - (m + 1) + 1 = n - m
    BY <1>2, <1>6
  <2>2. QED
    BY <2>1, FS_Interval
<1>10. \A k \in left : k \in 1 .. n /\ c[k] \in rest
  <2>1. ASSUME NEW k \in left PROVE k \in 1 .. n /\ c[k] \in rest
    <3>1. k \in 1 .. n /\ \A i \in 1 .. m : i \in 1 .. n /\ i < k
      BY <1>2, <1>6
    <3>2. c[k] \in pressed
      BY <1>2, <1>3, <3>1 DEF Range
    <3>3. \A i \in 1 .. m : s[i] # c[k]
      BY <1>4, <1>5, <3>1
    <3>4. QED
      BY <1>5, <3>1, <3>2, <3>3 DEF Range
  <2>2. QED
    BY <2>1
<1>11. ASSUME NEW x \in rest PROVE \E k \in left : c[k] = x
  <2>1. PICK k \in 1 .. n : c[k] = x
    BY <1>2, <1>3 DEF Range
  <2>2. k \notin 1 .. m
    BY <1>5, <2>1 DEF Range
  <2>3. QED
    BY <1>2, <1>6, <2>1, <2>2
<1>12. f \in Bijection(left, rest)
  <2>1. f \in [left -> rest] /\ \A k \in left : f[k] = c[k]
    BY <1>10
  <2>2. ASSUME NEW k \in left, NEW l \in left, f[k] = f[l] PROVE k = l
    <3>1. k \in 1 .. n /\ l \in 1 .. n /\ c[k] = c[l]
      BY <1>10, <2>1, <2>2
    <3>2. ~(k < l) /\ ~(l < k)
      BY <1>4, <3>1
    <3>3. QED
      BY <1>2, <3>1, <3>2
  <2> HIDE DEF f, left, rest
  <2>3. f \in Injection(left, rest)
    BY <2>1, <2>2 DEF Injection, IsInjective
  <2>4. f \in Surjection(left, rest)
    BY <1>11, <2>1 DEF Surjection
  <2>5. QED
    BY <2>3, <2>4 DEF Bijection
<1> HIDE DEF f, left, rest
<1>13. Cardinality(rest) = n - m
  BY <1>9, <1>12, FS_Bijection DEF ExistsBijection
<1>14. Range(s) \subseteq pressed /\ n - m \in Int
  BY <1>2, <1>3, <1>6, <1>8
<1>15. QED
  BY <1>5, <1>7, <1>13, <1>14 DEF s, T, rest

-----------------------------------------------------------------------------
(* The scan is of what is read at one moment and is not read again; the scrape *)
(* is of the same.                                                             *)
ScrapeInv ==
    /\ scraped \in BOOLEAN
    /\ scraped => stage = "scanned" /\ pressed \subseteq Range(Pairs)
    /\ stage = "scanned" =>
          /\ btrfs \in [Filesystems -> Btrfs] /\ hwmon \in [Sensors -> Sensor]
          /\ warnings = Warnings

LEMMA ScrapeInitially == IncidentInit => ScrapeInv
  BY DEF IncidentInit, DrillInit, MetricsInit, ScrapeInv

LEMMA ScrapeKeeps == ScrapeInv /\ [IncidentNext]_incidentVars => ScrapeInv'
<1> SUFFICES ASSUME ScrapeInv, [IncidentNext]_incidentVars PROVE ScrapeInv'
  OBVIOUS
<1>1. ASSUME UNCHANGED hardwareVars, stage' = stage PROVE ScrapeInv'
  BY <1>1 DEF ScrapeInv, hardwareVars, Warnings, Warning, Severity, Discarding, Exhausted, NearLimit
<1>2. CASE UNCHANGED drillVars /\ UNCHANGED hardwareVars
  BY <1>1, <1>2 DEF drillVars
<1>3. CASE DrillMachine \/ (DrillNext /\ UNCHANGED <<passVars, hardwareVars>>)
  <2>1. UNCHANGED hardwareVars
    BY <1>3 DEF DrillMachine
  <2>2. stage # "scanned" /\ stage' # "scanned"
    BY <1>3 DEF DrillMachine, BeginDrill, DrillNext, MoveBytes, ExitProcess, ReusePid, SweepProcess,
                SweepExiting, CloseProcess, EndSweep, Tell, Watched
  <2>3. QED
    BY <2>1, <2>2 DEF ScrapeInv, hardwareVars
<1>4. CASE ScanMachine
  BY <1>4 DEF ScanMachine, Scan, ScrapeInv
<1>5. CASE ScrapeMachine
  <2>1. /\ stage = "scanned" /\ stage' = stage /\ UNCHANGED <<btrfs, hwmon, warnings>>
        /\ scraped' = TRUE /\ pressed' \in SUBSET Range(Pairs)
    BY <1>5 DEF ScrapeMachine, Scrape, drillVars
  <2>2. QED
    BY <2>1 DEF ScrapeInv, Warnings, Warning, Severity, Discarding, Exhausted, NearLimit
<1>6. QED
  BY <1>2, <1>3, <1>4, <1>5 DEF IncidentNext, incidentVars, PutAway

LEMMA WalkedFinite == IsFiniteSet(Walked)
<1> DEFINE n == Len(Pairs)
           f == [i \in 1 .. n |-> Pairs[i][1]]
<1>1. n \in Nat /\ DOMAIN Pairs = 1 .. n
  BY MetricsAssumption
<1>2. IsFiniteSet(1 .. n)
  BY <1>1, FS_Interval
<1>3. Walked = {Pairs[i][1] : i \in 1 .. n}
  BY <1>1 DEF Walked, Range
<1> HIDE DEF n
<1>4. f \in Surjection(1 .. n, Walked)
  BY <1>3 DEF Surjection
<1>5. QED
  BY <1>2, <1>4, FS_Surjection

(* Family by family, what the document tells.                                  *)
LEMMA DocumentTells ==
    ASSUME ScrapeInv, scraped
    PROVE  /\ Told("waiting") = Range(Shown) /\ Counted("dropped") = {Dropped}
           /\ Told("unallocated") = Unallocated /\ Told("discard") = Discards
           /\ Told("temperature") = Limited /\ Told("limit") = Limited
<1> DEFINE T == Range(Pairs)
           stalled == Stalled(Shown)
           u == Gauge("unallocated", Unallocated)
           d == Gauge("discard", Discards)
           t == Gauge("temperature", Limited)
           l == Gauge("limit", Limited)
           w == Block("waiting", Shown)
           s == Block("stalled", stalled)
           e == Count("emitted", Len(Shown))
           r == Count("dropped", Dropped)
           a == Count("scanned", Cardinality(Walked))
           b == Block("duration", <<<< >>>>)
<1>1. Shown \in Seq(T) /\ Shown \in Seq(LabelSet) /\ Dropped \in Int /\ Len(Shown) \in Int
  BY ShownFacts DEF ScrapeInv, LabelSet
<1>2. stalled \in Seq(LabelSet)
  <2> DEFINE P == {i \in DOMAIN Shown : Shown[i][2] # "cpu"}
  <2>1. P \in SUBSET DOMAIN Shown /\ stalled = Members(Shown, P)
    BY DEF Stalled
  <2> HIDE DEF P
  <2>2. QED
    BY <1>1, <2>1, MembersFacts
<1>3. /\ Unallocated \in SUBSET LabelSet /\ IsFiniteSet(Unallocated)
      /\ Discards \in SUBSET LabelSet /\ IsFiniteSet(Discards)
      /\ Limited \in SUBSET LabelSet /\ IsFiniteSet(Limited)
  <2>1. /\ Unallocated \in SUBSET Filesystems /\ Discards \in SUBSET Filesystems
        /\ Limited \in SUBSET Sensors
    BY DEF Unallocated, Discards, Limited
  <2>2. QED
    BY <2>1, PathologyAssumption, FS_Subset DEF LabelSet
<1>4. document = ((w \o s) \o (((u \o d) \o t) \o l)) \o e \o r \o a \o b
  BY DEF document, Render, Pressure, PathologySeries
<1> DEFINE IsSeq(q) == q \in Seq(Sample)
<1>5. /\ IsSeq(w) /\ OnlyTells(w, "waiting", Range(Shown)) /\ OnlyCounts(w, "waiting", {})
      /\ IsSeq(s) /\ OnlyTells(s, "stalled", Range(stalled)) /\ OnlyCounts(s, "stalled", {})
  <2> HIDE DEF stalled
  <2> QED
    BY <1>1, <1>2, BlockFacts DEF Families
<1>6. /\ IsSeq(u) /\ OnlyTells(u, "unallocated", Unallocated) /\ OnlyCounts(u, "unallocated", {})
      /\ IsSeq(d) /\ OnlyTells(d, "discard", Discards) /\ OnlyCounts(d, "discard", {})
      /\ IsSeq(t) /\ OnlyTells(t, "temperature", Limited) /\ OnlyCounts(t, "temperature", {})
      /\ IsSeq(l) /\ OnlyTells(l, "limit", Limited) /\ OnlyCounts(l, "limit", {})
  BY <1>3, GaugeFacts DEF Families
<1>7. /\ IsSeq(e) /\ OnlyTells(e, "emitted", {}) /\ OnlyCounts(e, "emitted", {Len(Shown)})
      /\ IsSeq(r) /\ OnlyTells(r, "dropped", {}) /\ OnlyCounts(r, "dropped", {Dropped})
  BY <1>1, CountFacts DEF Families
<1>22. /\ IsSeq(a) /\ OnlyTells(a, "scanned", {}) /\ OnlyCounts(a, "scanned", {Cardinality(Walked)})
       /\ IsSeq(b) /\ OnlyTells(b, "duration", {<< >>}) /\ OnlyCounts(b, "duration", {})
  <2>1. Cardinality(Walked) \in Int
    BY WalkedFinite, FS_CardinalityType
  <2>2. <<<< >>>> \in Seq(LabelSet) /\ Range(<<<< >>>>) = {<< >>}
    BY DEF LabelSet, Range
  <2>3. QED
    BY <2>1, <2>2, CountFacts, BlockFacts DEF Families
<1> HIDE DEF w, s, u, d, t, l, e, r, a, b
<1> DEFINE ws == w \o s
           ud == u \o d
           udt == ud \o t
           udtl == udt \o l
           p == ws \o udtl
           pe == p \o e
           per == pe \o r
           pera == per \o a
           doc == pera \o b
<1>8. \A x : /\ IsSeq(ws) /\ Tells(ws, x) = Tells(w, x) \union Tells(s, x)
             /\ Counts(ws, x) = Counts(w, x) \union Counts(s, x)
  BY <1>5, Joined
<1>9. \A x : /\ IsSeq(ud) /\ Tells(ud, x) = Tells(u, x) \union Tells(d, x)
             /\ Counts(ud, x) = Counts(u, x) \union Counts(d, x)
  BY <1>6, Joined
<1> HIDE DEF ws, ud
<1>10. \A x : /\ IsSeq(udt) /\ Tells(udt, x) = Tells(ud, x) \union Tells(t, x)
              /\ Counts(udt, x) = Counts(ud, x) \union Counts(t, x)
  BY <1>6, <1>9, Joined
<1> HIDE DEF udt
<1>11. \A x : /\ IsSeq(udtl) /\ Tells(udtl, x) = Tells(udt, x) \union Tells(l, x)
              /\ Counts(udtl, x) = Counts(udt, x) \union Counts(l, x)
  BY <1>6, <1>10, Joined
<1> HIDE DEF udtl
<1>12. \A x : /\ IsSeq(p) /\ Tells(p, x) = Tells(ws, x) \union Tells(udtl, x)
              /\ Counts(p, x) = Counts(ws, x) \union Counts(udtl, x)
  BY <1>8, <1>11, Joined
<1> HIDE DEF p
<1>13. \A x : /\ IsSeq(pe) /\ Tells(pe, x) = Tells(p, x) \union Tells(e, x)
              /\ Counts(pe, x) = Counts(p, x) \union Counts(e, x)
  BY <1>7, <1>12, Joined
<1> HIDE DEF pe
<1>14. \A x : /\ IsSeq(per) /\ Tells(per, x) = Tells(pe, x) \union Tells(r, x)
              /\ Counts(per, x) = Counts(pe, x) \union Counts(r, x)
  BY <1>7, <1>13, Joined
<1> HIDE DEF per
<1>23. \A x : /\ IsSeq(pera) /\ Tells(pera, x) = Tells(per, x) \union Tells(a, x)
              /\ Counts(pera, x) = Counts(per, x) \union Counts(a, x)
  BY <1>14, <1>22, Joined
<1> HIDE DEF pera
<1>24. \A x : /\ IsSeq(doc) /\ Tells(doc, x) = Tells(pera, x) \union Tells(b, x)
              /\ Counts(doc, x) = Counts(pera, x) \union Counts(b, x)
  BY <1>22, <1>23, Joined
<1>15. document = doc
  BY <1>4 DEF doc, pera, per, pe, p, udtl, udt, ud, ws
<1> HIDE DEF doc
<1>16. \A x : Told(x) = Tells(doc, x) /\ Counted(x) = Counts(doc, x)
  BY <1>15 DEF Told, Counted, Tells, Counts
<1>17. \A x : Tells(doc, x) = Tells(w, x) \union Tells(s, x) \union Tells(u, x) \union Tells(d, x)
                  \union Tells(t, x) \union Tells(l, x) \union Tells(e, x) \union Tells(r, x)
                  \union Tells(a, x) \union Tells(b, x)
  BY <1>8, <1>9, <1>10, <1>11, <1>12, <1>13, <1>14, <1>23, <1>24
<1>18. \A x : Counts(doc, x) = Counts(w, x) \union Counts(s, x) \union Counts(u, x)
                  \union Counts(d, x) \union Counts(t, x) \union Counts(l, x)
                  \union Counts(e, x) \union Counts(r, x) \union Counts(a, x) \union Counts(b, x)
  BY <1>8, <1>9, <1>10, <1>11, <1>12, <1>13, <1>14, <1>23, <1>24
<1>19. Tells(doc, "waiting") = Range(Shown) /\ Counts(doc, "dropped") = {Dropped}
  <2>1. Tells(w, "waiting") = Range(Shown) /\ Counts(r, "dropped") = {Dropped}
    BY <1>5, <1>7 DEF OnlyTells, OnlyCounts
  <2>2. \A x \in {s, e, r, a, b} : Tells(x, "waiting") = {}
    BY <1>5, <1>7, <1>22 DEF OnlyTells
  <2>3. \A x \in {u, d, t, l} : Tells(x, "waiting") = {} /\ Counts(x, "dropped") = {}
    BY <1>6 DEF OnlyTells, OnlyCounts
  <2>4. \A x \in {w, s, e, a, b} : Counts(x, "dropped") = {}
    BY <1>5, <1>7, <1>22 DEF OnlyCounts
  <2>5. Tells(doc, "waiting") = Range(Shown)
    BY <1>17, <2>1, <2>2, <2>3
  <2>6. QED
    BY <1>18, <2>1, <2>3, <2>4, <2>5
<1>20. /\ Tells(doc, "unallocated") = Unallocated /\ Tells(doc, "discard") = Discards
       /\ Tells(doc, "temperature") = Limited /\ Tells(doc, "limit") = Limited
  <2>1. ASSUME NEW x, x \notin {"waiting", "stalled", "duration"}
        PROVE  Tells(doc, x) = Tells(u, x) \union Tells(d, x) \union Tells(t, x) \union Tells(l, x)
    <3>1. /\ Tells(w, x) = {} /\ Tells(s, x) = {} /\ Tells(e, x) = {} /\ Tells(r, x) = {}
          /\ Tells(a, x) = {} /\ Tells(b, x) = {}
      BY <1>5, <1>7, <1>22, <2>1 DEF OnlyTells
    <3>2. QED
      BY <1>17, <3>1
  <2>2. ASSUME NEW x PROVE /\ x # "unallocated" => Tells(u, x) = {}
                           /\ x # "discard" => Tells(d, x) = {}
                           /\ x # "temperature" => Tells(t, x) = {}
                           /\ x # "limit" => Tells(l, x) = {}
    BY <1>6 DEF OnlyTells
  <2>3. /\ Tells(u, "unallocated") = Unallocated /\ Tells(d, "discard") = Discards
        /\ Tells(t, "temperature") = Limited /\ Tells(l, "limit") = Limited
    BY <1>6 DEF OnlyTells
  <2>4. Tells(doc, "unallocated") = Unallocated /\ Tells(doc, "discard") = Discards
    BY <2>1, <2>2, <2>3
  <2>5. Tells(doc, "temperature") = Limited /\ Tells(doc, "limit") = Limited
    BY <2>1, <2>2, <2>3
  <2>6. QED
    BY <2>4, <2>5
<1>21. QED
  BY <1>16, <1>19, <1>20

(* A document has no pair without pressure, and says how many it leaves out, for *)
(* any cgroups and any cap.                                                    *)
THEOREM TheCapIsTold == IncidentSpec => []CapIsTold
<1>1. ScrapeInv => CapIsTold
  <2> SUFFICES ASSUME ScrapeInv, document # << >>
               PROVE  /\ Told("waiting") \subseteq pressed
                      /\ Counted("dropped") = {Cardinality(pressed \ Told("waiting"))}
    BY DEF CapIsTold
  <2>1. scraped /\ pressed \subseteq Range(Pairs)
    BY DEF document, ScrapeInv
  <2>2. Told("waiting") = Range(Shown) /\ Counted("dropped") = {Dropped}
    BY <2>1, DocumentTells
  <2>3. Range(Shown) \subseteq pressed /\ Dropped = Cardinality(pressed \ Range(Shown))
    BY <2>1, ShownFacts
  <2>4. QED
    BY <2>2, <2>3
<1>2. QED
  BY <1>1, ScrapeInitially, ScrapeKeeps, PTL DEF IncidentSpec

(* Whatever an incident warns of is in the document, for any readings of any   *)
(* number of filesystems and sensors: neither of the two readers of the files  *)
(* leaves out what the other needs.                                            *)
THEOREM WhatIsWarnedIsMeasured == IncidentSpec => []WarnedIsMeasured
<1>1. ScrapeInv => WarnedIsMeasured
  <2> SUFFICES ASSUME ScrapeInv, document # << >>, NEW w \in warnings
               PROVE  CASE w.kind = "allocation" -> w.of \in Told("unallocated")
                        [] w.kind = "discard" -> w.of \in Told("discard")
                        [] w.kind = "temperature" -> w.of \in Told("temperature") \intersect Told("limit")
    BY DEF WarnedIsMeasured
  <2>1. scraped /\ stage = "scanned" /\ warnings = Warnings /\ btrfs \in [Filesystems -> Btrfs]
    BY DEF document, ScrapeInv
  <2>2. /\ Told("unallocated") = Unallocated /\ Told("discard") = Discards
        /\ Told("temperature") = Limited /\ Told("limit") = Limited
    BY <2>1, DocumentTells
  <2>3. \/ \E f \in Filesystems : Discarding(f) /\ w = Warning("discard", f)
        \/ \E f \in Filesystems : Exhausted(f) /\ w = Warning("allocation", f)
        \/ \E s \in Sensors : NearLimit(s) /\ w = Warning("temperature", s)
    BY <2>1 DEF Warnings
  <2>4. CASE \E f \in Filesystems : Discarding(f) /\ w = Warning("discard", f)
    BY <2>2, <2>4 DEF Discarding, Warning, Discards
  <2>5. CASE \E f \in Filesystems : Exhausted(f) /\ w = Warning("allocation", f)
    <3>1. PICK f \in Filesystems : Exhausted(f) /\ w = Warning("allocation", f)
      BY <2>5
    <3>2. btrfs[f].allocated # Missing /\ btrfs[f].allocated \in Nat /\ btrfs[f].size \in Nat
      BY <2>1, <3>1, PathologyAssumption DEF Exhausted, Btrfs
    <3>3. f \in Unallocated
      BY <3>1, <3>2 DEF Exhausted, Unallocated
    <3>4. QED
      BY <2>2, <3>1, <3>3 DEF Warning
  <2>6. CASE \E s \in Sensors : NearLimit(s) /\ w = Warning("temperature", s)
    BY <2>2, <2>6 DEF NearLimit, Warning, Limited
  <2>7. QED
    BY <2>3, <2>4, <2>5, <2>6
<1>2. QED
  BY <1>1, ScrapeInitially, ScrapeKeeps, PTL DEF IncidentSpec
=============================================================================
