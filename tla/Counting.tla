------------------------------ MODULE Counting ------------------------------
(* Lemmas the proofs share: about least numbers and smallest sets, which stand   *)
(* in for induction; about SumFunctionOnSet of the Functions module, which is a  *)
(* CHOOSE of a recursive function over the subsets of its indices: there is one, *)
(* and every index may be taken out first; and about the operators of Orders.    **)
EXTENDS Orders, Functions, FiniteSetTheorems, WellFoundedInduction, TLAPS

(* A set of naturals has a least member. *)
LEMMA LeastNat ==
    ASSUME NEW B \in SUBSET Nat, B # {}
    PROVE  \E n \in B : \A m \in B : n <= m
  <1>1. PICK n \in B : \A m \in B : <<m, n>> \notin OpToRel(<, Nat)
    BY NatLessThanWellFounded, WFMin
  <1>2. ASSUME NEW m \in B PROVE n <= m
    <2>1. m \in Nat /\ n \in Nat
      OBVIOUS
    <2>2. ~(m < n)
      BY <1>1, <2>1 DEF OpToRel
    <2>3. QED
      BY <2>1, <2>2
  <1>3. QED
    BY <1>2

(* A family of sets with a member that is finite has a smallest one. *)
LEMMA SmallestSet ==
    ASSUME NEW Z, NEW S \in Z, IsFiniteSet(S)
    PROVE  \E T \in Z : /\ IsFiniteSet(T)
                        /\ \A U \in Z : IsFiniteSet(U) => Cardinality(T) <= Cardinality(U)
  <1> DEFINE B == {Cardinality(T) : T \in {U \in Z : IsFiniteSet(U)}}
  <1>1. B \in SUBSET Nat /\ B # {}
    BY FS_CardinalityType
  <1>2. PICK n \in B : \A m \in B : n <= m
    BY <1>1, LeastNat
  <1>3. PICK T \in Z : IsFiniteSet(T) /\ Cardinality(T) = n
    OBVIOUS
  <1>4. QED
    BY <1>2, <1>3

(* Without a member, a finite set is smaller. *)
LEMMA SmallerSubset ==
    ASSUME NEW S, IsFiniteSet(S), NEW x \in S
    PROVE  /\ IsFiniteSet(S \ {x})
           /\ ~(Cardinality(S) <= Cardinality(S \ {x}))
  <1>1. IsFiniteSet(S \ {x}) /\ Cardinality(S \ {x}) = Cardinality(S) - 1
    BY FS_RemoveElement
  <1>2. Cardinality(S) \in Nat
    BY FS_CardinalityType
  <1>3. QED
    BY <1>1, <1>2

(* Any indices of a sequence are finitely many. *)
LEMMA FiniteIndices ==
    ASSUME NEW n \in Nat, NEW C, C \subseteq 1 .. n
    PROVE  IsFiniteSet(C)
  <1>1. IsFiniteSet(1 .. n)
    BY FS_Interval
  <1>2. C \in SUBSET (1 .. n)
    OBVIOUS
  <1>3. QED
    BY <1>1, <1>2, FS_Subset

(* So are the values of a function at finitely many points. *)
LEMMA FiniteImage ==
    ASSUME NEW S, IsFiniteSet(S), NEW f
    PROVE  IsFiniteSet({f[x] : x \in S})
  <1> DEFINE T == {f[x] : x \in S}
             g == [x \in S |-> f[x]]
  <1>1. g \in Surjection(S, T)
    BY DEF Surjection
  <1> HIDE DEF T, g
  <1>2. IsFiniteSet(T)
    BY <1>1, FS_Surjection
  <1>3. QED
    BY <1>2 DEF T

-----------------------------------------------------------------------------
(* The index the definition takes out first, and the recursion it chooses. *)
Picked(s) == CHOOSE x \in s : TRUE

IsSum(g, f, S) ==
    g = [s \in SUBSET S |-> IF s = {} THEN 0 ELSE f[Picked(s)] + g[s \ {Picked(s)}]]

LEMMA PickedIn == \A s : s # {} => Picked(s) \in s
  BY DEF Picked

(* The definition, and what it says of each subset. *)
LEMMA SumDef ==
    ASSUME NEW f, NEW S
    PROVE SumFunctionOnSet(f, S) = (CHOOSE g : IsSum(g, f, S))[S]
BY DEF SumFunctionOnSet, FoldFunctionOnSet, MapThenFoldSet, IsSum, Picked

LEMMA IsSumAt ==
    ASSUME NEW f, NEW S, NEW g, IsSum(g, f, S), NEW s \in SUBSET S
    PROVE  g[s] = IF s = {} THEN 0 ELSE f[Picked(s)] + g[s \ {Picked(s)}]
  BY DEF IsSum

(* Recursions over different index sets agree where both are defined. *)
LEMMA SumUnique ==
    ASSUME NEW f, NEW S, NEW g, IsSum(g, f, S), NEW T, NEW h, IsSum(h, f, T),
           NEW u, IsFiniteSet(u), u \subseteq S, u \subseteq T
    PROVE  g[u] = h[u]
  <1> DEFINE Z == {v \in SUBSET (S \cap T) : g[v] # h[v]}
  <1> SUFFICES ASSUME g[u] # h[u] PROVE FALSE
    OBVIOUS
  <1>1. PICK v \in Z : /\ IsFiniteSet(v)
                       /\ \A w \in Z : IsFiniteSet(w) => Cardinality(v) <= Cardinality(w)
    <2>1. u \in Z
      OBVIOUS
    <2>2. QED
      BY <2>1, SmallestSet
  <1>2. v # {}
    <2>1. {} \in SUBSET S /\ {} \in SUBSET T
      OBVIOUS
    <2>2. g[{}] = 0 /\ h[{}] = 0
      BY <2>1, IsSumAt
    <2>3. QED
      BY <1>1, <2>2
  <1> DEFINE w == v \ {Picked(v)}
  <1>3. w \in SUBSET (S \cap T) /\ w \notin Z
    BY <1>1, <1>2, PickedIn, SmallerSubset
  <1>4. g[w] = h[w]
    BY <1>3
  <1>5. g[v] = f[Picked(v)] + g[w] /\ h[v] = f[Picked(v)] + h[w]
    BY <1>2, IsSumAt
  <1>6. QED
    BY <1>4, <1>5

(* Over finite indices there is one: that of the whole is built from those of *)
(* the subsets without one index.                                             *)
LEMMA SumExists ==
    ASSUME NEW f, NEW S, IsFiniteSet(S)
    PROVE  \E g : IsSum(g, f, S)
  <1> DEFINE Z == {v \in SUBSET S : ~ \E g : IsSum(g, f, v)}
             G(v) == CHOOSE g : IsSum(g, f, v)
             V(v) == G(v)[v]
  <1> SUFFICES ASSUME ~ \E g : IsSum(g, f, S) PROVE FALSE
    OBVIOUS
  <1>1. PICK T \in Z : /\ IsFiniteSet(T)
                       /\ \A w \in Z : IsFiniteSet(w) => Cardinality(T) <= Cardinality(w)
    <2>1. S \in Z
      OBVIOUS
    <2> HIDE DEF Z
    <2>2. QED
      BY <2>1, SmallestSet
  <1>2. ASSUME NEW u \in SUBSET T, NEW x \in T, x \notin u
        PROVE  IsFiniteSet(u) /\ IsSum(G(u), f, u)
    <2>1. IsFiniteSet(T \ {x}) /\ ~(Cardinality(T) <= Cardinality(T \ {x}))
      BY <1>1, SmallerSubset
    <2>2. u \in SUBSET (T \ {x}) /\ u \in SUBSET S
      BY <1>1, <1>2
    <2>3. IsFiniteSet(u) /\ Cardinality(u) <= Cardinality(T \ {x})
      BY <2>1, <2>2, FS_Subset
    <2>4. u \notin Z
      BY <1>1, <2>1, <2>3, FS_CardinalityType
    <2>5. \E g : IsSum(g, f, u)
      BY <2>2, <2>4
    <2>6. QED
      BY <2>3, <2>5
  <1> DEFINE g == [s \in SUBSET T |-> IF s = {} THEN 0 ELSE f[Picked(s)] + V(s \ {Picked(s)})]
  <1>3. ASSUME NEW s \in SUBSET T, s # {}
        PROVE  g[s \ {Picked(s)}] = V(s \ {Picked(s)})
    <2> DEFINE u == s \ {Picked(s)}
               w == u \ {Picked(u)}
    <2>1. Picked(s) \in T /\ Picked(s) \notin u /\ u \in SUBSET T /\ w \in SUBSET T
      BY <1>3, PickedIn
    <2>2. IsSum(G(u), f, u) /\ IsFiniteSet(u)
      BY <1>2, <2>1
    <2>3. IsSum(G(w), f, w) /\ IsFiniteSet(w)
      BY <1>2, <2>1
    <2> HIDE DEF G
    <2>4. CASE u = {}
      <3>1. G(u)[u] = 0
        <4>1. u \in SUBSET u
          OBVIOUS
        <4> HIDE DEF u
        <4>2. G(u)[u] = IF u = {} THEN 0 ELSE f[Picked(u)] + G(u)[u \ {Picked(u)}]
          BY <2>2, <4>1, IsSumAt
        <4>3. QED
          BY <2>4, <4>2
      <3>2. QED
        BY <2>4, <3>1
    <2>5. CASE u # {}
      <3>1. G(u)[u] = f[Picked(u)] + G(u)[w]
        <4>1. u \in SUBSET u
          OBVIOUS
        <4> HIDE DEF u
        <4>2. G(u)[u] = IF u = {} THEN 0 ELSE f[Picked(u)] + G(u)[u \ {Picked(u)}]
          BY <2>2, <4>1, IsSumAt
        <4>3. QED
          BY <2>5, <4>2
      <3>2. G(u)[w] = G(w)[w]
        BY <2>2, <2>3, SumUnique
      <3>3. g[u] = f[Picked(u)] + V(w)
        BY <2>1, <2>5
      <3>4. QED
        BY <3>1, <3>2, <3>3
    <2>6. QED
      BY <2>4, <2>5
  <1>4. IsSum(g, f, T)
    <2> HIDE DEF V
    <2>1. g = [s \in SUBSET T |-> IF s = {} THEN 0 ELSE f[Picked(s)] + g[s \ {Picked(s)}]]
      BY <1>3
    <2> HIDE DEF g
    <2>2. QED
      BY <2>1 DEF IsSum
  <1>5. QED
    BY <1>1, <1>4

(* The sum of nothing is zero. *)
LEMMA SumEmpty ==
    ASSUME NEW f
    PROVE  SumFunctionOnSet(f, {}) = 0
  <1>1. IsSum(CHOOSE g : IsSum(g, f, {}), f, {})
    BY SumExists, FS_EmptySet
  <1>2. QED
    BY <1>1, IsSumAt, SumDef

(* The sum, unfolded once. *)
LEMMA SumPicked ==
    ASSUME NEW f, NEW S, IsFiniteSet(S), S # {}
    PROVE  SumFunctionOnSet(f, S) = f[Picked(S)] + SumFunctionOnSet(f, S \ {Picked(S)})
  <1> DEFINE T == S \ {Picked(S)}
             G(v) == CHOOSE g : IsSum(g, f, v)
  <1>1. IsFiniteSet(T)
    BY PickedIn, FS_RemoveElement
  <1>2. IsSum(G(S), f, S) /\ IsSum(G(T), f, T)
    BY <1>1, SumExists
  <1>3. SumFunctionOnSet(f, S) = G(S)[S] /\ SumFunctionOnSet(f, T) = G(T)[T]
    BY SumDef
  <1> HIDE DEF G
  <1>4. G(S)[S] = f[Picked(S)] + G(S)[T]
    BY <1>2, IsSumAt
  <1>5. G(S)[T] = G(T)[T]
    BY <1>1, <1>2, SumUnique
  <1>6. QED
    BY <1>3, <1>4, <1>5

(* Over integers the sum may be taken apart at any index. *)
LEMMA SumTake ==
    ASSUME NEW S, IsFiniteSet(S), NEW f, \A i \in S : f[i] \in Int
    PROVE  /\ SumFunctionOnSet(f, S) \in Int
           /\ \A x \in S : SumFunctionOnSet(f, S) = f[x] + SumFunctionOnSet(f, S \ {x})
  <1> DEFINE P(v) == /\ SumFunctionOnSet(f, v) \in Int
                     /\ \A x \in v : SumFunctionOnSet(f, v) = f[x] + SumFunctionOnSet(f, v \ {x})
             Z == {v \in SUBSET S : ~P(v)}
  <1> SUFFICES ASSUME ~P(S) PROVE FALSE
    OBVIOUS
  <1>1. PICK v \in Z : /\ IsFiniteSet(v)
                       /\ \A w \in Z : IsFiniteSet(w) => Cardinality(v) <= Cardinality(w)
    <2>1. S \in Z
      OBVIOUS
    <2> HIDE DEF Z
    <2>2. QED
      BY <2>1, SmallestSet
  <1>2. ASSUME NEW x \in v PROVE IsFiniteSet(v \ {x}) /\ P(v \ {x})
    <2>1. IsFiniteSet(v \ {x}) /\ ~(Cardinality(v) <= Cardinality(v \ {x}))
      BY <1>1, SmallerSubset
    <2>2. v \ {x} \notin Z /\ v \ {x} \in SUBSET S
      BY <1>1, <2>1
    <2>3. QED
      BY <2>1, <2>2
  <1>3. ~P(v) /\ v \in SUBSET S
    OBVIOUS
  <1>4. v # {}
    <2>1. P({})
      BY SumEmpty
    <2> HIDE DEF P
    <2>2. QED
      BY <1>3, <2>1
  <1> DEFINE p == Picked(v)
             Sum(w) == SumFunctionOnSet(f, w)
  <1>5. p \in v
    BY <1>4, PickedIn
  <1>6. Sum(v) = f[p] + Sum(v \ {p})
    BY <1>1, <1>4, SumPicked
  <1>7. f[p] \in Int /\ Sum(v \ {p}) \in Int
    BY <1>2, <1>3, <1>5
  <1>8. ASSUME NEW x \in v PROVE Sum(v) = f[x] + Sum(v \ {x})
    <2>1. CASE x = p
      BY <1>6, <2>1
    <2>2. CASE x # p
      <3> DEFINE u == (v \ {p}) \ {x}
      <3>1. u = (v \ {x}) \ {p}
        OBVIOUS
      <3>2. Sum(v \ {p}) = f[x] + Sum(u)
        BY <1>2, <1>5, <2>2
      <3>3. Sum(v \ {x}) = f[p] + Sum(u)
        <4>1. P(v \ {x}) /\ p \in v \ {x}
          BY <1>2, <1>5, <2>2
        <4>2. Sum(v \ {x}) = f[p] + Sum((v \ {x}) \ {p})
          BY <4>1
        <4>3. QED
          BY <3>1, <4>2
      <3>4. f[x] \in Int /\ Sum(u) \in Int
        <4>1. P(v \ {p}) /\ P(v \ {x}) /\ x \in v \ {p}
          BY <1>2, <1>5, <2>2
        <4>2. IsFiniteSet((v \ {p})) /\ f[x] \in Int
          BY <1>2, <1>3, <1>5
        <4>3. IsFiniteSet(u)
          BY <4>2, FS_RemoveElement
        <4>4. u \in SUBSET S /\ u \notin Z
          <5>1. u \in SUBSET S
            BY <1>3
          <5>2. Cardinality(u) = Cardinality(v \ {p}) - 1
            BY <4>1, <4>2, FS_RemoveElement
          <5>3. Cardinality(v \ {p}) \in Nat /\ Cardinality(v) \in Nat
            BY <4>2, <1>1, FS_CardinalityType
          <5>4. ~(Cardinality(v) <= Cardinality(v \ {p}))
            BY <1>1, <1>5, SmallerSubset
          <5>5. QED
            BY <1>1, <4>3, <5>1, <5>2, <5>3, <5>4
        <4>5. QED
          BY <4>2, <4>4
      <3>5. QED
        BY <1>6, <1>7, <3>2, <3>3, <3>4
    <2>3. QED
      BY <2>1, <2>2
  <1>9. Sum(v) \in Int
    BY <1>6, <1>7
  <1>10. P(v)
    BY <1>8, <1>9
  <1> HIDE DEF P
  <1>11. QED
    BY <1>3, <1>10

(* Sums of natural numbers are natural. *)
LEMMA SumNat ==
    ASSUME NEW S, IsFiniteSet(S), NEW f, \A i \in S : f[i] \in Nat
    PROVE  SumFunctionOnSet(f, S) \in Nat
  <1> DEFINE Z == {v \in SUBSET S : SumFunctionOnSet(f, v) \notin Nat}
  <1> SUFFICES ASSUME SumFunctionOnSet(f, S) \notin Nat PROVE FALSE
    OBVIOUS
  <1>1. PICK v \in Z : /\ IsFiniteSet(v)
                       /\ \A w \in Z : IsFiniteSet(w) => Cardinality(v) <= Cardinality(w)
    <2>1. S \in Z
      OBVIOUS
    <2> HIDE DEF Z
    <2>2. QED
      BY <2>1, SmallestSet
  <1>2. v # {}
    BY SumEmpty
  <1> DEFINE p == Picked(v)
  <1>3. p \in v
    BY <1>2, PickedIn
  <1>4. IsFiniteSet(v \ {p}) /\ ~(Cardinality(v) <= Cardinality(v \ {p}))
    BY <1>1, <1>3, SmallerSubset
  <1>5. SumFunctionOnSet(f, v \ {p}) \in Nat
    BY <1>1, <1>4
  <1>6. SumFunctionOnSet(f, v) = f[p] + SumFunctionOnSet(f, v \ {p})
    BY <1>1, <1>2, SumPicked
  <1>7. f[p] \in Nat
    BY <1>3
  <1>8. SumFunctionOnSet(f, v) \in Nat
    BY <1>5, <1>6, <1>7
  <1>9. QED
    BY <1>8

(* One index more adds its summand. *)
LEMMA SumAdd ==
    ASSUME NEW S, IsFiniteSet(S), NEW x, x \notin S,
           NEW f, \A i \in S \cup {x} : f[i] \in Int
    PROVE  SumFunctionOnSet(f, S \cup {x}) = f[x] + SumFunctionOnSet(f, S)
  <1>1. IsFiniteSet(S \cup {x})
    BY FS_AddElement
  <1>2. (S \cup {x}) \ {x} = S
    OBVIOUS
  <1> DEFINE T == S \cup {x}
  <1>3. IsFiniteSet(T) /\ x \in T /\ T \ {x} = S /\ \A i \in T : f[i] \in Int
    BY <1>1, <1>2
  <1> HIDE DEF T
  <1>4. SumFunctionOnSet(f, T) = f[x] + SumFunctionOnSet(f, S)
    BY <1>3, SumTake
  <1>5. QED
    BY <1>4 DEF T

(* Renaming the indices one to one leaves the sum. *)
LEMMA SumReindex ==
    ASSUME NEW S, IsFiniteSet(S), NEW T, IsFiniteSet(T), NEW b \in [S -> T],
           \A x, y \in S : b[x] = b[y] => x = y,
           NEW f, NEW g, \A x \in S : f[x] = g[b[x]] /\ f[x] \in Int
    PROVE  SumFunctionOnSet(f, S) = SumFunctionOnSet(g, {b[x] : x \in S})
  <1> DEFINE Im(v) == {b[x] : x \in v}
             Z == {v \in SUBSET S : SumFunctionOnSet(f, v) # SumFunctionOnSet(g, Im(v))}
  <1> SUFFICES ASSUME S \in Z PROVE FALSE
    OBVIOUS
  <1>1. PICK v \in Z : /\ IsFiniteSet(v)
                       /\ \A w \in Z : IsFiniteSet(w) => Cardinality(v) <= Cardinality(w)
    <2> HIDE DEF Z
    <2>1. QED
      BY SmallestSet
  <1>2. v \in SUBSET S
    OBVIOUS
  <1>3. v # {}
    <2>1. Im({}) = {}
      OBVIOUS
    <2>2. SumFunctionOnSet(f, {}) = SumFunctionOnSet(g, Im({}))
      BY <2>1, SumEmpty
    <2> HIDE DEF Im
    <2>3. QED
      BY <2>2
  <1>4. PICK p : p \in v
    BY <1>3
  <1> DEFINE w == v \ {p}
  <1>5. IsFiniteSet(w) /\ w \in SUBSET S /\ ~(Cardinality(v) <= Cardinality(w))
    BY <1>1, <1>2, <1>4, SmallerSubset
  <1>6. SumFunctionOnSet(f, w) = SumFunctionOnSet(g, Im(w))
    BY <1>1, <1>5
  <1>7. b[p] \in Im(v) /\ Im(v) \ {b[p]} = Im(w)
    BY <1>2, <1>4
  <1>8. Im(v) \in SUBSET T /\ \A i \in Im(v) : g[i] \in Int
    BY <1>2
  <1>9. IsFiniteSet(Im(v))
    BY <1>8, FS_Subset
  <1>10. SumFunctionOnSet(f, v) = f[p] + SumFunctionOnSet(f, w)
    BY <1>1, <1>2, <1>4, SumTake
  <1> HIDE DEF Im
  <1>11. SumFunctionOnSet(g, Im(v)) = g[b[p]] + SumFunctionOnSet(g, Im(w))
    <2>1. SumFunctionOnSet(g, Im(v)) = g[b[p]] + SumFunctionOnSet(g, Im(v) \ {b[p]})
      BY <1>7, <1>8, <1>9, SumTake
    <2>2. QED
      BY <1>7, <2>1
  <1>12. SumFunctionOnSet(f, v) = SumFunctionOnSet(g, Im(v))
    BY <1>2, <1>4, <1>6, <1>10, <1>11
  <1>13. QED
    BY <1>12

(* A sum depends on the summands only. *)
LEMMA SumSame ==
    ASSUME NEW S, IsFiniteSet(S), NEW f, NEW g, \A x \in S : f[x] = g[x] /\ f[x] \in Int
    PROVE  SumFunctionOnSet(f, S) = SumFunctionOnSet(g, S)
  <1> DEFINE b == [x \in S |-> x]
  <1>1. b \in [S -> S] /\ (\A x, y \in S : b[x] = b[y] => x = y)
    OBVIOUS
  <1>2. \A x \in S : f[x] = g[b[x]] /\ f[x] \in Int
    OBVIOUS
  <1>3. {b[x] : x \in S} = S
    OBVIOUS
  <1> HIDE DEF b
  <1>4. SumFunctionOnSet(f, S) = SumFunctionOnSet(g, {b[x] : x \in S})
    BY <1>1, <1>2, SumReindex
  <1>5. QED
    BY <1>3, <1>4

(* No part of a sum of natural numbers exceeds it. *)
LEMMA SumPart ==
    ASSUME NEW S, IsFiniteSet(S), NEW f, \A i \in S : f[i] \in Nat, NEW x \in S
    PROVE  f[x] <= SumFunctionOnSet(f, S)
  <1>1. \A i \in S : f[i] \in Int
    OBVIOUS
  <1>2. SumFunctionOnSet(f, S) = f[x] + SumFunctionOnSet(f, S \ {x})
    BY <1>1, SumTake
  <1>3. IsFiniteSet(S \ {x}) /\ \A i \in S \ {x} : f[i] \in Nat
    BY FS_RemoveElement
  <1>4. SumFunctionOnSet(f, S \ {x}) \in Nat
    BY <1>3, SumNat
  <1>5. QED
    BY <1>2, <1>4

(* What the solver needs to be told of products. *)
LEMMA Distribute ==
    \A a, b, c \in Int : /\ (a + b) * c = a * c + b * c
                         /\ c * (a + b) = c * a + c * b
                         /\ a * c \in Int /\ c * a \in Int
  OBVIOUS

(* What bounds every ratio of summands bounds the ratio of the sums. *)
LEMMA SumRatio ==
    ASSUME NEW S, IsFiniteSet(S), NEW f, NEW g, NEW c \in Nat, NEW d \in Nat,
           \A i \in S : f[i] \in Nat /\ g[i] \in Nat /\ f[i] * c <= d * g[i]
    PROVE  SumFunctionOnSet(f, S) * c <= d * SumFunctionOnSet(g, S)
  <1> DEFINE F(v) == SumFunctionOnSet(f, v)
             G(v) == SumFunctionOnSet(g, v)
             Z == {v \in SUBSET S : ~(F(v) * c <= d * G(v))}
  <1> SUFFICES ASSUME S \in Z PROVE FALSE
    OBVIOUS
  <1>1. PICK v \in Z : /\ IsFiniteSet(v)
                       /\ \A w \in Z : IsFiniteSet(w) => Cardinality(v) <= Cardinality(w)
    <2> HIDE DEF Z
    <2>1. QED
      BY SmallestSet
  <1>2. v \in SUBSET S /\ ~(F(v) * c <= d * G(v))
    OBVIOUS
  <1>3. v # {}
    <2>1. F({}) = 0 /\ G({}) = 0
      BY SumEmpty
    <2>2. F({}) * c <= d * G({})
      BY <2>1
    <2> HIDE DEF F, G
    <2>3. QED
      BY <1>2, <2>2
  <1>4. PICK p : p \in v
    BY <1>3
  <1> DEFINE w == v \ {p}
  <1>5. IsFiniteSet(w) /\ w \in SUBSET S /\ ~(Cardinality(v) <= Cardinality(w))
    BY <1>1, <1>2, <1>4, SmallerSubset
  <1>6. F(w) * c <= d * G(w)
    BY <1>1, <1>5
  <1>7. F(v) = f[p] + F(w) /\ G(v) = g[p] + G(w)
    BY <1>1, <1>2, <1>4, SumTake
  <1>8. F(w) \in Nat /\ G(w) \in Nat
    BY <1>5, SumNat
  <1>9. f[p] \in Nat /\ g[p] \in Nat /\ f[p] * c <= d * g[p]
    BY <1>2, <1>4
  <1> HIDE DEF F, G
  <1>10. /\ F(v) * c = f[p] * c + F(w) * c
         /\ d * G(v) = d * g[p] + d * G(w)
    BY <1>7, <1>8, <1>9, Distribute
  <1>11. /\ f[p] * c \in Int /\ F(w) * c \in Int
         /\ d * g[p] \in Int /\ d * G(w) \in Int
    BY <1>8, <1>9, Distribute
  <1>12. F(v) * c <= d * G(v)
    BY <1>6, <1>9, <1>10, <1>11
  <1>13. QED
    BY <1>2, <1>12

(* What is at least as large at every index has a sum at least as large. *)
LEMMA SumLe ==
    ASSUME NEW S, IsFiniteSet(S), NEW f, NEW g,
           \A i \in S : f[i] \in Nat /\ g[i] \in Nat /\ f[i] <= g[i]
    PROVE  SumFunctionOnSet(f, S) <= SumFunctionOnSet(g, S)
  <1>1. \A i \in S : f[i] * 1 <= 1 * g[i]
    OBVIOUS
  <1>2. SumFunctionOnSet(f, S) * 1 <= 1 * SumFunctionOnSet(g, S)
    BY <1>1, SumRatio
  <1>3. SumFunctionOnSet(f, S) \in Nat /\ SumFunctionOnSet(g, S) \in Nat
    BY SumNat
  <1>4. QED
    BY <1>2, <1>3

(* Two families that differ at one index have sums that differ by as much. *)
LEMMA SumChange ==
    ASSUME NEW S, IsFiniteSet(S), NEW x \in S, NEW f, NEW g,
           \A i \in S : f[i] \in Int /\ g[i] \in Int,
           \A i \in S \ {x} : f[i] = g[i]
    PROVE  SumFunctionOnSet(g, S) = SumFunctionOnSet(f, S) - f[x] + g[x]
  <1>1. /\ SumFunctionOnSet(f, S) = f[x] + SumFunctionOnSet(f, S \ {x})
        /\ SumFunctionOnSet(g, S) = g[x] + SumFunctionOnSet(g, S \ {x})
    BY SumTake
  <1>2. IsFiniteSet(S \ {x})
    BY FS_RemoveElement
  <1>3. SumFunctionOnSet(f, S \ {x}) = SumFunctionOnSet(g, S \ {x})
    BY <1>2, SumSame
  <1>4. SumFunctionOnSet(f, S \ {x}) \in Int
    BY <1>2, SumTake
  <1>5. f[x] \in Int /\ g[x] \in Int
    OBVIOUS
  <1>6. QED
    BY <1>1, <1>3, <1>4, <1>5

(* A sum is at most its greatest summand for every index. *)
LEMMA SumBound ==
    ASSUME NEW S, IsFiniteSet(S), NEW c \in Nat, NEW f,
           \A i \in S : f[i] \in Nat /\ f[i] <= c
    PROVE  SumFunctionOnSet(f, S) <= Cardinality(S) * c
  <1> DEFINE F(v) == SumFunctionOnSet(f, v)
             K(v) == Cardinality(v)
             Z == {v \in SUBSET S : ~(F(v) <= K(v) * c)}
  <1> SUFFICES ASSUME S \in Z PROVE FALSE
    OBVIOUS
  <1>1. PICK v \in Z : /\ IsFiniteSet(v)
                       /\ \A w \in Z : IsFiniteSet(w) => Cardinality(v) <= Cardinality(w)
    <2> HIDE DEF Z
    <2>1. QED
      BY SmallestSet
  <1>2. v \in SUBSET S /\ ~(F(v) <= K(v) * c)
    OBVIOUS
  <1>3. v # {}
    <2>1. F({}) = 0 /\ K({}) = 0
      BY SumEmpty, FS_EmptySet
    <2>2. F({}) <= K({}) * c
      BY <2>1
    <2> HIDE DEF F, K
    <2>3. QED
      BY <1>2, <2>2
  <1>4. PICK p : p \in v
    BY <1>3
  <1> DEFINE w == v \ {p}
  <1>5. /\ IsFiniteSet(w) /\ w \in SUBSET S /\ ~(Cardinality(v) <= Cardinality(w))
        /\ K(w) = K(v) - 1 /\ K(v) \in Nat /\ K(w) \in Nat
    BY <1>1, <1>2, <1>4, SmallerSubset, FS_RemoveElement, FS_CardinalityType
  <1>6. F(w) <= K(w) * c
    BY <1>1, <1>5
  <1>7. F(v) = f[p] + F(w)
    BY <1>1, <1>2, <1>4, SumTake
  <1>8. F(w) \in Nat /\ f[p] \in Nat /\ f[p] <= c
    BY <1>2, <1>4, <1>5, SumNat
  <1> HIDE DEF F, K
  <1>9. K(v) = K(w) + 1 /\ K(v) * c = K(w) * c + 1 * c /\ K(w) * c \in Int
    BY <1>5, Distribute
  <1>10. F(v) <= K(v) * c
    BY <1>6, <1>7, <1>8, <1>9
  <1>11. QED
    BY <1>2, <1>10

-----------------------------------------------------------------------------
(* The operators of Places.  In a finite set that is ordered, ranks are the      *)
(* numbers from 1, one for each member.                                          *)
IsOrder(S, R) ==
    /\ \A x, y \in S : <<x, y>> \in R \/ <<y, x>> \in R
    /\ \A x, y \in S : <<x, y>> \in R /\ <<y, x>> \in R => x = y
    /\ \A x, y, z \in S : <<x, y>> \in R /\ <<y, z>> \in R => <<x, z>> \in R

LEMMA AscendingIsOrder ==
    ASSUME NEW S \in SUBSET Int
    PROVE  /\ IsOrder(S, Ascending(S))
           /\ \A x, y \in S : <<x, y>> \in Ascending(S) <=> x <= y
  BY DEF IsOrder, Ascending

LEMMA RankStep ==
    ASSUME NEW S, IsFiniteSet(S), NEW R, IsOrder(S, R), NEW x \in S, NEW y \in S,
           <<x, y>> \in R, x # y
    PROVE  ~(Rank(S, R, y) <= Rank(S, R, x))
  <1> DEFINE below == {z \in S : <<z, x>> \in R}
             here == {z \in S : <<z, y>> \in R}
  <1>1. below \in SUBSET here /\ y \in here /\ y \notin below
    BY DEF IsOrder
  <1>2. IsFiniteSet(here)
    BY FS_Subset
  <1> HIDE DEF below, here
  <1>3. below \in SUBSET (here \ {y})
    BY <1>1
  <1>4. IsFiniteSet(here \ {y}) /\ ~(Cardinality(here) <= Cardinality(here \ {y}))
    BY <1>1, <1>2, SmallerSubset
  <1>5. Cardinality(below) <= Cardinality(here \ {y})
    BY <1>3, <1>4, FS_Subset
  <1>6. Cardinality(below) \in Nat /\ Cardinality(here) \in Nat /\ Cardinality(here \ {y}) \in Nat
    BY <1>2, <1>3, <1>4, FS_Subset, FS_CardinalityType
  <1>7. QED
    BY <1>4, <1>5, <1>6 DEF Rank, below, here

LEMMA RankRange ==
    ASSUME NEW S, IsFiniteSet(S), NEW R, IsOrder(S, R), NEW x \in S
    PROVE  Rank(S, R, x) \in 1 .. Cardinality(S)
  <1> DEFINE here == {z \in S : <<z, x>> \in R}
  <1>1. here \in SUBSET S /\ x \in here
    BY DEF IsOrder
  <1> HIDE DEF here
  <1>2. /\ IsFiniteSet(here) /\ Cardinality(here) <= Cardinality(S)
        /\ Cardinality(here) \in Nat /\ Cardinality(S) \in Nat /\ Cardinality(here) # 0
    BY <1>1, FS_Subset, FS_CardinalityType, FS_EmptySet
  <1>3. QED
    BY <1>2 DEF Rank, here

LEMMA RankOnce ==
    ASSUME NEW S, IsFiniteSet(S), NEW R, IsOrder(S, R), NEW x \in S, NEW y \in S,
           Rank(S, R, x) = Rank(S, R, y)
    PROVE  x = y
  <1>1. Rank(S, R, x) \in Nat /\ Rank(S, R, y) \in Nat
    BY RankRange
  <1>2. <<x, y>> \in R \/ <<y, x>> \in R
    BY DEF IsOrder
  <1>3. QED
    BY <1>1, <1>2, RankStep

(* A lower rank comes first. *)
LEMMA RankOrder ==
    ASSUME NEW S, IsFiniteSet(S), NEW R, IsOrder(S, R), NEW x \in S, NEW y \in S,
           Rank(S, R, x) <= Rank(S, R, y)
    PROVE  <<x, y>> \in R
  <1>1. <<x, y>> \in R \/ <<y, x>> \in R
    BY DEF IsOrder
  <1>2. x = y => <<x, y>> \in R
    BY <1>1
  <1>3. QED
    BY <1>1, <1>2, RankStep

LEMMA NthFacts ==
    ASSUME NEW S, IsFiniteSet(S), NEW R, IsOrder(S, R), NEW k \in 1 .. Cardinality(S)
    PROVE  Nth(S, R, k) \in S /\ Rank(S, R, Nth(S, R, k)) = k
  <1> DEFINE n == Cardinality(S)
             f == [x \in S |-> Rank(S, R, x)]
  <1>1. n \in Nat /\ IsFiniteSet(1 .. n) /\ Cardinality(1 .. n) = n
    BY FS_CardinalityType, FS_Interval
  <1>2. f \in [S -> 1 .. n]
    BY RankRange
  <1>3. \A x, y \in S : f[x] = f[y] => x = y
    BY RankOnce
  <1> HIDE DEF f, n
  <1>4. f \in Injection(S, 1 .. n)
    BY <1>2, <1>3 DEF Injection, IsInjective
  <1>5. f \in Surjection(S, 1 .. n)
    BY <1>1, <1>4, FS_Injection DEF n
  <1>6. \E x \in S : f[x] = k
    BY <1>5 DEF Surjection, n
  <1>7. QED
    BY <1>6 DEF f, Nth

LEMMA NthOfRank ==
    ASSUME NEW S, IsFiniteSet(S), NEW R, IsOrder(S, R), NEW x \in S
    PROVE  Nth(S, R, Rank(S, R, x)) = x
  BY RankRange, NthFacts, RankOnce

LEMMA EvaluatedFacts ==
    ASSUME NEW T, NEW n \in Nat, NEW s \in [1 .. n -> T]
    PROVE  Evaluated(s) = s /\ s \in Seq(T) /\ Len(s) = n /\ DOMAIN s = 1 .. n
  <1>1. s \in Seq(T) /\ Len(s) = n /\ DOMAIN s = 1 .. n
    OBVIOUS
  <1>2. SubSeq(s, 1, Len(s)) = s
    BY <1>1
  <1>3. QED
    BY <1>1, <1>2 DEF Evaluated

LEMMA FirstFacts ==
    ASSUME NEW T, NEW s \in Seq(T), NEW n \in Nat
    PROVE  LET f == First(s, n) IN
           /\ f \in Seq(T) /\ Len(f) = IF Len(s) < n THEN Len(s) ELSE n
           /\ DOMAIN f = 1 .. Len(f) /\ \A i \in 1 .. Len(f) : i \in 1 .. Len(s) /\ f[i] = s[i]
  <1> DEFINE c == IF Len(s) < n THEN Len(s) ELSE n
             f == SubSeq(s, 1, c)
  <1>1. c \in 0 .. Len(s)
    OBVIOUS
  <1> HIDE DEF c
  <1>2. f \in Seq(T) /\ Len(f) = c /\ DOMAIN f = 1 .. c /\ \A i \in 1 .. c : f[i] = s[i]
    BY <1>1
  <1>3. \A i \in 1 .. c : i \in 1 .. Len(s)
    BY <1>1
  <1>4. QED
    BY <1>2, <1>3 DEF First, c

(* A set in order is a sequence of all of it, without repeats.                   *)
LEMMA SortedFacts ==
    ASSUME NEW S, IsFiniteSet(S), NEW R, IsOrder(S, R)
    PROVE  LET s == Sorted(S, R)
               n == Cardinality(S)
           IN  /\ n \in Nat /\ s \in Seq(S) /\ Len(s) = n /\ DOMAIN s = 1 .. n
               /\ \A k \in 1 .. n : s[k] \in S /\ Rank(S, R, s[k]) = k
               /\ \A k, l \in 1 .. n : k <= l => <<s[k], s[l]>> \in R
               /\ \A x \in S : Rank(S, R, x) \in 1 .. n /\ s[Rank(S, R, x)] = x
  <1> DEFINE s == Sorted(S, R)
             n == Cardinality(S)
  <1>1. n \in Nat
    BY FS_CardinalityType
  <1> DEFINE f == [k \in 1 .. n |-> Nth(S, R, k)]
  <1>2. s = f
    <2>1. f \in [1 .. n -> S]
      BY NthFacts
    <2>2. s = Evaluated(f)
      BY DEF Sorted
    <2> HIDE DEF f, s, n
    <2>3. QED
      BY <1>1, <2>1, <2>2, EvaluatedFacts
  <1> HIDE DEF s
  <1>3. \A k \in 1 .. n : s[k] = Nth(S, R, k) /\ s[k] \in S /\ Rank(S, R, s[k]) = k
    BY <1>2, NthFacts
  <1>4. s \in [1 .. n -> S]
    BY <1>2, <1>3
  <1>5. \A k, l \in 1 .. n : k <= l => <<s[k], s[l]>> \in R
    BY <1>3, RankOrder
  <1>6. \A x \in S : Rank(S, R, x) \in 1 .. n /\ s[Rank(S, R, x)] = x
    BY <1>3, RankRange, NthOfRank
  <1> HIDE DEF n
  <1>7. s \in Seq(S) /\ Len(s) = n /\ DOMAIN s = 1 .. n
    BY <1>1, <1>4
  <1>8. QED
    BY <1>1, <1>3, <1>5, <1>6, <1>7 DEF s, n

(* The members of a sequence at some places: theirs, all of them, and as they    *)
(* come; none moves back.                                                        *)
LEMMA MembersFacts ==
    ASSUME NEW T, NEW s \in Seq(T), NEW places \in SUBSET DOMAIN s
    PROVE  LET m == Members(s, places)
               n == Cardinality(places)
           IN  /\ n \in Nat /\ m \in Seq(T) /\ Len(m) = n /\ DOMAIN m = 1 .. n
               /\ \A k \in 1 .. n : \E i \in places : m[k] = s[i]
               /\ \A i \in places : \E k \in 1 .. n : k <= i /\ m[k] = s[i]
               /\ \A k, l \in 1 .. n : k < l => \E i, j \in places : i < j /\ m[k] = s[i] /\ m[l] = s[j]
  <1> DEFINE R == Ascending(places)
             q == Sorted(places, R)
             m == Members(s, places)
             n == Cardinality(places)
  <1>1. places \in SUBSET Int /\ IsFiniteSet(places)
    BY FiniteIndices
  <1>2. IsOrder(places, R) /\ \A x, y \in places : <<x, y>> \in R <=> x <= y
    BY <1>1, AscendingIsOrder
  <1> HIDE DEF R
  <1>3. /\ n \in Nat /\ \A k \in 1 .. n : q[k] \in places /\ Rank(places, R, q[k]) = k
        /\ \A k, l \in 1 .. n : k <= l => <<q[k], q[l]>> \in R
        /\ \A x \in places : Rank(places, R, x) \in 1 .. n /\ q[Rank(places, R, x)] = x
    BY <1>1, <1>2, SortedFacts
  <1> DEFINE f == [k \in 1 .. n |-> s[q[k]]]
  <1>4. m = Evaluated(f)
    BY DEF Members, R
  <1> HIDE DEF m, n, q
  <1>5. f \in [1 .. n -> T]
    BY <1>3
  <1>6. m = f /\ m \in Seq(T) /\ Len(m) = n /\ DOMAIN m = 1 .. n
    <2> HIDE DEF f
    <2> QED
      BY <1>3, <1>4, <1>5, EvaluatedFacts
  <1>7. ASSUME NEW k \in 1 .. n, NEW l \in 1 .. n, k < l
        PROVE  \E i, j \in places : i < j /\ m[k] = s[i] /\ m[l] = s[j]
    <2>1. /\ k \in Nat /\ l \in Nat /\ k <= l /\ k # l
          /\ q[k] \in places /\ q[l] \in places /\ <<q[k], q[l]>> \in R
          /\ Rank(places, R, q[k]) = k /\ Rank(places, R, q[l]) = l
      BY <1>3, <1>7
    <2>2. q[k] <= q[l] /\ q[k] # q[l]
      BY <1>2, <2>1
    <2>3. q[k] < q[l]
      BY <1>1, <2>1, <2>2
    <2>4. QED
      BY <1>6, <2>1, <2>3
  <1>8. \A k \in 1 .. n : \E i \in places : m[k] = s[i]
    BY <1>3, <1>6
  <1>9. ASSUME NEW i \in places PROVE \E k \in 1 .. n : k <= i /\ m[k] = s[i]
    <2> DEFINE k == Rank(places, R, i)
               here == {j \in places : <<j, i>> \in R}
    <2>1. k \in 1 .. n /\ m[k] = s[i]
      BY <1>3, <1>6
    <2>2. k <= i
      <3>1. here \in SUBSET (1 .. i) /\ i \in Nat
        BY <1>1, <1>2
      <3>2. IsFiniteSet(1 .. i) /\ Cardinality(1 .. i) = i
        BY <3>1, FS_Interval
      <3>3. Cardinality(here) <= i
        BY <3>1, <3>2, FS_Subset
      <3>4. QED
        BY <3>3 DEF Rank
    <2>3. QED
      BY <2>1, <2>2
  <1>10. QED
    BY <1>3, <1>6, <1>7, <1>8, <1>9 DEF m, n
=============================================================================
