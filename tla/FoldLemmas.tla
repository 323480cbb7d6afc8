----------------------------- MODULE FoldLemmas -----------------------------
(***************************************************************************)
(* Induction for the other proofs, from the library's fact that a          *)
(* well-founded relation has minimal elements: the least subset, the least *)
(* number; and what follows of folds over finite sets, and of the sums     *)
(* MapThenSumSet computes.                                                 *)
(***************************************************************************)
EXTENDS Integers, FiniteSets, FiniteSetTheorems, WellFoundedInduction, TLAPS

\* Induction: a property of some subset of a finite set holds of a least one.
LEMMA LeastSet ==
    ASSUME NEW S, IsFiniteSet(S), NEW T \in SUBSET (SUBSET S), T # {}
    PROVE  \E x \in T : \A y \in T : y \subseteq x => y = x
<1>. DEFINE R == StrictSubsetOrdering(S)
<1>1. IsWellFoundedOn(R, SUBSET S)
  BY FS_StrictSubsetOrderingWellFounded, FS_FiniteSubsetsOfFinite
<1>2. \A x, y \in SUBSET S : x \subseteq y /\ x # y => <<x, y>> \in R
  BY DEF StrictSubsetOrdering
<1>. HIDE DEF R
<1>3. \E x \in T : \A y \in T : ~ (<<y, x>> \in R)
  BY <1>1, WFMin
<1>. QED
  BY <1>2, <1>3

\* One step of a fold over a set: an element is chosen, the others are folded, and step
\* takes the element and their value.
IsFold(it, S, c, step, base) ==
    \A t \in SUBSET S : it[t] = IF t = {} THEN base ELSE step[c[t], it[t \ {c[t]}]]

\* A fold has at most one value on every subset.
LEMMA FoldUnique ==
    ASSUME NEW S, IsFiniteSet(S), NEW c, NEW step, NEW base,
           \A t \in SUBSET S : t # {} => c[t] \in t,
           NEW f, NEW g, IsFold(f, S, c, step, base), IsFold(g, S, c, step, base)
    PROVE  \A t \in SUBSET S : f[t] = g[t]
<1>. DEFINE T == {t \in SUBSET S : f[t] # g[t]}
<1>1. SUFFICES ASSUME T # {} PROVE FALSE
  OBVIOUS
<1>2. PICK x \in T : \A y \in T : y \subseteq x => y = x
  <2>1. T \in SUBSET (SUBSET S)
    OBVIOUS
  <2>. HIDE DEF T
  <2>. QED
    BY <1>1, <2>1, LeastSet
<1>3. x # {}
  BY DEF IsFold
<1>4. x \ {c[x]} \subseteq x /\ x \ {c[x]} # x /\ x \ {c[x]} \in SUBSET S
  BY <1>3
<1>5. f[x \ {c[x]}] = g[x \ {c[x]}]
  BY <1>2, <1>4
<1>. QED
  BY <1>3, <1>5 DEF IsFold

\* A fold over a finite set exists: the folds of its smaller subsets extend to it.
LEMMA FoldExists ==
    ASSUME NEW S, IsFiniteSet(S), NEW c, NEW V, NEW base \in V, NEW step \in [S \X V -> V],
           \A t \in SUBSET S : t # {} => c[t] \in t
    PROVE  \E it \in [SUBSET S -> V] : IsFold(it, S, c, step, base)
<1>. DEFINE Is(it, u) == it \in [SUBSET u -> V] /\ IsFold(it, u, c, step, base)
            T == {u \in SUBSET S : ~ \E it : Is(it, u)}
            the(u) == CHOOSE it : Is(it, u)
<1>1. T = {}
  <2>1. SUFFICES ASSUME T # {} PROVE FALSE
    OBVIOUS
  <2>2. PICK x \in T : \A y \in T : y \subseteq x => y = x
    <3>1. T \in SUBSET (SUBSET S)
      OBVIOUS
    <3>. HIDE DEF T
    <3>. QED
      BY <2>1, <3>1, LeastSet
  <2>3. x \in SUBSET S /\ ~ \E it : Is(it, x)
    BY <2>2
  <2>4. \A u \in SUBSET x : u # x => Is(the(u), u)
    <3>1. \A u \in SUBSET x : u # x => \E it : Is(it, u)
      BY <2>2, <2>3
    <3>. HIDE DEF Is
    <3>. QED
      BY <3>1
  <2>. HIDE DEF T, the
  <2>. DEFINE g == [u \in SUBSET x |-> IF u = {} THEN base ELSE step[c[u], the(u \ {c[u]})[u \ {c[u]}]]]
  <2>5. \A u \in SUBSET x : u # {} => /\ c[u] \in u /\ u \ {c[u]} \in SUBSET x /\ u \ {c[u]} # x
                                      /\ c[u] \in S /\ u \in SUBSET S
    BY <2>3
  <2>6. g \in [SUBSET x -> V]
    <3>1. ASSUME NEW u \in SUBSET x, u # {} PROVE step[c[u], the(u \ {c[u]})[u \ {c[u]}]] \in V
      <4>. DEFINE r == u \ {c[u]}
      <4>1. r \in SUBSET x /\ r # x /\ c[u] \in S
        BY <2>5, <3>1
      <4>. HIDE DEF r
      <4>2. the(r) \in [SUBSET r -> V] /\ r \in SUBSET r
        BY <2>4, <4>1
      <4>3. the(r)[r] \in V
        BY <4>2
      <4>4. step[c[u], the(r)[r]] \in V
        BY <4>1, <4>3
      <4>. QED
        BY <4>4 DEF r
    <3>. QED
      BY <3>1
  <2>7. ASSUME NEW v \in SUBSET x, v # x PROVE g[v] = the(v)[v]
    <3>1. CASE v = {}
      BY <2>4, <2>7, <3>1 DEF IsFold
    <3>2. CASE v # {}
      <4>. DEFINE r == v \ {c[v]}
      <4>1. Is(the(v), v) /\ Is(the(r), r) /\ r \in SUBSET v /\ r \in SUBSET x
        BY <2>4, <2>5, <2>7, <3>2
      <4>2. the(v)[v] = step[c[v], the(v)[r]]
        BY <4>1, <3>2 DEF IsFold
      <4>3. IsFold(the(v), r, c, step, base)
        BY <4>1 DEF IsFold
      <4>4. the(v)[r] = the(r)[r]
        <5>1. IsFiniteSet(r)
          BY <2>3, <4>1, FS_Subset
        <5>2. \A t \in SUBSET r : t # {} => c[t] \in t
          BY <2>3, <4>1
        <5>. HIDE DEF r
        <5>. QED
          BY <4>1, <4>3, <5>1, <5>2, FoldUnique
      <4>. QED
        BY <3>2, <4>2, <4>4
    <3>. QED
      BY <3>1, <3>2
  <2>8. Is(g, x)
    <3>1. ASSUME NEW u \in SUBSET x
          PROVE  g[u] = IF u = {} THEN base ELSE step[c[u], g[u \ {c[u]}]]
      BY <2>5, <2>7
    <3>. HIDE DEF g
    <3>. QED
      BY <2>6, <3>1 DEF IsFold
  <2>. QED
    BY <2>3, <2>8
<1>. QED
  BY <1>1

-----------------------------------------------------------------------------
(* Sums. *)

\* The element that MapThenSumSet takes next.
Picked(t) == CHOOSE x \in t : TRUE

\* it[t] is the sum of the weights w of the members of t.
IsSum(it, w, S) == \A t \in SUBSET S : it[t] = IF t = {} THEN 0 ELSE w[Picked(t)] + it[t \ {Picked(t)}]

\* The recursion of a sum of natural numbers over a finite set has a solution.
LEMMA SumExists ==
    ASSUME NEW S, IsFiniteSet(S), NEW w \in [S -> Nat]
    PROVE  \E it : it = [t \in SUBSET S |-> it[t]] /\ IsSum(it, w, S)
<1>. DEFINE c == [t \in SUBSET S |-> Picked(t)]
            step == [p \in S \X Nat |-> w[p[1]] + p[2]]
<1>1. \A t \in SUBSET S : t # {} => c[t] \in t
  BY DEF Picked
<1>2. step \in [S \X Nat -> Nat]
  OBVIOUS
<1>3. \A t \in SUBSET S : c[t] = Picked(t)
  OBVIOUS
<1>4. \A x \in S, n \in Nat : step[x, n] = w[x] + n
  OBVIOUS
<1>. HIDE DEF c, step
<1>5. PICK it \in [SUBSET S -> Nat] : IsFold(it, S, c, step, 0)
  <2>1. 0 \in Nat
    OBVIOUS
  <2>. QED
    BY <1>1, <1>2, <2>1, FoldExists
<1>6. ASSUME NEW t \in SUBSET S, t # {}
      PROVE  step[c[t], it[t \ {c[t]}]] = w[Picked(t)] + it[t \ {Picked(t)}]
  BY <1>1, <1>3, <1>4, <1>6
<1>7. IsSum(it, w, S)
  BY <1>5, <1>6 DEF IsFold, IsSum
<1>. QED
  BY <1>7

\* A sum of natural numbers is one.
LEMMA SumType ==
    ASSUME NEW S, IsFiniteSet(S), NEW w \in [S -> Nat], NEW it, IsSum(it, w, S)
    PROVE  \A t \in SUBSET S : it[t] \in Nat
<1>. DEFINE T == {t \in SUBSET S : it[t] \notin Nat}
<1>1. SUFFICES ASSUME T # {} PROVE FALSE
  OBVIOUS
<1>2. PICK t \in T : \A u \in T : u \subseteq t => u = t
  <2>1. T \in SUBSET (SUBSET S)
    OBVIOUS
  <2>. HIDE DEF T
  <2>. QED
    BY <1>1, <2>1, LeastSet
<1>3. t \in SUBSET S /\ it[t] \notin Nat
  BY <1>2
<1>4. t # {}
  BY <1>3 DEF IsSum
<1>5. Picked(t) \in t /\ Picked(t) \in S
  BY <1>3, <1>4 DEF Picked
<1>6. it[t \ {Picked(t)}] \in Nat
  BY <1>2, <1>3, <1>5
<1>. QED
  BY <1>3, <1>4, <1>5, <1>6 DEF IsSum

\* A sum of natural numbers may take any element first.
LEMMA SumAny ==
    ASSUME NEW S, IsFiniteSet(S), NEW w \in [S -> Nat], NEW it, IsSum(it, w, S)
    PROVE  \A t \in SUBSET S : \A x \in t : it[t] = w[x] + it[t \ {x}]
<1>. DEFINE T == {t \in SUBSET S : \E x \in t : it[t] # w[x] + it[t \ {x}]}
<1>1. SUFFICES ASSUME T # {} PROVE FALSE
  OBVIOUS
<1>2. PICK t \in T : \A u \in T : u \subseteq t => u = t
  <2>1. T \in SUBSET (SUBSET S)
    OBVIOUS
  <2>. HIDE DEF T
  <2>. QED
    BY <1>1, <2>1, LeastSet
<1>3. PICK x \in t : it[t] # w[x] + it[t \ {x}]
  BY <1>2
<1>4. t \in SUBSET S /\ t # {}
  BY <1>2, <1>3
<1>. DEFINE p == Picked(t)
<1>5. p \in t /\ it[t] = w[p] + it[t \ {p}]
  BY <1>4 DEF Picked, IsSum
<1>6. p # x
  BY <1>3, <1>5
<1>. HIDE DEF p
<1>7. t \ {p} \notin T /\ t \ {x} \notin T
  BY <1>2, <1>3, <1>5
<1>8. PICK r \in SUBSET S : r = (t \ {p}) \ {x}
  BY <1>4
<1>9. it[t \ {p}] = w[x] + it[r]
  BY <1>3, <1>4, <1>6, <1>7, <1>8
<1>10. it[t \ {x}] = w[p] + it[r]
  <2>1. r = (t \ {x}) \ {p}
    BY <1>8
  <2>. QED
    BY <2>1, <1>4, <1>5, <1>6, <1>7
<1>11. w[p] \in Nat /\ w[x] \in Nat /\ it[r] \in Nat
  BY <1>3, <1>4, <1>5, SumType
<1>. QED
  BY <1>3, <1>5, <1>9, <1>10, <1>11

\* A sum of natural numbers is no less than the sum of two of them.
LEMMA SumCovers ==
    ASSUME NEW S, IsFiniteSet(S), NEW w \in [S -> Nat], NEW it, IsSum(it, w, S),
           NEW x \in S, NEW y \in S, x # y
    PROVE  it[S] \in Nat /\ it[S] >= w[x] + w[y]
<1>0. \A t \in SUBSET S : it[t] \in Nat
  BY SumType
<1>1. \A t \in SUBSET S : t # {} => /\ Picked(t) \in t /\ t \ {Picked(t)} \in SUBSET S
                                    /\ it[t] = w[Picked(t)] + it[t \ {Picked(t)}]
                                    /\ w[Picked(t)] \in Nat
  BY DEF Picked, IsSum
<1>2. ASSUME NEW z \in S
      PROVE  \A t \in SUBSET S : z \in t => it[t] >= w[z]
  <2>. DEFINE T == {t \in SUBSET S : z \in t /\ ~(it[t] >= w[z])}
  <2>1. SUFFICES ASSUME T # {} PROVE FALSE
    OBVIOUS
  <2>2. PICK t \in T : \A u \in T : u \subseteq t => u = t
    <3>1. T \in SUBSET (SUBSET S)
      OBVIOUS
    <3>. HIDE DEF T
    <3>. QED
      BY <2>1, <3>1, LeastSet
  <2>3. t # {} /\ t \in SUBSET S /\ z \in t /\ ~(it[t] >= w[z])
    BY <2>2
  <2>4. PICK r \in SUBSET S : r = t \ {Picked(t)}
    BY <2>3
  <2>5. it[t] = w[Picked(t)] + it[r] /\ w[Picked(t)] \in Nat /\ it[r] \in Nat /\ w[z] \in Nat
    BY <1>0, <1>1, <2>3, <2>4
  <2>6. z # Picked(t)
    BY <2>3, <2>5
  <2>7. it[r] >= w[z]
    BY <1>1, <2>2, <2>3, <2>4, <2>6
  <2>. QED
    BY <2>3, <2>5, <2>7
<1>. DEFINE T == {t \in SUBSET S : x \in t /\ y \in t /\ ~(it[t] >= w[x] + w[y])}
<1>3. SUFFICES ASSUME T # {} PROVE FALSE
  BY <1>0
<1>4. PICK t \in T : \A u \in T : u \subseteq t => u = t
  <2>1. T \in SUBSET (SUBSET S)
    OBVIOUS
  <2>. HIDE DEF T
  <2>. QED
    BY <1>3, <2>1, LeastSet
<1>5. t # {} /\ t \in SUBSET S /\ x \in t /\ y \in t /\ ~(it[t] >= w[x] + w[y])
  BY <1>4
<1>6. PICK r \in SUBSET S : r = t \ {Picked(t)}
  BY <1>5
<1>7. it[t] = w[Picked(t)] + it[r] /\ w[Picked(t)] \in Nat /\ it[r] \in Nat /\ w[x] \in Nat /\ w[y] \in Nat
  BY <1>0, <1>1, <1>5, <1>6
<1>8. CASE Picked(t) = x
  BY <1>2, <1>5, <1>6, <1>7, <1>8
<1>9. CASE Picked(t) = y
  BY <1>2, <1>5, <1>6, <1>7, <1>9
<1>10. CASE Picked(t) # x /\ Picked(t) # y
  <2>1. r # t /\ r \subseteq t /\ x \in r /\ y \in r
    BY <1>1, <1>5, <1>6, <1>10
  <2>2. it[r] >= w[x] + w[y]
    BY <1>4, <2>1
  <2>. QED
    BY <1>5, <1>7, <2>2
<1>. QED
  BY <1>8, <1>9, <1>10

-----------------------------------------------------------------------------
(* Numbers. *)

\* A set of natural numbers has a least one.
LEMMA LeastNat ==
    ASSUME NEW T \in SUBSET Nat, T # {}
    PROVE  \E x \in T : \A y \in T : x <= y
<1>. DEFINE R == OpToRel(<, Nat)
<1>1. IsWellFoundedOn(R, Nat)
  BY NatLessThanWellFounded
<1>2. \A x, y \in Nat : x < y => <<x, y>> \in R
  BY DEF OpToRel
<1>. HIDE DEF R
<1>3. PICK x \in T : \A y \in T : ~ (<<y, x>> \in R)
  BY <1>1, WFMin
<1>4. ASSUME NEW y \in T PROVE x <= y
  <2>1. x \in Nat /\ y \in Nat /\ ~(y < x)
    BY <1>2, <1>3
  <2>. QED
    BY <2>1
<1>. QED
  BY <1>4

\* A set of natural numbers with a bound has a largest one.
LEMMA LargestNat ==
    ASSUME NEW n \in Nat, NEW T \in SUBSET (0 .. n), T # {}
    PROVE  \E x \in T : \A y \in T : x >= y
<1>. DEFINE U == {k \in Nat : n - k \in T}
<1>1. \A x \in T : n - x \in U /\ x \in Nat
  OBVIOUS
<1>2. U \in SUBSET Nat /\ U # {}
  BY <1>1
<1>. HIDE DEF U
<1>3. PICK k \in U : \A y \in U : k <= y
  BY <1>2, LeastNat
<1>4. n - k \in T /\ k \in Nat
  BY DEF U
<1>. QED
  BY <1>1, <1>3, <1>4
=============================================================================
