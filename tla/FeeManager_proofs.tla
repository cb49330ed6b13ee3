-------------------------- MODULE FeeManager_proofs --------------------------
(***************************************************************************)
(* Lemmas shared by every market built on FeeManager: what the arithmetic  *)
(* of fees returns, how sums over sets of accounts or auctions change, and *)
(* that the ledger, the access policy and the fee ledger keep their types  *)
(* whoever calls them.                                                     *)
(***************************************************************************)
EXTENDS FeeManager, FiniteSetTheorems, WellFoundedInduction, TLAPS

-----------------------------------------------------------------------------
(* Arithmetic. *)

(* A nonempty set of naturals has a least element (the CHOOSE in           *)
(* VolumeDiscount is well defined).                                        *)
LEMMA LeastElement ==
    ASSUME NEW S \in SUBSET Nat, S # {}
    PROVE  \E k \in S : \A j \in S : k <= j
<1>1. IsWellFoundedOn(OpToRel(<, Nat), Nat)
  BY NatLessThanWellFounded
<1>2. PICK k \in S : \A j \in S : ~ (<<j, k>> \in OpToRel(<, Nat))
  BY <1>1, WFMin, Zenon
<1>3. \A j \in S : ~ (j < k)
  BY <1>2 DEF OpToRel
<1> QED
  BY <1>3

(* calculate_percentage returns a natural number for natural numbers. *)
LEMMA PercentageNat ==
    ASSUME NEW a \in Nat, NEW bps \in Nat
    PROVE  Percentage(a, bps) \in Nat
<1>1. a * bps \in Nat
  OBVIOUS
<1> DEFINE n == a * bps + 5000
<1>2. n \in Nat
  BY <1>1
<1> HIDE DEF n
<1>3. n \div 10000 \in Nat
  BY <1>2
<1> QED
  BY <1>3 DEF Percentage, n

(* The royalty on a price is a natural number. *)
LEMMA RoyaltyNat ==
    ASSUME NEW a \in Nat
    PROVE  Percentage(a, Royalty.bps) \in Nat
<1>1. Royalty \in [creator : Users, bps : Nat]
  BY FeeAssumption
<1>2. Royalty.bps \in Nat
  BY <1>1
<1> QED
  BY <1>2, PercentageNat

(* The fee of a sale is an integer whatever tiers and VIPs the             *)
(* configuration has.                                                      *)
LEMMA FeeForInt ==
    ASSUME FeeTypeOK, NEW a \in Nat, NEW u \in Users
    PROVE  FeeFor(a, u) \in Int
<1> DEFINE c == feeConfig
           d == VolumeDiscount(volume[u], c.tiers)
           bps == IF c.dynamic THEN AtLeast(c.bps - d, 0) ELSE c.bps
<1>1. /\ c.bps \in Nat /\ c.minFee \in Int /\ c.maxFee \in Int
      /\ c.tiers \in Seq(VolumeTiers)
  BY DEF FeeTypeOK, FeeConfigType
<1>2. d \in Nat
  <2> DEFINE reached == {k \in DOMAIN c.tiers : volume[u] >= c.tiers[k].minVolume}
             first == CHOOSE k \in reached : \A j \in reached : k <= j
  <2>1. DOMAIN c.tiers \subseteq Nat
    BY <1>1
  <2>2. CASE reached = {}
    BY <2>2, Zenon DEF VolumeDiscount
  <2>3. CASE reached # {}
    <3>1. reached \in SUBSET Nat
      BY <2>1
    <3>2. \E k \in reached : \A j \in reached : k <= j
      BY <2>3, <3>1, LeastElement, Zenon
    <3>3. first \in reached
      BY <3>2, Zenon
    <3>4. c.tiers[first] \in VolumeTiers
      <4> HIDE DEF first
      <4>1. first \in DOMAIN c.tiers
        BY <3>3
      <4> QED
        BY <4>1, <1>1
    <3>5. d = c.tiers[first].discount
      BY <2>3, Zenon DEF VolumeDiscount
    <3> QED
      BY <3>4, <3>5 DEF VolumeTiers
  <2> QED
    BY <2>2, <2>3
<1> HIDE DEF d
<1>3. bps \in Nat
  BY <1>1, <1>2 DEF AtLeast
<1> HIDE DEF bps
<1>4. Percentage(a, bps) \in Int
  BY <1>3, PercentageNat
<1>5. BoundedFee(a, bps, c.minFee, c.maxFee) \in Int
  BY <1>1, <1>4 DEF BoundedFee, AtLeast, AtMost
<1> QED
  BY <1>5 DEF FeeFor, bps, d

-----------------------------------------------------------------------------
(* Sums over finite sets.  SumFunctionOnSet is a fold: it takes the        *)
(* elements out one by one, in an order CHOOSE decides.  These lemmas say  *)
(* that the order does not matter and how a sum changes.  Each is proved   *)
(* by a smallest counterexample.                                           *)

(* Among the subsets of a finite set with some property one is minimal. *)
LEMMA MinimalSubset ==
    ASSUME NEW S, IsFiniteSet(S), NEW B \in SUBSET (SUBSET S), B # {}
    PROVE  \E T \in B : /\ IsFiniteSet(T)
                        /\ \A x \in T : T \ {x} \notin B
<1> DEFINE sizes == {n \in Nat : \E T \in B : Cardinality(T) = n}
<1>1. \A T \in B : IsFiniteSet(T) /\ Cardinality(T) \in Nat
  BY FS_Subset, FS_CardinalityType
<1>2. sizes # {} /\ sizes \in SUBSET Nat
  BY <1>1
<1>3. PICK n \in sizes : \A m \in sizes : n <= m
  BY <1>2, LeastElement, Zenon
<1>4. PICK T \in B : Cardinality(T) = n
  BY <1>3
<1>5. ASSUME NEW x \in T, T \ {x} \in B PROVE FALSE
  <2>1. Cardinality(T \ {x}) = n - 1
    BY <1>1, <1>4, <1>5, FS_RemoveElement
  <2>2. n - 1 \in sizes
    BY <1>1, <1>5, <2>1
  <2> QED
    BY <1>3, <2>2
<1> QED
  BY <1>1, <1>4, <1>5

Picked(s) == CHOOSE x \in s : TRUE

(* g is the partial sums that the fold over T computes. *)
PartialSums(f, T, g) ==
    g = [s \in SUBSET T |-> IF s = {} THEN 0
                            ELSE f[Picked(s)] + g[s \ {Picked(s)}]]

(* CHOOSE picks an element of a set that has one. *)
LEMMA PickedIn ==
    ASSUME NEW s, s # {}
    PROVE  Picked(s) \in s
BY Zenon DEF Picked

(* Two folds agree on the sets both of them reach. *)
LEMMA PartialSumsAgree ==
    ASSUME NEW f, NEW T, NEW U, IsFiniteSet(T), NEW g, NEW h,
           PartialSums(f, T, g), PartialSums(f, U, h),
           NEW s, s \subseteq T, s \subseteq U
    PROVE  g[s] = h[s]
<1> DEFINE bad == {u \in SUBSET T : u \subseteq U /\ g[u] # h[u]}
<1> SUFFICES ASSUME bad # {} PROVE FALSE
  BY Zenon
<1>1. bad \in SUBSET (SUBSET T)
  OBVIOUS
<1>2. PICK u \in bad : \A x \in u : u \ {x} \notin bad
  BY <1>1, MinimalSubset
<1>3. /\ g[u] = IF u = {} THEN 0 ELSE f[Picked(u)] + g[u \ {Picked(u)}]
      /\ h[u] = IF u = {} THEN 0 ELSE f[Picked(u)] + h[u \ {Picked(u)}]
  BY <1>2, Zenon DEF PartialSums
<1>4. CASE u = {}
  BY <1>2, <1>3, <1>4
<1>5. CASE u # {}
  <2>1. Picked(u) \in u
    BY <1>5, PickedIn
  <2>2. u \ {Picked(u)} \notin bad
    BY <1>2, <2>1, Zenon
  <2>3. g[u \ {Picked(u)}] = h[u \ {Picked(u)}]
    BY <1>2, <2>2
  <2> QED
    BY <1>2, <1>3, <1>5, <2>3
<1> QED
  BY <1>4, <1>5

(* The fold is defined on every finite set. *)
LEMMA PartialSumsExist ==
    ASSUME NEW f, NEW S, IsFiniteSet(S)
    PROVE  \E g : PartialSums(f, S, g)
<1> DEFINE bad == {T \in SUBSET S : ~ \E g : PartialSums(f, T, g)}
<1> SUFFICES ASSUME bad # {} PROVE FALSE
  BY Zenon
<1>1. bad \in SUBSET (SUBSET S)
  OBVIOUS
<1>2. PICK T \in bad : IsFiniteSet(T) /\ \A x \in T : T \ {x} \notin bad
  BY <1>1, MinimalSubset
<1>3. T # {}
  <2> DEFINE z == [s \in SUBSET {} |-> 0]
  <2>1. PartialSums(f, {}, z)
    BY DEF PartialSums
  <2> QED
    BY <1>2, <2>1
<1> DEFINE fold(x) == CHOOSE k : PartialSums(f, T \ {x}, k)
           outside(s) == CHOOSE x \in T : x \notin s
           value(s) == fold(outside(s))[s]
           y == Picked(T)
           g == [s \in SUBSET T |-> IF s = T THEN f[y] + value(T \ {y}) ELSE value(s)]
<1>4. y \in T
  BY <1>3, PickedIn
<1>5. ASSUME NEW x \in T PROVE PartialSums(f, T \ {x}, fold(x))
  <2>1. T \ {x} \in SUBSET S /\ T \ {x} \notin bad
    BY <1>2
  <2>2. \E k : PartialSums(f, T \ {x}, k)
    BY <2>1, Zenon
  <2> QED
    BY <2>2, Zenon
<1>6. ASSUME NEW s \in SUBSET T, s # T PROVE outside(s) \in T /\ outside(s) \notin s
  <2>1. \E x \in T : x \notin s
    BY <1>6
  <2> QED
    BY <2>1, Zenon
<1>7. ASSUME NEW s \in SUBSET T, NEW x \in T, x \notin s PROVE value(s) = fold(x)[s]
  <2> DEFINE z == outside(s)
  <2>1. z \in T /\ z \notin s
    BY <1>6, <1>7, Zenon
  <2>2. PartialSums(f, T \ {z}, fold(z)) /\ PartialSums(f, T \ {x}, fold(x))
    BY <1>5, <2>1, Zenon
  <2>3. IsFiniteSet(T \ {z}) /\ s \subseteq T \ {z} /\ s \subseteq T \ {x}
    BY <1>2, <1>7, <2>1, FS_RemoveElement
  <2> HIDE DEF fold, outside
  <2>4. fold(z)[s] = fold(x)[s]
    BY <2>2, <2>3, PartialSumsAgree
  <2> QED
    BY <2>4
<1> HIDE DEF fold, outside, y
<1>8. ASSUME NEW s \in SUBSET T
      PROVE  g[s] = IF s = {} THEN 0 ELSE f[Picked(s)] + g[s \ {Picked(s)}]
  <2> HIDE DEF value
  <2>1. CASE s = T
    <3>1. T \ {y} \in SUBSET T /\ T \ {y} # T
      BY <1>4
    <3>2. g[T \ {y}] = value(T \ {y})
      BY <3>1, Zenon
    <3>3. g[T] = f[y] + value(T \ {y})
      OBVIOUS
    <3> QED
      BY <1>3, <2>1, <3>2, <3>3, Zenon DEF y
  <2>2. CASE s # T
    <3>1. PICK x \in T : x \notin s
      BY <2>2
    <3>2. g[s] = fold(x)[s]
      BY <1>7, <2>2, <3>1, Zenon
    <3>3. fold(x)[s] = IF s = {} THEN 0 ELSE f[Picked(s)] + fold(x)[s \ {Picked(s)}]
      <4>1. s \in SUBSET (T \ {x})
        BY <3>1
      <4> QED
        BY <1>5, <4>1, Zenon DEF PartialSums
    <3>4. CASE s = {}
      BY <3>2, <3>3, <3>4, Zenon
    <3>5. CASE s # {}
      <4> DEFINE r == s \ {Picked(s)}
      <4>1. r \in SUBSET T /\ x \notin r /\ r # T
        BY <2>2, <3>1
      <4>2. g[r] = fold(x)[r]
        BY <1>7, <3>1, <4>1, Zenon
      <4> QED
        BY <3>2, <3>3, <3>5, <4>2, Zenon
    <3> QED
      BY <3>4, <3>5
  <2> QED
    BY <2>1, <2>2
<1>9. PartialSums(f, T, g)
  <2> HIDE DEF value
  <2>1. g = [s \in SUBSET T |-> g[s]]
    OBVIOUS
  <2> HIDE DEF g
  <2> QED
    BY <1>8, <2>1 DEF PartialSums
<1> QED
  BY <1>2, <1>9, Zenon

(* The sum over a finite set is that of one fold, of any that reaches it. *)
LEMMA SumIsPartialSum ==
    ASSUME NEW f, NEW S, IsFiniteSet(S), NEW g, PartialSums(f, S, g)
    PROVE  \A T \in SUBSET S : SumFunctionOnSet(f, T) = g[T]
<1> SUFFICES ASSUME NEW T \in SUBSET S PROVE SumFunctionOnSet(f, T) = g[T]
  OBVIOUS
<1>1. IsFiniteSet(T)
  BY FS_Subset
<1> DEFINE h == CHOOSE k : PartialSums(f, T, k)
<1>2. PartialSums(f, T, h)
  BY <1>1, PartialSumsExist, Zenon
<1>3. SumFunctionOnSet(f, T) = h[T]
  BY Zenon DEF SumFunctionOnSet, FoldFunctionOnSet, MapThenFoldSet, PartialSums, Picked
<1> HIDE DEF h
<1> QED
  <2>1. T \subseteq T /\ T \subseteq S
    OBVIOUS
  <2> QED
    BY <1>1, <1>2, <1>3, <2>1, PartialSumsAgree

(* The empty sum. *)
LEMMA SumEmpty ==
    ASSUME NEW f
    PROVE  SumFunctionOnSet(f, {}) = 0
<1>1. IsFiniteSet({})
  BY FS_EmptySet
<1>2. PICK g : PartialSums(f, {}, g)
  BY <1>1, PartialSumsExist, Zenon
<1>3. g[{}] = 0
  BY <1>2, Zenon DEF PartialSums
<1> QED
  BY <1>1, <1>2, <1>3, SumIsPartialSum, Zenon

(* The fold takes out the element it picks. *)
LEMMA SumPicked ==
    ASSUME NEW f, NEW S, IsFiniteSet(S), S # {}
    PROVE  /\ Picked(S) \in S
           /\ SumFunctionOnSet(f, S) = f[Picked(S)] + SumFunctionOnSet(f, S \ {Picked(S)})
<1>1. PICK g : PartialSums(f, S, g)
  BY PartialSumsExist, Zenon
<1>2. S \in SUBSET S /\ S \ {Picked(S)} \in SUBSET S
  OBVIOUS
<1>3. /\ SumFunctionOnSet(f, S) = g[S]
      /\ SumFunctionOnSet(f, S \ {Picked(S)}) = g[S \ {Picked(S)}]
  <2>1. \A T \in SUBSET S : SumFunctionOnSet(f, T) = g[T]
    BY <1>1, SumIsPartialSum
  <2> QED
    BY <1>2, <2>1, Zenon
<1>4. g[S] = f[Picked(S)] + g[S \ {Picked(S)}]
  BY <1>1, <1>2, Zenon DEF PartialSums
<1> QED
  BY <1>3, <1>4, PickedIn

(* A sum of integers is an integer. *)
LEMMA SumInt ==
    ASSUME NEW S, IsFiniteSet(S), NEW f, \A x \in S : f[x] \in Int
    PROVE  SumFunctionOnSet(f, S) \in Int
<1> DEFINE bad == {T \in SUBSET S : SumFunctionOnSet(f, T) \notin Int}
<1> SUFFICES ASSUME bad # {} PROVE FALSE
  BY Zenon
<1>1. bad \in SUBSET (SUBSET S)
  OBVIOUS
<1>2. PICK T \in bad : IsFiniteSet(T) /\ \A x \in T : T \ {x} \notin bad
  BY <1>1, MinimalSubset
<1>3. CASE T = {}
  BY <1>2, <1>3, SumEmpty
<1>4. CASE T # {}
  <2>1. /\ Picked(T) \in T
        /\ SumFunctionOnSet(f, T) = f[Picked(T)] + SumFunctionOnSet(f, T \ {Picked(T)})
    BY <1>2, <1>4, SumPicked, Zenon
  <2>2. SumFunctionOnSet(f, T \ {Picked(T)}) \in Int
    BY <1>2, <2>1
  <2> QED
    BY <1>2, <2>1, <2>2
<1> QED
  BY <1>3, <1>4

(* Any element may be taken out first. *)
LEMMA SumRemove ==
    ASSUME NEW S, IsFiniteSet(S), NEW f, \A x \in S : f[x] \in Int, NEW y \in S
    PROVE  SumFunctionOnSet(f, S) = f[y] + SumFunctionOnSet(f, S \ {y})
<1> DEFINE Sum(T) == SumFunctionOnSet(f, T)
           bad == {T \in SUBSET S : \E x \in T : Sum(T) # f[x] + Sum(T \ {x})}
<1> SUFFICES ASSUME bad # {} PROVE FALSE
  <2>1. S \notin bad
    BY Zenon
  <2> QED
    BY <2>1
<1>1. bad \in SUBSET (SUBSET S)
  OBVIOUS
<1>2. PICK T \in bad : IsFiniteSet(T) /\ \A x \in T : T \ {x} \notin bad
  BY <1>1, MinimalSubset
<1>3. PICK x \in T : Sum(T) # f[x] + Sum(T \ {x})
  BY <1>2
<1> DEFINE p == Picked(T)
<1>4. p \in T /\ Sum(T) = f[p] + Sum(T \ {p})
  BY <1>2, <1>3, SumPicked
<1>5. p # x
  BY <1>3, <1>4
<1>6. /\ T \ {p} \in SUBSET S /\ T \ {p} \notin bad /\ x \in T \ {p}
      /\ T \ {x} \in SUBSET S /\ T \ {x} \notin bad /\ p \in T \ {x}
  BY <1>2, <1>4, <1>5
<1> HIDE DEF p, Sum
<1>7. /\ Sum(T \ {p}) = f[x] + Sum((T \ {p}) \ {x})
      /\ Sum(T \ {x}) = f[p] + Sum((T \ {x}) \ {p})
  BY <1>6, Zenon
<1>8. (T \ {p}) \ {x} = (T \ {x}) \ {p}
  OBVIOUS
<1>9. f[p] \in Int /\ f[x] \in Int /\ Sum((T \ {p}) \ {x}) \in Int
  <2>1. IsFiniteSet((T \ {p}) \ {x})
    BY <1>2, FS_RemoveElement
  <2> QED
    BY <1>2, <1>4, <2>1, SumInt DEF Sum
<1> QED
  BY <1>3, <1>4, <1>7, <1>8, <1>9

(* Functions that agree on a set have the same sum over it. *)
LEMMA SumSame ==
    ASSUME NEW S, IsFiniteSet(S), NEW f, NEW g, \A x \in S : f[x] = g[x]
    PROVE  SumFunctionOnSet(f, S) = SumFunctionOnSet(g, S)
<1> DEFINE bad == {T \in SUBSET S : SumFunctionOnSet(f, T) # SumFunctionOnSet(g, T)}
<1> SUFFICES ASSUME bad # {} PROVE FALSE
  <2>1. S \notin bad
    BY Zenon
  <2> QED
    BY <2>1
<1>1. bad \in SUBSET (SUBSET S)
  OBVIOUS
<1>2. PICK T \in bad : IsFiniteSet(T) /\ \A x \in T : T \ {x} \notin bad
  BY <1>1, MinimalSubset
<1>3. T # {}
  BY <1>2, SumEmpty
<1>4. Picked(T) \in T
  BY <1>3, PickedIn
<1>5. /\ SumFunctionOnSet(f, T) = f[Picked(T)] + SumFunctionOnSet(f, T \ {Picked(T)})
      /\ SumFunctionOnSet(g, T) = g[Picked(T)] + SumFunctionOnSet(g, T \ {Picked(T)})
  BY <1>2, <1>3, SumPicked, Zenon
<1>6. SumFunctionOnSet(f, T \ {Picked(T)}) = SumFunctionOnSet(g, T \ {Picked(T)})
  <2>1. T \ {Picked(T)} \in SUBSET S
    BY <1>2
  <2> QED
    BY <1>2, <1>4, <2>1, Zenon
<1> QED
  BY <1>2, <1>4, <1>5, <1>6

(* A sum of naturals is a natural number. *)
LEMMA SumNat ==
    ASSUME NEW S, IsFiniteSet(S), NEW f, \A x \in S : f[x] \in Nat
    PROVE  SumFunctionOnSet(f, S) \in Nat
<1> DEFINE bad == {T \in SUBSET S : SumFunctionOnSet(f, T) \notin Nat}
<1> SUFFICES ASSUME bad # {} PROVE FALSE
  BY Zenon
<1>1. bad \in SUBSET (SUBSET S)
  OBVIOUS
<1>2. PICK T \in bad : IsFiniteSet(T) /\ \A x \in T : T \ {x} \notin bad
  BY <1>1, MinimalSubset
<1>3. CASE T = {}
  BY <1>2, <1>3, SumEmpty
<1>4. CASE T # {}
  <2>1. /\ Picked(T) \in T
        /\ SumFunctionOnSet(f, T) = f[Picked(T)] + SumFunctionOnSet(f, T \ {Picked(T)})
    BY <1>2, <1>4, SumPicked, Zenon
  <2>2. SumFunctionOnSet(f, T \ {Picked(T)}) \in Nat
    BY <1>2, <2>1
  <2> QED
    BY <1>2, <2>1, <2>2
<1> QED
  BY <1>3, <1>4

(* Sums add up pointwise. *)
LEMMA SumPlus ==
    ASSUME NEW S, IsFiniteSet(S), NEW f, NEW g, NEW h,
           \A x \in S : f[x] \in Int /\ g[x] \in Int /\ h[x] = f[x] + g[x]
    PROVE  SumFunctionOnSet(h, S) = SumFunctionOnSet(f, S) + SumFunctionOnSet(g, S)
<1> DEFINE bad == {T \in SUBSET S : SumFunctionOnSet(h, T)
                      # SumFunctionOnSet(f, T) + SumFunctionOnSet(g, T)}
<1> SUFFICES ASSUME bad # {} PROVE FALSE
  <2>1. S \notin bad
    BY Zenon
  <2> QED
    BY <2>1
<1>1. bad \in SUBSET (SUBSET S)
  OBVIOUS
<1>2. PICK T \in bad : IsFiniteSet(T) /\ \A x \in T : T \ {x} \notin bad
  BY <1>1, MinimalSubset
<1>3. T # {}
  <2>1. SumFunctionOnSet(h, {}) = SumFunctionOnSet(f, {}) + SumFunctionOnSet(g, {})
    BY SumEmpty
  <2> QED
    BY <1>2, <2>1
<1> DEFINE p == Picked(T)
           R == T \ {p}
<1>4. p \in T /\ R \in SUBSET S /\ IsFiniteSet(R)
  BY <1>2, <1>3, PickedIn, FS_RemoveElement
<1>5. /\ SumFunctionOnSet(f, T) = f[p] + SumFunctionOnSet(f, R)
      /\ SumFunctionOnSet(g, T) = g[p] + SumFunctionOnSet(g, R)
      /\ SumFunctionOnSet(h, T) = h[p] + SumFunctionOnSet(h, R)
  BY <1>2, <1>3, SumPicked, Zenon
<1>6. SumFunctionOnSet(h, R) = SumFunctionOnSet(f, R) + SumFunctionOnSet(g, R)
  BY <1>2, <1>4, Zenon
<1>7. SumFunctionOnSet(f, R) \in Int /\ SumFunctionOnSet(g, R) \in Int
  BY <1>2, <1>4, SumInt
<1> HIDE DEF p, R
<1>8. f[p] \in Int /\ g[p] \in Int /\ h[p] = f[p] + g[p]
  BY <1>2, <1>4
<1> QED
  BY <1>2, <1>5, <1>6, <1>7, <1>8

(* A function that is zero but at one point sums to its value there. *)
LEMMA SumPoint ==
    ASSUME NEW S, IsFiniteSet(S), NEW y \in S, NEW n \in Int, NEW f,
           \A x \in S : f[x] = IF x = y THEN n ELSE 0
    PROVE  SumFunctionOnSet(f, S) = n
<1> DEFINE Z == S \ {y}
           bad == {T \in SUBSET Z : SumFunctionOnSet(f, T) # 0}
<1>1. bad = {}
  <2> SUFFICES ASSUME bad # {} PROVE FALSE
    BY Zenon
  <2>1. IsFiniteSet(Z) /\ \A x \in Z : f[x] = 0
    BY FS_RemoveElement
  <2> HIDE DEF Z
  <2>2. PICK T \in bad : IsFiniteSet(T) /\ \A x \in T : T \ {x} \notin bad
    BY <2>1, MinimalSubset
  <2>3. T # {}
    <3>1. {} \notin bad
      BY SumEmpty
    <3> QED
      BY <2>2, <3>1
  <2>4. Picked(T) \in T /\ SumFunctionOnSet(f, T)
                              = f[Picked(T)] + SumFunctionOnSet(f, T \ {Picked(T)})
    BY <2>2, <2>3, SumPicked, Zenon
  <2>5. SumFunctionOnSet(f, T \ {Picked(T)}) = 0 /\ f[Picked(T)] = 0
    BY <2>1, <2>2, <2>4
  <2> QED
    BY <2>2, <2>4, <2>5
<1>2. SumFunctionOnSet(f, S \ {y}) = 0
  BY <1>1
<1>3. SumFunctionOnSet(f, S) = f[y] + SumFunctionOnSet(f, S \ {y})
  BY SumRemove
<1> QED
  BY <1>2, <1>3

(* Changing one summand changes the sum by as much. *)
LEMMA SumChange ==
    ASSUME NEW S, IsFiniteSet(S), NEW y \in S, NEW f, NEW g,
           \A x \in S : f[x] \in Int /\ g[x] \in Int,
           \A x \in S \ {y} : f[x] = g[x]
    PROVE  SumFunctionOnSet(g, S) = SumFunctionOnSet(f, S) + g[y] - f[y]
<1>1. IsFiniteSet(S \ {y})
  BY FS_RemoveElement
<1>2. SumFunctionOnSet(f, S \ {y}) = SumFunctionOnSet(g, S \ {y})
  BY <1>1, SumSame
<1>3. /\ SumFunctionOnSet(f, S) = f[y] + SumFunctionOnSet(f, S \ {y})
      /\ SumFunctionOnSet(g, S) = g[y] + SumFunctionOnSet(g, S \ {y})
  BY SumRemove
<1>4. SumFunctionOnSet(f, S \ {y}) \in Int
  BY <1>1, SumInt
<1> QED
  BY <1>2, <1>3, <1>4

(* One element more adds its value. *)
LEMMA SumAdd ==
    ASSUME NEW S, IsFiniteSet(S), NEW y, y \notin S, NEW f,
           \A x \in S \union {y} : f[x] \in Int
    PROVE  SumFunctionOnSet(f, S \union {y}) = f[y] + SumFunctionOnSet(f, S)
<1>1. IsFiniteSet(S \union {y}) /\ (S \union {y}) \ {y} = S
  BY FS_AddElement
<1> QED
  BY <1>1, SumRemove
(* A constant summed over a finite set. *)
LEMMA SumConstant ==
    ASSUME NEW S, IsFiniteSet(S), NEW n \in Int, NEW f, \A x \in S : f[x] = n
    PROVE  SumFunctionOnSet(f, S) = Cardinality(S) * n
<1> DEFINE bad == {T \in SUBSET S : SumFunctionOnSet(f, T) # Cardinality(T) * n}
<1> SUFFICES ASSUME bad # {} PROVE FALSE
  <2>1. S \notin bad
    BY Zenon
  <2> QED
    BY <2>1
<1>1. bad \in SUBSET (SUBSET S)
  OBVIOUS
<1>2. PICK T \in bad : IsFiniteSet(T) /\ \A x \in T : T \ {x} \notin bad
  BY <1>1, MinimalSubset
<1>3. T # {}
  <2>1. SumFunctionOnSet(f, {}) = Cardinality({}) * n
    BY SumEmpty, FS_EmptySet
  <2> QED
    BY <1>2, <2>1
<1> DEFINE p == Picked(T)
           R == T \ {p}
<1>4. p \in T /\ R \in SUBSET S
  BY <1>2, <1>3, PickedIn
<1>5. SumFunctionOnSet(f, T) = f[p] + SumFunctionOnSet(f, R)
  BY <1>2, <1>3, SumPicked, Zenon
<1>6. SumFunctionOnSet(f, R) = Cardinality(R) * n
  BY <1>2, <1>4, Zenon
<1>7. Cardinality(T) \in Nat /\ Cardinality(R) = Cardinality(T) - 1
  BY <1>2, <1>4, FS_CardinalityType, FS_RemoveElement
<1>8. f[p] = n
  BY <1>2, <1>4
<1> HIDE DEF p, R, bad
<1>9. n + Cardinality(R) * n = Cardinality(T) * n
  BY <1>7
<1>10. SumFunctionOnSet(f, T) = Cardinality(T) * n
  BY <1>5, <1>6, <1>8, <1>9
<1> QED
  BY <1>2, <1>10 DEF bad

(* A sum over some elements is one over all, with zeros for the others. *)
LEMMA SumOfPart ==
    ASSUME NEW T, IsFiniteSet(T), NEW S \in SUBSET T, NEW f, NEW g,
           \A x \in S : f[x] \in Int,
           \A x \in T : g[x] = IF x \in S THEN f[x] ELSE 0
    PROVE  SumFunctionOnSet(f, S) = SumFunctionOnSet(g, T)
<1> DEFINE bad == {U \in SUBSET T : SumFunctionOnSet(f, U \cap S) # SumFunctionOnSet(g, U)}
<1> SUFFICES ASSUME bad # {} PROVE FALSE
  <2>1. T \notin bad /\ T \cap S = S
    BY Zenon
  <2> QED
    BY <2>1
<1>1. bad \in SUBSET (SUBSET T)
  OBVIOUS
<1>2. PICK U \in bad : IsFiniteSet(U) /\ \A x \in U : U \ {x} \notin bad
  BY <1>1, MinimalSubset
<1>3. U # {}
  <2>1. {} \cap S = {}
    OBVIOUS
  <2>2. SumFunctionOnSet(f, {} \cap S) = SumFunctionOnSet(g, {})
    BY <2>1, SumEmpty
  <2> QED
    BY <1>2, <2>2
<1> DEFINE p == Picked(U)
           R == U \ {p}
<1>4. p \in U /\ R \in SUBSET T /\ IsFiniteSet(R)
  BY <1>2, <1>3, PickedIn, FS_RemoveElement
<1>5. SumFunctionOnSet(g, U) = g[p] + SumFunctionOnSet(g, R)
  BY <1>2, <1>3, SumPicked, Zenon
<1>6. SumFunctionOnSet(f, R \cap S) = SumFunctionOnSet(g, R)
  BY <1>2, <1>4, Zenon
<1>7. SumFunctionOnSet(f, R \cap S) \in Int
  <2>1. IsFiniteSet(R \cap S)
    BY <1>4, FS_Intersection
  <2> QED
    BY <2>1, SumInt
<1> HIDE DEF p
<1>8. CASE p \in S
  <2>1. p \in U \cap S /\ (U \cap S) \ {p} = R \cap S
    BY <1>4, <1>8
  <2>2. IsFiniteSet(U \cap S)
    BY <1>2, FS_Intersection
  <2>3. SumFunctionOnSet(f, U \cap S) = f[p] + SumFunctionOnSet(f, (U \cap S) \ {p})
    BY <2>1, <2>2, SumRemove
  <2> QED
    BY <1>2, <1>4, <1>5, <1>6, <1>8, <2>1, <2>3
<1>9. CASE p \notin S
  <2>1. U \cap S = R \cap S
    BY <1>9
  <2> QED
    BY <1>2, <1>4, <1>5, <1>6, <1>7, <1>9, <2>1
<1> QED
  BY <1>8, <1>9

-----------------------------------------------------------------------------
(* The ledger. *)

(* Paying in and out leaves every account with a natural amount. *)
LEMMA PayInThenOutType ==
    ASSUME LedgerTypeOK,
           NEW b \in Users, NEW n \in Nat,
           NEW r \in Users, NEW x \in Int, NEW s \in Users, NEW y \in Int,
           PayInThenOut(b, n, r, x, s, y)
    PROVE  /\ balance' \in [Accounts -> Nat]
           /\ balance'[Contract] = balance[Contract] + n - (x + y)
<1>1. Contract \in Accounts /\ Contract \notin Users /\ Users \subseteq Accounts
  BY LedgerAssumption DEF Accounts
<1>2. ASSUME NEW a \in Accounts PROVE Received(a, r, x, s, y) \in Nat
  BY DEF PayInThenOut, Payable, Received
<1>3. ASSUME NEW a \in Accounts PROVE balance'[a] \in Nat
  BY <1>1, <1>2 DEF PayInThenOut, LedgerTypeOK
<1> QED
  BY <1>1, <1>3 DEF PayInThenOut

(* So does paying out of the contract. *)
LEMMA PayOutType ==
    ASSUME LedgerTypeOK,
           NEW r \in Users, NEW x \in Int, NEW s \in Users, NEW y \in Int,
           PayOut(r, x, s, y)
    PROVE  /\ balance' \in [Accounts -> Nat]
           /\ balance'[Contract] = balance[Contract] - (x + y)
<1>1. Contract \in Accounts /\ Contract \notin Users /\ Users \subseteq Accounts
  BY LedgerAssumption DEF Accounts
<1>2. ASSUME NEW a \in Accounts PROVE Received(a, r, x, s, y) \in Nat
  BY DEF PayOut, Payable, Received
<1>3. ASSUME NEW a \in Accounts PROVE balance'[a] \in Nat
  BY <1>1, <1>2 DEF PayOut, LedgerTypeOK
<1> QED
  BY <1>1, <1>3 DEF PayOut

(* Paying in and out moves payment tokens and makes none. *)
LEMMA PayInThenOutSupply ==
    ASSUME LedgerTypeOK, IsFiniteSet(Users),
           NEW b \in Users, NEW n \in Nat,
           NEW r \in Users, NEW x \in Int, NEW s \in Users, NEW y \in Int,
           PayInThenOut(b, n, r, x, s, y)
    PROVE  SupplyOf(balance') = SupplyOf(balance)
<1>1. IsFiniteSet(Accounts)
  BY FS_AddElement DEF Accounts
<1>2. Contract \in Accounts /\ Contract \notin Users /\ Users \subseteq Accounts
  BY LedgerAssumption DEF Accounts
<1> DEFINE one == [a \in Accounts |-> balance[a] + (IF a = Contract THEN n - (x + y) ELSE 0)]
           two == [a \in Accounts |-> one[a] - (IF a = b THEN n ELSE 0)]
           three == [a \in Accounts |-> two[a] + (IF a = r THEN x ELSE 0)]
           four == [a \in Accounts |-> three[a] + (IF a = s THEN y ELSE 0)]
<1>3. \A a \in Accounts : /\ balance[a] \in Int
                          /\ one[a] \in Int /\ two[a] \in Int
                          /\ three[a] \in Int /\ four[a] \in Int
  BY <1>2 DEF LedgerTypeOK
<1>4. SumFunctionOnSet(one, Accounts)
        = SumFunctionOnSet(balance, Accounts) + one[Contract] - balance[Contract]
  <2>1. \A a \in Accounts \ {Contract} : balance[a] = one[a]
    BY <1>3
  <2> HIDE DEF one
  <2> QED
    BY <1>1, <1>2, <1>3, <2>1, SumChange
<1>5. SumFunctionOnSet(two, Accounts) = SumFunctionOnSet(one, Accounts) + two[b] - one[b]
  <2>1. \A a \in Accounts \ {b} : one[a] = two[a]
    BY <1>3
  <2> HIDE DEF one, two
  <2> QED
    BY <1>1, <1>2, <1>3, <2>1, SumChange
<1>6. SumFunctionOnSet(three, Accounts) = SumFunctionOnSet(two, Accounts) + three[r] - two[r]
  <2>1. \A a \in Accounts \ {r} : two[a] = three[a]
    BY <1>3
  <2> HIDE DEF two, three
  <2> QED
    BY <1>1, <1>2, <1>3, <2>1, SumChange
<1>7. SumFunctionOnSet(four, Accounts) = SumFunctionOnSet(three, Accounts) + four[s] - three[s]
  <2>1. \A a \in Accounts \ {s} : three[a] = four[a]
    BY <1>3
  <2> HIDE DEF three, four
  <2> QED
    BY <1>1, <1>2, <1>3, <2>1, SumChange
<1>8. /\ one[Contract] - balance[Contract] = n - (x + y)
      /\ two[b] - one[b] = -n
      /\ three[r] - two[r] = x
      /\ four[s] - three[s] = y
  BY <1>2, <1>3
<1>9. balance' = four
  <2>1. ASSUME NEW a \in Accounts
        PROVE  four[a] = IF a = Contract THEN balance[a] + n - (x + y)
                         ELSE balance[a] - (IF a = b THEN n ELSE 0) + Received(a, r, x, s, y)
    <3>1. four[a] = (((balance[a] + (IF a = Contract THEN n - (x + y) ELSE 0))
                       - (IF a = b THEN n ELSE 0)) + (IF a = r THEN x ELSE 0))
                       + (IF a = s THEN y ELSE 0)
      BY Zenon
    <3> HIDE DEF one, two, three, four
    <3>2. a = Contract => a # b /\ a # r /\ a # s
      BY <1>2
    <3>3. balance[a] \in Int
      BY <1>3
    <3> QED
      BY <3>1, <3>2, <3>3 DEF Received
  <2>2. balance' = [a \in Accounts |-> four[a]]
    BY <2>1 DEF PayInThenOut
  <2> QED
    BY <2>2
<1> HIDE DEF one, two, three, four
<1>10. /\ SumFunctionOnSet(balance, Accounts) \in Int
       /\ SumFunctionOnSet(one, Accounts) \in Int
       /\ SumFunctionOnSet(two, Accounts) \in Int
       /\ SumFunctionOnSet(three, Accounts) \in Int
       /\ SumFunctionOnSet(four, Accounts) \in Int
  BY <1>1, <1>3, SumInt
<1>11. SumFunctionOnSet(four, Accounts) = SumFunctionOnSet(balance, Accounts)
  BY <1>2, <1>3, <1>4, <1>5, <1>6, <1>7, <1>8, <1>10
<1> QED
  BY <1>9, <1>11 DEF SupplyOf

(* So does paying out alone. *)
LEMMA PayOutSupply ==
    ASSUME LedgerTypeOK, IsFiniteSet(Users),
           NEW r \in Users, NEW x \in Int, NEW s \in Users, NEW y \in Int,
           PayOut(r, x, s, y)
    PROVE  SupplyOf(balance') = SupplyOf(balance)
<1>1. PayInThenOut(r, 0, r, x, s, y)
  <2>1. Contract \in Accounts /\ Users \subseteq Accounts
    BY DEF Accounts
  <2>2. 0 <= balance[r] /\ balance[Contract] + 0 = balance[Contract]
    BY <2>1 DEF LedgerTypeOK
  <2> DEFINE out(a) == IF a = Contract THEN balance[a] - (x + y)
                                       ELSE balance[a] + Received(a, r, x, s, y)
             inout(a) == IF a = Contract THEN balance[a] + 0 - (x + y)
                         ELSE balance[a] - (IF a = r THEN 0 ELSE 0) + Received(a, r, x, s, y)
  <2>3. ASSUME NEW a \in Accounts PROVE out(a) = inout(a)
    <3>1. balance[a] \in Int /\ Received(a, r, x, s, y) \in Int
      BY DEF LedgerTypeOK, Received
    <3> QED
      BY <3>1
  <2>4. balance' = [a \in Accounts |-> out(a)]
    BY DEF PayOut
  <2> HIDE DEF out, inout
  <2>5. balance' = [a \in Accounts |-> inout(a)]
    BY <2>3, <2>4
  <2> QED
    BY <2>2, <2>5 DEF PayOut, PayInThenOut, inout
<1> QED
  BY <1>1, PayInThenOutSupply

(* A transferred NFT has an owner again. *)
LEMMA MoveNftType ==
    ASSUME LedgerTypeOK, NEW t \in Tokens, NEW from, NEW to \in Accounts,
           MoveNft(t, from, to)
    PROVE  owner' \in [Tokens -> Accounts]
BY DEF MoveNft, LedgerTypeOK

(* A ledger close and a trade outside the marketplace keep the types. *)
LEMMA LedgerNextType ==
    ASSUME LedgerTypeOK, LedgerNext
    PROVE  LedgerTypeOK'
<1>1. CASE CloseLedger
  BY <1>1, LedgerAssumption DEF CloseLedger, assetVars, LedgerTypeOK
<1>2. ASSUME NEW t \in TradedOutside, NEW u \in Users, NEW v \in Users,
             TransferOutside(t, u, v)
      PROVE  LedgerTypeOK'
  <2>1. owner' \in [Tokens -> Accounts]
    BY <1>2, MoveNftType, LedgerAssumption DEF TransferOutside, Accounts
  <2> QED
    BY <1>2, <2>1 DEF TransferOutside, LedgerTypeOK
<1> QED
  BY <1>1, <1>2 DEF LedgerNext

-----------------------------------------------------------------------------
(* The access policy. *)

(* Reading the blocklist may delete a record, nothing else. *)
LEMMA BlockCheckedType ==
    ASSUME AccessTypeOK, NEW u \in Users, BlockChecked(u)
    PROVE  blocked' \in [Users -> [on : BOOLEAN, until : Nat]]
BY DEF BlockChecked, AccessTypeOK, NotBlocked

(* Counting a call keeps the windows typed. *)
LEMMA RateCountedType ==
    ASSUME AccessTypeOK, now \in Nat, NEW u \in Users, NEW f, RateCounted(u, f)
    PROVE  rate' \in [Users -> [RatedCalls -> [start : Nat, count : Nat]]]
<1>1. CASE f \notin RatedCalls
  BY <1>1 DEF RateCounted, AccessTypeOK
<1>2. CASE f \in RatedCalls
  <2>1. /\ rate[u][f].start \in Nat /\ rate[u][f].count \in Nat
    BY <1>2 DEF AccessTypeOK
  <2>2. PICK m \in Nat, n \in Nat :
            rate' = [rate EXCEPT ![u][f] = [start |-> m, count |-> n]]
    <3> DEFINE start == IF rate[u][f].start = 0 THEN now ELSE rate[u][f].start
    <3>1. \/ rate' = [rate EXCEPT ![u][f] = [start |-> now, count |-> 1]]
          \/ rate' = [rate EXCEPT ![u][f] = [start |-> start, count |-> rate[u][f].count + 1]]
      BY <1>2, Zenon DEF RateCounted
    <3>2. start \in Nat /\ rate[u][f].count + 1 \in Nat /\ 1 \in Nat
      BY <2>1
    <3> QED
      BY <3>1, <3>2, Zenon
  <2> QED
    BY <1>2, <2>2 DEF AccessTypeOK
<1> QED
  BY <1>1, <1>2

(* Every admin entrypoint of the access policy keeps its types. *)
LEMMA AccessNextType ==
    ASSUME AccessTypeOK, now \in Nat, AccessNext
    PROVE  AccessTypeOK'
<1> USE AccessAssumption DEF AccessTypeOK
<1>1. ASSUME NEW mods \in PauseChoices, PauseContract(mods) PROVE AccessTypeOK'
  BY <1>1 DEF PauseContract
<1>2. CASE UnpauseContract
  BY <1>2 DEF UnpauseContract, NotPaused
<1>3. ASSUME NEW d \in PauseDelays, NEW mods \in PauseChoices, SchedulePause(d, mods)
      PROVE  AccessTypeOK'
  BY <1>3 DEF SchedulePause
<1>4. CASE CancelScheduledPause
  BY <1>4 DEF CancelScheduledPause, NotScheduled
<1>5. CASE ExecuteScheduledPause
  BY <1>5 DEF ExecuteScheduledPause, NotScheduled
<1>6. ASSUME NEW u \in BlockTargets, NEW until \in BlockUntil, BlockAddress(u, until)
      PROVE  AccessTypeOK'
  BY <1>6 DEF BlockAddress
<1>7. ASSUME NEW u \in BlockTargets, UnblockAddress(u) PROVE AccessTypeOK'
  BY <1>7 DEF UnblockAddress, NotBlocked
<1>8. ASSUME NEW u \in BlockTargets, NEW until \in BlockUntil, UpdateBlock(u, until)
      PROVE  AccessTypeOK'
  BY <1>8 DEF UpdateBlock
<1>9. ASSUME NEW e \in DelistChoices,
             SetAllowed(allowed \ {e}) \/ SetAllowed(allowed \union {e})
      PROVE  AccessTypeOK'
  BY <1>9 DEF SetAllowed
<1>10. ASSUME NEW f \in RatedCalls, NEW c \in LimitChoices, UpdateRateLimit(f, c)
       PROVE  AccessTypeOK'
  BY <1>10 DEF UpdateRateLimit
<1> QED
  BY <1>1, <1>2, <1>3, <1>4, <1>5, <1>6, <1>7, <1>8, <1>9, <1>10 DEF AccessNext

-----------------------------------------------------------------------------
(* The fee ledger. *)

(* Booking a fee keeps the fee ledger typed. *)
LEMMA CollectFeeType ==
    ASSUME FeeTypeOK, NEW n \in Nat, NEW u \in Users, CollectFee(n, u)
    PROVE  /\ accumulated' \in Nat
           /\ volume' \in [Users -> Nat]
BY DEF CollectFee, FeeTypeOK

(* Changing the configuration and withdrawing fees keep the types. *)
LEMMA FeeNextType ==
    ASSUME FeeTypeOK, LedgerTypeOK, FeeNext
    PROVE  FeeTypeOK' /\ owner' \in [Tokens -> Accounts] /\ balance' \in [Accounts -> Nat]
<1>1. ASSUME NEW c \in FeeConfigs, UpdateFeeConfig(c)
      PROVE  FeeTypeOK' /\ owner' \in [Tokens -> Accounts] /\ balance' \in [Accounts -> Nat]
  BY <1>1, FeeAssumption DEF UpdateFeeConfig, FeeTypeOK, LedgerTypeOK, assetVars
<1>2. ASSUME NEW to \in Users, WithdrawPlatformFees(to)
      PROVE  FeeTypeOK' /\ owner' \in [Tokens -> Accounts] /\ balance' \in [Accounts -> Nat]
  <2>1. balance' \in [Accounts -> Nat]
    BY <1>2, PayOutType DEF WithdrawPlatformFees, FeeTypeOK
  <2> QED
    BY <1>2, <2>1 DEF WithdrawPlatformFees, FeeTypeOK, LedgerTypeOK
<1> QED
  BY <1>1, <1>2 DEF FeeNext

(* Withdrawn fees are paid out; nothing else moves money here. *)
LEMMA FeeNextSupply ==
    ASSUME FeeTypeOK, LedgerTypeOK, IsFiniteSet(Users), FeeNext
    PROVE  SupplyOf(balance') = SupplyOf(balance)
<1>1. ASSUME NEW c \in FeeConfigs, UpdateFeeConfig(c)
      PROVE  SupplyOf(balance') = SupplyOf(balance)
  BY <1>1 DEF UpdateFeeConfig, assetVars
<1>2. ASSUME NEW to \in Users, WithdrawPlatformFees(to)
      PROVE  SupplyOf(balance') = SupplyOf(balance)
  BY <1>2, PayOutSupply DEF WithdrawPlatformFees, FeeTypeOK
<1> QED
  BY <1>1, <1>2 DEF FeeNext

(* At first every user has the same amount and the contract nothing. *)
LEMMA InitialSupply ==
    ASSUME LedgerInit, IsFiniteSet(Users)
    PROVE  SupplyOf(balance) = Cardinality(Users) * StartBalance
<1>1. Contract \notin Users /\ StartBalance \in Nat
  BY LedgerAssumption
<1>2. /\ \A a \in Users \union {Contract} : balance[a] \in Int
      /\ \A a \in Users : balance[a] = StartBalance
      /\ balance[Contract] = 0
  BY <1>1 DEF LedgerInit, Accounts
<1>3. SumFunctionOnSet(balance, Users \union {Contract})
        = balance[Contract] + SumFunctionOnSet(balance, Users)
  BY <1>1, <1>2, SumAdd
<1>4. SumFunctionOnSet(balance, Users) = Cardinality(Users) * StartBalance
  BY <1>1, <1>2, SumConstant
<1>5. Cardinality(Users) * StartBalance \in Int
  BY <1>1, FS_CardinalityType
<1> QED
  BY <1>2, <1>3, <1>4, <1>5 DEF SupplyOf, Accounts
=============================================================================
