---------------------------- MODULE Extremes ----------------------------
(***************************************************************************)
(* Facts about numbers for the proofs of the other modules: the smallest   *)
(* and the largest element of a set; what follows from there being a       *)
(* smallest one, induction and definition by recursion; sums; the first    *)
(* few of a set of numbers; tables of edit costs, and that they compute     *)
(* the least cost of a pairing; and the values of a sequence at some       *)
(* positions.                                                              *)
(***************************************************************************)
EXTENDS Integers, Sequences, FiniteSets, FiniteSetsExt, FiniteSetTheorems, WellFoundedInduction,
        TLAPS

(* The smallest element of a set. *)
LEMMA MinIn ==
  ASSUME NEW S, S \subseteq Nat, S # {}
  PROVE  Min(S) \in S /\ \A x \in S : Min(S) <= x
<1>1. PICK x \in S : \A y \in S : ~ << y, x >> \in OpToRel(<, Nat)
  BY WFMin, NatLessThanWellFounded
<1>2. \A y \in S : ~ (y < x)
  BY <1>1, Zenon DEF OpToRel
<1>3. \A y \in S : x <= y
  BY <1>2
<1>4. QED
  BY <1>3 DEF Min

LEMMA MinIs ==
  ASSUME NEW S, NEW m \in S, \A x \in S : x \in Int /\ m <= x
  PROVE  Min(S) = m
<1>1. Min(S) \in S /\ \A x \in S : Min(S) <= x
  BY DEF Min
<1>2. Min(S) <= m /\ m <= Min(S) /\ Min(S) \in Int /\ m \in Int
  BY <1>1
<1>3. QED
  BY <1>2

(* The largest element of a set with a bound: the smallest distance from   *)
(* the bound is its own.                                                   *)
LEMMA MaxIn ==
  ASSUME NEW S, NEW n \in Nat, S \subseteq 0 .. n, S # {}
  PROVE  Max(S) \in S /\ \A x \in S : x <= Max(S)
<1> DEFINE D == { n - x : x \in S }
<1>1. D \subseteq Nat /\ D # {}
  <2>1. \A x \in S : n - x \in Nat
    OBVIOUS
  <2>2. QED
    BY <2>1
<1>2. PICK x \in S : Min(D) = n - x
  BY <1>1, MinIn
<1>3. \A y \in S : n - x <= n - y
  BY <1>1, <1>2, MinIn
<1>4. \A y \in S : x >= y
  BY <1>3
<1>5. QED
  BY <1>4 DEF Max

-------------------------------------------------------------------------
(* Induction, for a property given as the set S of what has it: the        *)
(* smallest number without it would have it.                               *)
LEMMA Induction ==
  ASSUME NEW S, 0 \in S, \A n \in Nat : n \in S => n + 1 \in S
  PROVE  \A n \in Nat : n \in S
<1> DEFINE T == Nat \ S
<1>1. SUFFICES ASSUME T # {} PROVE FALSE
  BY <1>1
<1>2. Min(T) \in T /\ \A x \in T : Min(T) <= x
  BY <1>1, MinIn
<1>3. Min(T) - 1 \in Nat /\ Min(T) - 1 \notin T
  BY <1>2
<1>4. QED
  BY <1>2, <1>3

(* The same from all smaller numbers. *)
LEMMA StrongInduction ==
  ASSUME NEW S, \A n \in Nat : (\A k \in 0 .. n - 1 : k \in S) => n \in S
  PROVE  \A n \in Nat : n \in S
<1> DEFINE T == Nat \ S
<1>1. SUFFICES ASSUME T # {} PROVE FALSE
  BY <1>1
<1>2. Min(T) \in T /\ \A x \in T : Min(T) <= x
  BY <1>1, MinIn
<1>3. \A k \in 0 .. Min(T) - 1 : k \in S
  BY <1>2
<1>4. QED
  BY <1>2, <1>3

(* Definition by recursion: when what G says of the value at x depends     *)
(* only on the values at places of lower rank, some function has at every  *)
(* place the value that G says.                                            *)
KeepsType(G, D, V) == \A f \in [D -> V], x \in D : G[f][x] \in V

LooksBelow(G, D, V, rank) ==
  \A f, g \in [D -> V], x \in D :
    (\A y \in D : rank[y] < rank[x] => f[y] = g[y]) => G[f][x] = G[g][x]

Solution(f, G, D) == \A x \in D : f[x] = G[f][x]

LEMMA Recursion ==
  ASSUME NEW D, NEW V, NEW G, KeepsType(G, D, V), V # {},
         NEW N \in Nat, NEW rank \in [D -> 0 .. N], LooksBelow(G, D, V, rank)
  PROVE  \E f \in [D -> V] : Solution(f, G, D)
<1>a. PICK v0 \in V : TRUE
  OBVIOUS
<1>b. \A f \in [D -> V], x \in D : G[f][x] \in V
  BY DEF KeepsType
<1>c. \A f, g \in [D -> V], x \in D :
        (\A y \in D : rank[y] < rank[x] => f[y] = g[y]) => G[f][x] = G[g][x]
  BY DEF LooksBelow
<1> DEFINE Approx(f, n) == \A x \in D : rank[x] < n => f[x] = G[f][x]
           S == { n \in Nat : \E f \in [D -> V] : Approx(f, n) }
<1>1. 0 \in S
  <2>1. [x \in D |-> v0] \in [D -> V] /\ Approx([x \in D |-> v0], 0)
    OBVIOUS
  <2>2. QED
    BY <2>1
<1>2. ASSUME NEW n \in Nat, n \in S PROVE n + 1 \in S
  <2>1. PICK f \in [D -> V] : Approx(f, n)
    BY <1>2
  <2> DEFINE g == [x \in D |-> IF rank[x] = n THEN G[f][x] ELSE f[x]]
  <2>2. g \in [D -> V]
    BY <1>b
  <2>3. ASSUME NEW x \in D, rank[x] < n + 1 PROVE g[x] = G[g][x]
    <3>1. \A y \in D : rank[y] < rank[x] => f[y] = g[y]
      BY <2>3
    <3>2. G[f][x] = G[g][x]
      BY <1>c, <2>2, <3>1
    <3>3. g[x] = G[f][x]
      BY <2>1, <2>3
    <3>4. QED
      BY <3>2, <3>3
  <2>4. Approx(g, n + 1)
    BY <2>3
  <2> HIDE DEF Approx, g
  <2>5. QED
    BY <2>2, <2>4
<1>3. N + 1 \in S
  <2> HIDE DEF S
  <2>1. QED
    BY <1>1, <1>2, Induction
<1>4. PICK f \in [D -> V] : Approx(f, N + 1)
  BY <1>3
<1>5. QED
  BY <1>4 DEF Solution

-------------------------------------------------------------------------
(* A function of numbers on a finite set has a largest value. *)
LEMMA GreatestValue ==
  ASSUME NEW K, IsFiniteSet(K), K # {}, NEW f \in [K -> Int]
  PROVE  \E m \in K : \A x \in K : f[x] <= f[m]
<1> DEFINE Has(T) == \E m \in T : \A x \in T : f[x] <= f[m]
           S == { n \in Nat : \A T \in SUBSET K : T # {} /\ Cardinality(T) = n => Has(T) }
<1>1. 0 \in S
  <2>1. \A T \in SUBSET K : Cardinality(T) = 0 => T = {}
    BY FS_Subset, FS_EmptySet
  <2>2. QED
    BY <2>1
<1>2. ASSUME NEW n \in Nat, n \in S PROVE n + 1 \in S
  <2>1. ASSUME NEW T \in SUBSET K, T # {}, Cardinality(T) = n + 1 PROVE Has(T)
    <3>1. PICK y \in T : TRUE
      BY <2>1
    <3>2. Cardinality(T \ {y}) = n
      <4>1. IsFiniteSet(T)
        BY FS_Subset
      <4>2. Cardinality(T \ {y}) = Cardinality(T) - 1
        BY <4>1, FS_RemoveElement
      <4>3. QED
        BY <2>1, <4>2
    <3>3. CASE T \ {y} = {}
      BY <3>1, <3>3
    <3>4. CASE T \ {y} # {}
      <4>1. PICK m \in T \ {y} : \A x \in T \ {y} : f[x] <= f[m]
        BY <1>2, <3>2, <3>4
      <4>2. CASE f[y] <= f[m]
        BY <4>1, <4>2
      <4>3. CASE ~ (f[y] <= f[m])
        <5>1. \A x \in T : f[x] <= f[y]
          BY <4>1, <4>3
        <5>2. QED
          BY <5>1
      <4>4. QED
        BY <4>2, <4>3
    <3>5. QED
      BY <3>3, <3>4
  <2> HIDE DEF Has
  <2>2. QED
    BY <2>1
<1>3. Cardinality(K) \in S
  <2> HIDE DEF S
  <2>1. Cardinality(K) \in Nat
    BY FS_CardinalityType
  <2>2. QED
    BY <1>1, <1>2, <2>1, Induction
<1>4. QED
  BY <1>3

LEMMA MaxOfValues ==
  ASSUME NEW K, IsFiniteSet(K), K # {}, NEW f \in [K -> Int]
  PROVE  /\ \E m \in K : Max({ f[x] : x \in K }) = f[m]
         /\ \A x \in K : f[x] <= Max({ f[y] : y \in K })
<1> DEFINE S == { f[x] : x \in K }
<1>1. PICK m \in K : \A x \in K : f[x] <= f[m]
  BY GreatestValue
<1>2. f[m] \in S /\ \A y \in S : f[m] >= y
  BY <1>1
<1>3. Max(S) \in S /\ \A y \in S : Max(S) >= y
  BY <1>2 DEF Max
<1>4. QED
  BY <1>3

LEMMA MaxOfSet ==
  ASSUME NEW S, IsFiniteSet(S), S \subseteq Int, S # {}
  PROVE  Max(S) \in S /\ \A x \in S : x <= Max(S)
<1> DEFINE f == [x \in S |-> x]
<1>1. f \in [S -> Int] /\ { f[x] : x \in S } = S
  OBVIOUS
<1> HIDE DEF f
<1>2. /\ \E m \in S : Max({ f[x] : x \in S }) = f[m]
      /\ \A x \in S : f[x] <= Max({ f[y] : y \in S })
  BY <1>1, MaxOfValues
<1>3. \A x \in S : f[x] = x
  BY DEF f
<1>4. QED
  BY <1>1, <1>2, <1>3

-------------------------------------------------------------------------
(* Sums. *)

SumStep(f, sum, T) ==
  IF T = {} THEN 0 ELSE f[CHOOSE x \in T : TRUE] + sum[T \ {CHOOSE x \in T : TRUE}]

Sums(f, sum, S) == \A T \in SUBSET S : sum[T] = SumStep(f, sum, T)

(* The sum over a set is found from those over its subsets; and the sum of *)
(* integers is one. *)
LEMMA SumBySubsets ==
  ASSUME NEW f, NEW S, IsFiniteSet(S), \A x \in S : f[x] \in Int
  PROVE  \E sum : /\ SumFunctionOnSet(f, S) = sum[S] /\ Sums(f, sum, S)
                  /\ \A T \in SUBSET S : sum[T] \in Int
<1> DEFINE D == SUBSET S
           G == [g \in [D -> Int] |-> [T \in D |-> SumStep(f, g, T)]]
           rank == [T \in D |-> Cardinality(T)]
           Picked(T) == CHOOSE x \in T : TRUE
<1>1. ASSUME NEW T \in D, T # {}
      PROVE  /\ Picked(T) \in T /\ T \ {Picked(T)} \in D
             /\ Cardinality(T \ {Picked(T)}) < Cardinality(T)
             /\ Cardinality(T) \in Nat /\ Cardinality(T) <= Cardinality(S)
  <2>1. Picked(T) \in T
    BY <1>1
  <2> HIDE DEF Picked
  <2>2. IsFiniteSet(T) /\ Cardinality(T) <= Cardinality(S) /\ Cardinality(S) \in Nat
    BY FS_Subset, FS_CardinalityType
  <2>3. Cardinality(T \ {Picked(T)}) = Cardinality(T) - 1 /\ Cardinality(T) \in Nat
    BY <2>1, <2>2, FS_RemoveElement, FS_CardinalityType
  <2>4. QED
    BY <2>1, <2>2, <2>3
<1>2. Cardinality(S) \in Nat /\ Cardinality({}) = 0
  BY FS_CardinalityType, FS_EmptySet
<1>3. rank \in [D -> 0 .. Cardinality(S)]
  <2>1. ASSUME NEW T \in D PROVE Cardinality(T) \in 0 .. Cardinality(S)
    <3>1. IsFiniteSet(T) /\ Cardinality(T) <= Cardinality(S)
      BY FS_Subset
    <3>2. Cardinality(T) \in Nat
      BY <3>1, FS_CardinalityType
    <3>3. QED
      BY <1>2, <3>1, <3>2
  <2>2. QED
    BY <2>1
<1>4. ASSUME NEW g \in [D -> Int], NEW T \in D
      PROVE  G[g][T] = SumStep(f, g, T) /\ G[g][T] \in Int
  <2>1. G[g][T] = SumStep(f, g, T)
    OBVIOUS
  <2>2. CASE T = {}
    BY <2>1, <2>2 DEF SumStep
  <2>3. CASE T # {}
    <3>1. SumStep(f, g, T) = f[Picked(T)] + g[T \ {Picked(T)}]
      BY <2>3 DEF SumStep
    <3>2. Picked(T) \in T /\ T \ {Picked(T)} \in D
      BY <1>1, <2>3
    <3> HIDE DEF Picked
    <3>3. f[Picked(T)] \in Int /\ g[T \ {Picked(T)}] \in Int
      BY <3>2
    <3>4. QED
      BY <2>1, <3>1, <3>3
  <2>4. QED
    BY <2>2, <2>3
<1>5. ASSUME NEW g \in [D -> Int], NEW h \in [D -> Int], NEW T \in D,
             \A U \in D : rank[U] < rank[T] => g[U] = h[U]
      PROVE  G[g][T] = G[h][T]
  <2>1. T # {} => g[T \ {Picked(T)}] = h[T \ {Picked(T)}]
    <3>1. SUFFICES ASSUME T # {} PROVE g[T \ {Picked(T)}] = h[T \ {Picked(T)}]
      OBVIOUS
    <3>2. T \ {Picked(T)} \in D /\ Cardinality(T \ {Picked(T)}) < Cardinality(T)
      BY <1>1, <3>1
    <3> HIDE DEF Picked
    <3>3. QED
      BY <1>5, <3>2
  <2>2. SumStep(f, g, T) = SumStep(f, h, T)
    BY <2>1 DEF SumStep
  <2>3. QED
    BY <1>4, <2>2
<1>6. PICK g \in [D -> Int] : \A T \in D : g[T] = SumStep(f, g, T)
  <2> HIDE DEF G, rank, D
  <2>1. KeepsType(G, D, Int)
    BY <1>4 DEF KeepsType
  <2>2. LooksBelow(G, D, Int, rank)
    BY <1>5 DEF LooksBelow
  <2>3. \E g \in [D -> Int] : Solution(g, G, D)
    BY <1>2, <1>3, <2>1, <2>2, Recursion
  <2>4. QED
    BY <1>4, <2>3 DEF Solution
<1> DEFINE iter == CHOOSE h : h = [T \in D |-> SumStep(f, h, T)]
<1>7. SumFunctionOnSet(f, S) = iter[S]
  BY DEF SumFunctionOnSet, FoldFunctionOnSet, MapThenFoldSet, SumStep
<1>8. g = [T \in D |-> SumStep(f, g, T)]
  BY <1>6
<1> HIDE DEF G, rank, Picked
<1>9. iter = [T \in D |-> SumStep(f, iter, T)]
  BY <1>8
<1> HIDE DEF iter
<1> DEFINE Good == { n \in Nat : \A T \in D : Cardinality(T) < n => iter[T] \in Int }
<1>10. 0 \in Good
  <2>1. \A T \in D : T # {} => Cardinality(T) \in Nat
    BY <1>1
  <2>2. \A T \in D : ~(Cardinality(T) < 0)
    BY <1>2, <2>1
  <2>3. QED
    BY <2>2
<1>11. ASSUME NEW n \in Nat, n \in Good PROVE n + 1 \in Good
  <2>1. ASSUME NEW T \in D, Cardinality(T) < n + 1 PROVE iter[T] \in Int
    <3>1. iter[T] = SumStep(f, iter, T)
      BY <1>9
    <3>2. CASE T = {}
      BY <3>1, <3>2 DEF SumStep
    <3>3. CASE T # {}
      <4>1. iter[T] = f[Picked(T)] + iter[T \ {Picked(T)}]
        BY <3>1, <3>3 DEF SumStep, Picked
      <4>2. /\ Picked(T) \in T /\ T \ {Picked(T)} \in D
            /\ Cardinality(T \ {Picked(T)}) < Cardinality(T) /\ Cardinality(T) \in Nat
        BY <1>1, <3>3
      <4>3. Cardinality(T \ {Picked(T)}) < n
        <5>1. IsFiniteSet(T \ {Picked(T)})
          BY <4>2, FS_Subset
        <5>2. Cardinality(T \ {Picked(T)}) \in Nat
          BY <5>1, FS_CardinalityType
        <5>3. QED
          BY <2>1, <4>2, <5>2
      <4>4. iter[T \ {Picked(T)}] \in Int
        BY <1>11, <4>2, <4>3
      <4>5. f[Picked(T)] \in Int
        BY <4>2
      <4>6. QED
        BY <4>1, <4>4, <4>5
    <3>4. QED
      BY <3>2, <3>3
  <2>2. QED
    BY <2>1
<1>12. \A n \in Nat : n \in Good
  <2> HIDE DEF Good
  <2>1. QED
    BY <1>10, <1>11, Induction
<1>13. ASSUME NEW T \in D PROVE iter[T] = SumStep(f, iter, T) /\ iter[T] \in Int
  <2>1. IsFiniteSet(T)
    BY FS_Subset
  <2>2. Cardinality(T) + 1 \in Nat /\ Cardinality(T) < Cardinality(T) + 1
    BY <2>1, FS_CardinalityType
  <2>3. Cardinality(T) + 1 \in Good
    BY <1>12, <2>2
  <2>4. iter[T] \in Int
    BY <2>2, <2>3
  <2>5. iter[T] = SumStep(f, iter, T)
    BY <1>9
  <2>6. QED
    BY <2>4, <2>5
<1> HIDE DEF Good
<1>14. QED
  BY <1>7, <1>13 DEF Sums

LEMMA SumType ==
  ASSUME NEW f, NEW S, IsFiniteSet(S), \A x \in S : f[x] \in Int
  PROVE  SumFunctionOnSet(f, S) \in Int
<1>1. S \in SUBSET S
  OBVIOUS
<1>2. QED
  BY <1>1, SumBySubsets

(* Sums of the same numbers are the same. *)
LEMMA SumsAgree ==
  ASSUME NEW S, IsFiniteSet(S), NEW f, NEW sum, Sums(f, sum, S),
         NEW R, R \subseteq S, NEW g, NEW sum2, Sums(g, sum2, R), \A x \in R : f[x] = g[x]
  PROVE  \A T \in SUBSET R : sum[T] = sum2[T]
<1> DEFINE Good == { n \in Nat : \A T \in SUBSET R : Cardinality(T) = n => sum[T] = sum2[T] }
<1>1. ASSUME NEW n \in Nat, \A k \in 0 .. n - 1 : k \in Good PROVE n \in Good
  <2>1. ASSUME NEW T \in SUBSET R, Cardinality(T) = n PROVE sum[T] = sum2[T]
    <3>1. sum[T] = SumStep(f, sum, T) /\ sum2[T] = SumStep(g, sum2, T)
      BY DEF Sums
    <3>2. CASE T = {}
      BY <3>1, <3>2 DEF SumStep
    <3>3. CASE T # {}
      <4>1. PICK c : c \in T /\ c = CHOOSE x \in T : TRUE
        BY <3>3
      <4>2. /\ sum[T] = f[c] + sum[T \ {c}] /\ sum2[T] = g[c] + sum2[T \ {c}]
        BY <3>1, <3>3, <4>1 DEF SumStep
      <4>3. IsFiniteSet(T)
        BY FS_Subset
      <4>4. Cardinality(T \ {c}) = n - 1 /\ IsFiniteSet(T \ {c})
        BY <2>1, <4>1, <4>3, FS_RemoveElement
      <4>5. n - 1 \in 0 .. n - 1
        BY <1>1, <4>4, FS_CardinalityType
      <4>6. T \ {c} \in SUBSET R
        OBVIOUS
      <4>7. n - 1 \in Good
        BY <1>1, <4>5
      <4>8. sum[T \ {c}] = sum2[T \ {c}]
        BY <4>4, <4>6, <4>7
      <4>9. f[c] = g[c]
        BY <4>1
      <4>10. QED
        BY <4>2, <4>8, <4>9
    <3>4. QED
      BY <3>2, <3>3
  <2>2. QED
    BY <2>1
<1>2. \A n \in Nat : n \in Good
  <2> HIDE DEF Good
  <2>1. QED
    BY <1>1, StrongInduction
<1>3. ASSUME NEW T \in SUBSET R PROVE sum[T] = sum2[T]
  <2>1. IsFiniteSet(T)
    BY FS_Subset
  <2>2. Cardinality(T) \in Good
    BY <1>2, <2>1, FS_CardinalityType
  <2>3. QED
    BY <2>2
<1>4. QED
  BY <1>3

LEMMA SumSame ==
  ASSUME NEW S, IsFiniteSet(S), NEW f, NEW g, \A x \in S : f[x] \in Int /\ f[x] = g[x]
  PROVE  SumFunctionOnSet(f, S) = SumFunctionOnSet(g, S)
<1>1. PICK sum : SumFunctionOnSet(f, S) = sum[S] /\ Sums(f, sum, S)
  BY SumBySubsets
<1>2. \A x \in S : g[x] \in Int
  OBVIOUS
<1>3. PICK sum2 : SumFunctionOnSet(g, S) = sum2[S] /\ Sums(g, sum2, S)
  BY <1>2, SumBySubsets
<1>4. \A T \in SUBSET S : sum[T] = sum2[T]
  BY <1>1, <1>3, SumsAgree
<1>5. QED
  BY <1>1, <1>3, <1>4

(* Any element may be taken out of a sum. *)
LEMMA SumTakesOut ==
  ASSUME NEW S, IsFiniteSet(S), NEW f, \A x \in S : f[x] \in Int, NEW x \in S
  PROVE  SumFunctionOnSet(f, S) = f[x] + SumFunctionOnSet(f, S \ {x})
<1> DEFINE Sum(T) == SumFunctionOnSet(f, T)
<1>1. ASSUME NEW T \in SUBSET S PROVE Sum(T) \in Int /\ IsFiniteSet(T)
  BY FS_Subset, SumType
<1>2. ASSUME NEW T \in SUBSET S, T # {}
      PROVE  \E c \in T : Sum(T) = f[c] + Sum(T \ {c})
  <2>1. IsFiniteSet(T) /\ \A y \in T : f[y] \in Int
    BY <1>1
  <2>2. PICK sum : Sum(T) = sum[T] /\ Sums(f, sum, T)
    BY <2>1, SumBySubsets
  <2>3. PICK c : c \in T /\ c = CHOOSE y \in T : TRUE
    BY <1>2
  <2>4. sum[T] = f[c] + sum[T \ {c}]
    BY <1>2, <2>2, <2>3 DEF SumStep, Sums
  <2> DEFINE R == T \ {c}
  <2>5. IsFiniteSet(R) /\ R \subseteq T /\ \A y \in R : f[y] \in Int
    BY <2>1, FS_Subset
  <2>6. PICK sum2 : Sum(R) = sum2[R] /\ Sums(f, sum2, R)
    BY <2>5, SumBySubsets
  <2> HIDE DEF R
  <2>7. \A U \in SUBSET R : sum[U] = sum2[U]
    BY <2>1, <2>2, <2>5, <2>6, SumsAgree
  <2>8. sum[R] = sum2[R]
    BY <2>7
  <2>9. QED
    BY <2>2, <2>3, <2>4, <2>6, <2>8 DEF R
<1> HIDE DEF Sum
<1> DEFINE Takes(T) == \A y \in T : Sum(T) = f[y] + Sum(T \ {y})
           Good == { n \in Nat : \A T \in SUBSET S : Cardinality(T) = n => Takes(T) }
<1>3. ASSUME NEW n \in Nat, \A k \in 0 .. n - 1 : k \in Good PROVE n \in Good
  <2>1. ASSUME NEW T \in SUBSET S, Cardinality(T) = n, NEW y \in T
        PROVE  Sum(T) = f[y] + Sum(T \ {y})
    <3>1. PICK c \in T : Sum(T) = f[c] + Sum(T \ {c})
      BY <1>2
    <3>2. CASE c = y
      BY <3>1, <3>2
    <3>3. CASE c # y
      <4>1. Cardinality(T \ {c}) = n - 1 /\ Cardinality(T \ {y}) = n - 1
            /\ IsFiniteSet(T \ {c})
        BY <1>1, <2>1, FS_RemoveElement
      <4>2. n - 1 \in 0 .. n - 1
        BY <1>3, <4>1, FS_CardinalityType
      <4>3. n - 1 \in Good
        BY <1>3, <4>2
      <4>4. T \ {c} \in SUBSET S /\ T \ {y} \in SUBSET S
            /\ (T \ {c}) \ {y} \in SUBSET S
        OBVIOUS
      <4>5. Takes(T \ {c}) /\ Takes(T \ {y})
        BY <4>1, <4>3, <4>4
      <4> DEFINE rest == (T \ {c}) \ {y}
      <4>6. rest = (T \ {y}) \ {c} /\ y \in T \ {c} /\ c \in T \ {y}
        BY <3>3
      <4>7. Sum(T \ {c}) = f[y] + Sum(rest)
        BY <4>5, <4>6
      <4>8. Sum(T \ {y}) = f[c] + Sum(rest)
        BY <4>5, <4>6
      <4>9. Sum(rest) \in Int /\ f[c] \in Int /\ f[y] \in Int
        BY <1>1, <4>4
      <4> HIDE DEF rest
      <4>10. QED
        BY <3>1, <4>7, <4>8, <4>9
    <3>4. QED
      BY <3>2, <3>3
  <2>2. QED
    BY <2>1
<1>4. \A n \in Nat : n \in Good
  <2> HIDE DEF Good
  <2>1. QED
    BY <1>3, StrongInduction
<1>5. Cardinality(S) \in Good
  <2> HIDE DEF Good
  <2>1. QED
    BY <1>4, FS_CardinalityType
<1>6. Takes(S)
  BY <1>5
<1>7. QED
  BY <1>6 DEF Sum

(* A sum of nothing. *)
LEMMA SumEmpty == ASSUME NEW f PROVE SumFunctionOnSet(f, {}) = 0
<1>1. IsFiniteSet({}) /\ \A x \in {} : f[x] \in Int
  BY FS_EmptySet
<1>2. PICK sum : SumFunctionOnSet(f, {}) = sum[{}] /\ Sums(f, sum, {})
  BY <1>1, SumBySubsets
<1>3. sum[{}] = 0
  BY <1>2 DEF Sums, SumStep
<1>4. QED
  BY <1>2, <1>3

(* A sum of combinations is the combination of the sums. *)
Combines(h, a, f, b, g, S) ==
  \A x \in S : f[x] \in Int /\ g[x] \in Int /\ h[x] = a * f[x] + b * g[x]

LEMMA SumLinear ==
  ASSUME NEW S, IsFiniteSet(S), NEW a \in Int, NEW b \in Int, NEW f, NEW g, NEW h,
         Combines(h, a, f, b, g, S)
  PROVE  /\ SumFunctionOnSet(f, S) \in Int /\ SumFunctionOnSet(g, S) \in Int
         /\ SumFunctionOnSet(h, S) = a * SumFunctionOnSet(f, S) + b * SumFunctionOnSet(g, S)
<1> DEFINE F(T) == SumFunctionOnSet(f, T)
           G(T) == SumFunctionOnSet(g, T)
           H(T) == SumFunctionOnSet(h, T)
<1>1. \A x \in S : f[x] \in Int /\ g[x] \in Int /\ h[x] \in Int
  BY DEF Combines
<1>2. ASSUME NEW T \in SUBSET S
      PROVE  IsFiniteSet(T) /\ F(T) \in Int /\ G(T) \in Int /\ H(T) \in Int
  <2>1. IsFiniteSet(T) /\ \A x \in T : x \in S
    BY FS_Subset
  <2>2. QED
    BY <1>1, <2>1, SumType
<1>3. ASSUME NEW T \in SUBSET S, NEW x \in T
      PROVE  /\ F(T) = f[x] + F(T \ {x}) /\ G(T) = g[x] + G(T \ {x})
             /\ H(T) = h[x] + H(T \ {x})
  <2>1. IsFiniteSet(T) /\ \A y \in T : y \in S
    BY <1>2
  <2>2. QED
    BY <1>1, <2>1, SumTakesOut
<1>4. F({}) = 0 /\ G({}) = 0 /\ H({}) = 0
  BY SumEmpty
<1> HIDE DEF F, G, H
<1> DEFINE Good == { n \in Nat : \A T \in SUBSET S :
                       Cardinality(T) = n => H(T) = a * F(T) + b * G(T) }
<1>5. ASSUME NEW n \in Nat, \A k \in 0 .. n - 1 : k \in Good PROVE n \in Good
  <2>1. ASSUME NEW T \in SUBSET S, Cardinality(T) = n PROVE H(T) = a * F(T) + b * G(T)
    <3>1. CASE T = {}
      BY <1>4, <3>1
    <3>2. CASE T # {}
      <4>1. PICK x : x \in T
        BY <3>2
      <4>2. PICK R : R = T \ {x} /\ R \in SUBSET S
        OBVIOUS
      <4>3. Cardinality(R) = n - 1 /\ n - 1 \in 0 .. n - 1
        <5>1. IsFiniteSet(T) /\ IsFiniteSet(R)
          BY <1>2, <4>2
        <5>2. Cardinality(R) = Cardinality(T) - 1
          BY <4>1, <4>2, <5>1, FS_RemoveElement
        <5>3. Cardinality(R) \in Nat
          BY <5>1, FS_CardinalityType
        <5>4. QED
          BY <1>5, <2>1, <5>2, <5>3
      <4>4. n - 1 \in Good
        BY <1>5, <4>3
      <4>5. H(R) = a * F(R) + b * G(R)
        BY <4>2, <4>3, <4>4
      <4>6. F(T) = f[x] + F(R) /\ G(T) = g[x] + G(R) /\ H(T) = h[x] + H(R)
        BY <1>3, <4>1, <4>2
      <4>7. x \in S
        BY <4>1
      <4>8. f[x] \in Int /\ g[x] \in Int /\ h[x] = a * f[x] + b * g[x]
        BY <4>7 DEF Combines
      <4>9. PICK u, v, p, q : u = f[x] /\ v = g[x] /\ p = F(R) /\ q = G(R)
        OBVIOUS
      <4>10. u \in Int /\ v \in Int /\ p \in Int /\ q \in Int
        BY <1>2, <4>2, <4>8, <4>9
      <4>11. (a * u + b * v) + (a * p + b * q) = a * (u + p) + b * (v + q)
        BY <4>10
      <4>12. QED
        BY <4>5, <4>6, <4>8, <4>9, <4>11
    <3>3. QED
      BY <3>1, <3>2
  <2>2. QED
    BY <2>1
<1>6. Cardinality(S) \in Good
  <2> HIDE DEF Good
  <2>1. \A n \in Nat : n \in Good
    BY <1>5, StrongInduction
  <2>2. QED
    BY <2>1, FS_CardinalityType
<1>7. H(S) = a * F(S) + b * G(S)
  BY <1>6
<1>8. QED
  BY <1>2, <1>7 DEF F, G, H

(* A sum of what is not negative is at least each of it. *)
LEMMA SumAtLeast ==
  ASSUME NEW S, IsFiniteSet(S), NEW f, \A x \in S : f[x] \in Int /\ f[x] >= 0
  PROVE  /\ SumFunctionOnSet(f, S) \in Int /\ SumFunctionOnSet(f, S) >= 0
         /\ \A x \in S : SumFunctionOnSet(f, S) >= f[x]
<1> DEFINE F(T) == SumFunctionOnSet(f, T)
<1>1. ASSUME NEW T \in SUBSET S
      PROVE  /\ IsFiniteSet(T) /\ F(T) \in Int
             /\ \A x \in T : F(T) = f[x] + F(T \ {x}) /\ f[x] \in Int /\ f[x] >= 0
  <2>1. IsFiniteSet(T) /\ \A x \in T : f[x] \in Int /\ f[x] >= 0
    BY FS_Subset
  <2>2. F(T) \in Int
    BY <2>1, SumType
  <2>3. \A x \in T : F(T) = f[x] + F(T \ {x})
    BY <2>1, SumTakesOut
  <2>4. QED
    BY <2>1, <2>2, <2>3
<1>2. F({}) = 0
  BY SumEmpty
<1> HIDE DEF F
<1> DEFINE Good == { n \in Nat : \A T \in SUBSET S : Cardinality(T) = n => F(T) >= 0 }
<1>3. ASSUME NEW n \in Nat, \A k \in 0 .. n - 1 : k \in Good PROVE n \in Good
  <2>1. ASSUME NEW T \in SUBSET S, Cardinality(T) = n PROVE F(T) >= 0
    <3>1. CASE T = {}
      BY <1>2, <3>1
    <3>2. CASE T # {}
      <4>1. PICK x : x \in T
        BY <3>2
      <4>2. PICK R : R = T \ {x} /\ R \in SUBSET S
        OBVIOUS
      <4>3. Cardinality(R) = n - 1 /\ n - 1 \in 0 .. n - 1
        <5>1. IsFiniteSet(T) /\ IsFiniteSet(R)
          BY <1>1, <4>2
        <5>2. Cardinality(R) = Cardinality(T) - 1
          BY <4>1, <4>2, <5>1, FS_RemoveElement
        <5>3. Cardinality(R) \in Nat
          BY <5>1, FS_CardinalityType
        <5>4. QED
          BY <1>3, <2>1, <5>2, <5>3
      <4>4. n - 1 \in Good
        BY <1>3, <4>3
      <4>5. F(R) >= 0
        BY <4>2, <4>3, <4>4
      <4>6. F(T) = f[x] + F(R) /\ f[x] \in Int /\ f[x] >= 0 /\ F(R) \in Int
        BY <1>1, <4>1, <4>2
      <4>7. QED
        BY <4>5, <4>6
    <3>3. QED
      BY <3>1, <3>2
  <2>2. QED
    BY <2>1
<1>4. \A n \in Nat : n \in Good
  <2> HIDE DEF Good
  <2>1. QED
    BY <1>3, StrongInduction
<1>5. ASSUME NEW T \in SUBSET S PROVE F(T) >= 0
  <2>1. Cardinality(T) \in Good
    <3> HIDE DEF Good
    <3>1. QED
      BY <1>1, <1>4, FS_CardinalityType
  <2>2. QED
    BY <2>1
<1>6. ASSUME NEW x \in S PROVE F(S) >= f[x]
  <2>1. S \ {x} \in SUBSET S /\ S \in SUBSET S
    OBVIOUS
  <2>2. F(S \ {x}) >= 0 /\ F(S \ {x}) \in Int
    BY <1>1, <1>5, <2>1
  <2>3. F(S) = f[x] + F(S \ {x}) /\ f[x] \in Int
    BY <1>1, <2>1
  <2>4. QED
    BY <2>2, <2>3
<1>7. F(S) \in Int /\ F(S) >= 0
  BY <1>1, <1>5
<1>8. QED
  BY <1>6, <1>7 DEF F

-------------------------------------------------------------------------
(* What a function makes of a finite set is finite. *)
LEMMA ImageFinite ==
  ASSUME NEW S, IsFiniteSet(S), NEW f
  PROVE  IsFiniteSet({ f[x] : x \in S })
<1> DEFINE T == { f[x] : x \in S }
           g == [x \in S |-> f[x]]
<1>1. g \in Surjection(S, T)
  BY DEF Surjection
<1> HIDE DEF T, g
<1>2. IsFiniteSet(T)
  BY <1>1, FS_Surjection
<1>3. QED
  BY <1>2 DEF T

(* The greater of two numbers. *)
LEMMA MaxOfTwo ==
  ASSUME NEW a \in Int, NEW b \in Int
  PROVE  /\ Max({a, b}) \in Int
         /\ Max({a, b}) = a \/ Max({a, b}) = b
         /\ Max({a, b}) >= a /\ Max({a, b}) >= b
<1>1. \E x \in {a, b} : \A y \in {a, b} : x >= y
  OBVIOUS
<1>2. Max({a, b}) \in {a, b} /\ \A y \in {a, b} : Max({a, b}) >= y
  BY <1>1 DEF Max
<1>3. QED
  BY <1>2

-------------------------------------------------------------------------
(* The first of some numbers. *)

First(C, m) == { i \in C : Cardinality({ j \in C : j < i }) < m }

LEMMA FirstComeFirst ==
  ASSUME NEW C, C \subseteq Nat, IsFiniteSet(C), NEW m \in Nat,
         NEW i \in First(C, m), NEW j \in C \ First(C, m)
  PROVE  i < j
<1>1. SUFFICES ASSUME ~(i < j) PROVE FALSE
  OBVIOUS
<1> DEFINE Before(x) == { k \in C : k < x }
<1>2. Before(j) \subseteq Before(i)
  <2>1. i \in Nat /\ j \in Nat /\ j <= i
    BY <1>1 DEF First
  <2>2. ASSUME NEW k \in C, k < j PROVE k < i
    BY <2>1, <2>2
  <2>3. QED
    BY <2>2
<1>3. IsFiniteSet(Before(i)) /\ IsFiniteSet(Before(j))
  BY FS_Subset
<1>4. /\ Cardinality(Before(j)) <= Cardinality(Before(i))
      /\ Cardinality(Before(i)) \in Nat /\ Cardinality(Before(j)) \in Nat
  BY <1>2, <1>3, FS_Subset, FS_CardinalityType
<1>5. Cardinality(Before(i)) < m /\ ~(Cardinality(Before(j)) < m)
  BY DEF First
<1> HIDE DEF Before
<1>6. QED
  BY <1>4, <1>5

(* There are as many of them as are asked for, or they are all there are.  *)
LEMMA FirstOnes ==
  ASSUME NEW C, C \subseteq Nat, IsFiniteSet(C), NEW m \in Nat
  PROVE  /\ IsFiniteSet(First(C, m)) /\ Cardinality(First(C, m)) <= m
         /\ First(C, m) = C \/ Cardinality(First(C, m)) = m
<1> DEFINE Fills(k) == /\ Cardinality(First(C, k)) <= k
                       /\ First(C, k) = C \/ Cardinality(First(C, k)) = k
           Good == { k \in Nat : Fills(k) }
           Before(x) == { j \in C : j < x }
<1>1. ASSUME NEW x \in C
      PROVE  IsFiniteSet(Before(x)) /\ Cardinality(Before(x)) \in Nat
  BY FS_Subset, FS_CardinalityType
<1>2. ASSUME NEW k
      PROVE  /\ First(C, k) = { i \in C : Cardinality(Before(i)) < k }
             /\ IsFiniteSet(First(C, k)) /\ Cardinality(First(C, k)) \in Nat
  BY FS_Subset, FS_CardinalityType DEF First
<1>3. 0 \in Good
  <2>1. First(C, 0) = {}
    <3>1. ASSUME NEW x \in C PROVE ~(Cardinality(Before(x)) < 0)
      <4>1. Cardinality(Before(x)) \in Nat
        BY <1>1
      <4> HIDE DEF Before
      <4>2. QED
        BY <4>1
    <3> HIDE DEF Before
    <3>2. QED
      BY <1>2, <3>1
  <2>2. QED
    BY <2>1, FS_EmptySet
<1>4. ASSUME NEW k \in Nat, k \in Good PROVE k + 1 \in Good
  <2>1. First(C, k) \subseteq First(C, k + 1)
    <3> HIDE DEF Before
    <3>1. \A x \in C : Cardinality(Before(x)) < k => Cardinality(Before(x)) < k + 1
      BY <1>1
    <3>2. QED
      BY <1>2, <3>1
  <2>2. CASE First(C, k) = C
    <3>1. First(C, k + 1) = C
      BY <1>2, <2>1, <2>2
    <3>2. Cardinality(C) <= k /\ Cardinality(C) \in Nat
      BY <1>2, <1>4, <2>2
    <3>3. Cardinality(C) <= k + 1
      BY <3>2
    <3>4. QED
      BY <3>1, <3>3
  <2>3. CASE First(C, k) # C
    <3> DEFINE rest == C \ First(C, k)
               x == Min(rest)
    <3>1. rest \subseteq Nat /\ rest # {}
      BY <1>2, <2>3
    <3>2. x \in rest /\ \A y \in rest : x <= y
      BY <3>1, MinIn
    <3> HIDE DEF x
    <3>3. Before(x) = First(C, k)
      <4>1. ASSUME NEW j \in First(C, k) PROVE j \in Before(x)
        BY <1>2, <3>2, FirstComeFirst
      <4>2. ASSUME NEW j \in Before(x) PROVE j \in First(C, k)
        BY <3>2
      <4>3. QED
        BY <4>1, <4>2
    <3>4. Cardinality(First(C, k)) = k
      BY <1>4, <2>3
    <3>5. x \in First(C, k + 1)
      BY <1>2, <3>2, <3>3, <3>4
    <3>6. ASSUME NEW y \in rest, y # x PROVE y \notin First(C, k + 1)
      <4>1. x < y
        BY <3>2, <3>6
      <4>2. First(C, k) \cup {x} \subseteq Before(y)
        <5>1. ASSUME NEW j \in First(C, k) PROVE j \in Before(y)
          BY <1>2, FirstComeFirst
        <5>2. QED
          BY <3>2, <4>1, <5>1
      <4>3. Cardinality(First(C, k) \cup {x}) = k + 1
        BY <1>2, <3>2, <3>4, FS_AddElement
      <4>4. Cardinality(First(C, k) \cup {x}) <= Cardinality(Before(y)) /\ y \in C
        BY <1>1, <4>2, FS_Subset
      <4>5. Cardinality(Before(y)) \in Nat
        BY <1>1
      <4>6. ~(Cardinality(Before(y)) < k + 1)
        BY <4>3, <4>4, <4>5
      <4>7. QED
        BY <1>2, <4>6
    <3>7. First(C, k + 1) = First(C, k) \cup {x}
      BY <1>2, <2>1, <3>5, <3>6
    <3>8. Cardinality(First(C, k + 1)) = k + 1
      BY <1>2, <3>2, <3>4, <3>7, FS_AddElement
    <3>9. QED
      BY <3>8
  <2>4. QED
    BY <2>2, <2>3
<1> HIDE DEF Fills
<1>5. m \in Good
  <2> HIDE DEF Good
  <2>1. QED
    BY <1>3, <1>4, Induction
<1>6. QED
  BY <1>2, <1>5 DEF Fills

(* One element for another. *)
LEMMA Exchanged ==
  ASSUME NEW S, IsFiniteSet(S), NEW x \in S, NEW y, y \notin S
  PROVE  /\ IsFiniteSet((S \ {x}) \cup {y})
         /\ Cardinality((S \ {x}) \cup {y}) = Cardinality(S)
<1>1. IsFiniteSet(S \ {x}) /\ Cardinality(S \ {x}) = Cardinality(S) - 1
  BY FS_RemoveElement
<1>2. /\ IsFiniteSet((S \ {x}) \cup {y})
      /\ Cardinality((S \ {x}) \cup {y}) = Cardinality(S \ {x}) + 1
  BY <1>1, FS_AddElement
<1>3. Cardinality(S) \in Nat
  BY FS_CardinalityType
<1>4. QED
  BY <1>1, <1>2, <1>3

-------------------------------------------------------------------------
(* A table of costs: what it costs to turn i things into j others when A   *)
(* are the pairs of positions that agree.                                  *)

Cells(a, b) == (0 .. a) \X (0 .. b)

Laid(f, A, c) ==
  IF c[1] = 0 \/ c[2] = 0
    THEN c[1] + c[2]
    ELSE Min({ f[<< c[1] - 1, c[2] >>] + 1,
               f[<< c[1], c[2] - 1 >>] + 1,
               f[<< c[1] - 1, c[2] - 1 >>] + (IF c \in A THEN 0 ELSE 1) })

IsTable(f, A, a, b) == f = [c \in Cells(a, b) |-> Laid(f, A, c)]

LEMMA MinOfThree ==
  ASSUME NEW x \in Nat, NEW y \in Nat, NEW z \in Nat
  PROVE  /\ Min({x, y, z}) \in Nat
         /\ Min({x, y, z}) <= x /\ Min({x, y, z}) <= y /\ Min({x, y, z}) <= z
         /\ \/ Min({x, y, z}) = x
            \/ Min({x, y, z}) = y
            \/ Min({x, y, z}) = z
<1> DEFINE S == {x, y, z}
<1>1. S \subseteq Nat /\ S # {}
  OBVIOUS
<1>2. Min(S) \in S /\ \A v \in S : Min(S) <= v
  BY <1>1, MinIn
<1>3. QED
  BY <1>2

LEMMA CellBefore ==
  ASSUME NEW a \in Nat, NEW b \in Nat, NEW c \in Cells(a, b)
  PROVE  /\ c[1] \in 0 .. a /\ c[2] \in 0 .. b /\ c = << c[1], c[2] >>
         /\ c[1] \in Nat /\ c[2] \in Nat
         /\ c[1] + c[2] \in Nat /\ c[1] + c[2] \in 0 .. a + b
         /\ c[1] # 0 /\ c[2] # 0 =>
              /\ << c[1] - 1, c[2] >> \in Cells(a, b)
              /\ << c[1], c[2] - 1 >> \in Cells(a, b)
              /\ << c[1] - 1, c[2] - 1 >> \in Cells(a, b)
BY DEF Cells

LEMMA LaidType ==
  ASSUME NEW a \in Nat, NEW b \in Nat, NEW A, NEW f, NEW c \in Cells(a, b),
         \A d \in Cells(a, b) : d[1] + d[2] < c[1] + c[2] => f[d] \in Nat
  PROVE  Laid(f, A, c) \in Nat
<1>1. c[1] \in 0 .. a /\ c[2] \in 0 .. b
  BY CellBefore
<1>2. CASE c[1] = 0 \/ c[2] = 0
  BY <1>1, <1>2 DEF Laid
<1>3. CASE c[1] # 0 /\ c[2] # 0
  <2> DEFINE x == f[<< c[1] - 1, c[2] >>]
             y == f[<< c[1], c[2] - 1 >>]
             z == f[<< c[1] - 1, c[2] - 1 >>]
             w == z + (IF c \in A THEN 0 ELSE 1)
  <2>1. x \in Nat /\ y \in Nat /\ z \in Nat
    BY <1>1, <1>3, CellBefore
  <2>2. Laid(f, A, c) = Min({x + 1, y + 1, w})
    BY <1>3 DEF Laid
  <2> HIDE DEF x, y, z
  <2>3. x + 1 \in Nat /\ y + 1 \in Nat /\ w \in Nat
    BY <2>1
  <2> HIDE DEF w
  <2>4. Min({x + 1, y + 1, w}) \in Nat
    BY <2>3, MinOfThree
  <2>5. QED
    BY <2>2, <2>4
<1>4. QED
  BY <1>2, <1>3

LEMMA LaidBelow ==
  ASSUME NEW a \in Nat, NEW b \in Nat, NEW A, NEW f, NEW g, NEW c \in Cells(a, b),
         \A d \in Cells(a, b) : d[1] + d[2] < c[1] + c[2] => f[d] = g[d]
  PROVE  Laid(f, A, c) = Laid(g, A, c)
<1>1. c[1] \in 0 .. a /\ c[2] \in 0 .. b
  BY CellBefore
<1>2. CASE c[1] = 0 \/ c[2] = 0
  BY <1>2 DEF Laid
<1>3. CASE c[1] # 0 /\ c[2] # 0
  <2>1. /\ f[<< c[1] - 1, c[2] >>] = g[<< c[1] - 1, c[2] >>]
        /\ f[<< c[1], c[2] - 1 >>] = g[<< c[1], c[2] - 1 >>]
        /\ f[<< c[1] - 1, c[2] - 1 >>] = g[<< c[1] - 1, c[2] - 1 >>]
    BY <1>1, <1>3, CellBefore
  <2>2. QED
    BY <2>1 DEF Laid
<1>4. QED
  BY <1>2, <1>3

(* There is exactly such a table; it holds numbers, and to turn things     *)
(* into no more others costs at most what replacing them all would.        *)
LEMMA TableEquation ==
  ASSUME NEW a \in Nat, NEW b \in Nat, NEW A
  PROVE  LET T == CHOOSE f : IsTable(f, A, a, b)
         IN  \A c \in Cells(a, b) : /\ T[c] \in Nat /\ T[c] = Laid(T, A, c)
                                    /\ c[2] <= c[1] => T[c] <= c[1]
<1> DEFINE D == Cells(a, b)
           G == [f \in [D -> Nat] |-> [c \in D |-> Laid(f, A, c)]]
           rank == [c \in D |-> c[1] + c[2]]
           T == CHOOSE f : IsTable(f, A, a, b)
<1>1. a + b \in Nat /\ rank \in [D -> 0 .. a + b]
  <2>1. \A c \in D : c[1] + c[2] \in 0 .. a + b
    BY CellBefore
  <2> HIDE DEF D
  <2>2. QED
    BY <2>1
<1>2. ASSUME NEW f \in [D -> Nat], NEW c \in D
      PROVE  G[f][c] = Laid(f, A, c) /\ Laid(f, A, c) \in Nat
  <2>1. G[f][c] = Laid(f, A, c)
    OBVIOUS
  <2>2. Laid(f, A, c) \in Nat
    BY LaidType
  <2>3. QED
    BY <2>1, <2>2
<1>3. KeepsType(G, D, Nat)
  <2> HIDE DEF D, G
  <2>1. QED
    BY <1>2 DEF KeepsType
<1>4. LooksBelow(G, D, Nat, rank)
  <2>1. ASSUME NEW f \in [D -> Nat], NEW g \in [D -> Nat], NEW c \in D,
               \A d \in D : rank[d] < rank[c] => f[d] = g[d]
        PROVE  G[f][c] = G[g][c]
    <3>1. \A d \in D : d[1] + d[2] < c[1] + c[2] => f[d] = g[d]
      BY <2>1
    <3>2. Laid(f, A, c) = Laid(g, A, c)
      BY <3>1, LaidBelow
    <3>3. QED
      BY <1>2, <3>2
  <2> HIDE DEF D, G, rank
  <2>2. QED
    BY <2>1 DEF LooksBelow
<1>5. PICK f \in [D -> Nat] : Solution(f, G, D)
  <2> HIDE DEF D, G, rank
  <2>1. QED
    BY <1>1, <1>3, <1>4, Recursion
<1>6. IsTable(f, A, a, b)
  <2>1. \A c \in D : f[c] = Laid(f, A, c)
    <3> HIDE DEF D, G
    <3>1. QED
      BY <1>2, <1>5 DEF Solution
  <2> HIDE DEF G, rank
  <2>2. QED
    BY <2>1 DEF IsTable
<1>7. IsTable(T, A, a, b)
  BY <1>6
<1> HIDE DEF T, G, rank
<1>8. \A c \in D : T[c] = Laid(T, A, c)
  BY <1>7 DEF IsTable
<1> DEFINE Good == { n \in Nat : \A c \in D : c[1] + c[2] = n =>
                       T[c] \in Nat /\ (c[2] <= c[1] => T[c] <= c[1]) }
<1>9. ASSUME NEW n \in Nat, \A k \in 0 .. n - 1 : k \in Good PROVE n \in Good
  <2>1. ASSUME NEW c \in D, c[1] + c[2] = n
        PROVE  T[c] \in Nat /\ (c[2] <= c[1] => T[c] <= c[1])
    <3>1. c[1] \in Nat /\ c[2] \in Nat
      BY CellBefore
    <3>2. ASSUME NEW d \in D, d[1] + d[2] < c[1] + c[2]
          PROVE  T[d] \in Nat /\ (d[2] <= d[1] => T[d] <= d[1])
      <4> DEFINE k == d[1] + d[2]
      <4>a. k \in Nat /\ k < n
        BY <2>1, <3>2, CellBefore
      <4>1. k \in 0 .. n - 1
        <5> HIDE DEF k
        <5>1. QED
          BY <1>9, <4>a
      <4>2. d[1] + d[2] \in Good
        BY <1>9, <4>1
      <4>3. QED
        BY <4>2
    <3> HIDE DEF D
    <3>3. T[c] \in Nat
      <4>1. Laid(T, A, c) \in Nat
        BY <2>1, <3>2, LaidType DEF D
      <4>2. QED
        BY <1>8, <2>1, <4>1
    <3>4. ASSUME c[2] <= c[1] PROVE T[c] <= c[1]
      <4>1. CASE c[2] = 0
        <5>1. T[c] = c[1] + c[2]
          BY <1>8, <2>1, <4>1 DEF Laid
        <5>2. QED
          BY <3>1, <4>1, <5>1
      <4>2. CASE c[2] # 0
        <5> DEFINE x == T[<< c[1] - 1, c[2] >>]
                   y == T[<< c[1], c[2] - 1 >>]
                   z == T[<< c[1] - 1, c[2] - 1 >>]
                   w == z + (IF c \in A THEN 0 ELSE 1)
        <5>1. c[1] # 0
          BY <3>1, <3>4, <4>2
        <5> DEFINE d == << c[1] - 1, c[2] - 1 >>
        <5>2. /\ << c[1] - 1, c[2] >> \in D /\ << c[1], c[2] - 1 >> \in D
              /\ << c[1] - 1, c[2] - 1 >> \in D
          BY <2>1, <4>2, <5>1, CellBefore DEF D
        <5>3. x \in Nat /\ y \in Nat /\ z \in Nat
          BY <3>1, <3>2, <5>2
        <5>4. z <= c[1] - 1
          BY <3>1, <3>2, <3>4, <5>2
        <5>5. T[c] = Min({x + 1, y + 1, w})
          BY <1>8, <2>1, <4>2, <5>1 DEF Laid
        <5>6. x + 1 \in Nat /\ y + 1 \in Nat /\ w \in Nat /\ w <= z + 1
          <6> HIDE DEF x, y, z
          <6>1. QED
            BY <5>3
        <5> HIDE DEF x, y, z, w
        <5>7. T[c] <= w
          BY <5>5, <5>6, MinOfThree
        <5>8. QED
          BY <3>1, <3>3, <5>3, <5>4, <5>6, <5>7
      <4>3. QED
        BY <4>1, <4>2
    <3>5. QED
      BY <3>3, <3>4
  <2>2. QED
    BY <2>1
<1>10. \A n \in Nat : n \in Good
  <2> HIDE DEF Good
  <2>1. QED
    BY <1>9, StrongInduction
<1>11. ASSUME NEW c \in D PROVE T[c] \in Nat /\ (c[2] <= c[1] => T[c] <= c[1])
  <2>1. c[1] + c[2] \in Nat
    BY CellBefore
  <2>2. c[1] + c[2] \in Good
    BY <1>10, <2>1
  <2>3. QED
    BY <2>2
<1> HIDE DEF Good
<1>12. QED
  BY <1>8, <1>11 DEF T

-------------------------------------------------------------------------
(* What such a table computes.  A pairing lays i things beside j others:   *)
(* it gives each of the first a place among the others, or 0, and does not *)
(* cross itself.  It costs one for everything that is alone or beside      *)
(* something that does not agree with it.                                  *)

Crossless(i, j) ==
  { f \in [1 .. i -> 0 .. j] :
      \A k, l \in 1 .. i : k < l /\ f[k] # 0 /\ f[l] # 0 => f[k] < f[l] }

Beside(f, i) == { k \in 1 .. i : f[k] # 0 }

Unlike(A, f, i) == { k \in Beside(f, i) : << k, f[k] >> \notin A }

PairingCost(A, i, j, f) ==
  i + j - 2 * Cardinality(Beside(f, i)) + Cardinality(Unlike(A, f, i))

SameUpTo(f, g, n) == \A k \in 1 .. n : g[k] = f[k]

LEMMA BesideType ==
  ASSUME NEW i \in Nat, NEW f, NEW A
  PROVE  /\ IsFiniteSet(Beside(f, i)) /\ IsFiniteSet(Unlike(A, f, i))
         /\ Cardinality(Beside(f, i)) \in Nat /\ Cardinality(Unlike(A, f, i)) \in Nat
<1>1. IsFiniteSet(1 .. i)
  BY FS_Interval
<1>2. Beside(f, i) \subseteq 1 .. i /\ Unlike(A, f, i) \subseteq 1 .. i
  BY DEF Beside, Unlike
<1>3. QED
  BY <1>1, <1>2, FS_Subset, FS_CardinalityType

(* What the last thing adds to the cost of the others. *)
LEMMA PairingGrows ==
  ASSUME NEW A, NEW i \in Nat, i # 0, NEW j \in Nat, NEW f, NEW g,
         SameUpTo(f, g, i - 1)
  PROVE  /\ f[i] = 0 => PairingCost(A, i, j, f) = PairingCost(A, i - 1, j, g) + 1
         /\ f[i] # 0 /\ << i, f[i] >> \in A =>
              PairingCost(A, i, j, f) = PairingCost(A, i - 1, j - 1, g)
         /\ f[i] # 0 /\ << i, f[i] >> \notin A =>
              PairingCost(A, i, j, f) = PairingCost(A, i - 1, j - 1, g) + 1
<1> DEFINE B == Beside(g, i - 1)
           U == Unlike(A, g, i - 1)
<1>1. i - 1 \in Nat
  OBVIOUS
<1>2. /\ IsFiniteSet(B) /\ IsFiniteSet(U)
      /\ Cardinality(B) \in Nat /\ Cardinality(U) \in Nat
  BY <1>1, BesideType
<1>3. i \notin B /\ i \notin U
  BY DEF Beside, Unlike
<1>4. \A k \in 1 .. i : k # i => k \in 1 .. i - 1
  OBVIOUS
<1>5. \A k \in 1 .. i - 1 : k \in 1 .. i
  OBVIOUS
<1>6. i \in 1 .. i
  OBVIOUS
<1>7. f[i] = 0 => Beside(f, i) = B
  BY <1>4, <1>5 DEF Beside, SameUpTo
<1>8. f[i] # 0 => Beside(f, i) = B \cup {i}
  BY <1>4, <1>5, <1>6 DEF Beside, SameUpTo
<1>9. (f[i] = 0 \/ << i, f[i] >> \in A) => Unlike(A, f, i) = U
  BY <1>4, <1>5 DEF Beside, Unlike, SameUpTo
<1>10. f[i] # 0 /\ << i, f[i] >> \notin A => Unlike(A, f, i) = U \cup {i}
  BY <1>4, <1>5, <1>6 DEF Beside, Unlike, SameUpTo
<1>11. /\ Cardinality(B \cup {i}) = Cardinality(B) + 1
       /\ Cardinality(U \cup {i}) = Cardinality(U) + 1
  BY <1>2, <1>3, FS_AddElement
<1> DEFINE b == Cardinality(B)
           u == Cardinality(U)
<1>12. PairingCost(A, i - 1, j, g) = (i - 1) + j - 2 * b + u
  BY DEF PairingCost
<1>13. PairingCost(A, i - 1, j - 1, g) = (i - 1) + (j - 1) - 2 * b + u
  BY DEF PairingCost
<1>14. f[i] = 0 => PairingCost(A, i, j, f) = i + j - 2 * b + u
  BY <1>7, <1>9 DEF PairingCost
<1>15. f[i] # 0 /\ << i, f[i] >> \in A => PairingCost(A, i, j, f) = i + j - 2 * (b + 1) + u
  BY <1>8, <1>9, <1>11 DEF PairingCost
<1>16. f[i] # 0 /\ << i, f[i] >> \notin A =>
         PairingCost(A, i, j, f) = i + j - 2 * (b + 1) + (u + 1)
  BY <1>8, <1>10, <1>11 DEF PairingCost
<1>17. b \in Nat /\ u \in Nat
  BY <1>2
<1> HIDE DEF b, u
<1>18. QED
  BY <1>12, <1>13, <1>14, <1>15, <1>16, <1>17

(* Without its last thing, or without a place that it does not use, a      *)
(* pairing is one still.                                                   *)
LEMMA PairingShrinks ==
  ASSUME NEW i \in Nat, i # 0, NEW j \in Nat, NEW f \in Crossless(i, j)
  PROVE  LET g == [k \in 1 .. i - 1 |-> f[k]]
         IN  /\ g \in Crossless(i - 1, j)
             /\ f[i] # 0 /\ f[i] = j => g \in Crossless(i - 1, j - 1)
             /\ f[i] # 0 /\ f[i] # j => f \in Crossless(i, j - 1)
<1> DEFINE g == [k \in 1 .. i - 1 |-> f[k]]
<1>1. /\ f \in [1 .. i -> 0 .. j]
      /\ \A k, l \in 1 .. i : k < l /\ f[k] # 0 /\ f[l] # 0 => f[k] < f[l]
  BY DEF Crossless
<1>2. \A k \in 1 .. i - 1 : k \in 1 .. i /\ k < i
  OBVIOUS
<1>3. i \in 1 .. i /\ \A k \in 1 .. i : k = i \/ k < i
  OBVIOUS
<1>4. g \in Crossless(i - 1, j)
  BY <1>1, <1>2 DEF Crossless
<1>5. ASSUME f[i] # 0, f[i] = j PROVE g \in Crossless(i - 1, j - 1)
  <2>1. ASSUME NEW k \in 1 .. i - 1 PROVE f[k] \in 0 .. j - 1
    <3>1. f[k] \in 0 .. j /\ k < i /\ f[i] \in 0 .. j /\ k \in 1 .. i
      BY <1>1, <1>2, <1>3
    <3>2. f[k] # 0 => f[k] < f[i]
      BY <1>1, <1>3, <1>5, <3>1
    <3>3. QED
      BY <1>5, <3>1, <3>2
  <2>2. QED
    BY <1>1, <1>2, <2>1 DEF Crossless
<1>6. ASSUME f[i] # 0, f[i] # j PROVE f \in Crossless(i, j - 1)
  <2>1. ASSUME NEW k \in 1 .. i PROVE f[k] \in 0 .. j - 1
    <3>1. f[k] \in 0 .. j /\ f[i] \in 0 .. j
      BY <1>1, <1>3
    <3>2. k = i \/ (f[k] # 0 => f[k] < f[i])
      BY <1>1, <1>3, <1>6
    <3>3. QED
      BY <1>6, <3>1, <3>2
  <2>2. f \in [1 .. i -> 0 .. j - 1]
    BY <1>1, <2>1
  <2>3. QED
    BY <1>1, <2>2 DEF Crossless
<1>7. QED
  BY <1>4, <1>5, <1>6

(* The other way round. *)
LEMMA PairingExtended ==
  ASSUME NEW i \in Nat, i # 0, NEW j \in Nat, NEW n \in 0 .. j, NEW m \in 0 .. j,
         n < m \/ m = 0, NEW g \in Crossless(i - 1, n)
  PROVE  \E f \in Crossless(i, j) : f[i] = m /\ SameUpTo(f, g, i - 1)
<1> DEFINE f == [k \in 1 .. i |-> IF k = i THEN m ELSE g[k]]
<1>1. /\ g \in [1 .. i - 1 -> 0 .. n]
      /\ \A k, l \in 1 .. i - 1 : k < l /\ g[k] # 0 /\ g[l] # 0 => g[k] < g[l]
  BY DEF Crossless
<1>2. i \in 1 .. i /\ \A k \in 1 .. i : k = i \/ k \in 1 .. i - 1
  OBVIOUS
<1>3. ASSUME NEW k \in 1 .. i - 1
      PROVE  k \in 1 .. i /\ f[k] = g[k] /\ g[k] \in 0 .. n /\ f[k] \in 0 .. j
  <2>1. k \in 1 .. i /\ k # i /\ g[k] \in 0 .. n
    BY <1>1
  <2>2. f[k] = g[k]
    BY <2>1
  <2> HIDE DEF f
  <2>3. QED
    BY <2>1, <2>2
<1>4. f[i] = m
  BY <1>2
<1>5. ASSUME NEW k \in 1 .. i, NEW l \in 1 .. i, k < l, f[k] # 0, f[l] # 0
      PROVE  f[k] < f[l]
  <2>1. k \in 1 .. i - 1
    BY <1>5
  <2>2. CASE l = i
    <3>1. f[l] = m /\ f[k] \in 0 .. n
      BY <1>3, <1>4, <2>1, <2>2
    <3> HIDE DEF f
    <3>2. QED
      BY <1>5, <3>1
  <2>3. CASE l # i
    <3>1. l \in 1 .. i - 1
      BY <2>3
    <3>2. f[k] = g[k] /\ f[l] = g[l]
      BY <1>3, <2>1, <3>1
    <3> HIDE DEF f
    <3>3. QED
      BY <1>1, <1>5, <2>1, <3>1, <3>2
  <2>4. QED
    BY <2>2, <2>3
<1>6. f \in [1 .. i -> 0 .. j]
  <2>1. \A k \in 1 .. i : (IF k = i THEN m ELSE g[k]) \in 0 .. j
    BY <1>2, <1>3
  <2>2. QED
    BY <2>1
<1> HIDE DEF f
<1>7. f \in Crossless(i, j)
  BY <1>5, <1>6 DEF Crossless
<1>8. QED
  BY <1>3, <1>4, <1>7 DEF SameUpTo

(* More places cost one each. *)
LEMMA MorePlaces ==
  ASSUME NEW A, NEW i \in Nat, NEW j \in Nat, NEW f
  PROVE  PairingCost(A, i, j, f) = PairingCost(A, i, j - 1, f) + 1
<1>1. Cardinality(Beside(f, i)) \in Nat /\ Cardinality(Unlike(A, f, i)) \in Nat
  BY BesideType
<1>2. QED
  BY <1>1 DEF PairingCost

LEMMA AllAlone ==
  ASSUME NEW A, NEW i \in Nat, NEW j \in Nat, NEW f, \A k \in 1 .. i : f[k] = 0
  PROVE  PairingCost(A, i, j, f) = i + j
<1>1. Beside(f, i) = {} /\ Unlike(A, f, i) = {}
  BY DEF Beside, Unlike
<1>2. Cardinality({}) = 0
  BY FS_EmptySet
<1>3. QED
  BY <1>1, <1>2 DEF PairingCost

LEMMA NoneBeside ==
  ASSUME NEW i \in Nat, NEW j \in Nat
  PROVE  [k \in 1 .. i |-> 0] \in Crossless(i, j)
BY DEF Crossless

IsFilled(T, A, a, b) == \A c \in Cells(a, b) : T[c] \in Nat /\ T[c] = Laid(T, A, c)

LeastAt(T, A, c) ==
  /\ \A f \in Crossless(c[1], c[2]) : T[c] <= PairingCost(A, c[1], c[2], f)
  /\ \E f \in Crossless(c[1], c[2]) : T[c] = PairingCost(A, c[1], c[2], f)

LeastBefore(T, A, a, b, c) ==
  \A d \in Cells(a, b) : d[1] + d[2] < c[1] + c[2] => LeastAt(T, A, d)

(* An entry of the table is no more than a pairing costs. *)
LEMMA TableBelow ==
  ASSUME NEW a \in Nat, NEW b \in Nat, NEW A, NEW T, IsFilled(T, A, a, b),
         NEW c \in Cells(a, b), c[1] # 0, c[2] # 0, LeastBefore(T, A, a, b, c),
         NEW f \in Crossless(c[1], c[2])
  PROVE  T[c] <= PairingCost(A, c[1], c[2], f)
<1>1. PICK i, j : i = c[1] /\ j = c[2]
  OBVIOUS
<1>2. i \in Nat /\ i # 0 /\ j \in Nat /\ j # 0 /\ c = << i, j >>
  BY <1>1, CellBefore
<1> DEFINE up    == << i - 1, j >>
           left  == << i, j - 1 >>
           slant == << i - 1, j - 1 >>
           g     == [k \in 1 .. i - 1 |-> f[k]]
           x == T[up]
           y == T[left]
           z == T[slant]
           w == z + (IF c \in A THEN 0 ELSE 1)
<1>3. up \in Cells(a, b) /\ left \in Cells(a, b) /\ slant \in Cells(a, b)
  BY <1>1, <1>2, CellBefore
<1>4. LeastAt(T, A, up) /\ LeastAt(T, A, left) /\ LeastAt(T, A, slant)
  <2>1. /\ up[1] + up[2] < c[1] + c[2] /\ left[1] + left[2] < c[1] + c[2]
        /\ slant[1] + slant[2] < c[1] + c[2]
    BY <1>1, <1>2
  <2> HIDE DEF up, left, slant
  <2>2. QED
    BY <1>3, <2>1 DEF LeastBefore
<1>5. x \in Nat /\ y \in Nat /\ z \in Nat /\ T[c] \in Nat
  BY <1>3 DEF IsFilled
<1>6. T[c] = Min({x + 1, y + 1, w})
  BY <1>1, <1>2 DEF Laid, IsFilled
<1>7. w \in Nat /\ x + 1 \in Nat /\ y + 1 \in Nat
  <2> HIDE DEF x, y, z
  <2>1. QED
    BY <1>5
<1>8. T[c] <= x + 1 /\ T[c] <= y + 1 /\ T[c] <= w
  <2> HIDE DEF x, y, w
  <2>1. QED
    BY <1>6, <1>7, MinOfThree
<1>9. f \in Crossless(i, j)
  BY <1>1
<1>10. /\ g \in Crossless(i - 1, j)
       /\ f[i] # 0 /\ f[i] = j => g \in Crossless(i - 1, j - 1)
       /\ f[i] # 0 /\ f[i] # j => f \in Crossless(i, j - 1)
  BY <1>2, <1>9, PairingShrinks
<1>11. /\ f[i] = 0 => PairingCost(A, i, j, f) = PairingCost(A, i - 1, j, g) + 1
       /\ f[i] # 0 /\ << i, f[i] >> \in A =>
             PairingCost(A, i, j, f) = PairingCost(A, i - 1, j - 1, g)
       /\ f[i] # 0 /\ << i, f[i] >> \notin A =>
             PairingCost(A, i, j, f) = PairingCost(A, i - 1, j - 1, g) + 1
  <2>1. SameUpTo(f, g, i - 1)
    BY DEF SameUpTo
  <2> HIDE DEF g
  <2>2. QED
    BY <1>2, <2>1, PairingGrows
<1>12. /\ \A h \in Crossless(i - 1, j) : x <= PairingCost(A, i - 1, j, h)
       /\ \A h \in Crossless(i, j - 1) : y <= PairingCost(A, i, j - 1, h)
       /\ \A h \in Crossless(i - 1, j - 1) : z <= PairingCost(A, i - 1, j - 1, h)
  BY <1>4 DEF LeastAt
<1>13. PairingCost(A, i, j, f) = PairingCost(A, i, j - 1, f) + 1
  BY <1>2, MorePlaces
<1> HIDE DEF x, y, z, g, up, left, slant
<1>14. \A k \in Nat, l \in Nat : \A h : PairingCost(A, k, l, h) \in Int
  BY BesideType DEF PairingCost
<1>15. CASE f[i] = 0
  <2>1. x <= PairingCost(A, i - 1, j, g)
    BY <1>10, <1>12
  <2>2. PairingCost(A, i - 1, j, g) \in Int 
    BY <1>2, <1>14
  <2>3. QED
    BY <1>1, <1>5, <1>8, <1>11, <1>15, <2>1, <2>2
<1>16. CASE f[i] # 0 /\ f[i] = j
  <2>1. z <= PairingCost(A, i - 1, j - 1, g)
    BY <1>10, <1>12, <1>16
  <2>2. PairingCost(A, i - 1, j - 1, g) \in Int 
    BY <1>2, <1>14
  <2>3. << i, f[i] >> = c
    BY <1>2, <1>16
  <2>4. QED
    BY <1>1, <1>5, <1>8, <1>11, <1>16, <2>1, <2>2, <2>3
<1>17. CASE f[i] # 0 /\ f[i] # j
  <2>1. y <= PairingCost(A, i, j - 1, f)
    BY <1>10, <1>12, <1>17
  <2>2. PairingCost(A, i, j - 1, f) \in Int 
    BY <1>2, <1>14
  <2>3. QED
    BY <1>1, <1>5, <1>8, <1>13, <2>1, <2>2
<1>18. QED
  BY <1>15, <1>16, <1>17

(* And some pairing costs no more. *)
LEMMA TableReached ==
  ASSUME NEW a \in Nat, NEW b \in Nat, NEW A, NEW T, IsFilled(T, A, a, b),
         NEW c \in Cells(a, b), c[1] # 0, c[2] # 0, LeastBefore(T, A, a, b, c)
  PROVE  \E f \in Crossless(c[1], c[2]) : T[c] = PairingCost(A, c[1], c[2], f)
<1>1. PICK i, j : i = c[1] /\ j = c[2]
  OBVIOUS
<1>2. i \in Nat /\ i # 0 /\ j \in Nat /\ j # 0 /\ c = << i, j >>
  BY <1>1, CellBefore
<1> DEFINE up    == << i - 1, j >>
           left  == << i, j - 1 >>
           slant == << i - 1, j - 1 >>
           x == T[up]
           y == T[left]
           z == T[slant]
           w == z + (IF c \in A THEN 0 ELSE 1)
<1>3. up \in Cells(a, b) /\ left \in Cells(a, b) /\ slant \in Cells(a, b)
  BY <1>1, <1>2, CellBefore
<1>4. LeastAt(T, A, up) /\ LeastAt(T, A, left) /\ LeastAt(T, A, slant)
  <2>1. /\ up[1] + up[2] < c[1] + c[2] /\ left[1] + left[2] < c[1] + c[2]
        /\ slant[1] + slant[2] < c[1] + c[2]
    BY <1>1, <1>2
  <2> HIDE DEF up, left, slant
  <2>2. QED
    BY <1>3, <2>1 DEF LeastBefore
<1>5. x \in Nat /\ y \in Nat /\ z \in Nat /\ T[c] \in Nat
  BY <1>3 DEF IsFilled
<1>6. T[c] = Min({x + 1, y + 1, w})
  BY <1>1, <1>2 DEF Laid, IsFilled
<1>7. w \in Nat /\ x + 1 \in Nat /\ y + 1 \in Nat
  <2> HIDE DEF x, y, z
  <2>1. QED
    BY <1>5
<1>8. T[c] = x + 1 \/ T[c] = y + 1 \/ T[c] = w
  <2> HIDE DEF x, y, w
  <2>1. QED
    BY <1>6, <1>7, MinOfThree
<1>9. /\ \E h \in Crossless(i - 1, j) : x = PairingCost(A, i - 1, j, h)
      /\ \E h \in Crossless(i, j - 1) : y = PairingCost(A, i, j - 1, h)
      /\ \E h \in Crossless(i - 1, j - 1) : z = PairingCost(A, i - 1, j - 1, h)
  BY <1>4 DEF LeastAt
<1> SUFFICES \E f \in Crossless(i, j) : T[c] = PairingCost(A, i, j, f)
  BY <1>1
<1> HIDE DEF x, y, z, up, left, slant
<1>10. CASE T[c] = x + 1
  <2>1. PICK g \in Crossless(i - 1, j) : x = PairingCost(A, i - 1, j, g)
    BY <1>9
  <2>2. PICK f : f \in Crossless(i, j) /\ f[i] = 0 /\ SameUpTo(f, g, i - 1)
    <3>1. j \in 0 .. j /\ 0 \in 0 .. j
      BY <1>2
    <3>2. QED
      BY <1>2, <3>1, PairingExtended
  <2>3. PairingCost(A, i, j, f) = PairingCost(A, i - 1, j, g) + 1
    <3>1. SameUpTo(f, g, i - 1)
      BY <2>2
    <3>2. /\ f[i] = 0 => PairingCost(A, i, j, f) = PairingCost(A, i - 1, j, g) + 1
          /\ f[i] # 0 /\ << i, f[i] >> \in A =>
                PairingCost(A, i, j, f) = PairingCost(A, i - 1, j - 1, g)
          /\ f[i] # 0 /\ << i, f[i] >> \notin A =>
                PairingCost(A, i, j, f) = PairingCost(A, i - 1, j - 1, g) + 1
      BY <1>2, <3>1, PairingGrows
    <3>3. QED
      BY <2>2, <3>2
  <2>4. QED
    BY <1>10, <2>1, <2>2, <2>3
<1>11. CASE T[c] = y + 1
  <2>1. PICK f \in Crossless(i, j - 1) : y = PairingCost(A, i, j - 1, f)
    BY <1>9
  <2>2. f \in Crossless(i, j)
    <3>1. 0 .. j - 1 \subseteq 0 .. j
      BY <1>2
    <3>2. QED
      BY <3>1 DEF Crossless
  <2>3. PairingCost(A, i, j, f) = PairingCost(A, i, j - 1, f) + 1
    BY <1>2, MorePlaces
  <2>4. QED
    BY <1>11, <2>1, <2>2, <2>3
<1>12. CASE T[c] = w
  <2>1. PICK g \in Crossless(i - 1, j - 1) : z = PairingCost(A, i - 1, j - 1, g)
    BY <1>9
  <2>2. PICK f : f \in Crossless(i, j) /\ f[i] = j /\ SameUpTo(f, g, i - 1)
    <3>1. j - 1 \in 0 .. j /\ j \in 0 .. j /\ j - 1 < j
      BY <1>2
    <3>2. QED
      BY <1>2, <2>1, <3>1, PairingExtended
  <2>3. /\ << i, f[i] >> \in A => PairingCost(A, i, j, f) = PairingCost(A, i - 1, j - 1, g)
        /\ << i, f[i] >> \notin A =>
              PairingCost(A, i, j, f) = PairingCost(A, i - 1, j - 1, g) + 1
    BY <1>2, <2>2, PairingGrows
  <2>4. << i, f[i] >> = c
    BY <1>2, <2>2
  <2>5. T[c] = PairingCost(A, i, j, f)
    BY <1>5, <1>12, <2>1, <2>3, <2>4
  <2>6. QED
    BY <2>2, <2>5
<1>13. QED
  BY <1>8, <1>10, <1>11, <1>12

LEMMA TableIsLeast ==
  ASSUME NEW a \in Nat, NEW b \in Nat, NEW A, NEW T, IsFilled(T, A, a, b)
  PROVE  \A c \in Cells(a, b) : LeastAt(T, A, c)
<1> DEFINE Good == { n \in Nat : \A c \in Cells(a, b) : c[1] + c[2] = n => LeastAt(T, A, c) }
<1>1. ASSUME NEW n \in Nat, \A k \in 0 .. n - 1 : k \in Good PROVE n \in Good
  <2>1. ASSUME NEW c \in Cells(a, b), c[1] + c[2] = n PROVE LeastAt(T, A, c)
    <3>1. ASSUME NEW d \in Cells(a, b), d[1] + d[2] < c[1] + c[2] PROVE LeastAt(T, A, d)
      <4> DEFINE k == d[1] + d[2]
      <4>1. k \in Nat /\ k < n
        BY <2>1, <3>1, CellBefore
      <4>2. k \in 0 .. n - 1
        <5> HIDE DEF k
        <5>1. QED
          BY <1>1, <4>1
      <4>3. k \in Good
        BY <1>1, <4>2
      <4>4. QED
        BY <4>3
    <3> HIDE DEF Good
    <3>2. CASE c[1] # 0 /\ c[2] # 0
      <4>0. LeastBefore(T, A, a, b, c)
        BY <3>1 DEF LeastBefore
      <4>1. \A f \in Crossless(c[1], c[2]) : T[c] <= PairingCost(A, c[1], c[2], f)
        BY <4>0, <3>2, TableBelow
      <4>2. \E f \in Crossless(c[1], c[2]) : T[c] = PairingCost(A, c[1], c[2], f)
        BY <4>0, <3>2, TableReached
      <4>3. QED
        BY <4>1, <4>2 DEF LeastAt
    <3>3. CASE c[1] = 0 \/ c[2] = 0
      <4>1. PICK i, j : i = c[1] /\ j = c[2]
        OBVIOUS
      <4>2. i \in Nat /\ j \in Nat
        BY <4>1, CellBefore
      <4>3. T[c] = i + j
        BY <3>3, <4>1 DEF Laid, IsFilled
      <4>4. ASSUME NEW f \in Crossless(i, j) PROVE PairingCost(A, i, j, f) = i + j
        <5>1. f \in [1 .. i -> 0 .. j]
          BY DEF Crossless
        <5>2. \A k \in 1 .. i : f[k] = 0
          BY <3>3, <4>1, <4>2, <5>1
        <5>3. QED
          BY <4>2, <5>2, AllAlone
      <4>5. Crossless(i, j) # {}
        BY <4>2, NoneBeside
      <4>6. T[c] \in Nat
        BY DEF IsFilled
      <4>7. QED
        BY <4>1, <4>3, <4>4, <4>5, <4>6 DEF LeastAt
    <3>4. QED
      BY <3>2, <3>3
  <2>2. QED
    BY <2>1
<1>2. \A n \in Nat : n \in Good
  <2> HIDE DEF Good
  <2>1. QED
    BY <1>1, StrongInduction
<1>3. ASSUME NEW c \in Cells(a, b) PROVE LeastAt(T, A, c)
  <2>1. c[1] + c[2] \in Nat
    BY CellBefore
  <2>2. c[1] + c[2] \in Good
    BY <1>2, <2>1
  <2>3. QED
    BY <2>2
<1>4. QED
  BY <1>3

LEMMA TableFilled ==
  ASSUME NEW a \in Nat, NEW b \in Nat, NEW A
  PROVE  IsFilled(CHOOSE f : IsTable(f, A, a, b), A, a, b)
<1> DEFINE T == CHOOSE f : IsTable(f, A, a, b)
<1>1. \A c \in Cells(a, b) : T[c] \in Nat /\ T[c] = Laid(T, A, c)
  BY TableEquation
<1> HIDE DEF T
<1>2. IsFilled(T, A, a, b)
  BY <1>1 DEF IsFilled
<1>3. QED
  BY <1>2 DEF T

-------------------------------------------------------------------------
(* The least cost of a pairing. *)

LeastCost(A, i, j) == Min({ PairingCost(A, i, j, f) : f \in Crossless(i, j) })

LEMMA LeastCostFacts ==
  ASSUME NEW A, NEW i \in Nat, NEW j \in Nat
  PROVE  /\ LeastCost(A, i, j) \in Nat
         /\ \A f \in Crossless(i, j) : LeastCost(A, i, j) <= PairingCost(A, i, j, f)
         /\ \E f \in Crossless(i, j) : LeastCost(A, i, j) = PairingCost(A, i, j, f)
<1>1. PICK T : IsFilled(T, A, i, j)
  BY TableFilled
<1>2. \A c \in Cells(i, j) : T[c] \in Nat
  BY <1>1 DEF IsFilled
<1>3. \A c \in Cells(i, j) : LeastAt(T, A, c)
  BY <1>1, TableIsLeast
<1>4. PICK c : c = << i, j >> /\ c \in Cells(i, j) /\ c[1] = i /\ c[2] = j
  <2>1. << i, j >> \in Cells(i, j)
    BY DEF Cells
  <2>2. QED
    BY <2>1
<1> DEFINE S == { PairingCost(A, i, j, f) : f \in Crossless(i, j) }
           m == T[c]
<1>5. m \in Nat
  BY <1>2, <1>4
<1>6. /\ \A f \in Crossless(i, j) : m <= PairingCost(A, i, j, f)
      /\ \E f \in Crossless(i, j) : m = PairingCost(A, i, j, f)
  BY <1>3, <1>4 DEF LeastAt
<1>7. \A f : PairingCost(A, i, j, f) \in Int
  BY BesideType DEF PairingCost
<1> HIDE DEF m
<1>8. m \in S /\ \A x \in S : m <= x /\ x \in Int
  BY <1>6, <1>7
<1> HIDE DEF S
<1>9. Min(S) \in S /\ \A x \in S : Min(S) <= x
  BY <1>8 DEF Min
<1>10. Min(S) = m
  <2>1. Min(S) <= m /\ m <= Min(S) /\ Min(S) \in Int
    BY <1>8, <1>9
  <2>2. QED
    BY <1>5, <2>1
<1>11. LeastCost(A, i, j) = m
  BY <1>10 DEF LeastCost, S
<1>12. QED
  BY <1>5, <1>6, <1>11

LEMMA TableIsLeastCost ==
  ASSUME NEW a \in Nat, NEW b \in Nat, NEW A, NEW T, IsFilled(T, A, a, b)
  PROVE  \A c \in Cells(a, b) : T[c] = LeastCost(A, c[1], c[2])
<1>1. ASSUME NEW c \in Cells(a, b) PROVE T[c] = LeastCost(A, c[1], c[2])
  <2>1. PICK i, j : i = c[1] /\ j = c[2]
    OBVIOUS
  <2>2. i \in Nat /\ j \in Nat
    BY <2>1, CellBefore
  <2>3. LeastAt(T, A, c) /\ T[c] \in Nat
    BY TableIsLeast DEF IsFilled
  <2>4. /\ \A f \in Crossless(i, j) : T[c] <= PairingCost(A, i, j, f)
        /\ \E f \in Crossless(i, j) : T[c] = PairingCost(A, i, j, f)
    BY <2>1, <2>3 DEF LeastAt
  <2>5. /\ LeastCost(A, i, j) \in Nat
        /\ \A f \in Crossless(i, j) : LeastCost(A, i, j) <= PairingCost(A, i, j, f)
        /\ \E f \in Crossless(i, j) : LeastCost(A, i, j) = PairingCost(A, i, j, f)
    BY <2>2, LeastCostFacts
  <2>6. T[c] <= LeastCost(A, i, j)
    BY <2>4, <2>5
  <2>7. LeastCost(A, i, j) <= T[c]
    BY <2>4, <2>5
  <2>8. QED
    BY <2>1, <2>3, <2>5, <2>6, <2>7
<1>2. QED
  BY <1>1

(* Where more agrees, nothing costs more. *)
AgreesMore(A, B, i, j) == \A k \in 1 .. i, l \in 1 .. j : << k, l >> \in A => << k, l >> \in B

LEMMA MoreAgreement ==
  ASSUME NEW A, NEW B, NEW i \in Nat, NEW j \in Nat, AgreesMore(A, B, i, j)
  PROVE  /\ \A f \in Crossless(i, j) : PairingCost(B, i, j, f) <= PairingCost(A, i, j, f)
         /\ LeastCost(B, i, j) <= LeastCost(A, i, j)
<1>1. ASSUME NEW f \in Crossless(i, j)
      PROVE  PairingCost(B, i, j, f) <= PairingCost(A, i, j, f)
  <2>1. f \in [1 .. i -> 0 .. j]
    BY DEF Crossless
  <2>2. \A k \in Beside(f, i) : k \in 1 .. i /\ f[k] \in 1 .. j
    BY <2>1 DEF Beside
  <2>3. Unlike(B, f, i) \subseteq Unlike(A, f, i)
    BY <2>2 DEF Unlike, AgreesMore
  <2>4. IsFiniteSet(Unlike(A, f, i)) /\ Cardinality(Unlike(A, f, i)) \in Nat
        /\ Cardinality(Unlike(B, f, i)) \in Nat /\ Cardinality(Beside(f, i)) \in Nat
    BY BesideType
  <2>5. Cardinality(Unlike(B, f, i)) <= Cardinality(Unlike(A, f, i))
    BY <2>3, <2>4, FS_Subset
  <2>6. QED
    BY <2>4, <2>5 DEF PairingCost
<1>2. LeastCost(B, i, j) <= LeastCost(A, i, j)
  <2>1. PICK f \in Crossless(i, j) : LeastCost(A, i, j) = PairingCost(A, i, j, f)
    BY LeastCostFacts
  <2>2. LeastCost(B, i, j) <= PairingCost(B, i, j, f)
    BY LeastCostFacts
  <2>3. PairingCost(B, i, j, f) <= PairingCost(A, i, j, f)
    BY <1>1
  <2>4. LeastCost(A, i, j) \in Nat /\ LeastCost(B, i, j) \in Nat
    BY LeastCostFacts
  <2>5. PairingCost(B, i, j, f) \in Int
    BY BesideType DEF PairingCost
  <2>6. QED
    BY <2>1, <2>2, <2>3, <2>4, <2>5
<1>3. QED
  BY <1>1, <1>2

LEMMA SameAgreement ==
  ASSUME NEW A, NEW B, NEW i \in Nat, NEW j \in Nat,
         AgreesMore(A, B, i, j), AgreesMore(B, A, i, j)
  PROVE  LeastCost(A, i, j) = LeastCost(B, i, j)
<1>1. LeastCost(B, i, j) <= LeastCost(A, i, j) /\ LeastCost(A, i, j) <= LeastCost(B, i, j)
  BY MoreAgreement
<1>2. LeastCost(A, i, j) \in Nat /\ LeastCost(B, i, j) \in Nat
  BY LeastCostFacts
<1>3. QED
  BY <1>1, <1>2

(* To turn the one into the other costs as much as the other way round. *)
MirrorIs(A, B, i, j) == \A k \in 1 .. i, l \in 1 .. j : << k, l >> \in A <=> << l, k >> \in B

LEMMA LeastCostMirrored ==
  ASSUME NEW A, NEW B, NEW i \in Nat, NEW j \in Nat, MirrorIs(A, B, i, j)
  PROVE  LeastCost(A, i, j) = LeastCost(B, j, i)
<1> DEFINE T == CHOOSE f : IsTable(f, A, i, j)
           S == [c \in Cells(j, i) |-> T[<< c[2], c[1] >>]]
<1>1. IsFilled(T, A, i, j)
  BY TableFilled
<1> HIDE DEF T
<1>2. ASSUME NEW c \in Cells(j, i) PROVE S[c] \in Nat /\ S[c] = Laid(S, B, c)
  <2>1. PICK k, l : /\ k = c[1] /\ l = c[2] /\ c = << k, l >> /\ k \in 0 .. j /\ l \in 0 .. i
                    /\ k \in Nat /\ l \in Nat
    BY CellBefore
  <2>2. \A x \in 0 .. j, y \in 0 .. i : S[<< x, y >>] = T[<< y, x >>]
    BY DEF Cells
  <2>3. << l, k >> \in Cells(i, j)
    BY <2>1 DEF Cells
  <2>4. T[<< l, k >>] \in Nat /\ T[<< l, k >>] = Laid(T, A, << l, k >>)
    BY <1>1, <2>3 DEF IsFilled
  <2>5. S[c] = T[<< l, k >>]
    BY <2>1, <2>2
  <2>6. CASE k = 0 \/ l = 0
    <3>1. Laid(T, A, << l, k >>) = l + k /\ Laid(S, B, << k, l >>) = k + l
      BY <2>6 DEF Laid
    <3>2. QED
      BY <2>1, <2>4, <2>5, <3>1
  <2>7. CASE k # 0 /\ l # 0
    <3>1. k - 1 \in 0 .. j /\ l - 1 \in 0 .. i /\ k \in 1 .. j /\ l \in 1 .. i
      BY <2>1, <2>7
    <3>2. << l, k >> \in A <=> << k, l >> \in B
      BY <3>1 DEF MirrorIs
    <3>3. /\ S[<< k - 1, l >>] = T[<< l, k - 1 >>] /\ S[<< k, l - 1 >>] = T[<< l - 1, k >>]
          /\ S[<< k - 1, l - 1 >>] = T[<< l - 1, k - 1 >>]
      BY <2>1, <2>2, <3>1
    <3> HIDE DEF S
    <3>4. Laid(T, A, << l, k >>)
            = Min({ T[<< l - 1, k >>] + 1, T[<< l, k - 1 >>] + 1,
                    T[<< l - 1, k - 1 >>] + (IF << l, k >> \in A THEN 0 ELSE 1) })
      BY <2>7 DEF Laid
    <3>5. Laid(S, B, << k, l >>)
            = Min({ S[<< k - 1, l >>] + 1, S[<< k, l - 1 >>] + 1,
                    S[<< k - 1, l - 1 >>] + (IF << k, l >> \in B THEN 0 ELSE 1) })
      BY <2>7 DEF Laid
    <3>6. \A x, y, z : {x, y, z} = {y, x, z}
      OBVIOUS
    <3>7. Laid(T, A, << l, k >>) = Laid(S, B, << k, l >>)
      BY <3>2, <3>3, <3>4, <3>5, <3>6
    <3>8. QED
      BY <2>1, <2>4, <2>5, <3>7
  <2>8. QED
    BY <2>6, <2>7
<1>3. IsFilled(S, B, j, i)
  <2> HIDE DEF S
  <2>1. QED
    BY <1>2 DEF IsFilled
<1>4. << i, j >> \in Cells(i, j) /\ << j, i >> \in Cells(j, i)
  BY DEF Cells
<1>5. S[<< j, i >>] = T[<< i, j >>]
  BY <1>4
<1> HIDE DEF S
<1>6. T[<< i, j >>] = LeastCost(A, i, j)
  BY <1>1, <1>4, TableIsLeastCost
<1>7. S[<< j, i >>] = LeastCost(B, j, i)
  BY <1>3, <1>4, TableIsLeastCost
<1>8. QED
  BY <1>5, <1>6, <1>7

-------------------------------------------------------------------------
(* Those of the values val[1], val[2], ... whose positions are in T, in    *)
(* their order.                                                            *)

Gathered(f, T, val, k) ==
  IF k = 0 THEN << >>
  ELSE IF k \in T THEN Append(f[k - 1], val[k])
  ELSE f[k - 1]

IsGathering(f, T, val, n) == f = [k \in 0 .. n |-> Gathered(f, T, val, k)]

LEMMA GatheringExists ==
  ASSUME NEW n \in Nat, NEW T, NEW V, NEW val, \A k \in 1 .. n : val[k] \in V
  PROVE  IsGathering(CHOOSE h : IsGathering(h, T, val, n), T, val, n)
<1> DEFINE D == 0 .. n
           W == Seq(V)
           G == [f \in [D -> W] |-> [k \in D |-> Gathered(f, T, val, k)]]
           rank == [k \in D |-> k]
<1>1. ASSUME NEW f \in [D -> W], NEW k \in D
      PROVE  G[f][k] = Gathered(f, T, val, k) /\ G[f][k] \in W
  <2>1. G[f][k] = Gathered(f, T, val, k)
    OBVIOUS
  <2>2. CASE k = 0
    BY <2>1, <2>2 DEF Gathered
  <2>3. CASE k # 0
    <3>1. f[k - 1] \in W /\ val[k] \in V
      BY <2>3
    <3>2. Append(f[k - 1], val[k]) \in W
      BY <3>1
    <3>3. QED
      BY <2>1, <2>3, <3>1, <3>2 DEF Gathered
  <2>4. QED
    BY <2>2, <2>3
<1>2. KeepsType(G, D, W)
  <2> HIDE DEF D, W, G
  <2>1. QED
    BY <1>1 DEF KeepsType
<1>3. LooksBelow(G, D, W, rank)
  <2>1. ASSUME NEW f \in [D -> W], NEW g \in [D -> W], NEW k \in D,
               \A d \in D : rank[d] < rank[k] => f[d] = g[d]
        PROVE  G[f][k] = G[g][k]
    <3>1. k # 0 => f[k - 1] = g[k - 1]
      BY <2>1
    <3>2. Gathered(f, T, val, k) = Gathered(g, T, val, k)
      BY <3>1 DEF Gathered
    <3>3. QED
      BY <1>1, <3>2
  <2> HIDE DEF D, W, G, rank
  <2>2. QED
    BY <2>1 DEF LooksBelow
<1>4. PICK f \in [D -> W] : Solution(f, G, D)
  <2>1. rank \in [D -> 0 .. n] /\ W # {}
    <3>1. << >> \in W
      OBVIOUS
    <3>2. QED
      BY <3>1
  <2> HIDE DEF D, W, G, rank
  <2>2. QED
    BY <1>2, <1>3, <2>1, Recursion
<1>5. IsGathering(f, T, val, n)
  <2>1. \A k \in D : f[k] = Gathered(f, T, val, k)
    <3> HIDE DEF D, W, G
    <3>1. QED
      BY <1>1, <1>4 DEF Solution
  <2> HIDE DEF G, rank, W
  <2>2. QED
    BY <2>1 DEF IsGathering
<1>6. QED
  BY <1>5

(* What is gathered of val[1] to val[k] is what is meant, and nothing else.*)
Gathers(s, T, val, k) ==
  /\ \A x \in DOMAIN s : \E j \in 1 .. k : j \in T /\ s[x] = val[j]
  /\ \A j \in 1 .. k : j \in T => \E x \in DOMAIN s : s[x] = val[j]

LEMMA GatheringEquation ==
  ASSUME NEW n \in Nat, NEW T, NEW V, NEW val, \A k \in 1 .. n : val[k] \in V,
         NEW F, IsGathering(F, T, val, n)
  PROVE  \A k \in 0 .. n :
           F[k] \in Seq(V) /\ F[k] = Gathered(F, T, val, k) /\ Gathers(F[k], T, val, k)
<1> DEFINE D == 0 .. n
           W == Seq(V)
<1>7. \A k \in D : F[k] = Gathered(F, T, val, k)
  BY DEF IsGathering
<1> DEFINE Right(k) ==
             /\ F[k] \in W
             /\ \A x \in DOMAIN F[k] : \E j \in 1 .. k : j \in T /\ F[k][x] = val[j]
             /\ \A j \in 1 .. k : j \in T => \E x \in DOMAIN F[k] : F[k][x] = val[j]
           Good == { k \in Nat : k \in D => Right(k) }
<1>8. 0 \in Good
  <2>1. F[0] = << >>
    BY <1>7 DEF Gathered
  <2>2. << >> \in W /\ DOMAIN << >> = {} /\ \A j \in 1 .. 0 : FALSE
    OBVIOUS
  <2>3. Right(0)
    BY <2>1, <2>2
  <2>4. QED
    BY <2>3
<1>9. ASSUME NEW m \in Nat, m \in Good PROVE m + 1 \in Good
  <2>1. SUFFICES ASSUME m + 1 \in D PROVE Right(m + 1)
    OBVIOUS
  <2>2. Right(m)
    BY <1>9, <2>1
  <2>3. val[m + 1] \in V
    BY <2>1
  <2>4. F[m + 1] = IF m + 1 \in T THEN Append(F[m], val[m + 1]) ELSE F[m]
    BY <1>7, <2>1 DEF Gathered
  <2>5. CASE m + 1 \notin T
    <3>1. \A j \in 1 .. m + 1 : j \in T => j \in 1 .. m
      BY <2>5
    <3>2. \A j \in 1 .. m : j \in 1 .. m + 1
      OBVIOUS
    <3>3. F[m + 1] = F[m]
      BY <2>4, <2>5
    <3>4. QED
      BY <2>2, <3>1, <3>2, <3>3
  <2>6. CASE m + 1 \in T
    <3> DEFINE q == F[m]
               v == val[m + 1]
    <3>1. F[m + 1] = Append(q, v)
      BY <2>4, <2>6
    <3>2. q \in Seq(V) /\ v \in V
      BY <2>2, <2>3
    <3> HIDE DEF q, v
    <3>3. /\ Append(q, v) \in Seq(V) /\ DOMAIN Append(q, v) = 1 .. Len(q) + 1
          /\ DOMAIN q = 1 .. Len(q) /\ Len(q) \in Nat
          /\ Append(q, v)[Len(q) + 1] = v
          /\ \A x \in DOMAIN q : Append(q, v)[x] = q[x]
      BY <3>2
    <3>4. ASSUME NEW x \in DOMAIN F[m + 1]
          PROVE  \E j \in 1 .. m + 1 : j \in T /\ F[m + 1][x] = val[j]
      <4>1. CASE x \in DOMAIN q
        <5>1. PICK j \in 1 .. m : j \in T /\ q[x] = val[j]
          BY <2>2, <4>1 DEF q
        <5>2. F[m + 1][x] = val[j] /\ j \in 1 .. m + 1
          BY <3>1, <3>3, <4>1, <5>1
        <5>3. QED
          BY <5>1, <5>2
      <4>2. CASE x = Len(q) + 1
        <5>1. F[m + 1][x] = val[m + 1]
          BY <3>1, <3>3, <4>2 DEF v
        <5>2. m + 1 \in 1 .. m + 1
          OBVIOUS
        <5>3. QED
          BY <2>6, <5>1, <5>2
      <4>3. x \in 1 .. Len(q) + 1
        BY <3>1, <3>3
      <4>4. x \in DOMAIN q \/ x = Len(q) + 1
        BY <3>3, <4>3
      <4>5. QED
        BY <4>1, <4>2, <4>4
    <3>5. ASSUME NEW j \in 1 .. m + 1, j \in T
          PROVE  \E x \in DOMAIN F[m + 1] : F[m + 1][x] = val[j]
      <4>1. CASE j = m + 1
        <5>1. Len(q) + 1 \in DOMAIN F[m + 1] /\ F[m + 1][Len(q) + 1] = val[j]
          BY <3>1, <3>3, <4>1 DEF v
        <5>2. QED
          BY <5>1
      <4>2. CASE j # m + 1
        <5>1. j \in 1 .. m
          BY <4>2
        <5>2. PICK x \in DOMAIN q : q[x] = val[j]
          BY <2>2, <3>5, <5>1 DEF q
        <5>3. x \in DOMAIN F[m + 1] /\ F[m + 1][x] = val[j]
          BY <3>1, <3>3, <5>2
        <5>4. QED
          BY <5>3
      <4>3. QED
        BY <4>1, <4>2
    <3>6. F[m + 1] \in W
      BY <3>1, <3>3
    <3>7. QED
      BY <3>4, <3>5, <3>6
  <2>7. QED
    BY <2>5, <2>6
<1>10. \A k \in Nat : k \in Good
  <2> HIDE DEF Good
  <2>1. QED
    BY <1>8, <1>9, Induction
<1> HIDE DEF W
<1>11. ASSUME NEW k \in D PROVE Right(k)
  <2>1. k \in Nat
    OBVIOUS
  <2>2. k \in Good
    BY <1>10, <2>1
  <2>3. QED
    BY <2>2
<1>12. QED
  BY <1>7, <1>11 DEF W, Gathers

(* When the first m are all wanted, they are what is gathered from them.   *)
ValuesIn(val, n, V) == \A k \in 1 .. n : val[k] \in V

LEMMA GatherAll ==
  ASSUME NEW n \in Nat, NEW T, NEW V, NEW val, ValuesIn(val, n, V),
         NEW F, IsGathering(F, T, val, n),
         NEW m \in 0 .. n, 1 .. m \subseteq T
  PROVE  F[m] \in Seq(V) /\ Len(F[m]) = m /\ SameUpTo(val, F[m], m)
<1>1. \A k \in 0 .. n : F[k] \in Seq(V) /\ F[k] = Gathered(F, T, val, k)
  <2>1. \A k \in 0 .. n : F[k] \in Seq(V)
    BY GatheringEquation DEF ValuesIn
  <2>2. \A k \in 0 .. n : F[k] = Gathered(F, T, val, k)
    BY DEF IsGathering
  <2>3. QED
    BY <2>1, <2>2
<1> DEFINE Good == { k \in Nat : k <= m => F[k] = [x \in 1 .. k |-> val[x]] }
<1>2. 0 \in Good
  <2>1. F[0] = << >>
    BY <1>1 DEF Gathered
  <2>2. QED
    BY <2>1
<1>3. ASSUME NEW k \in Nat, k \in Good PROVE k + 1 \in Good
  <2>1. SUFFICES ASSUME k + 1 <= m PROVE F[k + 1] = [x \in 1 .. k + 1 |-> val[x]]
    OBVIOUS
  <2>2. F[k] = [x \in 1 .. k |-> val[x]]
    BY <1>3, <2>1
  <2>3. k + 1 \in 0 .. n /\ k \in 0 .. n /\ k + 1 \in T /\ k + 1 # 0
    BY <2>1
  <2>4. F[k + 1] = Append(F[k], val[k + 1])
    <3>1. F[k + 1] = Gathered(F, T, val, k + 1)
      BY <1>1, <2>3
    <3>2. (k + 1) - 1 = k
      OBVIOUS
    <3>3. QED
      BY <2>3, <3>1, <3>2 DEF Gathered
  <2>5. F[k] \in Seq(V) /\ Len(F[k]) = k
    BY <1>1, <2>2, <2>3
  <2>6. QED
    BY <2>2, <2>4, <2>5
<1>4. \A k \in Nat : k \in Good
  <2> HIDE DEF Good
  <2>1. QED
    BY <1>2, <1>3, Induction
<1>5. m \in Good
  <2>1. m \in Nat
    OBVIOUS
  <2> HIDE DEF Good
  <2>2. QED
    BY <1>4, <2>1
<1>6. F[m] = [x \in 1 .. m |-> val[x]]
  BY <1>5
<1>7. QED
  BY <1>1, <1>6 DEF SameUpTo
=========================================================================
