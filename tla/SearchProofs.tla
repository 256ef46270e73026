-------------------------- MODULE SearchProofs --------------------------
(***************************************************************************)
(* Proofs about the older prefix searches as the server's searchGraph: the *)
(* classes of ErrorLevelSearch (MainCaitra, ModifiedCaitra and             *)
(* CaitraWithJump), for every set of graphs in decoder order, every        *)
(* vocabulary and every set of prefixes; ECModelSearchGraph, for every     *)
(* set of graphs as its constructor leaves them, every set of prefixes and *)
(* every cost of errors that never gains; and CaitraSearchGraph, the       *)
(* weighted search without jumps, for every set of graphs and prefixes,    *)
(* every negative price of errors and any number of failed requests; with  *)
(* the edit distances as they are.                                         *)
(***************************************************************************)
EXTENDS SearchObject, Extremes, SequenceTheorems

-------------------------------------------------------------------------
(* Laying a phrase against the prefix. *)

LenientMatches(p, done, out, part) ==
  Level!SED!lenient_edit_distance(p, done, out, part)

StrictMatches(p, done, out, part, sp) ==
  Level!SED!string_edit_distance(p, done, out, part, sp)

Costs(p, done, out, part) == Level!SED!CostTable(p, done, out, part)

MatchType(p, done, out) ==
  [error : Nat, pm : done + 1 .. Len(p), tm : 0 .. Len(out)]

(* Where a token of the prefix and a word of the phrase agree, and the      *)
(* table Extremes speaks of.                                               *)
Agreeing(p, done, out, part) ==
  { c \in Cells(Len(p) - done, Len(out)) : Level!SED!Agree(p, done + c[1], out[c[2]], part) }

TableOf(p, done, out, part) ==
  CHOOSE f : IsTable(f, Agreeing(p, done, out, part), Len(p) - done, Len(out))

LEMMA CostsTable ==
  ASSUME NEW p \in Seq(Words), NEW done \in 0 .. Len(p), NEW out \in Seq(Words), NEW part
  PROVE  Costs(p, done, out, part) = TableOf(p, done, out, part)
<1> DEFINE D == Cells(Len(p) - done, Len(out))
           A == { c \in D : Level!SED!Agree(p, done + c[1], out[c[2]], part) }
           E(f) == f = [c \in (0 .. Len(p) - done) \X (0 .. Len(out)) |->
                     LET ii == c[1]
                         jj == c[2]
                     IN  IF ii = 0 \/ jj = 0
                           THEN ii + jj
                           ELSE Level!SED!Min({ f[<< ii - 1, jj >>] + 1,
                                      f[<< ii, jj - 1 >>] + 1,
                                      f[<< ii - 1, jj - 1 >>]
                                        + (IF Level!SED!Agree(p, done + ii, out[jj], part)
                                             THEN 0 ELSE 1) })]
<1>1. ASSUME NEW f
      PROVE  E(f) <=> IsTable(f, A, Len(p) - done, Len(out))
  <2>1. ASSUME NEW c \in D
        PROVE  Laid(f, A, c)
                 = IF c[1] = 0 \/ c[2] = 0
                     THEN c[1] + c[2]
                     ELSE Level!SED!Min({ f[<< c[1] - 1, c[2] >>] + 1,
                                f[<< c[1], c[2] - 1 >>] + 1,
                                f[<< c[1] - 1, c[2] - 1 >>]
                                  + (IF Level!SED!Agree(p, done + c[1], out[c[2]], part)
                                       THEN 0 ELSE 1) })
    <3>1. c \in A <=> Level!SED!Agree(p, done + c[1], out[c[2]], part)
      OBVIOUS
    <3>2. \A S : Level!SED!Min(S) = Min(S)
      BY DEF Level!SED!Min, Min
    <3> HIDE DEF A
    <3>3. QED
      BY <3>1, <3>2 DEF Laid
  <2>2. QED
    BY <2>1 DEF IsTable, Cells
<1>2. Costs(p, done, out, part) = CHOOSE f : E(f)
  BY DEF Costs, Level!SED!CostTable
<1>3. (CHOOSE f : E(f)) = CHOOSE f : IsTable(f, A, Len(p) - done, Len(out))
  <2> HIDE DEF E, A, D
  <2>1. QED
    BY <1>1
<1>4. TableOf(p, done, out, part) = CHOOSE f : IsTable(f, A, Len(p) - done, Len(out))
  BY DEF TableOf, Agreeing
<1>5. QED
  BY <1>2, <1>3, <1>4

LEMMA CostsBounded ==
  ASSUME NEW p \in Seq(Words), NEW done \in 0 .. Len(p), NEW out \in Seq(Words), NEW part,
         NEW c \in Cells(Len(p) - done, Len(out))
  PROVE  /\ Costs(p, done, out, part)[c] \in Nat
         /\ c[2] <= c[1] => Costs(p, done, out, part)[c] <= c[1]
<1> DEFINE a == Len(p) - done
           b == Len(out)
           A == { d \in Cells(a, b) : Level!SED!Agree(p, done + d[1], out[d[2]], part) }
           T == CHOOSE f : IsTable(f, A, a, b)
<1>1. a \in Nat /\ b \in Nat
  OBVIOUS
<1>2. Costs(p, done, out, part) = T
  <2>1. T = TableOf(p, done, out, part)
    BY DEF TableOf, Agreeing
  <2> HIDE DEF T, A, a, b
  <2>2. Costs(p, done, out, part) = TableOf(p, done, out, part)
    BY CostsTable
  <2>3. QED
    BY <2>1, <2>2
<1> HIDE DEF A, a, b
<1>3. \A d \in Cells(a, b) : T[d] \in Nat /\ (d[2] <= d[1] => T[d] <= d[1])
  BY <1>1, TableEquation
<1> HIDE DEF T
<1>4. QED
  BY <1>2, <1>3 DEF a, b

(* The ends of the matches that consume the prefix: all places where they  *)
(* may end.                                                                *)
AllEnds(ends, out, part, sp) ==
  \A j \in 1 .. Len(out) :
    sp \/ out[j] \in part => \E x \in DOMAIN ends : ends[x] = j

LEMMA EndsType ==
  ASSUME NEW out \in Seq(Words), NEW part, NEW sp
  PROVE  /\ Level!SED!MatchEnds(out, part, sp) \in Seq(1 .. Len(out))
         /\ AllEnds(Level!SED!MatchEnds(out, part, sp), out, part, sp)
<1> DEFINE n == Len(out)
           T == { j \in 1 .. n : sp \/ out[j] \in part }
           val == [j \in 1 .. n |-> j]
           E(f) == f = [j \in 0 .. Len(out) |->
                     IF j = 0 THEN << >>
                     ELSE IF sp \/ out[j] \in part THEN Append(f[j - 1], j)
                     ELSE f[j - 1]]
           F == CHOOSE f : IsGathering(f, T, val, n)
<1>1. ASSUME NEW f PROVE E(f) <=> IsGathering(f, T, val, n)
  <2>1. ASSUME NEW j \in 0 .. n
        PROVE  Gathered(f, T, val, j)
                 = IF j = 0 THEN << >>
                   ELSE IF sp \/ out[j] \in part THEN Append(f[j - 1], j)
                   ELSE f[j - 1]
    <3>1. CASE j = 0
      BY <3>1 DEF Gathered
    <3>2. CASE j # 0
      <4>1. j \in 1 .. n
        BY <3>2
      <4>2. val[j] = j /\ (j \in T <=> sp \/ out[j] \in part)
        BY <4>1
      <4> HIDE DEF val, T
      <4>3. QED
        BY <3>2, <4>2 DEF Gathered
    <3>3. QED
      BY <3>1, <3>2
  <2>2. QED
    BY <2>1 DEF IsGathering
<1>2. Level!SED!MatchEnds(out, part, sp) = (CHOOSE f : E(f))[n]
  BY DEF Level!SED!MatchEnds
<1>3. (CHOOSE f : E(f)) = F
  <2> HIDE DEF E, T, val, n
  <2>1. QED
    BY <1>1 DEF F
<1>4. n \in Nat /\ \A j \in 1 .. n : val[j] \in 1 .. n
  OBVIOUS
<1>5. F[n] \in Seq(1 .. n) /\ Gathers(F[n], T, val, n)
  <2> HIDE DEF T, val, n
  <2>0. IsGathering(F, T, val, n)
    BY <1>4, GatheringExists
  <2> HIDE DEF F
  <2>1. \A j \in 0 .. n : F[j] \in Seq(1 .. n) /\ Gathers(F[j], T, val, j)
    BY <1>4, <2>0, GatheringEquation
  <2>2. n \in 0 .. n
    BY <1>4
  <2>3. QED
    BY <2>1, <2>2
<1>6. Level!SED!MatchEnds(out, part, sp) = F[n]
  <2> HIDE DEF E, F
  <2>1. QED
    BY <1>2, <1>3
<1>7. ASSUME NEW j \in 1 .. Len(out), sp \/ out[j] \in part
      PROVE  \E x \in DOMAIN F[n] : F[n][x] = j
  <2>1. j \in 1 .. n /\ j \in T /\ val[j] = j
    BY <1>7
  <2> HIDE DEF F, T, val, n
  <2>2. \E x \in DOMAIN F[n] : F[n][x] = val[j]
    BY <1>5, <2>1 DEF Gathers
  <2>3. QED
    BY <2>1, <2>2
<1>8. AllEnds(F[n], out, part, sp)
  <2> HIDE DEF F, n
  <2>1. QED
    BY <1>7 DEF AllEnds
<1>9. QED
  <2> HIDE DEF F, T, val
  <2>1. QED
    BY <1>5, <1>6, <1>8

(* A match costs a number of errors and consumes at least one token. *)
LEMMA MatchesTyped ==
  ASSUME NEW p \in Seq(Words), NEW done \in 0 .. Len(p) - 1, NEW out \in Seq(Words),
         NEW part, NEW sp
  PROVE  /\ StrictMatches(p, done, out, part, sp) \in Seq(MatchType(p, done, out))
         /\ LenientMatches(p, done, out, part) \in Seq(MatchType(p, done, out))
<1> DEFINE C == Costs(p, done, out, part)
           n == Len(p)
           l == Len(out)
           M == MatchType(p, done, out)
           ends == Level!SED!MatchEnds(out, part, sp)
<1>1. n \in Nat /\ l \in Nat /\ done \in 0 .. n /\ done \in Nat /\ done < n
  OBVIOUS
<1>2. \A a \in 0 .. n - done, b \in 0 .. l : C[<< a, b >>] \in Nat
  <2>1. ASSUME NEW a \in 0 .. n - done, NEW b \in 0 .. l
        PROVE  C[<< a, b >>] \in Nat
    <3>1. << a, b >> \in Cells(n - done, l)
      BY DEF Cells
    <3>2. QED
      BY <1>1, <3>1, CostsBounded
  <2>2. QED
    BY <2>1, Zenon
<1>3. ASSUME NEW e \in Nat, NEW pm \in done + 1 .. n, NEW tm \in 0 .. l
      PROVE  Level!SED!Match(e, pm, tm) \in M
  BY DEF Level!SED!Match, MatchType
<1> HIDE DEF M, C
<1>4. ends \in Seq(1 .. l)
  BY EndsType
<1>5. Level!SED!PrefixConsumed(p, done, out, part, sp) \in Seq(M)
  <2>1. Len(ends) \in Nat /\ \A x \in 1 .. Len(ends) : ends[x] \in 1 .. l
    BY <1>4
  <2>2. \A x \in 1 .. Len(ends) : Level!SED!Match(C[<< n - done, ends[x] >>], n, ends[x]) \in M
    <3> HIDE DEF ends, n, l
    <3>1. QED
      BY <1>1, <1>2, <1>3, <2>1
  <2>3. Level!SED!PrefixConsumed(p, done, out, part, sp)
          = [x \in 1 .. Len(ends) |-> Level!SED!Match(C[<< n - done, ends[x] >>], n, ends[x])]
    BY DEF Level!SED!PrefixConsumed, C, Costs
  <2> HIDE DEF ends
  <2>4. QED
    BY <2>1, <2>2, <2>3
<1>6. Level!SED!TransitionConsumed(p, done, out, part) \in Seq(M)
  <2>1. \A x \in 1 .. n - done - 1 : Level!SED!Match(C[<< x, l >>], done + x, l) \in M
    <3> HIDE DEF n, l
    <3>1. QED
      BY <1>1, <1>2, <1>3
  <2>2. Level!SED!TransitionConsumed(p, done, out, part)
          = [x \in 1 .. n - done - 1 |-> Level!SED!Match(C[<< x, l >>], done + x, l)]
    BY DEF Level!SED!TransitionConsumed, C, Costs
  <2>3. n - done - 1 \in Nat
    OBVIOUS
  <2>4. QED
    BY <2>1, <2>2, <2>3
<1>7. Level!SED!LenientPrefixConsumed(p, done, out, part) \in Seq(M)
  <2>1. \A x \in 1 .. l - 1 : Level!SED!Match(C[<< n - done, x >>], n, x) \in M
    <3> HIDE DEF n, l
    <3>1. n - done \in 0 .. n - done /\ n \in done + 1 .. n
      BY <1>1
    <3>2. \A x \in 1 .. l - 1 : x \in 0 .. l
      BY <1>1
    <3>3. \A x \in 1 .. l - 1 : C[<< n - done, x >>] \in Nat
      BY <1>2, <3>1, <3>2
    <3>4. QED
      BY <1>3, <3>1, <3>2, <3>3
  <2>2. Level!SED!LenientPrefixConsumed(p, done, out, part)
          = [x \in 1 .. l - 1 |-> Level!SED!Match(C[<< n - done, x >>], n, x)]
    BY DEF Level!SED!LenientPrefixConsumed, C, Costs
  <2>3. QED
    <3> DEFINE e == [x \in 1 .. l - 1 |-> Level!SED!Match(C[<< n - done, x >>], n, x)]
    <3>1. PICK k \in Nat : 1 .. l - 1 = 1 .. k
      <4>1. CASE l = 0
        BY <4>1
      <4>2. CASE l # 0
        <5>1. l - 1 \in Nat
          BY <4>2
        <5>2. QED
          BY <5>1
      <4>3. QED
        BY <4>1, <4>2
    <3>2. e \in [1 .. k -> M]
      BY <2>1, <3>1
    <3>3. [1 .. k -> M] \subseteq Seq(M)
      OBVIOUS
    <3>4. QED
      BY <2>2, <3>2, <3>3
<1>8. Level!SED!LenientTransitionConsumed(p, done, out, part) \in Seq(M)
  <2>1. \A x \in 1 .. n - done : Level!SED!Match(C[<< x, l >>], done + x, l) \in M
    <3> HIDE DEF n, l
    <3>1. QED
      BY <1>1, <1>2, <1>3
  <2>2. Level!SED!LenientTransitionConsumed(p, done, out, part)
          = [x \in 1 .. n - done |-> Level!SED!Match(C[<< x, l >>], done + x, l)]
    BY DEF Level!SED!LenientTransitionConsumed, C, Costs
  <2>3. n - done \in Nat
    OBVIOUS
  <2>4. QED
    BY <2>1, <2>2, <2>3
<1>9. QED
  BY <1>5, <1>6, <1>7, <1>8
     DEF StrictMatches, LenientMatches, Level!SED!string_edit_distance,
         Level!SED!lenient_edit_distance, M

(* MainCaitra's matches include one that consumes the whole prefix with at *)
(* most one error for every token, whatever the phrase is.                 *)
LEMMA LenientReaches ==
  ASSUME NEW p \in Seq(Words), p # << >>, NEW out \in Seq(Words), NEW part
  PROVE  \E y \in DOMAIN LenientMatches(p, 0, out, part) :
           /\ LenientMatches(p, 0, out, part)[y].pm = Len(p)
           /\ LenientMatches(p, 0, out, part)[y].error <= Len(p)
<1> DEFINE C == Costs(p, 0, out, part)
           n == Len(p)
           l == Len(out)
           P == Level!SED!LenientPrefixConsumed(p, 0, out, part)
           Q == Level!SED!LenientTransitionConsumed(p, 0, out, part)
           E == LenientMatches(p, 0, out, part)
<1>1. n \in Nat \ {0} /\ l \in Nat /\ 0 \in 0 .. n
  OBVIOUS
<1>2. E = P \o Q
  BY DEF LenientMatches, Level!SED!lenient_edit_distance
<1>3. P = [x \in 1 .. l - 1 |-> Level!SED!Match(C[<< n - 0, x >>], n, x)]
  BY DEF Level!SED!LenientPrefixConsumed, Costs
<1>4. Q = [x \in 1 .. n - 0 |-> Level!SED!Match(C[<< x, l >>], 0 + x, l)]
  BY DEF Level!SED!LenientTransitionConsumed, Costs
<1>5. ASSUME NEW b \in 0 .. l, b <= n PROVE C[<< n, b >>] <= n
  <2>1. << n, b >> \in Cells(n - 0, l)
    BY DEF Cells
  <2>2. QED
    BY <1>1, <1>5, <2>1, CostsBounded
<1> HIDE DEF P, Q, C, E, n, l
<1>6. Len(Q) = n /\ Q \in Seq({ Q[x] : x \in 1 .. n })
  <2>1. n - 0 = n /\ n \in Nat
    BY <1>1
  <2>2. Q \in [1 .. n -> { Q[x] : x \in 1 .. n }]
    BY <1>4, <2>1
  <2> DEFINE V == { Q[x] : x \in 1 .. n }
  <2> HIDE DEF V
  <2>3. \A q \in [1 .. n -> V] : q \in Seq(V) /\ Len(q) = n
    BY <2>1
  <2>4. Q \in [1 .. n -> V]
    BY <2>2 DEF V
  <2>5. Q \in Seq(V) /\ Len(Q) = n
    BY <2>3, <2>4
  <2>6. QED
    BY <2>5 DEF V
<1>7. PICK k \in Nat : 1 .. l - 1 = 1 .. k /\ (l # 0 => k = l - 1)
  <2>1. CASE l = 0
    BY <2>1
  <2>2. CASE l # 0
    <3>1. l - 1 \in Nat
      BY <1>1, <2>2
    <3>2. QED
      BY <3>1
  <2>3. QED
    BY <2>1, <2>2
<1>8. Len(P) = k /\ P \in Seq({ P[x] : x \in 1 .. k })
  <2>1. P \in [1 .. k -> { P[x] : x \in 1 .. k }]
    BY <1>3, <1>7
  <2> DEFINE V == { P[x] : x \in 1 .. k }
  <2> HIDE DEF V
  <2>2. \A q \in [1 .. k -> V] : q \in Seq(V) /\ Len(q) = k
    OBVIOUS
  <2>3. P \in [1 .. k -> V]
    BY <2>1 DEF V
  <2>4. P \in Seq(V) /\ Len(P) = k
    BY <2>2, <2>3
  <2>5. QED
    BY <2>4 DEF V
<1>9. /\ DOMAIN E = 1 .. k + n
      /\ \A x \in 1 .. k : E[x] = P[x]
      /\ \A x \in 1 .. n : E[k + x] = Q[x]
  <2> DEFINE V == { P[x] : x \in 1 .. k }
             U == { Q[x] : x \in 1 .. n }
  <2>1. P \in Seq(V) /\ Q \in Seq(U)
    BY <1>6, <1>8
  <2> HIDE DEF V, U
  <2>2. P \in Seq(V \cup U) /\ Q \in Seq(V \cup U)
    BY <2>1
  <2>3. n \in Nat /\ DOMAIN (P \o Q) = 1 .. Len(P) + Len(Q)
    BY <1>1, <2>2
  <2>4. \A x \in 1 .. Len(P) : (P \o Q)[x] = P[x]
    BY <2>2
  <2>5. \A x \in 1 .. n : (P \o Q)[k + x] = Q[x]
    BY <1>1, <1>6, <1>8, <2>2
  <2>6. QED
    BY <1>2, <1>6, <1>8, <2>3, <2>4, <2>5
<1>10. CASE l <= n
  <2>1. Q[n].pm = n /\ Q[n].error = C[<< n, l >>]
    BY <1>1, <1>4 DEF Level!SED!Match
  <2>2. C[<< n, l >>] <= n
    BY <1>1, <1>5, <1>10
  <2>3. k + n \in DOMAIN E /\ E[k + n] = Q[n]
    BY <1>1, <1>8, <1>9
  <2>4. QED
    BY <2>1, <2>2, <2>3 DEF E, n
<1>11. CASE l > n
  <2>1. n \in 1 .. l - 1 /\ k = l - 1
    BY <1>1, <1>7, <1>11
  <2>2. P[n].pm = n /\ P[n].error = C[<< n, n >>]
    BY <1>1, <1>3, <2>1 DEF Level!SED!Match
  <2>3. C[<< n, n >>] <= n
    BY <1>1, <1>5, <1>11
  <2>4. n \in DOMAIN E /\ E[n] = P[n]
    BY <1>1, <1>8, <1>9, <2>1
  <2>5. QED
    BY <2>2, <2>3, <2>4 DEF E, n
<1>12. QED
  BY <1>1, <1>10, <1>11

(* The other classes' include one if the phrase has a word there, no        *)
(* further on than the prefix is long, that the prefix may end with.       *)
LEMMA StrictReaches ==
  ASSUME NEW p \in Seq(Words), p # << >>, NEW out \in Seq(Words), NEW part, NEW sp,
         NEW j \in 1 .. Len(out), j <= Len(p), sp \/ out[j] \in part
  PROVE  \E y \in DOMAIN StrictMatches(p, 0, out, part, sp) :
           /\ StrictMatches(p, 0, out, part, sp)[y].pm = Len(p)
           /\ StrictMatches(p, 0, out, part, sp)[y].error <= Len(p)
<1> DEFINE C == Costs(p, 0, out, part)
           n == Len(p)
           l == Len(out)
           ends == Level!SED!MatchEnds(out, part, sp)
           P == Level!SED!PrefixConsumed(p, 0, out, part, sp)
           Q == Level!SED!TransitionConsumed(p, 0, out, part)
           E == StrictMatches(p, 0, out, part, sp)
<1>1. n \in Nat \ {0} /\ l \in Nat /\ 0 \in 0 .. n
  OBVIOUS
<1>2. E = P \o Q
  BY DEF StrictMatches, Level!SED!string_edit_distance
<1>3. P = [x \in 1 .. Len(ends) |-> Level!SED!Match(C[<< n - 0, ends[x] >>], n, ends[x])]
  BY DEF Level!SED!PrefixConsumed, Costs
<1>4. Q = [x \in 1 .. n - 0 - 1 |-> Level!SED!Match(C[<< x, l >>], 0 + x, l)]
  BY DEF Level!SED!TransitionConsumed, Costs
<1>5. C[<< n, j >>] <= n
  <2>1. << n, j >> \in Cells(n - 0, l)
    BY DEF Cells
  <2>2. QED
    BY <1>1, <2>1, CostsBounded
<1>6. ends \in Seq(1 .. l) /\ \E x \in DOMAIN ends : ends[x] = j
  <2>1. ends \in Seq(1 .. l)
    BY EndsType
  <2>2. AllEnds(ends, out, part, sp)
    BY EndsType
  <2> HIDE DEF ends
  <2>3. QED
    BY <2>1, <2>2 DEF AllEnds
<1> HIDE DEF P, Q, C, E, n, l, ends
<1>7. PICK x \in DOMAIN ends : ends[x] = j
  BY <1>6
<1>8. x \in 1 .. Len(ends) /\ Len(ends) \in Nat
  BY <1>6
<1>9. P[x].pm = n /\ P[x].error <= n
  <2>1. P[x] = Level!SED!Match(C[<< n - 0, ends[x] >>], n, ends[x])
    BY <1>3, <1>8
  <2>2. n - 0 = n
    BY <1>1
  <2>3. P[x] = Level!SED!Match(C[<< n, j >>], n, j)
    BY <1>7, <2>1, <2>2
  <2>4. QED
    BY <1>5, <2>3 DEF Level!SED!Match
<1>10. x \in DOMAIN E /\ E[x] = P[x]
  <2> DEFINE V == { P[z] : z \in 1 .. Len(ends) }
             U == { Q[z] : z \in 1 .. n - 1 }
             k == Len(ends)
             q == n - 1
  <2>1. P \in [1 .. k -> V] /\ k \in Nat
    BY <1>3, <1>8
  <2>2. Q \in [1 .. q -> U] /\ q \in Nat
    <3>1. n - 0 - 1 = n - 1 /\ n - 1 \in Nat
      BY <1>1
    <3>2. QED
      BY <1>4, <3>1
  <2>3. x \in 1 .. k
    BY <1>8
  <2> DEFINE W == V \cup U
  <2> HIDE DEF V, U, k, q
  <2>4. P \in Seq(W) /\ Len(P) = k /\ Q \in Seq(W) /\ Len(Q) \in Nat
    BY <2>1, <2>2
  <2> HIDE DEF W
  <2>5. DOMAIN (P \o Q) = 1 .. Len(P) + Len(Q)
    BY <2>4
  <2>6. \A z \in 1 .. Len(P) : (P \o Q)[z] = P[z]
    BY <2>4
  <2>7. QED
    BY <1>2, <2>1, <2>3, <2>4, <2>5, <2>6
<1>11. QED
  BY <1>9, <1>10 DEF E, n

-------------------------------------------------------------------------
(* What recording a path does to the paths of a state.                     *)

SameKey(b, c) == b.matched = c.matched /\ b.jump = c.jump

(* Recording keeps every path in its place or puts a better one there, and *)
(* at most appends the new one.                                            *)
LEMMA RecordShape ==
  ASSUME NEW B, NEW seq \in Seq(B), NEW new \in B
  PROVE  /\ Level!Record(seq, new) \in Seq(B)
         /\ DOMAIN seq \subseteq DOMAIN Level!Record(seq, new)
         /\ \A x \in DOMAIN seq :
              \/ Level!Record(seq, new)[x] = seq[x]
              \/ /\ Level!Record(seq, new)[x] = new
                 /\ SameKey(seq[x], new)
                 /\ Level!Better(seq[x], new.error, new.score, new.matched)
         /\ \A x \in DOMAIN Level!Record(seq, new) \ DOMAIN seq :
              Level!Record(seq, new)[x] = new
<1> DEFINE same == { x \in DOMAIN seq : seq[x].matched = new.matched
                                        /\ seq[x].jump = new.jump }
<1>1. CASE same = {}
  <2>1. Level!Record(seq, new) = Append(seq, new)
    BY <1>1 DEF Level!Record
  <2>2. QED
    BY <2>1
<1>2. CASE same # {}
  <2>1. \A S : Level!Min(S) = Min(S)
    BY DEF Level!Min, Min
  <2>2. same \subseteq Nat
    OBVIOUS
  <2> DEFINE x == Min(same)
  <2>3. x \in same
    <3> HIDE DEF same
    <3>1. QED
      BY <1>2, <2>2, MinIn
  <2>4. Level!Record(seq, new) = IF Level!Better(seq[x], new.error, new.score, new.matched)
                                   THEN [seq EXCEPT ![x] = new] ELSE seq
    BY <1>2, <2>1 DEF Level!Record
  <2> HIDE DEF x
  <2>5. x \in DOMAIN seq /\ SameKey(seq[x], new)
    BY <2>3 DEF SameKey
  <2>6. [seq EXCEPT ![x] = new] \in Seq(B) /\ DOMAIN [seq EXCEPT ![x] = new] = DOMAIN seq
    BY <2>5
  <2>7. QED
    BY <2>4, <2>5, <2>6
<1>3. QED
  BY <1>1, <1>2

-------------------------------------------------------------------------
(* The inductive invariant of the searches by number of errors: what is    *)
(* recorded has something of the prefix left to match, between requests    *)
(* nothing is left of the loop, and a search has a prefix and a first path.*)

PathType ==
  [score : Int, error : Nat, matched : Nat, bstate : Int, bmatched : Nat,
   tr : Nat, jump : 0 .. 2, bjump : 0 .. 2]

Positioned(c) == c \in [st : 0 .. graph.n, bi : Nat \ {0}, ti : Nat \ {0}, mi : Nat]

(* What Level!TypeOK says of the recorded paths bk of a graph g and of the *)
(* completions bt, n tokens having been typed.                             *)
LinkIn(g, bk, b) ==
  /\ b[1] \in States(g) /\ b[2] \in DOMAIN g.trans[b[1]]
  /\ \E x \in DOMAIN bk[b[1]] : bk[b[1]][x].matched = b[3] /\ bk[b[1]][x].jump = b[4]

LinkOf(b) == << b.bstate, b.tr, b.bmatched, b.bjump >>

PathIn(g, bk, n, s, b) ==
  /\ b.error \in Nat /\ b.matched \in 0 .. n /\ b.jump \in 0 .. 2
  /\ s = 0 => b = Level!InitialBack
  /\ s # 0 => LinkIn(g, bk, LinkOf(b)) /\ g.trans[b.bstate][b.tr].to = s

PathsIn(g, bk, n) == \A s \in States(g) : \A x \in DOMAIN bk[s] : PathIn(g, bk, n, s, bk[s][x])

EndsIn(g, bk, bt) ==
  /\ DOMAIN bt \subseteq Nat
  /\ \A e \in DOMAIN bt :
       LinkIn(g, bk, << bt[e].from, bt[e].tr, bt[e].bmatched, bt[e].bjump >>)

OpenIn(g, bk, n) == \A s \in States(g) : \A x \in DOMAIN bk[s] : bk[s][x].matched < n

(* The rest of Level!TypeOK. *)
PlainTypes ==
  /\ class \in LevelClasses /\ graph \in LevelGraphs
  /\ prefix \in Seq(Words) /\ space \in BOOLEAN /\ partial \subseteq Words
  /\ pc \in {"idle", "search"}
  /\ level \in 0 .. Len(prefix) + 1
  /\ Positioned(cur)

Restful ==
  /\ pc = "idle" => cur = Level!Start /\ level = 0
  /\ pc = "search" => prefix # << >> /\ back[0] # << >>

LevelInv ==
  /\ PlainTypes /\ Restful
  /\ back \in [States(graph) -> Seq(PathType)]
  /\ PathsIn(graph, back, Len(prefix))
  /\ EndsIn(graph, back, best)
  /\ OpenIn(graph, back, Len(prefix))

(* It has Level!TypeOK among its parts. *)
LEMMA LevelTyped == LevelInv => Level!TypeOK
<1>1. Level!States(graph) = States(graph)
  BY DEF Level!States, States
<1>2. \A b1, b2, b3, b4 :
        Level!LinkOK(b1, b2, b3, b4) <=> LinkIn(graph, back, << b1, b2, b3, b4 >>)
  BY <1>1 DEF Level!LinkOK, LinkIn, Level!Linked
<1>3. \A s, b : Level!BackOK(s, b) <=> PathIn(graph, back, Len(prefix), s, b)
  BY <1>2 DEF Level!BackOK, PathIn, LinkOf
<1>4. (\A s \in Level!States(graph) : \A x \in DOMAIN back[s] : Level!BackOK(s, back[s][x]))
      <=> PathsIn(graph, back, Len(prefix))
  BY <1>1, <1>3 DEF PathsIn
<1>5. DOMAIN best \subseteq Nat /\ (\A e \in DOMAIN best :
        Level!LinkOK(best[e].from, best[e].tr, best[e].bmatched, best[e].bjump))
      <=> EndsIn(graph, back, best)
  BY <1>2 DEF EndsIn
<1>6. back \in [States(graph) -> Seq(PathType)] => DOMAIN back = Level!States(graph)
  BY <1>1
<1>7. QED
  BY <1>1, <1>4, <1>5, <1>6
     DEF LevelInv, Level!TypeOK, PlainTypes, Positioned

LEMMA LevelGraph ==
  ASSUME NEW g \in LevelGraphs
  PROVE  /\ GraphType(g) /\ Ordered(g) /\ g.n \in Nat \ {0} /\ 0 \in States(g)
         /\ Level!States(g) = States(g)
         /\ [s \in States(g) |-> << >>] \in [States(g) -> Seq(PathType)]
         /\ Level!Start \in [st : 0 .. g.n, bi : Nat \ {0}, ti : Nat \ {0}, mi : Nat]
<1>1. GraphType(g) /\ Ordered(g)
  BY ClassesAssumption
<1>2. g.n \in Nat \ {0}
  BY <1>1 DEF GraphType
<1>3. QED
  BY <1>1, <1>2 DEF States, Level!States, Level!Start

LEMMA LevelCur ==
  ASSUME LevelInv
  PROVE  /\ graph \in LevelGraphs /\ graph.n \in Nat \ {0} /\ 0 \in States(graph)
         /\ Level!States(graph) = States(graph) /\ GraphType(graph) /\ Ordered(graph)
         /\ Positioned(cur) /\ cur.st \in Nat /\ prefix \in Seq(Words) /\ Len(prefix) \in Nat
         /\ level \in Nat /\ partial \subseteq Words
<1>1. graph \in LevelGraphs /\ Positioned(cur) /\ prefix \in Seq(Words)
      /\ level \in 0 .. Len(prefix) + 1 /\ partial \subseteq Words
  BY DEF LevelInv, PlainTypes
<1>2. graph.n \in Nat \ {0} /\ 0 \in States(graph) /\ Level!States(graph) = States(graph)
      /\ GraphType(graph) /\ Ordered(graph)
  BY <1>1, LevelGraph
<1>3. cur.st \in Nat
  BY <1>1, <1>2 DEF Positioned
<1>4. QED
  BY <1>1, <1>2, <1>3

(* What a step of the loop may rely on. *)
LEMMA LevelPositions ==
  ASSUME LevelInv, Level!AtTransition
  PROVE  /\ cur.st \in States(graph)
         /\ cur.bi \in DOMAIN back[cur.st] /\ Level!Back \in PathType
         /\ Level!Back.error = level
         /\ Level!Back.matched \in 0 .. Len(prefix) - 1
         /\ cur.ti \in DOMAIN graph.trans[cur.st] /\ Level!Trans \in TransitionType
         /\ Level!Trans.to \in cur.st + 1 .. graph.n - 1
         /\ Level!Trans.to \in States(graph)
         /\ Level!Matches \in Seq(MatchType(prefix, Level!Back.matched, Level!Trans.output))
<1> USE DEF Level!AtTransition, Level!AtBack, Level!AtState
<1>1. GraphType(graph) /\ Ordered(graph) /\ Positioned(cur) /\ graph.n \in Nat
      /\ prefix \in Seq(Words) /\ Len(prefix) \in Nat
  BY LevelCur
<1>2. cur.st \in States(graph)
  BY <1>1 DEF Positioned, States
<1>3. back[cur.st] \in Seq(PathType) /\ cur.bi \in Nat \ {0}
  BY <1>1, <1>2 DEF LevelInv, Positioned
<1>4. cur.bi \in DOMAIN back[cur.st] /\ Level!Back \in PathType
  <2>1. cur.bi \in DOMAIN back[cur.st]
    BY <1>3
  <2>2. QED
    BY <1>3, <2>1 DEF Level!Back
<1>5. Level!Back.matched \in 0 .. Len(prefix) - 1
  <2>1. Level!Back.matched < Len(prefix)
    BY <1>2, <1>4 DEF LevelInv, OpenIn, Level!Back
  <2>2. Level!Back.matched \in Nat
    BY <1>4 DEF PathType
  <2>3. QED
    BY <1>1, <2>1, <2>2
<1>6. cur.ti \in DOMAIN graph.trans[cur.st] /\ Level!Trans \in TransitionType
  <2>1. graph.trans[cur.st] \in Seq(TransitionType) /\ cur.ti \in Nat \ {0}
    BY <1>1, <1>2 DEF GraphType, Positioned
  <2>2. cur.ti \in DOMAIN graph.trans[cur.st]
    BY <2>1
  <2>3. QED
    BY <2>1, <2>2 DEF Level!Trans
<1>7. Level!Trans.to \in cur.st + 1 .. graph.n - 1
  BY <1>1, <1>2, <1>6 DEF Ordered, Level!Trans
<1>8. Level!Trans.to \in States(graph)
  BY <1>1, <1>2, <1>7 DEF States
<1>9. Level!Matches \in Seq(MatchType(prefix, Level!Back.matched, Level!Trans.output))
  <2>1. Level!Trans.output \in Seq(Words)
    BY <1>6 DEF TransitionType
  <2>2. /\ LenientMatches(prefix, Level!Back.matched, Level!Trans.output, partial)
             \in Seq(MatchType(prefix, Level!Back.matched, Level!Trans.output))
        /\ StrictMatches(prefix, Level!Back.matched, Level!Trans.output, partial, space)
             \in Seq(MatchType(prefix, Level!Back.matched, Level!Trans.output))
    BY <1>1, <1>5, <2>1, MatchesTyped
  <2>3. QED
    BY <2>2 DEF Level!Matches, Level!Lenient, Level!Strict, LenientMatches, StrictMatches
<1>10. QED
  BY <1>2, <1>4, <1>5, <1>6, <1>7, <1>8, <1>9

LEMMA LevelMatch ==
  ASSUME LevelInv, Level!AtTransition, cur.mi > 0, cur.mi <= Len(Level!Matches)
  PROVE  LET m == Level!Matches[cur.mi]
         IN  /\ m.error \in Nat /\ m.pm \in Level!Back.matched + 1 .. Len(prefix)
             /\ m.tm \in Nat
<1> DEFINE M == MatchType(prefix, Level!Back.matched, Level!Trans.output)
           ms == Level!Matches
           x == cur.mi
<1>1. ms \in Seq(M)
  BY LevelPositions
<1>2. x \in Nat /\ x > 0 /\ x <= Len(ms)
  BY LevelCur DEF Positioned
<1>3. ms[x] \in M
  <2> HIDE DEF M, ms, x
  <2>1. QED
    BY <1>1, <1>2
<1>4. 0 .. Len(Level!Trans.output) \subseteq Nat
  OBVIOUS
<1>5. QED
  BY <1>3, <1>4 DEF MatchType

(* The path that a step of the loop records. *)
IsExtension(new) ==
  /\ new \in PathType
  /\ new.bstate = cur.st /\ new.tr = cur.ti
  /\ new.bmatched = Level!Back.matched /\ new.bjump = Level!Back.jump
  /\ new.matched \in Level!Back.matched .. Len(prefix) - 1
  /\ new.error >= level

LEMMA ContinueIsExtension ==
  ASSUME LevelInv, Level!AtTransition, NEW error \in Nat, NEW jump \in 0 .. 2,
         NEW matched \in Level!Back.matched .. Len(prefix) - 1
  PROVE  IsExtension(Level!Continue(error, matched, jump))
<1> DEFINE new == Level!Continue(error, matched, jump)
<1>1. /\ Level!Back.score \in Int /\ Level!Back.error \in Nat /\ Level!Back.matched \in Nat
      /\ Level!Back.jump \in 0 .. 2 /\ Level!Back.error = level
  BY LevelPositions DEF PathType
<1>2. Level!Trans.score \in Int /\ cur.ti \in Nat /\ cur.st \in Int
  BY LevelPositions, LevelCur DEF TransitionType, Positioned
<1>3. matched \in Nat
  BY <1>1, LevelCur
<1>4. Level!Back.score + Level!Trans.score \in Int /\ Level!Back.error + error \in Nat
      /\ Level!Back.error + error >= level
  BY <1>1, <1>2
<1>5. new \in PathType
  BY <1>1, <1>2, <1>3, <1>4 DEF Level!Continue, PathType
<1>6. QED
  BY <1>4, <1>5 DEF IsExtension, Level!Continue

(* Recording a path at the end of the transition: what it leaves of the    *)
(* paths that were there.                                                  *)
LEMMA LevelExtend ==
  ASSUME LevelInv, Level!AtTransition, NEW new, IsExtension(new),
         back' = [back EXCEPT ![Level!Trans.to] = Level!Record(@, new)]
  PROVE  /\ back' \in [States(graph) -> Seq(PathType)]
         /\ \A s \in States(graph) : s <= cur.st => back'[s] = back[s]
         /\ \A s \in States(graph) : \A x \in DOMAIN back[s] :
              /\ x \in DOMAIN back'[s]
              /\ \/ back'[s][x] = back[s][x]
                 \/ /\ s = Level!Trans.to /\ back'[s][x] = new
                    /\ SameKey(back[s][x], new)
                    /\ Level!Better(back[s][x], new.error, new.score, new.matched)
         /\ \A s \in States(graph) : \A x \in DOMAIN back'[s] \ DOMAIN back[s] :
              s = Level!Trans.to /\ back'[s][x] = new
<1> DEFINE to == Level!Trans.to
           rec == Level!Record(back[to], new)
<1>1. cur.st \in States(graph) /\ cur.st \in Nat /\ to \in States(graph) /\ to > cur.st
  BY LevelPositions, LevelCur
<1>2. back \in [States(graph) -> Seq(PathType)]
  BY DEF LevelInv
<1>3. back[to] \in Seq(PathType) /\ new \in PathType
  BY <1>1, <1>2 DEF IsExtension
<1>4. /\ rec \in Seq(PathType)
      /\ DOMAIN back[to] \subseteq DOMAIN rec
      /\ \A x \in DOMAIN back[to] :
           \/ rec[x] = back[to][x]
           \/ rec[x] = new /\ SameKey(back[to][x], new)
              /\ Level!Better(back[to][x], new.error, new.score, new.matched)
      /\ \A x \in DOMAIN rec \ DOMAIN back[to] : rec[x] = new
  <2> HIDE DEF to
  <2>1. QED
    BY <1>3, RecordShape
<1>5. back'[to] = rec /\ \A s \in States(graph) \ {to} : back'[s] = back[s]
  BY <1>1, <1>2
<1>6. back' \in [States(graph) -> Seq(PathType)]
  BY <1>2, <1>4
<1>7. \A s \in States(graph) : s <= cur.st => back'[s] = back[s]
  <2>1. \A s \in States(graph) : s <= cur.st => s # to
    <3>1. graph.n \in Nat /\ to \in Nat
      BY <1>1, LevelCur DEF States
    <3> HIDE DEF to
    <3>2. QED
      BY <1>1, <3>1 DEF States
  <2>2. QED
    BY <1>5, <2>1
<1> HIDE DEF rec, to
<1>8. QED
  BY <1>4, <1>5, <1>6, <1>7 DEF to

-------------------------------------------------------------------------
(* Every action keeps the invariant. *)

(* A situation that is recorded stays recorded. *)
LEMMA LinksStay ==
  ASSUME NEW g, NEW bk, NEW ck,
         \A s \in States(g) : \A x \in DOMAIN bk[s] :
           x \in DOMAIN ck[s] /\ SameKey(ck[s][x], bk[s][x])
  PROVE  /\ \A b : LinkIn(g, bk, b) => LinkIn(g, ck, b)
         /\ \A n, s, b : PathIn(g, bk, n, s, b) => PathIn(g, ck, n, s, b)
<1>1. ASSUME NEW b, LinkIn(g, bk, b) PROVE LinkIn(g, ck, b)
  <2>1. PICK x \in DOMAIN bk[b[1]] : bk[b[1]][x].matched = b[3] /\ bk[b[1]][x].jump = b[4]
    BY <1>1 DEF LinkIn
  <2>2. x \in DOMAIN ck[b[1]] /\ ck[b[1]][x].matched = b[3] /\ ck[b[1]][x].jump = b[4]
    BY <1>1, <2>1 DEF SameKey, LinkIn
  <2>3. QED
    BY <1>1, <2>2 DEF LinkIn
<1>2. QED
  BY <1>1 DEF PathIn

(* Recording the path a step of the loop has made. *)
LEMMA LevelRecorded ==
  ASSUME LevelInv, Level!AtTransition, NEW new, IsExtension(new),
         back' = [back EXCEPT ![Level!Trans.to] = Level!Record(@, new)]
  PROVE  /\ back' \in [States(graph) -> Seq(PathType)]
         /\ back'[0] = back[0]
         /\ OpenIn(graph, back', Len(prefix))
         /\ PathsIn(graph, back', Len(prefix))
         /\ EndsIn(graph, back', best)
<1> DEFINE to == Level!Trans.to
           n == Len(prefix)
<1>1. cur.st \in States(graph) /\ cur.st \in Nat /\ to \in States(graph) /\ to > cur.st
      /\ 0 \in States(graph) /\ n \in Nat
  BY LevelPositions, LevelCur
<1>2. /\ back' \in [States(graph) -> Seq(PathType)]
      /\ \A s \in States(graph) : s <= cur.st => back'[s] = back[s]
      /\ \A s \in States(graph) : \A x \in DOMAIN back[s] :
           /\ x \in DOMAIN back'[s]
           /\ back'[s][x] = back[s][x] \/ SameKey(back[s][x], back'[s][x])
      /\ \A s \in States(graph) : \A x \in DOMAIN back'[s] :
           \/ x \in DOMAIN back[s] /\ back'[s][x] = back[s][x]
           \/ s = to /\ back'[s][x] = new
  <2>1. /\ back' \in [States(graph) -> Seq(PathType)]
        /\ \A s \in States(graph) : s <= cur.st => back'[s] = back[s]
        /\ \A s \in States(graph) : \A x \in DOMAIN back[s] :
             /\ x \in DOMAIN back'[s]
             /\ \/ back'[s][x] = back[s][x]
                \/ /\ s = Level!Trans.to /\ back'[s][x] = new
                   /\ SameKey(back[s][x], new)
                   /\ Level!Better(back[s][x], new.error, new.score, new.matched)
        /\ \A s \in States(graph) : \A x \in DOMAIN back'[s] \ DOMAIN back[s] :
             s = Level!Trans.to /\ back'[s][x] = new
    BY LevelExtend
  <2>2. \A s \in States(graph) : \A x \in DOMAIN back[s] :
          /\ x \in DOMAIN back'[s]
          /\ \/ back'[s][x] = back[s][x]
             \/ s = to /\ back'[s][x] = new /\ SameKey(back[s][x], new)
    BY <2>1
  <2>3. \A s \in States(graph) : \A x \in DOMAIN back'[s] \ DOMAIN back[s] :
          s = to /\ back'[s][x] = new
    BY <2>1
  <2> HIDE DEF to
  <2>4. \A s \in States(graph) : \A x \in DOMAIN back'[s] :
          \/ x \in DOMAIN back[s] /\ back'[s][x] = back[s][x]
          \/ s = to /\ back'[s][x] = new
    BY <2>2, <2>3
  <2>5. \A s \in States(graph) : \A x \in DOMAIN back[s] :
          /\ x \in DOMAIN back'[s]
          /\ back'[s][x] = back[s][x] \/ SameKey(back[s][x], back'[s][x])
    BY <2>2
  <2>6. QED
    BY <2>1, <2>4, <2>5
<1>3. back'[0] = back[0]
  BY <1>1, <1>2
<1>4. \A s \in States(graph) : \A x \in DOMAIN back[s] :
        x \in DOMAIN back'[s] /\ SameKey(back'[s][x], back[s][x])
  BY <1>2 DEF SameKey
<1>5. OpenIn(graph, back', n)
  <2>1. new.matched < n
    <3>1. Level!Back.matched \in Nat
      BY LevelPositions DEF PathType
    <3>2. QED
      BY <1>1, <3>1 DEF IsExtension
  <2>2. \A s \in States(graph) : \A x \in DOMAIN back[s] : back[s][x].matched < n
    BY DEF LevelInv, OpenIn
  <2> HIDE DEF n, to
  <2>3. QED
    BY <1>2, <2>1, <2>2 DEF OpenIn
<1>6. LinkIn(graph, back, LinkOf(new))
  <2>1. cur.bi \in DOMAIN back[cur.st] /\ cur.ti \in DOMAIN graph.trans[cur.st]
    BY LevelPositions
  <2>2. LinkOf(new) = << cur.st, cur.ti, Level!Back.matched, Level!Back.jump >>
    BY DEF LinkOf, IsExtension
  <2>3. QED
    BY <1>1, <2>1, <2>2 DEF LinkIn, Level!Back
<1>7. PathIn(graph, back, n, to, new)
  <2>1. graph.trans[new.bstate][new.tr].to = to
    BY DEF IsExtension, Level!Trans
  <2>2. new.error \in Nat /\ new.matched \in 0 .. n /\ new.jump \in 0 .. 2
    <3>1. Level!Back.matched \in Nat /\ new.matched \in Nat
      BY LevelPositions DEF PathType, IsExtension
    <3>2. QED
      BY <1>1, <3>1 DEF IsExtension, PathType
  <2>3. to # 0
    BY <1>1
  <2> HIDE DEF to, n
  <2>4. QED
    BY <1>6, <2>1, <2>2, <2>3 DEF PathIn
<1>8. /\ \A b : LinkIn(graph, back, b) => LinkIn(graph, back', b)
      /\ \A k, s, b : PathIn(graph, back, k, s, b) => PathIn(graph, back', k, s, b)
  <2>1. PICK ck : ck = back'
    OBVIOUS
  <2>2. \A s \in States(graph) : \A x \in DOMAIN back[s] :
          x \in DOMAIN ck[s] /\ SameKey(ck[s][x], back[s][x])
    BY <1>4, <2>1
  <2>3. /\ \A b : LinkIn(graph, back, b) => LinkIn(graph, ck, b)
        /\ \A k, s, b : PathIn(graph, back, k, s, b) => PathIn(graph, ck, k, s, b)
    BY ONLY <2>2, LinksStay
  <2>4. QED
    BY <2>1, <2>3
<1>9. PathsIn(graph, back', n)
  <2>1. ASSUME NEW s \in States(graph), NEW x \in DOMAIN back'[s]
        PROVE  PathIn(graph, back', n, s, back'[s][x])
    <3>1. CASE x \in DOMAIN back[s] /\ back'[s][x] = back[s][x]
      <4>1. PathIn(graph, back, n, s, back[s][x])
        BY <3>1 DEF LevelInv, PathsIn
      <4>2. QED
        BY <1>8, <3>1, <4>1
    <3>2. CASE s = to /\ back'[s][x] = new
      BY <1>7, <1>8, <3>2
    <3>3. QED
      BY <1>2, <3>1, <3>2
  <2>2. QED
    BY <2>1 DEF PathsIn
<1>10. EndsIn(graph, back', best)
  BY <1>8 DEF LevelInv, EndsIn
<1>11. QED
  BY <1>2, <1>3, <1>5, <1>9, <1>10

(* The step changes only the loop positions. *)
LEMMA LevelMove ==
  ASSUME LevelInv, pc = "search", Positioned(cur'), level' \in 0 .. Len(prefix) + 1,
         UNCHANGED << class, graph, prefix, space, partial, pc, back, best >>
  PROVE  LevelInv'
BY DEF LevelInv, PlainTypes, Restful, Positioned

LEMMA LevelJumpStep ==
  ASSUME LevelInv, Level!process_jump
  PROVE  LevelInv'
<1> DEFINE new == Level!Continue(IF Level!Back.jump = 0 THEN 1 ELSE 0, Level!Back.matched, 1)
<1>1. Level!AtTransition /\ pc = "search"
  BY DEF Level!process_jump, Level!AtTransition, Level!AtBack, Level!AtState
<1>2. Positioned(cur')
  BY LevelCur DEF Level!process_jump, Positioned
<1>3. UNCHANGED << class, graph, prefix, space, partial, pc, level, best >>
  BY DEF Level!process_jump, Level!searchVars
<1>4. CASE Level!Jumping /\ Level!Back.jump \in {0, 1}
  <2>1. IsExtension(new)
    BY <1>1, ContinueIsExtension, LevelPositions
  <2>2. back' = [back EXCEPT ![Level!Trans.to] = Level!Record(@, new)]
    BY <1>4 DEF Level!process_jump
  <2>3. /\ back' \in [States(graph) -> Seq(PathType)]
        /\ back'[0] = back[0]
        /\ OpenIn(graph, back', Len(prefix))
        /\ PathsIn(graph, back', Len(prefix))
        /\ EndsIn(graph, back', best)
    <3> HIDE DEF new
    <3>1. QED
      BY <1>1, <2>1, <2>2, LevelRecorded
  <2>4. QED
    BY <1>1, <1>2, <1>3, <2>3 DEF LevelInv, PlainTypes, Restful, Positioned
<1>5. CASE ~(Level!Jumping /\ Level!Back.jump \in {0, 1})
  <2>1. back' = back
    BY <1>5 DEF Level!process_jump
  <2>2. level' \in 0 .. Len(prefix) + 1
    BY <1>3 DEF LevelInv, PlainTypes
  <2>3. QED
    BY <1>1, <1>2, <1>3, <2>1, <2>2, LevelMove
<1>6. QED
  BY <1>4, <1>5

LEMMA LevelMatchStep ==
  ASSUME LevelInv, Level!process_match
  PROVE  LevelInv'
<1> DEFINE m == Level!Matches[cur.mi]
<1>1. Level!AtTransition /\ pc = "search" /\ cur.mi > 0 /\ cur.mi <= Len(Level!Matches)
  BY DEF Level!process_match, Level!AtTransition, Level!AtBack, Level!AtState
<1>2. m.error \in Nat /\ m.pm \in Level!Back.matched + 1 .. Len(prefix) /\ m.tm \in Nat
  BY <1>1, LevelMatch
<1>3. Positioned(cur')
  BY LevelCur DEF Level!process_match, Positioned
<1>4. UNCHANGED << class, graph, prefix, space, partial, pc, level >>
  BY DEF Level!process_match, Level!searchVars
<1>5. level' \in 0 .. Len(prefix) + 1
  BY <1>4 DEF LevelInv, PlainTypes
<1>6. CASE Level!MatchOn(m)
  <2> DEFINE new == Level!Continue(m.error, m.pm, IF Level!Back.jump = 0 THEN 0 ELSE 2)
  <2>1. m.pm \in Level!Back.matched .. Len(prefix) - 1
    <3>1. m.pm < Len(prefix) /\ Level!Back.matched \in Nat /\ Len(prefix) \in Nat
      BY <1>1, <1>6, LevelPositions, LevelCur DEF Level!MatchOn, PathType
    <3> HIDE DEF m
    <3>2. QED
      BY <1>2, <3>1
  <2>2. IsExtension(new)
    BY <1>1, <1>2, <2>1, ContinueIsExtension
  <2>3. back' = [back EXCEPT ![Level!Trans.to] = Level!Record(@, new)] /\ best' = best
    BY <1>6 DEF Level!MatchOn
  <2>4. /\ back' \in [States(graph) -> Seq(PathType)]
        /\ back'[0] = back[0]
        /\ OpenIn(graph, back', Len(prefix))
        /\ PathsIn(graph, back', Len(prefix))
        /\ EndsIn(graph, back', best)
    <3> HIDE DEF new
    <3>1. QED
      BY <1>1, <2>2, <2>3, LevelRecorded
  <2>5. QED
    BY <1>1, <1>3, <1>4, <2>3, <2>4 DEF LevelInv, PlainTypes, Restful, Positioned
<1>7. CASE Level!Complete(m)
  <2> DEFINE error == Level!Back.error + m.error
             new   == [score |-> Level!Back.score + Level!Trans.score
                                   + graph.fscore[Level!Trans.to],
                       from |-> cur.st, tr |-> cur.ti, tm |-> m.tm, pm |-> m.pm,
                       bmatched |-> Level!Back.matched, bjump |-> Level!Back.jump]
  <2>1. back' = back
    BY <1>7 DEF Level!Complete
  <2>2. error \in Nat
    <3>1. Level!Back.error \in Nat
      BY <1>1, LevelPositions DEF PathType
    <3> HIDE DEF m
    <3>2. QED
      BY <1>2, <3>1
  <2>3. LinkIn(graph, back, << new.from, new.tr, new.bmatched, new.bjump >>)
    <3>1. cur.st \in States(graph) /\ cur.bi \in DOMAIN back[cur.st]
          /\ cur.ti \in DOMAIN graph.trans[cur.st]
      BY <1>1, LevelPositions
    <3>2. QED
      BY <3>1 DEF LinkIn, Level!Back
  <2>4. \/ best' = best
        \/ best' = [e \in DOMAIN best \cup {error} |-> IF e = error THEN new ELSE best[e]]
    BY <1>7 DEF Level!Complete
  <2> HIDE DEF new, error
  <2>5. EndsIn(graph, back, best')
    <3>1. EndsIn(graph, back, best)
      BY DEF LevelInv
    <3>2. CASE best' = best
      BY <3>1, <3>2
    <3>3. CASE best' = [e \in DOMAIN best \cup {error} |-> IF e = error THEN new ELSE best[e]]
      <4>1. DOMAIN best' \subseteq Nat
        BY <2>2, <3>1, <3>3 DEF EndsIn
      <4>2. \A e \in DOMAIN best' : best'[e] = new \/ (e \in DOMAIN best /\ best'[e] = best[e])
        BY <3>3
      <4>3. QED
        BY <2>3, <3>1, <4>1, <4>2 DEF EndsIn
    <3>4. QED
      BY <2>4, <3>2, <3>3
  <2>6. QED
    BY <1>1, <1>3, <1>4, <2>1, <2>5 DEF LevelInv, PlainTypes, Restful, Positioned
<1>8. QED
  BY <1>6, <1>7 DEF Level!process_match

LevelLoop == \/ Level!NextTransition \/ Level!NextBack \/ Level!NextState
             \/ Level!NextLevel

LEMMA LevelLoopStep ==
  ASSUME LevelInv, LevelLoop
  PROVE  LevelInv'
<1>1. /\ graph.n \in Nat \ {0} /\ cur.st \in 0 .. graph.n
      /\ cur = [st |-> cur.st, bi |-> cur.bi, ti |-> cur.ti, mi |-> cur.mi]
      /\ cur.bi \in Nat \ {0} /\ cur.ti \in Nat \ {0} /\ cur.mi \in Nat
      /\ graph \in LevelGraphs
  BY LevelCur DEF Positioned
<1>2. cur.ti + 1 \in Nat \ {0} /\ cur.bi + 1 \in Nat \ {0}
  BY <1>1
<1>3. level \in 0 .. Len(prefix) + 1 /\ Len(prefix) \in Nat
  BY LevelCur DEF LevelInv, PlainTypes
<1>4. pc = "search" /\ UNCHANGED << class, graph, prefix, space, partial, pc, back, best >>
  BY DEF LevelLoop, Level!NextTransition, Level!NextBack, Level!NextState, Level!NextLevel,
         Level!searchVars, Level!AtTransition, Level!AtBack, Level!AtState, Level!EndOfPass
<1>5. CASE Level!NextTransition
  <2>1. cur' = [st |-> cur.st, bi |-> cur.bi, ti |-> cur.ti + 1, mi |-> 0] /\ level' = level
    BY <1>1, <1>5 DEF Level!NextTransition, Level!searchVars
  <2>2. Positioned(cur')
    BY <1>1, <1>2, <2>1 DEF Positioned
  <2>3. QED
    BY <1>3, <1>4, <2>1, <2>2, LevelMove
<1>6. CASE Level!NextBack
  <2>1. cur' = [st |-> cur.st, bi |-> cur.bi + 1, ti |-> 1, mi |-> cur.mi] /\ level' = level
    BY <1>1, <1>6 DEF Level!NextBack, Level!searchVars
  <2>2. Positioned(cur')
    BY <1>1, <1>2, <2>1 DEF Positioned
  <2>3. QED
    BY <1>3, <1>4, <2>1, <2>2, LevelMove
<1>7. CASE Level!NextState
  <2>1. cur' = [st |-> cur.st + 1, bi |-> 1, ti |-> cur.ti, mi |-> cur.mi] /\ level' = level
        /\ cur.st < graph.n
    BY <1>1, <1>7 DEF Level!NextState, Level!searchVars, Level!AtState
  <2>2. cur.st + 1 \in 0 .. graph.n
    BY <1>1, <2>1
  <2>3. Positioned(cur')
    BY <1>1, <2>1, <2>2 DEF Positioned
  <2>4. QED
    BY <1>3, <1>4, <2>1, <2>3, LevelMove
<1>8. CASE Level!NextLevel
  <2>1. cur' = Level!Start /\ level' = level + 1 /\ level <= Len(prefix)
    BY <1>8 DEF Level!NextLevel, Level!EndOfPass
  <2>2. Positioned(cur')
    BY <1>1, <2>1, LevelGraph DEF Positioned
  <2>3. level' \in 0 .. Len(prefix) + 1
    BY <1>3, <2>1
  <2>4. QED
    BY <1>4, <2>2, <2>3, LevelMove
<1>9. QED
  BY <1>5, <1>6, <1>7, <1>8 DEF LevelLoop

(* A graph no path of which is recorded. *)
LEMMA LevelCleared ==
  ASSUME NEW g \in LevelGraphs, NEW n,
         NEW bk, bk = [s \in States(g) |-> << >>]
  PROVE  /\ bk \in [States(g) -> Seq(PathType)]
         /\ PathsIn(g, bk, n) /\ OpenIn(g, bk, n) /\ EndsIn(g, bk, << >>)
         /\ bk[0] = << >>
<1>1. bk \in [States(g) -> Seq(PathType)] /\ bk[0] = << >>
  BY LevelGraph
<1>2. QED
  BY <1>1 DEF PathsIn, OpenIn, EndsIn

LEMMA LevelInitStep ==
  ASSUME Level!Init
  PROVE  LevelInv
<1>1. /\ class \in LevelClasses /\ graph \in LevelGraphs /\ prefix = << >>
      /\ space = FALSE /\ partial = {} /\ back = [s \in States(graph) |-> << >>]
      /\ best = << >> /\ pc = "idle" /\ level = 0 /\ cur = Level!Start
  BY DEF Level!Init, Level!States, States
<1>2. prefix \in Seq(Words) /\ Len(prefix) = 0
  BY <1>1
<1>3. Positioned(cur)
  BY <1>1, LevelGraph DEF Positioned
<1>4. PlainTypes /\ Restful
  <2>1. level \in 0 .. Len(prefix) + 1
    BY <1>1, <1>2
  <2>2. FALSE \in BOOLEAN /\ {} \subseteq Words
    OBVIOUS
  <2>3. PlainTypes
    BY <1>1, <1>2, <1>3, <2>1, <2>2, Zenon DEF PlainTypes
  <2>4. QED
    BY <1>1, <2>3 DEF Restful
<1>5. QED
  BY <1>1, <1>4, LevelCleared DEF LevelInv

LEMMA LevelNewSentence ==
  ASSUME LevelInv, NEW g \in LevelGraphs, Level!createGraph(g)
  PROVE  LevelInv'
<1>1. /\ graph' = g /\ prefix' = << >> /\ space' = FALSE /\ partial' = {}
      /\ back' = [s \in States(g) |-> << >>] /\ best' = << >> /\ pc = "idle"
      /\ class' = class /\ pc' = pc /\ level' = level /\ cur' = cur
  BY DEF Level!createGraph, Level!States, States
<1>2. class \in LevelClasses /\ cur = Level!Start /\ level = 0
  BY <1>1 DEF LevelInv, PlainTypes, Restful
<1>3. prefix' \in Seq(Words) /\ Len(prefix') = 0
  BY <1>1
<1>4. PlainTypes'
  <2>1. Positioned(cur)'
    BY <1>1, <1>2, LevelGraph DEF Positioned
  <2>2. level' \in 0 .. Len(prefix') + 1
    BY <1>1, <1>2, <1>3
  <2>3. FALSE \in BOOLEAN /\ {} \subseteq Words /\ pc' \in {"idle", "search"}
        /\ class' \in LevelClasses'
    BY <1>1, <1>2 DEF LevelClasses
  <2>4. space' \in BOOLEAN /\ partial' \subseteq Words /\ graph' \in LevelGraphs
    BY <1>1, <2>3
  <2>5. QED
    BY <1>3, <2>1, <2>2, <2>3, <2>4, Zenon DEF PlainTypes
<1>5. Restful'
  BY <1>1, <1>2 DEF Restful
<1>6. QED
  BY <1>1, <1>4, <1>5, LevelCleared DEF LevelInv

LEMMA LevelAnswerStep ==
  ASSUME LevelInv, Level!Answer
  PROVE  LevelInv'
<1>1. /\ back' = [s \in States(graph) |-> << >>] /\ best' = << >> /\ pc' = "idle"
      /\ level' = 0 /\ cur' = Level!Start
      /\ UNCHANGED << class, graph, prefix, space, partial >>
  BY DEF Level!Answer, Level!States, States
<1>2. class \in LevelClasses /\ graph \in LevelGraphs /\ prefix \in Seq(Words)
      /\ space \in BOOLEAN /\ partial \subseteq Words /\ Len(prefix) \in Nat
  BY LevelCur DEF LevelInv, PlainTypes
<1>3. PlainTypes'
  <2>1. Positioned(cur)'
    BY <1>1, <1>2, LevelGraph DEF Positioned
  <2>2. QED
    BY <1>1, <1>2, <2>1 DEF PlainTypes
<1>4. Restful'
  BY <1>1 DEF Restful
<1>5. QED
  BY <1>1, <1>2, <1>3, <1>4, LevelCleared DEF LevelInv

LEMMA LevelFailStep ==
  ASSUME LevelInv, Level!Fail
  PROVE  LevelInv'
<1>1. /\ pc' = "idle" /\ level' = 0 /\ cur' = Level!Start
      /\ UNCHANGED << class, graph, prefix, space, partial, back, best >>
  BY DEF Level!Fail
<1>2. graph \in LevelGraphs /\ Len(prefix) \in Nat
  BY LevelCur
<1>3. Positioned(cur)'
  BY <1>1, <1>2, LevelGraph DEF Positioned
<1>4. PlainTypes'
  BY <1>1, <1>2, <1>3 DEF LevelInv, PlainTypes
<1>5. Restful'
  BY <1>1 DEF Restful
<1>6. QED
  BY <1>1, <1>4, <1>5 DEF LevelInv

(* A request starts on what earlier requests, which failed, have left. *)
LEMMA LevelRequestStep ==
  ASSUME LevelInv, NEW r \in LevelRequests, Level!getPrefix(r)
  PROVE  /\ LevelInv' /\ Len(prefix) <= Len(r.tokens)
         /\ back'[0] = Append(back[0], Level!InitialBack)
<1>1. /\ r.tokens \in Seq(Words) /\ r.tokens # << >> /\ r.space \in BOOLEAN
      /\ Len(r.tokens) \in Nat
  BY ClassesAssumption DEF Level!RequestsAssumption
<1>2. /\ prefix' = r.tokens /\ space' = r.space /\ level' = 0 /\ cur' = Level!Start
      /\ pc' = "search" /\ back' = [back EXCEPT ![0] = Append(@, Level!InitialBack)]
      /\ UNCHANGED << class, graph, best >> /\ partial' \subseteq Words
  BY LevelCur DEF Level!getPrefix
<1>3. Len(prefix) <= Len(r.tokens) /\ Len(prefix) \in Nat
  BY <1>1, LevelCur DEF Level!getPrefix, Level!Extends
<1>4. Level!InitialBack \in PathType
  BY DEF Level!InitialBack, PathType
<1>5. /\ back' \in [States(graph) -> Seq(PathType)]
      /\ \A s \in States(graph) \ {0} : back'[s] = back[s]
      /\ back[0] \in Seq(PathType) /\ back'[0] = Append(back[0], Level!InitialBack)
      /\ 0 \in States(graph) /\ graph \in LevelGraphs
  BY <1>2, <1>4, LevelCur DEF LevelInv
<1>6. /\ \A s \in States(graph) : \A x \in DOMAIN back'[s] :
           \/ x \in DOMAIN back[s] /\ back'[s][x] = back[s][x]
           \/ s = 0 /\ back'[s][x] = Level!InitialBack
      /\ \A s \in States(graph) : \A x \in DOMAIN back[s] :
           x \in DOMAIN back'[s] /\ back'[s][x] = back[s][x]
  <2> DEFINE q == back[0]
             v == Level!InitialBack
  <2>1. q \in Seq(PathType) /\ v \in PathType
    BY <1>4, <1>5
  <2> HIDE DEF q, v
  <2>2. /\ \A x \in DOMAIN Append(q, v) :
             (x \in DOMAIN q /\ Append(q, v)[x] = q[x]) \/ Append(q, v)[x] = v
        /\ \A x \in DOMAIN q : x \in DOMAIN Append(q, v) /\ Append(q, v)[x] = q[x]
    BY <2>1
  <2>3. QED
    BY <1>5, <2>2 DEF q, v
<1>7. back'[0] # << >>
  BY <1>4, <1>5
<1>8. PlainTypes' /\ Restful'
  <2>1. Positioned(cur)'
    BY <1>2, <1>5, LevelGraph DEF Positioned
  <2>2. class \in LevelClasses
    BY DEF LevelInv, PlainTypes
  <2>3. QED
    BY <1>1, <1>2, <1>5, <1>7, <2>1, <2>2 DEF PlainTypes, Restful
<1>9. \A k \in Nat : k <= Len(prefix) => k <= Len(r.tokens)
  BY <1>1, <1>3
<1>10. \A s \in States(graph) : \A x \in DOMAIN back[s] : back[s][x].matched \in Nat
  <2>1. \A s \in States(graph) : \A x \in DOMAIN back[s] : back[s][x] \in PathType
    BY DEF LevelInv
  <2>2. QED
    BY <2>1 DEF PathType
<1>11. OpenIn(graph, back', Len(r.tokens))
  <2>1. \A s \in States(graph) : \A x \in DOMAIN back[s] : back[s][x].matched < Len(r.tokens)
    BY <1>1, <1>3, <1>10 DEF LevelInv, OpenIn
  <2>2. Level!InitialBack.matched < Len(r.tokens)
    BY <1>1 DEF Level!InitialBack
  <2>3. QED
    BY <1>6, <2>1, <2>2 DEF OpenIn
<1>12. /\ \A b : LinkIn(graph, back, b) => LinkIn(graph, back', b)
       /\ \A k, s, b : PathIn(graph, back, k, s, b) => PathIn(graph, back', k, s, b)
  <2>1. \A s \in States(graph) : \A x \in DOMAIN back[s] :
          x \in DOMAIN back'[s] /\ SameKey(back'[s][x], back[s][x])
    BY <1>6 DEF SameKey
  <2>2. QED
    BY <2>1, LinksStay
<1>13. PathsIn(graph, back', Len(r.tokens))
  <2>1. ASSUME NEW s \in States(graph), NEW x \in DOMAIN back'[s]
        PROVE  PathIn(graph, back', Len(r.tokens), s, back'[s][x])
    <3>1. CASE x \in DOMAIN back[s] /\ back'[s][x] = back[s][x]
      <4>1. PathIn(graph, back', Len(prefix), s, back[s][x])
        BY <1>12, <3>1 DEF LevelInv, PathsIn
      <4>2. \A k \in 0 .. Len(prefix) : k \in 0 .. Len(r.tokens)
        BY <1>1, <1>3
      <4>3. QED
        BY <3>1, <4>1, <4>2 DEF PathIn
    <3>2. CASE s = 0 /\ back'[s][x] = Level!InitialBack
      <4>1. 0 \in 0 .. Len(r.tokens)
        BY <1>1
      <4>2. PathIn(graph, back', Len(r.tokens), 0, Level!InitialBack)
        BY <4>1 DEF PathIn, Level!InitialBack
      <4>3. QED
        BY <3>2, <4>2
    <3>3. QED
      BY <1>6, <3>1, <3>2
  <2>2. QED
    BY <2>1 DEF PathsIn
<1>14. EndsIn(graph, back', best)
  BY <1>12 DEF LevelInv, EndsIn
<1>15. LevelInv'
  BY <1>2, <1>5, <1>8, <1>11, <1>13, <1>14 DEF LevelInv
<1>16. QED
  BY <1>3, <1>5, <1>15

(* Every step keeps the invariant. *)
LEMMA LevelStepKeeps ==
  ASSUME LevelInv, Level!Next
  PROVE  LevelInv'
<1>1. CASE \E g \in LevelGraphs : Level!createGraph(g)
  BY <1>1, LevelNewSentence
<1>2. CASE \E r \in LevelRequests : Level!getPrefix(r)
  BY <1>2, LevelRequestStep
<1>3. CASE LevelLoop
  BY <1>3, LevelLoopStep
<1>4. QED
  BY <1>1, <1>2, <1>3, LevelJumpStep, LevelMatchStep, LevelAnswerStep, LevelFailStep
     DEF Level!Next, Level!Step, LevelLoop

LevelHolds == class \in LevelClasses => LevelInv

(* The classes of the server are told apart. *)
LEMMA OtherClasses ==
  /\ class \in {"WeightedCaitra", "Window", "WordVec", "ECModel"} => class \notin LevelClasses
BY DEF LevelClasses

LEMMA LevelInitially == Init => LevelHolds
BY LevelInitStep, OtherClasses DEF Init, LevelHolds

LEMMA LevelKept ==
  ASSUME LevelHolds, [Next]_vars
  PROVE  LevelHolds'
<1>1. CASE LevelNext
  BY <1>1, LevelStepKeeps DEF LevelNext, LevelHolds
<1>2. CASE PlainNext \/ WindowNext \/ VectorNext \/ ECNext
  <2>1. class' = class /\ class \in {"WeightedCaitra", "Window", "WordVec", "ECModel"}
    BY <1>2 DEF PlainNext, WindowNext, VectorNext, ECNext
  <2>2. LevelClasses' = LevelClasses
    BY DEF LevelClasses
  <2>3. QED
    BY <2>1, <2>2, OtherClasses DEF LevelHolds
<1>3. CASE UNCHANGED vars
  <2>1. UNCHANGED << class, graph, prefix, space, partial, back, best, pc, cur, level >>
    BY <1>3 DEF vars, levelMembers
  <2>2. QED
    BY <2>1 DEF LevelHolds, LevelInv, PlainTypes, Restful, Positioned
<1>4. QED
  BY <1>1, <1>2, <1>3 DEF Next

LEMMA LevelAlways == Spec => []LevelHolds
<1>1. LevelHolds /\ [Next]_vars => LevelHolds'
  BY LevelKept
<1>2. QED
  BY <1>1, LevelInitially, PTL DEF Spec

-------------------------------------------------------------------------
(* When some phrase can be laid against the whole prefix at once, a search *)
(* comes to a completion: either that phrase is still to be laid against   *)
(* the prefix, or one of its matches that consume the prefix is still to   *)
(* come, or a completion with no fewer errors than the present number, and *)
(* no more than there are tokens, is recorded.                             *)

(* The matches of a phrase from the empty hypothesis. *)
FirstMatches(k) ==
  IF class = "MainCaitra"
    THEN LenientMatches(prefix, 0, graph.trans[0][k].output, partial)
    ELSE StrictMatches(prefix, 0, graph.trans[0][k].output, partial, space)

(* Number y of them consumes the prefix. *)
Reaches(k, y) ==
  /\ k \in DOMAIN graph.trans[0] /\ y \in DOMAIN FirstMatches(k)
  /\ FirstMatches(k)[y].pm = Len(prefix) /\ FirstMatches(k)[y].error <= Len(prefix)

Ahead(k, y) == cur.ti < k \/ (cur.ti = k /\ cur.mi <= y)

AtRoot == level = 0 /\ cur.st = 0 /\ cur.bi = 1

ToCome == AtRoot /\ \E k, y \in Nat : Reaches(k, y) /\ Ahead(k, y)

Came == \E e \in DOMAIN best : level <= e /\ e <= Len(prefix)

Hopeful ==
  pc = "search" /\ Level!EndsAtOnce => level <= Len(prefix) /\ (ToCome \/ Came)

asked == << class, graph, prefix, space, partial >>

LEMMA SameAsked ==
  ASSUME UNCHANGED asked
  PROVE  /\ Level!EndsAtOnce' = Level!EndsAtOnce
         /\ \A k, y : Reaches(k, y)' <=> Reaches(k, y)
<1>1. UNCHANGED << class, graph, prefix, space, partial >>
  BY DEF asked
<1>2. Level!EndsAtOnce' = Level!EndsAtOnce
  BY <1>1 DEF Level!EndsAtOnce
<1>3. ASSUME NEW k, NEW y PROVE Reaches(k, y)' <=> Reaches(k, y)
  <2>1. FirstMatches(k)' = FirstMatches(k)
    BY <1>1 DEF FirstMatches
  <2>2. QED
    BY <1>1, <2>1 DEF Reaches
<1>4. QED
  BY <1>2, <1>3

LEMMA FirstPath ==
  ASSUME LevelInv, pc = "search"
  PROVE  /\ 1 \in DOMAIN back[0] /\ back[0][1] = Level!InitialBack
         /\ Len(back[0]) >= 1 /\ Len(back[0]) \in Nat
<1>1. 0 \in States(graph) /\ back[0] \in Seq(PathType) /\ back[0] # << >>
  BY LevelCur DEF LevelInv, Restful
<1>2. 1 \in DOMAIN back[0] /\ Len(back[0]) >= 1 /\ Len(back[0]) \in Nat
  BY <1>1
<1>3. back[0][1] = Level!InitialBack
  BY <1>1, <1>2 DEF LevelInv, PathsIn, PathIn
<1>4. QED
  BY <1>2, <1>3

(* The matches of a phrase from the empty hypothesis are matches. *)
LEMMA FirstMatchesTyped ==
  ASSUME LevelInv, pc = "search", NEW k \in DOMAIN graph.trans[0]
  PROVE  FirstMatches(k) \in Seq(MatchType(prefix, 0, graph.trans[0][k].output))
<1>1. graph.trans[0] \in Seq(TransitionType)
  BY LevelCur DEF GraphType
<1>2. graph.trans[0][k] \in TransitionType
  BY <1>1
<1>3. graph.trans[0][k].output \in Seq(Words)
  BY <1>2 DEF TransitionType
<1>4. prefix \in Seq(Words) /\ 0 \in 0 .. Len(prefix) - 1
  <2>1. prefix # << >>
    BY DEF LevelInv, Restful
  <2>2. QED
    BY <2>1, LevelCur
<1>5. /\ LenientMatches(prefix, 0, graph.trans[0][k].output, partial)
           \in Seq(MatchType(prefix, 0, graph.trans[0][k].output))
      /\ StrictMatches(prefix, 0, graph.trans[0][k].output, partial, space)
           \in Seq(MatchType(prefix, 0, graph.trans[0][k].output))
  BY <1>3, <1>4, MatchesTyped
<1>6. QED
  BY <1>5 DEF FirstMatches

(* As long as such a match is still to come, the search is at the phrases  *)
(* from the empty hypothesis, and lays the present one against the prefix. *)
LEMMA AtFirst ==
  ASSUME LevelInv, pc = "search", AtRoot, NEW k, NEW y, Reaches(k, y), Ahead(k, y)
  PROVE  /\ Level!AtTransition /\ Level!Back = Level!InitialBack
         /\ Level!Matches = FirstMatches(cur.ti)
         /\ cur.ti \in Nat /\ cur.mi \in Nat /\ k \in Nat
         /\ y \in 1 .. Len(FirstMatches(k)) /\ Len(FirstMatches(k)) \in Nat
<1>1. cur.st = 0 /\ cur.bi = 1 /\ level = 0 /\ cur.ti \in Nat \ {0} /\ cur.mi \in Nat
  BY LevelCur DEF AtRoot, Positioned
<1>2. graph.n > 0 /\ Len(prefix) \in Nat /\ graph.trans[0] \in Seq(TransitionType)
      /\ 0 \in States(graph)
  BY LevelCur DEF GraphType
<1>3. Level!AtBack
  BY <1>1, <1>2, FirstPath DEF Level!AtBack, Level!AtState
<1>4. Level!Back = Level!InitialBack
  BY <1>1, FirstPath DEF Level!Back
<1>5. Level!Back.error = 0 /\ Level!Back.matched = 0
  BY <1>4 DEF Level!InitialBack
<1>6. k \in DOMAIN graph.trans[0] /\ y \in DOMAIN FirstMatches(k)
  BY DEF Reaches
<1>7. k \in Nat /\ k <= Len(graph.trans[0]) /\ Len(graph.trans[0]) \in Nat
  BY <1>2, <1>6
<1>8. cur.ti <= k
  BY <1>1, <1>7 DEF Ahead
<1>9. Level!AtTransition
  BY <1>1, <1>3, <1>5, <1>7, <1>8 DEF Level!AtTransition
<1>10. Level!Matches = FirstMatches(cur.ti)
  BY <1>1, <1>5
     DEF Level!Matches, FirstMatches, Level!Trans, Level!Lenient, LenientMatches,
         Level!Strict, StrictMatches
<1>11. y \in 1 .. Len(FirstMatches(k)) /\ Len(FirstMatches(k)) \in Nat
  <2> DEFINE q == FirstMatches(k)
             M == MatchType(prefix, 0, graph.trans[0][k].output)
  <2>1. q \in Seq(M) /\ y \in DOMAIN q
    BY <1>6, FirstMatchesTyped
  <2> HIDE DEF q, M
  <2>2. y \in 1 .. Len(q) /\ Len(q) \in Nat
    BY <2>1
  <2>3. QED
    BY <2>2 DEF q
<1>12. QED
  BY <1>1, <1>4, <1>7, <1>9, <1>10, <1>11

(* The steps of the loop that record nothing. *)
LEMMA HopeMove ==
  ASSUME LevelInv, Hopeful,
         LevelLoop \/ Level!process_jump
  PROVE  Hopeful'
<1>1. UNCHANGED asked /\ UNCHANGED << prefix, pc, best >> /\ pc = "search"
  BY DEF LevelLoop, Level!NextTransition, Level!NextBack, Level!NextState, Level!NextLevel,
         Level!process_jump, asked,
         Level!searchVars, Level!AtTransition, Level!AtBack, Level!AtState, Level!EndOfPass
<1> SUFFICES ASSUME pc' = "search", Level!EndsAtOnce'
             PROVE  level' <= Len(prefix)' /\ (ToCome' \/ Came')
  BY DEF Hopeful
<1>2. level <= Len(prefix) /\ (ToCome \/ Came) /\ level \in Nat /\ Len(prefix) \in Nat
  BY <1>1, SameAsked, LevelCur DEF Hopeful
<1>3. CASE Level!NextLevel
  <2>1. level \notin DOMAIN best /\ level' = level + 1 /\ cur.st = graph.n
    BY <1>3 DEF Level!NextLevel, Level!EndOfPass
  <2>2. ~ToCome
    <3>1. graph.n # 0
      BY LevelCur
    <3>2. QED
      BY <2>1, <3>1 DEF ToCome, AtRoot
  <2>3. PICK e \in DOMAIN best : level <= e /\ e <= Len(prefix)
    BY <1>2, <2>2 DEF Came
  <2>4. e \in Nat /\ e # level
    BY <2>1, <2>3 DEF LevelInv, EndsIn
  <2>5. level' <= e /\ level' <= Len(prefix)
    BY <1>2, <2>1, <2>3, <2>4
  <2>6. QED
    BY <1>1, <2>3, <2>5 DEF Came
<1>4. CASE Level!process_jump \/ Level!NextTransition \/ Level!NextBack \/ Level!NextState
  <2>1. level' = level
    BY <1>4 DEF Level!NextTransition, Level!NextBack, Level!NextState,
                Level!process_jump, Level!searchVars
  <2>2. CASE Came
    BY <1>1, <1>2, <2>1, <2>2 DEF Came
  <2>3. CASE ToCome
    <3>1. PICK k, y \in Nat : Reaches(k, y) /\ Ahead(k, y)
      BY <2>3 DEF ToCome
    <3>2. AtRoot
      BY <2>3 DEF ToCome
    <3>3. /\ Level!AtTransition /\ Level!Matches = FirstMatches(cur.ti)
          /\ cur.ti \in Nat /\ cur.mi \in Nat /\ k \in Nat
          /\ y \in 1 .. Len(FirstMatches(k)) /\ Len(FirstMatches(k)) \in Nat
      BY <1>1, <3>1, <3>2, AtFirst
    <3>4. cur = [st |-> cur.st, bi |-> cur.bi, ti |-> cur.ti, mi |-> cur.mi]
      BY LevelCur DEF Positioned
    <3>5. cur'.st = cur.st /\ cur'.bi = cur.bi /\ Ahead(k, y)'
      <4>1. CASE Level!process_jump
        <5>1. /\ cur'.st = cur.st /\ cur'.bi = cur.bi /\ cur'.ti = cur.ti /\ cur'.mi = 1
          BY <3>4, <4>1 DEF Level!process_jump
        <5>2. QED
          BY <3>1, <3>3, <5>1 DEF Ahead
      <4>2. CASE Level!NextTransition
        <5>1. /\ cur'.st = cur.st /\ cur'.bi = cur.bi
              /\ cur'.ti = cur.ti + 1 /\ cur'.mi = 0
          BY <3>4, <4>2 DEF Level!NextTransition
        <5>2. cur.mi > Len(FirstMatches(cur.ti))
          BY <3>3, <4>2 DEF Level!NextTransition
        <5>3. cur.ti < k
          <6>1. CASE cur.ti = k
            <7>1. cur.mi <= y /\ cur.mi > Len(FirstMatches(k))
              BY <3>1, <3>3, <5>2, <6>1 DEF Ahead
            <7>2. QED
              BY <3>3, <7>1
          <6>2. QED
            BY <3>1, <6>1 DEF Ahead
        <5>4. QED
          BY <3>1, <3>3, <5>1, <5>3 DEF Ahead
      <4>3. CASE Level!NextBack
        <5>1. cur.ti \in 1 .. Len(graph.trans[cur.st]) /\ Level!Back.error = level
          <6>1. cur.ti \in DOMAIN graph.trans[cur.st] /\ cur.st \in States(graph)
            BY <3>3, LevelPositions
          <6>2. graph.trans[cur.st] \in Seq(TransitionType)
            BY <6>1, LevelCur DEF GraphType
          <6>3. QED
            BY <3>3, <6>1, <6>2 DEF Level!AtTransition
        <5>2. QED
          BY <4>3, <5>1 DEF Level!NextBack
      <4>4. CASE Level!NextState
        <5>1. cur.bi \in 1 .. Len(back[cur.st])
          <6>1. cur.bi \in DOMAIN back[cur.st] /\ cur.st \in States(graph)
            BY <3>3, LevelPositions
          <6>2. back[cur.st] \in Seq(PathType)
            BY <6>1 DEF LevelInv
          <6>3. QED
            BY <6>1, <6>2
        <5>2. QED
          BY <4>4, <5>1 DEF Level!NextState
      <4>5. QED
        BY <1>4, <4>1, <4>2, <4>3, <4>4
    <3>6. AtRoot'
      BY <2>1, <3>2, <3>5 DEF AtRoot
    <3>7. Reaches(k, y)'
      BY <1>1, <3>1, SameAsked
    <3>8. ToCome'
      BY <3>1, <3>5, <3>6, <3>7 DEF ToCome
    <3>9. QED
      BY <1>1, <1>2, <2>1, <3>8
  <2>4. QED
    BY <1>2, <2>2, <2>3
<1>5. QED
  BY <1>3, <1>4 DEF LevelLoop

LEMMA HopeMatch ==
  ASSUME LevelInv, Hopeful, Level!process_match
  PROVE  Hopeful'
<1> DEFINE m == Level!Matches[cur.mi]
<1>1. /\ UNCHANGED asked /\ UNCHANGED << prefix, pc, level >> /\ pc = "search"
      /\ Level!AtTransition /\ cur.mi > 0 /\ cur.mi <= Len(Level!Matches)
  BY DEF Level!process_match, Level!searchVars, Level!AtTransition, Level!AtBack,
         Level!AtState, asked
<1> SUFFICES ASSUME pc' = "search", Level!EndsAtOnce'
             PROVE  level' <= Len(prefix)' /\ (ToCome' \/ Came')
  BY DEF Hopeful
<1>2. level <= Len(prefix) /\ (ToCome \/ Came) /\ level \in Nat /\ Len(prefix) \in Nat
  BY <1>1, SameAsked, LevelCur DEF Hopeful
<1>3. DOMAIN best \subseteq DOMAIN best'
  BY DEF Level!process_match, Level!MatchOn, Level!Complete
<1>4. CASE Came
  BY <1>1, <1>2, <1>3, <1>4 DEF Came
<1>5. CASE ToCome
  <2>1. PICK k, y \in Nat : Reaches(k, y) /\ Ahead(k, y)
    BY <1>5 DEF ToCome
  <2>2. AtRoot
    BY <1>5 DEF ToCome
  <2>3. /\ Level!Back = Level!InitialBack /\ Level!Matches = FirstMatches(cur.ti)
        /\ cur.ti \in Nat /\ cur.mi \in Nat
    BY <1>1, <2>1, <2>2, AtFirst
  <2>4. cur'.st = cur.st /\ cur'.bi = cur.bi /\ cur'.ti = cur.ti
        /\ cur'.mi = cur.mi + 1
    BY LevelCur DEF Positioned, Level!process_match
  <2>5. CASE cur.ti = k /\ cur.mi = y
    <3>1. m.pm = Len(prefix) /\ m.error <= Len(prefix)
      BY <2>1, <2>3, <2>5 DEF Reaches
    <3>2. m.error \in Nat
      BY <1>1, LevelMatch
    <3>3. Level!Complete(m)
      BY <1>2, <3>1 DEF Level!process_match, Level!MatchOn
    <3>4. Level!Back.error + m.error = m.error
      <4>1. Level!Back.error = 0
        BY <2>3 DEF Level!InitialBack
      <4> HIDE DEF m
      <4>2. QED
        BY <3>2, <4>1
    <3>5. Level!Back.error + m.error \in DOMAIN best'
      <4> HIDE DEF m
      <4>1. QED
        BY <3>3 DEF Level!Complete
    <3>6. m.error \in DOMAIN best' /\ 0 <= m.error
      <4> HIDE DEF m
      <4>1. QED
        BY <3>2, <3>4, <3>5
    <3>7. level' = 0
      BY <1>1, <2>2 DEF AtRoot
    <3> DEFINE e == m.error
    <3>8. e \in DOMAIN best' /\ level' <= e /\ e <= Len(prefix')
      BY <1>1, <3>1, <3>6, <3>7
    <3> HIDE DEF e
    <3>9. Came'
      BY <3>8 DEF Came
    <3>10. QED
      BY <1>1, <1>2, <3>9
  <2>6. CASE ~(cur.ti = k /\ cur.mi = y)
    <3>1. Ahead(k, y)'
      BY <2>1, <2>3, <2>4, <2>6 DEF Ahead
    <3>2. AtRoot'
      BY <1>1, <2>2, <2>4 DEF AtRoot
    <3>3. Reaches(k, y)'
      BY <1>1, <2>1, SameAsked
    <3>4. ToCome'
      BY <2>1, <3>1, <3>2, <3>3 DEF ToCome
    <3>5. QED
      BY <1>1, <1>2, <3>4
  <2>7. QED
    BY <2>5, <2>6
<1>6. QED
  BY <1>2, <1>4, <1>5

(* One of the matches of such a phrase consumes the prefix. *)
LEMMA EndsReached ==
  ASSUME NEW p \in Seq(Words), p # << >>, NEW out \in Seq(Words), NEW part, NEW sp,
         NEW j \in DOMAIN out, j <= Len(p), sp \/ out[j] \in part
  PROVE  \E y \in DOMAIN StrictMatches(p, 0, out, part, sp) :
           /\ StrictMatches(p, 0, out, part, sp)[y].pm = Len(p)
           /\ StrictMatches(p, 0, out, part, sp)[y].error <= Len(p)
<1>1. j \in 1 .. Len(out)
  OBVIOUS
<1>2. QED
  BY <1>1, StrictReaches

LEMMA HopeRequest ==
  ASSUME LevelInv, NEW r \in LevelRequests, Level!getPrefix(r)
  PROVE  Hopeful'
<1> SUFFICES ASSUME pc' = "search", Level!EndsAtOnce'
             PROVE  level' <= Len(prefix)' /\ (ToCome' \/ Came')
  BY DEF Hopeful
<1>1. level' = 0 /\ cur' = Level!Start /\ prefix' = r.tokens
  BY DEF Level!getPrefix
<1>2. prefix' \in Seq(Words) /\ prefix' # << >> /\ Len(prefix') \in Nat
  <2>1. r.tokens \in Seq(Words) /\ r.tokens # << >>
    BY ClassesAssumption DEF Level!RequestsAssumption
  <2>2. QED
    BY <1>1, <2>1
<1>3. PICK k \in DOMAIN graph'.trans[0] :
        \/ class' = "MainCaitra"
        \/ \E j \in DOMAIN graph'.trans[0][k].output :
             j <= Len(prefix') /\ (space' \/ graph'.trans[0][k].output[j] \in partial')
  BY DEF Level!EndsAtOnce
<1>4. graph'.trans[0][k].output \in Seq(Words) /\ k \in Nat /\ k >= 1
  <2>1. graph.trans[0] \in Seq(TransitionType) /\ graph' = graph
    BY LevelCur DEF GraphType, Level!getPrefix
  <2>2. graph.trans[0][k] \in TransitionType /\ k \in Nat /\ k >= 1
    BY <1>3, <2>1
  <2>3. QED
    BY <2>1, <2>2 DEF TransitionType
<1> DEFINE out == graph'.trans[0][k].output
           L == LenientMatches(prefix', 0, out, partial')
           S == StrictMatches(prefix', 0, out, partial', space')
<1>5. \E y \in DOMAIN L : L[y].pm = Len(prefix') /\ L[y].error <= Len(prefix')
  BY <1>2, <1>4, LenientReaches
<1>6. class' # "MainCaitra" =>
        \E y \in DOMAIN S : S[y].pm = Len(prefix') /\ S[y].error <= Len(prefix')
  <2> SUFFICES ASSUME class' # "MainCaitra"
               PROVE  \E y \in DOMAIN S : S[y].pm = Len(prefix') /\ S[y].error <= Len(prefix')
    OBVIOUS
  <2>1. PICK j \in DOMAIN out : j <= Len(prefix') /\ (space' \/ out[j] \in partial')
    BY <1>3
  <2>2. QED
    BY <1>2, <1>4, <2>1, EndsReached
<1>7. FirstMatches(k)' = IF class' = "MainCaitra" THEN L ELSE S
  BY DEF FirstMatches, LenientMatches, StrictMatches
<1> DEFINE M == MatchType(prefix', 0, out)
<1>8. L \in Seq(M) /\ S \in Seq(M)
  <2>1. 0 \in 0 .. Len(prefix') - 1
    BY <1>2
  <2>2. QED
    BY <1>2, <1>4, <2>1, MatchesTyped
<1> HIDE DEF L, S, out, M
<1>9. \E y \in DOMAIN FirstMatches(k)' :
        FirstMatches(k)'[y].pm = Len(prefix') /\ FirstMatches(k)'[y].error <= Len(prefix')
  BY <1>5, <1>6, <1>7
<1>10. PICK y : Reaches(k, y)'
  BY <1>3, <1>9 DEF Reaches
<1>11. y \in Nat
  <2> DEFINE q == FirstMatches(k)'
  <2>1. q \in Seq(M)
    BY <1>7, <1>8
  <2>2. y \in DOMAIN q
    BY <1>10 DEF Reaches
  <2> HIDE DEF q
  <2>3. QED
    BY <2>1, <2>2
<1>12. cur'.st = 0 /\ cur'.bi = 1 /\ cur'.ti = 1 /\ cur'.mi = 0
  BY <1>1 DEF Level!Start
<1>13. AtRoot' /\ Ahead(k, y)'
  BY <1>1, <1>4, <1>11, <1>12 DEF AtRoot, Ahead
<1>14. ToCome'
  BY <1>4, <1>10, <1>11, <1>13 DEF ToCome
<1>15. QED
  BY <1>1, <1>2, <1>14

LEMMA HopeStep ==
  ASSUME LevelInv, Hopeful, Level!Next
  PROVE  Hopeful'
<1>1. CASE \E g \in LevelGraphs : Level!createGraph(g)
  <2>1. pc' = "idle"
    BY <1>1 DEF Level!createGraph
  <2>2. QED
    BY <2>1 DEF Hopeful
<1>2. CASE \E r \in LevelRequests : Level!getPrefix(r)
  BY <1>2, HopeRequest
<1>3. CASE Level!Answer \/ Level!Fail
  <2>1. pc' = "idle"
    BY <1>3 DEF Level!Answer, Level!Fail
  <2>2. QED
    BY <2>1 DEF Hopeful
<1>4. QED
  BY <1>1, <1>2, <1>3, HopeMove, HopeMatch DEF Level!Next, Level!Step, LevelLoop

(* None of the three classes runs out of errors when some phrase can be    *)
(* laid against the whole prefix at once: ModifiedCaitra and CaitraWithJump*)
(* then have an answer, and MainCaitra, for which any phrase will do, does *)
(* not answer with a completion that was never written (MainCaitra.cpp:    *)
(* best[errorAllowed] is read whatever the search says).                   *)
THEOREM NeverInVain == Spec => []LevelNeverInVain
<1> DEFINE H == class \in LevelClasses => Hopeful
<1>1. LevelHolds /\ H => LevelNeverInVain
  BY DEF LevelHolds, Hopeful, LevelNeverInVain, Level!NeverInVain
<1>2. Init => H
  BY OtherClasses DEF Init, Level!Init, Hopeful
<1>3. LevelHolds /\ H /\ [Next]_vars => H'
  <2> SUFFICES ASSUME LevelHolds, H, [Next]_vars PROVE H'
    OBVIOUS
  <2>1. CASE LevelNext
    BY <2>1, HopeStep DEF LevelNext, LevelHolds
  <2>2. CASE PlainNext \/ WindowNext \/ VectorNext \/ ECNext
    <3>1. class' = class /\ class \in {"WeightedCaitra", "Window", "WordVec", "ECModel"}
      BY <2>2 DEF PlainNext, WindowNext, VectorNext, ECNext
    <3>2. QED
      BY <3>1, OtherClasses DEF LevelClasses
  <2>3. CASE UNCHANGED vars
    <3>1. UNCHANGED asked /\ UNCHANGED << class, prefix, best, pc, cur, level >>
      BY <2>3 DEF vars, levelMembers, asked
    <3>2. (AtRoot' <=> AtRoot) /\ (Came' <=> Came)
          /\ \A k, y : Ahead(k, y)' <=> Ahead(k, y)
      BY <3>1 DEF AtRoot, Came, Ahead
    <3>3. ToCome' <=> ToCome
      BY <3>1, <3>2, SameAsked DEF ToCome
    <3>4. QED
      BY <3>1, <3>2, <3>3, SameAsked DEF Hopeful
  <2>4. QED
    BY <2>1, <2>2, <2>3 DEF Next
<1> HIDE DEF H
<1>4. QED
  BY <1>1, <1>2, <1>3, LevelAlways, PTL DEF Spec

-------------------------------------------------------------------------
(* A path is final by the time the pass for its number of errors comes to  *)
(* it: what is recorded meanwhile has at least the present number of       *)
(* errors and leads beyond the present state, and does not take the place  *)
(* of a path with fewer.                                                   *)

Settled(s, b) == b.error < level \/ (b.error = level /\ s <= cur.st)

ProcessedIn(g, bk, l, st) ==
  UNION { { << s, x, bk[s][x] >> :
              x \in { k \in DOMAIN bk[s] :
                        bk[s][k].error < l \/ (bk[s][k].error = l /\ s <= st) } }
          : s \in States(g) }

LEMMA ProcessedIs ==
  ASSUME NEW g, NEW bk, NEW l, NEW st
  PROVE  \A z : z \in ProcessedIn(g, bk, l, st) <=>
           \E s \in States(g) : \E x \in DOMAIN bk[s] :
             /\ bk[s][x].error < l \/ (bk[s][x].error = l /\ s <= st)
             /\ z = << s, x, bk[s][x] >>
<1> DEFINE Of(s) == { << s, x, bk[s][x] >> :
                        x \in { k \in DOMAIN bk[s] :
                                  bk[s][k].error < l \/ (bk[s][k].error = l /\ s <= st) } }
<1>2. ProcessedIn(g, bk, l, st) = UNION { Of(s) : s \in States(g) }
  BY DEF ProcessedIn
<1>3. ASSUME NEW s, NEW z
      PROVE  z \in Of(s) <=> \E x \in DOMAIN bk[s] :
                               /\ bk[s][x].error < l \/ (bk[s][x].error = l /\ s <= st)
                               /\ z = << s, x, bk[s][x] >>
  OBVIOUS
<1> HIDE DEF Of
<1>4. ASSUME NEW z
      PROVE  z \in UNION { Of(s) : s \in States(g) }
               <=> \E s \in States(g) : z \in Of(s)
  OBVIOUS
<1>5. QED
  BY <1>2, <1>3, <1>4

LEMMA ProcessedSame ==
  ASSUME NEW g, NEW bk, NEW ck, NEW l, NEW st,
         \A s \in States(g) : \A x \in DOMAIN bk[s] :
           bk[s][x].error < l \/ (bk[s][x].error = l /\ s <= st)
             => x \in DOMAIN ck[s] /\ ck[s][x] = bk[s][x],
         \A s \in States(g) : \A x \in DOMAIN ck[s] :
           ck[s][x].error < l \/ (ck[s][x].error = l /\ s <= st)
             => x \in DOMAIN bk[s] /\ bk[s][x] = ck[s][x]
  PROVE  ProcessedIn(g, ck, l, st) = ProcessedIn(g, bk, l, st)
<1> DEFINE P == ProcessedIn(g, ck, l, st)
           Q == ProcessedIn(g, bk, l, st)
<1>1. ASSUME NEW z, z \in P PROVE z \in Q
  <2>1. PICK s \in States(g) : \E x \in DOMAIN ck[s] :
          /\ ck[s][x].error < l \/ (ck[s][x].error = l /\ s <= st)
          /\ z = << s, x, ck[s][x] >>
    BY <1>1, ProcessedIs
  <2>2. PICK x \in DOMAIN ck[s] :
          /\ ck[s][x].error < l \/ (ck[s][x].error = l /\ s <= st)
          /\ z = << s, x, ck[s][x] >>
    BY <2>1
  <2>3. x \in DOMAIN bk[s] /\ bk[s][x] = ck[s][x]
    BY <2>2
  <2>4. QED
    BY <2>2, <2>3, ProcessedIs
<1>2. ASSUME NEW z, z \in Q PROVE z \in P
  <2>1. PICK s \in States(g) : \E x \in DOMAIN bk[s] :
          /\ bk[s][x].error < l \/ (bk[s][x].error = l /\ s <= st)
          /\ z = << s, x, bk[s][x] >>
    BY <1>2, ProcessedIs
  <2>2. PICK x \in DOMAIN bk[s] :
          /\ bk[s][x].error < l \/ (bk[s][x].error = l /\ s <= st)
          /\ z = << s, x, bk[s][x] >>
    BY <2>1
  <2>3. x \in DOMAIN ck[s] /\ bk[s][x] = ck[s][x]
    BY <2>2
  <2>4. QED
    BY <2>2, <2>3, ProcessedIs
<1>3. QED
  <2>1. P \subseteq Q /\ Q \subseteq P
    BY <1>1, <1>2
  <2> HIDE DEF P, Q
  <2>2. P = Q
    BY <2>1
  <2>3. QED
    BY <2>2 DEF P, Q

LEMMA RecordedLater ==
  ASSUME LevelInv, Level!AtTransition, NEW new, IsExtension(new),
         back' = [back EXCEPT ![Level!Trans.to] = Level!Record(@, new)]
  PROVE  Level!Processed(back') = Level!Processed(back)
<1> DEFINE to == Level!Trans.to
<1>1. cur.st \in Nat /\ to \in Nat /\ to > cur.st /\ level \in Nat
  <2>1. cur.st \in Nat /\ graph.n \in Nat /\ level \in Nat
    BY LevelCur
  <2>2. to \in cur.st + 1 .. graph.n - 1
    BY LevelPositions
  <2> HIDE DEF to
  <2>3. QED
    BY <2>1, <2>2
<1>2. new.error \in Nat /\ new.error >= level
  BY DEF IsExtension, PathType
<1>3. \A s \in States(graph) : \A x \in DOMAIN back[s] :
        /\ x \in DOMAIN back'[s]
        /\ \/ back'[s][x] = back[s][x]
           \/ /\ s = to /\ back'[s][x] = new
              /\ SameKey(back[s][x], new)
              /\ Level!Better(back[s][x], new.error, new.score, new.matched)
  BY LevelExtend
<1>4. \A s \in States(graph) : \A x \in DOMAIN back'[s] \ DOMAIN back[s] :
        s = to /\ back'[s][x] = new
  BY LevelExtend
<1>5. \A s \in States(graph) : \A x \in DOMAIN back[s] : back[s][x].error \in Nat
  <2>1. \A s \in States(graph) : \A x \in DOMAIN back[s] : back[s][x] \in PathType
    BY DEF LevelInv
  <2>2. QED
    BY <2>1 DEF PathType
<1> HIDE DEF to
<1>6. ~Settled(to, new)
  BY <1>1, <1>2 DEF Settled
<1>7. ASSUME NEW b, b.error \in Nat,
             Level!Better(b, new.error, new.score, new.matched)
      PROVE  ~Settled(to, b)
  <2>1. b.error >= new.error
    BY <1>2, <1>7 DEF Level!Better
  <2>2. b.error >= level
    BY <1>1, <1>2, <1>7, <2>1
  <2>3. QED
    BY <1>1, <1>7, <2>2 DEF Settled
<1>8. ASSUME NEW s \in States(graph), NEW x \in DOMAIN back[s], Settled(s, back[s][x])
      PROVE  x \in DOMAIN back'[s] /\ back'[s][x] = back[s][x]
  BY <1>3, <1>5, <1>7, <1>8
<1>9. ASSUME NEW s \in States(graph), NEW x \in DOMAIN back'[s], Settled(s, back'[s][x])
      PROVE  x \in DOMAIN back[s] /\ back'[s][x] = back[s][x]
  BY <1>3, <1>4, <1>6, <1>9
<1>10. ProcessedIn(graph, back', level, cur.st) = ProcessedIn(graph, back, level, cur.st)
  <2>1. \A s \in States(graph) : \A x \in DOMAIN back[s] :
          back[s][x].error < level \/ (back[s][x].error = level /\ s <= cur.st)
            => x \in DOMAIN back'[s] /\ back'[s][x] = back[s][x]
    BY <1>8 DEF Settled
  <2>2. \A s \in States(graph) : \A x \in DOMAIN back'[s] :
          back'[s][x].error < level \/ (back'[s][x].error = level /\ s <= cur.st)
            => x \in DOMAIN back[s] /\ back[s][x] = back'[s][x]
    BY <1>9 DEF Settled
  <2>3. PICK g, bk, ck, l, st :
          g = graph /\ bk = back /\ ck = back' /\ l = level /\ st = cur.st
    OBVIOUS
  <2>4. /\ \A s \in States(g) : \A x \in DOMAIN bk[s] :
             bk[s][x].error < l \/ (bk[s][x].error = l /\ s <= st)
               => x \in DOMAIN ck[s] /\ ck[s][x] = bk[s][x]
        /\ \A s \in States(g) : \A x \in DOMAIN ck[s] :
             ck[s][x].error < l \/ (ck[s][x].error = l /\ s <= st)
               => x \in DOMAIN bk[s] /\ bk[s][x] = ck[s][x]
    BY <2>1, <2>2, <2>3
  <2>5. ProcessedIn(g, ck, l, st) = ProcessedIn(g, bk, l, st)
    BY <2>4, ProcessedSame
  <2>6. QED
    BY <2>3, <2>5
<1>11. /\ Level!Processed(back') = ProcessedIn(graph, back', level, cur.st)
       /\ Level!Processed(back) = ProcessedIn(graph, back, level, cur.st)
  BY DEF Level!Processed, ProcessedIn, Level!States, States
<1>12. QED
  BY <1>10, <1>11

LEMMA LevelFinalStep ==
  ASSUME LevelInv, Level!Next, pc = "search", pc' = "search"
  PROVE  Level!Processed(back') = Level!Processed(back)
<1>1. CASE Level!process_jump
  <2> DEFINE new == Level!Continue(IF Level!Back.jump = 0 THEN 1 ELSE 0, Level!Back.matched, 1)
  <2>1. CASE Level!Jumping /\ Level!Back.jump \in {0, 1}
    <3>1. Level!AtTransition
      BY <1>1 DEF Level!process_jump
    <3>2. IsExtension(new)
      BY <3>1, ContinueIsExtension, LevelPositions
    <3>3. back' = [back EXCEPT ![Level!Trans.to] = Level!Record(@, new)]
      BY <1>1, <2>1 DEF Level!process_jump
    <3> HIDE DEF new
    <3>4. QED
      BY <3>1, <3>2, <3>3, RecordedLater
  <2>2. CASE ~(Level!Jumping /\ Level!Back.jump \in {0, 1})
    <3>1. back' = back
      BY <1>1, <2>2 DEF Level!process_jump
    <3>2. QED
      BY <3>1
  <2>3. QED
    BY <2>1, <2>2
<1>2. CASE Level!process_match
  <2> DEFINE m == Level!Matches[cur.mi]
             new == Level!Continue(m.error, m.pm, IF Level!Back.jump = 0 THEN 0 ELSE 2)
  <2>1. Level!AtTransition /\ cur.mi > 0 /\ cur.mi <= Len(Level!Matches)
    BY <1>2 DEF Level!process_match
  <2>2. CASE Level!MatchOn(m)
    <3>1. m.error \in Nat /\ m.pm \in Level!Back.matched + 1 .. Len(prefix)
      BY <2>1, LevelMatch
    <3>2. m.pm \in Level!Back.matched .. Len(prefix) - 1
      <4>1. m.pm < Len(prefix) /\ Level!Back.matched \in Nat /\ Len(prefix) \in Nat
        BY <2>1, <2>2, LevelPositions, LevelCur DEF Level!MatchOn, PathType
      <4> HIDE DEF m
      <4>2. QED
        BY <3>1, <4>1
    <3>3. IsExtension(new)
      BY <2>1, <3>1, <3>2, ContinueIsExtension
    <3>4. back' = [back EXCEPT ![Level!Trans.to] = Level!Record(@, new)]
      BY <2>2 DEF Level!MatchOn
    <3> HIDE DEF new
    <3>5. QED
      BY <2>1, <3>3, <3>4, RecordedLater
  <2>3. CASE Level!Complete(m)
    <3>1. back' = back
      BY <2>3 DEF Level!Complete
    <3>2. QED
      BY <3>1
  <2>4. QED
    BY <1>2, <2>2, <2>3 DEF Level!process_match
<1>3. CASE LevelLoop
  <2>1. back' = back
    BY <1>3 DEF LevelLoop, Level!NextTransition, Level!NextBack, Level!NextState, Level!NextLevel
  <2>2. QED
    BY <2>1
<1>4. ~(\E g \in LevelGraphs : Level!createGraph(g))
      /\ ~(\E r \in LevelRequests : Level!getPrefix(r))
  BY DEF Level!createGraph, Level!getPrefix
<1>5. ~Level!Answer /\ ~Level!Fail
  BY DEF Level!Answer, Level!Fail
<1>6. QED
  BY <1>1, <1>2, <1>3, <1>4, <1>5 DEF Level!Next, Level!Step, LevelLoop

(* "only need to process back transitions with current error level": once  *)
(* the pass for its number of errors has come to its state, a path is not  *)
(* replaced and none comes to stand beside it.                             *)
THEOREM ProcessedIsFinal == Spec => LevelProcessedIsFinal
<1>1. ASSUME LevelHolds, [Next]_vars
      PROVE  [(class \in LevelClasses) => Level!ProcessedStay]_vars
  <2> SUFFICES ASSUME Next, class \in LevelClasses, pc = "search", pc' = "search"
               PROVE  Level!Processed(back') = Level!Processed(back)
    BY <1>1 DEF Level!ProcessedStay
  <2>1. CASE LevelNext
    BY <1>1, <2>1, LevelFinalStep DEF LevelNext, LevelHolds
  <2>2. ~(PlainNext \/ WindowNext \/ VectorNext \/ ECNext)
    BY OtherClasses DEF PlainNext, WindowNext, VectorNext, ECNext
  <2>3. QED
    BY <2>1, <2>2 DEF Next
<1>2. QED
  BY <1>1, LevelAlways, PTL DEF Spec, LevelProcessedIsFinal

-------------------------------------------------------------------------
(* Letters against letters: what is carried along the search over letters  *)
(* are distances.                                                          *)

Alike(x, y) == { c \in (1 .. Len(x)) \X (1 .. Len(y)) : x[c[1]] = y[c[2]] }

LEMMA ECDistance ==
  ASSUME NEW x, NEW y, Len(x) \in Nat, Len(y) \in Nat
  PROVE  EC!Distance(x, y) = LeastCost(Alike(x, y), Len(x), Len(y))
<1> DEFINE n == Len(x)
           m == Len(y)
           A == Alike(x, y)
           Cost(a) == n + m - 2 * Cardinality(EC!Paired(a))
                        + Cardinality({ k \in EC!Paired(a) : x[k] # y[a[k]] })
<1>1. EC!Pairings(x, y) = Crossless(n, m)
  BY DEF EC!Pairings, Crossless
<1>2. ASSUME NEW a \in Crossless(n, m) PROVE Cost(a) = PairingCost(A, n, m, a)
  <2>1. a \in [1 .. n -> 0 .. m]
    BY DEF Crossless
  <2>2. EC!Paired(a) = Beside(a, n)
    BY <2>1 DEF EC!Paired, Beside
  <2>3. \A k \in Beside(a, n) : k \in 1 .. n /\ a[k] \in 1 .. m
    BY <2>1 DEF Beside
  <2>4. \A k \in Beside(a, n) : << k, a[k] >> \notin A <=> x[k] # y[a[k]]
    BY <2>3 DEF Alike
  <2> HIDE DEF A
  <2>5. { k \in EC!Paired(a) : x[k] # y[a[k]] } = Unlike(A, a, n)
    BY <2>2, <2>4 DEF Unlike
  <2>6. QED
    BY <2>2, <2>5 DEF PairingCost
<1>3. EC!Distance(x, y) = Min({ Cost(a) : a \in EC!Pairings(x, y) })
  <2>1. \A S : EC!Min(S) = Min(S)
    BY DEF EC!Min, Min
  <2>0. \A S : EC!Cardinality(S) = Cardinality(S)
    BY DEF EC!Cardinality, Cardinality
  <2>2. EC!Distance(x, y) = EC!Min({ Cost(a) : a \in EC!Pairings(x, y) })
    BY <2>0 DEF EC!Distance
  <2> HIDE DEF Cost
  <2>3. QED
    BY <2>1, <2>2
<1> HIDE DEF Cost, A, n, m
<1>4. { Cost(a) : a \in EC!Pairings(x, y) } = { PairingCost(A, n, m, a) : a \in Crossless(n, m) }
  BY <1>1, <1>2
<1>5. EC!Distance(x, y) = LeastCost(A, n, m)
  BY <1>3, <1>4 DEF LeastCost
<1>6. QED
  BY <1>5 DEF A, n, m

(* The cost of the first n letters of a text against the first j of p. *)
Apart(text, n, p, j) == LeastCost(Alike(text, p), n, j)

LEMMA ApartEquation ==
  ASSUME NEW text, NEW p, Len(text) \in Nat, Len(p) \in Nat,
         NEW n \in 0 .. Len(text), NEW j \in 0 .. Len(p)
  PROVE  /\ Apart(text, n, p, j) \in Nat
         /\ (n = 0 \/ j = 0) => Apart(text, n, p, j) = n + j
         /\ (n # 0 /\ j # 0) =>
              Apart(text, n, p, j)
                = Min({ Apart(text, n - 1, p, j) + 1,
                        Apart(text, n, p, j - 1) + 1,
                        Apart(text, n - 1, p, j - 1) + (IF text[n] = p[j] THEN 0 ELSE 1) })
<1> DEFINE A == Alike(text, p)
           N == Len(text)
           M == Len(p)
           T == CHOOSE f : IsTable(f, A, N, M)
<1>1. IsFilled(T, A, N, M)
  BY TableFilled
<1> HIDE DEF T
<1>2. \A x \in 0 .. N, y \in 0 .. M : T[<< x, y >>] = Apart(text, x, p, y)
  <2>1. SUFFICES ASSUME NEW x \in 0 .. N, NEW y \in 0 .. M
                 PROVE  T[<< x, y >>] = LeastCost(A, x, y)
    BY Zenon DEF Apart
  <2>2. << x, y >> \in Cells(N, M)
    BY DEF Cells
  <2> HIDE DEF A
  <2>3. QED
    BY <1>1, <2>2, TableIsLeastCost
<1>3. << n, j >> \in Cells(N, M)
  BY DEF Cells
<1>4. T[<< n, j >>] \in Nat /\ T[<< n, j >>] = Laid(T, A, << n, j >>)
  BY <1>1, <1>3 DEF IsFilled
<1>5. CASE n = 0 \/ j = 0
  <2>1. Laid(T, A, << n, j >>) = n + j
    BY <1>5 DEF Laid
  <2>2. QED
    BY <1>2, <1>4, <1>5, <2>1
<1>6. CASE n # 0 /\ j # 0
  <2>1. n - 1 \in 0 .. N /\ j - 1 \in 0 .. M /\ n \in 1 .. N /\ j \in 1 .. M
    BY <1>6
  <2>2. << n, j >> \in A <=> text[n] = p[j]
    BY <2>1 DEF Alike
  <2> HIDE DEF A, N, M
  <2>3. Laid(T, A, << n, j >>)
          = Min({ T[<< n - 1, j >>] + 1, T[<< n, j - 1 >>] + 1,
                  T[<< n - 1, j - 1 >>] + (IF << n, j >> \in A THEN 0 ELSE 1) })
    BY <1>6 DEF Laid
  <2>4. /\ T[<< n - 1, j >>] = Apart(text, n - 1, p, j) /\ T[<< n, j - 1 >>] = Apart(text, n, p, j - 1)
        /\ T[<< n - 1, j - 1 >>] = Apart(text, n - 1, p, j - 1) /\ T[<< n, j >>] = Apart(text, n, p, j)
    BY <1>2, <2>1 DEF N, M
  <2>5. QED
    BY <1>4, <1>6, <2>2, <2>3, <2>4
<1>7. QED
  BY <1>5, <1>6

LEMMA ApartNumbers ==
  ASSUME NEW text, NEW p, Len(text) \in Nat, Len(p) \in Nat,
         NEW n \in 0 .. Len(text), NEW j \in 0 .. Len(p)
  PROVE  Apart(text, n, p, j) \in Nat /\ ((n = 0 \/ j = 0) => Apart(text, n, p, j) = n + j)
<1>1. /\ Apart(text, n, p, j) \in Nat
      /\ (n = 0 \/ j = 0) => Apart(text, n, p, j) = n + j
      /\ (n # 0 /\ j # 0) =>
           Apart(text, n, p, j)
             = Min({ Apart(text, n - 1, p, j) + 1, Apart(text, n, p, j - 1) + 1,
                     Apart(text, n - 1, p, j - 1) + (IF text[n] = p[j] THEN 0 ELSE 1) })
  BY ApartEquation
<1>2. QED
  BY <1>1

(* What is beyond the beginning of a text does not matter for it. *)
LEMMA ApartBeginning ==
  ASSUME NEW text, NEW other, NEW p, Len(text) \in Nat, Len(other) \in Nat, Len(p) \in Nat,
         NEW n \in 0 .. Len(text), n <= Len(other), SameUpTo(text, other, n),
         NEW j \in 0 .. Len(p)
  PROVE  Apart(text, n, p, j) = Apart(other, n, p, j)
<1>1. \A k \in 1 .. n, l \in 1 .. j : << k, l >> \in Alike(text, p) <=> << k, l >> \in Alike(other, p)
  BY DEF Alike, SameUpTo
<1>2. AgreesMore(Alike(text, p), Alike(other, p), n, j)
      /\ AgreesMore(Alike(other, p), Alike(text, p), n, j)
  BY <1>1 DEF AgreesMore
<1>3. n \in Nat /\ j \in Nat
  OBVIOUS
<1>4. QED
  BY <1>2, <1>3, SameAgreement DEF Apart

(* A beginning of the text is as far from p as p from it. *)
LEMMA ApartIsDistance ==
  ASSUME NEW C, NEW text \in Seq(C), NEW p, Len(p) \in Nat, NEW n \in 0 .. Len(text)
  PROVE  EC!Distance(p, SubSeq(text, 1, n)) = Apart(text, n, p, Len(p))
<1> DEFINE t == SubSeq(text, 1, n)
<1>1. Len(text) \in Nat /\ n \in Nat /\ Len(t) = n /\ \A k \in 1 .. n : t[k] = text[k]
  OBVIOUS
<1> HIDE DEF t
<1>2. EC!Distance(p, t) = LeastCost(Alike(p, t), Len(p), n)
  BY <1>1, ECDistance
<1>3. MirrorIs(Alike(p, t), Alike(t, p), Len(p), n)
  BY <1>1 DEF MirrorIs, Alike
<1>4. LeastCost(Alike(p, t), Len(p), n) = LeastCost(Alike(t, p), n, Len(p))
  BY <1>1, <1>3, LeastCostMirrored
<1>5. SameUpTo(t, text, n)
  BY <1>1 DEF SameUpTo
<1>6. n \in 0 .. Len(t) /\ n <= Len(text) /\ Len(p) \in 0 .. Len(p)
  BY <1>1
<1>7. Apart(t, n, p, Len(p)) = Apart(text, n, p, Len(p))
  BY <1>1, <1>5, <1>6, ApartBeginning
<1>8. QED
  BY <1>2, <1>4, <1>7 DEF Apart, t

(* dis is the row for the whole of text: what comes next may start from it.*)
RowIs(dis, text, p) ==
  \A j \in 1 .. Len(p) + 1 : dis[j] = Apart(text, Len(text), p, j - 1)

CharCells(s, p) == (0 .. Len(s)) \X (0 .. Len(p))

CharLaid(f, dis, s, p, c) ==
  IF c[1] = 0 THEN dis[c[2] + 1]
  ELSE IF c[2] = 0 THEN f[<< c[1] - 1, 0 >>] + 1
  ELSE Min({ f[<< c[1] - 1, c[2] >>] + 1,
             f[<< c[1], c[2] - 1 >>] + 1,
             f[<< c[1] - 1, c[2] - 1 >>] + (IF s[c[1]] = p[c[2]] THEN 0 ELSE 1) })

IsCharTable(f, dis, s, p) == f = [c \in CharCells(s, p) |-> CharLaid(f, dis, s, p, c)]

LEMMA CharTable ==
  ASSUME NEW dis, NEW s, NEW p
  PROVE  EC!CharCosts(dis, s, p) = CHOOSE f : IsCharTable(f, dis, s, p)
<1> DEFINE E(f) == f = [c \in (0 .. Len(s)) \X (0 .. Len(p)) |->
        LET ii == c[1]
            jj == c[2]
        IN  IF ii = 0 THEN dis[jj + 1]
            ELSE IF jj = 0 THEN f[<< ii - 1, 0 >>] + 1
            ELSE EC!Min({ f[<< ii - 1, jj >>] + 1,
                       f[<< ii, jj - 1 >>] + 1,
                       f[<< ii - 1, jj - 1 >>] + (IF s[ii] = p[jj] THEN 0 ELSE 1) })]
<1>1. ASSUME NEW f PROVE E(f) <=> IsCharTable(f, dis, s, p)
  <2>1. \A S : EC!Min(S) = Min(S)
    BY DEF EC!Min, Min
  <2>2. QED
    BY <2>1 DEF IsCharTable, CharLaid, CharCells
<1>2. EC!CharCosts(dis, s, p) = CHOOSE f : E(f)
  BY DEF EC!CharCosts
<1> HIDE DEF E
<1>3. QED
  BY <1>1, <1>2

(* Continuing the table from the row of text over s is the table of both.  *)
Carries(dis, text, s, p) ==
  \A n \in 0 .. Len(s), j \in 0 .. Len(p) :
    EC!CharCosts(dis, s, p)[<< n, j >>] = Apart(text \o s, Len(text) + n, p, j)

LEMMA CarriedOn ==
  ASSUME NEW C, NEW text \in Seq(C), NEW s \in Seq(C), NEW p, Len(p) \in Nat,
         NEW dis, RowIs(dis, text, p)
  PROVE  Carries(dis, text, s, p)
<1> DEFINE both == text \o s
           a == Len(text)
           b == Len(s)
           m == Len(p)
           F == [c \in CharCells(s, p) |-> Apart(both, a + c[1], p, c[2])]
           T == CHOOSE f : IsCharTable(f, dis, s, p)
<1>1. /\ a \in Nat /\ b \in Nat /\ m \in Nat /\ Len(both) = a + b
      /\ \A k \in 1 .. a : both[k] = text[k]
      /\ \A k \in 1 .. b : both[a + k] = s[k]
  OBVIOUS
<1> HIDE DEF both, a, b, m
<1>2. CharCells(s, p) = (0 .. b) \X (0 .. m)
  BY DEF CharCells, b, m
<1>3. \A x \in 0 .. b, y \in 0 .. m : F[<< x, y >>] = Apart(both, a + x, p, y)
  BY <1>2
<1>4. ASSUME NEW x \in 0 .. b, NEW y \in 0 .. m
      PROVE  CharLaid(F, dis, s, p, << x, y >>) = Apart(both, a + x, p, y)
  <2>1. a + x \in 0 .. Len(both) /\ y \in 0 .. Len(p) /\ Len(both) \in Nat /\ Len(p) \in Nat
    BY <1>1 DEF m
  <2>a. PICK n : n = a + x
    OBVIOUS
  <2>2. PICK q : q = Apart(both, n, p, y)
    OBVIOUS
  <2>b. n \in 0 .. Len(both) /\ n \in Nat
    BY <1>1, <2>a, <2>1
  <2>3. /\ (n = 0 \/ y = 0) => q = n + y
        /\ (n # 0 /\ y # 0) =>
              q = Min({ Apart(both, n - 1, p, y) + 1,
                        Apart(both, n, p, y - 1) + 1,
                        Apart(both, n - 1, p, y - 1) + (IF both[n] = p[y] THEN 0 ELSE 1) })
    <3>1. Len(both) \in Nat /\ Len(p) \in Nat /\ n \in 0 .. Len(both) /\ y \in 0 .. Len(p)
      BY <2>1, <2>b
    <3>2. /\ (n = 0 \/ y = 0) => Apart(both, n, p, y) = n + y
          /\ (n # 0 /\ y # 0) =>
              Apart(both, n, p, y)
               = Min({ Apart(both, n - 1, p, y) + 1,
                        Apart(both, n, p, y - 1) + 1,
                        Apart(both, n - 1, p, y - 1) + (IF both[n] = p[y] THEN 0 ELSE 1) })
      BY <3>1, ApartEquation
    <3>3. QED
      BY <2>2, <3>2
  <2>4. CASE x = 0
    <3>1. dis[y + 1] = Apart(text, a, p, y)
      <4>1. y + 1 \in 1 .. Len(p) + 1 /\ (y + 1) - 1 = y
        BY <2>1
      <4>2. QED
        BY <4>1 DEF RowIs, a
    <3>2. Apart(text, a, p, y) = Apart(both, a, p, y)
      <4>1. SameUpTo(text, both, a)
        BY <1>1 DEF SameUpTo
      <4>2. Len(text) \in Nat /\ a \in 0 .. Len(text) /\ a <= Len(both)
        BY <1>1 DEF a
      <4>3. QED
        BY <2>1, <4>1, <4>2, ApartBeginning
    <3>3. a + x = a
      BY <1>1, <2>4
    <3>4. CharLaid(F, dis, s, p, << x, y >>) = dis[y + 1]
      BY <2>4 DEF CharLaid
    <3>5. QED
      BY <3>1, <3>2, <3>3, <3>4
  <2>5. CASE x # 0 /\ y = 0
    <3>1. x - 1 \in 0 .. b /\ a + (x - 1) \in 0 .. Len(both)
      BY <1>1, <2>5
    <3>2. F[<< x - 1, 0 >>] = Apart(both, a + (x - 1), p, 0)
      BY <1>3, <2>5, <3>1
    <3>3. Apart(both, a + (x - 1), p, 0) = (a + (x - 1)) + 0
      <4>1. PICK z : z = a + (x - 1) /\ z \in 0 .. Len(both)
        BY <3>1
      <4>2. PICK o : o = 0 /\ o \in 0 .. Len(p) /\ Len(both) \in Nat /\ Len(p) \in Nat
        BY <2>1
      <4>a. z \in 0 .. Len(both) /\ o \in 0 .. Len(p) /\ Len(both) \in Nat /\ Len(p) \in Nat
        BY <4>1, <4>2
      <4>3. Apart(both, z, p, o) \in Nat /\ ((z = 0 \/ o = 0) => Apart(both, z, p, o) = z + o)
        BY <4>a, ApartNumbers
      <4>4. QED
        BY <4>1, <4>2, <4>3
    <3>4. CharLaid(F, dis, s, p, << x, y >>) = F[<< x - 1, 0 >>] + 1
      BY <2>5 DEF CharLaid
    <3>5. QED
      BY <1>1, <2>a, <2>2, <2>3, <2>5, <3>2, <3>3, <3>4
  <2>6. CASE x # 0 /\ y # 0
    <3>1. /\ x - 1 \in 0 .. b /\ y - 1 \in 0 .. m /\ x \in 1 .. b /\ n - 1 = a + (x - 1)
          /\ n # 0
      BY <1>1, <2>a, <2>6
    <3>2. both[n] = s[x]
      BY <1>1, <2>a, <3>1
    <3>3. /\ F[<< x - 1, y >>] = Apart(both, n - 1, p, y)
          /\ F[<< x, y - 1 >>] = Apart(both, n, p, y - 1)
          /\ F[<< x - 1, y - 1 >>] = Apart(both, n - 1, p, y - 1)
      BY <1>3, <2>a, <3>1
    <3> HIDE DEF F
    <3>4. CharLaid(F, dis, s, p, << x, y >>)
            = Min({ F[<< x - 1, y >>] + 1, F[<< x, y - 1 >>] + 1,
                    F[<< x - 1, y - 1 >>] + (IF s[x] = p[y] THEN 0 ELSE 1) })
      BY <2>6 DEF CharLaid
    <3>5. PICK u, v, w :
            /\ u = F[<< x - 1, y >>] /\ v = F[<< x, y - 1 >>] /\ w = F[<< x - 1, y - 1 >>]
      OBVIOUS
    <3>6. q = Min({ u + 1, v + 1, w + (IF both[n] = p[y] THEN 0 ELSE 1) })
      BY <2>3, <2>6, <3>1, <3>3, <3>5
    <3>7. CharLaid(F, dis, s, p, << x, y >>)
            = Min({ u + 1, v + 1, w + (IF s[x] = p[y] THEN 0 ELSE 1) })
      BY <3>4, <3>5
    <3>8. CharLaid(F, dis, s, p, << x, y >>) = q
      BY <3>2, <3>6, <3>7
    <3>9. QED
      BY <2>2, <2>a, <3>8
  <2>7. QED
    BY <2>4, <2>5, <2>6
<1>5. IsCharTable(F, dis, s, p)
  <2>1. ASSUME NEW c \in CharCells(s, p)
        PROVE  CharLaid(F, dis, s, p, c) = Apart(both, a + c[1], p, c[2])
    <3>1. PICK x \in 0 .. b, y \in 0 .. m : c = << x, y >>
      BY <1>2
    <3>2. c[1] = x /\ c[2] = y
      BY <3>1
    <3> HIDE DEF F
    <3>3. QED
      BY <1>4, <3>1, <3>2
  <2>2. F = [c \in CharCells(s, p) |-> Apart(both, a + c[1], p, c[2])]
    OBVIOUS
  <2> HIDE DEF F
  <2>3. QED
    BY <2>1, <2>2 DEF IsCharTable
<1>6. IsCharTable(T, dis, s, p)
  <2> HIDE DEF F
  <2>1. QED
    BY <1>5
<1> DEFINE Good == { k \in Nat : \A x \in 0 .. b, y \in 0 .. m : x + y = k => T[<< x, y >>] = F[<< x, y >>] }
<1>7. ASSUME NEW k \in Nat, \A l \in 0 .. k - 1 : l \in Good PROVE k \in Good
  <2>1. SUFFICES ASSUME NEW x \in 0 .. b, NEW y \in 0 .. m, x + y = k
                 PROVE  T[<< x, y >>] = F[<< x, y >>]
    OBVIOUS
  <2>2. ASSUME NEW u \in 0 .. b, NEW v \in 0 .. m, u + v < k PROVE T[<< u, v >>] = F[<< u, v >>]
    <3>1. PICK l : l = u + v
      OBVIOUS
    <3>2. l \in 0 .. k - 1
      <4>1. u \in Nat /\ v \in Nat
        BY <1>1
      <4>2. QED
        BY <2>2, <3>1, <4>1
    <3>3. l \in Good
      <4> HIDE DEF Good
      <4>1. QED
        BY <1>7, <3>2
    <3> HIDE DEF T, F
    <3>4. \A n \in 0 .. b, j \in 0 .. m : n + j = l => T[<< n, j >>] = F[<< n, j >>]
      BY <3>3
    <3>5. QED
      BY <3>1, <3>4
  <2>3. << x, y >> \in CharCells(s, p)
    BY <1>2
  <2> HIDE DEF T, F, Good
  <2>4. T[<< x, y >>] = CharLaid(T, dis, s, p, << x, y >>)
        /\ F[<< x, y >>] = CharLaid(F, dis, s, p, << x, y >>)
    BY <1>5, <1>6, <2>3 DEF IsCharTable
  <2>5. CharLaid(T, dis, s, p, << x, y >>) = CharLaid(F, dis, s, p, << x, y >>)
    <3>1. CASE x = 0
      BY <3>1 DEF CharLaid
    <3>2. CASE x # 0 /\ y = 0
      <4>1. x - 1 \in 0 .. b /\ 0 \in 0 .. m /\ (x - 1) + 0 < k
        BY <1>1, <2>1, <3>2
      <4>2. T[<< x - 1, 0 >>] = F[<< x - 1, 0 >>]
        BY <2>2, <4>1
      <4>3. QED
        BY <3>2, <4>2 DEF CharLaid
    <3>3. CASE x # 0 /\ y # 0
      <4>1. /\ x - 1 \in 0 .. b /\ y - 1 \in 0 .. m /\ (x - 1) + y < k /\ x + (y - 1) < k
            /\ (x - 1) + (y - 1) < k
        <5>1. b \in Nat /\ m \in Nat
          BY <1>1
        <5> HIDE DEF b, m
        <5>2. QED
          BY <2>1, <3>3, <5>1
      <4>2. /\ T[<< x - 1, y >>] = F[<< x - 1, y >>] /\ T[<< x, y - 1 >>] = F[<< x, y - 1 >>]
            /\ T[<< x - 1, y - 1 >>] = F[<< x - 1, y - 1 >>]
        BY <2>2, <4>1
      <4>3. QED
        BY <3>3, <4>2 DEF CharLaid
    <3>4. QED
      BY <3>1, <3>2, <3>3
  <2>6. QED
    BY <2>4, <2>5
<1>8. \A k \in Nat : k \in Good
  <2> HIDE DEF Good
  <2>1. QED
    BY <1>7, StrongInduction
<1>9. ASSUME NEW n \in 0 .. b, NEW j \in 0 .. m
      PROVE  EC!CharCosts(dis, s, p)[<< n, j >>] = Apart(both, a + n, p, j)
  <2>0. n + j \in Nat
    BY <1>1
  <2>1. n + j \in Good
    <3> HIDE DEF Good
    <3>1. QED
      BY <1>8, <2>0
  <2>2. T[<< n, j >>] = F[<< n, j >>]
    BY <2>1
  <2> HIDE DEF T, F
  <2>3. EC!CharCosts(dis, s, p) = T
    BY CharTable DEF T
  <2>4. QED
    BY <1>3, <2>2, <2>3
<1>10. QED
  BY ONLY <1>9, Zenon DEF both, a, b, m, Carries

(* A row and the costs of the positions of a last phrase of l letters.     *)
FullRow(dis, text, p) == dis \in Seq(Nat) /\ Len(dis) = Len(p) + 1 /\ RowIs(dis, text, p)

CostsIn(costs, text, l, p) ==
  /\ costs \in Seq(Nat) /\ Len(costs) = l + 1
  /\ \A a \in 1 .. l + 1 : costs[a] = Apart(text, Len(text) - l + a - 1, p, Len(p))

LEMMA FunctionIsSeq ==
  ASSUME NEW S, NEW n \in Nat, NEW s \in [1 .. n -> S]
  PROVE  s \in Seq(S) /\ Len(s) = n
OBVIOUS

LEMMA RowsCarried ==
  ASSUME NEW C, NEW text \in Seq(C), NEW s \in Seq(C), NEW p, Len(p) \in Nat,
         NEW dis, FullRow(dis, text, p)
  PROVE  /\ FullRow(EC!StateConsumed(dis, s, p), text \o s, p)
         /\ CostsIn(EC!PrefixConsumed(dis, s, p), text \o s, Len(s), p)
<1> DEFINE both == text \o s
           a == Len(text)
           b == Len(s)
           m == Len(p)
           cost == EC!CharCosts(dis, s, p)
<1>1. a \in Nat /\ b \in Nat /\ m \in Nat /\ Len(both) = a + b
  OBVIOUS
<1>2. \A n \in 0 .. b, j \in 0 .. m : cost[<< n, j >>] = Apart(both, a + n, p, j)
  <2>1. RowIs(dis, text, p)
    BY DEF FullRow
  <2>2. text \in Seq(C) /\ s \in Seq(C) /\ Len(p) \in Nat
    OBVIOUS
  <2>3. Carries(dis, text, s, p)
    BY ONLY <2>1, <2>2, CarriedOn
  <2>4. QED
    BY ONLY <2>3, Zenon DEF Carries, both, a, b, m, cost
<1>3. EC!StateConsumed(dis, s, p) = [j \in 1 .. m + 1 |-> cost[<< b, j - 1 >>]]
  BY DEF EC!StateConsumed
<1>4. EC!PrefixConsumed(dis, s, p) = [n \in 1 .. b + 1 |-> cost[<< n - 1, m >>]]
  BY DEF EC!PrefixConsumed
<1> HIDE DEF both, a, b, m, cost
<1>5. ASSUME NEW n \in 0 .. a + b, NEW j \in 0 .. m PROVE Apart(both, n, p, j) \in Nat
  <2>1. Len(both) \in Nat /\ Len(p) \in Nat /\ n \in 0 .. Len(both) /\ j \in 0 .. Len(p)
    BY <1>1 DEF m
  <2>2. Apart(both, n, p, j) \in Nat /\ ((n = 0 \/ j = 0) => Apart(both, n, p, j) = n + j)
    BY <2>1, ApartNumbers
  <2>3. QED
    BY <2>2
<1>6. ASSUME NEW j \in 1 .. m + 1
      PROVE  cost[<< b, j - 1 >>] = Apart(both, a + b, p, j - 1)
             /\ cost[<< b, j - 1 >>] \in Nat
  <2>1. j - 1 \in 0 .. m /\ b \in 0 .. b /\ a + b \in 0 .. a + b
    BY <1>1
  <2>2. QED
    BY <1>2, <1>5, <2>1
<1>7. ASSUME NEW n \in 1 .. b + 1
      PROVE  cost[<< n - 1, m >>] = Apart(both, a + (n - 1), p, m)
             /\ cost[<< n - 1, m >>] \in Nat
  <2>1. n - 1 \in 0 .. b /\ m \in 0 .. m /\ a + (n - 1) \in 0 .. a + b
    BY <1>1
  <2>2. QED
    BY <1>2, <1>5, <2>1
<1>8. FullRow(EC!StateConsumed(dis, s, p), both, p)
  <2>1. PICK f : f = [j \in 1 .. m + 1 |-> cost[<< b, j - 1 >>]]
    OBVIOUS
  <2>2. f \in Seq(Nat) /\ Len(f) = m + 1 /\ \A j \in 1 .. m + 1 : f[j] = cost[<< b, j - 1 >>]
    BY <1>1, <1>6, <2>1
  <2>3. RowIs(f, both, p)
    <3>1. \A j \in 1 .. m + 1 : f[j] = Apart(both, a + b, p, j - 1)
      BY <1>6, <2>2
    <3>2. QED
      BY <1>1, <3>1 DEF RowIs, m
  <2>4. QED
    BY <1>3, <2>1, <2>2, <2>3 DEF FullRow, m
<1>9. CostsIn(EC!PrefixConsumed(dis, s, p), both, b, p)
  <2>1. PICK f : f = [n \in 1 .. b + 1 |-> cost[<< n - 1, m >>]]
    OBVIOUS
  <2>2. f \in Seq(Nat) /\ Len(f) = b + 1 /\ \A n \in 1 .. b + 1 : f[n] = cost[<< n - 1, m >>]
    <3>1. \A n \in 1 .. b + 1 : f[n] = cost[<< n - 1, m >>] /\ f[n] \in Nat
      BY <1>7, <2>1
    <3>2. f \in [1 .. b + 1 -> Nat] /\ b + 1 \in Nat
      BY <1>1, <2>1, <3>1
    <3>3. f \in Seq(Nat) /\ Len(f) = b + 1
      BY <3>2, FunctionIsSeq
    <3>4. QED
      BY <3>1, <3>3
  <2>3. \A n \in 1 .. b + 1 : f[n] = Apart(both, Len(both) - b + n - 1, p, Len(p))
    <3>1. SUFFICES ASSUME NEW n \in 1 .. b + 1
                   PROVE  f[n] = Apart(both, Len(both) - b + n - 1, p, Len(p))
      OBVIOUS
    <3>2. f[n] = Apart(both, a + (n - 1), p, m)
      BY <1>7, <2>2
    <3>3. Len(both) - b + n - 1 = a + (n - 1)
      BY <1>1
    <3>4. QED
      BY <3>2, <3>3 DEF m
  <2>4. QED
    BY <1>4, <2>1, <2>2, <2>3 DEF CostsIn
<1>10. QED
  BY <1>8, <1>9 DEF both, b

(* With nothing before it, each letter of the prefix costs one. *)
LEMMA FirstRow ==
  ASSUME NEW p, Len(p) \in Nat
  PROVE  FullRow([j \in 1 .. Len(p) + 1 |-> j - 1], << >>, p)
<1> DEFINE m == Len(p)
           d == [j \in 1 .. m + 1 |-> j - 1]
<1>1. d \in Seq(Nat) /\ Len(d) = m + 1 /\ \A j \in 1 .. m + 1 : d[j] = j - 1
  OBVIOUS
<1>2. ASSUME NEW j \in 1 .. m + 1 PROVE Apart(<< >>, 0, p, j - 1) = j - 1
  <2>1. PICK l, n, t : l = j - 1 /\ l \in 0 .. Len(p) /\ t = << >> /\ n = 0 /\ Len(t) = 0
    OBVIOUS
  <2>2. Len(t) \in Nat /\ Len(p) \in Nat /\ n \in 0 .. Len(t) /\ l \in 0 .. Len(p)
    BY <2>1
  <2>3. Apart(t, n, p, l) \in Nat /\ ((n = 0 \/ l = 0) => Apart(t, n, p, l) = n + l)
    BY <2>2, ApartNumbers
  <2>4. QED
    BY <2>1, <2>3
<1>3. Len(<< >>) = 0
  OBVIOUS
<1> HIDE DEF d, m
<1>4. RowIs(d, << >>, p)
  BY <1>1, <1>2, <1>3 DEF RowIs, m
<1>5. QED
  BY <1>1, <1>4 DEF FullRow, d, m

-------------------------------------------------------------------------
(* The texts of the ways that the states stand for.                        *)

Letters(g) ==
  {Space} \cup UNION { UNION { EC!Range(g.trans[s][k].text) : k \in DOMAIN g.trans[s] }
                       : s \in States(g) }

BetweenPhrases(g, t) == IF g.back[t] = 0 THEN << >> ELSE << Space >>

LastPhrase(g, l, t) == IF t = 0 THEN << >> ELSE g.trans[g.back[t]][l[t]].text

Links(g, l) == \A t \in States(g) \ {0} : l[t] \in EC!Between(g, g.back[t], t)

WholeLaid(f, g, l, t) ==
  IF t = 0 THEN << >>
  ELSE f[g.back[t]] \o BetweenPhrases(g, t) \o g.trans[g.back[t]][l[t]].text

IsWhole(f, g, l) == f = [t \in States(g) |-> WholeLaid(f, g, l, t)]

Whole(g, l) == CHOOSE f : IsWhole(f, g, l)

LEMMA TextGraph ==
  ASSUME NEW g \in ECGraphs
  PROVE  /\ g.n \in Nat \ {0} /\ 0 \in States(g) /\ States(g) \subseteq Nat
         /\ \A s \in States(g) : /\ Len(g.trans[s]) \in Nat
                                  /\ DOMAIN g.trans[s] = 1 .. Len(g.trans[s])
                                  /\ g.bscore[s] \in Int /\ g.fscore[s] \in Int
         /\ \A t \in States(g) \ {0} : /\ g.back[t] \in 0 .. t - 1 /\ g.back[t] \in States(g)
                                       /\ EC!Between(g, g.back[t], t) # {}
         /\ EC!States(g) = States(g)
<1>1. EC!States(g) = States(g)
  BY DEF EC!States, States
<1>2. /\ EC!GraphType(g) /\ \A s \in EC!States(g) \ {0} :
          g.back[s] \in 0 .. s - 1 /\ EC!Between(g, g.back[s], s) # {}
  BY ClassesAssumption DEF EC!GraphsAssumption
<1>3. g.n \in Nat \ {0} /\ States(g) = 0 .. g.n - 1
  BY <1>2 DEF EC!GraphType, States
<1>4. ASSUME NEW s \in States(g)
      PROVE  /\ Len(g.trans[s]) \in Nat /\ DOMAIN g.trans[s] = 1 .. Len(g.trans[s])
             /\ g.bscore[s] \in Int /\ g.fscore[s] \in Int
  <2>1. EC!IsSequence(g.trans[s]) /\ g.bscore \in [States(g) -> Int] /\ g.fscore \in [States(g) -> Int]
    BY <1>1, <1>2 DEF EC!GraphType
  <2>2. g.trans[s] \in Seq(EC!Range(g.trans[s]))
    BY <2>1 DEF EC!IsSequence
  <2> DEFINE q == g.trans[s]
             R == EC!Range(g.trans[s])
  <2>3. q \in Seq(R)
    BY <2>2
  <2> HIDE DEF q, R
  <2>4. Len(q) \in Nat /\ DOMAIN q = 1 .. Len(q)
    BY <2>3
  <2>5. QED
    BY <2>1, <2>4 DEF q
<1>5. ASSUME NEW t \in States(g) \ {0} PROVE g.back[t] \in 0 .. t - 1 /\ g.back[t] \in States(g)
  <2>1. g.back[t] \in 0 .. t - 1
    BY <1>1, <1>2
  <2>2. QED
    BY <1>3, <2>1
<1>6. QED
  BY <1>1, <1>2, <1>3, <1>4, <1>5

LEMMA TextLetters ==
  ASSUME NEW g \in ECGraphs, NEW s \in States(g), NEW k \in DOMAIN g.trans[s]
  PROVE  g.trans[s][k].text \in Seq(Letters(g))
<1>1. EC!GraphType(g) /\ EC!States(g) = States(g)
  BY ClassesAssumption, TextGraph DEF EC!GraphsAssumption
<1>2. EC!IsSequence(g.trans[s][k].text)
  BY <1>1 DEF EC!GraphType
<1>3. g.trans[s][k].text \in Seq(EC!Range(g.trans[s][k].text))
  BY <1>2 DEF EC!IsSequence
<1>4. EC!Range(g.trans[s][k].text) \subseteq Letters(g)
  BY DEF Letters
<1> DEFINE q == g.trans[s][k].text
           R == EC!Range(g.trans[s][k].text)
<1>5. q \in Seq(R) /\ R \subseteq Letters(g)
  BY <1>3, <1>4
<1> HIDE DEF q, R
<1>6. q \in Seq(Letters(g))
  BY <1>5
<1>7. QED
  BY <1>6 DEF q

LEMMA WholeEquation ==
  ASSUME NEW g \in ECGraphs, NEW l, Links(g, l)
  PROVE  \A t \in States(g) : /\ Whole(g, l)[t] \in Seq(Letters(g))
                              /\ Whole(g, l)[t] = WholeLaid(Whole(g, l), g, l, t)
<1> DEFINE D == States(g)
           V == Seq(Letters(g))
           G == [f \in [D -> V] |-> [t \in D |-> WholeLaid(f, g, l, t)]]
           rank == [t \in D |-> t]
           W == Whole(g, l)
<1>0. ASSUME NEW t \in D \ {0}
      PROVE  /\ g.back[t] \in D /\ g.back[t] < t
             /\ g.trans[g.back[t]][l[t]].text \in V /\ BetweenPhrases(g, t) \in V
  <2>1. g.back[t] \in D /\ g.back[t] \in 0 .. t - 1 /\ t \in Nat
    BY TextGraph
  <2>2. l[t] \in DOMAIN g.trans[g.back[t]]
    BY DEF Links, EC!Between
  <2>3. g.trans[g.back[t]][l[t]].text \in V
    BY <2>1, <2>2, TextLetters
  <2>4. BetweenPhrases(g, t) \in V
    <3>1. Space \in Letters(g)
      BY DEF Letters
    <3>2. QED
      BY <3>1 DEF BetweenPhrases
  <2>5. QED
    BY <2>1, <2>3, <2>4
<1>1. ASSUME NEW f, NEW t \in D, \A u \in D : u < t => f[u] \in V
      PROVE  WholeLaid(f, g, l, t) \in V
  <2>1. CASE t = 0
    BY <2>1 DEF WholeLaid
  <2>2. CASE t # 0
    <3>1. PICK x, y, z : x = f[g.back[t]] /\ y = BetweenPhrases(g, t) /\ z = g.trans[g.back[t]][l[t]].text
      OBVIOUS
    <3>2. x \in V /\ y \in V /\ z \in V
      BY <1>0, <1>1, <2>2, <3>1
    <3>3. WholeLaid(f, g, l, t) = (x \o y) \o z
      BY <2>2, <3>1 DEF WholeLaid
    <3>4. QED
      BY <3>2, <3>3
  <2>3. QED
    BY <2>1, <2>2
<1>2. ASSUME NEW f, NEW h, NEW t \in D, \A u \in D : u < t => f[u] = h[u]
      PROVE  WholeLaid(f, g, l, t) = WholeLaid(h, g, l, t)
  <2>1. CASE t = 0
    BY <2>1 DEF WholeLaid
  <2>2. CASE t # 0
    <3>1. f[g.back[t]] = h[g.back[t]]
      BY <1>0, <1>2, <2>2
    <3>2. QED
      BY <2>2, <3>1 DEF WholeLaid
  <2>3. QED
    BY <2>1, <2>2
<1>3. D \subseteq Nat /\ g.n \in Nat /\ rank \in [D -> 0 .. g.n] /\ << >> \in V
  <2>1. g.n \in Nat \ {0} /\ D = 0 .. g.n - 1
    BY TextGraph DEF States
  <2> HIDE DEF D
  <2>2. QED
    BY <2>1
<1>4. ASSUME NEW f \in [D -> V], NEW t \in D
      PROVE  G[f][t] = WholeLaid(f, g, l, t) /\ WholeLaid(f, g, l, t) \in V
  <2>1. G[f][t] = WholeLaid(f, g, l, t)
    OBVIOUS
  <2> HIDE DEF D, V, G
  <2>2. \A u \in D : u < t => f[u] \in V
    OBVIOUS
  <2>3. QED
    BY <1>1, <2>1, <2>2
<1>5. KeepsType(G, D, V)
  <2> HIDE DEF D, V, G
  <2>1. QED
    BY <1>4 DEF KeepsType
<1>6. LooksBelow(G, D, V, rank)
  <2>1. \A t \in D : rank[t] = t
    OBVIOUS
  <2> HIDE DEF D, V, G, rank
  <2>2. ASSUME NEW f \in [D -> V], NEW h \in [D -> V], NEW t \in D,
               \A u \in D : rank[u] < rank[t] => f[u] = h[u]
        PROVE  G[f][t] = G[h][t]
    <3>1. \A u \in D : u < t => f[u] = h[u]
      BY <2>1, <2>2
    <3>2. QED
      BY <1>2, <1>4, <3>1
  <2>3. QED
    BY <2>2 DEF LooksBelow
<1>7. PICK F \in [D -> V] : Solution(F, G, D)
  <2> HIDE DEF D, V, G, rank
  <2>1. V # {}
    BY <1>3
  <2>2. QED
    BY <1>3, <1>5, <1>6, <2>1, Recursion
<1>8. IsWhole(F, g, l)
  <2>1. \A t \in D : F[t] = WholeLaid(F, g, l, t)
    <3> HIDE DEF D, V, G
    <3>1. QED
      BY <1>4, <1>7 DEF Solution
  <2>2. F = [t \in D |-> F[t]]
    BY <1>7
  <2>3. QED
    BY <2>1, <2>2 DEF IsWhole
<1>9. IsWhole(W, g, l)
  BY <1>8 DEF Whole
<1> HIDE DEF W
<1>10. \A t \in D : W[t] = WholeLaid(W, g, l, t)
  BY <1>9 DEF IsWhole
<1> DEFINE Good == { n \in Nat : n \in D => W[n] \in V }
<1>11. ASSUME NEW n \in Nat, \A k \in 0 .. n - 1 : k \in Good PROVE n \in Good
  <2>1. SUFFICES ASSUME n \in D PROVE W[n] \in V
    OBVIOUS
  <2>2. ASSUME NEW u \in D, u < n PROVE W[u] \in V
    <3>1. u \in 0 .. n - 1
      BY <1>3, <2>2
    <3>2. QED
      BY <1>11, <3>1
  <2> HIDE DEF D, V, Good
  <2>3. WholeLaid(W, g, l, n) \in V
    BY <1>1, <2>1, <2>2
  <2>4. QED
    BY <1>10, <2>1, <2>3
<1>12. \A n \in Nat : n \in Good
  <2> HIDE DEF Good
  <2>1. QED
    BY <1>11, StrongInduction
<1>13. QED
  BY <1>3, <1>10, <1>12 DEF W

(* The text of a way depends on the links of that way alone. *)
LEMMA WholeSame ==
  ASSUME NEW g \in ECGraphs, NEW l, NEW m, Links(g, l), Links(g, m),
         NEW M \in SUBSET States(g), \A t \in M \ {0} : g.back[t] \in M /\ l[t] = m[t]
  PROVE  \A t \in M : Whole(g, l)[t] = Whole(g, m)[t]
<1> DEFINE W == Whole(g, l)
           X == Whole(g, m)
           Good == { n \in Nat : n \in M => W[n] = X[n] }
<1>1. \A t \in States(g) : W[t] = WholeLaid(W, g, l, t) /\ X[t] = WholeLaid(X, g, m, t)
  BY WholeEquation
<1>2. \A t \in States(g) \ {0} : g.back[t] \in 0 .. t - 1 /\ t \in Nat
  BY TextGraph
<1>3. ASSUME NEW n \in Nat, \A k \in 0 .. n - 1 : k \in Good PROVE n \in Good
  <2>1. SUFFICES ASSUME n \in M PROVE W[n] = X[n]
    OBVIOUS
  <2>2. CASE n = 0
    <3> HIDE DEF W, X
    <3>1. QED
      BY <1>1, <2>1, <2>2 DEF WholeLaid
  <2>3. CASE n # 0
    <3>1. g.back[n] \in M /\ l[n] = m[n] /\ g.back[n] \in 0 .. n - 1 /\ n \in States(g)
      BY <1>2, <2>1, <2>3
    <3>2. W[g.back[n]] = X[g.back[n]]
      BY <1>3, <3>1
    <3> HIDE DEF W, X
    <3>3. QED
      BY <1>1, <2>3, <3>1, <3>2 DEF WholeLaid
  <2>4. QED
    BY <2>2, <2>3
<1>4. \A n \in Nat : n \in Good
  <2> HIDE DEF Good
  <2>1. QED
    BY <1>3, StrongInduction
<1>5. M \subseteq Nat
  BY TextGraph
<1>6. QED
  BY <1>4, <1>5

LEMMA TextIs ==
  ASSUME graph \in ECGraphs, NEW s \in States(graph), NEW a
  PROVE  EC!Text(s, a) = IF s = 0 THEN << >>
                         ELSE SubSeq(Whole(graph, link)[s], 1,
                                     Len(Whole(graph, link)[s])
                                       - Len(LastPhrase(graph, link, s)) + a)
<1> DEFINE E(f) == f = [t \in EC!States(graph) |->
                     IF t = 0 THEN << >> ELSE f[graph.back[t]]
                       \o (IF graph.back[t] = 0 THEN << >> ELSE << Space >>) \o EC!BackText(t)]
           W == CHOOSE f : E(f)
<1>1. EC!Text(s, a) = IF s = 0 THEN << >>
                      ELSE SubSeq(W[s], 1, Len(W[s]) - Len(EC!BackText(s)) + a)
  BY DEF EC!Text
<1>2. ASSUME NEW f PROVE E(f) <=> IsWhole(f, graph, link)
  <2>1. EC!States(graph) = States(graph)
    BY TextGraph
  <2>2. ASSUME NEW t
        PROVE  (IF t = 0 THEN << >> ELSE f[graph.back[t]]
                       \o (IF graph.back[t] = 0 THEN << >> ELSE << Space >>) \o EC!BackText(t))
                 = WholeLaid(f, graph, link, t)
    BY DEF WholeLaid, BetweenPhrases, EC!BackText
  <2>3. QED
    BY <2>1, <2>2 DEF IsWhole
<1> HIDE DEF E
<1>3. W = Whole(graph, link)
  BY <1>2 DEF Whole
<1>4. s # 0 => EC!BackText(s) = LastPhrase(graph, link, s)
  BY DEF EC!BackText, LastPhrase
<1> HIDE DEF W
<1>5. QED
  BY <1>1, <1>3, <1>4

-------------------------------------------------------------------------
(* The inductive invariant of the search over letters: the costs of the    *)
(* states that the search has come to are those of the whole text; with a  *)
(* state the search has come to those before it, and will come to those    *)
(* after it; what is chosen is worth most so far.                          *)

CostsAt(g, l, p, costs, rows, s) ==
  /\ FullRow(rows[s], Whole(g, l)[s], p)
  /\ CostsIn(costs[s], Whole(g, l)[s], Len(LastPhrase(g, l, s)), p)

Reached(g, M, q) ==
  /\ M \subseteq States(g) /\ \A t \in M \ {0} : g.back[t] \in M
  /\ q \in Seq(M)

Followed(g, M, q) ==
  /\ 0 \in M
  /\ \A t \in States(g) \ {0} :
       g.back[t] \in M => t \in M \/ \E x \in DOMAIN q : q[x] = g.back[t]

Chosen(g, p, costs, n, s, a) ==
  /\ n \in 1 .. g.n /\ s \in 0 .. n - 1 /\ a \in Nat /\ a + 1 \in DOMAIN costs[s]
  /\ \A t \in 0 .. n - 1 : \A b \in DOMAIN costs[t] :
       EC!BestScore(g, t) + ErrorCost(costs[t][b], Len(p))
         <= EC!BestScore(g, s) + ErrorCost(costs[s][a + 1], Len(p))

ECInv ==
  /\ graph \in ECGraphs /\ Links(graph, link)
  /\ DOMAIN link = States(graph)
  /\ DOMAIN prefixCost = States(graph) /\ DOMAIN stateCost = States(graph)
  /\ Reached(graph, mark, queue)
  /\ \A s \in mark : CostsAt(graph, link, prefix, prefixCost, stateCost, s)
  /\ pc \in {"idle", "search", "select"}
  /\ pc = "idle" => mark = {} /\ queue = << >>
  /\ pc # "idle" => prefix \in Typed /\ Followed(graph, mark, queue)
  /\ pc # "select" => i = 0
  /\ pc = "select" => /\ queue = << >> /\ best \in States(graph) \X Nat
                      /\ Chosen(graph, prefix, prefixCost, i, best[1], best[2])

(* Errors are no gain. *)
ErrorsCost ==
  \A p \in Typed : \A e \in Nat :
    ErrorCost(e, Len(p)) \in Int /\ ErrorCost(e + 1, Len(p)) <= ErrorCost(e, Len(p))

LEMMA TypedLength == ASSUME NEW p \in Typed PROVE Len(p) \in Nat
<1>1. p \in Seq(EC!Range(p))
  BY ClassesAssumption DEF EC!TypedAssumption, EC!IsSequence
<1> DEFINE R == EC!Range(p)
<1>2. p \in Seq(R)
  BY <1>1
<1> HIDE DEF R
<1>3. QED
  BY <1>2

LEMMA MoreErrors ==
  ASSUME ErrorsCost, NEW p \in Typed, NEW d \in Nat, NEW e \in Nat, d <= e
  PROVE  ErrorCost(e, Len(p)) <= ErrorCost(d, Len(p)) /\ ErrorCost(e, Len(p)) \in Int
<1> DEFINE Good == { k \in Nat : ErrorCost(d + k, Len(p)) <= ErrorCost(d, Len(p)) }
<1>1. \A k \in Nat : /\ ErrorCost(k, Len(p)) \in Int
                     /\ ErrorCost(k + 1, Len(p)) <= ErrorCost(k, Len(p))
  BY DEF ErrorsCost
<1>2. 0 \in Good
  <2>1. d + 0 = d /\ ErrorCost(d, Len(p)) \in Int
    BY <1>1
  <2>2. ErrorCost(d, Len(p)) <= ErrorCost(d, Len(p))
    BY <2>1
  <2>3. QED
    BY <2>1, <2>2
<1>3. ASSUME NEW k \in Nat, k \in Good PROVE k + 1 \in Good
  <2>1. PICK m : m = d + k /\ m \in Nat /\ d + (k + 1) = m + 1 /\ m + 1 \in Nat
    OBVIOUS
  <2>2. PICK x, y, z : x = ErrorCost(d, Len(p)) /\ y = ErrorCost(m, Len(p)) /\ z = ErrorCost(m + 1, Len(p))
    OBVIOUS
  <2>3. x \in Int /\ y \in Int /\ z \in Int /\ z <= y /\ y <= x
    BY <1>1, <1>3, <2>1, <2>2
  <2>4. z <= x
    BY <2>3
  <2>5. ErrorCost(d + (k + 1), Len(p)) <= ErrorCost(d, Len(p))
    BY <2>1, <2>2, <2>4
  <2>6. k + 1 \in Nat
    OBVIOUS
  <2>7. QED
    BY <2>5, <2>6
<1>4. \A k \in Nat : k \in Good
  <2> HIDE DEF Good
  <2>1. QED
    BY <1>2, <1>3, Induction
<1>5. e - d \in Nat /\ d + (e - d) = e
  OBVIOUS
<1>6. ErrorCost(d + (e - d), Len(p)) <= ErrorCost(d, Len(p))
  BY <1>4, <1>5
<1>7. QED
  BY <1>1, <1>5, <1>6

(* A position of least cost is as good as any. *)
LEMMA BestAlignment ==
  ASSUME ErrorsCost, ECInv, pc # "idle", NEW s \in mark
  PROVE  \E a \in DOMAIN prefixCost[s] :
           /\ EC!getBestAlignment(s) = a - 1 /\ a \in Nat /\ a > 0
           /\ \A b \in DOMAIN prefixCost[s] :
                /\ EC!BestScore(graph, s) + ErrorCost(prefixCost[s][b], Len(prefix))
                     <= EC!BestScore(graph, s) + ErrorCost(prefixCost[s][a], Len(prefix))
                /\ EC!BestScore(graph, s) + ErrorCost(prefixCost[s][b], Len(prefix)) \in Int
<1> DEFINE c == prefixCost[s]
           n == Len(LastPhrase(graph, link, s)) + 1
           R == EC!Range(c)
           A == { a \in DOMAIN c : c[a] = EC!Min(EC!Range(c)) }
<1>1. c \in Seq(Nat) /\ Len(c) = n /\ prefix \in Typed
  BY DEF ECInv, CostsAt, CostsIn
<1>2. n \in Nat /\ n > 0
  <2>1. Len(LastPhrase(graph, link, s)) \in Nat
    <3>1. CASE s = 0
      BY <3>1 DEF LastPhrase
    <3>2. CASE s # 0
      <4>1. graph \in ECGraphs /\ s \in States(graph) \ {0} /\ link[s] \in EC!Between(graph, graph.back[s], s)
        BY <3>2 DEF ECInv, Reached, Links
      <4>2. graph.back[s] \in States(graph) /\ link[s] \in DOMAIN graph.trans[graph.back[s]]
        BY <4>1, TextGraph DEF EC!Between
      <4>3. LastPhrase(graph, link, s) \in Seq(Letters(graph))
        BY <3>2, <4>1, <4>2, TextLetters DEF LastPhrase
      <4>4. QED
        BY <4>3
    <3>3. QED
      BY <3>1, <3>2
  <2>2. QED
    BY <2>1
<1>3. \A S : EC!Min(S) = Min(S)
  BY DEF EC!Min, Min
<1>4. EC!getBestAlignment(s) = EC!Min(A) - 1
  BY DEF EC!getBestAlignment
<1>5. DOMAIN c = 1 .. n /\ \A b \in DOMAIN c : c[b] \in Nat
  <2> HIDE DEF c, n
  <2>1. QED
    BY <1>1, <1>2
<1>6. R \subseteq Nat /\ R # {} /\ \A b \in DOMAIN c : c[b] \in R
  <2>1. R = { c[b] : b \in DOMAIN c }
    BY DEF EC!Range
  <2>2. 1 \in DOMAIN c
    BY <1>2, <1>5
  <2> HIDE DEF R, c
  <2>3. QED
    BY <1>5, <2>1, <2>2
<1>7. Min(R) \in R /\ \A x \in R : Min(R) <= x
  <2> HIDE DEF R
  <2>1. QED
    BY <1>6, MinIn
<1>8. PICK b0 \in DOMAIN c : c[b0] = Min(R)
  <2>1. R = { c[b] : b \in DOMAIN c }
    BY DEF EC!Range
  <2> HIDE DEF R, c
  <2>2. QED
    BY <1>7, <2>1
<1>9. A = { b \in DOMAIN c : c[b] = Min(R) }
  BY <1>3
<1> HIDE DEF A, R, c, n
<1>10. A \subseteq Nat /\ A # {}
  BY <1>5, <1>8, <1>9
<1>11. PICK a : a = Min(A) /\ a \in A
  BY <1>10, MinIn
<1>12. a \in DOMAIN c /\ c[a] = Min(R) /\ a \in Nat /\ a > 0
  BY <1>5, <1>9, <1>11
<1>13. EC!BestScore(graph, s) \in Int
  <2>1. graph \in ECGraphs /\ s \in States(graph)
    BY DEF ECInv, Reached
  <2>2. graph.bscore[s] \in Int /\ graph.fscore[s] \in Int
    BY <2>1, TextGraph
  <2>3. QED
    BY <2>2 DEF EC!BestScore
<1>14. ASSUME NEW b \in DOMAIN c
       PROVE  /\ EC!BestScore(graph, s) + ErrorCost(c[b], Len(prefix))
                    <= EC!BestScore(graph, s) + ErrorCost(c[a], Len(prefix))
              /\ EC!BestScore(graph, s) + ErrorCost(c[b], Len(prefix)) \in Int
  <2>1. PICK d, e : d = c[a] /\ e = c[b] /\ d \in Nat /\ e \in Nat /\ d <= e
    BY <1>5, <1>6, <1>7, <1>12
  <2>2. ErrorCost(e, Len(prefix)) <= ErrorCost(d, Len(prefix)) /\ ErrorCost(e, Len(prefix)) \in Int
    BY <1>1, <2>1, MoreErrors
  <2>3. d <= d
    BY <2>1
  <2>4. ErrorCost(d, Len(prefix)) \in Int
    BY <1>1, <2>1, <2>3, MoreErrors
  <2>5. PICK u, v, w : /\ u = EC!BestScore(graph, s) /\ v = ErrorCost(e, Len(prefix))
                       /\ w = ErrorCost(d, Len(prefix))
    OBVIOUS
  <2>6. u \in Int /\ v \in Int /\ w \in Int /\ v <= w
    BY <1>13, <2>2, <2>4, <2>5
  <2>7. u + v <= u + w /\ u + v \in Int
    BY <2>6
  <2>8. QED
    BY <2>1, <2>5, <2>7
<1>15. EC!getBestAlignment(s) = a - 1
  BY <1>3, <1>4, <1>11
<1>16. QED
  BY <1>12, <1>14, <1>15 DEF c

-------------------------------------------------------------------------
(* The steps of the search over letters. *)

LEMMA BetweenNumbers ==
  ASSUME NEW g \in ECGraphs, NEW s \in States(g), NEW t, EC!Between(g, s, t) # {}
  PROVE  /\ EC!Min(EC!Between(g, s, t)) \in EC!Between(g, s, t)
         /\ EC!Max(EC!Between(g, s, t)) \in EC!Between(g, s, t)
<1> DEFINE B == EC!Between(g, s, t)
           m == Len(g.trans[s])
<1>1. m \in Nat /\ DOMAIN g.trans[s] = 1 .. m
  BY TextGraph
<1>2. B \subseteq DOMAIN g.trans[s]
  BY DEF EC!Between
<1>3. EC!Min(B) = Min(B) /\ EC!Max(B) = Max(B)
  BY DEF EC!Min, EC!Max, Min, Max
<1> HIDE DEF B, m
<1>4. B \subseteq 0 .. m /\ B \subseteq Nat
  BY <1>1, <1>2
<1>5. B # {}
  BY DEF B
<1>6. Min(B) \in B /\ Max(B) \in B
  <2>1. Min(B) \in B
    BY <1>4, <1>5, MinIn
  <2>2. Max(B) \in B
    BY <1>1, <1>4, <1>5, MaxIn
  <2>3. QED
    BY <2>1, <2>2
<1>7. QED
  BY <1>3, <1>6 DEF B

LEMMA LastLinksAre ==
  ASSUME NEW g \in ECGraphs
  PROVE  Links(g, EC!LastLinks(g)) /\ DOMAIN EC!LastLinks(g) = States(g)
<1>1. EC!LastLinks(g)
        = [s \in States(g) |-> IF s = 0 THEN 0 ELSE EC!Max(EC!Between(g, g.back[s], s))]
  BY TextGraph DEF EC!LastLinks
<1>2. ASSUME NEW t \in States(g) \ {0}
      PROVE  EC!Max(EC!Between(g, g.back[t], t)) \in EC!Between(g, g.back[t], t)
  <2>1. g.back[t] \in States(g) /\ EC!Between(g, g.back[t], t) # {}
    BY TextGraph
  <2>2. QED
    BY <2>1, BetweenNumbers
<1>3. QED
  BY <1>1, <1>2 DEF Links

LEMMA LettersStart ==
  ASSUME EC!Init
  PROVE  ECInv
<1>1. /\ graph \in ECGraphs /\ link = EC!LastLinks(graph)
      /\ prefixCost = [s \in EC!States(graph) |-> << >>]
      /\ stateCost  = [s \in EC!States(graph) |-> << >>]
      /\ mark = {} /\ queue = << >> /\ pc = "idle" /\ i = 0
  BY DEF EC!Init
<1>2. EC!States(graph) = States(graph)
  BY <1>1, TextGraph
<1>3. Reached(graph, mark, queue)
  BY <1>1 DEF Reached
<1>4. QED
  BY <1>1, <1>2, <1>3, LastLinksAre DEF ECInv

LEMMA LettersNewSentence ==
  ASSUME ECInv, EC!NewSentence
  PROVE  ECInv'
<1>1. /\ graph' \in ECGraphs /\ link' = EC!LastLinks(graph')
      /\ prefixCost' = [s \in EC!States(graph') |-> << >>]
      /\ stateCost'  = [s \in EC!States(graph') |-> << >>]
      /\ mark' = {} /\ queue' = << >> /\ pc' = "idle" /\ i' = 0
  BY DEF EC!NewSentence, EC!createGraph, ECInv
<1>2. EC!States(graph') = States(graph')
  BY <1>1, TextGraph
<1>3. Reached(graph', mark', queue')
  BY <1>1 DEF Reached
<1>4. Links(graph', link') /\ DOMAIN link' = States(graph')
  BY <1>1, LastLinksAre
<1>5. QED
  BY <1>1, <1>2, <1>3, <1>4 DEF ECInv

LEMMA LettersRequest ==
  ASSUME ECInv, NEW p \in Typed, EC!getPrefix(p)
  PROVE  ECInv'
<1> DEFINE d == [j \in 1 .. Len(p) + 1 |-> j - 1]
<1>1. /\ prefix' = p /\ mark' = {0} /\ queue' = << 0 >> /\ pc' = "search"
      /\ graph' = graph /\ link' = link /\ i' = i /\ pc = "idle"
      /\ prefixCost' = [prefixCost EXCEPT ![0] = EC!PrefixConsumed(d, << >>, p)]
      /\ stateCost' = [stateCost EXCEPT ![0] = EC!StateConsumed(d, << >>, p)]
  BY DEF EC!getPrefix, EC!Row
<1>2. /\ graph \in ECGraphs /\ Links(graph, link) /\ DOMAIN link = States(graph) /\ i = 0
      /\ DOMAIN prefixCost = States(graph) /\ DOMAIN stateCost = States(graph)
  BY <1>1 DEF ECInv
<1>3. 0 \in States(graph)
  BY <1>2, TextGraph
<1>4. Len(p) \in Nat
  BY TypedLength
<1>5. CostsAt(graph, link, p, prefixCost', stateCost', 0)
  <2>1. FullRow(d, << >>, p)
    BY <1>4, FirstRow
  <2>2. << >> \in Seq(Letters(graph)) /\ << >> \o << >> = << >>
    OBVIOUS
  <2>3. PICK t : t = << >>
    OBVIOUS
  <2> HIDE DEF d
  <2>4. t \in Seq(Letters(graph)) /\ FullRow(d, t, p) /\ t \o t = t /\ Len(p) \in Nat
    BY <1>4, <2>1, <2>2, <2>3
  <2>5. FullRow(EC!StateConsumed(d, t, p), t \o t, p)
        /\ CostsIn(EC!PrefixConsumed(d, t, p), t \o t, Len(t), p)
    BY <2>4, RowsCarried
  <2>6. Whole(graph, link)[0] = << >>
    BY <1>2, <1>3, WholeEquation DEF WholeLaid
  <2>7. LastPhrase(graph, link, 0) = << >>
    BY DEF LastPhrase
  <2>8. prefixCost'[0] = EC!PrefixConsumed(d, t, p) /\ stateCost'[0] = EC!StateConsumed(d, t, p)
    BY <1>1, <1>2, <1>3, <2>3
  <2>9. QED
    BY <2>3, <2>4, <2>5, <2>6, <2>7, <2>8 DEF CostsAt
<1> HIDE DEF d
<1>6. DOMAIN prefixCost' = States(graph) /\ DOMAIN stateCost' = States(graph)
  BY <1>1, <1>2
<1>7. Reached(graph, {0}, << 0 >>)
  BY <1>3 DEF Reached
<1>8. Followed(graph, {0}, << 0 >>)
  <2>1. 1 \in DOMAIN << 0 >> /\ << 0 >>[1] = 0
    OBVIOUS
  <2>2. QED
    BY <2>1 DEF Followed
<1>9. QED
  BY <1>1, <1>2, <1>5, <1>6, <1>7, <1>8 DEF ECInv

(* The states that are gathered in turn are those that were meant. *)
LEMMA InTurnIs ==
  ASSUME graph \in ECGraphs, NEW s \in States(graph), NEW next,
         \A t \in next : EC!Between(graph, s, t) # {}
  PROVE  /\ EC!InTurn(s, next) \in Seq(next)
         /\ \A t \in next : \E x \in DOMAIN EC!InTurn(s, next) : EC!InTurn(s, next)[x] = t
<1> DEFINE m == Len(graph.trans[s])
           T == { EC!First(s, t) : t \in next }
           val == [k \in 1 .. m |-> graph.trans[s][k].to]
           E(f) == f = [k \in 0 .. m |->
                     IF k = 0 THEN << >>
                     ELSE IF k \in T THEN Append(f[k - 1], graph.trans[s][k].to)
                     ELSE f[k - 1]]
           F == CHOOSE h : IsGathering(h, T, val, m)
           V == { val[k] : k \in 1 .. m }
<1>1. m \in Nat /\ DOMAIN graph.trans[s] = 1 .. m
  BY TextGraph
<1>2. ASSUME NEW f PROVE E(f) <=> IsGathering(f, T, val, m)
  <2>1. ASSUME NEW k \in 0 .. m
        PROVE  (IF k = 0 THEN << >>
                     ELSE IF k \in T THEN Append(f[k - 1], graph.trans[s][k].to)
                     ELSE f[k - 1]) = Gathered(f, T, val, k)
    <3>1. CASE k = 0
      BY <3>1 DEF Gathered
    <3>2. CASE k # 0
      <4>1. k \in 1 .. m
        BY <1>1, <3>2
      <4>2. val[k] = graph.trans[s][k].to
        BY <4>1
      <4> HIDE DEF val, T, m
      <4>3. QED
        BY <3>2, <4>2 DEF Gathered
    <3>3. QED
      BY <3>1, <3>2
  <2> HIDE DEF val, T, m
  <2>2. QED
    BY <2>1 DEF IsGathering
<1>3. EC!InTurn(s, next) = (CHOOSE f : E(f))[m]
  BY DEF EC!InTurn
<1> HIDE DEF E
<1>4. EC!InTurn(s, next) = F[m]
  BY <1>2, <1>3
<1>5. \A t \in next : EC!First(s, t) \in 1 .. m /\ val[EC!First(s, t)] = t
  <2>1. SUFFICES ASSUME NEW t \in next PROVE EC!First(s, t) \in 1 .. m /\ val[EC!First(s, t)] = t
    OBVIOUS
  <2>2. EC!First(s, t) \in EC!Between(graph, s, t)
    BY BetweenNumbers DEF EC!First
  <2>3. QED
    BY <1>1, <2>2 DEF EC!Between
<1>6. \A k \in 1 .. m : val[k] \in V
  OBVIOUS
<1>7. \A j \in T : \E t \in next : j = EC!First(s, t)
  OBVIOUS
<1>7a. \A t \in next : EC!First(s, t) \in T
  OBVIOUS
<1> HIDE DEF V, val, T, m
<1>8. IsGathering(F, T, val, m)
  BY <1>1, <1>6, GatheringExists
<1> HIDE DEF F
<1>10. m \in 0 .. m
  BY <1>1
<1>9. F[m] \in Seq(V) /\ Gathers(F[m], T, val, m)
  BY <1>1, <1>6, <1>8, <1>10, GatheringEquation
<1>11. F[m] \in Seq(V) /\ \A x \in DOMAIN F[m] : F[m][x] \in next
  BY <1>5, <1>7, <1>9 DEF Gathers
<1>12. F[m] \in Seq(next)
  <2>1. PICK q : q = F[m]
    OBVIOUS
  <2>2. q \in Seq(V) /\ \A x \in DOMAIN q : q[x] \in next
    BY <1>11, <2>1
  <2>3. q \in Seq(next)
    BY <2>2
  <2>4. QED
    BY <2>1, <2>3
<1>13. ASSUME NEW t \in next PROVE \E x \in DOMAIN F[m] : F[m][x] = t
  BY <1>5, <1>7a, <1>9 DEF Gathers
<1>14. QED
  BY <1>4, <1>12, <1>13

(* A state that is visited gets the costs of its text from those of the    *)
(* state before it.                                                        *)
LEMMA CostsFollow ==
  ASSUME NEW g \in ECGraphs, g = graph, NEW l, Links(g, l), NEW p, p = prefix, Len(p) \in Nat,
         NEW t \in States(g) \ {0}, NEW row, FullRow(row, Whole(g, l)[g.back[t]], p)
  PROVE  /\ FullRow(EC!StateConsumed(EC!Row(t, row, p), LastPhrase(g, l, t), p), Whole(g, l)[t], p)
         /\ CostsIn(EC!PrefixConsumed(EC!Row(t, row, p), LastPhrase(g, l, t), p),
                    Whole(g, l)[t], Len(LastPhrase(g, l, t)), p)
<1>1. g.back[t] \in States(g) /\ l[t] \in DOMAIN g.trans[g.back[t]]
  BY TextGraph DEF Links, EC!Between
<1>2. PICK L, w, b, c :
        /\ L = Letters(g) /\ w = Whole(g, l)[g.back[t]] /\ b = BetweenPhrases(g, t)
        /\ c = LastPhrase(g, l, t)
  OBVIOUS
<1>3. w \in Seq(L)
  BY <1>1, <1>2, WholeEquation
<1>4. c \in Seq(L)
  BY <1>1, <1>2, TextLetters DEF LastPhrase
<1>5. b \in Seq(L)
  <2>1. Space \in L
    BY <1>2 DEF Letters
  <2>2. << >> \in Seq(L) /\ << Space >> \in Seq(L)
    BY <2>1
  <2>3. QED
    BY <1>2, <2>2 DEF BetweenPhrases
<1>6. Whole(g, l)[t] = (w \o b) \o c
  <2>1. Whole(g, l)[t] = WholeLaid(Whole(g, l), g, l, t)
    BY WholeEquation
  <2>2. QED
    BY <1>2, <2>1, Zenon DEF WholeLaid, LastPhrase
<1>7. PICK r : r = EC!Row(t, row, p)
  OBVIOUS
<1>8. FullRow(r, w \o b, p)
  <2>1. CASE g.back[t] = 0
    <3>1. b = << >> /\ r = row
      BY <1>2, <1>7, <2>1 DEF BetweenPhrases, EC!Row
    <3>2. w \o b = w
      BY <1>3, <3>1
    <3>3. QED
      BY <1>2, <3>1, <3>2
  <2>2. CASE g.back[t] # 0
    <3>1. b = << Space >> /\ r = EC!StateConsumed(row, b, p)
      BY <1>2, <1>7, <2>2 DEF BetweenPhrases, EC!Row
    <3>2. FullRow(row, w, p)
      BY <1>2
    <3>3. /\ FullRow(EC!StateConsumed(row, b, p), w \o b, p)
          /\ CostsIn(EC!PrefixConsumed(row, b, p), w \o b, Len(b), p)
      BY <1>3, <1>5, <3>2, RowsCarried
    <3>4. QED
      BY <3>1, <3>3
  <2>3. QED
    BY <2>1, <2>2
<1>9. PICK v : v = w \o b /\ v \in Seq(L)
  <2>1. w \o b \in Seq(L)
    BY <1>3, <1>5
  <2>2. QED
    BY <2>1
<1>10. /\ FullRow(EC!StateConsumed(r, c, p), v \o c, p)
       /\ CostsIn(EC!PrefixConsumed(r, c, p), v \o c, Len(c), p)
  BY <1>4, <1>8, <1>9, RowsCarried
<1>11. QED
  BY <1>2, <1>6, <1>7, <1>9, <1>10

LEMMA LettersVisit ==
  ASSUME ECInv, EC!Visit
  PROVE  ECInv'
<1> DEFINE s == Head(queue)
           next == { t \in States(graph) \ mark : graph.back[t] = s /\ EC!Between(graph, s, t) # {} }
           text(t) == graph.trans[s][EC!First(s, t)].text
           row(t) == EC!Row(t, stateCost[s], prefix)
<1>1. /\ graph \in ECGraphs /\ Links(graph, link) /\ Reached(graph, mark, queue)
      /\ \A t \in mark : CostsAt(graph, link, prefix, prefixCost, stateCost, t)
      /\ prefix \in Typed /\ Followed(graph, mark, queue) /\ i = 0 /\ pc = "search"
      /\ DOMAIN link = States(graph)
  BY DEF ECInv, EC!Visit
<1>2. EC!States(graph) = States(graph)
  BY <1>1, TextGraph
<1>3. /\ queue # << >>
      /\ link' = [t \in States(graph) |-> IF t \in next THEN EC!First(s, t) ELSE link[t]]
      /\ prefixCost' = [t \in States(graph) |->
           IF t \in next THEN EC!PrefixConsumed(row(t), text(t), prefix) ELSE prefixCost[t]]
      /\ stateCost' = [t \in States(graph) |->
           IF t \in next THEN EC!StateConsumed(row(t), text(t), prefix) ELSE stateCost[t]]
      /\ mark' = mark \cup next
      /\ queue' = Tail(queue) \o EC!InTurn(s, next)
      /\ graph' = graph /\ prefix' = prefix /\ pc' = pc /\ i' = i
  BY <1>2 DEF EC!Visit
<1>4. queue \in Seq(mark) /\ mark \subseteq States(graph) /\ 0 \in mark
      /\ \A t \in mark \ {0} : graph.back[t] \in mark
  BY <1>1 DEF Reached, Followed
<1>5. s \in mark /\ Tail(queue) \in Seq(mark)
      /\ \A x \in DOMAIN queue : queue[x] = s \/ \E y \in DOMAIN Tail(queue) : Tail(queue)[y] = queue[x]
  <2>1. s \in mark /\ Tail(queue) \in Seq(mark) /\ Len(queue) \in Nat /\ Len(queue) > 0
    BY <1>3, <1>4
  <2>2. SUFFICES ASSUME NEW x \in DOMAIN queue, queue[x] # s
                 PROVE  \E y \in DOMAIN Tail(queue) : Tail(queue)[y] = queue[x]
    BY <2>1
  <2>3. x \in 1 .. Len(queue) /\ x # 1
    BY <1>4, <2>2
  <2>4. x - 1 \in DOMAIN Tail(queue) /\ Tail(queue)[x - 1] = queue[x]
    BY <1>4, <2>1, <2>3
  <2>5. QED
    BY <2>4
<1>6. \A t \in next : /\ t \in States(graph) \ {0} /\ t \notin mark /\ graph.back[t] = s
                      /\ EC!Between(graph, s, t) # {}
                      /\ EC!First(s, t) \in EC!Between(graph, s, t)
  <2>1. SUFFICES ASSUME NEW t \in next
                 PROVE  /\ t \in States(graph) \ {0} /\ t \notin mark /\ graph.back[t] = s
                        /\ EC!Between(graph, s, t) # {}
                        /\ EC!First(s, t) \in EC!Between(graph, s, t)
    OBVIOUS
  <2>2. t \in States(graph) \ {0} /\ t \notin mark /\ graph.back[t] = s
        /\ EC!Between(graph, s, t) # {}
    BY <1>4
  <2>3. s \in States(graph)
    BY <1>4, <1>5
  <2> HIDE DEF s, next
  <2>4. QED
    BY <1>1, <2>2, <2>3, BetweenNumbers DEF EC!First
<1>7. \A t \in States(graph) \ mark :
        graph.back[t] = s => t \in next
  <2>1. SUFFICES ASSUME NEW t \in States(graph) \ mark, graph.back[t] = s
                 PROVE  EC!Between(graph, s, t) # {}
    OBVIOUS
  <2>2. t # 0
    BY <1>4
  <2> HIDE DEF s
  <2>3. QED
    BY <1>1, <2>1, <2>2, TextGraph
<1>8. /\ EC!InTurn(s, next) \in Seq(next)
      /\ \A t \in next : \E x \in DOMAIN EC!InTurn(s, next) : EC!InTurn(s, next)[x] = t
  <2>1. s \in States(graph) /\ \A t \in next : EC!Between(graph, s, t) # {}
    BY <1>4, <1>5, <1>6
  <2> HIDE DEF s, next
  <2>2. QED
    BY <1>1, <2>1, InTurnIs
<1> HIDE DEF s, next, text, row
<1>9. Links(graph, link') /\ DOMAIN link' = States(graph)
  <2>1. ASSUME NEW t \in States(graph) \ {0} PROVE link'[t] \in EC!Between(graph, graph.back[t], t)
    <3>1. CASE t \in next
      <4>1. link'[t] = EC!First(s, t)
        BY <1>3, <3>1
      <4>2. QED
        BY <1>6, <3>1, <4>1
    <3>2. CASE t \notin next
      <4>1. link'[t] = link[t]
        BY <1>3, <3>2
      <4>2. QED
        BY <1>1, <4>1 DEF Links
    <3>3. QED
      BY <3>1, <3>2
  <2>2. QED
    BY <1>3, <2>1 DEF Links
<1>10. \A t \in mark : link'[t] = link[t] /\ prefixCost'[t] = prefixCost[t]
                       /\ stateCost'[t] = stateCost[t]
  BY <1>3, <1>4, <1>6
<1>11. \A t \in mark : Whole(graph, link')[t] = Whole(graph, link)[t]
  <2>1. PICK l : l = link'
    OBVIOUS
  <2>2. Links(graph, l) /\ \A t \in mark \ {0} : graph.back[t] \in mark /\ l[t] = link[t]
    BY <1>4, <1>9, <1>10, <2>1
  <2>3. \A t \in mark : Whole(graph, l)[t] = Whole(graph, link)[t]
    BY <1>1, <1>4, <2>2, WholeSame
  <2>4. QED
    BY <2>1, <2>3
<1>12. ASSUME NEW t \in mark
       PROVE  CostsAt(graph, link', prefix, prefixCost', stateCost', t)
  <2>1. CostsAt(graph, link, prefix, prefixCost, stateCost, t)
    BY <1>1
  <2>2. LastPhrase(graph, link', t) = LastPhrase(graph, link, t)
    BY <1>10 DEF LastPhrase
  <2>3. QED
    BY <1>10, <1>11, <2>1, <2>2 DEF CostsAt
<1>13. ASSUME NEW t \in next
       PROVE  CostsAt(graph, link', prefix, prefixCost', stateCost', t)
  <2>1. t \in States(graph) \ {0} /\ graph.back[t] = s /\ s \in mark
    BY <1>5, <1>6
  <2>2. /\ link'[t] = EC!First(s, t)
        /\ prefixCost'[t] = EC!PrefixConsumed(row(t), text(t), prefix)
        /\ stateCost'[t] = EC!StateConsumed(row(t), text(t), prefix)
    BY <1>3, <2>1
  <2>3. LastPhrase(graph, link', t) = text(t)
    BY <2>1, <2>2 DEF LastPhrase, text
  <2>4. FullRow(stateCost[s], Whole(graph, link')[graph.back[t]], prefix)
    <3>1. CostsAt(graph, link, prefix, prefixCost, stateCost, s)
      BY <1>1, <2>1
    <3>2. QED
      BY <1>11, <2>1, <3>1 DEF CostsAt
  <2>5. PICK l, p, r : l = link' /\ p = prefix /\ r = stateCost[s]
    OBVIOUS
  <2>6. Links(graph, l) /\ Len(p) \in Nat /\ FullRow(r, Whole(graph, l)[graph.back[t]], p)
    BY <1>1, <1>9, <2>4, <2>5, TypedLength
  <2>7. /\ FullRow(EC!StateConsumed(EC!Row(t, r, p), LastPhrase(graph, l, t), p), Whole(graph, l)[t], p)
        /\ CostsIn(EC!PrefixConsumed(EC!Row(t, r, p), LastPhrase(graph, l, t), p),
                    Whole(graph, l)[t], Len(LastPhrase(graph, l, t)), p)
    BY <1>1, <2>1, <2>5, <2>6, CostsFollow
  <2>8. EC!Row(t, r, p) = row(t)
    BY <2>5 DEF row
  <2>9. QED
    BY <2>2, <2>3, <2>5, <2>7, <2>8 DEF CostsAt
<1>14. Reached(graph, mark \cup next, queue')
  <2>1. PICK q : q = EC!InTurn(s, next) /\ q \in Seq(next)
    BY <1>8
  <2>2. Tail(queue) \o q \in Seq(mark \cup next)
    BY <1>5, <2>1
  <2>3. mark \cup next \subseteq States(graph)
    BY <1>4, <1>6
  <2>4. \A t \in (mark \cup next) \ {0} : graph.back[t] \in mark \cup next
    BY <1>4, <1>5, <1>6
  <2>5. QED
    BY <1>3, <2>1, <2>2, <2>3, <2>4 DEF Reached
<1>15. Followed(graph, mark \cup next, queue')
  <2>1. SUFFICES ASSUME NEW t \in States(graph) \ {0}, graph.back[t] \in mark \cup next,
                        t \notin mark \cup next
                 PROVE  \E x \in DOMAIN queue' : queue'[x] = graph.back[t]
    BY <1>4 DEF Followed
  <2>2. PICK a, b : a = Tail(queue) /\ b = EC!InTurn(s, next) /\ queue' = a \o b
    BY <1>3
  <2>3. a \in Seq(mark) /\ b \in Seq(next)
    BY <1>5, <1>8, <2>2
  <2>4. \A x \in DOMAIN a : x \in DOMAIN (a \o b) /\ (a \o b)[x] = a[x]
    BY <2>3
  <2>5. \A x \in DOMAIN b : Len(a) + x \in DOMAIN (a \o b) /\ (a \o b)[Len(a) + x] = b[x]
    BY <2>3
  <2>6. CASE graph.back[t] \in next
    <3>1. PICK x \in DOMAIN b : b[x] = graph.back[t]
      BY <1>8, <2>2, <2>6
    <3>2. QED
      BY <2>2, <2>5, <3>1
  <2>7. CASE graph.back[t] \in mark
    <3>1. PICK x \in DOMAIN queue : queue[x] = graph.back[t]
      BY <1>1, <2>1, <2>7 DEF Followed
    <3>2. queue[x] # s
      BY <1>7, <2>1, <3>1
    <3>3. PICK y \in DOMAIN a : a[y] = queue[x]
      BY <1>5, <2>2, <3>2
    <3>4. QED
      BY <2>2, <2>4, <3>1, <3>3
  <2>8. QED
    BY <2>1, <2>6, <2>7
<1>16. DOMAIN prefixCost' = States(graph) /\ DOMAIN stateCost' = States(graph)
  BY <1>3
<1>17. QED
  BY <1>1, <1>3, <1>9, <1>12, <1>13, <1>14, <1>15, <1>16 DEF ECInv

(* Once the queue is empty, the search has come to all states.             *)
LEMMA AllMarked ==
  ASSUME ECInv, pc # "idle", queue = << >>
  PROVE  mark = States(graph)
<1>1. graph \in ECGraphs /\ Reached(graph, mark, queue) /\ Followed(graph, mark, queue)
  BY DEF ECInv
<1>2. \A t \in States(graph) \ {0} : graph.back[t] \in mark => t \in mark
  BY <1>1 DEF Followed
<1>3. 0 \in mark /\ mark \subseteq States(graph)
  BY <1>1 DEF Followed, Reached
<1>4. States(graph) \subseteq Nat /\ \A t \in States(graph) \ {0} :
        graph.back[t] \in 0 .. t - 1 /\ graph.back[t] \in States(graph)
  BY <1>1, TextGraph
<1> DEFINE Good == { n \in Nat : n \in States(graph) => n \in mark }
<1>5. ASSUME NEW n \in Nat, \A k \in 0 .. n - 1 : k \in Good PROVE n \in Good
  <2>1. SUFFICES ASSUME n \in States(graph), n # 0 PROVE n \in mark
    BY <1>3
  <2>2. graph.back[n] \in Good
    BY <1>4, <1>5, <2>1
  <2>3. graph.back[n] \in mark
    BY <1>4, <2>1, <2>2
  <2>4. QED
    BY <1>2, <2>1, <2>3
<1>6. \A n \in Nat : n \in Good
  <2> HIDE DEF Good
  <2>1. QED
    BY <1>5, StrongInduction
<1>7. QED
  BY <1>3, <1>4, <1>6

LEMMA LettersSelectFirst ==
  ASSUME ErrorsCost, ECInv, EC!SelectFirst
  PROVE  ECInv'
<1>1. /\ pc = "search" /\ queue = << >> /\ pc' = "select" /\ i' = 1
      /\ best' = << 0, EC!getBestAlignment(0) >>
      /\ UNCHANGED << graph, prefix, link, prefixCost, stateCost, mark, queue >>
  BY DEF EC!SelectFirst
<1>2. graph \in ECGraphs /\ Followed(graph, mark, queue)
  BY <1>1 DEF ECInv
<1>3. 0 \in mark /\ 0 \in States(graph) /\ graph.n \in Nat \ {0} /\ pc # "idle"
  BY <1>1, <1>2, TextGraph DEF Followed
<1>4. PICK a \in DOMAIN prefixCost[0] :
           /\ EC!getBestAlignment(0) = a - 1 /\ a \in Nat /\ a > 0
           /\ \A b \in DOMAIN prefixCost[0] :
                /\ EC!BestScore(graph, 0) + ErrorCost(prefixCost[0][b], Len(prefix))
                     <= EC!BestScore(graph, 0) + ErrorCost(prefixCost[0][a], Len(prefix))
                /\ EC!BestScore(graph, 0) + ErrorCost(prefixCost[0][b], Len(prefix)) \in Int
  BY <1>3, BestAlignment
<1>5. a - 1 \in Nat /\ (a - 1) + 1 = a
  BY <1>4
<1>6. \A t \in 0 .. 1 - 1 : t = 0
  OBVIOUS
<1>7. Chosen(graph, prefix, prefixCost, 1, 0, a - 1)
  BY <1>3, <1>4, <1>5, <1>6 DEF Chosen
<1>8. best' = << 0, a - 1 >> /\ best' \in States(graph) \X Nat /\ best'[1] = 0 /\ best'[2] = a - 1
  BY <1>1, <1>3, <1>4, <1>5
<1>9. QED
  BY <1>1, <1>7, <1>8 DEF ECInv

LEMMA LettersSelect ==
  ASSUME ErrorsCost, ECInv, EC!Select
  PROVE  ECInv'
<1> DEFINE a0 == EC!getBestAlignment(i)
<1>1. /\ pc = "select" /\ pc' = "select" /\ i' = i + 1 /\ i < graph.n
      /\ best' = IF EC!Worth(i, a0) > EC!Worth(best[1], best[2]) THEN << i, a0 >> ELSE best
      /\ UNCHANGED << graph, prefix, link, prefixCost, stateCost, mark, queue >>
  BY DEF EC!Select
<1>2. /\ graph \in ECGraphs /\ queue = << >> /\ pc # "idle" /\ best \in States(graph) \X Nat
      /\ Chosen(graph, prefix, prefixCost, i, best[1], best[2])
  BY <1>1 DEF ECInv
<1>3. mark = States(graph)
  BY <1>2, AllMarked
<1>4. graph.n \in Nat \ {0} /\ States(graph) = 0 .. graph.n - 1
  BY <1>2, TextGraph DEF States
<1>5. /\ i \in 1 .. graph.n /\ best[1] \in 0 .. i - 1 /\ best[2] \in Nat
      /\ best[2] + 1 \in DOMAIN prefixCost[best[1]]
  BY <1>2 DEF Chosen
<1>6. i \in mark /\ best[1] \in mark /\ i + 1 \in 1 .. graph.n
  BY <1>1, <1>3, <1>4, <1>5
<1> DEFINE W(t, b) == EC!BestScore(graph, t) + ErrorCost(prefixCost[t][b], Len(prefix))
<1>7. PICK a \in DOMAIN prefixCost[i] :
           /\ a0 = a - 1 /\ a \in Nat /\ a > 0
           /\ \A b \in DOMAIN prefixCost[i] : W(i, b) <= W(i, a) /\ W(i, b) \in Int
  BY <1>2, <1>6, BestAlignment
<1>8. \A t \in mark : \A b \in DOMAIN prefixCost[t] : W(t, b) \in Int
  <2>1. SUFFICES ASSUME NEW t \in mark, NEW b \in DOMAIN prefixCost[t] PROVE W(t, b) \in Int
    OBVIOUS
  <2>2. PICK c \in DOMAIN prefixCost[t] :
           /\ EC!getBestAlignment(t) = c - 1 /\ c \in Nat /\ c > 0
           /\ \A d \in DOMAIN prefixCost[t] : W(t, d) <= W(t, c) /\ W(t, d) \in Int
    BY <1>2, BestAlignment
  <2>3. QED
    BY <2>2
<1>9. EC!Worth(i, a0) = W(i, a) /\ EC!Worth(best[1], best[2]) = W(best[1], best[2] + 1)
  <2>1. a0 + 1 = a
    BY <1>7
  <2> HIDE DEF a0
  <2>2. QED
    BY <2>1 DEF EC!Worth
<1>10. \A t \in 0 .. i - 1 : \A b \in DOMAIN prefixCost[t] : W(t, b) <= W(best[1], best[2] + 1)
  BY <1>2 DEF Chosen
<1>11. \A t \in 0 .. i : t = i \/ t \in 0 .. i - 1
  BY <1>5
<1>12. \A t \in 0 .. i : t \in mark
  BY <1>1, <1>3, <1>4, <1>5
<1>13. (i + 1) - 1 = i /\ i \in 0 .. i /\ a - 1 \in Nat /\ (a - 1) + 1 = a
       /\ i \in States(graph) /\ best[1] \in 0 .. i
  BY <1>3, <1>5, <1>6, <1>7
<1> HIDE DEF a0
<1>14. PICK u, v : u = W(i, a) /\ v = W(best[1], best[2] + 1) /\ u \in Int /\ v \in Int
  BY <1>5, <1>6, <1>7, <1>8
<1>15. \A t \in 0 .. i : \A b \in DOMAIN prefixCost[t] :
         W(t, b) \in Int /\ (IF t = i THEN W(t, b) <= u ELSE W(t, b) <= v)
  BY <1>7, <1>8, <1>10, <1>11, <1>12, <1>14
<1>16. CASE u > v
  <2>1. best' = << i, a - 1 >>
    BY <1>1, <1>7, <1>9, <1>14, <1>16
  <2> DEFINE V(t, b) == EC!BestScore(graph, t) + ErrorCost(prefixCost[t][b], Len(prefix))
  <2>2. \A t \in 0 .. i : \A b \in DOMAIN prefixCost[t] : W(t, b) <= u
    <3>1. SUFFICES ASSUME NEW t \in 0 .. i, NEW b \in DOMAIN prefixCost[t] PROVE W(t, b) <= u
      OBVIOUS
    <3>2. PICK w : w = W(t, b)
      OBVIOUS
    <3> HIDE DEF W
    <3>3. w \in Int /\ (w <= u \/ w <= v)
      BY <1>15, <3>2
    <3>4. w <= u
      BY <1>14, <1>16, <3>3
    <3>5. QED
      BY <3>2, <3>4
  <2>3. Chosen(graph, prefix, prefixCost, i + 1, i, a - 1)
    BY <1>6, <1>7, <1>13, <1>14, <2>2 DEF Chosen
  <2>4. best' \in States(graph) \X Nat /\ best'[1] = i /\ best'[2] = a - 1
    BY <1>13, <2>1
  <2>5. QED
    BY <1>1, <1>2, <2>3, <2>4 DEF ECInv
<1>17. CASE ~ (u > v)
  <2>1. best' = best
    BY <1>1, <1>9, <1>14, <1>17
  <2>2. \A t \in 0 .. i : \A b \in DOMAIN prefixCost[t] : W(t, b) <= v
    <3>1. SUFFICES ASSUME NEW t \in 0 .. i, NEW b \in DOMAIN prefixCost[t] PROVE W(t, b) <= v
      OBVIOUS
    <3>2. PICK w : w = W(t, b)
      OBVIOUS
    <3> HIDE DEF W
    <3>3. w \in Int /\ (w <= u \/ w <= v)
      BY <1>15, <3>2
    <3>4. w <= v
      BY <1>14, <1>17, <3>3
    <3>5. QED
      BY <3>2, <3>4
  <2>3. Chosen(graph, prefix, prefixCost, i + 1, best[1], best[2])
    BY <1>5, <1>6, <1>13, <1>14, <2>2 DEF Chosen
  <2>4. QED
    BY <1>1, <1>2, <2>1, <2>3 DEF ECInv
<1>18. QED
  BY <1>16, <1>17

LEMMA LettersAnswer ==
  ASSUME ECInv, EC!Answer
  PROVE  ECInv'
<1>1. /\ pc = "select" /\ pc' = "idle" /\ i' = 0 /\ mark' = {}
      /\ UNCHANGED << graph, prefix, link, prefixCost, stateCost, queue >>
  BY DEF EC!Answer
<1>2. queue = << >> /\ Reached(graph, {}, << >>)
  BY <1>1 DEF ECInv, Reached
<1>3. QED
  BY <1>1, <1>2 DEF ECInv

LEMMA LettersStutter ==
  ASSUME ECInv, UNCHANGED EC!vars
  PROVE  ECInv'
BY DEF ECInv, EC!vars

-------------------------------------------------------------------------
(* The choice. *)

(* The classes stay what they are. *)
LEMMA LevelKeepsClass ==
  ASSUME Level!Next
  PROVE  class' = class
<1>1. ASSUME Level!Step PROVE class' = class
  BY <1>1 DEF Level!Step, Level!process_jump, Level!process_match, Level!NextTransition, Level!NextBack,
              Level!NextState, Level!NextLevel, Level!Answer, Level!Fail, Level!searchVars
<1>2. QED
  BY <1>1 DEF Level!Next, Level!createGraph, Level!getPrefix

(* The costs carried along are distances from the beginnings of the text.  *)
LEMMA CostIsDistance ==
  ASSUME ECInv, pc # "idle", NEW s \in mark, NEW a \in DOMAIN prefixCost[s]
  PROVE  prefixCost[s][a] = EC!Distance(prefix, EC!Text(s, a - 1))
<1>1. /\ graph \in ECGraphs /\ Links(graph, link) /\ s \in States(graph) /\ prefix \in Typed
      /\ CostsAt(graph, link, prefix, prefixCost, stateCost, s)
  BY DEF ECInv, Reached
<1>2. PICK C, w, c, l, p : /\ C = Letters(graph) /\ w = Whole(graph, link)[s]
                           /\ c = LastPhrase(graph, link, s) /\ l = Len(c) /\ p = prefix
  OBVIOUS
<1>3. Len(p) \in Nat
  BY <1>1, <1>2, TypedLength
<1>4. w \in Seq(C) /\ w = WholeLaid(Whole(graph, link), graph, link, s)
  BY <1>1, <1>2, WholeEquation
<1>5. c \in Seq(C) /\ l \in Nat /\ Len(w) \in Nat /\ l <= Len(w)
  <2>1. CASE s = 0
    <3>1. c = << >> /\ w = << >>
      BY <1>2, <1>4, <2>1 DEF LastPhrase, WholeLaid
    <3>2. QED
      BY <1>2, <3>1
  <2>2. CASE s # 0
    <3>1. graph.back[s] \in States(graph) /\ link[s] \in DOMAIN graph.trans[graph.back[s]]
      BY <1>1, <2>2, TextGraph DEF Links, EC!Between
    <3>2. c \in Seq(C)
      BY <1>1, <1>2, <2>2, <3>1, TextLetters DEF LastPhrase
    <3>3. PICK x, y : x = Whole(graph, link)[graph.back[s]] /\ y = BetweenPhrases(graph, s)
      OBVIOUS
    <3>4. x \in Seq(C)
      BY <1>1, <1>2, <3>1, <3>3, WholeEquation
    <3>5. y \in Seq(C)
      <4>1. Space \in C
        BY <1>2 DEF Letters
      <4>2. << >> \in Seq(C) /\ << Space >> \in Seq(C)
        BY <4>1
      <4>3. QED
        BY <3>3, <4>2 DEF BetweenPhrases
    <3>6. w = (x \o y) \o c
      BY <1>2, <1>4, <2>2, <3>3, Zenon DEF WholeLaid, LastPhrase
    <3>7. Len(w) = Len(x) + Len(y) + Len(c) /\ Len(x) \in Nat /\ Len(y) \in Nat /\ Len(c) \in Nat
      BY <3>2, <3>4, <3>5, <3>6
    <3>8. QED
      BY <1>2, <3>2, <3>7
  <2>3. QED
    BY <2>1, <2>2
<1>6. /\ DOMAIN prefixCost[s] = 1 .. l + 1
      /\ prefixCost[s][a] = Apart(w, Len(w) - l + a - 1, p, Len(p))
  <2>1. /\ prefixCost[s] \in Seq(Nat) /\ Len(prefixCost[s]) = l + 1
        /\ \A b \in 1 .. l + 1 : prefixCost[s][b] = Apart(w, Len(w) - l + b - 1, p, Len(p))
    BY <1>1, <1>2 DEF CostsAt, CostsIn
  <2>2. DOMAIN prefixCost[s] = 1 .. l + 1
    BY <1>5, <2>1
  <2>3. QED
    BY <2>1, <2>2
<1>7. PICK n : n = Len(w) - l + a - 1 /\ n \in 0 .. Len(w) /\ n = Len(w) - l + (a - 1)
  BY <1>5, <1>6
<1>8. EC!Distance(p, SubSeq(w, 1, n)) = Apart(w, n, p, Len(p))
  BY <1>3, <1>4, <1>7, ApartIsDistance
<1>9. EC!Text(s, a - 1) = SubSeq(w, 1, n)
  <2>1. PICK b : b = a - 1
    OBVIOUS
  <2>2. EC!Text(s, b) = IF s = 0 THEN << >> ELSE SubSeq(w, 1, Len(w) - l + b)
    BY <1>1, <1>2, TextIs
  <2>3. CASE s = 0
    <3>1. w = << >>
      BY <1>4, <2>3 DEF WholeLaid
    <3>2. n = 0 /\ SubSeq(w, 1, 0) = << >>
      BY <1>7, <3>1
    <3>3. QED
      BY <2>1, <2>2, <2>3, <3>2
  <2>4. CASE s # 0
    BY <1>7, <2>1, <2>2, <2>4
  <2>5. QED
    BY <2>3, <2>4
<1>10. QED
  BY <1>2, <1>6, <1>7, <1>8, <1>9

LEMMA LettersChoice ==
  ASSUME ECInv
  PROVE  EC!CostsTrue /\ EC!ChoiceIsBest
<1>1. ASSUME pc = "search", NEW s \in mark, NEW a \in DOMAIN prefixCost[s]
      PROVE  prefixCost[s][a] = EC!Distance(prefix, EC!Text(s, a - 1))
  <2>1. pc # "idle"
    BY <1>1
  <2>2. QED
    BY <2>1, CostIsDistance
<1>2. ASSUME pc = "select", i = graph.n, NEW s \in mark, NEW a \in DOMAIN prefixCost[s]
      PROVE  EC!BestScore(graph, s) + ErrorCost(EC!Distance(prefix, EC!Text(s, a - 1)), Len(prefix))
               <= EC!Worth(best[1], best[2])
  <2>1. pc # "idle"
    BY <1>2
  <2>2. prefixCost[s][a] = EC!Distance(prefix, EC!Text(s, a - 1))
    BY <2>1, CostIsDistance
  <2>3. s \in States(graph) /\ graph \in ECGraphs /\ Chosen(graph, prefix, prefixCost, i, best[1], best[2])
    BY <1>2 DEF ECInv, Reached
  <2>4. s \in 0 .. i - 1
    BY <1>2, <2>3, TextGraph DEF States
  <2>5. EC!BestScore(graph, s) + ErrorCost(prefixCost[s][a], Len(prefix))
          <= EC!BestScore(graph, best[1]) + ErrorCost(prefixCost[best[1]][best[2] + 1], Len(prefix))
    BY <2>3, <2>4 DEF Chosen
  <2>6. QED
    BY <2>2, <2>5 DEF EC!Worth
<1>3. EC!CostsTrue
  BY <1>1 DEF EC!CostsTrue
<1>4. EC!ChoiceIsBest
  BY <1>2 DEF EC!ChoiceIsBest
<1>5. QED
  BY <1>3, <1>4

LettersHold == class = "ECModel" => ECInv

LEMMA LettersKept ==
  ASSUME ErrorsCost, LettersHold, [Next]_vars
  PROVE  LettersHold'
<1>1. SUFFICES ASSUME class' = "ECModel" PROVE ECInv'
  BY DEF LettersHold
<1>2. CASE ECNext
  <2>1. ECInv /\ EC!Next
    BY <1>2 DEF ECNext, LettersHold
  <2>2. CASE EC!NewSentence
    BY <2>1, <2>2, LettersNewSentence
  <2>3. CASE \E p \in Typed : EC!getPrefix(p)
    BY <2>1, <2>3, LettersRequest
  <2>4. CASE EC!Visit
    BY <2>1, <2>4, LettersVisit
  <2>5. CASE EC!SelectFirst
    BY <2>1, <2>5, LettersSelectFirst
  <2>6. CASE EC!Select
    BY <2>1, <2>6, LettersSelect
  <2>7. CASE EC!Answer
    BY <2>1, <2>7, LettersAnswer
  <2>8. QED
    BY <2>1, <2>2, <2>3, <2>4, <2>5, <2>6, <2>7 DEF EC!Next
<1>3. CASE UNCHANGED vars
  <2>1. ECInv /\ UNCHANGED EC!vars
    BY <1>1, <1>3 DEF vars, ecMembers, EC!vars, LettersHold
  <2>2. QED
    BY <2>1, LettersStutter
<1>4. CASE PlainNext \/ WindowNext \/ VectorNext
  BY <1>1, <1>4 DEF PlainNext, WindowNext, VectorNext
<1>5. CASE LevelNext
  <2>1. class' \in LevelClasses
    BY <1>5, LevelKeepsClass DEF LevelNext
  <2>2. QED
    BY <1>1, <2>1 DEF LevelClasses
<1>6. QED
  BY <1>2, <1>3, <1>4, <1>5 DEF Next

(* ECModel: the costs that are carried from state to state, a space in     *)
(* between, are those of the whole text of each state's way, and the state *)
(* and alignment that are chosen are worth most of all: for all graphs,    *)
(* all prefixes, and all costs of errors that never gain.                  *)
THEOREM ChoiceAlwaysBest ==
  ASSUME ErrorsCost
  PROVE  Spec => []ECChoiceIsBest
<1>1. LettersHold => ECChoiceIsBest
  BY LettersChoice DEF LettersHold, ECChoiceIsBest
<1>2. Init => LettersHold
  <2>1. Init /\ class = "ECModel" => EC!Init
    BY DEF Init, LevelClasses
  <2>2. QED
    BY <2>1, LettersStart DEF LettersHold
<1>3. LettersHold /\ [Next]_vars => LettersHold'
  BY LettersKept
<1>4. QED
  BY <1>1, <1>2, <1>3, PTL DEF Spec

-------------------------------------------------------------------------
(* The graph and the matches as CaitraSearchGraph has them.              *)

LEMMA PlainMatches ==
  ASSUME NEW p, NEW done, NEW out, NEW part, NEW sp
  PROVE  Plain!string_edit_distance(p, done, out, part, sp) = StrictMatches(p, done, out, part, sp)
BY DEF Plain!string_edit_distance, StrictMatches, Level!SED!string_edit_distance,
   Plain!PrefixConsumed, Level!SED!PrefixConsumed, Plain!TransitionConsumed,
   Level!SED!TransitionConsumed, Plain!CostTable, Level!SED!CostTable,
   Plain!MatchEnds, Level!SED!MatchEnds, Plain!Match, Level!SED!Match, Plain!Agree,
   Level!SED!Agree, Plain!Min, Level!SED!Min

LEMMA PlainForward ==
  ASSUME NEW g
  PROVE  Plain!ForwardWords(g) = ForwardWords(g) /\ Plain!Promise!ForwardWords(g) = ForwardWords(g)
BY DEF Plain!ForwardWords, ForwardWords, Plain!BestForward, BestForward, Plain!States, States,
   Plain!Promise!ForwardWords, Plain!Promise!BestForward, Plain!Promise!States


LEMMA PlainGraph ==
  ASSUME NEW g \in Graphs
  PROVE  /\ GraphType(g) /\ Ordered(g) /\ ForwardBest(g)
         /\ g.n \in Nat \ {0} /\ 0 \in States(g) /\ States(g) = 0 .. g.n - 1
         /\ Plain!States(g) = States(g) /\ Plain!Promise!States(g) = States(g)
<1>1. GraphType(g) /\ Ordered(g) /\ ForwardBest(g)
  BY GraphsAssumption
<1>2. g.n \in Nat \ {0}
  BY <1>1 DEF GraphType
<1>3. QED
  BY <1>1, <1>2 DEF States, Plain!States, Plain!Promise!States

LEMMA TransFacts ==
  ASSUME NEW g \in Graphs, NEW s \in States(g), NEW k \in DOMAIN g.trans[s]
  PROVE  /\ g.trans[s][k].to \in States(g) /\ g.trans[s][k].to > s
         /\ g.trans[s][k].score \in Int /\ g.trans[s][k].output \in Seq(Words)
         /\ g.fscore[g.trans[s][k].to] \in Int /\ g.fscore[s] \in Int
         /\ g.trans[s][k].score + g.fscore[g.trans[s][k].to] <= g.fscore[s]
         /\ g.n \in Nat /\ s \in 0 .. g.n - 1 /\ s \in Nat /\ k \in Nat \ {0}
<1>1. GraphType(g) /\ Ordered(g) /\ ForwardBest(g)
  BY PlainGraph
<1>2. g.n \in Nat /\ s \in 0 .. g.n - 1
  BY <1>1 DEF GraphType, States
<1>3. g.trans[s] \in Seq(TransitionType)
  BY <1>1 DEF GraphType
<1>4. g.trans[s][k] \in TransitionType /\ k \in Nat \ {0}
  BY <1>3
<1>5. g.trans[s][k].to \in s + 1 .. g.n - 1
  BY <1>1 DEF Ordered
<1>6. g.trans[s][k].to \in States(g) /\ g.trans[s][k].to > s
  BY <1>2, <1>5 DEF States
<1>7. g.fscore[g.trans[s][k].to] \in Int /\ g.fscore[s] \in Int
  BY <1>1, <1>6 DEF GraphType
<1>8. g.trans[s][k].score + g.fscore[g.trans[s][k].to] <= g.fscore[s]
  BY <1>1 DEF ForwardBest
<1>9. g.trans[s][k].score \in Int /\ g.trans[s][k].output \in Seq(Words)
  BY <1>4 DEF TransitionType
<1>10. QED
  BY <1>2, <1>4, <1>6, <1>7, <1>8, <1>9

(* The best way forward is made of words. *)
LEMMA ForwardTyped ==
  ASSUME NEW g \in Graphs
  PROVE  \A s \in States(g) : ForwardWords(g)[s] \in Seq(Words)
<1> DEFINE n == g.n
           F == ForwardWords(g)
           E(f) == f = [s \in States(g) |->
                          IF g.forward[s] <= 0
                            THEN << >>
                            ELSE BestForward(g, s).output \o f[g.forward[s]]]
           V == Seq(Words)
           H == [f \in [States(g) -> V] |-> [s \in States(g) |->
                          IF g.forward[s] <= 0
                            THEN << >>
                            ELSE BestForward(g, s).output \o f[g.forward[s]]]]
           rank == [s \in States(g) |-> g.n - 1 - s]
<1>1. /\ n \in Nat \ {0} /\ States(g) = 0 .. n - 1 /\ g.forward \in [States(g) -> -1 .. n - 1]
      /\ Ordered(g) /\ ForwardBest(g) /\ GraphType(g)
  BY PlainGraph DEF GraphType
<1>2. rank \in [States(g) -> 0 .. n]
  BY <1>1
<1>3. ASSUME NEW s \in States(g), ~ (g.forward[s] <= 0)
      PROVE  /\ g.forward[s] \in States(g) /\ rank[g.forward[s]] < rank[s]
             /\ BestForward(g, s).output \in V
  <2> DEFINE T == g.trans[s]
             to == { k \in DOMAIN T : T[k].to = g.forward[s] }
             top == { k \in to : \A j \in to : T[j].score <= T[k].score }
             score == [k \in to |-> T[k].score]
  <2>1. T \in Seq(TransitionType)
    BY <1>1 DEF GraphType
  <2>2. to # {}
    <3>1. g.forward[s] # -1
      BY <1>1, <1>3
    <3>2. QED
      BY <1>1, <3>1 DEF ForwardBest
  <2>3. IsFiniteSet(to)
    <3>1. DOMAIN T = 1 .. Len(T) /\ Len(T) \in Nat
      BY <2>1
    <3>2. IsFiniteSet(DOMAIN T)
      BY <3>1, FS_Interval
    <3>3. QED
      BY <3>2, FS_Subset
  <2>4. score \in [to -> Int]
    BY TransFacts
  <2>5. top # {}
    <3>1. PICK k \in to : \A j \in to : score[j] <= score[k]
      <4> HIDE DEF to, score
      <4>1. QED
        BY <2>2, <2>3, <2>4, GreatestValue
    <3>2. QED
      BY <3>1
  <2>6. top \subseteq Nat
    BY <2>1
  <2> DEFINE b == CHOOSE k \in top : \A j \in top : k <= j
  <2>7. b \in top
    <3> HIDE DEF top
    <3>1. \E k \in top : \A j \in top : k <= j
      BY <2>5, <2>6, MinIn
    <3>2. QED
      BY <3>1
  <2>8. BestForward(g, s) = T[b]
    BY DEF BestForward
  <2>9. b \in DOMAIN T /\ T[b].to = g.forward[s]
    BY <2>7, Zenon
  <2> HIDE DEF b, T
  <2>10. T[b].output \in V /\ T[b].to \in States(g) /\ T[b].to > s
    BY <2>9, TransFacts DEF T
  <2>11. QED
    BY <1>1, <2>8, <2>9, <2>10
<1>4. ASSUME NEW f \in [States(g) -> V], NEW s \in States(g)
      PROVE  H[f][s] = (IF g.forward[s] <= 0 THEN << >>
                        ELSE BestForward(g, s).output \o f[g.forward[s]])
             /\ H[f][s] \in V
  <2>1. H[f][s] = (IF g.forward[s] <= 0 THEN << >>
                        ELSE BestForward(g, s).output \o f[g.forward[s]])
    OBVIOUS
  <2>2. CASE g.forward[s] <= 0
    <3>1. << >> \in V
      OBVIOUS
    <3>2. QED
      BY <2>1, <2>2, <3>1
  <2>3. CASE ~ (g.forward[s] <= 0)
    <3>1. f[g.forward[s]] \in V /\ BestForward(g, s).output \in V
      BY <1>3, <2>3
    <3>2. BestForward(g, s).output \o f[g.forward[s]] \in V
      BY <3>1
    <3>3. QED
      BY <2>1, <2>3, <3>2
  <2>4. QED
    BY <2>2, <2>3
<1>5. ASSUME NEW f \in [States(g) -> V], NEW e \in [States(g) -> V], NEW s \in States(g),
             \A y \in States(g) : rank[y] < rank[s] => f[y] = e[y]
      PROVE  H[f][s] = H[e][s]
  <2>1. ~ (g.forward[s] <= 0) => f[g.forward[s]] = e[g.forward[s]]
    BY <1>3, <1>5
  <2> HIDE DEF H
  <2>2. QED
    BY <1>4, <2>1
<1>6. << >> \in V
  OBVIOUS
<1>7. PICK f \in [States(g) -> V] : \A s \in States(g) : f[s] = H[f][s]
  <2> HIDE DEF H, rank, V
  <2>1. KeepsType(H, States(g), V)
    BY <1>4 DEF KeepsType
  <2>2. LooksBelow(H, States(g), V, rank)
    BY <1>5 DEF LooksBelow
  <2>3. V # {} /\ n \in Nat
    BY <1>1, <1>6
  <2>4. \E h \in [States(g) -> V] : Solution(h, H, States(g))
    BY <1>2, <2>1, <2>2, <2>3, Recursion
  <2>5. QED
    BY <2>4 DEF Solution
<1>8. E(f)
  BY <1>4, <1>7, Zenon
<1>9. F = CHOOSE f_1 : E(f_1)
  BY DEF ForwardWords
<1>10. E(F)
  <2> HIDE DEF E, F
  <2>1. QED
    BY <1>8, <1>9
<1>11. \A s \in States(g) : F[s] = IF g.forward[s] <= 0 THEN << >>
                                  ELSE BestForward(g, s).output \o F[g.forward[s]]
  <2> HIDE DEF F
  <2>1. QED
    BY <1>10
<1> DEFINE Z == { x \in Nat : \A s \in States(g) : n - 1 - s = x => F[s] \in V }
<1>12. ASSUME NEW x \in Nat, \A y \in 0 .. x - 1 : y \in Z PROVE x \in Z
  <2> SUFFICES ASSUME NEW s \in States(g), n - 1 - s = x PROVE F[s] \in V
    OBVIOUS
  <2>1. CASE g.forward[s] <= 0
    <3> HIDE DEF F, V
    <3>1. QED
      BY <1>6, <1>11, <2>1
  <2>2. CASE ~ (g.forward[s] <= 0)
    <3>1. PICK t : t = g.forward[s]
      OBVIOUS
    <3>2. t \in States(g) /\ rank[t] < rank[s] /\ BestForward(g, s).output \in V
      BY <1>3, <2>2, <3>1
    <3>3. n - 1 - t \in 0 .. x - 1
      BY <1>1, <3>2
    <3>4. n - 1 - t \in Z
      BY <1>12, <3>3
    <3>5. F[t] \in V
      BY <3>2, <3>4
    <3>6. F[s] = BestForward(g, s).output \o F[t]
      <4> HIDE DEF F
      <4>1. QED
        BY <1>11, <2>2, <3>1
    <3> HIDE DEF F
    <3>7. QED
      BY <3>2, <3>5, <3>6
  <2>3. QED
    BY <2>1, <2>2
<1>13. \A x \in Nat : x \in Z
  <2> HIDE DEF Z
  <2>1. QED
    BY <1>12, StrongInduction
<1>14. ASSUME NEW s \in States(g) PROVE F[s] \in V
  <2>1. n - 1 - s \in Nat
    BY <1>1
  <2>2. n - 1 - s \in Z
    BY <1>13, <2>1
  <2>3. QED
    BY <2>2
<1>15. QED
  BY <1>14

-------------------------------------------------------------------------
(* The ways of BestCompletion without jumps. *)

AreMatches(E, g, p, m, s, k) ==
  \A y \in DOMAIN E :
    /\ E[y].error \in Nat /\ E[y].pm \in m + 1 .. Len(p)
    /\ E[y].tm \in 0 .. Len(g.trans[s][k].output) /\ y \in Nat \ {0}

MatchesOf(g, r, part, s, m, k) ==
  StrictMatches(r.tokens, m, g.trans[s][k].output, part, r.space)

LEMMA Tokens ==
  ASSUME NEW r \in PlainRequests
  PROVE  /\ r.tokens \in Seq(Words) /\ Len(r.tokens) \in Nat \ {0}
         /\ 0 \in 0 .. Len(r.tokens) - 1 /\ r.space \in BOOLEAN
BY ClassesAssumption DEF Plain!RequestsAssumption

LEMMA MatchFacts ==
  ASSUME NEW g \in Graphs, NEW p \in Seq(Words), NEW sp, NEW part,
         NEW s \in States(g), NEW k \in DOMAIN g.trans[s], NEW m \in 0 .. Len(p) - 1
  PROVE  LET E == StrictMatches(p, m, g.trans[s][k].output, part, sp)
         IN  /\ E \in Seq(MatchType(p, m, g.trans[s][k].output))
             /\ AreMatches(E, g, p, m, s, k)
<1> DEFINE out == g.trans[s][k].output
           E == StrictMatches(p, m, out, part, sp)
           M == MatchType(p, m, out)
<1>1. out \in Seq(Words)
  BY TransFacts
<1>2. E \in Seq(M)
  <2> HIDE DEF out
  <2>1. QED
    BY <1>1, MatchesTyped
<1>3. \A y \in DOMAIN E : E[y] \in M /\ y \in Nat \ {0}
  <2> HIDE DEF E, M
  <2>1. QED
    BY <1>2
<1>4. QED
  <2> HIDE DEF out, E
  <2>1. \A y \in DOMAIN E : E[y].error \in Nat /\ E[y].pm \in m + 1 .. Len(p)
                            /\ E[y].tm \in 0 .. Len(out)
    BY <1>3 DEF MatchType
  <2>2. QED
    BY <1>2, <1>3, <2>1 DEF AreMatches, E, out

LastWords(g) ==
  { g.trans[a[1]][a[2]].output[a[3]] : a \in States(g) \X Nat \X Nat }

WayType(g) ==
  [score : Int, error : Nat, last : LastWords(g), jumped : { << >> }, suffix : Seq(Words)]

(* Where a way goes on after a match. *)
After(j) == IF j = 0 THEN 0 ELSE 2

(* The kinds of ways that begin with a transition: it ends the way, or     *)
(* something follows.                                                      *)
Kinds(g, r, part, ways, s, m, j, k, w) ==
  LET t == g.trans[s][k]
      E == MatchesOf(g, r, part, s, m, k)
  IN  \E y \in DOMAIN E :
        \/ E[y].pm = Len(r.tokens) /\ w = Plain!Promise!Completion(g, t, E[y])
        \/ /\ E[y].pm # Len(r.tokens)
           /\ \E v \in ways[<< t.to, E[y].pm, After(j) >>] :
                w = Plain!Promise!Matched(v, t, E[y].error)

Over(g, r, part, ways, c, k) ==
  Plain!Promise!WaysOver(g, r.tokens, r.space, part, ways, c, g.trans[c[1]][k])

LEMMA OverShape ==
  ASSUME NEW g, NEW r, NEW part, NEW ways, NEW s, NEW m, NEW j, NEW k, NEW w
  PROVE  w \in Over(g, r, part, ways, << s, m, j >>, k)
         <=> Kinds(g, r, part, ways, s, m, j, k, w)
<1> DEFINE t == g.trans[s][k]
           E == Plain!string_edit_distance(r.tokens, m, t.output, part, r.space)
           M(y) == IF E[y].pm = Len(r.tokens)
                     THEN { Plain!Promise!Completion(g, t, E[y]) }
                     ELSE { Plain!Promise!Matched(v, t, E[y].error)
                            : v \in ways[<< t.to, E[y].pm, IF j = 0 THEN 0 ELSE 2 >>] }
<1>1. Over(g, r, part, ways, << s, m, j >>, k) = {} \cup UNION { M(y) : y \in DOMAIN E }
  BY DEF Over, Plain!Promise!WaysOver
<1>2. E = MatchesOf(g, r, part, s, m, k)
  BY PlainMatches DEF MatchesOf
<1>3. \A y : w \in M(y) <=>
        \/ E[y].pm = Len(r.tokens) /\ w = Plain!Promise!Completion(g, t, E[y])
        \/ /\ E[y].pm # Len(r.tokens)
           /\ \E v \in ways[<< t.to, E[y].pm, IF j = 0 THEN 0 ELSE 2 >>] :
                w = Plain!Promise!Matched(v, t, E[y].error)
  OBVIOUS
<1>4. w \in UNION { M(y) : y \in DOMAIN E } <=> \E y \in DOMAIN E : w \in M(y)
  <2> HIDE DEF M, E
  <2> QED
    OBVIOUS
<1> HIDE DEF M, E
<1>5. QED
  BY <1>1, <1>2, <1>3, <1>4 DEF Kinds, After

LEMMA WayFields ==
  ASSUME NEW g, NEW v \in WayType(g)
  PROVE  /\ v.score \in Int /\ v.error \in Nat /\ v.jumped = << >> /\ v.suffix \in Seq(Words)
         /\ v = [score |-> v.score, error |-> v.error, last |-> v.last,
                 jumped |-> << >>, suffix |-> v.suffix]
<1> DEFINE L == LastWords(g)
<1>1. v \in [score : Int, error : Nat, last : L, jumped : { << >> }, suffix : Seq(Words)]
  BY DEF WayType
<1> HIDE DEF L
<1>2. QED
  BY <1>1

(* A way with something before it is a way. *)
Shifted(v, score, error) ==
  [score |-> v.score + score, error |-> v.error + error, last |-> v.last,
   jumped |-> << >>, suffix |-> v.suffix]

LEMMA WayLonger ==
  ASSUME NEW g, NEW v \in WayType(g), NEW score \in Int, NEW error \in Nat
  PROVE  Shifted(v, score, error) \in WayType(g)
<1> DEFINE L == LastWords(g)
<1>1. v \in [score : Int, error : Nat, last : L, jumped : { << >> }, suffix : Seq(Words)]
  BY DEF WayType
<1> HIDE DEF L
<1>2. /\ v.score \in Int /\ v.error \in Nat /\ v.last \in L /\ v.suffix \in Seq(Words)
  BY <1>1
<1>3. v.score + score \in Int /\ v.error + error \in Nat
  BY <1>2
<1>4. Shifted(v, score, error) \in [score : Int, error : Nat, last : L, jumped : { << >> },
                                    suffix : Seq(Words)]
  BY <1>2, <1>3 DEF Shifted
<1>5. QED
  BY <1>4 DEF WayType, L

LEMMA MatchedIs ==
  ASSUME NEW g, NEW v \in WayType(g), NEW t, NEW error
  PROVE  Plain!Promise!Matched(v, t, error) = Shifted(v, t.score, error)
<1>1. v.jumped = << >>
  BY WayFields
<1>2. QED
  BY <1>1 DEF Plain!Promise!Matched, Shifted

(* So is an end. *)
EndAt(g, s, k, tm, score, error) ==
  [score |-> score, error |-> error, last |-> g.trans[s][k].output[tm], jumped |-> << >>,
   suffix |-> SubSeq(g.trans[s][k].output, tm + 1, Len(g.trans[s][k].output))
                \o ForwardWords(g)[g.trans[s][k].to]]

LEMMA WayEnd ==
  ASSUME NEW g \in Graphs, NEW s \in States(g), NEW k \in DOMAIN g.trans[s],
         NEW tm \in 0 .. Len(g.trans[s][k].output), NEW score \in Int, NEW error \in Nat
  PROVE  EndAt(g, s, k, tm, score, error) \in WayType(g)
<1> DEFINE out == g.trans[s][k].output
           to == g.trans[s][k].to
           last == out[tm]
           suffix == SubSeq(out, tm + 1, Len(out)) \o ForwardWords(g)[to]
           L == LastWords(g)
<1>1. out \in Seq(Words) /\ to \in States(g) /\ k \in Nat
  BY TransFacts
<1>2. last \in L
  <2>1. tm \in Nat
    BY <1>1
  <2>2. << s, k, tm >> \in States(g) \X Nat \X Nat
    BY <1>1, <2>1
  <2>3. last = g.trans[<< s, k, tm >>[1]][<< s, k, tm >>[2]].output[<< s, k, tm >>[3]]
    OBVIOUS
  <2>4. QED
    BY <2>2, <2>3, Zenon DEF LastWords
<1>3. suffix \in Seq(Words)
  <2>1. ForwardWords(g)[to] \in Seq(Words)
    BY <1>1, ForwardTyped
  <2> DEFINE a == SubSeq(out, tm + 1, Len(out))
             b == ForwardWords(g)[to]
  <2>2. a \in Seq(Words)
    <3> HIDE DEF out
    <3>1. Len(out) \in Nat /\ tm \in Nat
      BY <1>1
    <3>2. PICK x, l : x = tm + 1 /\ l = Len(out)
      OBVIOUS
    <3>3. x \in Int /\ l \in Int /\ x >= 1
      BY <3>1, <3>2
    <3>4. \A y \in x .. l : out[y] \in Words
      BY <1>1, <3>2, <3>3
    <3>5. SubSeq(out, x, l) \in Seq(Words)
      BY <3>3, <3>4, SubSeqProperties
    <3>6. QED
      BY <3>2, <3>5
  <2> HIDE DEF a, b
  <2>3. a \o b \in Seq(Words)
    BY <2>1, <2>2 DEF b
  <2>4. QED
    BY <2>3 DEF a, b
<1>4. EndAt(g, s, k, tm, score, error)
        = [score |-> score, error |-> error, last |-> last, jumped |-> << >>, suffix |-> suffix]
  BY DEF EndAt
<1> HIDE DEF last, suffix, L
<1>5. EndAt(g, s, k, tm, score, error)
        \in [score : Int, error : Nat, last : L, jumped : { << >> }, suffix : Seq(Words)]
  BY <1>2, <1>3, <1>4
<1>6. QED
  BY <1>5 DEF WayType, L

LEMMA CompletionIs ==
  ASSUME NEW g, NEW s, NEW k, NEW x
  PROVE  Plain!Promise!Completion(g, g.trans[s][k], x)
           = EndAt(g, s, k, x.tm, g.trans[s][k].score + g.fscore[g.trans[s][k].to], x.error)
BY PlainForward, Zenon DEF Plain!Promise!Completion, EndAt

SituationsOf(g, r) == States(g) \X (0 .. Len(r.tokens) - 1) \X (0 .. 2)

WaysFrom(g, r, part, ways, c) ==
  UNION { Over(g, r, part, ways, c, k) : k \in DOMAIN g.trans[c[1]] }

LEMMA WaysFromType ==
  ASSUME NEW g \in Graphs, NEW r \in PlainRequests, NEW part,
         NEW f \in [SituationsOf(g, r) -> SUBSET WayType(g)],
         NEW s \in States(g), NEW m \in 0 .. Len(r.tokens) - 1, NEW j \in 0 .. 2,
         NEW k \in DOMAIN g.trans[s], NEW w \in Over(g, r, part, f, << s, m, j >>, k)
  PROVE  w \in WayType(g)
<1> DEFINE t == g.trans[s][k]
           E == MatchesOf(g, r, part, s, m, k)
<1>1. PICK y \in DOMAIN E :
        \/ E[y].pm = Len(r.tokens) /\ w = Plain!Promise!Completion(g, t, E[y])
        \/ /\ E[y].pm # Len(r.tokens)
           /\ \E v \in f[<< t.to, E[y].pm, After(j) >>] :
                w = Plain!Promise!Matched(v, t, E[y].error)
  <2>1. Kinds(g, r, part, f, s, m, j, k, w)
    BY OverShape
  <2>2. QED
    BY <2>1 DEF Kinds
<1>2. /\ t.to \in States(g) /\ t.score \in Int /\ g.fscore[t.to] \in Int
      /\ r.tokens \in Seq(Words) /\ Len(r.tokens) \in Nat
  BY TransFacts, Tokens
<1>3. E[y].error \in Nat /\ E[y].pm \in m + 1 .. Len(r.tokens) /\ E[y].tm \in 0 .. Len(t.output)
  <2>1. AreMatches(E, g, r.tokens, m, s, k)
    BY <1>2, MatchFacts DEF MatchesOf
  <2>2. QED
    BY <2>1 DEF AreMatches
<1>4. After(j) \in 0 .. 2
  BY DEF After
<1>5. CASE w = Plain!Promise!Completion(g, t, E[y])
  <2>1. t.score + g.fscore[t.to] \in Int
    BY <1>2
  <2>2. PICK tm, error, score : tm = E[y].tm /\ error = E[y].error
                                /\ score = t.score + g.fscore[t.to]
    OBVIOUS
  <2>3. EndAt(g, s, k, tm, score, error) \in WayType(g)
    BY <1>3, <2>1, <2>2, WayEnd
  <2>4. w = EndAt(g, s, k, tm, score, error)
    BY <1>5, <2>2, CompletionIs
  <2>5. QED
    BY <2>3, <2>4
<1>6. CASE E[y].pm # Len(r.tokens) /\ \E v \in f[<< t.to, E[y].pm, After(j) >>] :
             w = Plain!Promise!Matched(v, t, E[y].error)
  <2>1. PICK to, pm, error, score : /\ to = t.to /\ pm = E[y].pm /\ error = E[y].error
                                    /\ score = t.score
    OBVIOUS
  <2>2. PICK v \in f[<< to, pm, After(j) >>] : w = Plain!Promise!Matched(v, t, error)
    BY <1>6, <2>1
  <2>3. pm \in 0 .. Len(r.tokens) - 1
    BY <1>2, <1>3, <1>6, <2>1
  <2>4. << to, pm, After(j) >> \in SituationsOf(g, r)
    BY <1>2, <1>4, <2>1, <2>3 DEF SituationsOf
  <2>5. v \in WayType(g)
    BY <2>4
  <2>6. w = Shifted(v, score, error)
    BY <2>1, <2>2, <2>5, MatchedIs
  <2>7. QED
    BY <1>2, <1>3, <2>1, <2>5, <2>6, WayLonger
<1>7. QED
  BY <1>1, <1>5, <1>6

(* The ways over a transition depend only on those from later states. *)
LEMMA OverBelow ==
  ASSUME NEW g \in Graphs, NEW r \in PlainRequests, NEW part, NEW f, NEW h,
         NEW s \in States(g), NEW m \in 0 .. Len(r.tokens) - 1, NEW j \in 0 .. 2,
         NEW k \in DOMAIN g.trans[s],
         \A a \in States(g), b \in 0 .. Len(r.tokens) - 1, e \in 0 .. 2 :
           a > s => f[<< a, b, e >>] = h[<< a, b, e >>]
  PROVE  Over(g, r, part, f, << s, m, j >>, k) \subseteq Over(g, r, part, h, << s, m, j >>, k)
<1> SUFFICES ASSUME NEW w \in Over(g, r, part, f, << s, m, j >>, k)
             PROVE  w \in Over(g, r, part, h, << s, m, j >>, k)
  OBVIOUS
<1> DEFINE t == g.trans[s][k]
           E == MatchesOf(g, r, part, s, m, k)
<1>1. PICK y \in DOMAIN E :
        \/ E[y].pm = Len(r.tokens) /\ w = Plain!Promise!Completion(g, t, E[y])
        \/ /\ E[y].pm # Len(r.tokens)
           /\ \E v \in f[<< t.to, E[y].pm, After(j) >>] :
                w = Plain!Promise!Matched(v, t, E[y].error)
  <2>1. Kinds(g, r, part, f, s, m, j, k, w)
    BY OverShape
  <2>2. QED
    BY <2>1 DEF Kinds
<1>2. t.to \in States(g) /\ t.to > s /\ r.tokens \in Seq(Words) /\ Len(r.tokens) \in Nat
  BY TransFacts, Tokens
<1>3. E[y].pm \in m + 1 .. Len(r.tokens)
  <2>1. AreMatches(E, g, r.tokens, m, s, k)
    BY <1>2, MatchFacts DEF MatchesOf
  <2>2. QED
    BY <2>1 DEF AreMatches
<1>4. After(j) \in 0 .. 2
  BY DEF After
<1>5. E[y].pm # Len(r.tokens) =>
        f[<< t.to, E[y].pm, After(j) >>] = h[<< t.to, E[y].pm, After(j) >>]
  <2>1. PICK to, pm : to = t.to /\ pm = E[y].pm
    OBVIOUS
  <2>2. pm # Len(r.tokens) => pm \in 0 .. Len(r.tokens) - 1
    BY <1>2, <1>3, <2>1
  <2>3. QED
    BY <1>2, <1>4, <2>1, <2>2
<1>6. Kinds(g, r, part, h, s, m, j, k, w)
  BY <1>1, <1>5 DEF Kinds
<1>7. QED
  BY <1>6, OverShape

LEMMA WaysFromBelow ==
  ASSUME NEW g \in Graphs, NEW r \in PlainRequests, NEW part, NEW f, NEW h,
         NEW c \in SituationsOf(g, r),
         \A d \in SituationsOf(g, r) : g.n - d[1] < g.n - c[1] => f[d] = h[d]
  PROVE  WaysFrom(g, r, part, f, c) = WaysFrom(g, r, part, h, c)
<1>1. /\ c = << c[1], c[2], c[3] >> /\ c[1] \in States(g)
      /\ c[2] \in 0 .. Len(r.tokens) - 1 /\ c[3] \in 0 .. 2
  BY DEF SituationsOf
<1>2. g.n \in Int /\ States(g) \subseteq Int
  BY PlainGraph
<1>3. ASSUME NEW a \in States(g), NEW b \in 0 .. Len(r.tokens) - 1, NEW e \in 0 .. 2, a > c[1]
      PROVE  f[<< a, b, e >>] = h[<< a, b, e >>]
  <2> DEFINE d == << a, b, e >>
  <2>1. d \in SituationsOf(g, r) /\ d[1] = a
    BY DEF SituationsOf
  <2>2. g.n - a < g.n - c[1]
    BY <1>1, <1>2, <1>3
  <2>3. QED
    BY <2>1, <2>2
<1>4. ASSUME NEW k \in DOMAIN g.trans[c[1]]
      PROVE  Over(g, r, part, f, << c[1], c[2], c[3] >>, k)
               = Over(g, r, part, h, << c[1], c[2], c[3] >>, k)
  <2>1. Over(g, r, part, f, << c[1], c[2], c[3] >>, k)
          \subseteq Over(g, r, part, h, << c[1], c[2], c[3] >>, k)
    BY <1>1, <1>3, OverBelow
  <2>2. \A a \in States(g), b \in 0 .. Len(r.tokens) - 1, e \in 0 .. 2 :
          a > c[1] => h[<< a, b, e >>] = f[<< a, b, e >>]
    BY <1>3
  <2>3. Over(g, r, part, h, << c[1], c[2], c[3] >>, k)
          \subseteq Over(g, r, part, f, << c[1], c[2], c[3] >>, k)
    BY <1>1, <2>2, OverBelow
  <2>4. QED
    BY <2>1, <2>3
<1>5. \A k \in DOMAIN g.trans[c[1]] : Over(g, r, part, f, c, k) = Over(g, r, part, h, c, k)
  BY <1>1, <1>4
<1>6. QED
  BY <1>5 DEF WaysFrom

WaysOf(g, r, part) == Plain!Promise!AllWays(g, r.tokens, r.space, part)

(* There are such ways, and AllWays is them. *)
LEMMA WaysEquation ==
  ASSUME NEW g \in Graphs, NEW r \in PlainRequests, NEW part
  PROVE  /\ WaysOf(g, r, part) \in [SituationsOf(g, r) -> SUBSET WayType(g)]
         /\ \A c \in SituationsOf(g, r) :
              WaysOf(g, r, part)[c] = WaysFrom(g, r, part, WaysOf(g, r, part), c)
<1> DEFINE D == SituationsOf(g, r)
           V == SUBSET WayType(g)
           G == [f \in [D -> V] |-> [c \in D |-> WaysFrom(g, r, part, f, c)]]
           rank == [c \in D |-> g.n - c[1]]
<1>1. g.n \in Nat /\ rank \in [D -> 0 .. g.n]
  <2>1. g.n \in Nat /\ \A s \in States(g) : g.n - s \in 0 .. g.n
    BY PlainGraph
  <2>2. QED
    BY <2>1 DEF SituationsOf
<1>2. ASSUME NEW f \in [D -> V], NEW c \in D PROVE G[f][c] = WaysFrom(g, r, part, f, c)
  OBVIOUS
<1>3. ASSUME NEW c \in D
      PROVE  /\ c = << c[1], c[2], c[3] >> /\ c[1] \in States(g)
             /\ c[2] \in 0 .. Len(r.tokens) - 1 /\ c[3] \in 0 .. 2
  BY DEF SituationsOf
<1>4. KeepsType(G, D, V)
  <2>1. ASSUME NEW f \in [D -> V], NEW c \in D PROVE WaysFrom(g, r, part, f, c) \in V
    <3>1. ASSUME NEW k \in DOMAIN g.trans[c[1]], NEW w \in Over(g, r, part, f, c, k)
          PROVE  w \in WayType(g)
      <4>1. w \in Over(g, r, part, f, << c[1], c[2], c[3] >>, k)
        BY <1>3
      <4>2. QED
        BY <1>3, <4>1, WaysFromType
    <3>2. QED
      BY <3>1 DEF WaysFrom
  <2> HIDE DEF D, V, G
  <2>2. QED
    BY <1>2, <2>1 DEF KeepsType
<1>5. LooksBelow(G, D, V, rank)
  <2>1. ASSUME NEW f \in [D -> V], NEW h \in [D -> V], NEW c \in D,
               \A y \in D : rank[y] < rank[c] => f[y] = h[y]
        PROVE  WaysFrom(g, r, part, f, c) = WaysFrom(g, r, part, h, c)
    <3>1. \A d \in D : rank[d] = g.n - d[1]
      OBVIOUS
    <3> HIDE DEF rank
    <3>2. \A d \in D : g.n - d[1] < g.n - c[1] => f[d] = h[d]
      BY <2>1, <3>1
    <3>3. QED
      BY <3>2, WaysFromBelow
  <2> HIDE DEF D, V, G, rank
  <2>2. QED
    BY <1>2, <2>1 DEF LooksBelow
<1>6. V # {}
  OBVIOUS
<1>7. PICK f \in [D -> V] : Solution(f, G, D)
  <2> HIDE DEF D, V, G, rank
  <2> QED
    BY <1>1, <1>4, <1>5, <1>6, Recursion
<1>8. \A c \in D : f[c] = WaysFrom(g, r, part, f, c)
  <2> HIDE DEF D, V, G
  <2> QED
    BY <1>2, <1>7 DEF Solution
<1> HIDE DEF G, rank
<1> DEFINE E(x) == x = [c \in Plain!Promise!Situations(g, r.tokens) |->
                         UNION { Plain!Promise!WaysOver(g, r.tokens, r.space, part, x, c, g.trans[c[1]][k])
                                 : k \in DOMAIN g.trans[c[1]] }]
<1>9. \A x : E(x) <=> x = [c \in D |-> WaysFrom(g, r, part, x, c)]
  BY DEF SituationsOf, Plain!Promise!Situations, Plain!Promise!States, States, WaysFrom, Over
<1>10. E(f)
  <2>1. f = [c \in D |-> WaysFrom(g, r, part, f, c)]
    <3> HIDE DEF D, V
    <3> QED
      BY <1>8
  <2>2. QED
    BY <1>9, <2>1
<1>11. WaysOf(g, r, part) = CHOOSE x : E(x)
  BY DEF WaysOf, Plain!Promise!AllWays
<1>12. E(WaysOf(g, r, part))
  <2> HIDE DEF E
  <2> QED
    BY <1>10, <1>11
<1>13. WaysOf(g, r, part) = [c \in D |-> WaysFrom(g, r, part, WaysOf(g, r, part), c)]
  BY <1>9, <1>12
<1>14. \A x : x = [c \in D |-> WaysFrom(g, r, part, x, c)]
               => \A c \in D : x[c] = WaysFrom(g, r, part, x, c)
  OBVIOUS
<1> DEFINE X == WaysOf(g, r, part)
<1>15. DOMAIN X = D /\ X = [c \in D |-> X[c]]
  <2> HIDE DEF D
  <2> QED
    BY <1>13
<1>16. \A c \in D : X[c] = WaysFrom(g, r, part, X, c)
  <2> HIDE DEF D, X
  <2> QED
    BY <1>13, <1>14 DEF X
<1> DEFINE S == { n \in Nat : \A c \in D : g.n - c[1] = n => X[c] = f[c] }
<1>17. ASSUME NEW n \in Nat, \A y \in 0 .. n - 1 : y \in S PROVE n \in S
  <2>1. ASSUME NEW c \in D, g.n - c[1] = n PROVE X[c] = f[c]
    <3>1. \A d \in D : g.n - d[1] \in Nat
      BY <1>1, <1>3 DEF States
    <3>2. \A d \in D : g.n - d[1] < g.n - c[1] => X[d] = f[d]
      <4>1. ASSUME NEW d \in D, g.n - d[1] < n PROVE X[d] = f[d]
        <5>1. g.n - d[1] \in 0 .. n - 1
          BY <3>1, <4>1
        <5>2. g.n - d[1] \in S
          BY <1>17, <5>1
        <5>3. QED
          BY <5>2
      <4>2. QED
        BY <2>1, <4>1
    <3>3. WaysFrom(g, r, part, X, c) = WaysFrom(g, r, part, f, c)
      <4> HIDE DEF X
      <4> QED
        BY <3>2, WaysFromBelow
    <3>4. QED
      BY <1>8, <1>16, <3>3
  <2>2. QED
    BY <2>1
<1>18. \A n \in Nat : n \in S
  <2> HIDE DEF S
  <2> QED
    BY <1>17, StrongInduction
<1>19. \A c \in D : X[c] = f[c]
  <2>1. \A d \in D : g.n - d[1] \in Nat
    BY <1>1, <1>3 DEF States
  <2>2. QED
    BY <1>18, <2>1
<1>20. X \in [D -> V]
  <2> HIDE DEF X, V
  <2> QED
    BY <1>15, <1>19
<1>21. QED
  <2> HIDE DEF X, V
  <2>1. X = WaysOf(g, r, part)
    BY DEF X
  <2>2. X \in [D -> SUBSET WayType(g)]
    BY <1>20 DEF V
  <2>3. QED
    BY <1>16, <2>1, <2>2

Onward(g, r, part, s, m) == WaysOf(g, r, part)[<< s, m, 0 >>]

(* A way from a state, m tokens being matched, begins with a transition    *)
(* and one of its matches: the way ends there or it goes on.               *)
BeginsWith(g, r, part, s, m, k, y, w) ==
  LET t == g.trans[s][k]
      x == MatchesOf(g, r, part, s, m, k)[y]
  IN  \/ /\ x.pm = Len(r.tokens)
         /\ w = EndAt(g, s, k, x.tm, t.score + g.fscore[t.to], x.error)
      \/ /\ x.pm # Len(r.tokens)
         /\ \E v \in Onward(g, r, part, t.to, x.pm) : w = Shifted(v, t.score, x.error)

LEMMA WayKinds ==
  ASSUME NEW g \in Graphs, NEW r \in PlainRequests, NEW part,
         NEW s \in States(g), NEW m \in 0 .. Len(r.tokens) - 1, NEW w
  PROVE  /\ w \in Onward(g, r, part, s, m)
              <=> \E k \in DOMAIN g.trans[s] : \E y \in DOMAIN MatchesOf(g, r, part, s, m, k) :
                    BeginsWith(g, r, part, s, m, k, y, w)
         /\ w \in Onward(g, r, part, s, m) => w \in WayType(g)
<1> DEFINE X == WaysOf(g, r, part)
           c == << s, m, 0 >>
<1>1. c \in SituationsOf(g, r) /\ c[1] = s
  BY DEF SituationsOf
<1>2. X \in [SituationsOf(g, r) -> SUBSET WayType(g)] /\ X[c] = WaysFrom(g, r, part, X, c)
  BY <1>1, WaysEquation
<1>3. w \in X[c] <=> \E k \in DOMAIN g.trans[s] : w \in Over(g, r, part, X, c, k)
  <2> HIDE DEF X, c
  <2> QED
    BY <1>1, <1>2 DEF WaysFrom
<1>4. \A k : w \in Over(g, r, part, X, c, k) <=> Kinds(g, r, part, X, s, m, 0, k, w)
  BY OverShape
<1>5. X[c] \subseteq WayType(g)
  <2> HIDE DEF X, c
  <2> QED
    BY <1>1, <1>2
<1>6. ASSUME NEW k \in DOMAIN g.trans[s]
      PROVE  Kinds(g, r, part, X, s, m, 0, k, w)
               <=> \E y \in DOMAIN MatchesOf(g, r, part, s, m, k) :
                     BeginsWith(g, r, part, s, m, k, y, w)
  <2> DEFINE t == g.trans[s][k]
             E == MatchesOf(g, r, part, s, m, k)
  <2>1. t.to \in States(g) /\ r.tokens \in Seq(Words) /\ Len(r.tokens) \in Nat
    BY TransFacts, Tokens
  <2>2. \A y \in DOMAIN E : E[y].pm \in m + 1 .. Len(r.tokens)
    <3>1. AreMatches(E, g, r.tokens, m, s, k)
      BY <2>1, MatchFacts DEF MatchesOf
    <3>2. QED
      BY <3>1 DEF AreMatches
  <2>3. ASSUME NEW y \in DOMAIN E, E[y].pm # Len(r.tokens), NEW v \in X[<< t.to, E[y].pm, 0 >>]
        PROVE  Plain!Promise!Matched(v, t, E[y].error) = Shifted(v, t.score, E[y].error)
    <3>1. PICK to, pm : to = t.to /\ pm = E[y].pm
      OBVIOUS
    <3>2. pm \in 0 .. Len(r.tokens) - 1
      BY <2>1, <2>2, <2>3, <3>1
    <3>3. << to, pm, 0 >> \in SituationsOf(g, r)
      BY <2>1, <3>1, <3>2 DEF SituationsOf
    <3>4. v \in WayType(g)
      <4> HIDE DEF X
      <4>1. QED
        BY <1>2, <2>3, <3>1, <3>3
    <3>5. QED
      BY <3>4, MatchedIs
  <2>4. \A y : Plain!Promise!Completion(g, t, E[y])
                 = EndAt(g, s, k, E[y].tm, t.score + g.fscore[t.to], E[y].error)
    BY CompletionIs
  <2>5. After(0) = 0
    BY DEF After
  <2>6. QED
    <3> HIDE DEF X, t, E
    <3>1. Kinds(g, r, part, X, s, m, 0, k, w) <=>
            \E y \in DOMAIN E :
              \/ E[y].pm = Len(r.tokens) /\ w = Plain!Promise!Completion(g, t, E[y])
              \/ /\ E[y].pm # Len(r.tokens)
                 /\ \E v \in X[<< t.to, E[y].pm, 0 >>] :
                      w = Plain!Promise!Matched(v, t, E[y].error)
      BY <2>5 DEF Kinds, t, E
    <3>2. \A y : BeginsWith(g, r, part, s, m, k, y, w) <=>
              \/ /\ E[y].pm = Len(r.tokens)
                 /\ w = EndAt(g, s, k, E[y].tm, t.score + g.fscore[t.to], E[y].error)
              \/ /\ E[y].pm # Len(r.tokens)
                 /\ \E v \in X[<< t.to, E[y].pm, 0 >>] : w = Shifted(v, t.score, E[y].error)
      BY DEF BeginsWith, Onward, X, t, E
    <3>3. \A y \in DOMAIN E : BeginsWith(g, r, part, s, m, k, y, w) <=>
              \/ E[y].pm = Len(r.tokens) /\ w = Plain!Promise!Completion(g, t, E[y])
              \/ /\ E[y].pm # Len(r.tokens)
                 /\ \E v \in X[<< t.to, E[y].pm, 0 >>] :
                      w = Plain!Promise!Matched(v, t, E[y].error)
      BY <2>3, <2>4, <3>2
    <3>4. QED
      BY <3>1, <3>3 DEF E
<1>7. Onward(g, r, part, s, m) = X[c]
  BY DEF Onward
<1>8. QED
  <2> HIDE DEF X, c
  <2>1. QED
    BY <1>3, <1>4, <1>5, <1>6, <1>7

(* Worth adds up along a way. *)
LEMMA WorthAdds ==
  ASSUME NEW a \in Int, NEW b \in Int, NEW e \in Int, NEW f \in Int
  PROVE  /\ Plain!Worth(a + b, e + f) = Plain!Worth(a, e) + Plain!Worth(b, f)
         /\ Plain!Worth(a, e) \in Int /\ Plain!Worth(0, 0) = 0
<1>1. PlainErrorWeight \in Int
  BY ClassesAssumption DEF Plain!NumbersAssumption
<1>2. PlainErrorWeight * (e + f) = PlainErrorWeight * e + PlainErrorWeight * f
  BY <1>1
<1>3. PlainErrorWeight * e \in Int /\ PlainErrorWeight * f \in Int /\ PlainErrorWeight * 0 = 0
  BY <1>1
<1>4. QED
  BY <1>2, <1>3 DEF Plain!Worth

(* Errors never make anything worth more. *)
LEMMA ErrorsLose ==
  ASSUME NEW a \in Int, NEW e \in Nat, NEW b \in Int, a <= b
  PROVE  Plain!Worth(a, e) <= b
<1>1. PlainErrorWeight \in Int /\ PlainErrorWeight <= 0
  BY ClassesAssumption DEF Plain!NumbersAssumption
<1>2. PlainErrorWeight * e <= 0 /\ PlainErrorWeight * e \in Int
  BY <1>1
<1>3. QED
  BY <1>2 DEF Plain!Worth

(* No way scores more than the best way forward: this is what makes the    *)
(* loop right in dropping a hopeless path.                                 *)
LEMMA WaysBounded ==
  ASSUME NEW g \in Graphs, NEW r \in PlainRequests, NEW part
  PROVE  \A s \in States(g), m \in 0 .. Len(r.tokens) - 1 :
           \A w \in Onward(g, r, part, s, m) : w.score <= g.fscore[s]
<1> DEFINE Bound(s) == \A m \in 0 .. Len(r.tokens) - 1 :
                         \A w \in Onward(g, r, part, s, m) : w.score <= g.fscore[s]
           S == { n \in Nat : \A s \in States(g) : g.n - s = n => Bound(s) }
<1>1. g.n \in Nat /\ \A s \in States(g) : s \in Int /\ g.n - s \in Nat
  BY PlainGraph
<1>2. ASSUME NEW n \in Nat, \A y \in 0 .. n - 1 : y \in S PROVE n \in S
  <2> SUFFICES ASSUME NEW s \in States(g), g.n - s = n,
                      NEW m \in 0 .. Len(r.tokens) - 1, NEW w \in Onward(g, r, part, s, m)
               PROVE  w.score <= g.fscore[s]
    OBVIOUS
  <2>1. PICK k \in DOMAIN g.trans[s] : \E y \in DOMAIN MatchesOf(g, r, part, s, m, k) :
                    BeginsWith(g, r, part, s, m, k, y, w)
    BY WayKinds
  <2>2. PICK y \in DOMAIN MatchesOf(g, r, part, s, m, k) :
                    BeginsWith(g, r, part, s, m, k, y, w)
    BY <2>1
  <2>3. PICK t, x : t = g.trans[s][k] /\ x = MatchesOf(g, r, part, s, m, k)[y]
    OBVIOUS
  <2>4. /\ t.to \in States(g) /\ t.to > s /\ t.score \in Int
        /\ g.fscore[t.to] \in Int /\ g.fscore[s] \in Int
        /\ t.score + g.fscore[t.to] <= g.fscore[s]
        /\ r.tokens \in Seq(Words) /\ Len(r.tokens) \in Nat
    BY <2>3, TransFacts, Tokens
  <2>5. x.pm \in m + 1 .. Len(r.tokens)
    <3>1. AreMatches(MatchesOf(g, r, part, s, m, k), g, r.tokens, m, s, k)
      BY <2>4, MatchFacts DEF MatchesOf
    <3>2. QED
      BY <2>3, <3>1 DEF AreMatches
  <2>6. CASE w = EndAt(g, s, k, x.tm, t.score + g.fscore[t.to], x.error)
    <3>1. w.score = t.score + g.fscore[t.to]
      BY <2>6, Zenon DEF EndAt
    <3>2. QED
      BY <2>4, <3>1
  <2>7. CASE /\ x.pm # Len(r.tokens)
             /\ \E v \in Onward(g, r, part, t.to, x.pm) : w = Shifted(v, t.score, x.error)
    <3>1. PICK to, pm : to = t.to /\ pm = x.pm
      OBVIOUS
    <3>2. PICK v \in Onward(g, r, part, to, pm) : w = Shifted(v, t.score, x.error)
      BY <2>7, <3>1
    <3>3. pm \in 0 .. Len(r.tokens) - 1
      BY <2>4, <2>5, <2>7, <3>1
    <3>4. g.n - to \in 0 .. n - 1
      BY <1>1, <2>4, <3>1
    <3>5. g.n - to \in S
      BY <1>2, <3>4
    <3>6. Bound(to)
      BY <2>4, <3>1, <3>5
    <3>7. v.score <= g.fscore[to]
      BY <3>2, <3>3, <3>6
    <3>8. v \in WayType(g)
      BY <2>4, <3>1, <3>2, <3>3, WayKinds
    <3>9. v.score \in Int /\ w.score = v.score + t.score
      BY <3>2, <3>8, WayFields DEF Shifted
    <3>10. QED
      BY <2>4, <3>1, <3>7, <3>9
  <2>8. QED
    BY <2>2, <2>3, <2>6, <2>7 DEF BeginsWith
<1>3. \A n \in Nat : n \in S
  <2> HIDE DEF S
  <2> QED
    BY <1>2, StrongInduction
<1>4. \A s \in States(g) : Bound(s)
  <2> HIDE DEF Bound
  <2> QED
    BY <1>1, <1>3
<1>5. QED
  BY <1>4

-------------------------------------------------------------------------
(* Matches with a longer prefix.                                         *)

(* Tokens that two prefixes begin with. *)
SameTokens(p, q, n) == \A x \in 1 .. n : p[x] = q[x]

(* What it costs to match less than all tokens does not depend on the      *)
(* tokens to come.                                                         *)
LEMMA CostStands ==
  ASSUME NEW p \in Seq(Words), NEW q \in Seq(Words), NEW m \in Nat, NEW n \in Nat,
         m + n < Len(p), m + n < Len(q), SameTokens(p, q, m + n),
         NEW out \in Seq(Words), NEW part, NEW part2
  PROVE  Costs(p, m, out, part)[<< n, Len(out) >>] = Costs(q, m, out, part2)[<< n, Len(out) >>]
<1> DEFINE l == Len(out)
           A == { c \in Cells(Len(p) - m, l) : Level!SED!Agree(p, m + c[1], out[c[2]], part) }
           B == { c \in Cells(Len(q) - m, l) : Level!SED!Agree(q, m + c[1], out[c[2]], part2) }
           T == CHOOSE f : IsTable(f, A, Len(p) - m, l)
           U == CHOOSE f : IsTable(f, B, Len(q) - m, l)
<1>1. /\ l \in Nat /\ Len(p) \in Nat /\ Len(q) \in Nat /\ m \in 0 .. Len(p) /\ m \in 0 .. Len(q)
      /\ Len(p) - m \in Nat /\ Len(q) - m \in Nat /\ n \in 0 .. Len(p) - m
      /\ n \in 0 .. Len(q) - m
  OBVIOUS
<1>2. Costs(p, m, out, part) = T /\ Costs(q, m, out, part2) = U
  <2>1. T = TableOf(p, m, out, part) /\ U = TableOf(q, m, out, part2)
    BY DEF TableOf, Agreeing
  <2> HIDE DEF T, U, A, B, l
  <2>2. m \in 0 .. Len(p) /\ m \in 0 .. Len(q)
    BY <1>1
  <2>3. Costs(p, m, out, part) = TableOf(p, m, out, part)
    BY <2>2, CostsTable
  <2>4. Costs(q, m, out, part2) = TableOf(q, m, out, part2)
    BY <2>2, CostsTable
  <2>5. QED
    BY <2>1, <2>3, <2>4
<1>3. ASSUME NEW x \in 1 .. n, NEW y \in 1 .. l
      PROVE  << x, y >> \in A <=> << x, y >> \in B
  <2>1. << x, y >> \in Cells(Len(p) - m, l) /\ << x, y >> \in Cells(Len(q) - m, l)
    BY <1>1 DEF Cells
  <2>2. m + x # Len(p) /\ m + x # Len(q) /\ m + x \in 1 .. m + n
    BY <1>1
  <2>3. p[m + x] = q[m + x]
    BY <2>2 DEF SameTokens
  <2>4. Level!SED!Agree(p, m + x, out[y], part) <=> Level!SED!Agree(q, m + x, out[y], part2)
    BY <2>2, <2>3 DEF Level!SED!Agree
  <2>5. QED
    BY <2>1, <2>4
<1> HIDE DEF A, B
<1>4. AgreesMore(A, B, n, l) /\ AgreesMore(B, A, n, l)
  BY <1>3 DEF AgreesMore
<1>5. LeastCost(A, n, l) = LeastCost(B, n, l)
  BY <1>1, <1>4, SameAgreement
<1>6. IsFilled(T, A, Len(p) - m, l) /\ IsFilled(U, B, Len(q) - m, l)
  BY <1>1, TableFilled
<1>7. << n, l >> \in Cells(Len(p) - m, l) /\ << n, l >> \in Cells(Len(q) - m, l)
  BY <1>1 DEF Cells
<1> HIDE DEF T, U, l
<1>8. T[<< n, l >>] = LeastCost(A, n, l)
  <2>1. \A c \in Cells(Len(p) - m, l) : T[c] = LeastCost(A, c[1], c[2])
    BY <1>1, <1>6, TableIsLeastCost
  <2>2. QED
    BY <1>7, <2>1
<1>9. U[<< n, l >>] = LeastCost(B, n, l)
  <2>1. \A c \in Cells(Len(q) - m, l) : U[c] = LeastCost(B, c[1], c[2])
    BY <1>1, <1>6, TableIsLeastCost
  <2>2. QED
    BY <1>7, <2>1
<1>10. QED
  BY <1>2, <1>5, <1>8, <1>9 DEF l

LEMMA OwnSeq ==
  ASSUME NEW n \in Nat, NEW e, e = [x \in 1 .. n |-> e[x]]
  PROVE  e \in Seq({ e[x] : x \in 1 .. n }) /\ Len(e) = n
OBVIOUS

LEMMA JoinedSeqs ==
  ASSUME NEW S, NEW T, NEW a \in Seq(S), NEW b \in Seq(T)
  PROVE  /\ DOMAIN (a \o b) = 1 .. Len(a) + Len(b)
         /\ \A y \in 1 .. Len(a) + Len(b) :
              (a \o b)[y] = IF y <= Len(a) THEN a[y] ELSE b[y - Len(a)]
<1>1. a \in Seq(S \cup T) /\ b \in Seq(S \cup T)
  OBVIOUS
<1>2. QED
  BY <1>1

SameMatch(E, y, Z) == \E z \in DOMAIN Z : Z[z] = E[y]

(* A match that does not consume the prefix stands for every prefix that   *)
(* begins with the same tokens.                                            *)
LEMMA MatchStands ==
  ASSUME NEW p \in Seq(Words), NEW q \in Seq(Words), NEW m \in 0 .. Len(p) - 1,
         NEW out \in Seq(Words), NEW part, NEW sp, NEW part2, NEW sp2,
         NEW y \in DOMAIN StrictMatches(p, m, out, part, sp), NEW pm,
         pm = StrictMatches(p, m, out, part, sp)[y].pm,
         pm < Len(p), pm < Len(q), SameTokens(p, q, pm)
  PROVE  SameMatch(StrictMatches(p, m, out, part, sp), y, StrictMatches(q, m, out, part2, sp2))
<1> DEFINE E == StrictMatches(p, m, out, part, sp)
           Z == StrictMatches(q, m, out, part2, sp2)
           n == Len(p) - m - 1
           k == Len(q) - m - 1
           a == Level!SED!PrefixConsumed(p, m, out, part, sp)
           b == Level!SED!TransitionConsumed(p, m, out, part)
           c == Level!SED!PrefixConsumed(q, m, out, part2, sp2)
           d == Level!SED!TransitionConsumed(q, m, out, part2)
           l == Len(out)
<1>1. /\ Len(p) \in Nat /\ Len(q) \in Nat /\ m \in Nat /\ n \in Nat
  OBVIOUS
<1>2. E = a \o b /\ Z = c \o d
  BY DEF StrictMatches, Level!SED!string_edit_distance
<1>3. /\ a = [x \in 1 .. Len(Level!SED!MatchEnds(out, part, sp)) |->
                Level!SED!Match(Costs(p, m, out, part)[<< Len(p) - m,
                    Level!SED!MatchEnds(out, part, sp)[x] >>], Len(p),
                    Level!SED!MatchEnds(out, part, sp)[x])]
      /\ b = [x \in 1 .. n |->
                Level!SED!Match(Costs(p, m, out, part)[<< x, l >>], m + x, l)]
      /\ d = [x \in 1 .. k |->
                Level!SED!Match(Costs(q, m, out, part2)[<< x, l >>], m + x, l)]
  BY DEF Level!SED!PrefixConsumed, Level!SED!TransitionConsumed, Costs
<1>4. ASSUME NEW o, NEW t, NEW u
      PROVE  Len(Level!SED!MatchEnds(out, t, u)) \in Nat
  BY EndsType
<1>5. /\ Len(a) \in Nat /\ DOMAIN a = 1 .. Len(a) /\ \A x \in DOMAIN a : a[x].pm = Len(p)
      /\ a = [x \in 1 .. Len(a) |-> a[x]]
  <2>1. PICK e : e = Level!SED!MatchEnds(out, part, sp) /\ Len(e) \in Nat
    BY <1>4
  <2>2. a = [x \in 1 .. Len(e) |->
               Level!SED!Match(Costs(p, m, out, part)[<< Len(p) - m, e[x] >>], Len(p), e[x])]
    BY <1>3, <2>1
  <2> HIDE DEF a
  <2>3. Len(a) = Len(e)
    BY <2>1, <2>2
  <2>4. QED
    BY <2>1, <2>2, <2>3 DEF Level!SED!Match
<1>6. Len(c) \in Nat /\ c = [x \in 1 .. Len(c) |-> c[x]]
  <2>1. PICK e : e = Level!SED!MatchEnds(out, part2, sp2) /\ Len(e) \in Nat
    BY <1>4
  <2>2. c = [x \in 1 .. Len(e) |->
               Level!SED!Match(Costs(q, m, out, part2)[<< Len(q) - m, e[x] >>], Len(q), e[x])]
    BY <2>1 DEF Level!SED!PrefixConsumed, Costs
  <2> HIDE DEF c
  <2>3. Len(c) = Len(e)
    BY <2>1, <2>2
  <2>4. QED
    BY <2>1, <2>2, <2>3
<1>7. Len(b) = n
  <2> HIDE DEF b, n
  <2>1. QED
    BY <1>1, <1>3
<1>19. b = [x \in 1 .. n |-> b[x]] /\ d = [x \in 1 .. k |-> d[x]]
  BY <1>3
<1> HIDE DEF E, Z, a, b, c, d, n, k
<1>17. PICK S : a \in Seq(S)
  BY <1>5, OwnSeq
<1>18. PICK T : b \in Seq(T)
  BY <1>1, <1>19, OwnSeq
<1>8. PICK x : x \in 1 .. n /\ E[y] = b[x]
  <2>1. DOMAIN E = 1 .. Len(a) + n /\ y \in DOMAIN E
    <3>1. DOMAIN E = 1 .. Len(a) + Len(b)
      BY <1>2, <1>17, <1>18, JoinedSeqs
    <3>2. QED
      BY <1>7, <3>1 DEF E
  <2>2. E[y] = IF y <= Len(a) THEN a[y] ELSE b[y - Len(a)]
    BY <1>2, <1>17, <1>18, <1>7, <2>1, JoinedSeqs
  <2>3. ~ (y <= Len(a))
    <3>1. ASSUME y <= Len(a) PROVE FALSE
      <4>1. y \in DOMAIN a
        BY <1>1, <1>5, <2>1, <3>1
      <4>2. E[y].pm = Len(p)
        BY <1>5, <2>2, <3>1, <4>1
      <4>3. pm = Len(p)
        BY <4>2 DEF E
      <4>4. QED
        BY <1>1, <4>3
    <3>2. QED
      BY <3>1
  <2>4. y - Len(a) \in 1 .. n
    BY <1>1, <1>5, <2>1, <2>3
  <2>5. QED
    BY <2>2, <2>3, <2>4
<1>9. E[y] = Level!SED!Match(Costs(p, m, out, part)[<< x, l >>], m + x, l)
  BY <1>3, <1>8
<1>10. pm = m + x
  BY <1>9 DEF Level!SED!Match, E
<1>11. x \in Nat /\ x \in 1 .. k
  BY <1>1, <1>8, <1>10 DEF n, k
<1>12. Costs(p, m, out, part)[<< x, l >>] = Costs(q, m, out, part2)[<< x, l >>]
  <2>1. m + x < Len(p) /\ m + x < Len(q) /\ SameTokens(p, q, m + x)
    BY <1>10
  <2>2. QED
    BY <1>1, <1>11, <2>1, CostStands
<1>13. d[x] = E[y]
  BY <1>3, <1>9, <1>11, <1>12
<1>14. k \in Nat
  BY <1>1, <1>10, <1>11 DEF k
<1>20. Len(d) = k /\ \E U : d \in Seq(U)
  BY <1>14, <1>19, OwnSeq
<1>15. Len(c) + x \in DOMAIN Z /\ Z[Len(c) + x] = d[x]
  <2>1. Len(c) + x \in 1 .. Len(c) + Len(d) /\ ~ (Len(c) + x <= Len(c)) /\ Len(c) + x - Len(c) = x
    BY <1>6, <1>11, <1>14, <1>20
  <2>2. \E U : c \in Seq(U)
    BY <1>6, OwnSeq
  <2>3. PICK U, V : c \in Seq(U) /\ d \in Seq(V)
    BY <1>20, <2>2
  <2>4. /\ DOMAIN Z = 1 .. Len(c) + Len(d)
        /\ \A v \in 1 .. Len(c) + Len(d) : Z[v] = IF v <= Len(c) THEN c[v] ELSE d[v - Len(c)]
    BY <1>2, <2>3, JoinedSeqs
  <2>5. PICK v : v = Len(c) + x
    OBVIOUS
  <2>6. v \in 1 .. Len(c) + Len(d) /\ ~ (v <= Len(c)) /\ v - Len(c) = x
    BY <1>6, <1>11, <2>1, <2>5
  <2>7. v \in DOMAIN Z /\ Z[v] = d[x]
    BY <2>4, <2>6
  <2>8. QED
    BY <2>5, <2>7
<1>16. QED
  BY <1>13, <1>15 DEF E, Z, SameMatch

-------------------------------------------------------------------------
(* What is recorded and completed at a transition.                       *)

(* A value that is changed step by step: the recursion has a solution.     *)
StepsThrough(f, V, v0, l, step) ==
  /\ f \in [0 .. l -> V]
  /\ f[0] = v0 /\ \A n \in 1 .. l : f[n] = step[<< n, f[n - 1] >>]

LEMMA StepByStep ==
  ASSUME NEW V, NEW v0 \in V, NEW l \in Nat, NEW step \in [(1 .. l) \X V -> V]
  PROVE  \E f : StepsThrough(f, V, v0, l, step)
<1> DEFINE D == 0 .. l
           H == [f \in [D -> V] |->
                   [n \in D |-> IF n = 0 THEN v0 ELSE step[<< n, f[n - 1] >>]]]
           rank == [n \in D |-> n]
<1>1. ASSUME NEW f \in [D -> V], NEW n \in D
      PROVE  /\ H[f][n] = IF n = 0 THEN v0 ELSE step[<< n, f[n - 1] >>]
             /\ H[f][n] \in V
  <2>1. H[f][n] = IF n = 0 THEN v0 ELSE step[<< n, f[n - 1] >>]
    OBVIOUS
  <2>2. n # 0 => n \in 1 .. l /\ n - 1 \in D
    OBVIOUS
  <2>3. n # 0 => << n, f[n - 1] >> \in (1 .. l) \X V
    BY <2>2
  <2>4. QED
    BY <2>1, <2>3
<1>2. ASSUME NEW f \in [D -> V], NEW e \in [D -> V], NEW n \in D,
             \A y \in D : rank[y] < rank[n] => f[y] = e[y]
      PROVE  H[f][n] = H[e][n]
  <2>1. n # 0 => n - 1 \in D /\ rank[n - 1] < rank[n]
    OBVIOUS
  <2>2. n # 0 => f[n - 1] = e[n - 1]
    BY <1>2, <2>1
  <2> HIDE DEF H
  <2>3. /\ H[f][n] = IF n = 0 THEN v0 ELSE step[<< n, f[n - 1] >>]
        /\ H[e][n] = IF n = 0 THEN v0 ELSE step[<< n, e[n - 1] >>]
    <3> HIDE DEF D
    <3>1. QED
      BY <1>1
  <2>4. CASE n = 0
    BY <2>3, <2>4
  <2>5. CASE n # 0
    BY <2>2, <2>3, <2>5
  <2>6. QED
    BY <2>4, <2>5
<1>3. rank \in [D -> 0 .. l]
  OBVIOUS
<1>4. PICK f \in [D -> V] : \A n \in D : f[n] = H[f][n]
  <2> HIDE DEF H, rank, D
  <2>1. KeepsType(H, D, V) /\ LooksBelow(H, D, V, rank) /\ V # {}
    BY <1>1, <1>2 DEF KeepsType, LooksBelow
  <2>2. \E h \in [D -> V] : Solution(h, H, D)
    BY <1>3, <2>1, Recursion
  <2>3. QED
    BY <2>2 DEF Solution
<1>5. 0 \in D /\ \A n \in 1 .. l : n \in D /\ n # 0
  OBVIOUS
<1> HIDE DEF H
<1>6. f[0] = v0 /\ \A n \in 1 .. l : f[n] = step[<< n, f[n - 1] >>]
  BY <1>1, <1>4, <1>5
<1>7. QED
  BY <1>6 DEF StepsThrough

PlainPath ==
  [score : Int, error : Nat, matched : Nat, bstate : Int, bmatched : Nat, tr : Nat]

WorthOf(b) == Plain!Worth(b.score, b.error)

(* There is a path with so many tokens matched that is worth so much.      *)
HasWorth(seq, m, w) == \E x \in DOMAIN seq : seq[x].matched = m /\ WorthOf(seq[x]) >= w

KeepsWorth(seq, new) == \A m, w : w \in Int /\ HasWorth(seq, m, w) => HasWorth(new, m, w)

LEMMA WorthInt ==
  ASSUME NEW a \in Int, NEW e \in Int
  PROVE  Plain!Worth(a, e) \in Int
BY WorthAdds

LEMMA PathWorth ==
  ASSUME NEW b \in PlainPath
  PROVE  WorthOf(b) \in Int /\ b.score \in Int /\ b.error \in Nat /\ b.matched \in Nat
<1>1. b.score \in Int /\ b.error \in Nat /\ b.matched \in Nat
  BY DEF PlainPath
<1>2. PICK a, e : a = b.score /\ e = b.error
  OBVIOUS
<1>5. a \in Int /\ e \in Int
  BY <1>1, <1>2
<1>3. Plain!Worth(a, e) \in Int
  BY <1>5, WorthInt
<1>4. QED
  BY <1>1, <1>2, <1>3 DEF WorthOf

LEMMA PlainRecordShape ==
  ASSUME NEW seq \in Seq(PlainPath), NEW new \in PlainPath
  PROVE  /\ Plain!Record(seq, new) \in Seq(PlainPath)
         /\ \A x \in DOMAIN Plain!Record(seq, new) :
              \/ Plain!Record(seq, new)[x] = new
              \/ \E y \in DOMAIN seq : Plain!Record(seq, new)[x] = seq[y]
         /\ KeepsWorth(seq, Plain!Record(seq, new))
         /\ HasWorth(Plain!Record(seq, new), new.matched, WorthOf(new))
<1> DEFINE same == { x \in DOMAIN seq : seq[x].matched = new.matched }
           R == Plain!Record(seq, new)
           k == Plain!Min(same)
<1>0. /\ DOMAIN seq = 1 .. Len(seq) /\ Len(seq) \in Nat
      /\ \A x \in DOMAIN seq : seq[x] \in PlainPath /\ WorthOf(seq[x]) \in Int
      /\ WorthOf(new) \in Int
  <2>1. \A x \in DOMAIN seq : seq[x] \in PlainPath
    OBVIOUS
  <2>2. QED
    BY <2>1, PathWorth
<1>1. R = IF same = {} THEN Append(seq, new)
          ELSE IF Plain!Better(seq[k], new) THEN [seq EXCEPT ![k] = new] ELSE seq
  BY DEF Plain!Record
<1>2. CASE same = {}
  <2>1. R = Append(seq, new)
    BY <1>1, <1>2
  <2>2. /\ R \in Seq(PlainPath) /\ DOMAIN R = 1 .. Len(seq) + 1
        /\ R[Len(seq) + 1] = new
        /\ \A x \in DOMAIN seq : x \in DOMAIN R /\ R[x] = seq[x]
        /\ \A x \in DOMAIN R : x = Len(seq) + 1 \/ x \in DOMAIN seq
    BY <1>0, <2>1
  <2> HIDE DEF R
  <2>3. \A x \in DOMAIN R : R[x] = new \/ \E y \in DOMAIN seq : R[x] = seq[y]
    BY <2>2
  <2>4. KeepsWorth(seq, R)
    BY <2>2 DEF KeepsWorth, HasWorth
  <2>5. HasWorth(R, new.matched, WorthOf(new))
    <3>1. Len(seq) + 1 \in DOMAIN R
      BY <1>0, <2>2
    <3>2. QED
      BY <1>0, <2>2, <3>1 DEF HasWorth
  <2>6. QED
    BY <2>2, <2>3, <2>4, <2>5 DEF R
<1>3. CASE same # {}
  <2>1. k \in same
    <3>1. same \subseteq Nat
      BY <1>0
    <3> HIDE DEF same
    <3>2. \E x \in same : \A y \in same : x <= y
      BY <1>3, <3>1, MinIn
    <3>3. QED
      BY <3>2 DEF Plain!Min
  <2>2. k \in DOMAIN seq /\ seq[k].matched = new.matched
    BY <2>1
  <2>3. PICK j : j = k
    OBVIOUS
  <2> HIDE DEF k
  <2>4. CASE Plain!Better(seq[j], new)
    <3>1. R = [seq EXCEPT ![j] = new]
      BY <1>1, <1>3, <2>3, <2>4
    <3>2. /\ R \in Seq(PlainPath) /\ DOMAIN R = DOMAIN seq /\ R[j] = new
          /\ \A x \in DOMAIN seq : x # j => R[x] = seq[x]
      BY <1>0, <2>2, <2>3, <3>1
    <3> HIDE DEF R
    <3>3. WorthOf(seq[j]) <= WorthOf(new)
      BY <1>0, <2>2, <2>3, <2>4 DEF Plain!Better, WorthOf
    <3>4. \A x \in DOMAIN R : R[x] = new \/ \E y \in DOMAIN seq : R[x] = seq[y]
      BY <3>2
    <3>5. KeepsWorth(seq, R)
      <4> SUFFICES ASSUME NEW m, NEW w \in Int, HasWorth(seq, m, w) PROVE HasWorth(R, m, w)
        BY DEF KeepsWorth
      <4>1. PICK x \in DOMAIN seq : seq[x].matched = m /\ WorthOf(seq[x]) >= w
        BY DEF HasWorth
      <4>2. WorthOf(R[x]) >= w
        BY <1>0, <2>2, <2>3, <3>2, <3>3, <4>1
      <4>3. R[x].matched = m
        BY <2>2, <2>3, <3>2, <4>1
      <4>4. QED
        BY <3>2, <4>2, <4>3 DEF HasWorth
    <3>6. HasWorth(R, new.matched, WorthOf(new))
      BY <1>0, <2>2, <2>3, <3>2 DEF HasWorth
    <3>7. QED
      BY <3>2, <3>4, <3>5, <3>6 DEF R
  <2>5. CASE ~ Plain!Better(seq[j], new)
    <3>1. R = seq
      BY <1>1, <1>3, <2>3, <2>5
    <3>2. WorthOf(new) <= WorthOf(seq[j])
      BY <1>0, <2>2, <2>3, <2>5 DEF Plain!Better, WorthOf
    <3>3. HasWorth(R, new.matched, WorthOf(new))
      BY <1>0, <2>2, <2>3, <3>1, <3>2 DEF HasWorth
    <3>4. QED
      BY <3>1, <3>3 DEF KeepsWorth
  <2>6. QED
    BY <2>4, <2>5
<1>4. QED
  BY <1>2, <1>3

(* Recording the paths of all matches that leave something of the prefix.  *)
Continues(x) == x.pm < Len(prefix)

(* What becomes of the paths of a state when all matches are recorded.     *)
RecordedWell(seq, E, R) ==
  /\ R \in Seq(PlainPath)
  /\ \A x \in DOMAIN R :
       \/ \E y \in DOMAIN seq : R[x] = seq[y]
       \/ \E y \in 1 .. Len(E) : Continues(E[y]) /\ R[x] = Plain!Continue(E[y])
  /\ KeepsWorth(seq, R)
  /\ \A y \in 1 .. Len(E) :
       Continues(E[y]) => HasWorth(R, E[y].pm, WorthOf(Plain!Continue(E[y])))

LEMMA AllRecordedShape ==
  ASSUME NEW seq \in Seq(PlainPath), NEW E, Len(E) \in Nat,
         \A y \in 1 .. Len(E) : Continues(E[y]) => Plain!Continue(E[y]) \in PlainPath
  PROVE  RecordedWell(seq, E, Plain!AllRecorded(seq, E))
<1> DEFINE l == Len(E)
           V == Seq(PlainPath)
           step == [c \in (1 .. l) \X V |-> Plain!Recorded(c[2], E[c[1]])]
           Q(f) == f = [n \in 0 .. Len(E) |->
                          IF n = 0 THEN seq ELSE Plain!Recorded(f[n - 1], E[n])]
           F == CHOOSE f : Q(f)
           From(R, n) == \A x \in DOMAIN R :
                  \/ \E y \in DOMAIN seq : R[x] = seq[y]
                  \/ \E y \in 1 .. n : Continues(E[y]) /\ R[x] = Plain!Continue(E[y])
           Got(R, n) == \A y \in 1 .. n :
                  Continues(E[y]) => HasWorth(R, E[y].pm, WorthOf(Plain!Continue(E[y])))
<1>1. ASSUME NEW v \in V, NEW n \in 1 .. l
      PROVE  /\ Plain!Recorded(v, E[n]) \in V
             /\ KeepsWorth(v, Plain!Recorded(v, E[n]))
             /\ \A x \in DOMAIN Plain!Recorded(v, E[n]) :
                  \/ \E y \in DOMAIN v : Plain!Recorded(v, E[n])[x] = v[y]
                  \/ Continues(E[n]) /\ Plain!Recorded(v, E[n])[x] = Plain!Continue(E[n])
             /\ Continues(E[n]) => HasWorth(Plain!Recorded(v, E[n]), E[n].pm, WorthOf(Plain!Continue(E[n])))
  <2> DEFINE new == Plain!Continue(E[n])
  <2>1. CASE ~ Continues(E[n])
    <3>1. Plain!Recorded(v, E[n]) = v
      BY <2>1 DEF Plain!Recorded, Continues
    <3>2. QED
      BY <2>1, <3>1 DEF KeepsWorth
  <2>2. CASE Continues(E[n])
    <3>1. Plain!Recorded(v, E[n]) = Plain!Record(v, new)
      BY <2>2 DEF Plain!Recorded, Continues
    <3>2. new \in PlainPath
      BY <2>2
    <3>3. new.matched = E[n].pm
      BY DEF Plain!Continue
    <3> HIDE DEF new, V
    <3>4. /\ Plain!Record(v, new) \in Seq(PlainPath)
          /\ \A x \in DOMAIN Plain!Record(v, new) :
               \/ Plain!Record(v, new)[x] = new
               \/ \E y \in DOMAIN v : Plain!Record(v, new)[x] = v[y]
          /\ KeepsWorth(v, Plain!Record(v, new))
          /\ HasWorth(Plain!Record(v, new), new.matched, WorthOf(new))
      <4>1. v \in Seq(PlainPath)
        BY DEF V
      <4>2. QED
        BY <3>2, <4>1, PlainRecordShape
    <3>5. QED
      BY <2>2, <3>1, <3>3, <3>4 DEF V, new
  <2>3. QED
    BY <2>1, <2>2
<1>2. step \in [(1 .. l) \X V -> V]
  BY <1>1
<1>3. PICK f \in [0 .. l -> V] :
        f[0] = seq /\ \A n \in 1 .. l : f[n] = step[<< n, f[n - 1] >>]
  <2>1. seq \in V /\ l \in Nat
    OBVIOUS
  <2> HIDE DEF step, V, l
  <2>2. \E f : StepsThrough(f, V, seq, l, step)
    BY <1>2, <2>1, StepByStep
  <2>3. QED
    BY <2>2 DEF StepsThrough
<1>4. Q(f)
  <2>1. ASSUME NEW n \in 1 .. l PROVE f[n] = Plain!Recorded(f[n - 1], E[n])
    <3>1. n - 1 \in 0 .. l
      OBVIOUS
    <3>2. << n, f[n - 1] >> \in (1 .. l) \X V
      BY <3>1
    <3>3. QED
      BY <1>3, <3>2
  <2>2. \A n \in 0 .. l : f[n] = IF n = 0 THEN seq ELSE Plain!Recorded(f[n - 1], E[n])
    BY <1>3, <2>1
  <2> HIDE DEF V
  <2>3. QED
    BY <2>2
<1>5. Q(F)
  <2> HIDE DEF Q
  <2>1. QED
    BY <1>4
<1>6. F[0] = seq /\ \A n \in 1 .. l : F[n] = Plain!Recorded(F[n - 1], E[n])
  <2> HIDE DEF F
  <2>1. \A n \in 0 .. l : F[n] = IF n = 0 THEN seq ELSE Plain!Recorded(F[n - 1], E[n])
    BY <1>5
  <2>2. QED
    BY <2>1
<1>7. Plain!AllRecorded(seq, E) = F[l]
  BY DEF Plain!AllRecorded
<1> HIDE DEF F, Q, step, V, l
<1> DEFINE S == { n \in Nat : n <= l => /\ F[n] \in V /\ KeepsWorth(seq, F[n])
                                       /\ From(F[n], n) /\ Got(F[n], n) }
<1>8. 0 \in S
  <2>1. F[0] \in V
    BY <1>6 DEF V
  <2>2. From(F[0], 0)
    BY <1>6
  <2>3. KeepsWorth(seq, F[0])
    BY <1>6 DEF KeepsWorth
  <2>4. QED
    BY <2>1, <2>2, <2>3
<1>9. ASSUME NEW n \in Nat, n \in S PROVE n + 1 \in S
  <2> SUFFICES ASSUME n + 1 <= l
               PROVE  /\ F[n + 1] \in V /\ KeepsWorth(seq, F[n + 1])
                      /\ From(F[n + 1], n + 1) /\ Got(F[n + 1], n + 1)
    OBVIOUS
  <2>1. l \in Nat /\ n + 1 \in 1 .. l /\ n <= l
    BY DEF l
  <2>2. F[n] \in V /\ KeepsWorth(seq, F[n]) /\ From(F[n], n) /\ Got(F[n], n)
    BY <1>9, <2>1
  <2>3. PICK k, v, w : k = n + 1 /\ v = F[n] /\ w = F[k]
    OBVIOUS
  <2>4. w = Plain!Recorded(v, E[k]) /\ k \in 1 .. l
    BY <1>6, <2>1, <2>3
  <2>5. /\ w \in V /\ KeepsWorth(v, w)
        /\ \A x \in DOMAIN w :
             \/ \E y \in DOMAIN v : w[x] = v[y]
             \/ Continues(E[k]) /\ w[x] = Plain!Continue(E[k])
        /\ Continues(E[k]) => HasWorth(w, E[k].pm, WorthOf(Plain!Continue(E[k])))
    <3>1. v \in V /\ k \in 1 .. l
      BY <2>2, <2>3, <2>4
    <3>2. /\ Plain!Recorded(v, E[k]) \in V
          /\ KeepsWorth(v, Plain!Recorded(v, E[k]))
          /\ \A x \in DOMAIN Plain!Recorded(v, E[k]) :
               \/ \E y \in DOMAIN v : Plain!Recorded(v, E[k])[x] = v[y]
               \/ Continues(E[k]) /\ Plain!Recorded(v, E[k])[x] = Plain!Continue(E[k])
          /\ Continues(E[k]) => HasWorth(Plain!Recorded(v, E[k]), E[k].pm, WorthOf(Plain!Continue(E[k])))
      BY <1>1, <3>1
    <3>3. QED
      BY <2>4, <3>2
  <2>6. KeepsWorth(seq, w)
    BY <2>2, <2>3, <2>5 DEF KeepsWorth
  <2>7. From(w, k)
    BY <2>2, <2>3, <2>5
  <2>8. Got(w, k)
    <3> SUFFICES ASSUME NEW y \in 1 .. k, Continues(E[y])
                 PROVE  HasWorth(w, E[y].pm, WorthOf(Plain!Continue(E[y])))
      OBVIOUS
    <3>1. CASE y = k
      BY <2>5, <3>1
    <3>2. CASE y # k
      <4>1. y \in 1 .. n /\ y \in 1 .. l
        BY <2>1, <2>3, <3>2
      <4>2. HasWorth(v, E[y].pm, WorthOf(Plain!Continue(E[y])))
        BY <2>2, <2>3, <4>1
      <4>3. Plain!Continue(E[y]) \in PlainPath
        BY <4>1 DEF l
      <4>4. WorthOf(Plain!Continue(E[y])) \in Int
        BY <4>3, PathWorth
      <4>5. QED
        BY <2>5, <4>2, <4>4 DEF KeepsWorth
    <3>3. QED
      BY <3>1, <3>2
  <2> HIDE DEF From, Got
  <2>9. QED
    BY <2>3, <2>5, <2>6, <2>7, <2>8
<1>10. \A n \in Nat : n \in S
  <2> HIDE DEF S
  <2>1. QED
    BY <1>8, <1>9, Induction
<1>11. l \in Nat
  BY DEF l
<1>12. F[l] \in V /\ KeepsWorth(seq, F[l]) /\ From(F[l], l) /\ Got(F[l], l)
  BY <1>10, <1>11
<1>13. QED
  BY ONLY <1>7, <1>12 DEF V, l, From, Got, RecordedWell

(* The completions found, one for every number of errors. *)
EndType == [score : Int, from : Int, tr : Nat, tm : Nat, bmatched : Nat]

BestType == UNION { [D -> EndType] : D \in SUBSET Nat }

FoundType == [best : BestType, score : Int]

(* best_Score is what the best completion is worth. *)
Topped(bt, sc) ==
  /\ bt = << >> => sc = MinScore
  /\ bt # << >> => \E e \in DOMAIN bt : Plain!Worth(bt[e].score, e) = sc
  /\ \A e \in DOMAIN bt : Plain!Worth(bt[e].score, e) <= sc

Completes(x) == x.pm = Len(prefix)

ErrorOf(x) == Plain!Back.error + x.error

WorthAtEnd(x) == Plain!Worth(Plain!Completion(x).score, ErrorOf(x))

(* A completion that can be one of the search. *)
Sensible(x) ==
  /\ Plain!Completion(x) \in EndType /\ ErrorOf(x) \in Nat
  /\ WorthAtEnd(x) > MinScore

LEMMA BestFacts ==
  ASSUME NEW bt \in BestType
  PROVE  /\ DOMAIN bt \subseteq Nat
         /\ \A e \in DOMAIN bt : bt[e] \in EndType /\ bt[e].score \in Int
                                  /\ Plain!Worth(bt[e].score, e) \in Int
         /\ bt = [e \in DOMAIN bt |-> bt[e]]
         /\ bt = << >> <=> DOMAIN bt = {}
<1>1. PICK D \in SUBSET Nat : bt \in [D -> EndType]
  BY DEF BestType
<1>2. ASSUME NEW e \in DOMAIN bt
      PROVE  bt[e] \in EndType /\ bt[e].score \in Int /\ Plain!Worth(bt[e].score, e) \in Int
  <2>1. bt[e] \in EndType /\ e \in Int
    BY <1>1
  <2>2. PICK a : a = bt[e].score
    OBVIOUS
  <2>3. a \in Int
    BY <2>1, <2>2 DEF EndType
  <2>4. Plain!Worth(a, e) \in Int
    BY <2>1, <2>3, WorthInt
  <2>5. QED
    BY <2>1, <2>2, <2>3, <2>4
<1>3. bt = [e \in DOMAIN bt |-> bt[e]] /\ DOMAIN bt = D
  BY <1>1
<1>4. DOMAIN bt = {} => bt = << >>
  BY <1>3
<1>5. bt = << >> => DOMAIN bt = {}
  OBVIOUS
<1>6. QED
  BY <1>2, <1>3, <1>4, <1>5

LEMMA CompletedShape ==
  ASSUME NEW found \in FoundType, Topped(found.best, found.score), MinScore \in Int,
         NEW x, Completes(x) => Sensible(x)
  PROVE  LET after == Plain!Completed(found, x)
         IN  /\ after \in FoundType /\ Topped(after.best, after.score)
             /\ after.score >= found.score
             /\ \A e \in DOMAIN after.best :
                  \/ e \in DOMAIN found.best /\ after.best[e] = found.best[e]
                  \/ Completes(x) /\ e = ErrorOf(x) /\ after.best[e] = Plain!Completion(x)
             /\ Completes(x) => WorthAtEnd(x) <= after.score
<1> DEFINE new == Plain!Completion(x)
           error == ErrorOf(x)
           after == Plain!Completed(found, x)
           bt == found.best
           sc == found.score
           worth == WorthAtEnd(x)
           better == error \in DOMAIN bt => new.score > bt[error].score
<1>1. after = IF Completes(x) /\ better
                THEN [best |-> [e \in DOMAIN bt \cup {error} |->
                                  IF e = error THEN new ELSE bt[e]],
                      score |-> Plain!Max({sc, worth})]
                ELSE found
  BY DEF Plain!Completed, Completes, ErrorOf, WorthAtEnd
<1>2. bt \in BestType /\ sc \in Int /\ found = [best |-> bt, score |-> sc]
  BY DEF FoundType
<1>3. Completes(x) => new \in EndType /\ error \in Nat /\ worth > MinScore /\ worth \in Int
                      /\ worth = Plain!Worth(new.score, error) /\ new.score \in Int
  <2>1. PICK a, e : a = new.score /\ e = error
    OBVIOUS
  <2>2. Completes(x) => a \in Int /\ e \in Int
    BY <2>1 DEF Sensible, EndType
  <2>3. Completes(x) => Plain!Worth(a, e) \in Int
    BY <2>2, WorthInt
  <2>4. QED
    BY <2>1, <2>2, <2>3 DEF Sensible, WorthAtEnd
<1>4. /\ DOMAIN bt \subseteq Nat
      /\ \A e \in DOMAIN bt : bt[e] \in EndType /\ bt[e].score \in Int
                               /\ Plain!Worth(bt[e].score, e) \in Int
      /\ bt = << >> <=> DOMAIN bt = {}
  BY <1>2, BestFacts
<1>5. Topped(bt, sc)
  OBVIOUS
<1>a. \A e, y : Plain!Worth(y, e) = y + PlainErrorWeight * e
  BY DEF Plain!Worth
<1>b. PlainErrorWeight \in Int
  BY ClassesAssumption DEF Plain!NumbersAssumption
<1> HIDE DEF new, error, after, bt, sc, worth
<1>6. CASE ~ Completes(x)
  <2>1. after = found
    BY <1>1, <1>6
  <2>2. QED
    BY <1>2, <1>5, <1>6, <2>1 DEF after, bt, sc
<1>7. CASE Completes(x) /\ ~ better
  <2>1. after = found
    BY <1>1, <1>7
  <2>2. error \in DOMAIN bt /\ new.score <= bt[error].score
    BY <1>3, <1>4, <1>7
  <2>3. worth <= Plain!Worth(bt[error].score, error)
    <3>1. PICK c, d, z : c = new.score /\ d = bt[error].score /\ z = PlainErrorWeight * error
      OBVIOUS
    <3>2. c \in Int /\ d \in Int /\ c <= d /\ z \in Int
      BY <1>3, <1>4, <1>7, <1>b, <2>2, <3>1
    <3>3. worth = c + z /\ Plain!Worth(bt[error].score, error) = d + z
      BY <1>3, <1>7, <1>a, <3>1
    <3>4. QED
      BY <3>2, <3>3
  <2>4. worth <= sc
    BY <1>2, <1>3, <1>4, <1>5, <1>7, <2>2, <2>3 DEF Topped
  <2>5. QED
    BY <1>2, <1>5, <2>1, <2>4 DEF after, bt, sc, worth
<1>8. CASE Completes(x) /\ better
  <2>1. PICK at : at = [e \in DOMAIN bt \cup {error} |-> IF e = error THEN new ELSE bt[e]]
    OBVIOUS
  <2>2. PICK top : top = Plain!Max({sc, worth})
    OBVIOUS
  <2>3. after = [best |-> at, score |-> top]
    BY <1>1, <1>8, <2>1, <2>2
  <2>4. /\ DOMAIN at = DOMAIN bt \cup {error} /\ at[error] = new
        /\ \A e \in DOMAIN bt : e # error => at[e] = bt[e]
    BY <2>1
  <2>5. top \in Int /\ top >= sc /\ top >= worth /\ (top = sc \/ top = worth)
    <3>1. Plain!Max({sc, worth}) = IF sc >= worth THEN sc ELSE worth
      <4>1. sc \in Int /\ worth \in Int
        BY <1>2, <1>3, <1>8
      <4>2. \A a, b \in Int : Plain!Max({a, b}) = IF a >= b THEN a ELSE b
        BY DEF Plain!Max
      <4>3. QED
        BY <4>1, <4>2
    <3>2. QED
      BY <1>2, <1>3, <1>8, <2>2, <3>1
  <2>6. at \in BestType
    <3>1. DOMAIN at \in SUBSET Nat
      BY <1>3, <1>4, <1>8, <2>4
    <3>2. at \in [DOMAIN at -> EndType]
      BY <1>3, <1>4, <1>8, <2>1, <2>4
    <3>3. QED
      BY <3>1, <3>2 DEF BestType
  <2>7. at # << >>
    <3>1. DOMAIN at # {}
      BY <2>4
    <3>2. QED
      BY <2>6, <3>1, BestFacts
  <2>8. Plain!Worth(at[error].score, error) = worth
    BY <1>3, <1>8, <2>4
  <2>9. \A e \in DOMAIN at : Plain!Worth(at[e].score, e) <= top
    <3> SUFFICES ASSUME NEW e \in DOMAIN at PROVE Plain!Worth(at[e].score, e) <= top
      OBVIOUS
    <3>1. CASE e = error
      BY <2>5, <2>8, <3>1
    <3>2. CASE e # error
      <4>1. e \in DOMAIN bt /\ at[e] = bt[e]
        BY <2>4, <3>2
      <4>2. Plain!Worth(bt[e].score, e) <= sc /\ Plain!Worth(bt[e].score, e) \in Int
        BY <1>4, <1>5, <4>1 DEF Topped
      <4>3. PICK z : z = Plain!Worth(bt[e].score, e)
        OBVIOUS
      <4>4. z <= top
        BY <1>2, <2>5, <4>2, <4>3
      <4>5. QED
        BY <4>1, <4>3, <4>4
    <3>3. QED
      BY <3>1, <3>2
  <2>10. \E e \in DOMAIN at : Plain!Worth(at[e].score, e) = top
    <3>1. CASE top = worth
      BY <2>4, <2>8, <3>1
    <3>2. CASE top # worth
      <4>1. top = sc /\ worth < sc
        BY <1>2, <1>3, <1>8, <2>5, <3>2
      <4>2. bt # << >>
        BY <1>2, <1>3, <1>5, <1>8, <4>1 DEF Topped
      <4>3. PICK e \in DOMAIN bt : Plain!Worth(bt[e].score, e) = sc
        BY <1>5, <4>2 DEF Topped
      <4>4. e # error
        <5> SUFFICES ASSUME e = error PROVE FALSE
          OBVIOUS
        <5>1. new.score > bt[e].score
          BY <1>8, <4>3
        <5>2. PICK c, d, z : c = new.score /\ d = bt[e].score /\ z = PlainErrorWeight * error
          OBVIOUS
        <5>3. c \in Int /\ d \in Int /\ c > d /\ z \in Int
          BY <1>3, <1>4, <1>8, <1>b, <4>3, <5>1, <5>2
        <5>4. worth = c + z /\ sc = d + z
          BY <1>3, <1>8, <1>a, <4>3, <5>2
        <5>5. QED
          BY <4>1, <5>3, <5>4
      <4>5. QED
        BY <2>4, <4>1, <4>3, <4>4
    <3>3. QED
      BY <3>1, <3>2
  <2>11. after.best = at /\ after.score = top /\ after \in FoundType
    BY <2>3, <2>5, <2>6 DEF FoundType
  <2>12. Topped(at, top)
    BY <2>7, <2>9, <2>10 DEF Topped
  <2>13. \A e \in DOMAIN at :
           \/ e \in DOMAIN bt /\ at[e] = bt[e]
           \/ Completes(x) /\ e = error /\ at[e] = new
    BY <1>8, <2>4
  <2>14. QED
    BY <1>8, <2>5, <2>11, <2>12, <2>13 DEF after, bt, sc, new, error, worth
<1>9. QED
  BY <1>6, <1>7, <1>8

LEMMA AllCompletedShape ==
  ASSUME NEW found \in FoundType, Topped(found.best, found.score), MinScore \in Int,
         NEW E, Len(E) \in Nat, \A y \in 1 .. Len(E) : Completes(E[y]) => Sensible(E[y])
  PROVE  LET after == Plain!AllCompleted(found, E)
         IN  /\ after \in FoundType /\ Topped(after.best, after.score)
             /\ after.score >= found.score
             /\ \A e \in DOMAIN after.best :
                  \/ e \in DOMAIN found.best /\ after.best[e] = found.best[e]
                  \/ \E y \in 1 .. Len(E) : Completes(E[y]) /\ e = ErrorOf(E[y])
                                             /\ after.best[e] = Plain!Completion(E[y])
             /\ \A y \in 1 .. Len(E) : Completes(E[y]) => WorthAtEnd(E[y]) <= after.score
<1> DEFINE l == Len(E)
           V == { v \in FoundType : Topped(v.best, v.score) }
           step == [c \in (1 .. l) \X V |-> Plain!Completed(c[2], E[c[1]])]
           Q(f) == f = [n \in 0 .. Len(E) |->
                          IF n = 0 THEN found ELSE Plain!Completed(f[n - 1], E[n])]
           F == CHOOSE f : Q(f)
           From(v, n) == \A e \in DOMAIN v.best :
                  \/ e \in DOMAIN found.best /\ v.best[e] = found.best[e]
                  \/ \E y \in 1 .. n : Completes(E[y]) /\ e = ErrorOf(E[y])
                                        /\ v.best[e] = Plain!Completion(E[y])
           Got(v, n) == \A y \in 1 .. n : Completes(E[y]) => WorthAtEnd(E[y]) <= v.score
           Follows(v, w, x) ==
             /\ w \in V /\ w.score >= v.score
             /\ \A e \in DOMAIN w.best :
                  \/ e \in DOMAIN v.best /\ w.best[e] = v.best[e]
                  \/ Completes(x) /\ e = ErrorOf(x) /\ w.best[e] = Plain!Completion(x)
             /\ Completes(x) => WorthAtEnd(x) <= w.score
<1>1. ASSUME NEW v \in V, NEW n \in 1 .. l PROVE Follows(v, Plain!Completed(v, E[n]), E[n])
  <2>1. PICK x : x = E[n]
    OBVIOUS
  <2>2. Completes(x) => Sensible(x)
    BY <2>1
  <2>3. v \in FoundType /\ Topped(v.best, v.score)
    OBVIOUS
  <2>4. LET after == Plain!Completed(v, x)
         IN  /\ after \in FoundType /\ Topped(after.best, after.score)
             /\ after.score >= v.score
             /\ \A e \in DOMAIN after.best :
                  \/ e \in DOMAIN v.best /\ after.best[e] = v.best[e]
                  \/ Completes(x) /\ e = ErrorOf(x) /\ after.best[e] = Plain!Completion(x)
             /\ Completes(x) => WorthAtEnd(x) <= after.score
    BY <2>2, <2>3, CompletedShape
  <2>5. QED
    BY <2>1, <2>4
<1>2. step \in [(1 .. l) \X V -> V]
  <2> HIDE DEF V
  <2>1. ASSUME NEW c \in (1 .. l) \X V PROVE Plain!Completed(c[2], E[c[1]]) \in V
    <3>1. c[1] \in 1 .. l /\ c[2] \in V
      OBVIOUS
    <3>2. Follows(c[2], Plain!Completed(c[2], E[c[1]]), E[c[1]])
      BY <1>1, <3>1
    <3>3. QED
      BY <3>2
  <2>2. QED
    BY <2>1
<1>3. PICK f \in [0 .. l -> V] :
        f[0] = found /\ \A n \in 1 .. l : f[n] = step[<< n, f[n - 1] >>]
  <2>1. found \in V /\ l \in Nat
    OBVIOUS
  <2> HIDE DEF step, V, l
  <2>2. \E f : StepsThrough(f, V, found, l, step)
    BY <1>2, <2>1, StepByStep
  <2>3. QED
    BY <2>2 DEF StepsThrough
<1> HIDE DEF Follows
<1>4. Q(f)
  <2> HIDE DEF V
  <2>1. ASSUME NEW n \in 1 .. l PROVE f[n] = Plain!Completed(f[n - 1], E[n])
    <3>1. n - 1 \in 0 .. l
      OBVIOUS
    <3>2. << n, f[n - 1] >> \in (1 .. l) \X V
      BY <3>1
    <3>3. QED
      BY <1>3, <3>2
  <2>2. \A n \in 0 .. l : f[n] = IF n = 0 THEN found ELSE Plain!Completed(f[n - 1], E[n])
    BY <1>3, <2>1
  <2>3. QED
    BY <2>2
<1>5. Q(F)
  <2> HIDE DEF Q
  <2>1. QED
    BY <1>4
<1>6. F[0] = found /\ \A n \in 1 .. l : F[n] = Plain!Completed(F[n - 1], E[n])
  <2> HIDE DEF F
  <2>1. \A n \in 0 .. l : F[n] = IF n = 0 THEN found ELSE Plain!Completed(F[n - 1], E[n])
    BY <1>5
  <2>2. QED
    BY <2>1
<1>7. Plain!AllCompleted(found, E) = F[l]
  BY DEF Plain!AllCompleted
<1> HIDE DEF F, Q, step, l
<1> DEFINE S == { n \in Nat : n <= l => /\ F[n] \in V /\ F[n].score >= found.score
                                       /\ From(F[n], n) /\ Got(F[n], n) }
<1>8. 0 \in S
  <2>1. F[0] \in V /\ F[0].score >= found.score
    <3>1. found.score \in Int
      BY DEF FoundType
    <3>2. QED
      BY <1>6, <3>1
  <2>2. From(F[0], 0)
    BY <1>6
  <2> HIDE DEF V
  <2>3. QED
    BY <2>1, <2>2
<1>9. ASSUME NEW n \in Nat, n \in S PROVE n + 1 \in S
  <2> SUFFICES ASSUME n + 1 <= l
               PROVE  /\ F[n + 1] \in V /\ F[n + 1].score >= found.score
                      /\ From(F[n + 1], n + 1) /\ Got(F[n + 1], n + 1)
    OBVIOUS
  <2>1. l \in Nat /\ n + 1 \in 1 .. l /\ n <= l
    BY DEF l
  <2>2. F[n] \in V /\ F[n].score >= found.score /\ From(F[n], n) /\ Got(F[n], n)
    BY <1>9, <2>1
  <2>3. PICK k, v, w : k = n + 1 /\ v = F[n] /\ w = F[k]
    OBVIOUS
  <2>4. w = Plain!Completed(v, E[k]) /\ k \in 1 .. l /\ v \in V
    <3> HIDE DEF V
    <3>1. QED
      BY <1>6, <2>1, <2>2, <2>3
  <2>5. Follows(v, w, E[k])
    <3> HIDE DEF V
    <3>1. QED
      BY <1>1, <2>4
  <2>6. v.score \in Int /\ w.score \in Int /\ found.score \in Int /\ w.score >= v.score
        /\ v.score >= found.score
    <3>1. w \in FoundType /\ v \in FoundType
      BY <2>4, <2>5 DEF Follows
    <3>2. QED
      BY <2>2, <2>3, <2>5, <3>1 DEF Follows, FoundType
  <2>7. From(w, k)
    <3> HIDE DEF V
    <3> SUFFICES ASSUME NEW e \in DOMAIN w.best
                 PROVE  \/ e \in DOMAIN found.best /\ w.best[e] = found.best[e]
                        \/ \E y \in 1 .. k : Completes(E[y]) /\ e = ErrorOf(E[y])
                                              /\ w.best[e] = Plain!Completion(E[y])
      OBVIOUS
    <3>1. CASE e \in DOMAIN v.best /\ w.best[e] = v.best[e]
      <4>1. \A y \in 1 .. n : y \in 1 .. k
        BY <2>3
      <4>2. QED
        BY <2>2, <2>3, <3>1, <4>1
    <3>2. CASE Completes(E[k]) /\ e = ErrorOf(E[k]) /\ w.best[e] = Plain!Completion(E[k])
      <4>1. k \in 1 .. k
        BY <2>3
      <4>2. QED
        BY <3>2, <4>1
    <3>3. QED
      BY <2>5, <3>1, <3>2 DEF Follows
  <2>8. Got(w, k)
    <3> SUFFICES ASSUME NEW y \in 1 .. k, Completes(E[y])
                 PROVE  WorthAtEnd(E[y]) <= w.score
      OBVIOUS
    <3>1. CASE y = k
      BY <2>5, <3>1 DEF Follows
    <3>2. CASE y # k
      <4>1. y \in 1 .. n /\ y \in 1 .. l
        BY <2>1, <2>3, <3>2
      <4>2. PICK z : z = WorthAtEnd(E[y])
        OBVIOUS
      <4>3. z <= v.score
        BY <2>2, <2>3, <4>1, <4>2
      <4>4. z \in Int
        <5>1. PICK a, e : a = Plain!Completion(E[y]).score /\ e = ErrorOf(E[y])
          OBVIOUS
        <5>2. Sensible(E[y])
          BY <4>1 DEF l
        <5>3. a \in Int /\ e \in Int
          BY <5>1, <5>2 DEF Sensible, EndType
        <5>4. Plain!Worth(a, e) \in Int
          BY <5>3, WorthInt
        <5>5. QED
          BY <4>2, <5>1, <5>4 DEF WorthAtEnd
      <4>5. QED
        BY <2>6, <4>2, <4>3, <4>4
    <3>3. QED
      BY <3>1, <3>2
  <2>9. w \in V /\ w.score >= found.score
    BY <2>5, <2>6 DEF Follows
  <2> HIDE DEF From, Got, V
  <2>10. QED
    BY <2>3, <2>7, <2>8, <2>9
<1>10. \A n \in Nat : n \in S
  <2> HIDE DEF S
  <2>1. QED
    BY <1>8, <1>9, Induction
<1>11. l \in Nat
  BY DEF l
<1>12. F[l] \in V /\ F[l].score >= found.score /\ From(F[l], l) /\ Got(F[l], l)
  <2> HIDE DEF From, Got, V
  <2>1. QED
    BY <1>10, <1>11
<1>13. QED
  BY <1>7, <1>12 DEF V, l

-------------------------------------------------------------------------
(* The invariant of WeightedCaitra. *)

NowAsked(r) == r \in PlainRequests /\ r.tokens = prefix /\ r.space = space

PlainTyped ==
  /\ graph \in Graphs /\ partial \in SUBSET Words /\ prefix \in Seq(Words)
  /\ back \in [States(graph) -> Seq(PlainPath)]
  /\ best \in BestType /\ bestScore \in Int
  /\ pc \in {"idle", "search"}
  /\ cur \in [st : 0 .. graph.n, bi : Nat \ {0}, ti : Nat \ {0}]
  /\ pc = "idle" => best = << >> /\ cur = Plain!Start
  /\ pc = "search" => answer = Plain!None /\ \E r : NowAsked(r)

(* No recorded path has matched the whole prefix. *)
PlainOpen ==
  \A s \in States(graph) : \A x \in DOMAIN back[s] : back[s][x].matched < Len(prefix)

(* Whatever is typed next, as long as the matched tokens stay what they    *)
(* are: what a way from here on adds to the path is a way from the         *)
(* beginning.                                                              *)
LeadsOn(g, q, s, m, score, error) ==
  \A r \in PlainRequests, part \in SUBSET Words :
    m < Len(r.tokens) /\ SameTokens(r.tokens, q, m)
      => \A v \in Onward(g, r, part, s, m) :
           Shifted(v, score, error) \in Onward(g, r, part, 0, 0)

PathLeads(g, q, s, b) == LeadsOn(g, q, s, b.matched, b.score, b.error)

PlainLeads ==
  \A s \in States(graph) : \A x \in DOMAIN back[s] : PathLeads(graph, prefix, s, back[s][x])

(* A completion is the end of a way. *)
EndLeads(end, e) ==
  \A r : NowAsked(r) =>
    EndAt(graph, end.from, end.tr, end.tm, end.score, e) \in Onward(graph, r, partial, 0, 0)

PlainEnds == \A e \in DOMAIN best : EndLeads(best[e], e)

(* What the loop has come by: a path was given up or all matches of the    *)
(* transition are taken care of.                                           *)
ComeBy(s, x, k) ==
  \/ s < cur.st
  \/ s = cur.st /\ x < cur.bi
  \/ s = cur.st /\ x = cur.bi /\ k < cur.ti

GivenUp(s, b) == graph.fscore[s] + WorthOf(b) <= bestScore

TakenCare(b, t, z) ==
  IF z.pm < Len(prefix)
    THEN HasWorth(back[t.to], z.pm, Plain!Worth(b.score + t.score, b.error + z.error))
    ELSE Plain!Worth(b.score + t.score + graph.fscore[t.to], b.error + z.error) <= bestScore

Tried(s, b, k) ==
  \A y \in DOMAIN StrictMatches(prefix, b.matched, graph.trans[s][k].output, partial, space) :
    TakenCare(b, graph.trans[s][k],
              StrictMatches(prefix, b.matched, graph.trans[s][k].output, partial, space)[y])

PlainExplored ==
  \A s \in States(graph) : \A x \in DOMAIN back[s], k \in DOMAIN graph.trans[s] :
    ComeBy(s, x, k) => GivenUp(s, back[s][x]) \/ Tried(s, back[s][x], k)

PlainBegun == \E x \in DOMAIN back[0] : back[0][x] = Plain!InitialBack

(* Between two paths the loop is at the first transition. *)
PlainAt == cur.ti # 1 => cur.st < graph.n /\ cur.bi <= Len(back[cur.st])

PlainInv ==
  /\ PlainTyped /\ PlainOpen /\ PlainLeads
  /\ pc = "search" => Topped(best, bestScore) /\ PlainEnds /\ PlainExplored /\ PlainBegun
                     /\ PlainAt

LEMMA NumberTypes ==
  MinScore \in Int /\ PlainErrorWeight \in Int
BY ClassesAssumption DEF Plain!NumbersAssumption

LEMMA NoCompletion == << >> \in BestType /\ DOMAIN << >> = {} /\ Topped(<< >>, MinScore)
<1>1. << >> \in BestType
  <2>1. << >> \in [{} -> EndType] /\ {} \in SUBSET Nat
    OBVIOUS
  <2>2. QED
    BY <2>1 DEF BestType
<1>2. DOMAIN << >> = {}
  OBVIOUS
<1>3. QED
  BY <1>1, <1>2, NumberTypes DEF Topped

LEMMA NothingRecorded ==
  ASSUME NEW g \in Graphs, NEW f, f = [s \in Plain!States(g) |-> << >>]
  PROVE  f \in [States(g) -> Seq(PlainPath)] /\ \A s \in States(g) : DOMAIN f[s] = {}
<1>1. Plain!States(g) = States(g)
  BY PlainGraph
<1>2. << >> \in Seq(PlainPath) /\ DOMAIN << >> = {}
  OBVIOUS
<1>3. QED
  BY <1>1, <1>2

LEMMA StartType ==
  ASSUME NEW g \in Graphs
  PROVE  Plain!Start \in [st : 0 .. g.n, bi : Nat \ {0}, ti : Nat \ {0}] /\ Plain!Start.st = 0
           /\ Plain!Start.bi = 1 /\ Plain!Start.ti = 1
<1>1. g.n \in Nat \ {0}
  BY PlainGraph
<1>2. 0 \in 0 .. g.n /\ 1 \in Nat \ {0}
  BY <1>1
<1>3. QED
  BY <1>2 DEF Plain!Start

LEMMA PlainStart ==
  ASSUME Plain!Init
  PROVE  PlainInv
<1>1. /\ graph \in Graphs /\ prefix = << >> /\ partial = {}
      /\ back = [s \in Plain!States(graph) |-> << >>]
      /\ best = << >> /\ bestScore = MinScore /\ pc = "idle" /\ cur = Plain!Start
  BY DEF Plain!Init
<1>2. back \in [States(graph) -> Seq(PlainPath)] /\ \A s \in States(graph) : DOMAIN back[s] = {}
  BY <1>1, NothingRecorded
<1>3. cur \in [st : 0 .. graph.n, bi : Nat \ {0}, ti : Nat \ {0}]
  BY <1>1, StartType
<1>4. << >> \in Seq(Words)
  OBVIOUS
<1>5. PlainTyped
  BY <1>1, <1>2, <1>3, <1>4, NoCompletion, NumberTypes DEF PlainTyped
<1>6. PlainOpen /\ PlainLeads
  BY <1>2 DEF PlainOpen, PlainLeads
<1>7. QED
  BY <1>1, <1>5, <1>6 DEF PlainInv

LEMMA PlainNewSentence ==
  ASSUME PlainInv, NEW g \in Graphs, Plain!createGraph(g)
  PROVE  PlainInv'
<1>1. /\ pc = "idle" /\ pc' = "idle" /\ cur' = cur /\ bestScore' = bestScore
      /\ graph' = g /\ prefix' = << >> /\ partial' = {} /\ best' = << >>
      /\ back' = [s \in Plain!States(g) |-> << >>]
  BY DEF Plain!createGraph
<1>2. back' \in [States(g) -> Seq(PlainPath)] /\ \A s \in States(g) : DOMAIN back'[s] = {}
  BY <1>1, NothingRecorded
<1>3. cur' \in [st : 0 .. g.n, bi : Nat \ {0}, ti : Nat \ {0}] /\ cur' = Plain!Start
  BY <1>1, StartType DEF PlainInv, PlainTyped
<1>4. << >> \in Seq(Words)
  OBVIOUS
<1>5. PlainTyped'
  BY <1>1, <1>2, <1>3, <1>4, NoCompletion DEF PlainInv, PlainTyped
<1>6. PlainOpen' /\ PlainLeads'
  BY <1>1, <1>2 DEF PlainOpen, PlainLeads
<1>7. QED
  BY <1>1, <1>5, <1>6 DEF PlainInv

(* A path keeps leading on when the user goes on typing. *)
LEMMA StillLeads ==
  ASSUME NEW g, NEW q, NEW q2, NEW s, NEW b, SameTokens(q2, q, b.matched),
         PathLeads(g, q, s, b)
  PROVE  PathLeads(g, q2, s, b)
<1>1. ASSUME NEW r, SameTokens(r.tokens, q2, b.matched)
      PROVE  SameTokens(r.tokens, q, b.matched)
  BY <1>1 DEF SameTokens
<1>2. QED
  BY <1>1 DEF PathLeads, LeadsOn

LEMMA InitialPath ==
  /\ Plain!InitialBack \in PlainPath /\ Plain!InitialBack.score = 0
  /\ Plain!InitialBack.error = 0 /\ Plain!InitialBack.matched = 0
BY DEF Plain!InitialBack, PlainPath

LEMMA InitialLeads ==
  ASSUME NEW g \in Graphs, NEW q
  PROVE  PathLeads(g, q, 0, Plain!InitialBack)
<1> SUFFICES ASSUME NEW r \in PlainRequests, NEW part \in SUBSET Words,
                    NEW v \in Onward(g, r, part, 0, 0)
             PROVE  Shifted(v, 0, 0) \in Onward(g, r, part, 0, 0)
  BY InitialPath DEF PathLeads, LeadsOn
<1>1. 0 \in States(g) /\ 0 \in 0 .. Len(r.tokens) - 1
  BY PlainGraph, Tokens
<1>2. v \in WayType(g)
  BY <1>1, WayKinds
<1>3. /\ v.score \in Int /\ v.error \in Nat
      /\ v = [score |-> v.score, error |-> v.error, last |-> v.last,
              jumped |-> << >>, suffix |-> v.suffix]
  BY <1>2, WayFields
<1>4. v.score + 0 = v.score /\ v.error + 0 = v.error
  BY <1>3
<1>5. Shifted(v, 0, 0) = v
  BY <1>3, <1>4 DEF Shifted
<1>6. QED
  BY <1>5

LEMMA PlainAsk ==
  ASSUME PlainInv, NEW r \in PlainRequests, Plain!getPrefix(r)
  PROVE  PlainInv'
<1>1. /\ pc = "idle" /\ Plain!Extends(r) /\ pc' = "search" /\ answer' = Plain!None
      /\ prefix' = r.tokens /\ space' = r.space /\ cur' = Plain!Start
      /\ partial' = (IF r.space THEN partial
                     ELSE { w \in Words : << r.tokens[Len(r.tokens)], w >> \in PartOf })
      /\ back' = [back EXCEPT ![0] = Append(@, Plain!InitialBack)]
      /\ bestScore' = MinScore /\ graph' = graph /\ best' = best
  BY DEF Plain!getPrefix
<1>2. /\ graph \in Graphs /\ partial \in SUBSET Words /\ prefix \in Seq(Words)
      /\ back \in [States(graph) -> Seq(PlainPath)] /\ best = << >>
  BY <1>1 DEF PlainInv, PlainTyped
<1>3. 0 \in States(graph) /\ States(graph) = 0 .. graph.n - 1 /\ graph.n \in Nat
  BY <1>2, PlainGraph
<1>4. /\ back' \in [States(graph) -> Seq(PlainPath)]
      /\ Len(back[0]) + 1 \in DOMAIN back'[0]
      /\ back'[0][Len(back[0]) + 1] = Plain!InitialBack
      /\ \A s \in States(graph) : \A x \in DOMAIN back'[s] :
           \/ x \in DOMAIN back[s] /\ back'[s][x] = back[s][x]
           \/ s = 0 /\ back'[s][x] = Plain!InitialBack
  <2>1. back[0] \in Seq(PlainPath)
    BY <1>2, <1>3
  <2>2. PICK new : new = Append(back[0], Plain!InitialBack)
    OBVIOUS
  <2>3. /\ new \in Seq(PlainPath) /\ Len(back[0]) + 1 \in DOMAIN new
        /\ new[Len(back[0]) + 1] = Plain!InitialBack
        /\ \A x \in DOMAIN new : \/ x \in DOMAIN back[0] /\ new[x] = back[0][x]
                                 \/ new[x] = Plain!InitialBack
    BY <2>1, <2>2, InitialPath
  <2>4. back' = [back EXCEPT ![0] = new]
    BY <1>1, <2>2
  <2>5. back' \in [States(graph) -> Seq(PlainPath)] /\ back'[0] = new
        /\ \A s \in States(graph) : s # 0 => back'[s] = back[s]
    BY <1>2, <1>3, <2>3, <2>4
  <2>6. QED
    BY <2>3, <2>5
<1>5. r.tokens \in Seq(Words) /\ Len(r.tokens) \in Nat \ {0} /\ r.space \in BOOLEAN
  BY Tokens
<1>6. NowAsked(r)'
  BY <1>1 DEF NowAsked
<1>7. PlainTyped'
  <2>1. partial' \in SUBSET Words
    BY <1>1, <1>2
  <2>2. cur' \in [st : 0 .. graph.n, bi : Nat \ {0}, ti : Nat \ {0}]
    BY <1>1, <1>2, StartType
  <2>3. QED
    BY <1>1, <1>2, <1>4, <1>5, <1>6, <2>1, <2>2, NoCompletion, NumberTypes DEF PlainTyped
<1>8. ASSUME NEW s \in States(graph), NEW x \in DOMAIN back[s]
      PROVE  /\ back[s][x].matched < Len(r.tokens)
             /\ SameTokens(r.tokens, prefix, back[s][x].matched)
  <2>1. back[s][x].matched < Len(prefix) /\ back[s][x].matched \in Nat
    <3>1. back[s][x] \in PlainPath
      BY <1>2
    <3>2. QED
      BY <3>1, PathWorth DEF PlainInv, PlainOpen
  <2>2. Len(prefix) \in Nat /\ Len(prefix) > 0
    BY <1>2, <2>1
  <2>3. Len(r.tokens) >= Len(prefix) /\ \A z \in 1 .. Len(prefix) - 1 : r.tokens[z] = prefix[z]
    BY <1>1, <2>2 DEF Plain!Extends
  <2>4. QED
    BY <1>5, <2>1, <2>2, <2>3 DEF SameTokens
<1>9. PlainOpen'
  <2> SUFFICES ASSUME NEW s \in States(graph), NEW x \in DOMAIN back'[s]
               PROVE  back'[s][x].matched < Len(r.tokens)
    BY <1>1 DEF PlainOpen
  <2>1. QED
    BY <1>4, <1>5, <1>8, InitialPath
<1>10. PlainLeads'
  <2> SUFFICES ASSUME NEW s \in States(graph), NEW x \in DOMAIN back'[s]
               PROVE  PathLeads(graph, r.tokens, s, back'[s][x])
    BY <1>1 DEF PlainLeads
  <2>1. CASE x \in DOMAIN back[s] /\ back'[s][x] = back[s][x]
    <3>1. PathLeads(graph, prefix, s, back[s][x])
      BY <2>1 DEF PlainInv, PlainLeads
    <3>2. QED
      BY <1>8, <2>1, <3>1, StillLeads
  <2>2. CASE s = 0 /\ back'[s][x] = Plain!InitialBack
    BY <1>2, <2>2, InitialLeads
  <2>3. QED
    BY <1>4, <2>1, <2>2
<1>11. Topped(best, bestScore)'
  BY <1>1, <1>2, NoCompletion DEF Topped
<1>12. PlainEnds'
  BY <1>1, <1>2 DEF PlainEnds
<1>13. PlainBegun'
  BY <1>4 DEF PlainBegun
<1>14. PlainExplored'
  <2> SUFFICES ASSUME NEW s \in States(graph), NEW x \in DOMAIN back'[s],
                      NEW k \in DOMAIN graph.trans[s], ComeBy(s, x, k)'
               PROVE  FALSE
    BY <1>1 DEF PlainExplored
  <2>1. cur'.st = 0 /\ cur'.bi = 1 /\ cur'.ti = 1
    BY <1>1, <1>2, StartType
  <2>2. s \in Nat
    BY <1>3
  <2>3. x \in Nat \ {0}
    BY <1>4
  <2>4. k \in Nat \ {0}
    BY <1>2, TransFacts
  <2>5. QED
    BY <2>1, <2>2, <2>3, <2>4 DEF ComeBy
<1>15. PlainAt'
  <2>1. cur'.ti = 1
    BY <1>1, <1>2, StartType
  <2>2. QED
    BY <2>1 DEF PlainAt
<1>16. QED
  BY <1>7, <1>9, <1>10, <1>11, <1>12, <1>13, <1>14, <1>15 DEF PlainInv

(* Where the loop is. *)
LEMMA PlainCur ==
  ASSUME PlainInv, Plain!AtBack
  PROVE  /\ pc = "search" /\ graph \in Graphs /\ cur.st \in States(graph)
         /\ cur.bi \in DOMAIN back[cur.st] /\ Plain!Back = back[cur.st][cur.bi]
         /\ Plain!Back \in PlainPath /\ Plain!Back.matched \in 0 .. Len(prefix) - 1
         /\ cur.ti \in Nat \ {0} /\ cur.bi \in Nat \ {0} /\ Len(prefix) \in Nat
         /\ (cur.ti <= Len(graph.trans[cur.st]) => cur.ti \in DOMAIN graph.trans[cur.st])
         /\ DOMAIN graph.trans[cur.st] = 1 .. Len(graph.trans[cur.st])
         /\ Len(graph.trans[cur.st]) \in Nat
<1>1. /\ pc = "search" /\ cur.st < graph.n /\ cur.bi <= Len(back[cur.st])
      /\ Plain!Back = back[cur.st][cur.bi]
  BY DEF Plain!AtBack, Plain!AtState, Plain!Back
<1>2. /\ graph \in Graphs /\ back \in [States(graph) -> Seq(PlainPath)]
      /\ cur.st \in 0 .. graph.n /\ cur.bi \in Nat \ {0} /\ cur.ti \in Nat \ {0}
      /\ prefix \in Seq(Words)
  BY DEF PlainInv, PlainTyped
<1>3. cur.st \in States(graph)
  <2>1. graph.n \in Nat /\ States(graph) = 0 .. graph.n - 1
    BY <1>2, PlainGraph
  <2>2. QED
    BY <1>1, <1>2, <2>1
<1>4. cur.bi \in DOMAIN back[cur.st]
  <2>1. back[cur.st] \in Seq(PlainPath)
    BY <1>2, <1>3
  <2>2. QED
    BY <1>1, <1>2, <2>1
<1>5. Plain!Back \in PlainPath
  <2>1. back[cur.st] \in Seq(PlainPath)
    BY <1>2, <1>3
  <2>2. QED
    BY <1>1, <1>4, <2>1
<1>6. Plain!Back.matched \in 0 .. Len(prefix) - 1 /\ Len(prefix) \in Nat
  <2>1. Plain!Back.matched < Len(prefix)
    BY <1>1, <1>3, <1>4 DEF PlainInv, PlainOpen
  <2>2. Plain!Back.matched \in Nat
    BY <1>5, PathWorth
  <2>3. QED
    BY <1>2, <2>1, <2>2
<1>7. /\ DOMAIN graph.trans[cur.st] = 1 .. Len(graph.trans[cur.st])
      /\ Len(graph.trans[cur.st]) \in Nat
  <2>1. graph.trans[cur.st] \in Seq(TransitionType)
    BY <1>2, <1>3, PlainGraph DEF GraphType
  <2>2. QED
    BY <2>1
<1>8. QED
  BY <1>1, <1>2, <1>3, <1>4, <1>5, <1>6, <1>7

(* A path that goes on by a match leads on. *)
LEMMA ContinuedLeads ==
  ASSUME NEW g \in Graphs, NEW p \in Seq(Words), NEW part0, NEW sp0,
         NEW s \in States(g), NEW b \in PlainPath, b.matched \in 0 .. Len(p) - 1,
         PathLeads(g, p, s, b), NEW k \in DOMAIN g.trans[s],
         NEW y \in DOMAIN StrictMatches(p, b.matched, g.trans[s][k].output, part0, sp0),
         NEW x, x = StrictMatches(p, b.matched, g.trans[s][k].output, part0, sp0)[y],
         x.pm < Len(p)
  PROVE  LeadsOn(g, p, g.trans[s][k].to, x.pm, b.score + g.trans[s][k].score, b.error + x.error)
<1> DEFINE t == g.trans[s][k]
           m == b.matched
<1> SUFFICES ASSUME NEW r \in PlainRequests, NEW part \in SUBSET Words,
                    x.pm < Len(r.tokens), SameTokens(r.tokens, p, x.pm),
                    NEW v \in Onward(g, r, part, t.to, x.pm)
             PROVE  Shifted(v, b.score + t.score, b.error + x.error) \in Onward(g, r, part, 0, 0)
  BY DEF LeadsOn
<1>1. /\ t.to \in States(g) /\ t.score \in Int /\ t.output \in Seq(Words)
      /\ r.tokens \in Seq(Words) /\ Len(r.tokens) \in Nat /\ m \in Nat /\ Len(p) \in Nat
      /\ b.score \in Int /\ b.error \in Nat
  <2>1. t.to \in States(g) /\ t.score \in Int /\ t.output \in Seq(Words)
    BY TransFacts
  <2>2. r.tokens \in Seq(Words) /\ Len(r.tokens) \in Nat
    BY Tokens
  <2>3. b.score \in Int /\ b.error \in Nat /\ m \in Nat
    BY PathWorth
  <2>4. Len(p) \in Nat
    OBVIOUS
  <2>5. QED
    BY <2>1, <2>2, <2>3, <2>4
<1>2. x.error \in Nat /\ x.pm \in m + 1 .. Len(p)
  <2>1. AreMatches(StrictMatches(p, m, t.output, part0, sp0), g, p, m, s, k)
    BY MatchFacts
  <2>2. QED
    BY <2>1 DEF AreMatches
<1>3. m \in 0 .. Len(r.tokens) - 1 /\ x.pm \in 0 .. Len(r.tokens) - 1 /\ m < Len(r.tokens)
      /\ x.pm # Len(r.tokens)
  BY <1>1, <1>2
<1>4. PICK z \in DOMAIN MatchesOf(g, r, part, s, m, k) : MatchesOf(g, r, part, s, m, k)[z] = x
  <2>1. SameTokens(p, r.tokens, x.pm)
    BY DEF SameTokens
  <2>2. x.pm = StrictMatches(p, m, t.output, part0, sp0)[y].pm
    OBVIOUS
  <2>3. PICK q, n, o, d, sp : /\ q = r.tokens /\ n = x.pm /\ o = t.output /\ d = m
                              /\ sp = r.space
    OBVIOUS
  <2>4. /\ q \in Seq(Words) /\ o \in Seq(Words) /\ d \in 0 .. Len(p) - 1
        /\ y \in DOMAIN StrictMatches(p, d, o, part0, sp0)
        /\ n = StrictMatches(p, d, o, part0, sp0)[y].pm
        /\ n < Len(p) /\ n < Len(q) /\ SameTokens(p, q, n)
    BY <1>1, <2>1, <2>2, <2>3
  <2> HIDE DEF t, m
  <2>5. SameMatch(StrictMatches(p, d, o, part0, sp0), y, StrictMatches(q, d, o, part, sp))
    BY ONLY <2>4, MatchStands
  <2>6. x = StrictMatches(p, d, o, part0, sp0)[y]
    BY <2>3 DEF t, m
  <2>7. StrictMatches(q, d, o, part, sp) = MatchesOf(g, r, part, s, m, k)
    BY <2>3 DEF MatchesOf, t
  <2>8. QED
    BY <2>5, <2>6, <2>7 DEF SameMatch
<1>5. v \in WayType(g)
  BY <1>1, <1>3, WayKinds
<1>6. Shifted(v, t.score, x.error) \in Onward(g, r, part, s, m)
  <2>1. BeginsWith(g, r, part, s, m, k, z, Shifted(v, t.score, x.error))
    BY <1>3, <1>4 DEF BeginsWith
  <2>2. QED
    BY <1>3, <2>1, WayKinds
<1>7. SameTokens(r.tokens, p, m)
  <2>1. 1 .. m \subseteq 1 .. x.pm
    BY <1>1, <1>2
  <2>2. QED
    BY <2>1 DEF SameTokens
<1>8. Shifted(Shifted(v, t.score, x.error), b.score, b.error) \in Onward(g, r, part, 0, 0)
  BY <1>3, <1>6, <1>7 DEF PathLeads, LeadsOn
<1>9. Shifted(Shifted(v, t.score, x.error), b.score, b.error)
        = Shifted(v, b.score + t.score, b.error + x.error)
  <2>1. PICK a, e, c, f, n, o : /\ a = t.score /\ e = x.error /\ c = b.score /\ f = b.error
                                /\ n = v.score /\ o = v.error
    OBVIOUS
  <2>2. a \in Int /\ e \in Nat /\ c \in Int /\ f \in Nat /\ n \in Int /\ o \in Nat
    BY <1>1, <1>2, <1>5, <2>1, WayFields
  <2>3. (n + a) + c = n + (c + a) /\ (o + e) + f = o + (f + e)
    BY <2>2
  <2>4. Shifted(v, t.score, x.error) = [score |-> n + a, error |-> o + e, last |-> v.last,
                                        jumped |-> << >>, suffix |-> v.suffix]
    BY <2>1 DEF Shifted
  <2>5. Shifted(Shifted(v, t.score, x.error), b.score, b.error)
          = [score |-> (n + a) + c, error |-> (o + e) + f, last |-> v.last,
             jumped |-> << >>, suffix |-> v.suffix]
    BY <2>1, <2>4 DEF Shifted
  <2>6. Shifted(v, b.score + t.score, b.error + x.error)
          = [score |-> n + (c + a), error |-> o + (f + e), last |-> v.last,
             jumped |-> << >>, suffix |-> v.suffix]
    BY <2>1 DEF Shifted
  <2>7. QED
    BY <2>3, <2>5, <2>6
<1>10. QED
  BY <1>8, <1>9

(* A completion is the end of a way. *)
LEMMA CompletionLeads ==
  ASSUME NEW g \in Graphs, NEW r \in PlainRequests, NEW part \in SUBSET Words,
         NEW s \in States(g), NEW b \in PlainPath, b.matched \in 0 .. Len(r.tokens) - 1,
         PathLeads(g, r.tokens, s, b), NEW k \in DOMAIN g.trans[s],
         NEW y \in DOMAIN MatchesOf(g, r, part, s, b.matched, k),
         NEW x, x = MatchesOf(g, r, part, s, b.matched, k)[y], x.pm = Len(r.tokens)
  PROVE  EndAt(g, s, k, x.tm, b.score + g.trans[s][k].score + g.fscore[g.trans[s][k].to],
               b.error + x.error) \in Onward(g, r, part, 0, 0)
<1> DEFINE t == g.trans[s][k]
           f == g.fscore[t.to]
           w == EndAt(g, s, k, x.tm, t.score + f, x.error)
<1>1. /\ t.score \in Int /\ f \in Int /\ r.tokens \in Seq(Words) /\ Len(r.tokens) \in Nat
      /\ b.score \in Int /\ b.error \in Nat /\ b.matched \in Nat
  BY TransFacts, Tokens, PathWorth
<1>2. x.error \in Nat
  <2>1. AreMatches(MatchesOf(g, r, part, s, b.matched, k), g, r.tokens, b.matched, s, k)
    BY <1>1, MatchFacts DEF MatchesOf
  <2>2. QED
    BY <2>1 DEF AreMatches
<1>3. w \in Onward(g, r, part, s, b.matched)
  <2>1. BeginsWith(g, r, part, s, b.matched, k, y, w)
    BY DEF BeginsWith
  <2>2. QED
    BY <2>1, WayKinds
<1>4. Shifted(w, b.score, b.error) \in Onward(g, r, part, 0, 0)
  <2>1. SameTokens(r.tokens, r.tokens, b.matched) /\ b.matched < Len(r.tokens)
    BY <1>1 DEF SameTokens
  <2>2. QED
    BY <1>3, <2>1 DEF PathLeads, LeadsOn
<1>5. Shifted(w, b.score, b.error)
        = EndAt(g, s, k, x.tm, b.score + t.score + f, b.error + x.error)
  <2>1. PICK a, e, c, h, n : /\ a = t.score /\ e = x.error /\ c = b.score /\ h = b.error
                             /\ n = f
    OBVIOUS
  <2>2. a \in Int /\ e \in Nat /\ c \in Int /\ h \in Nat /\ n \in Int
    BY <1>1, <1>2, <2>1
  <2>3. (a + n) + c = c + a + n /\ e + h = h + e
    BY <2>2
  <2>4. Shifted(EndAt(g, s, k, x.tm, a + n, e), c, h)
          = EndAt(g, s, k, x.tm, (a + n) + c, e + h)
    BY DEF Shifted, EndAt
  <2>5. w = EndAt(g, s, k, x.tm, a + n, e)
    BY <2>1
  <2>6. QED
    BY <2>1, <2>3, <2>4, <2>5
<1>6. QED
  BY <1>4, <1>5

(* It is worth more than what the search starts with. *)
LEMMA WayWorth ==
  ASSUME NEW g \in Graphs, NEW r \in PlainRequests, NEW part \in SUBSET Words,
         NEW w \in Onward(g, r, part, 0, 0)
  PROVE  Plain!Worth(w.score, w.error) > MinScore
<1>1. w \in Plain!Promise!Ways(g, r.tokens, r.space, part)
  BY DEF Onward, WaysOf, Plain!Promise!Ways
<1>2. Plain!Promise!Worth(w) > MinScore
  BY <1>1, ClassesAssumption DEF Plain!MinScoreAssumption
<1>3. QED
  BY <1>2 DEF Plain!Promise!Worth, Plain!Worth

(* The matches of the transition the loop is at. *)
MatchesNow ==
  StrictMatches(prefix, Plain!Back.matched, Plain!Trans.output, partial, space)

GoesOn(x) ==
  /\ Plain!Continue(x) \in PlainPath /\ PathLeads(graph, prefix, Plain!Trans.to, Plain!Continue(x))
  /\ Plain!Continue(x).matched = x.pm
  /\ WorthOf(Plain!Continue(x))
       = Plain!Worth(Plain!Back.score + Plain!Trans.score, Plain!Back.error + x.error)

EndsHere(x) ==
  /\ Sensible(x) /\ EndLeads(Plain!Completion(x), ErrorOf(x))
  /\ WorthAtEnd(x) = Plain!Worth(Plain!Back.score + Plain!Trans.score
                                   + graph.fscore[Plain!Trans.to], Plain!Back.error + x.error)

LEMMA PlainMatchTypes ==
  ASSUME PlainInv, Plain!AtBack, cur.ti <= Len(graph.trans[cur.st]),
         NEW y \in DOMAIN MatchesNow, NEW x, x = MatchesNow[y]
  PROVE  /\ x.pm \in Nat /\ x.pm <= Len(prefix)
         /\ Continues(x) => GoesOn(x)
         /\ Completes(x) => EndsHere(x)
<1> DEFINE s == cur.st
           k == cur.ti
           b == Plain!Back
           t == Plain!Trans
<1>1. /\ pc = "search" /\ graph \in Graphs /\ s \in States(graph)
      /\ cur.bi \in DOMAIN back[s] /\ b = back[s][cur.bi] /\ b \in PlainPath
      /\ b.matched \in 0 .. Len(prefix) - 1 /\ k \in DOMAIN graph.trans[s] /\ k \in Nat \ {0}
  BY PlainCur
<1>2. t = graph.trans[s][k]
  BY DEF Plain!Trans
<1>3. partial \in SUBSET Words /\ prefix \in Seq(Words) /\ \E r : NowAsked(r)
  BY <1>1 DEF PlainInv, PlainTyped
<1>4. PathLeads(graph, prefix, s, b)
  BY <1>1 DEF PlainInv, PlainLeads
<1> HIDE DEF s, k, b, t
<1>5. /\ t.to \in States(graph) /\ t.score \in Int /\ t.output \in Seq(Words)
      /\ graph.fscore[t.to] \in Int /\ s \in Nat
  BY <1>1, <1>2, TransFacts
<1>6. b.score \in Int /\ b.error \in Nat /\ b.matched \in Nat
  BY <1>1, PathWorth
<1>7. MatchesNow = StrictMatches(prefix, b.matched, graph.trans[s][k].output, partial, space)
  BY <1>2 DEF MatchesNow, b, t
<1>8. x.error \in Nat /\ x.pm \in b.matched + 1 .. Len(prefix) /\ x.tm \in Nat
  <2>1. AreMatches(MatchesNow, graph, prefix, b.matched, s, k)
    BY <1>1, <1>3, <1>7, MatchFacts
  <2>2. x.error \in Nat /\ x.pm \in b.matched + 1 .. Len(prefix)
        /\ x.tm \in 0 .. Len(graph.trans[s][k].output)
    BY <2>1 DEF AreMatches
  <2>3. QED
    BY <2>2
<1>9. x.pm \in Nat /\ x.pm <= Len(prefix)
  BY <1>3, <1>6, <1>8
<1>10. ASSUME Continues(x) PROVE GoesOn(x)
  <2>1. PICK sc, er : sc = b.score + t.score /\ er = b.error + x.error
    OBVIOUS
  <2>2. sc \in Int /\ er \in Nat
    <3>1. b.score \in Int /\ t.score \in Int /\ b.error \in Nat /\ x.error \in Nat
      BY ONLY <1>5, <1>6, <1>8
    <3>2. QED
      BY ONLY <2>1, <3>1
  <2>3. Plain!Continue(x) = [score |-> sc, error |-> er, matched |-> x.pm,
                             bstate |-> s, bmatched |-> b.matched, tr |-> k]
    BY <2>1 DEF Plain!Continue, s, k, b, t
  <2>4. Plain!Continue(x) \in PlainPath
    <3>1. s \in Int /\ k \in Nat
      BY <1>1, <1>5
    <3>2. QED
      BY <1>6, <1>9, <2>2, <2>3, <3>1 DEF PlainPath
  <2>5. LeadsOn(graph, prefix, t.to, x.pm, sc, er)
    <3>1. x.pm < Len(prefix)
      BY <1>10 DEF Continues
    <3>2. LeadsOn(graph, prefix, graph.trans[s][k].to, x.pm,
                  b.score + graph.trans[s][k].score, b.error + x.error)
      BY <1>1, <1>3, <1>4, <1>7, <3>1, ContinuedLeads
    <3>3. QED
      BY <1>2, <2>1, <3>2
  <2>6. PathLeads(graph, prefix, t.to, Plain!Continue(x))
    BY <2>3, <2>5 DEF PathLeads
  <2>7. WorthOf(Plain!Continue(x)) = Plain!Worth(sc, er)
    BY <2>3 DEF WorthOf
  <2>8. QED
    BY <2>1, <2>3, <2>4, <2>6, <2>7 DEF GoesOn, b, t
<1>11. ASSUME Completes(x) PROVE EndsHere(x)
  <2>1. PICK sc, er : sc = b.score + t.score + graph.fscore[t.to] /\ er = b.error + x.error
    OBVIOUS
  <2>2. sc \in Int /\ er \in Nat
    BY <1>5, <1>6, <1>8, <2>1
  <2>3. Plain!Completion(x) = [score |-> sc, from |-> s, tr |-> k, tm |-> x.tm,
                               bmatched |-> b.matched]
        /\ ErrorOf(x) = er
    BY <2>1 DEF Plain!Completion, ErrorOf, s, k, b, t
  <2>4. Plain!Completion(x) \in EndType
    <3>1. s \in Int /\ k \in Nat
      BY <1>1, <1>5
    <3>2. QED
      BY <1>6, <1>8, <2>2, <2>3, <3>1 DEF EndType
  <2>5. ASSUME NEW r, NowAsked(r)
        PROVE  EndAt(graph, s, k, x.tm, sc, er) \in Onward(graph, r, partial, 0, 0)
    <3>1. r \in PlainRequests /\ r.tokens = prefix /\ r.space = space
      BY <2>5 DEF NowAsked
    <3>2. MatchesNow = MatchesOf(graph, r, partial, s, b.matched, k)
      BY <1>7, <3>1 DEF MatchesOf
    <3>3. x.pm = Len(r.tokens) /\ b.matched \in 0 .. Len(r.tokens) - 1
          /\ PathLeads(graph, r.tokens, s, b)
      BY <1>1, <1>4, <1>11, <3>1 DEF Completes
    <3>4. EndAt(graph, s, k, x.tm,
                b.score + graph.trans[s][k].score + graph.fscore[graph.trans[s][k].to],
                b.error + x.error) \in Onward(graph, r, partial, 0, 0)
      BY <1>1, <1>3, <3>1, <3>2, <3>3, CompletionLeads
    <3>5. QED
      BY <1>2, <2>1, <3>4
  <2>6. EndLeads(Plain!Completion(x), ErrorOf(x))
    BY <2>3, <2>5 DEF EndLeads
  <2>7. WorthAtEnd(x) = Plain!Worth(sc, er)
    BY <2>3 DEF WorthAtEnd
  <2>8. Plain!Worth(sc, er) > MinScore
    <3>1. PICK r : NowAsked(r)
      BY <1>3
    <3>2. PICK w : w = EndAt(graph, s, k, x.tm, sc, er)
      OBVIOUS
    <3>3. w \in Onward(graph, r, partial, 0, 0) /\ r \in PlainRequests
      BY <2>5, <3>1, <3>2 DEF NowAsked
    <3>4. Plain!Worth(w.score, w.error) > MinScore
      BY <1>1, <1>3, <3>3, WayWorth
    <3>5. w.score = sc /\ w.error = er
      BY <3>2 DEF EndAt
    <3>6. QED
      BY <3>4, <3>5
  <2>9. Sensible(x)
    BY <2>2, <2>3, <2>4, <2>7, <2>8 DEF Sensible
  <2>10. QED
    BY <2>1, <2>6, <2>7, <2>9 DEF EndsHere, b, t
<1>12. QED
  BY <1>9, <1>10, <1>11

(* The types of the matches as sequences. *)
LEMMA MatchesNowSeq ==
  ASSUME PlainInv, Plain!AtBack, cur.ti <= Len(graph.trans[cur.st])
  PROVE  /\ Len(MatchesNow) \in Nat /\ DOMAIN MatchesNow = 1 .. Len(MatchesNow)
         /\ MatchesNow = Plain!string_edit_distance(prefix, Plain!Back.matched,
                                                    Plain!Trans.output, partial, space)
<1>1. /\ graph \in Graphs /\ cur.st \in States(graph) /\ prefix \in Seq(Words)
      /\ Plain!Back.matched \in 0 .. Len(prefix) - 1 /\ cur.ti \in DOMAIN graph.trans[cur.st]
  BY PlainCur DEF PlainInv, PlainTyped
<1>2. MatchesNow \in Seq(MatchType(prefix, Plain!Back.matched, Plain!Trans.output))
  BY <1>1, MatchFacts DEF MatchesNow, Plain!Trans
<1>3. QED
  BY <1>2, PlainMatches DEF MatchesNow

(* Everything that is recorded and completed with the matches of a         *)
(* transition.                                                             *)
LEMMA PlainGained ==
  ASSUME PlainInv, Plain!process_matches
  PROVE  /\ back' = [back EXCEPT ![Plain!Trans.to] = Plain!AllRecorded(@, MatchesNow)]
         /\ LET R == Plain!AllRecorded(back[Plain!Trans.to], MatchesNow)
            IN  /\ R \in Seq(PlainPath)
                /\ \A x \in DOMAIN R :
                     \/ \E y \in DOMAIN back[Plain!Trans.to] : R[x] = back[Plain!Trans.to][y]
                     \/ \E y \in 1 .. Len(MatchesNow) :
                          Continues(MatchesNow[y]) /\ R[x] = Plain!Continue(MatchesNow[y])
                /\ KeepsWorth(back[Plain!Trans.to], R)
                /\ \A y \in 1 .. Len(MatchesNow) : Continues(MatchesNow[y])
                     => HasWorth(R, MatchesNow[y].pm, WorthOf(Plain!Continue(MatchesNow[y])))
         /\ best' \in BestType /\ bestScore' \in Int /\ bestScore' >= bestScore
         /\ Topped(best', bestScore')
         /\ \A e \in DOMAIN best' :
              \/ e \in DOMAIN best /\ best'[e] = best[e]
              \/ \E y \in 1 .. Len(MatchesNow) :
                   /\ Completes(MatchesNow[y]) /\ e = ErrorOf(MatchesNow[y])
                   /\ best'[e] = Plain!Completion(MatchesNow[y])
         /\ \A y \in 1 .. Len(MatchesNow) :
              Completes(MatchesNow[y]) => WorthAtEnd(MatchesNow[y]) <= bestScore'
<1> DEFINE E == MatchesNow
           to == Plain!Trans.to
<1>1. Plain!AtBack /\ cur.ti <= Len(graph.trans[cur.st])
  BY DEF Plain!process_matches
<1>2. Len(E) \in Nat /\ DOMAIN E = 1 .. Len(E)
      /\ E = Plain!string_edit_distance(prefix, Plain!Back.matched, Plain!Trans.output, partial, space)
  BY <1>1, MatchesNowSeq
<1>3. PICK found :
        /\ back' = [back EXCEPT ![to] = Plain!AllRecorded(@, E)]
        /\ found = Plain!AllCompleted([best |-> best, score |-> bestScore], E)
        /\ best' = found.best /\ bestScore' = found.score
  BY <1>2 DEF Plain!process_matches
<1>4. /\ pc = "search" /\ graph \in Graphs /\ cur.st \in States(graph)
      /\ cur.ti \in DOMAIN graph.trans[cur.st]
  BY <1>1, PlainCur
<1>5. to \in States(graph)
  BY <1>4, TransFacts DEF Plain!Trans
<1>6. /\ back \in [States(graph) -> Seq(PlainPath)] /\ best \in BestType /\ bestScore \in Int
      /\ Topped(best, bestScore)
  BY <1>4 DEF PlainInv, PlainTyped
<1>7. ASSUME NEW y \in 1 .. Len(E)
      PROVE  /\ Continues(E[y]) => Plain!Continue(E[y]) \in PlainPath
             /\ Completes(E[y]) => Sensible(E[y])
  <2>1. PICK x : x = MatchesNow[y]
    OBVIOUS
  <2>2. y \in DOMAIN MatchesNow
    BY <1>2, <1>7
  <2>3. /\ Continues(x) => GoesOn(x)
        /\ Completes(x) => EndsHere(x)
    BY <1>1, <2>1, <2>2, PlainMatchTypes
  <2>4. QED
    BY <2>1, <2>3 DEF GoesOn, EndsHere
<1> HIDE DEF E, to
<1>8. PICK seq : seq = back[to] /\ seq \in Seq(PlainPath)
  BY <1>5, <1>6
<1>9. RecordedWell(seq, E, Plain!AllRecorded(seq, E))
  <2>1. \A y \in 1 .. Len(E) : Continues(E[y]) => Plain!Continue(E[y]) \in PlainPath
    BY <1>7
  <2>2. QED
    BY ONLY <1>2, <1>8, <2>1, AllRecordedShape
<1>10. PICK start : start = [best |-> best, score |-> bestScore]
  OBVIOUS
<1>11. start \in FoundType /\ start.best = best /\ start.score = bestScore
       /\ Topped(start.best, start.score)
  BY <1>6, <1>10 DEF FoundType
<1>12. LET after == Plain!AllCompleted(start, E)
       IN  /\ after \in FoundType /\ Topped(after.best, after.score)
           /\ after.score >= start.score
           /\ \A e \in DOMAIN after.best :
                \/ e \in DOMAIN start.best /\ after.best[e] = start.best[e]
                \/ \E y \in 1 .. Len(E) : Completes(E[y]) /\ e = ErrorOf(E[y])
                                           /\ after.best[e] = Plain!Completion(E[y])
           /\ \A y \in 1 .. Len(E) : Completes(E[y]) => WorthAtEnd(E[y]) <= after.score
  <2>1. \A y \in 1 .. Len(E) : Completes(E[y]) => Sensible(E[y])
    BY <1>7
  <2>2. MinScore \in Int
    BY NumberTypes
  <2>3. QED
    BY ONLY <1>2, <1>11, <2>1, <2>2, AllCompletedShape
<1>13. found = Plain!AllCompleted(start, E)
  BY <1>3, <1>10
<1>14. /\ found \in FoundType /\ Topped(found.best, found.score) /\ found.score >= bestScore
       /\ \A e \in DOMAIN found.best :
            \/ e \in DOMAIN best /\ found.best[e] = best[e]
            \/ \E y \in 1 .. Len(E) : Completes(E[y]) /\ e = ErrorOf(E[y])
                                       /\ found.best[e] = Plain!Completion(E[y])
       /\ \A y \in 1 .. Len(E) : Completes(E[y]) => WorthAtEnd(E[y]) <= found.score
  BY <1>11, <1>12, <1>13
<1>15. found.best \in BestType /\ found.score \in Int
  BY <1>14 DEF FoundType
<1>16. /\ best' \in BestType /\ bestScore' \in Int /\ bestScore' >= bestScore
       /\ Topped(best', bestScore')
       /\ \A e \in DOMAIN best' :
            \/ e \in DOMAIN best /\ best'[e] = best[e]
            \/ \E y \in 1 .. Len(E) :
                 /\ Completes(E[y]) /\ e = ErrorOf(E[y])
                 /\ best'[e] = Plain!Completion(E[y])
       /\ \A y \in 1 .. Len(E) : Completes(E[y]) => WorthAtEnd(E[y]) <= bestScore'
  BY <1>3, <1>14, <1>15
<1>17. LET R == Plain!AllRecorded(back[to], E)
       IN  /\ R \in Seq(PlainPath)
           /\ \A x \in DOMAIN R :
                \/ \E y \in DOMAIN back[to] : R[x] = back[to][y]
                \/ \E y \in 1 .. Len(E) : Continues(E[y]) /\ R[x] = Plain!Continue(E[y])
           /\ KeepsWorth(back[to], R)
           /\ \A y \in 1 .. Len(E) :
                Continues(E[y]) => HasWorth(R, E[y].pm, WorthOf(Plain!Continue(E[y])))
  BY ONLY <1>8, <1>9 DEF RecordedWell
<1>18. QED
  BY <1>3, <1>16, <1>17 DEF E, to

-------------------------------------------------------------------------
(* The invariant is kept.                                                *)

(* What the loop has come by after a step that leaves the request alone.   *)
ComeByNext(s, x, k) ==
  \/ s < cur'.st
  \/ s = cur'.st /\ x < cur'.bi
  \/ s = cur'.st /\ x = cur'.bi /\ k < cur'.ti

GivenUpNext(s, b) == graph.fscore[s] + WorthOf(b) <= bestScore'

TakenCareNext(b, t, z) ==
  IF z.pm < Len(prefix)
    THEN HasWorth(back'[t.to], z.pm, Plain!Worth(b.score + t.score, b.error + z.error))
    ELSE Plain!Worth(b.score + t.score + graph.fscore[t.to], b.error + z.error) <= bestScore'

TriedNext(s, b, k) ==
  \A y \in DOMAIN StrictMatches(prefix, b.matched, graph.trans[s][k].output, partial, space) :
    TakenCareNext(b, graph.trans[s][k],
              StrictMatches(prefix, b.matched, graph.trans[s][k].output, partial, space)[y])

LEMMA ExploredNext ==
  ASSUME UNCHANGED << graph, prefix, space, partial >>,
         \A s \in States(graph) : \A x \in DOMAIN back'[s], k \in DOMAIN graph.trans[s] :
           ComeByNext(s, x, k) => GivenUpNext(s, back'[s][x]) \/ TriedNext(s, back'[s][x], k)
  PROVE  PlainExplored'
<1>1. graph' = graph /\ prefix' = prefix /\ space' = space /\ partial' = partial
  OBVIOUS
<1>2. ASSUME NEW s, NEW x, NEW k PROVE ComeBy(s, x, k)' <=> ComeByNext(s, x, k)
  BY DEF ComeBy, ComeByNext
<1>3. ASSUME NEW s, NEW x PROVE GivenUp(s, back[s][x])' <=> GivenUpNext(s, back'[s][x])
  BY <1>1 DEF GivenUp, GivenUpNext
<1>4. ASSUME NEW s, NEW x, NEW k PROVE Tried(s, back[s][x], k)' <=> TriedNext(s, back'[s][x], k)
  BY <1>1 DEF Tried, TriedNext, TakenCare, TakenCareNext
<1>5. QED
  BY <1>1, <1>2, <1>3, <1>4 DEF PlainExplored

(* All of that taken together. *)
LEMMA PlainMatchStep ==
  ASSUME PlainInv, Plain!process_matches
  PROVE  PlainInv'
<1> DEFINE E == MatchesNow
           to == Plain!Trans.to
           R == Plain!AllRecorded(back[to], E)
           st == cur.st
           bi == cur.bi
           ti == cur.ti
<1>1. /\ Plain!AtBack /\ ti <= Len(graph.trans[st])
      /\ cur' = [cur EXCEPT !.ti = @ + 1]
      /\ UNCHANGED << graph, prefix, space, partial, pc, answer >>
  BY DEF Plain!process_matches, Plain!requestVars
<1>2. /\ pc = "search" /\ graph \in Graphs /\ st \in States(graph)
      /\ bi \in DOMAIN back[st] /\ Plain!Back = back[st][bi]
      /\ ti \in DOMAIN graph.trans[st] /\ ti \in Nat \ {0} /\ bi \in Nat \ {0}
  BY <1>1, PlainCur
<1>3. to \in States(graph) /\ to > st /\ st \in Nat /\ to \in Nat
      /\ graph.trans[st][ti] = Plain!Trans
      /\ \A s \in States(graph) : s \in Nat
  <2>1. graph.trans[st][ti] = Plain!Trans
    BY DEF Plain!Trans
  <2>2. States(graph) = 0 .. graph.n - 1 /\ graph.n \in Nat
    BY <1>2, PlainGraph
  <2>3. QED
    BY <1>2, <2>1, <2>2, TransFacts
<1>4. /\ prefix \in Seq(Words) /\ back \in [States(graph) -> Seq(PlainPath)]
      /\ bestScore \in Int /\ \E r : NowAsked(r)
  BY <1>2 DEF PlainInv, PlainTyped
<1>5. Len(E) \in Nat /\ DOMAIN E = 1 .. Len(E)
  BY <1>1, MatchesNowSeq
<1>6. ASSUME NEW y \in 1 .. Len(E)
      PROVE  /\ E[y].pm \in Nat /\ E[y].pm <= Len(prefix)
             /\ Continues(E[y]) => GoesOn(E[y])
             /\ Completes(E[y]) => EndsHere(E[y])
  <2>1. PICK x : x = MatchesNow[y]
    OBVIOUS
  <2>2. y \in DOMAIN MatchesNow
    BY <1>5, <1>6
  <2>3. /\ x.pm \in Nat /\ x.pm <= Len(prefix)
        /\ Continues(x) => GoesOn(x)
        /\ Completes(x) => EndsHere(x)
    BY <1>1, <2>1, <2>2, PlainMatchTypes
  <2>4. QED
    BY <2>1, <2>3
<1>7. /\ back' = [back EXCEPT ![to] = R]
      /\ R \in Seq(PlainPath)
      /\ \A x \in DOMAIN R :
           \/ \E y \in DOMAIN back[to] : R[x] = back[to][y]
           \/ \E y \in 1 .. Len(E) : Continues(E[y]) /\ R[x] = Plain!Continue(E[y])
      /\ KeepsWorth(back[to], R)
      /\ \A y \in 1 .. Len(E) :
           Continues(E[y]) => HasWorth(R, E[y].pm, WorthOf(Plain!Continue(E[y])))
  BY PlainGained
<1>8. /\ best' \in BestType /\ bestScore' \in Int /\ bestScore' >= bestScore
      /\ Topped(best', bestScore')
      /\ \A e \in DOMAIN best' :
           \/ e \in DOMAIN best /\ best'[e] = best[e]
           \/ \E y \in 1 .. Len(E) :
                /\ Completes(E[y]) /\ e = ErrorOf(E[y])
                /\ best'[e] = Plain!Completion(E[y])
      /\ \A y \in 1 .. Len(E) : Completes(E[y]) => WorthAtEnd(E[y]) <= bestScore'
  BY PlainGained
<1> HIDE DEF E, R, to
<1>9. /\ back' \in [States(graph) -> Seq(PlainPath)] /\ back'[to] = R
      /\ \A s \in States(graph) : s # to => back'[s] = back[s]
  BY <1>3, <1>4, <1>7
<1>10. /\ cur'.st = st /\ cur'.bi = bi /\ cur'.ti = ti + 1
       /\ cur' \in [st : 0 .. graph.n, bi : Nat \ {0}, ti : Nat \ {0}]
  <2>1. cur \in [st : 0 .. graph.n, bi : Nat \ {0}, ti : Nat \ {0}]
    BY DEF PlainInv, PlainTyped
  <2>2. QED
    BY <1>1, <2>1
<1> HIDE DEF st, bi, ti
<1>11. PlainTyped'
  BY <1>1, <1>2, <1>8, <1>9, <1>10 DEF PlainInv, PlainTyped, NowAsked
(* The paths to where the transition leads. *)
<1>12. ASSUME NEW x \in DOMAIN R
       PROVE  R[x].matched < Len(prefix) /\ PathLeads(graph, prefix, to, R[x])
  <2>1. CASE \E y \in DOMAIN back[to] : R[x] = back[to][y]
    BY <1>3, <2>1 DEF PlainInv, PlainOpen, PlainLeads
  <2>2. CASE \E y \in 1 .. Len(E) : Continues(E[y]) /\ R[x] = Plain!Continue(E[y])
    <3>1. PICK y \in 1 .. Len(E) : Continues(E[y]) /\ R[x] = Plain!Continue(E[y])
      BY <2>2
    <3>2. GoesOn(E[y]) /\ E[y].pm < Len(prefix)
      BY <1>6, <3>1 DEF Continues
    <3>3. QED
      BY <3>1, <3>2 DEF GoesOn, to
  <2>3. QED
    BY <1>7, <2>1, <2>2
<1>13. PlainOpen' /\ PlainLeads'
  <2>1. ASSUME NEW s \in States(graph), NEW x \in DOMAIN back'[s]
        PROVE  back'[s][x].matched < Len(prefix) /\ PathLeads(graph, prefix, s, back'[s][x])
    <3>1. CASE s = to
      BY <1>9, <1>12, <3>1
    <3>2. CASE s # to
      BY <1>9, <3>2 DEF PlainInv, PlainOpen, PlainLeads
    <3>3. QED
      BY <3>1, <3>2
  <2>2. QED
    BY <1>1, <2>1 DEF PlainOpen, PlainLeads
<1>14. PlainEnds'
  <2> SUFFICES ASSUME NEW e \in DOMAIN best' PROVE EndLeads(best'[e], e)
    BY <1>1 DEF PlainEnds, EndLeads, NowAsked
  <2>1. CASE e \in DOMAIN best /\ best'[e] = best[e]
    BY <1>2, <2>1 DEF PlainInv, PlainEnds
  <2>2. CASE \E y \in 1 .. Len(E) : /\ Completes(E[y]) /\ e = ErrorOf(E[y])
                                    /\ best'[e] = Plain!Completion(E[y])
    BY <1>6, <2>2 DEF EndsHere
  <2>3. QED
    BY <1>8, <2>1, <2>2
<1>15. PlainBegun'
  <2>1. 0 \in States(graph) /\ 0 # to
    BY <1>2, <1>3, PlainGraph
  <2>2. QED
    BY <1>2, <1>9, <2>1 DEF PlainInv, PlainBegun
<1>16. PlainExplored'
  <2> SUFFICES ASSUME NEW s \in States(graph), NEW x \in DOMAIN back'[s],
                      NEW k \in DOMAIN graph.trans[s], ComeByNext(s, x, k)
               PROVE  GivenUpNext(s, back'[s][x]) \/ TriedNext(s, back'[s][x], k)
    BY <1>1, ExploredNext
  <2>1. s <= st /\ s # to /\ back'[s] = back[s] /\ x \in DOMAIN back[s] /\ k \in Nat
    <3>1. s <= st /\ s # to
      <4>1. s \in Nat /\ (s < cur'.st \/ s = cur'.st)
        BY <1>3 DEF ComeByNext
      <4>2. cur'.st = st /\ st \in Nat /\ to \in Nat /\ to > st
        BY <1>3, <1>10
      <4>3. QED
        BY <4>1, <4>2
    <3>2. k \in Nat
      BY <1>2, TransFacts
    <3>3. QED
      BY <1>9, <3>1, <3>2
  <2>2. PICK b : b = back[s][x] /\ b \in PlainPath
    BY <1>4, <2>1
  <2>3. WorthOf(b) \in Int /\ b.score \in Int /\ b.error \in Nat /\ graph.fscore[s] \in Int
    BY <1>2, <2>2, PathWorth, PlainGraph DEF GraphType
  <2>4. CASE ComeBy(s, x, k)
    <3>1. GivenUp(s, b) \/ Tried(s, b, k)
      BY <1>2, <2>1, <2>2, <2>4 DEF PlainInv, PlainExplored
    <3>2. CASE GivenUp(s, b)
      <4>1. graph.fscore[s] + WorthOf(b) <= bestScore'
        BY <1>4, <1>8, <2>3, <3>2 DEF GivenUp
      <4>2. QED
        BY <2>1, <2>2, <4>1 DEF GivenUpNext
    <3>3. CASE Tried(s, b, k)
      <4> DEFINE t == graph.trans[s][k]
                 F == StrictMatches(prefix, b.matched, t.output, partial, space)
      <4>1. /\ t.to \in States(graph) /\ t.score \in Int /\ graph.fscore[t.to] \in Int
        BY <1>2, TransFacts
      <4>2. ASSUME NEW y \in DOMAIN F, F[y].error \in Nat PROVE TakenCareNext(b, t, F[y])
        <5>1. TakenCare(b, t, F[y])
          BY <3>3 DEF Tried
        <5>2. PICK z, sc, er, all : /\ z = F[y] /\ sc = b.score + t.score /\ er = b.error + z.error
                                    /\ all = b.score + t.score + graph.fscore[t.to]
          OBVIOUS
        <5>3. sc \in Int /\ er \in Int /\ all \in Int
          <6>1. z.error \in Nat
            BY ONLY <4>2, <5>2
          <6>2. PICK u, v, w, e, d : /\ u = b.score /\ v = t.score /\ w = graph.fscore[t.to]
                                     /\ e = b.error /\ d = z.error
            OBVIOUS
          <6>3. u \in Int /\ v \in Int /\ w \in Int /\ e \in Nat /\ d \in Nat
            BY ONLY <2>3, <4>1, <6>1, <6>2
          <6>4. sc = u + v /\ er = e + d /\ all = u + v + w
            BY ONLY <5>2, <6>2
          <6>5. QED
            BY ONLY <6>3, <6>4
        <5>4. Plain!Worth(sc, er) \in Int /\ Plain!Worth(all, er) \in Int
          <6>1. Plain!Worth(sc, er) \in Int
            BY ONLY <5>3, WorthInt
          <6>2. Plain!Worth(all, er) \in Int
            BY ONLY <5>3, WorthInt
          <6>3. QED
            BY ONLY <6>1, <6>2
        <5>5. IF z.pm < Len(prefix) THEN HasWorth(back[t.to], z.pm, Plain!Worth(sc, er))
                                    ELSE Plain!Worth(all, er) <= bestScore
          BY <5>1, <5>2 DEF TakenCare
        <5> HIDE DEF t, F
        <5>6. IF z.pm < Len(prefix) THEN HasWorth(back'[t.to], z.pm, Plain!Worth(sc, er))
                                    ELSE Plain!Worth(all, er) <= bestScore'
          <6>1. CASE z.pm < Len(prefix)
            <7>1. HasWorth(back[t.to], z.pm, Plain!Worth(sc, er))
              BY <5>5, <6>1
            <7>2. CASE t.to = to
              BY <1>7, <1>9, <5>4, <6>1, <7>1, <7>2 DEF KeepsWorth
            <7>3. CASE t.to # to
              BY <1>9, <4>1, <6>1, <7>1, <7>3
            <7>4. QED
              BY <7>2, <7>3
          <6>2. CASE ~ (z.pm < Len(prefix))
            <7>1. Plain!Worth(all, er) <= bestScore
              BY <5>5, <6>2
            <7>2. PICK w : w = Plain!Worth(all, er) /\ w \in Int
              BY <5>4
            <7>3. w <= bestScore'
              BY <1>4, <1>8, <7>1, <7>2
            <7>4. QED
              BY <6>2, <7>2, <7>3
          <6>3. QED
            BY <6>1, <6>2
        <5>7. QED
          BY <5>2, <5>6 DEF TakenCareNext
      <4>3. ASSUME NEW y \in DOMAIN F PROVE F[y].error \in Nat
        <5>1. b.matched \in 0 .. Len(prefix) - 1
          <6>1. b.matched < Len(prefix)
            BY <2>1, <2>2 DEF PlainInv, PlainOpen
          <6>2. b.matched \in Nat /\ Len(prefix) \in Nat
            BY <1>4, <2>2, PathWorth
          <6>3. QED
            BY <6>1, <6>2
        <5>2. AreMatches(F, graph, prefix, b.matched, s, k)
          BY <1>2, <1>4, <5>1, MatchFacts
        <5>3. QED
          BY <5>2 DEF AreMatches
      <4>4. \A y \in DOMAIN F : TakenCareNext(b, t, F[y])
        BY <4>2, <4>3
      <4> HIDE DEF F
      <4>5. TriedNext(s, b, k)
        BY <4>4 DEF TriedNext, F
      <4>6. QED
        BY <2>1, <2>2, <4>5
    <3>4. QED
      BY <3>1, <3>2, <3>3
  <2>5. CASE ~ ComeBy(s, x, k)
    <3>1. s = st /\ x = bi /\ k = ti
      <4>1. s = st /\ x = bi /\ k < ti + 1 /\ ~ (k < ti)
        BY <1>10, <2>5 DEF ComeBy, ComeByNext, st, bi, ti
      <4>2. QED
        BY <1>2, <2>1, <4>1
    <3>2. b = Plain!Back /\ graph.trans[s][k] = Plain!Trans
      BY <1>2, <1>3, <2>2, <3>1
    <3>3. ASSUME NEW y \in 1 .. Len(E) PROVE TakenCareNext(b, Plain!Trans, E[y])
      <4>1. /\ E[y].pm \in Nat /\ E[y].pm <= Len(prefix)
            /\ (Continues(E[y]) => GoesOn(E[y])) /\ (Completes(E[y]) => EndsHere(E[y]))
        BY <1>6
      <4>2. CASE E[y].pm < Len(prefix)
        <5>1. GoesOn(E[y]) /\ Continues(E[y])
          BY <4>1, <4>2 DEF Continues
        <5>2. HasWorth(back'[to], E[y].pm,
                       Plain!Worth(b.score + Plain!Trans.score, b.error + E[y].error))
          BY <1>7, <1>9, <3>2, <5>1 DEF GoesOn
        <5>3. QED
          BY <4>2, <5>2 DEF TakenCareNext, to
      <4>3. CASE ~ (E[y].pm < Len(prefix))
        <5>1. E[y].pm = Len(prefix)
          BY <1>4, <4>1, <4>3
        <5>2. EndsHere(E[y]) /\ Completes(E[y])
          BY <4>1, <5>1 DEF Completes
        <5>3. Plain!Worth(b.score + Plain!Trans.score + graph.fscore[to], b.error + E[y].error)
                <= bestScore'
          BY <1>8, <3>2, <5>2 DEF EndsHere, to
        <5>4. QED
          BY <4>3, <5>3 DEF TakenCareNext, to
      <4>4. QED
        BY <4>2, <4>3
    <3>4. E = StrictMatches(prefix, b.matched, graph.trans[s][k].output, partial, space)
      BY <3>2 DEF E, MatchesNow
    <3>5. TriedNext(s, b, k)
      <4>1. \A y \in DOMAIN E : TakenCareNext(b, graph.trans[s][k], E[y])
        BY <1>5, <3>2, <3>3
      <4>2. QED
        BY <3>4, <4>1 DEF TriedNext
    <3>6. QED
      BY <2>1, <2>2, <3>5
  <2>6. QED
    BY <2>4, <2>5
<1>17. PlainAt'
  <2>1. st < graph.n /\ bi <= Len(back[st])
    BY <1>1 DEF Plain!AtBack, Plain!AtState, st, bi
  <2>2. back'[st] = back[st]
    BY <1>2, <1>3, <1>9
  <2>3. QED
    BY <1>1, <1>10, <2>1, <2>2 DEF PlainAt
<1>18. QED
  BY <1>1, <1>8, <1>11, <1>13, <1>14, <1>15, <1>16, <1>17 DEF PlainInv

(* The rest of the loop. *)
LEMMA PlainMoveStep ==
  ASSUME PlainInv, Plain!NextBack \/ Plain!NextState
  PROVE  PlainInv'
<1>1. /\ pc = "search"
      /\ UNCHANGED << graph, prefix, space, partial, back, best, bestScore, pc, answer >>
  BY DEF Plain!NextBack, Plain!NextState, Plain!AtBack, Plain!AtState, Plain!requestVars
<1>2. /\ graph \in Graphs /\ back \in [States(graph) -> Seq(PlainPath)]
      /\ cur \in [st : 0 .. graph.n, bi : Nat \ {0}, ti : Nat \ {0}] /\ cur.st < graph.n
      /\ graph.n \in Nat
  <2>1. graph \in Graphs
    BY DEF PlainInv, PlainTyped
  <2>2. QED
    BY <2>1, PlainGraph
       DEF PlainInv, PlainTyped, Plain!NextBack, Plain!NextState, Plain!AtBack, Plain!AtState
<1>9. PICK st, bi, ti : /\ cur = [st |-> st, bi |-> bi, ti |-> ti]
                        /\ st \in 0 .. graph.n /\ bi \in Nat \ {0} /\ ti \in Nat \ {0}
                        /\ st < graph.n
  BY <1>2
<1>10. \/ /\ Plain!NextBack /\ bi <= Len(back[st])
          /\ cur' = [st |-> st, bi |-> bi + 1, ti |-> 1]
          /\ Plain!Hopeless \/ ti > Len(graph.trans[st])
       \/ /\ Plain!NextState /\ bi > Len(back[st])
          /\ cur' = [st |-> st + 1, bi |-> 1, ti |-> 1]
  <2>1. CASE Plain!NextBack
    BY <1>9, <2>1 DEF Plain!NextBack, Plain!AtBack
  <2>2. CASE Plain!NextState
    <3>1. bi > Len(back[st]) /\ cur' = [st |-> st + 1, bi |-> 1, ti |-> ti]
      BY <1>9, <2>2 DEF Plain!NextState
    <3>2. ti = 1
      <4>1. back[st] \in Seq(PlainPath)
        <5>1. st \in States(graph)
          BY <1>2, <1>9 DEF States
        <5>2. QED
          BY <1>2, <5>1
      <4>2. Len(back[st]) \in Nat
        BY <4>1
      <4>3. ti # 1 => bi <= Len(back[st])
        BY <1>1, <1>9 DEF PlainInv, PlainAt
      <4>4. QED
        BY <1>9, <3>1, <4>2, <4>3
    <3>3. QED
      BY <2>2, <3>1, <3>2
  <2>3. QED
    BY <2>1, <2>2
<1>3. cur' \in [st : 0 .. graph.n, bi : Nat \ {0}, ti : Nat \ {0}] /\ cur'.ti = 1
  <2>1. st + 1 \in 0 .. graph.n /\ bi + 1 \in Nat \ {0} /\ 1 \in Nat \ {0}
    BY <1>2, <1>9
  <2>2. QED
    BY <1>9, <1>10, <2>1
<1>4. PlainTyped'
  BY <1>1, <1>3 DEF PlainInv, PlainTyped, NowAsked
<1>5. PlainOpen' /\ PlainLeads' /\ PlainEnds' /\ PlainBegun' /\ Topped(best', bestScore')
  BY <1>1 DEF PlainInv, PlainOpen, PlainLeads, PlainEnds, EndLeads, NowAsked, PlainBegun
<1>6. ASSUME NEW s \in States(graph), NEW x \in DOMAIN back[s], NEW k \in DOMAIN graph.trans[s],
             ComeByNext(s, x, k)
      PROVE  GivenUp(s, back[s][x]) \/ Tried(s, back[s][x], k)
  <2>1. /\ s \in Nat /\ k \in Nat \ {0} /\ x \in Nat \ {0} /\ x <= Len(back[s])
        /\ k <= Len(graph.trans[s]) /\ Len(back[s]) \in Nat /\ Len(graph.trans[s]) \in Nat
    <3>1. s \in Nat /\ k \in Nat \ {0}
      BY <1>2, TransFacts
    <3>2. back[s] \in Seq(PlainPath) /\ graph.trans[s] \in Seq(TransitionType)
      BY <1>2, PlainGraph DEF GraphType
    <3>3. QED
      BY <3>1, <3>2
  <2>2. CASE ComeBy(s, x, k)
    BY <1>1, <2>2 DEF PlainInv, PlainExplored
  <2>3. CASE ~ ComeBy(s, x, k)
    <3>4. ~ (s < st \/ (s = st /\ x < bi) \/ (s = st /\ x = bi /\ k < ti))
      BY <1>9, <2>3 DEF ComeBy
    <3>1. CASE /\ bi <= Len(back[st]) /\ cur' = [st |-> st, bi |-> bi + 1, ti |-> 1]
               /\ Plain!Hopeless \/ ti > Len(graph.trans[st])
      <4>1. s < st \/ (s = st /\ x < bi + 1) \/ (s = st /\ x = bi + 1 /\ k < 1)
        BY <1>6, <3>1 DEF ComeByNext
      <4>2. s = st /\ x = bi /\ ~ (k < ti)
        BY <1>9, <2>1, <3>4, <4>1
      <4>3. Plain!Hopeless
        BY <1>9, <2>1, <3>1, <4>2
      <4>4. graph.fscore[s] + WorthOf(back[s][x]) < bestScore
        BY <1>9, <4>2, <4>3 DEF Plain!Hopeless, Plain!Back, WorthOf
      <4>5. graph.fscore[s] \in Int /\ WorthOf(back[s][x]) \in Int /\ bestScore \in Int
        <5>1. back[s][x] \in PlainPath
          BY <1>2
        <5>2. QED
          BY <1>2, <5>1, PathWorth, TransFacts DEF PlainInv, PlainTyped
      <4>6. QED
        BY <4>4, <4>5 DEF GivenUp
    <3>2. CASE bi > Len(back[st]) /\ cur' = [st |-> st + 1, bi |-> 1, ti |-> 1]
      <4>1. s < st + 1 \/ (s = st + 1 /\ x < 1) \/ (s = st + 1 /\ x = 1 /\ k < 1)
        BY <1>6, <3>2 DEF ComeByNext
      <4>2. s = st /\ ~ (x < bi)
        BY <1>9, <2>1, <3>4, <4>1
      <4>3. PICK l : l = Len(back[s])
        OBVIOUS
      <4>4. l \in Nat /\ x \in Nat /\ bi \in Nat /\ x <= l
        BY <1>9, <2>1, <4>3
      <4>5. bi > l
        BY <3>2, <4>2, <4>3
      <4>6. QED
        BY ONLY <4>2, <4>4, <4>5
    <3>3. QED
      BY <1>10, <3>1, <3>2
  <2>4. QED
    BY <2>2, <2>3
<1>7. PlainExplored'
  <2>1. ASSUME NEW s \in States(graph), NEW x \in DOMAIN back'[s], NEW k \in DOMAIN graph.trans[s],
               ComeByNext(s, x, k)
        PROVE  GivenUpNext(s, back'[s][x]) \/ TriedNext(s, back'[s][x], k)
    <3>1. x \in DOMAIN back[s] /\ back'[s][x] = back[s][x]
      BY <1>1
    <3>2. GivenUp(s, back[s][x]) \/ Tried(s, back[s][x], k)
      BY <1>6, <2>1, <3>1
    <3>3. back' = back /\ bestScore' = bestScore
      BY <1>1
    <3>4. QED
      BY <3>1, <3>2, <3>3, Zenon
         DEF GivenUp, GivenUpNext, Tried, TriedNext, TakenCare, TakenCareNext
  <2>2. QED
    BY <1>1, <2>1, ExploredNext
<1>8. QED
  BY <1>1, <1>3, <1>4, <1>5, <1>7 DEF PlainInv, PlainAt

LEMMA PlainEndStep ==
  ASSUME PlainInv, Plain!Answer \/ Plain!Fail
  PROVE  PlainInv'
<1>1. /\ pc' = "idle" /\ cur' = Plain!Start /\ best' = << >>
      /\ UNCHANGED << graph, prefix, space, partial, bestScore >>
      /\ back' = back \/ back' = [s \in Plain!States(graph) |-> << >>]
  BY DEF Plain!Answer, Plain!Fail, Plain!requestVars
<1>2. graph \in Graphs
  BY DEF PlainInv, PlainTyped
<1>3. /\ cur' \in [st : 0 .. graph.n, bi : Nat \ {0}, ti : Nat \ {0}]
  BY <1>1, <1>2, StartType
<1>4. CASE back' = back
  <2>1. PlainTyped'
    BY <1>1, <1>3, <1>4, NoCompletion DEF PlainInv, PlainTyped
  <2>2. PlainOpen' /\ PlainLeads'
    BY <1>1, <1>4 DEF PlainInv, PlainOpen, PlainLeads
  <2>3. QED
    BY <1>1, <2>1, <2>2 DEF PlainInv
<1>5. CASE back' = [s \in Plain!States(graph) |-> << >>]
  <2>1. back' \in [States(graph) -> Seq(PlainPath)] /\ \A s \in States(graph) : DOMAIN back'[s] = {}
    BY <1>2, <1>5, NothingRecorded
  <2>2. PlainTyped'
    BY <1>1, <1>3, <2>1, NoCompletion DEF PlainInv, PlainTyped
  <2>3. PlainOpen' /\ PlainLeads'
    BY <1>1, <2>1 DEF PlainOpen, PlainLeads
  <2>4. QED
    BY <1>1, <2>2, <2>3 DEF PlainInv
<1>6. QED
  BY <1>1, <1>4, <1>5

LEMMA PlainStutter ==
  ASSUME PlainInv, UNCHANGED Plain!vars
  PROVE  PlainInv'
<1>1. UNCHANGED << graph, prefix, space, partial, back, best, bestScore, pc, answer, cur >>
  BY DEF Plain!vars
<1>2. PlainTyped' /\ PlainOpen' /\ PlainLeads'
  BY <1>1 DEF PlainInv, PlainTyped, PlainOpen, PlainLeads, NowAsked
<1>3. pc = "search" => Topped(best, bestScore)' /\ PlainEnds' /\ PlainBegun'
  BY <1>1 DEF PlainInv, PlainEnds, EndLeads, NowAsked, PlainBegun, Topped
<1>4. pc = "search" => PlainExplored'
  <2>1. ASSUME pc = "search", NEW s \in States(graph), NEW x \in DOMAIN back'[s],
               NEW k \in DOMAIN graph.trans[s], ComeByNext(s, x, k)
        PROVE  GivenUpNext(s, back'[s][x]) \/ TriedNext(s, back'[s][x], k)
    <3>1. x \in DOMAIN back[s] /\ back'[s][x] = back[s][x] /\ ComeBy(s, x, k)
      BY <1>1, <2>1 DEF ComeBy, ComeByNext
    <3>2. GivenUp(s, back[s][x]) \/ Tried(s, back[s][x], k)
      BY <2>1, <3>1 DEF PlainInv, PlainExplored
    <3>3. back' = back /\ bestScore' = bestScore
      BY <1>1
    <3>4. QED
      BY <3>1, <3>2, <3>3, Zenon
         DEF GivenUp, GivenUpNext, Tried, TriedNext, TakenCare, TakenCareNext
  <2>2. QED
    BY <1>1, <2>1, ExploredNext
<1>5. pc = "search" => PlainAt'
  BY <1>1 DEF PlainInv, PlainAt
<1>6. QED
  BY <1>1, <1>2, <1>3, <1>4, <1>5 DEF PlainInv

LEMMA PlainStepKeeps ==
  ASSUME PlainInv, [Plain!Next]_(Plain!vars)
  PROVE  PlainInv'
<1>1. CASE \E g \in Graphs : Plain!createGraph(g)
  BY <1>1, PlainNewSentence
<1>2. CASE \E r \in PlainRequests : Plain!getPrefix(r)
  BY <1>2, PlainAsk
<1>3. CASE Plain!process_matches
  BY <1>3, PlainMatchStep
<1>4. CASE Plain!NextBack \/ Plain!NextState
  BY <1>4, PlainMoveStep
<1>5. CASE Plain!Answer \/ Plain!Fail
  BY <1>5, PlainEndStep
<1>6. CASE UNCHANGED Plain!vars
  BY <1>6, PlainStutter
<1>7. QED
  BY <1>1, <1>2, <1>3, <1>4, <1>5, <1>6 DEF Plain!Next, Plain!Step

PlainHolds == class = "WeightedCaitra" => PlainInv

LEMMA PlainKept ==
  ASSUME PlainHolds, [Next]_vars
  PROVE  PlainHolds'
<1>1. SUFFICES ASSUME class' = "WeightedCaitra" PROVE PlainInv'
  BY DEF PlainHolds
<1>2. CASE PlainNext
  <2>1. PlainInv /\ Plain!Next
    BY <1>2 DEF PlainNext, PlainHolds
  <2>2. QED
    BY <2>1, PlainStepKeeps
<1>3. CASE UNCHANGED vars
  <2>1. PlainInv /\ UNCHANGED Plain!vars
    BY <1>1, <1>3 DEF vars, plainMembers, Plain!vars, PlainHolds
  <2>2. QED
    BY <2>1, PlainStutter
<1>4. CASE WindowNext \/ VectorNext \/ ECNext
  BY <1>1, <1>4 DEF WindowNext, VectorNext, ECNext
<1>5. CASE LevelNext
  <2>1. class' \in LevelClasses
    BY <1>5, LevelKeepsClass DEF LevelNext
  <2>2. QED
    BY <1>1, <2>1 DEF LevelClasses
<1>6. QED
  BY <1>2, <1>3, <1>4, <1>5 DEF Next

LEMMA PlainInitially == Init => PlainHolds
<1>1. Init /\ class = "WeightedCaitra" => Plain!Init
  BY DEF Init, LevelClasses
<1>2. QED
  BY <1>1, PlainStart DEF PlainHolds

-------------------------------------------------------------------------
(* The end of the search of WeightedCaitra.                              *)

IsSum(c, a, b) == c = a + b

LEMMA WorthSum ==
  ASSUME NEW a \in Int, NEW b \in Int, NEW e \in Int, NEW f \in Int,
         NEW c, IsSum(c, a, b), NEW h, IsSum(h, e, f)
  PROVE  Plain!Worth(c, h) = Plain!Worth(a, e) + Plain!Worth(b, f)
<1>1. Plain!Worth(a + b, e + f) = Plain!Worth(a, e) + Plain!Worth(b, f)
  BY WorthAdds
<1>2. QED
  BY <1>1 DEF IsSum

(* No way through the graph is worth more than what the search found.      *)
NoneBeats(g, r, part, s, b, top) ==
  \A v \in Onward(g, r, part, s, b.matched) : WorthOf(b) + Plain!Worth(v.score, v.error) <= top

LEMMA NothingBeats ==
  ASSUME PlainInv, pc = "search", cur.st = graph.n, NEW r, NowAsked(r)
  PROVE  \A s \in States(graph) : \A x \in DOMAIN back[s] :
           NoneBeats(graph, r, partial, s, back[s][x], bestScore)
<1> DEFINE Fine(s) == \A x \in DOMAIN back[s] :
                        NoneBeats(graph, r, partial, s, back[s][x], bestScore)
           S == { n \in Nat : \A s \in States(graph) : graph.n - s = n => Fine(s) }
<1>1. /\ graph \in Graphs /\ partial \in SUBSET Words /\ prefix \in Seq(Words)
      /\ back \in [States(graph) -> Seq(PlainPath)] /\ bestScore \in Int
      /\ r \in PlainRequests /\ r.tokens = prefix /\ r.space = space
  BY DEF PlainInv, PlainTyped, NowAsked
<1>2. /\ graph.n \in Nat /\ \A s \in States(graph) : s \in Nat /\ s < graph.n
  BY <1>1, PlainGraph
<1>3. ASSUME NEW n \in Nat, \A k \in 0 .. n - 1 : k \in S PROVE n \in S
  <2> SUFFICES ASSUME NEW s \in States(graph), graph.n - s = n, NEW x \in DOMAIN back[s]
               PROVE  NoneBeats(graph, r, partial, s, back[s][x], bestScore)
    OBVIOUS
  <2>1. PICK b : b = back[s][x] /\ b \in PlainPath
    BY <1>1
  <2>2. WorthOf(b) \in Int /\ b.score \in Int /\ b.error \in Nat /\ b.matched \in Nat
    BY <2>1, PathWorth
  <2>3. b.matched \in 0 .. Len(prefix) - 1 /\ Len(prefix) \in Nat
    <3>1. b.matched < Len(prefix)
      BY <2>1 DEF PlainInv, PlainOpen
    <3>2. QED
      BY <1>1, <2>2, <3>1
  <2> SUFFICES ASSUME NEW v \in Onward(graph, r, partial, s, b.matched)
               PROVE  WorthOf(b) + Plain!Worth(v.score, v.error) <= bestScore
    BY <2>1 DEF NoneBeats
  <2>4. v \in WayType(graph)
        /\ \E k \in DOMAIN graph.trans[s] : \E y \in DOMAIN MatchesOf(graph, r, partial, s, b.matched, k) :
             BeginsWith(graph, r, partial, s, b.matched, k, y, v)
    BY <1>1, <2>3, WayKinds
  <2>12. PICK k \in DOMAIN graph.trans[s] :
           \E y \in DOMAIN MatchesOf(graph, r, partial, s, b.matched, k) :
             BeginsWith(graph, r, partial, s, b.matched, k, y, v)
    BY <2>4
  <2>5. PICK y \in DOMAIN MatchesOf(graph, r, partial, s, b.matched, k) :
             BeginsWith(graph, r, partial, s, b.matched, k, y, v)
    BY <2>12
  <2>6. GivenUp(s, b) \/ Tried(s, b, k)
    <3>1. ComeBy(s, x, k)
      BY <1>2 DEF ComeBy
    <3>2. QED
      BY <2>1, <3>1 DEF PlainInv, PlainExplored
  <2>7. v.score \in Int /\ v.error \in Nat
    BY <2>4, WayFields
  <2>8. graph.fscore[s] \in Int
    BY <1>1, PlainGraph DEF GraphType
  <2>9. CASE GivenUp(s, b)
    <3>1. v.score <= graph.fscore[s]
      BY <1>1, <2>3, WaysBounded
    <3>2. PICK a, e, f : a = v.score /\ e = v.error /\ f = graph.fscore[s]
      OBVIOUS
    <3>3. a \in Int /\ e \in Nat /\ f \in Int /\ a <= f
      BY <2>7, <2>8, <3>1, <3>2
    <3>4. Plain!Worth(a, e) <= f /\ Plain!Worth(a, e) \in Int
      <4>1. Plain!Worth(a, e) <= f
        BY <3>3, ErrorsLose
      <4>2. Plain!Worth(a, e) \in Int
        BY <3>3, WorthInt
      <4>3. QED
        BY <4>1, <4>2
    <3>5. f + WorthOf(b) <= bestScore
      BY <2>9, <3>2 DEF GivenUp
    <3>6. PICK w, u : w = Plain!Worth(a, e) /\ u = WorthOf(b)
      OBVIOUS
    <3>7. u + w <= bestScore
      BY <1>1, <2>2, <3>3, <3>4, <3>5, <3>6
    <3>8. QED
      BY <3>2, <3>6, <3>7
  <2>10. CASE Tried(s, b, k)
    <3> DEFINE t == graph.trans[s][k]
    <3>1. PICK z : z = MatchesOf(graph, r, partial, s, b.matched, k)[y]
      OBVIOUS
    <3>2. MatchesOf(graph, r, partial, s, b.matched, k)
            = StrictMatches(prefix, b.matched, t.output, partial, space)
      BY <1>1 DEF MatchesOf
    <3>3. TakenCare(b, t, z)
      BY <2>10, <3>1, <3>2 DEF Tried
    <3>4. z.error \in Nat /\ z.pm \in b.matched + 1 .. Len(prefix)
      <4>1. AreMatches(StrictMatches(prefix, b.matched, t.output, partial, space),
                       graph, prefix, b.matched, s, k)
        BY <1>1, <2>3, MatchFacts
      <4>2. QED
        BY <3>1, <3>2, <4>1 DEF AreMatches
    <3>5. /\ t.to \in States(graph) /\ t.to > s /\ t.score \in Int /\ graph.fscore[t.to] \in Int
      BY <1>1, TransFacts
    <3> HIDE DEF t
    <3>6. PICK bs, be, ts, ze, f, W :
            /\ bs = b.score /\ be = b.error /\ ts = t.score /\ ze = z.error
            /\ f = graph.fscore[t.to] /\ W = WorthOf(b)
      OBVIOUS
    <3>7. bs \in Int /\ be \in Int /\ ts \in Int /\ ze \in Int /\ f \in Int /\ W \in Int
      BY <2>2, <3>4, <3>5, <3>6
    <3>8. W = Plain!Worth(bs, be)
      BY <3>6 DEF WorthOf
    <3>9. CASE z.pm = Len(r.tokens)
      <4>1. v = EndAt(graph, s, k, z.tm, t.score + graph.fscore[t.to], z.error)
        BY <2>5, <3>1, <3>9 DEF BeginsWith, t
      <4>2. PICK tf, all, er : tf = ts + f /\ all = bs + ts + f /\ er = be + ze
        OBVIOUS
      <4>3. v.score = tf /\ v.error = ze
        BY <3>6, <4>1, <4>2, Zenon DEF EndAt
      <4>4. Plain!Worth(all, er) <= bestScore
        <5>1. ~ (z.pm < Len(prefix))
          BY <1>1, <2>3, <3>9
        <5>2. QED
          BY <3>3, <3>6, <4>2, <5>1 DEF TakenCare
      <4>5. tf \in Int /\ IsSum(all, bs, tf) /\ IsSum(er, be, ze)
        BY <3>7, <4>2 DEF IsSum
      <4>6. Plain!Worth(all, er) = Plain!Worth(bs, be) + Plain!Worth(tf, ze)
        BY ONLY <3>7, <4>5, WorthSum
      <4>7. QED
        BY <3>6, <3>8, <4>3, <4>4, <4>6
    <3>10. CASE z.pm # Len(r.tokens)
      <4>1. \E u \in Onward(graph, r, partial, t.to, z.pm) : v = Shifted(u, t.score, z.error)
        BY <2>5, <3>1, <3>10 DEF BeginsWith, t
      <4>2. PICK u \in Onward(graph, r, partial, t.to, z.pm) : v = Shifted(u, t.score, z.error)
        BY <4>1
      <4>3. z.pm < Len(prefix) /\ z.pm \in 0 .. Len(r.tokens) - 1
        BY <1>1, <2>2, <2>3, <3>4, <3>10
      <4>4. u.score \in Int /\ u.error \in Nat
        <5>1. u \in WayType(graph)
          BY <1>1, <3>5, <4>3, WayKinds
        <5>2. QED
          BY <5>1, WayFields
      <4>5. PICK us, ue, vs, ve, sc, er :
              /\ us = u.score /\ ue = u.error /\ vs = ts + us /\ ve = ze + ue
              /\ sc = bs + ts /\ er = be + ze
        OBVIOUS
      <4>6. us \in Int /\ ue \in Int /\ vs \in Int /\ ve \in Int /\ sc \in Int /\ er \in Int
        BY <3>7, <4>4, <4>5
      <4>7. v.score = vs /\ v.error = ve
        <5>1. v.score = us + ts /\ v.error = ue + ze
          BY <3>6, <4>2, <4>5 DEF Shifted
        <5>2. QED
          BY <3>7, <4>5, <4>6, <5>1
      <4>8. HasWorth(back[t.to], z.pm, Plain!Worth(sc, er))
        BY <3>3, <3>6, <4>3, <4>5 DEF TakenCare
      <4>9. PICK h \in DOMAIN back[t.to] : /\ back[t.to][h].matched = z.pm
                                           /\ WorthOf(back[t.to][h]) >= Plain!Worth(sc, er)
        BY <4>8 DEF HasWorth
      <4>10. NoneBeats(graph, r, partial, t.to, back[t.to][h], bestScore)
        <5>1. graph.n - t.to \in 0 .. n - 1
          BY <1>2, <3>5
        <5>2. graph.n - t.to \in S
          BY <1>3, <5>1
        <5>3. QED
          BY <3>5, <5>2
      <4>11. WorthOf(back[t.to][h]) + Plain!Worth(us, ue) <= bestScore
        BY <4>5, <4>9, <4>10 DEF NoneBeats
      <4>12. WorthOf(back[t.to][h]) \in Int
        <5>1. back[t.to][h] \in PlainPath
          BY <1>1, <3>5
        <5>2. QED
          BY <5>1, PathWorth
      <4>13. Plain!Worth(sc, er) = Plain!Worth(bs, be) + Plain!Worth(ts, ze)
        <5>1. IsSum(sc, bs, ts) /\ IsSum(er, be, ze)
          BY <4>5 DEF IsSum
        <5>2. QED
          BY ONLY <3>7, <5>1, WorthSum
      <4>14. Plain!Worth(vs, ve) = Plain!Worth(ts, ze) + Plain!Worth(us, ue)
        <5>1. IsSum(vs, ts, us) /\ IsSum(ve, ze, ue)
          BY <4>5 DEF IsSum
        <5>2. QED
          BY ONLY <3>7, <4>6, <5>1, WorthSum
      <4>15. Plain!Worth(ts, ze) \in Int /\ Plain!Worth(us, ue) \in Int /\ Plain!Worth(bs, be) \in Int
        BY <3>7, <4>6, WorthInt
      <4>16. PICK o, p, q, c : /\ o = Plain!Worth(ts, ze) /\ p = Plain!Worth(us, ue)
                               /\ q = Plain!Worth(bs, be) /\ c = WorthOf(back[t.to][h])
        OBVIOUS
      <4>17. /\ o \in Int /\ p \in Int /\ q \in Int /\ c \in Int /\ c >= q + o /\ c + p <= bestScore
             /\ Plain!Worth(vs, ve) = o + p
        BY <4>9, <4>11, <4>12, <4>13, <4>14, <4>15, <4>16
      <4>18. q + (o + p) <= bestScore
        BY <1>1, <4>17
      <4>19. QED
        BY <3>6, <3>8, <4>7, <4>16, <4>17, <4>18
    <3>11. QED
      BY <3>9, <3>10
  <2>11. QED
    BY <2>6, <2>9, <2>10
<1>4. \A n \in Nat : n \in S
  <2> HIDE DEF S
  <2>1. QED
    BY <1>3, StrongInduction
<1>5. \A s \in States(graph) : Fine(s)
  <2> SUFFICES ASSUME NEW s \in States(graph) PROVE Fine(s)
    OBVIOUS
  <2>1. graph.n - s \in Nat
    BY <1>2
  <2>2. graph.n - s \in S
    BY <1>4, <2>1
  <2>3. QED
    BY <2>2
<1>6. QED
  BY <1>5

(* The end of the search. *)
LEMMA PlainTop ==
  ASSUME PlainInv, pc = "search", cur.st = graph.n, NEW r, NowAsked(r),
         NEW w \in Onward(graph, r, partial, 0, 0)
  PROVE  /\ w \in WayType(graph) /\ Plain!Worth(w.score, w.error) \in Int
         /\ Plain!Worth(w.score, w.error) > MinScore
         /\ Plain!Worth(w.score, w.error) <= bestScore
<1>1. /\ graph \in Graphs /\ partial \in SUBSET Words /\ r \in PlainRequests
      /\ back \in [States(graph) -> Seq(PlainPath)] /\ 0 \in States(graph)
      /\ 0 \in 0 .. Len(r.tokens) - 1
  BY PlainGraph, Tokens DEF PlainInv, PlainTyped, NowAsked
<1>2. w \in WayType(graph)
  BY <1>1, WayKinds
<1>3. w.score \in Int /\ w.error \in Nat
  BY <1>2, WayFields
<1>4. Plain!Worth(w.score, w.error) > MinScore
  BY <1>1, WayWorth
<1>5. PICK x \in DOMAIN back[0] : back[0][x] = Plain!InitialBack
  BY DEF PlainInv, PlainBegun
<1>6. NoneBeats(graph, r, partial, 0, back[0][x], bestScore)
  BY <1>1, NothingBeats
<1>7. WorthOf(back[0][x]) + Plain!Worth(w.score, w.error) <= bestScore
  BY <1>5, <1>6, InitialPath DEF NoneBeats
<1>8. WorthOf(back[0][x]) = 0
  <2>1. Plain!Worth(0, 0) = 0
    BY NumberTypes DEF Plain!Worth
  <2>2. QED
    BY <1>5, <2>1, InitialPath DEF WorthOf
<1>9. PICK a, e : a = w.score /\ e = w.error
  OBVIOUS
<1>10. Plain!Worth(a, e) \in Int
  <2>1. a \in Int /\ e \in Int
    BY <1>3, <1>9
  <2>2. QED
    BY <2>1, WorthInt
<1>11. PICK W : W = Plain!Worth(a, e)
  OBVIOUS
<1>12. W \in Int /\ 0 + W <= bestScore
  BY <1>7, <1>8, <1>9, <1>10, <1>11
<1>13. W <= bestScore
  BY <1>12
<1>14. QED
  BY <1>2, <1>4, <1>9, <1>10, <1>11, <1>13

LEMMA PlainWays ==
  ASSUME NEW r, NowAsked(r)
  PROVE  Plain!Promise!Ways(graph, prefix, space, partial) = Onward(graph, r, partial, 0, 0)
BY DEF NowAsked, Plain!Promise!Ways, Onward, WaysOf

(* A search that finds no completion had none to find. *)
LEMMA PlainNoneFound ==
  ASSUME PlainInv, pc = "search", cur.st = graph.n, best = << >>
  PROVE  Plain!Promise!Ways(graph, prefix, space, partial) = {}
<1>1. PICK r : NowAsked(r)
  BY DEF PlainInv, PlainTyped
<1>2. bestScore = MinScore
  BY DEF PlainInv, Topped
<1>3. ASSUME NEW w \in Onward(graph, r, partial, 0, 0) PROVE FALSE
  <2>1. PICK W : W = Plain!Worth(w.score, w.error)
    OBVIOUS
  <2>2. W \in Int /\ W > MinScore /\ W <= bestScore
    BY <1>1, <2>1, PlainTop
  <2>3. QED
    BY <1>2, <2>2, NumberTypes
<1>4. QED
  BY <1>1, <1>3, PlainWays

(* The number of errors that getPrefix settles for. *)
LEMMA PlainChosen ==
  ASSUME PlainInv, pc = "search", cur.st = graph.n, best # << >>
  PROVE  /\ Plain!BestError \in DOMAIN best
         /\ Plain!Worth(best[Plain!BestError].score, Plain!BestError) = bestScore
<1> DEFINE Errors == { e \in DOMAIN best : \A f \in DOMAIN best :
                         Plain!Worth(best[f].score, f) <= Plain!Worth(best[e].score, e) }
<1>1. best \in BestType /\ bestScore \in Int
  BY DEF PlainInv, PlainTyped
<1>2. DOMAIN best \subseteq Nat
      /\ \A e \in DOMAIN best : Plain!Worth(best[e].score, e) \in Int
  BY <1>1, BestFacts
<1>3. /\ \E e \in DOMAIN best : Plain!Worth(best[e].score, e) = bestScore
      /\ \A e \in DOMAIN best : Plain!Worth(best[e].score, e) <= bestScore
  BY DEF PlainInv, Topped
<1>4. PICK e \in DOMAIN best : Plain!Worth(best[e].score, e) = bestScore
  BY <1>3
<1>5. e \in Errors
  BY <1>3, <1>4
<1>6. Plain!BestError = Plain!Min(Errors)
  BY DEF Plain!BestError
<1>7. Plain!Min(Errors) \in Errors
  <2>1. Errors \subseteq Nat /\ Errors # {}
    BY <1>2, <1>5
  <2> HIDE DEF Errors
  <2>2. \E x \in Errors : \A y \in Errors : x <= y
    BY <2>1, MinIn
  <2>3. QED
    BY <2>2 DEF Plain!Min
<1>8. PICK k : k = Plain!BestError
  OBVIOUS
<1>9. k \in DOMAIN best /\ Plain!Worth(best[e].score, e) <= Plain!Worth(best[k].score, k)
  BY <1>6, <1>7, <1>8
<1>10. PICK W : W = Plain!Worth(best[k].score, k)
  OBVIOUS
<1>11. W \in Int /\ W <= bestScore /\ bestScore <= W
  BY <1>2, <1>3, <1>4, <1>9, <1>10
<1>12. W = bestScore
  BY <1>1, <1>11
<1>13. QED
  BY <1>8, <1>9, <1>10, <1>12

(* What it suggests is a suggestion for a way that is worth most. *)
LEMMA PlainSuggested ==
  ASSUME PlainInv, pc = "search", cur.st = graph.n, best # << >>
  PROVE  \E w \in Plain!Promise!BestWays(Plain!Promise!Ways(graph, prefix, space, partial)) :
           Plain!Suggestion(best[Plain!BestError], Plain!BestError)
             \in Plain!Promise!Suggestions(w, space, partial)
<1>1. PICK r : NowAsked(r)
  BY DEF PlainInv, PlainTyped
<1>2. PICK e, c : e = Plain!BestError /\ c = best[e]
  OBVIOUS
<1>3. e \in DOMAIN best /\ Plain!Worth(c.score, e) = bestScore
  BY <1>2, PlainChosen
<1>4. PICK w : w = EndAt(graph, c.from, c.tr, c.tm, c.score, e)
  OBVIOUS
<1>5. w \in Onward(graph, r, partial, 0, 0)
  BY <1>1, <1>2, <1>3, <1>4 DEF PlainInv, PlainEnds, EndLeads
<1>6. /\ w.score = c.score /\ w.error = e /\ w.jumped = << >>
      /\ w.last = graph.trans[c.from][c.tr].output[c.tm]
      /\ w.suffix = SubSeq(graph.trans[c.from][c.tr].output, c.tm + 1,
                           Len(graph.trans[c.from][c.tr].output))
                      \o ForwardWords(graph)[graph.trans[c.from][c.tr].to]
  BY <1>4, Zenon DEF EndAt
<1>7. ASSUME NEW v \in Onward(graph, r, partial, 0, 0)
      PROVE  Plain!Promise!Worth(v) <= Plain!Promise!Worth(w)
  <2>1. Plain!Worth(v.score, v.error) <= bestScore
    BY <1>1, PlainTop
  <2>2. Plain!Promise!Worth(v) = Plain!Worth(v.score, v.error)
    BY DEF Plain!Promise!Worth, Plain!Worth
  <2>3. Plain!Promise!Worth(w) = bestScore
    BY <1>3, <1>6, Zenon DEF Plain!Promise!Worth, Plain!Worth
  <2>4. QED
    BY <2>1, <2>2, <2>3
<1>8. w \in Plain!Promise!BestWays(Plain!Promise!Ways(graph, prefix, space, partial))
  BY <1>1, <1>5, <1>7, PlainWays DEF Plain!Promise!BestWays
<1>9. w.suffix \o w.jumped = w.suffix
  <2>1. w \in WayType(graph)
    BY <1>1, <1>5, PlainTop
  <2>2. w.suffix \in Seq(Words)
    BY <2>1, WayFields
  <2>3. PICK u : u = w.suffix /\ u \in Seq(Words)
    BY <2>2
  <2>4. u \o << >> = u
    BY <2>3
  <2>5. QED
    BY <1>6, <2>3, <2>4, Zenon
<1>10. graph \in Graphs
  BY DEF PlainInv, PlainTyped
<1>11. Plain!Suggestion(c, e)
         = [found |-> TRUE, score |-> w.score, error |-> w.error,
            completes |-> IF ~space /\ w.last \in partial THEN {w.last} ELSE {},
            words |-> w.suffix]
  <2>1. Plain!ForwardWords(graph) = ForwardWords(graph)
    BY PlainForward
  <2>2. QED
    BY <1>6, <2>1, Zenon DEF Plain!Suggestion
<1>12. Plain!Suggestion(c, e) \in Plain!Promise!Suggestions(w, space, partial)
  <2>1. w.suffix \in { w.suffix \o w.jumped, w.jumped \o w.suffix }
    BY <1>9
  <2>2. QED
    BY <1>11, <2>1 DEF Plain!Promise!Suggestions
<1>13. QED
  BY <1>2, <1>8, <1>12

(* A step of this class is one of BestCompletion or changes nothing that   *)
(* BestCompletion sees.                                                    *)
LEMMA PlainPromiseStep ==
  ASSUME PlainInv, [Plain!Next]_(Plain!vars)
  PROVE  [Plain!Promise!Next]_(Plain!Promise!vars)
<1>1. CASE UNCHANGED Plain!vars
  BY <1>1 DEF Plain!vars, Plain!Promise!vars
<1>2. CASE \E g \in Graphs : Plain!createGraph(g)
  <2>1. Plain!Promise!NewSentence
    BY <1>2 DEF Plain!createGraph, Plain!Promise!NewSentence, Plain!None, Plain!Promise!None
  <2>2. QED
    BY <2>1 DEF Plain!Promise!Next
<1>3. CASE \E r \in PlainRequests : Plain!getPrefix(r)
  <2>1. Plain!Promise!Ask
    BY <1>3 DEF Plain!getPrefix, Plain!Promise!Ask, Plain!None, Plain!Promise!None
  <2>2. QED
    BY <2>1 DEF Plain!Promise!Next
<1>4. CASE Plain!process_matches \/ Plain!NextBack \/ Plain!NextState
  <2>1. UNCHANGED << graph, prefix, space, partial, pc, answer >>
    BY <1>4 DEF Plain!process_matches, Plain!NextBack, Plain!NextState, Plain!requestVars
  <2>2. QED
    BY <2>1 DEF Plain!Promise!vars
<1>5. CASE Plain!Fail
  <2>1. /\ pc = "search" /\ cur.st = graph.n /\ best = << >>
        /\ pc' = "idle" /\ answer' = answer
        /\ UNCHANGED << graph, prefix, space, partial >>
    BY <1>5 DEF Plain!Fail, Plain!EndOfSearch, Plain!requestVars
  <2>2. Plain!Promise!Ways(graph, prefix, space, partial) = {}
    BY <2>1, PlainNoneFound
  <2>3. answer' = Plain!Promise!None
    BY <2>1 DEF PlainInv, PlainTyped, Plain!None, Plain!Promise!None
  <2>4. Plain!Promise!Reply
    BY <2>1, <2>2, <2>3 DEF Plain!Promise!Reply
  <2>5. QED
    BY <2>4 DEF Plain!Promise!Next
<1>6. CASE Plain!Answer
  <2>1. /\ pc = "search" /\ cur.st = graph.n /\ best # << >>
        /\ pc' = "idle" /\ answer' = Plain!Suggestion(best[Plain!BestError], Plain!BestError)
        /\ UNCHANGED << graph, prefix, space, partial >>
    BY <1>6 DEF Plain!Answer, Plain!EndOfSearch, Plain!requestVars
  <2>2. PICK ways : ways = Plain!Promise!Ways(graph, prefix, space, partial)
    OBVIOUS
  <2>3. \E w \in Plain!Promise!BestWays(ways) :
           answer' \in Plain!Promise!Suggestions(w, space, partial)
    BY <2>1, <2>2, PlainSuggested
  <2>4. ways # {}
    BY <2>3 DEF Plain!Promise!BestWays
  <2>5. Plain!Promise!Reply
    BY <2>1, <2>2, <2>3, <2>4 DEF Plain!Promise!Reply
  <2>6. QED
    BY <2>5 DEF Plain!Promise!Next
<1>7. QED
  BY <1>1, <1>2, <1>3, <1>4, <1>5, <1>6 DEF Plain!Next, Plain!Step

(* WeightedCaitra, also when requests have failed before: every request is *)
(* answered with a suggestion for a completion that is worth most, or with *)
(* none when there is none: for all graphs, all prefixes and all prices of *)
(* errors.                                                                 *)
THEOREM PlainPromiseKept == Spec => PlainKeepsPromise
<1>1. Init => (class = "WeightedCaitra" => Plain!Promise!Init)
  <2>1. Init /\ class = "WeightedCaitra" => Plain!Init
    BY DEF Init, LevelClasses
  <2>2. Plain!Init => Plain!Promise!Init
    BY DEF Plain!Init, Plain!Promise!Init, Plain!None, Plain!Promise!None
  <2>3. QED
    BY <2>1, <2>2
<1>2. PlainHolds /\ [Next]_vars
        => [class = "WeightedCaitra" => Plain!Promise!Next]_(Plain!Promise!vars)
  <2> SUFFICES ASSUME PlainHolds, [Next]_vars, class = "WeightedCaitra"
               PROVE  [Plain!Promise!Next]_(Plain!Promise!vars)
    OBVIOUS
  <2>1. PlainInv
    BY DEF PlainHolds
  <2>2. CASE PlainNext
    BY <2>1, <2>2, PlainPromiseStep DEF PlainNext
  <2>3. CASE UNCHANGED vars
    BY <2>3 DEF vars, Plain!Promise!vars
  <2>4. CASE WindowNext \/ VectorNext \/ LevelNext \/ ECNext
    BY <2>4 DEF WindowNext, VectorNext, LevelNext, ECNext, LevelClasses
  <2>5. QED
    BY <2>2, <2>3, <2>4 DEF Next
<1>3. PlainHolds /\ [Next]_vars => PlainHolds'
  BY PlainKept
<1>4. QED
  BY <1>1, <1>2, <1>3, PlainInitially, PTL DEF Spec, PlainKeepsPromise
=========================================================================
