-------------------------- MODULE LearnerProofs -------------------------
(***************************************************************************)
(* Proofs about the learner, for all lessons, weights and learning rates:  *)
(* the simulated user never needs more actions than letters, but one, or   *)
(* than bytes; the costs of the translations are the distances they stand  *)
(* for; and an update brings the oracle nearer to what the decoder put     *)
(* first.                                                                  *)
(***************************************************************************)
EXTENDS OnlineLearner, Extremes

-------------------------------------------------------------------------
(* Words.                                                                  *)

SpacesIn(t) == { k \in 1 .. Len(t) : t[k] = Space }

LEMMA FunctionIsSeq ==
  ASSUME NEW S, NEW n \in Nat, NEW s \in [1 .. n -> S]
  PROVE  s \in Seq(S) /\ Len(s) = n
OBVIOUS

LEMMA SameSeq ==
  ASSUME NEW S, NEW x \in Seq(S), NEW y \in Seq(S), NEW n, Len(x) = n, Len(y) = n,
         SameUpTo(x, y, n)
  PROVE  x = y
BY DEF SameUpTo

LEMMA ElementOf ==
  ASSUME NEW S, NEW s \in Seq(S), NEW k \in 1 .. Len(s)
  PROVE  s[k] \in S
OBVIOUS

LEMMA SpacesGathered ==
  ASSUME NEW C, NEW t \in Seq(C)
  PROVE  \E F : /\ IsGathering(F, SpacesIn(t), [k \in 1 .. Len(t) |-> k], Len(t))
                /\ Spaces(t) = F[Len(t)]
<1> DEFINE val == [k \in 1 .. Len(t) |-> k]
           E(f) == f = [k \in 0 .. Len(t) |->
                     IF k = 0 THEN << >>
                     ELSE IF t[k] = Space THEN Append(f[k - 1], k)
                     ELSE f[k - 1]]
           n == Len(t)
           F == CHOOSE f : IsGathering(f, SpacesIn(t), val, n)
<1>1. ASSUME NEW f PROVE E(f) <=> IsGathering(f, SpacesIn(t), val, n)
  <2>1. ASSUME NEW k \in 0 .. n
        PROVE  Gathered(f, SpacesIn(t), val, k)
                 = IF k = 0 THEN << >>
                   ELSE IF t[k] = Space THEN Append(f[k - 1], k)
                   ELSE f[k - 1]
    <3>1. CASE k = 0
      BY <3>1 DEF Gathered
    <3>2. CASE k # 0
      <4>1. k \in 1 .. n
        BY <3>2
      <4>2. val[k] = k /\ (k \in SpacesIn(t) <=> t[k] = Space)
        BY <4>1 DEF SpacesIn
      <4> HIDE DEF val
      <4>3. QED
        BY <3>2, <4>2 DEF Gathered
    <3>3. QED
      BY <3>1, <3>2
  <2>2. QED
    BY <2>1 DEF IsGathering
<1>2. Spaces(t) = (CHOOSE f : E(f))[n]
  BY DEF Spaces
<1>3. (CHOOSE f : E(f)) = F
  <2> HIDE DEF E, val, n
  <2>1. QED
    BY <1>1 DEF F
<1>4. n \in Nat /\ \A k \in 1 .. n : val[k] \in 1 .. n
  OBVIOUS
<1>5. IsGathering(F, SpacesIn(t), val, n)
  <2> HIDE DEF val, n
  <2>1. QED
    BY <1>4, GatheringExists
<1>6. QED
  <2> HIDE DEF E, F
  <2>1. QED
    BY <1>2, <1>3, <1>5

LEMMA CutsFacts ==
  ASSUME NEW C, NEW t \in Seq(C)
  PROVE  /\ Spaces(t) \in Seq(1 .. Len(t)) /\ Len(Spaces(t)) \in Nat
         /\ Cuts(t) \in Seq(0 .. Len(t) + 1)
         /\ Len(Cuts(t)) = Len(Spaces(t)) + 2
         /\ Cuts(t)[1] = 0
         /\ \A k \in 1 .. Len(Spaces(t)) : Cuts(t)[k + 1] = Spaces(t)[k]
         /\ Cuts(t)[Len(Spaces(t)) + 2] = Len(t) + 1
<1> DEFINE val == [k \in 1 .. Len(t) |-> k]
           n == Len(t)
<1>1. PICK F : IsGathering(F, SpacesIn(t), val, n) /\ Spaces(t) = F[n]
  BY SpacesGathered
<1>2. n \in Nat /\ \A k \in 1 .. n : val[k] \in 1 .. n
  OBVIOUS
<1>3. Spaces(t) \in Seq(1 .. n)
  <2> HIDE DEF val, n
  <2>1. \A k \in 0 .. n : F[k] \in Seq(1 .. n)
    BY <1>1, <1>2, GatheringEquation
  <2>2. n \in 0 .. n
    BY <1>2
  <2>3. QED
    BY <1>1, <2>1, <2>2
<1>4. PICK s : s = Spaces(t) /\ s \in Seq(1 .. n)
  BY <1>3
<1>5. PICK e : e = n + 1
  OBVIOUS
<1>6. Cuts(t) = << 0 >> \o s \o << e >>
  BY <1>4, <1>5 DEF Cuts
<1>7. s \in Seq(0 .. e) /\ << 0 >> \in Seq(0 .. e) /\ << e >> \in Seq(0 .. e)
  <2>1. 0 \in 0 .. e /\ e \in 0 .. e /\ 1 .. n \subseteq 0 .. e
    BY <1>2, <1>5
  <2>2. \A k \in 1 .. Len(s) : s[k] \in 0 .. e
    BY <1>4, <2>1
  <2>3. s \in Seq(0 .. e)
    <3>1. s \in [1 .. Len(s) -> 0 .. e] /\ Len(s) \in Nat
      BY <1>4, <2>2
    <3>2. PICK m : m = Len(s) /\ m \in Nat
      BY <3>1
    <3>3. s \in [1 .. m -> 0 .. e]
      BY <3>1, <3>2
    <3>4. QED
      BY <3>2, <3>3, FunctionIsSeq
  <2>4. << 0 >> \in Seq(0 .. e)
    BY <2>1
  <2>5. << e >> \in Seq(0 .. e)
    BY <2>1
  <2>6. QED
    BY <2>3, <2>4, <2>5
<1>8. PICK q : q = << 0 >> \o s /\ q \in Seq(0 .. e) /\ Len(q) = Len(s) + 1 /\ q[1] = 0
               /\ \A k \in 1 .. Len(s) : q[k + 1] = s[k]
  <2>0. Len(<< 0 >>) = 1 /\ << 0 >>[1] = 0
    OBVIOUS
  <2>1. PICK z : z = << 0 >> /\ z \in Seq(0 .. e) /\ Len(z) = 1 /\ z[1] = 0
    BY <1>7, <2>0
  <2>2. /\ z \o s \in Seq(0 .. e) /\ Len(z \o s) = Len(s) + 1 /\ (z \o s)[1] = 0
        /\ \A k \in 1 .. Len(s) : (z \o s)[k + 1] = s[k]
    BY <1>7, <2>1
  <2>3. QED
    BY <2>1, <2>2
<1>9. /\ q \o << e >> \in Seq(0 .. e) /\ Len(q \o << e >>) = Len(q) + 1
      /\ (q \o << e >>)[Len(q) + 1] = e
      /\ \A k \in 1 .. Len(q) : (q \o << e >>)[k] = q[k]
  BY <1>7, <1>8
<1>10. Len(s) \in Nat
  BY <1>4
<1>11. 1 \in 1 .. Len(q) /\ \A k \in 1 .. Len(s) : k + 1 \in 1 .. Len(q)
  BY <1>8, <1>10
<1>12. QED
  BY <1>4, <1>5, <1>6, <1>8, <1>9, <1>10, <1>11

LEMMA WordsFacts ==
  ASSUME NEW C, NEW t \in Seq(C)
  PROVE  /\ Words(t) \in Seq(Seq(C))
         /\ Len(Words(t)) = Len(Spaces(t)) + 1
         /\ \A k \in 1 .. Len(Spaces(t)) + 1 :
               Words(t)[k] = SubSeq(t, Cuts(t)[k] + 1, Cuts(t)[k + 1] - 1)
<1>1. PICK c, n : c = Cuts(t) /\ n = Len(Spaces(t)) + 1
  OBVIOUS
<1>2. n \in Nat /\ Len(c) = n + 1 /\ c \in Seq(0 .. Len(t) + 1)
  BY <1>1, CutsFacts
<1>3. Words(t) = [k \in 1 .. n |-> SubSeq(t, c[k] + 1, c[k + 1] - 1)]
  BY <1>1, <1>2 DEF Words
<1>4. ASSUME NEW k \in 1 .. n PROVE SubSeq(t, c[k] + 1, c[k + 1] - 1) \in Seq(C)
  <2>1. k \in 1 .. Len(c) /\ k + 1 \in 1 .. Len(c)
    BY <1>2
  <2>2. PICK a, b : a = c[k] /\ b = c[k + 1] /\ a \in 0 .. Len(t) + 1 /\ b \in 0 .. Len(t) + 1
    BY <1>2, <2>1
  <2>3. a + 1 \in 1 .. Len(t) + 2 /\ b - 1 \in Int /\ b - 1 <= Len(t)
    BY <2>2
  <2>4. \A x \in (a + 1) .. (b - 1) : x \in 1 .. Len(t)
    BY <2>2
  <2>5. SubSeq(t, a + 1, b - 1) \in Seq(C)
    BY <2>2, <2>3, <2>4
  <2>6. QED
    BY <2>2, <2>5
<1>5. Words(t) \in Seq(Seq(C)) /\ Len(Words(t)) = n
  <2>1. Words(t) \in [1 .. n -> Seq(C)]
    BY <1>3, <1>4
  <2>2. QED
    BY <1>2, <2>1
<1>6. \A k \in 1 .. n : Words(t)[k] = SubSeq(t, c[k] + 1, c[k + 1] - 1)
  BY <1>3
<1>7. QED
  BY <1>1, <1>5, <1>6

LEMMA SameSubSeq ==
  ASSUME NEW C, NEW t \in Seq(C), NEW u \in Seq(C), Len(t) <= Len(u),
         \A k \in 1 .. Len(t) : u[k] = t[k],
         NEW a \in Nat, NEW b \in Nat, b <= Len(t) + 1
  PROVE  SubSeq(u, a + 1, b - 1) = SubSeq(t, a + 1, b - 1)
<1> DEFINE x == SubSeq(u, a + 1, b - 1)
           y == SubSeq(t, a + 1, b - 1)
<1>1. \A k \in (a + 1) .. (b - 1) : k \in 1 .. Len(t) /\ k \in 1 .. Len(u)
  OBVIOUS
<1>2. x \in Seq(C) /\ y \in Seq(C) /\ Len(x) = Len(y)
  BY <1>1
<1>3. \A k \in 1 .. Len(x) : x[k] = y[k]
  BY <1>1
<1> HIDE DEF x, y
<1>4. QED
  BY <1>2, <1>3

(* A space at the end of a text adds an empty word to its words. *)
LEMMA SpaceAddsSpace ==
  ASSUME NEW C, NEW t \in Seq(C), Space \in C, NEW u, u = Append(t, Space)
  PROVE  Spaces(u) = Append(Spaces(t), Len(t) + 1)
<1> DEFINE n == Len(t)
           valt == [k \in 1 .. Len(t) |-> k]
           valu == [k \in 1 .. Len(u) |-> k]
<1>1. u \in Seq(C) /\ Len(u) = n + 1 /\ u[n + 1] = Space /\ \A k \in 1 .. n : u[k] = t[k]
  OBVIOUS
<1>2. n \in Nat
  OBVIOUS
<1>3. PICK F : IsGathering(F, SpacesIn(t), valt, n) /\ Spaces(t) = F[n]
  BY SpacesGathered
<1>4. PICK G : IsGathering(G, SpacesIn(u), valu, n + 1) /\ Spaces(u) = G[n + 1]
  <2>1. PICK G : IsGathering(G, SpacesIn(u), valu, Len(u)) /\ Spaces(u) = G[Len(u)]
    BY <1>1, SpacesGathered
  <2>2. QED
    BY <1>1, <2>1
<1>5. /\ \A k \in 1 .. n : valt[k] = k /\ valu[k] = k
      /\ valu[n + 1] = n + 1
      /\ \A k \in 1 .. n : k \in SpacesIn(t) <=> k \in SpacesIn(u)
      /\ n + 1 \in SpacesIn(u)
  BY <1>1 DEF SpacesIn
<1>6. /\ \A k \in 0 .. n : F[k] = Gathered(F, SpacesIn(t), valt, k)
      /\ \A k \in 0 .. n + 1 : G[k] = Gathered(G, SpacesIn(u), valu, k)
  BY <1>3, <1>4 DEF IsGathering
<1> HIDE DEF n, valt, valu
<1> DEFINE Good == { k \in Nat : k <= n => F[k] = G[k] }
<1>7. 0 \in Good
  <2>1. F[0] = << >> /\ G[0] = << >>
    BY <1>2, <1>6 DEF Gathered
  <2>2. QED
    BY <2>1
<1>8. ASSUME NEW k \in Nat, k \in Good PROVE k + 1 \in Good
  <2>1. SUFFICES ASSUME k + 1 <= n PROVE F[k + 1] = G[k + 1]
    OBVIOUS
  <2>2. F[k] = G[k]
    BY <1>2, <1>8, <2>1
  <2>3. k + 1 \in 0 .. n /\ k + 1 \in 0 .. n + 1 /\ k + 1 \in 1 .. n /\ k + 1 # 0
        /\ (k + 1) - 1 = k
    BY <1>2, <2>1
  <2>4. /\ F[k + 1] = Gathered(F, SpacesIn(t), valt, k + 1)
        /\ G[k + 1] = Gathered(G, SpacesIn(u), valu, k + 1)
    BY <1>6, <2>3
  <2>5. /\ valt[k + 1] = valu[k + 1]
        /\ k + 1 \in SpacesIn(t) <=> k + 1 \in SpacesIn(u)
    BY <1>5, <2>3
  <2>6. QED
    BY <2>2, <2>3, <2>4, <2>5 DEF Gathered
<1>9. \A k \in Nat : k \in Good
  <2> HIDE DEF Good
  <2>1. QED
    BY <1>7, <1>8, Induction
<1>10. F[n] = G[n]
  BY <1>2, <1>9
<1>11. G[n + 1] = Append(G[n], n + 1)
  <2>1. n + 1 \in 0 .. n + 1 /\ n + 1 # 0 /\ (n + 1) - 1 = n
    BY <1>2
  <2>2. G[n + 1] = Gathered(G, SpacesIn(u), valu, n + 1)
    BY <1>6, <2>1
  <2>3. QED
    BY <1>5, <2>1, <2>2 DEF Gathered
<1>12. QED
  BY <1>3, <1>4, <1>10, <1>11 DEF n

LEMMA SpaceAddsWord ==
  ASSUME NEW C, NEW t \in Seq(C), Space \in C, NEW u, u = Append(t, Space)
  PROVE  /\ Len(Words(u)) = Len(Words(t)) + 1
         /\ Words(u)[Len(Words(t)) + 1] = << >>
         /\ \A k \in 1 .. Len(Words(t)) : Words(u)[k] = Words(t)[k]
<1>1. PICK n, m : n = Len(t) /\ m = Len(Spaces(t)) + 1
  OBVIOUS
<1>2. /\ n \in Nat /\ m \in Nat /\ u \in Seq(C) /\ Len(u) = n + 1
      /\ \A k \in 1 .. n : u[k] = t[k]
  BY <1>1, CutsFacts
<1>3. PICK s, v : s = Spaces(t) /\ v = Spaces(u) /\ s \in Seq(1 .. n)
  BY <1>1, CutsFacts
<1>4. v = Append(s, n + 1)
  BY <1>1, <1>3, SpaceAddsSpace
<1>5. /\ Len(v) = m /\ v[m] = n + 1 /\ Len(s) = m - 1
      /\ \A k \in 1 .. m - 1 : v[k] = s[k]
  BY <1>1, <1>3, <1>4
<1>6. PICK c, d : c = Cuts(t) /\ d = Cuts(u)
  OBVIOUS
<1>7. /\ c \in Seq(0 .. n + 1) /\ Len(c) = m + 1 /\ c[1] = 0 /\ c[m + 1] = n + 1
      /\ \A k \in 1 .. m - 1 : c[k + 1] = s[k]
  <2>1. /\ c \in Seq(0 .. Len(t) + 1) /\ Len(c) = Len(s) + 2
        /\ c[1] = 0 /\ c[Len(s) + 2] = Len(t) + 1
        /\ \A k \in 1 .. Len(s) : c[k + 1] = s[k]
    BY <1>3, <1>6, CutsFacts
  <2>2. Len(s) + 2 = m + 1
    BY <1>2, <1>5
  <2>3. QED
    BY <1>1, <1>5, <2>1, <2>2
<1>8. /\ Len(d) = m + 2 /\ d[1] = 0 /\ d[m + 2] = n + 2
      /\ \A k \in 1 .. m : d[k + 1] = v[k]
  <2>1. /\ Len(d) = Len(v) + 2
        /\ d[1] = 0 /\ d[Len(v) + 2] = Len(u) + 1
        /\ \A k \in 1 .. Len(v) : d[k + 1] = v[k]
    BY <1>2, <1>3, <1>6, CutsFacts
  <2>2. QED
    BY <1>2, <1>5, <2>1
<1>9. ASSUME NEW k \in 1 .. m + 1 PROVE d[k] = c[k]
  <2>1. CASE k = 1
    BY <1>7, <1>8, <2>1
  <2>2. CASE k = m + 1
    <3>1. m \in 1 .. m
      BY <1>1, <1>2, <1>3, <1>5
    <3>2. d[m + 1] = v[m]
      BY <1>8, <3>1
    <3>3. QED
      BY <1>5, <1>7, <2>2, <3>2
  <2>3. CASE k # 1 /\ k # m + 1
    <3>1. k - 1 \in 1 .. m - 1 /\ k - 1 \in 1 .. m /\ (k - 1) + 1 = k
      BY <1>2, <2>3
    <3>2. d[k] = v[k - 1] /\ c[k] = s[k - 1] /\ v[k - 1] = s[k - 1]
      BY <1>5, <1>7, <1>8, <3>1
    <3>3. QED
      BY <3>2
  <2>4. QED
    BY <2>1, <2>2, <2>3
<1>10. /\ Len(Words(t)) = m
       /\ \A k \in 1 .. m : Words(t)[k] = SubSeq(t, c[k] + 1, c[k + 1] - 1)
  BY <1>1, <1>6, WordsFacts
<1>11. /\ Len(Words(u)) = m + 1
       /\ \A k \in 1 .. m + 1 : Words(u)[k] = SubSeq(u, d[k] + 1, d[k + 1] - 1)
  BY <1>2, <1>3, <1>5, <1>6, WordsFacts
<1>12. Words(u)[m + 1] = << >>
  <2>1. m + 1 \in 1 .. m + 1 /\ (m + 1) + 1 = m + 2
    BY <1>2
  <2>2. d[m + 1] = n + 1
    BY <1>7, <1>9, <2>1
  <2>3. Words(u)[m + 1] = SubSeq(u, (n + 1) + 1, (n + 2) - 1)
    BY <1>8, <1>11, <2>1, <2>2
  <2>4. SubSeq(u, (n + 1) + 1, (n + 2) - 1) = << >>
    BY <1>2
  <2>5. QED
    BY <2>3, <2>4
<1>13. ASSUME NEW k \in 1 .. m PROVE Words(u)[k] = Words(t)[k]
  <2>1. k \in 1 .. m + 1 /\ k + 1 \in 1 .. m + 1
    BY <1>2
  <2>2. d[k] = c[k] /\ d[k + 1] = c[k + 1]
    BY <1>9, <2>1
  <2>3. PICK a, b : a = c[k] /\ b = c[k + 1] /\ a \in 0 .. n + 1 /\ b \in 0 .. n + 1
    <3>1. k \in 1 .. Len(c) /\ k + 1 \in 1 .. Len(c) /\ c \in Seq(0 .. n + 1)
      BY <1>7, <2>1
    <3>2. c[k] \in 0 .. n + 1 /\ c[k + 1] \in 0 .. n + 1
      BY <3>1, ElementOf
    <3>3. QED
      BY <3>2
  <2>4. Words(u)[k] = SubSeq(u, a + 1, b - 1) /\ Words(t)[k] = SubSeq(t, a + 1, b - 1)
    BY <1>10, <1>11, <2>1, <2>2, <2>3
  <2>5. SubSeq(u, a + 1, b - 1) = SubSeq(t, a + 1, b - 1)
    <3>1. a \in Nat /\ b \in Nat /\ b <= Len(t) + 1 /\ Len(t) <= Len(u)
      BY <1>1, <1>2, <2>3
    <3>2. \A x \in 1 .. Len(t) : u[x] = t[x]
      BY <1>1, <1>2
    <3>3. QED
      BY <1>2, <3>1, <3>2, SameSubSeq
  <2>6. QED
    BY <2>4, <2>5
<1>14. QED
  BY <1>10, <1>11, <1>12, <1>13

Full(words) == { k \in 1 .. Len(words) : words[k] # << >> }

LEMMA FilledGathered ==
  ASSUME NEW V, NEW t, Words(t) \in Seq(V)
  PROVE  \E F : /\ IsGathering(F, Full(Words(t)), Words(t), Len(Words(t)))
                /\ Filled(t) = F[Len(Words(t))]
<1> DEFINE w == Words(t)
           n == Len(w)
           E(f) == f = [k \in 0 .. n |->
                     IF k = 0 THEN << >>
                     ELSE IF w[k] # << >> THEN Append(f[k - 1], w[k])
                     ELSE f[k - 1]]
           F == CHOOSE f : IsGathering(f, Full(w), w, n)
<1>1. ASSUME NEW f PROVE E(f) <=> IsGathering(f, Full(w), w, n)
  <2> HIDE DEF w
  <2>1. ASSUME NEW k \in 0 .. n
        PROVE  Gathered(f, Full(w), w, k)
                 = IF k = 0 THEN << >>
                   ELSE IF w[k] # << >> THEN Append(f[k - 1], w[k])
                   ELSE f[k - 1]
    <3>1. k # 0 => (k \in Full(w) <=> w[k] # << >>)
      BY DEF Full
    <3>2. QED
      BY <3>1 DEF Gathered
  <2>2. QED
    BY <2>1 DEF IsGathering
<1>2. Filled(t) = (CHOOSE f : E(f))[n]
  BY DEF Filled
<1>3. (CHOOSE f : E(f)) = F
  <2> HIDE DEF E, w, n
  <2>1. QED
    BY <1>1 DEF F
<1>4. n \in Nat /\ \A k \in 1 .. n : w[k] \in V
  <2>1. w \in Seq(V)
    OBVIOUS
  <2> HIDE DEF w
  <2>2. QED
    BY <2>1, ElementOf
<1>5. IsGathering(F, Full(w), w, n)
  <2> HIDE DEF w, n
  <2>1. QED
    BY <1>4, GatheringExists
<1>6. QED
  <2> HIDE DEF E, F
  <2>1. QED
    BY <1>2, <1>3, <1>5

(* Only the last of some words may be empty: they are all there but it.    *)
NoneEmpty(words, m) == \A k \in 1 .. m : words[k] # << >>

EndsAt(words, m) == Len(words) = m \/ (Len(words) = m + 1 /\ words[m + 1] = << >>)

LEMMA FilledUpTo ==
  ASSUME NEW V, NEW t, Words(t) \in Seq(V), NEW m \in Nat, EndsAt(Words(t), m), NoneEmpty(Words(t), m)
  PROVE  /\ Filled(t) \in Seq(V) /\ Len(Filled(t)) = m
         /\ SameUpTo(Words(t), Filled(t), m)
<1>1. PICK w, n : w = Words(t) /\ n = Len(w)
  OBVIOUS
<1>2. PICK F : IsGathering(F, Full(w), w, n) /\ Filled(t) = F[n]
  BY <1>1, FilledGathered
<1>3. /\ w \in Seq(V) /\ n \in Nat /\ m \in 0 .. n
      /\ m = n \/ (m + 1 = n /\ w[n] = << >>)
  BY <1>1 DEF EndsAt
<1>4. ValuesIn(w, n, V)
  <2>1. \A k \in 1 .. Len(w) : w[k] \in V
    BY <1>3, ElementOf
  <2>2. QED
    BY <1>1, <2>1 DEF ValuesIn
<1>5. 1 .. m \subseteq Full(w)
  BY <1>1, <1>3 DEF Full, NoneEmpty
<1>6. F[m] \in Seq(V) /\ Len(F[m]) = m /\ SameUpTo(w, F[m], m)
  BY <1>2, <1>3, <1>4, <1>5, GatherAll
<1>7. F[n] = F[m]
  <2>1. CASE m = n
    BY <2>1
  <2>2. CASE m # n
    <3>1. m + 1 = n /\ w[n] = << >> /\ n \in 0 .. n /\ n # 0 /\ n - 1 = m
      BY <1>1, <1>3, <2>2
    <3>2. F[n] = Gathered(F, Full(w), w, n)
      BY <1>2, <3>1 DEF IsGathering
    <3>3. n \notin Full(w)
      BY <3>1 DEF Full
    <3>4. QED
      BY <3>1, <3>2, <3>3 DEF Gathered
  <2>3. QED
    BY <2>1, <2>2
<1>8. QED
  BY <1>1, <1>2, <1>6, <1>7

(* A text's words are not empty, with or without a space at its end.       *)
LEMMA FilledText ==
  ASSUME NEW t \in Texts
  PROVE  /\ Filled(t) = Words(t)
         /\ Filled(Append(t, Space)) = Words(t)
         /\ \E C : t \in Seq(C) /\ Append(t, Space) \in Seq(C)
         /\ Len(t) > 0 /\ Len(Words(t)) > 0
<1>1. PICK C : C = { t[k] : k \in DOMAIN t } \cup {Space}
  OBVIOUS
<1>2. t \in Seq(C) /\ t # << >>
  <2>1. t \in Seq({ t[k] : k \in DOMAIN t }) \ {<< >>}
    BY TextsAssumption
  <2>2. PICK n : n = Len(t) /\ n \in Nat
    BY <2>1
  <2>3. t \in [1 .. n -> C]
    BY <1>1, <2>1, <2>2
  <2>4. QED
    BY <2>1, <2>2, <2>3, FunctionIsSeq
<1>3. Len(t) > 0 /\ Append(t, Space) \in Seq(C) /\ Space \in C
  BY <1>1, <1>2
<1>4. PICK m : m = Len(Words(t)) /\ m \in Nat /\ m > 0
  <2>1. Len(Words(t)) = Len(Spaces(t)) + 1 /\ Len(Spaces(t)) \in Nat
    BY <1>2, CutsFacts, WordsFacts
  <2>2. QED
    BY <2>1
<1>5. Words(t) \in Seq(Seq(C)) /\ NoneEmpty(Words(t), m)
  <2>1. Words(t) \in Seq(Seq(C))
    BY <1>2, WordsFacts
  <2>2. \A k \in DOMAIN Words(t) : Words(t)[k] # << >>
    BY TextsAssumption
  <2>3. QED
    BY <1>4, <2>1, <2>2 DEF NoneEmpty
<1>6. /\ Filled(t) \in Seq(Seq(C)) /\ Len(Filled(t)) = m
      /\ SameUpTo(Words(t), Filled(t), m)
  <2>1. EndsAt(Words(t), m)
    BY <1>4 DEF EndsAt
  <2>2. QED
    BY <1>4, <1>5, <2>1, FilledUpTo
<1>7. Filled(t) = Words(t)
  BY <1>4, <1>5, <1>6, SameSeq
<1>8. PICK u : u = Append(t, Space)
  OBVIOUS
<1>9. /\ Len(Words(u)) = m + 1 /\ Words(u)[m + 1] = << >>
      /\ \A k \in 1 .. m : Words(u)[k] = Words(t)[k]
  BY <1>2, <1>3, <1>4, <1>8, SpaceAddsWord
<1>10. Words(u) \in Seq(Seq(C))
  BY <1>3, <1>8, WordsFacts
<1>11. NoneEmpty(Words(u), m)
  BY <1>5, <1>9 DEF NoneEmpty
<1>12. /\ Filled(u) \in Seq(Seq(C)) /\ Len(Filled(u)) = m
       /\ SameUpTo(Words(u), Filled(u), m)
  <2>1. EndsAt(Words(u), m)
    BY <1>9 DEF EndsAt
  <2>2. QED
    BY <1>4, <1>10, <1>11, <2>1, FilledUpTo
<1>13. Filled(u) = Words(t)
  <2>1. SameUpTo(Words(t), Filled(u), m)
    BY <1>9, <1>4, <1>12 DEF SameUpTo
  <2>2. QED
    BY <1>4, <1>5, <1>12, <2>1, SameSeq
<1>14. QED
  BY <1>2, <1>3, <1>4, <1>7, <1>8, <1>13

-------------------------------------------------------------------------
(* Distances.                                                              *)

Alike(s, p, hasPartial) ==
  { c \in (1 .. Len(s)) \X (1 .. Len(p)) : SameWord(s, p, c[1], c[2], hasPartial) }

Equal(x, y) == { c \in (1 .. Len(x)) \X (1 .. Len(y)) : x[c[1]] = y[c[2]] }

LEMMA WordCostsTable ==
  ASSUME NEW s, NEW p, NEW hp, Len(s) \in Nat, Len(p) \in Nat
  PROVE  WordCosts(s, p, hp) = CHOOSE f : IsTable(f, Alike(s, p, hp), Len(s), Len(p))
<1> DEFINE D == Cells(Len(s), Len(p))
           A == Alike(s, p, hp)
           E(f) == f = [c \in (0 .. Len(s)) \X (0 .. Len(p)) |->
                     LET i == c[1]
                         j == c[2]
                     IN  IF i = 0 \/ j = 0
                           THEN i + j
                           ELSE Min({ f[<< i - 1, j >>] + 1,
                                      f[<< i, j - 1 >>] + 1,
                                      f[<< i - 1, j - 1 >>]
                                        + (IF SameWord(s, p, i, j, hp) THEN 0 ELSE 1) })]
<1>1. ASSUME NEW f
      PROVE  E(f) <=> IsTable(f, A, Len(s), Len(p))
  <2>1. ASSUME NEW c \in D
        PROVE  Laid(f, A, c)
                 = IF c[1] = 0 \/ c[2] = 0
                     THEN c[1] + c[2]
                     ELSE Min({ f[<< c[1] - 1, c[2] >>] + 1,
                                f[<< c[1], c[2] - 1 >>] + 1,
                                f[<< c[1] - 1, c[2] - 1 >>]
                                  + (IF SameWord(s, p, c[1], c[2], hp) THEN 0 ELSE 1) })
    <3>1. c[1] # 0 /\ c[2] # 0 => (c \in A <=> SameWord(s, p, c[1], c[2], hp))
      BY DEF Cells, Alike
    <3> HIDE DEF A
    <3>2. QED
      BY <3>1 DEF Laid
  <2>2. QED
    BY <2>1 DEF IsTable, Cells
<1>2. WordCosts(s, p, hp) = CHOOSE f : E(f)
  BY DEF WordCosts
<1>3. (CHOOSE f : E(f)) = CHOOSE f : IsTable(f, A, Len(s), Len(p))
  <2> HIDE DEF E, A, D
  <2>1. QED
    BY <1>1
<1>4. QED
  BY <1>2, <1>3

(* What getEditDistance_wordLevel returns. *)
LEMMA WordCostsLeast ==
  ASSUME NEW s, NEW p, NEW hp, Len(s) \in Nat, Len(p) \in Nat, NEW n \in 0 .. Len(s)
  PROVE  WordPrefixConsumed(s, p, hp)[n + 1] = LeastCost(Alike(s, p, hp), n, Len(p))
<1> DEFINE T == WordCosts(s, p, hp)
<1>1. IsFilled(T, Alike(s, p, hp), Len(s), Len(p))
  BY WordCostsTable, TableFilled
<1>2. PICK c : c = << n, Len(p) >> /\ c[1] = n /\ c[2] = Len(p) /\ c \in Cells(Len(s), Len(p))
  <2>1. << n, Len(p) >> \in Cells(Len(s), Len(p))
    BY DEF Cells
  <2>2. QED
    BY <2>1
<1> HIDE DEF T
<1>3. T[c] = LeastCost(Alike(s, p, hp), n, Len(p))
  BY <1>1, <1>2, TableIsLeastCost
<1>4. n + 1 \in 1 .. Len(s) + 1 /\ (n + 1) - 1 = n
  OBVIOUS
<1>5. WordPrefixConsumed(s, p, hp)[n + 1] = T[<< n, Len(p) >>]
  BY <1>4 DEF WordPrefixConsumed, T
<1>6. QED
  BY <1>2, <1>3, <1>5

LEMMA DistanceLeast ==
  ASSUME NEW x, NEW y, Len(x) \in Nat, Len(y) \in Nat
  PROVE  Distance(x, y) = LeastCost(Equal(x, y), Len(x), Len(y))
<1> DEFINE n == Len(x)
           m == Len(y)
           A == Equal(x, y)
           Cost(a) == n + m - 2 * Cardinality(Paired(a))
                        + Cardinality({ i \in Paired(a) : x[i] # y[a[i]] })
<1>1. Pairings(x, y) = Crossless(n, m)
  BY DEF Pairings, Crossless
<1>2. ASSUME NEW a \in Crossless(n, m) PROVE Cost(a) = PairingCost(A, n, m, a)
  <2>1. a \in [1 .. n -> 0 .. m]
    BY DEF Crossless
  <2>2. Paired(a) = Beside(a, n)
    BY <2>1 DEF Paired, Beside
  <2>3. \A i \in Beside(a, n) : i \in 1 .. n /\ a[i] \in 1 .. m
    BY <2>1 DEF Beside
  <2>4. \A i \in Beside(a, n) : << i, a[i] >> \notin A <=> x[i] # y[a[i]]
    BY <2>3 DEF Equal
  <2> HIDE DEF A
  <2>5. { i \in Paired(a) : x[i] # y[a[i]] } = Unlike(A, a, n)
    BY <2>2, <2>4 DEF Unlike
  <2>6. QED
    BY <2>2, <2>5 DEF PairingCost
<1>3. Distance(x, y) = Min({ Cost(a) : a \in Pairings(x, y) })
  BY DEF Distance
<1> HIDE DEF Cost, A, n, m
<1>4. { Cost(a) : a \in Pairings(x, y) } = { PairingCost(A, n, m, a) : a \in Crossless(n, m) }
  BY <1>1, <1>2
<1>5. Distance(x, y) = LeastCost(A, n, m)
  BY <1>3, <1>4 DEF LeastCost
<1>6. QED
  BY <1>5 DEF A, n, m

(* What the last word of p may become. *)
Finished(h, p, hp) ==
  { p[Len(p)] } \cup { h[k] : k \in { x \in DOMAIN h : hp /\ IsPrefix(Last(p), h[x]) } }

Ended(p, w) == [p EXCEPT ![Len(p)] = w]

EqualIs(B, h, p, w, n, m) ==
  \A k \in 1 .. n, l \in 1 .. m : << k, l >> \in B <=> h[k] = IF l = m THEN w ELSE p[l]

AlikeIs(A, h, p, hp, n, m) ==
  \A k \in 1 .. n, l \in 1 .. m :
    << k, l >> \in A <=> IF hp /\ l = m THEN IsPrefix(p[l], h[k]) ELSE h[k] = p[l]

LEMMA EndedFacts ==
  ASSUME NEW C, NEW h \in Seq(Seq(C)), NEW D, NEW p \in Seq(Seq(D)), NEW w,
         NEW n \in 0 .. Len(h)
  PROVE  /\ Len(Ended(p, w)) = Len(p) /\ Len(SubSeq(h, 1, n)) = n
         /\ EqualIs(Equal(SubSeq(h, 1, n), Ended(p, w)), h, p, w, n, Len(p))
<1>1. PICK m : m = Len(p) /\ m \in Nat
  OBVIOUS
<1>2. PICK q : q = Ended(p, w)
  OBVIOUS
<1>3. DOMAIN q = 1 .. m /\ \A l \in 1 .. m : q[l] = IF l = m THEN w ELSE p[l]
  BY <1>1, <1>2 DEF Ended
<1>4. Len(q) = m
  <2>1. p \in [1 .. m -> Seq(D)]
    BY <1>1
  <2>2. q \in [1 .. m -> Seq(D) \cup {w}]
    BY <1>1, <1>2, <2>1 DEF Ended
  <2>3. QED
    BY <1>1, <2>2, FunctionIsSeq
<1>5. PICK x : x = SubSeq(h, 1, n)
  OBVIOUS
<1>6. Len(x) = n /\ \A k \in 1 .. n : x[k] = h[k]
  BY <1>5
<1>7. QED
  BY <1>1, <1>2, <1>3, <1>4, <1>5, <1>6 DEF Equal, EqualIs

LEMMA AlikeFacts ==
  ASSUME NEW h, NEW p, NEW hp, Len(h) \in Nat, Len(p) \in Nat, NEW n \in 0 .. Len(h)
  PROVE  AlikeIs(Alike(h, p, hp), h, p, hp, n, Len(p))
<1>1. \A k \in 1 .. n : k \in 1 .. Len(h)
  OBVIOUS
<1>2. QED
  BY <1>1 DEF Alike, SameWord, AlikeIs

(* However its last word is finished, p is no nearer to the words than the *)
(* table says ...                                                          *)
LEMMA FinishedNoNearer ==
  ASSUME NEW C, NEW h \in Seq(Seq(C)), NEW D, NEW p \in Seq(Seq(D)), NEW hp,
         NEW n \in 0 .. Len(h), NEW w \in Finished(h, p, hp)
  PROVE  /\ Distance(SubSeq(h, 1, n), Ended(p, w)) \in Nat
         /\ LeastCost(Alike(h, p, hp), n, Len(p)) <= Distance(SubSeq(h, 1, n), Ended(p, w))
<1> DEFINE x == SubSeq(h, 1, n)
           q == Ended(p, w)
           A == Alike(h, p, hp)
           B == Equal(x, q)
<1>1. PICK m : m = Len(p) /\ m \in Nat
  OBVIOUS
<1>2. /\ Len(q) = m /\ Len(x) = n /\ n \in Nat
      /\ \A k \in 1 .. n, l \in 1 .. m :
            << k, l >> \in B <=> h[k] = IF l = m THEN w ELSE p[l]
  <2>1. Len(q) = Len(p) /\ Len(x) = n /\ EqualIs(B, h, p, w, n, Len(p))
    BY EndedFacts
  <2> HIDE DEF q, x, B
  <2>2. QED
    BY <1>1, <2>1 DEF EqualIs
<1>3. \A k \in 1 .. n, l \in 1 .. m :
        << k, l >> \in A <=> IF hp /\ l = m THEN IsPrefix(p[l], h[k]) ELSE h[k] = p[l]
  <2>1. AlikeIs(A, h, p, hp, n, Len(p))
    <3>1. Len(h) \in Nat /\ Len(p) \in Nat
      OBVIOUS
    <3>2. QED
      BY <3>1, AlikeFacts
  <2> HIDE DEF A
  <2>2. QED
    BY <1>1, <2>1 DEF AlikeIs
<1>4. m # 0 => /\ Last(p) = p[m]
               /\ hp => IsPrefix(p[m], w)
               /\ ~hp => w = p[m]
  <2>1. SUFFICES ASSUME m # 0 PROVE /\ Last(p) = p[m]
                                    /\ hp => IsPrefix(p[m], w)
                                    /\ ~hp => w = p[m]
    OBVIOUS
  <2>2. Last(p) = p[m]
    BY <1>1 DEF Last
  <2>3. m \in 1 .. Len(p)
    BY <1>1, <2>1
  <2>4. p[m] \in Seq(D)
    BY <2>3, ElementOf
  <2>5. IsPrefix(p[m], p[m])
    BY <2>4 DEF IsPrefix
  <2>6. w = p[m] \/ (hp /\ IsPrefix(p[m], w))
    BY <1>1, <2>2 DEF Finished
  <2>7. QED
    BY <2>2, <2>5, <2>6
<1> HIDE DEF A, B, x, q
<1>5. AgreesMore(B, A, n, m)
  <2>1. ASSUME NEW k \in 1 .. n, NEW l \in 1 .. m, << k, l >> \in B
        PROVE  << k, l >> \in A
    <3>1. h[k] = IF l = m THEN w ELSE p[l]
      BY <1>2, <2>1
    <3>2. << k, l >> \in A <=> IF hp /\ l = m THEN IsPrefix(p[l], h[k]) ELSE h[k] = p[l]
      BY <1>3
    <3>3. m # 0
      BY <1>1
    <3>4. QED
      BY <1>4, <3>1, <3>2, <3>3
  <2>2. QED
    BY <2>1 DEF AgreesMore
<1>6. LeastCost(A, n, m) <= LeastCost(B, n, m)
  BY <1>1, <1>2, <1>5, MoreAgreement
<1>7. LeastCost(B, n, m) \in Nat
  BY <1>1, <1>2, LeastCostFacts
<1>8. Distance(x, q) = LeastCost(B, n, m)
  BY <1>1, <1>2, DistanceLeast DEF B
<1>9. QED
  BY <1>1, <1>6, <1>7, <1>8 DEF A, x, q

(* ... and finished rightly it is as near. *)
LEMMA FinishedAsNear ==
  ASSUME NEW C, NEW h \in Seq(Seq(C)), NEW D, NEW p \in Seq(Seq(D)), NEW hp,
         NEW n \in 0 .. Len(h)
  PROVE  \E w \in Finished(h, p, hp) :
           Distance(SubSeq(h, 1, n), Ended(p, w)) <= LeastCost(Alike(h, p, hp), n, Len(p))
<1> DEFINE x == SubSeq(h, 1, n)
           A == Alike(h, p, hp)
<1>1. PICK m : m = Len(p) /\ m \in Nat /\ n \in Nat
  OBVIOUS
<1>2. \A k \in 1 .. n, l \in 1 .. m :
        << k, l >> \in A <=> IF hp /\ l = m THEN IsPrefix(p[l], h[k]) ELSE h[k] = p[l]
  <2>1. AlikeIs(A, h, p, hp, n, Len(p))
    <3>1. Len(h) \in Nat /\ Len(p) \in Nat
      OBVIOUS
    <3>2. QED
      BY <3>1, AlikeFacts
  <2> HIDE DEF A
  <2>2. QED
    BY <1>1, <2>1 DEF AlikeIs
<1>3. PICK f \in Crossless(n, m) : LeastCost(A, n, m) = PairingCost(A, n, m, f)
  BY <1>1, LeastCostFacts
<1>4. /\ f \in [1 .. n -> 0 .. m]
      /\ \A k, l \in 1 .. n : k < l /\ f[k] # 0 /\ f[l] # 0 => f[k] < f[l]
  BY DEF Crossless
<1> HIDE DEF A, x
<1>5. PICK w \in Finished(h, p, hp) :
        \A k \in 1 .. n : f[k] = m /\ m # 0 /\ << k, m >> \in A => h[k] = w
  <2>1. CASE hp /\ \E k \in 1 .. n : f[k] = m /\ m # 0 /\ << k, m >> \in A
    <3>1. PICK k \in 1 .. n : f[k] = m /\ m # 0 /\ << k, m >> \in A
      BY <2>1
    <3>2. m \in 1 .. m
      BY <1>1, <3>1
    <3>3. IsPrefix(p[m], h[k])
      BY <1>2, <2>1, <3>1, <3>2
    <3>4. Last(p) = p[m] /\ k \in DOMAIN h
      BY <1>1 DEF Last
    <3>5. h[k] \in Finished(h, p, hp)
      BY <2>1, <3>3, <3>4 DEF Finished
    <3>6. ASSUME NEW l \in 1 .. n, f[l] = m PROVE l = k
      <4>1. ~(l < k) /\ ~(k < l)
        <5>1. ~(f[l] < f[k]) /\ ~(f[k] < f[l]) /\ f[l] # 0 /\ f[k] # 0
          BY <1>1, <3>1, <3>6
        <5>2. QED
          BY <1>4, <5>1
      <4>2. QED
        BY <4>1
    <3>7. QED
      BY <3>5, <3>6
  <2>2. CASE ~(hp /\ \E k \in 1 .. n : f[k] = m /\ m # 0 /\ << k, m >> \in A)
    <3>1. p[m] \in Finished(h, p, hp)
      BY <1>1 DEF Finished
    <3>2. ASSUME NEW k \in 1 .. n, f[k] = m, m # 0, << k, m >> \in A PROVE h[k] = p[m]
      <4>1. m \in 1 .. m
        BY <1>1, <3>2
      <4>2. ~hp
        BY <2>2, <3>2
      <4>3. QED
        BY <1>2, <3>2, <4>1, <4>2
    <3>3. QED
      BY <3>1, <3>2
  <2>3. QED
    BY <2>1, <2>2
<1> DEFINE q == Ended(p, w)
           B == Equal(x, q)
<1>6. /\ Len(q) = m /\ Len(x) = n
      /\ \A k \in 1 .. n, l \in 1 .. m :
            << k, l >> \in B <=> h[k] = IF l = m THEN w ELSE p[l]
  <2>1. Len(q) = Len(p) /\ Len(x) = n /\ EqualIs(B, h, p, w, n, Len(p))
    BY EndedFacts DEF x
  <2> HIDE DEF q, x, B
  <2>2. QED
    BY <1>1, <2>1 DEF EqualIs
<1>7. Distance(x, q) = LeastCost(B, n, m)
  BY <1>1, <1>6, DistanceLeast
<1> HIDE DEF q, B
<1>8. ASSUME NEW k \in Beside(f, n), << k, f[k] >> \in A PROVE << k, f[k] >> \in B
  <2>1. k \in 1 .. n /\ f[k] \in 1 .. m
    BY <1>4 DEF Beside
  <2>2. CASE f[k] = m
    <3>1. m # 0
      BY <1>1, <2>1, <2>2
    <3>2. h[k] = w
      BY <1>5, <1>8, <2>1, <2>2, <3>1
    <3>3. QED
      BY <1>6, <2>1, <2>2, <3>2
  <2>3. CASE f[k] # m
    <3>1. h[k] = p[f[k]]
      BY <1>2, <1>8, <2>1, <2>3
    <3>2. QED
      BY <1>6, <2>1, <2>3, <3>1
  <2>4. QED
    BY <2>2, <2>3
<1>9. PairingCost(B, n, m, f) <= PairingCost(A, n, m, f)
  <2>1. Unlike(B, f, n) \subseteq Unlike(A, f, n)
    BY <1>8 DEF Unlike
  <2>2. /\ IsFiniteSet(Unlike(A, f, n)) /\ Cardinality(Unlike(A, f, n)) \in Nat
        /\ Cardinality(Unlike(B, f, n)) \in Nat /\ Cardinality(Beside(f, n)) \in Nat
    BY <1>1, BesideType
  <2>3. Cardinality(Unlike(B, f, n)) <= Cardinality(Unlike(A, f, n))
    BY <2>1, <2>2, FS_Subset
  <2>4. QED
    BY <1>1, <2>2, <2>3 DEF PairingCost
<1>10. LeastCost(B, n, m) <= PairingCost(B, n, m, f)
  BY <1>1, LeastCostFacts
<1>11. /\ LeastCost(B, n, m) \in Nat /\ LeastCost(A, n, m) \in Nat
       /\ PairingCost(B, n, m, f) \in Int
  <2>1. LeastCost(B, n, m) \in Nat /\ LeastCost(A, n, m) \in Nat
    BY <1>1, LeastCostFacts
  <2>2. Cardinality(Beside(f, n)) \in Nat /\ Cardinality(Unlike(B, f, n)) \in Nat
    BY <1>1, BesideType
  <2>3. PairingCost(B, n, m, f) \in Int
    BY <1>1, <2>2 DEF PairingCost
  <2>4. QED
    BY <2>1, <2>3
<1>12. LeastCost(B, n, m) <= LeastCost(A, n, m)
  BY <1>3, <1>9, <1>10, <1>11
<1>13. QED
  BY <1>1, <1>7, <1>12 DEF A, x, q

(* What the help for n words costs: the distance, finished in the best way. *)
HelpCosts(h, p, hp, n) ==
  WordPrefixConsumed(h, p, hp)[n + 1]
    = Min({ Distance(SubSeq(h, 1, n), Ended(p, w)) : w \in Finished(h, p, hp) })

LEMMA HelpRight ==
  ASSUME NEW C, NEW h \in Seq(Seq(C)), NEW D, NEW p \in Seq(Seq(D)), NEW hp,
         NEW n \in 0 .. Len(h)
  PROVE  HelpCosts(h, p, hp, n)
<1> DEFINE v == LeastCost(Alike(h, p, hp), n, Len(p))
           Near(w) == Distance(SubSeq(h, 1, n), Ended(p, w))
           S == { Near(w) : w \in Finished(h, p, hp) }
<1>0. Len(h) \in Nat /\ Len(p) \in Nat /\ n \in Nat
  OBVIOUS
<1>1. WordPrefixConsumed(h, p, hp)[n + 1] = v
  BY <1>0, WordCostsLeast
<1>2. \A w \in Finished(h, p, hp) : Near(w) \in Nat /\ v <= Near(w)
  BY FinishedNoNearer
<1>3. PICK w \in Finished(h, p, hp) : Near(w) <= v
  BY FinishedAsNear
<1>4. v \in Nat
  BY <1>0, LeastCostFacts
<1> HIDE DEF v, Near
<1>5. Near(w) = v
  BY <1>2, <1>3, <1>4
<1>6. v \in S /\ \A y \in S : y \in Int /\ v <= y
  BY <1>2, <1>5
<1> HIDE DEF S
<1>7. Min(S) = v
  BY <1>6, MinIs
<1>8. QED
  BY ONLY <1>1, <1>7 DEF S, Near, HelpCosts

-------------------------------------------------------------------------
(* Vectors. *)

Coordinates == DOMAIN InitialWeights

Vectors == [Coordinates -> Int]

LEMMA CoordinatesFinite == IsFiniteSet(Coordinates)
<1>1. PICK n \in Nat : Coordinates = 1 .. n
  BY WeightsAssumption DEF Coordinates
<1>2. QED
  BY <1>1, FS_Interval

LEMMA ProductType ==
  ASSUME NEW x \in Vectors, NEW y \in Vectors
  PROVE  InnerProduct(x, y) \in Int
<1> DEFINE f == [i \in DOMAIN x |-> x[i] * y[i]]
<1>1. DOMAIN x = Coordinates /\ \A i \in Coordinates : x[i] \in Int /\ y[i] \in Int
  BY DEF Vectors
<1>2. \A i \in Coordinates : f[i] \in Int
  BY <1>1
<1> HIDE DEF f
<1>3. SumFunctionOnSet(f, Coordinates) \in Int
  BY <1>2, CoordinatesFinite, SumType
<1>4. QED
  BY <1>1, <1>3 DEF InnerProduct, f

(* Where z is a combination of x and y, coordinate by coordinate. *)
Mixes(z, a, x, b, y) == \A i \in Coordinates : z[i] = a * x[i] + b * y[i]

LEMMA ProductLinear ==
  ASSUME NEW x \in Vectors, NEW y \in Vectors, NEW z \in Vectors, NEW v \in Vectors,
         NEW a \in Int, NEW b \in Int, Mixes(z, a, x, b, y)
  PROVE  /\ InnerProduct(z, v) = a * InnerProduct(x, v) + b * InnerProduct(y, v)
         /\ InnerProduct(v, z) = a * InnerProduct(v, x) + b * InnerProduct(v, y)
<1>1. \A i \in Coordinates : x[i] \in Int /\ y[i] \in Int /\ z[i] \in Int /\ v[i] \in Int
  BY DEF Vectors
<1>2. /\ DOMAIN x = Coordinates /\ DOMAIN y = Coordinates
      /\ DOMAIN z = Coordinates /\ DOMAIN v = Coordinates
  BY DEF Vectors
<1> DEFINE zv == [i \in DOMAIN z |-> z[i] * v[i]]
           xv == [i \in DOMAIN x |-> x[i] * v[i]]
           yv == [i \in DOMAIN y |-> y[i] * v[i]]
           vz == [i \in DOMAIN v |-> v[i] * z[i]]
           vx == [i \in DOMAIN v |-> v[i] * x[i]]
           vy == [i \in DOMAIN v |-> v[i] * y[i]]
<1>3. ASSUME NEW i \in Coordinates
      PROVE  /\ xv[i] \in Int /\ yv[i] \in Int /\ zv[i] = a * xv[i] + b * yv[i]
             /\ vx[i] \in Int /\ vy[i] \in Int /\ vz[i] = a * vx[i] + b * vy[i]
  <2>1. /\ xv[i] = x[i] * v[i] /\ yv[i] = y[i] * v[i] /\ zv[i] = z[i] * v[i]
        /\ vx[i] = v[i] * x[i] /\ vy[i] = v[i] * y[i] /\ vz[i] = v[i] * z[i]
    BY <1>2
  <2>2. PICK p, q, r : p = x[i] /\ q = y[i] /\ r = v[i]
    OBVIOUS
  <2>3. p \in Int /\ q \in Int /\ r \in Int
    BY <1>1, <2>2
  <2>4. z[i] = a * p + b * q
    BY <2>2 DEF Mixes
  <2>5. /\ (a * p + b * q) * r = a * (p * r) + b * (q * r)
        /\ r * (a * p + b * q) = a * (r * p) + b * (r * q)
        /\ p * r \in Int /\ q * r \in Int /\ r * p \in Int /\ r * q \in Int
    BY <2>3
  <2> HIDE DEF xv, yv, zv, vx, vy, vz
  <2>6. QED
    BY <2>1, <2>2, <2>4, <2>5
<1> HIDE DEF xv, yv, zv, vx, vy, vz
<1>4. Combines(zv, a, xv, b, yv, Coordinates) /\ Combines(vz, a, vx, b, vy, Coordinates)
  BY <1>3 DEF Combines
<1>5. /\ SumFunctionOnSet(zv, Coordinates)
           = a * SumFunctionOnSet(xv, Coordinates) + b * SumFunctionOnSet(yv, Coordinates)
      /\ SumFunctionOnSet(vz, Coordinates)
           = a * SumFunctionOnSet(vx, Coordinates) + b * SumFunctionOnSet(vy, Coordinates)
  BY <1>4, CoordinatesFinite, SumLinear
<1>6. /\ InnerProduct(z, v) = SumFunctionOnSet(zv, Coordinates)
      /\ InnerProduct(x, v) = SumFunctionOnSet(xv, Coordinates)
      /\ InnerProduct(y, v) = SumFunctionOnSet(yv, Coordinates)
      /\ InnerProduct(v, z) = SumFunctionOnSet(vz, Coordinates)
      /\ InnerProduct(v, x) = SumFunctionOnSet(vx, Coordinates)
      /\ InnerProduct(v, y) = SumFunctionOnSet(vy, Coordinates)
  BY <1>2 DEF InnerProduct, xv, yv, zv, vx, vy, vz
<1>7. QED
  BY <1>5, <1>6

LEMMA CombinedFacts ==
  ASSUME NEW x \in Vectors, NEW y \in Vectors, NEW a \in Int, NEW b \in Int
  PROVE  /\ Combined(a, x, b, y) \in Vectors
         /\ Mixes(Combined(a, x, b, y), a, x, b, y)
         /\ Minus(x, y) \in Vectors
         /\ Mixes(Minus(x, y), 1, x, -1, y)
         /\ Signs(x) \in Vectors
<1>1. DOMAIN x = Coordinates /\ \A i \in Coordinates : x[i] \in Int /\ y[i] \in Int
  BY DEF Vectors
<1>2. \A i \in Coordinates : a * x[i] + b * y[i] \in Int /\ x[i] - y[i] \in Int
  BY <1>1
<1>3. \A i \in Coordinates : x[i] - y[i] = 1 * x[i] + (-1) * y[i]
  BY <1>1
<1>4. Combined(a, x, b, y) = [i \in Coordinates |-> a * x[i] + b * y[i]]
  BY <1>1 DEF Combined
<1>5. Combined(a, x, b, y) \in Vectors /\ Mixes(Combined(a, x, b, y), a, x, b, y)
  BY <1>2, <1>4 DEF Vectors, Mixes
<1>6. Minus(x, y) = [i \in Coordinates |-> x[i] - y[i]]
  BY <1>1 DEF Minus
<1>7. Minus(x, y) \in Vectors /\ Mixes(Minus(x, y), 1, x, -1, y)
  BY <1>2, <1>3, <1>6 DEF Vectors, Mixes
<1>8. Signs(x) \in Vectors
  BY <1>1 DEF Signs, Vectors
<1>9. QED
  BY <1>5, <1>7, <1>8

(* A sum of products that are not negative, and positive where x is not 0, *)
(* is positive unless x is 0 everywhere.                                   *)
LEMMA ProductPositive ==
  ASSUME NEW x \in Vectors, NEW y \in Vectors,
         \A i \in Coordinates : x[i] * y[i] >= 0 /\ (y[i] # 0 => x[i] * y[i] > 0)
  PROVE  /\ InnerProduct(x, y) \in Int /\ InnerProduct(x, y) >= 0
         /\ (\E i \in Coordinates : y[i] # 0) => InnerProduct(x, y) > 0
<1> DEFINE f == [i \in DOMAIN x |-> x[i] * y[i]]
<1>1. DOMAIN x = Coordinates /\ \A i \in Coordinates : x[i] \in Int /\ y[i] \in Int
  BY DEF Vectors
<1>2. \A i \in Coordinates : f[i] \in Int /\ f[i] >= 0 /\ (y[i] # 0 => f[i] > 0)
  BY <1>1
<1> HIDE DEF f
<1>3. /\ SumFunctionOnSet(f, Coordinates) \in Int /\ SumFunctionOnSet(f, Coordinates) >= 0
      /\ \A i \in Coordinates : SumFunctionOnSet(f, Coordinates) >= f[i]
  BY <1>2, CoordinatesFinite, SumAtLeast
<1>4. InnerProduct(x, y) = SumFunctionOnSet(f, Coordinates)
  BY <1>1 DEF InnerProduct, f
<1>5. QED
  BY <1>2, <1>3, <1>4

LEMMA Squares ==
  ASSUME NEW x \in Vectors
  PROVE  /\ InnerProduct(x, x) \in Int /\ InnerProduct(x, x) >= 0
         /\ InnerProduct(Signs(x), x) \in Int
         /\ (\E i \in Coordinates : x[i] # 0) =>
              InnerProduct(x, x) > 0 /\ InnerProduct(Signs(x), x) > 0
<1>1. DOMAIN x = Coordinates /\ \A i \in Coordinates : x[i] \in Int
  BY DEF Vectors
<1>2. \A i \in Coordinates : x[i] * x[i] >= 0 /\ (x[i] # 0 => x[i] * x[i] > 0)
  <2>1. \A u \in Int : u * u >= 0 /\ (u # 0 => u * u > 0)
    <3>1. \A u \in Int : u > 0 => u * u > 0
      OBVIOUS
    <3>2. \A u \in Int : u < 0 => u * u > 0
      OBVIOUS
    <3>3. \A u \in Int : u = 0 => u * u = 0
      OBVIOUS
    <3>4. QED
      BY <3>1, <3>2, <3>3
  <2>2. QED
    BY <1>1, <2>1
<1>3. ASSUME NEW i \in Coordinates
      PROVE  Signs(x)[i] * x[i] >= 0 /\ (x[i] # 0 => Signs(x)[i] * x[i] > 0)
  <2>1. Signs(x)[i] = IF x[i] > 0 THEN 1 ELSE IF x[i] < 0 THEN -1 ELSE 0
    BY <1>1 DEF Signs
  <2>2. x[i] \in Int
    BY <1>1
  <2>3. PICK u, s : u = x[i] /\ s = Signs(x)[i]
    OBVIOUS
  <2>4. s = 1 \/ s = -1 \/ s = 0
    BY <2>1, <2>3
  <2>5. s * u >= 0 /\ (u # 0 => s * u > 0)
    BY <2>1, <2>2, <2>3, <2>4
  <2>6. QED
    BY <2>3, <2>5
<1>4. Signs(x) \in Vectors
  BY CombinedFacts, 1 \in Int
<1>5. /\ InnerProduct(x, x) \in Int /\ InnerProduct(x, x) >= 0
      /\ (\E i \in Coordinates : x[i] # 0) => InnerProduct(x, x) > 0
  BY <1>2, ProductPositive
<1>6. /\ InnerProduct(Signs(x), x) \in Int
      /\ (\E i \in Coordinates : x[i] # 0) => InnerProduct(Signs(x), x) > 0
  BY <1>3, <1>4, ProductPositive
<1>7. QED
  BY <1>5, <1>6

-------------------------------------------------------------------------
(* What the learner keeps. *)

Listed == [text : Texts, features : Vectors]

Lesson ==
  { l \in [paths : SUBSET Listed, ref : Texts] : IsFiniteSet(l.paths) /\ l.paths # {} }

(* What the user types is counted: a round turns as many letters as it     *)
(* counts actions, or more.                                                *)
Counted ==
  /\ ref \in Texts
  /\ idx \in Nat /\ ks \in Nat /\ ma \in Nat
  /\ ks + ma <= idx
  /\ idx <= Len(ref) + 1 \/ idx <= Bytes(ref)

(* The costs belong to the first translations, and those of WER are the    *)
(* distances.                                                              *)
Judged ==
  /\ nBestList \in Seq(Listed) /\ cost \in Seq(Int) /\ Len(cost) <= Len(nBestList)
  /\ m_metric = "WER" =>
       \A i \in 1 .. Len(cost) : cost[i] = Distance(Words(nBestList[i].text), Words(ref))

(* The first translation is the decoder's best. *)
Ranked(list, w) ==
  /\ Len(list) > 0
  /\ \A j \in 1 .. Len(list) : Score(w, list[1]) >= Score(w, list[j])

Trying ==
  /\ m_metric = "KSMR" /\ Len(cost) < Len(nBestList)
  /\ \E t \in Texts : hyp = Append(t, Space)

IInv ==
  /\ lessons \in Seq(Lesson) /\ m_method \in Methods
  /\ weights \in [num : Vectors, den : Nat \ {0}]
  /\ Judged
  /\ pc # "idle" => ref \in Texts /\ Ranked(nBestList, weights)
  /\ pc \in {"typing", "done"} => Counted /\ Trying

(* A text is a sequence. *)
LEMMA TextHasLength == ASSUME NEW t \in Texts PROVE Len(t) \in Nat
<1>1. t \in Seq({ t[k] : k \in DOMAIN t })
  BY TextsAssumption
<1>2. QED
  BY <1>1

(* The list is made of the paths, and the decoder's best is its first. *)
LEMMA ListMade ==
  ASSUME weights \in [num : Vectors, den : Nat \ {0}],
         NEW P, P \subseteq Listed, IsFiniteSet(P), P # {}, NEW q \in NBestLists(P)
  PROVE  q \in Seq(Listed) /\ Ranked(q, weights)
<1>1. PICK s \in SetToSeqs(P) :
        /\ q = SubSeq(s, 1, Min({nBestSize, Len(s)}))
        /\ \A i \in 1 .. Len(s) - 1 : Score(weights, s[i]) >= Score(weights, s[i + 1])
  BY DEF NBestLists
<1>2. PICK n : n = Cardinality(P) /\ n \in Nat
  BY FS_CardinalityType
<1>3. n > 0
  BY <1>2, FS_EmptySet
<1>4. s \in [1 .. n -> P]
  BY <1>2 DEF SetToSeqs
<1>5. s \in Seq(P) /\ Len(s) = n
  BY <1>2, <1>4, FunctionIsSeq
<1>6. \A k \in 1 .. n : s[k] \in Listed
  BY <1>4
<1>7. \A k \in 1 .. n : Score(weights, s[k]) \in Int
  <2>1. ASSUME NEW x \in Listed PROVE Score(weights, x) \in Int
    <3>1. x.features \in Vectors /\ weights.num \in Vectors
      BY DEF Listed
    <3>2. QED
      BY <3>1, ProductType DEF Score
  <2>2. QED
    BY <1>6, <2>1
<1> DEFINE Good == { k \in Nat : k \in 1 .. n => Score(weights, s[1]) >= Score(weights, s[k]) }
<1>8. ASSUME NEW k \in Nat, \A j \in 0 .. k - 1 : j \in Good PROVE k \in Good
  <2>1. SUFFICES ASSUME k \in 1 .. n PROVE Score(weights, s[1]) >= Score(weights, s[k])
    OBVIOUS
  <2>2. CASE k = 1
    BY <1>7, <2>1, <2>2
  <2>3. CASE k # 1
    <3>1. PICK j : j = k - 1 /\ j \in 1 .. n /\ j \in 0 .. k - 1 /\ j \in 1 .. Len(s) - 1
                   /\ j + 1 = k
      BY <1>2, <1>5, <2>1, <2>3
    <3>2. Score(weights, s[1]) >= Score(weights, s[j])
      BY <1>8, <3>1
    <3>3. Score(weights, s[j]) >= Score(weights, s[k])
      BY <1>1, <3>1
    <3>4. 1 \in 1 .. n
      BY <1>2, <1>3
    <3>5. /\ Score(weights, s[1]) \in Int /\ Score(weights, s[j]) \in Int
          /\ Score(weights, s[k]) \in Int
      BY <1>7, <2>1, <3>1, <3>4
    <3>6. PICK a, b, c : a = Score(weights, s[1]) /\ b = Score(weights, s[j])
                         /\ c = Score(weights, s[k])
      OBVIOUS
    <3>7. QED
      BY <3>2, <3>3, <3>5, <3>6
  <2>4. QED
    BY <2>2, <2>3
<1>9. \A k \in 1 .. n : Score(weights, s[1]) >= Score(weights, s[k])
  <2> HIDE DEF Good
  <2>1. \A k \in Nat : k \in Good
    BY <1>8, StrongInduction
  <2>2. \A k \in 1 .. n : k \in Nat
    BY <1>2
  <2>3. QED
    BY <2>1, <2>2 DEF Good
<1>10. PICK m : m = Min({nBestSize, n}) /\ m \in 1 .. n
  <2>1. nBestSize \in Nat /\ nBestSize > 0
    BY NumbersAssumption
  <2>2. {nBestSize, n} \subseteq Nat /\ {nBestSize, n} # {}
    BY <1>2, <2>1
  <2>3. Min({nBestSize, n}) \in {nBestSize, n} /\ \A x \in {nBestSize, n} : Min({nBestSize, n}) <= x
    BY <2>2, MinIn
  <2>4. PICK m : m = Min({nBestSize, n})
    OBVIOUS
  <2>5. (m = nBestSize \/ m = n) /\ m <= n
    BY <2>3, <2>4
  <2>6. m \in 1 .. n
    BY <1>2, <1>3, <2>1, <2>5
  <2>7. QED
    BY <2>4, <2>6
<1>11. q = SubSeq(s, 1, m)
  BY <1>1, <1>5, <1>10
<1>12. q \in Seq(P) /\ Len(q) = m /\ \A k \in 1 .. m : q[k] = s[k]
  <2>1. m \in Nat /\ m <= n /\ 1 <= m
    BY <1>2, <1>10
  <2>2. s \in Seq(P) /\ 1 \in 1 .. Len(s) + 1 /\ m \in 0 .. Len(s)
    BY <1>2, <1>5, <2>1
  <2>3. Len(q) = m
    BY <1>11, <2>1, <2>2
  <2>4. q \in Seq(P)
    BY <1>11, <2>1, <2>2
  <2>5. \A k \in 1 .. m : q[k] = s[k]
    BY <1>11, <2>1, <2>2
  <2>6. QED
    BY <2>3, <2>4, <2>5
<1>13. q \in Seq(Listed)
  <2>1. q \in [1 .. m -> Listed]
    BY <1>2, <1>6, <1>10, <1>12
  <2>2. m \in Nat
    BY <1>10
  <2>3. QED
    BY <2>1, <2>2, FunctionIsSeq
<1>14. Ranked(q, weights)
  <2>1. 1 \in 1 .. m /\ m > 0
    BY <1>10
  <2>2. q[1] = s[1]
    BY <1>12, <2>1
  <2>3. ASSUME NEW j \in 1 .. m PROVE Score(weights, q[1]) >= Score(weights, q[j])
    <3>1. q[j] = s[j]
      BY <1>12
    <3>2. j \in 1 .. n
      BY <1>2, <1>10
    <3>3. QED
      BY <1>9, <2>2, <3>1, <3>2
  <2>4. QED
    BY <1>12, <2>1, <2>3 DEF Ranked
<1>15. QED
  BY <1>13, <1>14

(* The costs of WER. *)
LEMMA WERRight ==
  ASSUME NEW t \in Texts, NEW r \in Texts, NEW h, h = Filled(Append(t, Space))
  PROVE  /\ WordPrefixConsumed(h, Filled(r), FALSE)[Len(h) + 1] = Distance(Words(t), Words(r))
         /\ Distance(Words(t), Words(r)) \in Nat
<1>1. PICK x : x = Words(t)
  OBVIOUS
<1>2. PICK y : y = Words(r)
  OBVIOUS
<1>3. h = x /\ Filled(r) = y
  BY <1>1, <1>2, FilledText
<1>4. Len(x) \in Nat /\ Len(y) \in Nat
  <2>1. ASSUME NEW u \in Texts PROVE Len(Words(u)) \in Nat
    <3>1. PICK C : u \in Seq(C)
      BY FilledText
    <3>2. QED
      BY <3>1, CutsFacts, WordsFacts
  <2>2. QED
    BY <1>1, <1>2, <2>1
<1>5. Alike(x, y, FALSE) = Equal(x, y)
  BY DEF Alike, Equal, SameWord
<1>6. Len(x) \in 0 .. Len(x)
  BY <1>4
<1>7. WordPrefixConsumed(x, y, FALSE)[Len(x) + 1] = LeastCost(Alike(x, y, FALSE), Len(x), Len(y))
  BY <1>4, <1>6, WordCostsLeast
<1>8. Distance(x, y) = LeastCost(Equal(x, y), Len(x), Len(y))
  BY <1>4, DistanceLeast
<1>9. Distance(x, y) \in Nat
  BY <1>4, <1>8, LeastCostFacts
<1>10. QED
  BY <1>1, <1>2, <1>3, <1>5, <1>7, <1>8, <1>9

(* What the reference and an offer share is no longer than what is left of *)
(* the reference, whatever is offered.                                     *)
LEMMA AgreementWithinReference ==
  ASSUME ref \in Texts, idx \in Nat, NEW s
  PROVE  /\ Agreement(s) \in Nat
         /\ Agreement(s) = 0 \/ Agreement(s) <= Len(ref) - idx
<1> DEFINE left == Max({0, Len(ref) - idx})
           S    == { n \in 0 .. left :
                       1 .. n \subseteq DOMAIN s /\ \A k \in 1 .. n : ref[idx + k] = s[k] }
<1>1. Len(ref) \in Nat
  BY TextHasLength
<1>2. left \in Nat /\ (left = 0 \/ left = Len(ref) - idx)
  BY <1>1 DEF Max
<1>3. 0 \in S
  BY <1>2
<1>4. Max(S) \in S
  BY <1>2, <1>3, MaxIn
<1>5. Max(S) \in 0 .. left
  BY <1>4
<1>6. QED
  BY <1>1, <1>2, <1>5 DEF Agreement

(* A round turns as many letters as it counts actions, or more. *)
LEMMA RoundCounts == ASSUME Counted, Round PROVE Counted'
<1> DEFINE n == Agreement(getBestSuffix(Prefix))
<1>1. /\ idx' = idx + n + 1 /\ ks' = ks + 1
      /\ ma' = IF n > 0 THEN ma + 1 ELSE ma
      /\ ref' = ref /\ idx < Bytes(ref)
  BY DEF Round
<1>2. n \in Nat /\ (n = 0 \/ n <= Len(ref) - idx)
  BY AgreementWithinReference DEF Counted
<1>3. Len(ref) \in Nat /\ Bytes(ref) \in Nat /\ idx \in Nat
  BY TextHasLength, BytesAssumption DEF Counted
<1>4. idx' \in Nat /\ ks' \in Nat /\ ma' \in Nat /\ ks' + ma' <= idx'
  BY <1>1, <1>2 DEF Counted
<1>5. idx' <= Len(ref) + 1 \/ idx' <= Bytes(ref)
  <2>1. CASE n = 0
    BY <2>1, <1>1, <1>3
  <2>2. CASE n <= Len(ref) - idx
    BY <2>2, <1>1, <1>2, <1>3
  <2>3. QED
    BY <2>1, <2>2, <1>2
<1>6. Bytes(ref)' = Bytes(ref)
  BY <1>1
<1>7. QED
  BY <1>1, <1>4, <1>5, <1>6 DEF Counted

(* A step of the user or of the system's help leaves the learner's state.  *)
LEMMA Undisturbed ==
  ASSUME IInv, UNCHANGED << lessons, m_method, m_metric, weights, nBestList, cost, ref >>
  PROVE  /\ lessons' \in Seq(Lesson) /\ m_method' \in Methods
         /\ weights' \in [num : Vectors, den : Nat \ {0}]
         /\ Judged' /\ (Ranked(nBestList, weights) => Ranked(nBestList, weights)')
<1>1. /\ lessons' = lessons /\ m_method' = m_method /\ m_metric' = m_metric
      /\ weights' = weights /\ nBestList' = nBestList /\ cost' = cost /\ ref' = ref
  OBVIOUS
<1>2. Judged'
  BY <1>1 DEF IInv, Judged
<1>3. Ranked(nBestList, weights) => Ranked(nBestList, weights)'
  BY <1>1 DEF Ranked
<1>4. QED
  BY <1>1, <1>2, <1>3 DEF IInv

LEMMA StartLearningKeeps == ASSUME IInv, StartLearning PROVE IInv'
<1>1. /\ pc = "idle" /\ lessons # << >> /\ ref' = Head(lessons).ref
      /\ nBestList' \in NBestLists(Head(lessons).paths)
      /\ lessons' = Tail(lessons) /\ cost' = << >> /\ pc' = "judging"
      /\ m_method' = m_method /\ m_metric' = m_metric /\ weights' = weights
  BY DEF StartLearning
<1>2. lessons \in Seq(Lesson) /\ m_method \in Methods
      /\ weights \in [num : Vectors, den : Nat \ {0}]
  BY DEF IInv
<1>3. PICK l : l = Head(lessons) /\ l \in Lesson
  BY <1>1, <1>2
<1>4. /\ l.paths \subseteq Listed /\ IsFiniteSet(l.paths) /\ l.paths # {}
      /\ l.ref \in Texts
  BY <1>3 DEF Lesson
<1>5. nBestList' \in Seq(Listed) /\ Ranked(nBestList', weights)
  BY <1>1, <1>2, <1>3, <1>4, ListMade
<1>6. Tail(lessons) \in Seq(Lesson)
  BY <1>1, <1>2
<1>7. Judged'
  <2>1. Len(cost') = 0 /\ cost' \in Seq(Int) /\ 1 .. Len(cost') = {}
    BY <1>1
  <2>2. Len(nBestList') >= 0
    BY <1>5
  <2>3. QED
    BY <1>5, <2>1, <2>2 DEF Judged
<1>8. Ranked(nBestList', weights')
  BY <1>1, <1>5
<1>9. QED
  BY <1>1, <1>2, <1>3, <1>4, <1>6, <1>7, <1>8 DEF IInv

LEMMA StartTypingKeeps == ASSUME IInv, StartTyping PROVE IInv'
<1>1. /\ pc = "judging" /\ Len(cost) < Len(nBestList) /\ m_metric = "KSMR"
      /\ hyp' = NextText /\ idx' = 0 /\ ks' = 0 /\ ma' = 0 /\ pc' = "typing" /\ ref' = ref
      /\ UNCHANGED << lessons, m_method, m_metric, weights, nBestList, cost >>
  BY DEF StartTyping, Judging, learnerVars
<1>2. ref \in Texts /\ Ranked(nBestList, weights) /\ Judged
  BY <1>1 DEF IInv
<1>3. Counted'
  BY <1>1, <1>2, TextHasLength DEF Counted
<1>4. \E t \in Texts : hyp' = Append(t, Space)
  <2>1. Len(cost) + 1 \in 1 .. Len(nBestList) /\ nBestList \in Seq(Listed)
    BY <1>1, <1>2 DEF Judged
  <2>2. nBestList[Len(cost) + 1] \in Listed
    BY <2>1, ElementOf
  <2>3. nBestList[Len(cost) + 1].text \in Texts
    BY <2>2 DEF Listed
  <2>4. QED
    BY <1>1, <2>3 DEF NextText
<1>5. Trying'
  BY <1>1, <1>4 DEF Trying
<1>6. QED
  BY <1>1, <1>2, <1>3, <1>5, Undisturbed DEF IInv

LEMMA TypingKeeps == ASSUME IInv, Typing PROVE IInv'
<1>1. /\ pc = "typing" /\ hyp' = hyp /\ ref' = ref /\ pc' \in {"typing", "done"}
      /\ UNCHANGED << lessons, m_method, m_metric, weights, nBestList, cost >>
  BY DEF Typing, Types, Round, Result, learnerVars
<1>2. Counted /\ Trying /\ ref \in Texts /\ Ranked(nBestList, weights)
  BY <1>1 DEF IInv
<1>3. Counted'
  <2>1. CASE Round
    BY <1>2, <2>1, RoundCounts
  <2>2. CASE Result
    BY <1>2, <2>2 DEF Result, Counted
  <2>3. QED
    BY <2>1, <2>2 DEF Typing, Types
<1>4. Trying'
  BY <1>1, <1>2 DEF Trying
<1>5. QED
  BY <1>1, <1>2, <1>3, <1>4, Undisturbed DEF IInv

LEMMA EndTypingKeeps == ASSUME IInv, EndTyping PROVE IInv'
<1>1. /\ pc = "done" /\ cost' = Append(cost, ks + ma) /\ pc' = "judging"
      /\ lessons' = lessons /\ m_method' = m_method /\ m_metric' = m_metric
      /\ weights' = weights /\ nBestList' = nBestList /\ ref' = ref
  BY DEF EndTyping, userVars
<1>2. Counted /\ Trying /\ ref \in Texts /\ Ranked(nBestList, weights) /\ Judged
  BY <1>1 DEF IInv
<1>3. Judged'
  <2>1. ks + ma \in Int
    BY <1>2 DEF Counted
  <2>2. cost \in Seq(Int) /\ Len(cost) < Len(nBestList) /\ nBestList \in Seq(Listed)
    BY <1>2 DEF Judged, Trying
  <2>3. cost' \in Seq(Int) /\ Len(cost') <= Len(nBestList)
    BY <1>1, <2>1, <2>2
  <2>4. m_metric' # "WER"
    BY <1>1, <1>2 DEF Trying
  <2>5. QED
    BY <1>1, <2>2, <2>3, <2>4 DEF Judged
<1>4. Ranked(nBestList', weights')
  BY <1>1, <1>2
<1>5. QED
  BY <1>1, <1>2, <1>3, <1>4 DEF IInv

LEMMA GetWERKeeps == ASSUME IInv, GetWER PROVE IInv'
<1>1. PICK h : /\ h = Filled(NextText)
               /\ cost' = Append(cost, WordPrefixConsumed(h, Filled(ref), FALSE)[Len(h) + 1])
  BY DEF GetWER
<1>2. /\ pc = "judging" /\ Len(cost) < Len(nBestList) /\ m_metric = "WER"
      /\ pc' = "judging" /\ ref' = ref
      /\ lessons' = lessons /\ m_method' = m_method /\ m_metric' = m_metric
      /\ weights' = weights /\ nBestList' = nBestList
  BY DEF GetWER, Judging, userVars
<1>3. ref \in Texts /\ Ranked(nBestList, weights) /\ Judged
  BY <1>2 DEF IInv
<1>4. PICK n : n = Len(cost) /\ n \in Nat
  BY <1>3 DEF Judged
<1>5. nBestList \in Seq(Listed) /\ cost \in Seq(Int) /\ n + 1 \in 1 .. Len(nBestList)
  BY <1>2, <1>3, <1>4 DEF Judged
<1>6. PICK t : t = nBestList[n + 1].text /\ t \in Texts
  <2>1. nBestList[n + 1] \in Listed
    BY <1>5, ElementOf
  <2>2. QED
    BY <2>1 DEF Listed
<1>7. h = Filled(Append(t, Space))
  BY <1>1, <1>4, <1>6 DEF NextText
<1>8. PICK d : d = Distance(Words(t), Words(ref)) /\ d \in Int /\ cost' = Append(cost, d)
  <2>1. Distance(Words(t), Words(ref)) \in Nat
    BY <1>3, <1>6, <1>7, WERRight
  <2>2. WordPrefixConsumed(h, Filled(ref), FALSE)[Len(h) + 1] = Distance(Words(t), Words(ref))
    BY <1>3, <1>6, <1>7, WERRight
  <2>3. PICK v : v = WordPrefixConsumed(h, Filled(ref), FALSE)[Len(h) + 1]
    OBVIOUS
  <2>4. cost' = Append(cost, v)
    BY <1>1, <2>3
  <2>5. v = Distance(Words(t), Words(ref))
    BY <2>2, <2>3
  <2>6. v \in Int
    BY <2>1, <2>5
  <2>7. QED
    BY <2>4, <2>5, <2>6
<1>9. /\ cost' \in Seq(Int) /\ Len(cost') = n + 1 /\ cost'[n + 1] = d
      /\ \A i \in 1 .. n : cost'[i] = cost[i]
  BY <1>4, <1>5, <1>8
<1>10. Judged'
  <2>1. ASSUME NEW i \in 1 .. n + 1
        PROVE  cost'[i] = Distance(Words(nBestList[i].text), Words(ref))
    <3>1. CASE i = n + 1
      BY <1>6, <1>8, <1>9, <3>1
    <3>2. CASE i # n + 1
      <4>1. i \in 1 .. n
        BY <1>4, <3>2
      <4>2. cost[i] = Distance(Words(nBestList[i].text), Words(ref))
        BY <1>2, <1>3, <1>4, <4>1 DEF Judged
      <4>3. QED
        BY <1>9, <4>1, <4>2
    <3>3. QED
      BY <3>1, <3>2
  <2>2. n + 1 <= Len(nBestList)
    BY <1>4, <1>5
  <2>3. QED
    BY <1>2, <1>5, <1>9, <2>1, <2>2 DEF Judged
<1>11. Ranked(nBestList', weights')
  BY <1>2, <1>3
<1>12. QED
  BY <1>2, <1>3, <1>10, <1>11 DEF IInv

(***************************************************************************)
(* Learning.                                                               *)
(***************************************************************************)

LEMMA ListedFacts ==
  ASSUME IInv, NEW i \in 1 .. Len(nBestList)
  PROVE  nBestList[i].features \in Vectors /\ Score(weights, nBestList[i]) \in Int
<1>1. nBestList[i] \in Listed
  BY ElementOf DEF IInv, Judged
<1>2. nBestList[i].features \in Vectors /\ weights.num \in Vectors
  BY <1>1 DEF Listed, IInv
<1>3. QED
  BY <1>2, ProductType DEF Score

(* The oracle costs least, and the prediction is the first translation.    *)
LEMMA OracleAndPrediction ==
  ASSUME IInv, Learning
  PROVE  /\ findPrediction = 1
         /\ 1 \in DOMAIN cost /\ DOMAIN cost = 1 .. Len(nBestList)
         /\ findOracle \in DOMAIN cost
         /\ \A j \in DOMAIN cost : cost[j] \in Int /\ cost[findOracle] <= cost[j]
         /\ (\A j \in DOMAIN cost : cost[1] <= cost[j]) => findOracle = 1
<1>1. PICK n : n = Len(nBestList) /\ n \in Nat /\ n > 0
  BY DEF IInv, Judged, Learning, Ranked
<1>2. cost \in Seq(Int) /\ Len(cost) = n /\ DOMAIN cost = 1 .. n
  BY <1>1 DEF IInv, Judged, Learning
<1>3. 1 \in 1 .. n
  BY <1>1
<1>4. \A j \in 1 .. n : Score(weights, nBestList[1]) >= Score(weights, nBestList[j])
  BY <1>1 DEF IInv, Learning, Ranked
<1> DEFINE Best  == { i \in DOMAIN cost :
                        \A j \in DOMAIN cost : Score(weights, nBestList[i]) >= Score(weights, nBestList[j]) }
           Least == { i \in DOMAIN cost : \A j \in DOMAIN cost : cost[i] <= cost[j] }
<1>5. findPrediction = 1
  <2>1. 1 \in Best
    BY <1>2, <1>3, <1>4
  <2>2. \A i \in Best : i \in Int /\ 1 <= i
    BY <1>1, <1>2
  <2> HIDE DEF Best
  <2>3. Min(Best) = 1
    BY <2>1, <2>2, MinIs
  <2>4. QED
    BY <2>3 DEF findPrediction, Best
<1>6. \A j \in 1 .. n : cost[j] \in Int
  BY <1>2
<1>7. Least # {}
  <2>1. PICK f : f = [j \in 1 .. n |-> - cost[j]]
    OBVIOUS
  <2>2. f \in [1 .. n -> Int] /\ \A j \in 1 .. n : f[j] = - cost[j]
    BY <1>6, <2>1
  <2>3. IsFiniteSet(1 .. n) /\ 1 .. n # {}
    <3>1. n \in Int /\ 1 \in Int
      BY <1>1
    <3>2. IsFiniteSet(1 .. n)
      BY <3>1, FS_Interval
    <3>3. QED
      BY <1>3, <3>2
  <2>4. PICK m \in 1 .. n : \A j \in 1 .. n : f[j] <= f[m]
    BY <2>2, <2>3, GreatestValue
  <2>5. ASSUME NEW j \in 1 .. n PROVE cost[m] <= cost[j]
    <3>1. f[j] <= f[m] /\ f[j] = - cost[j] /\ f[m] = - cost[m]
      BY <2>2, <2>4
    <3>2. cost[j] \in Int /\ cost[m] \in Int
      BY <1>6
    <3>3. QED
      BY <3>1, <3>2
  <2>6. QED
    BY <1>2, <2>5
<1>8. findOracle \in Least /\ \A i \in Least : findOracle <= i
  <2>1. Least \subseteq Nat
    BY <1>1, <1>2
  <2> HIDE DEF Least
  <2>2. Min(Least) \in Least /\ \A i \in Least : Min(Least) <= i
    BY <1>7, <2>1, MinIn
  <2>3. QED
    BY <2>2 DEF findOracle, Least
<1>9. ASSUME \A j \in DOMAIN cost : cost[1] <= cost[j] PROVE findOracle = 1
  <2>1. 1 \in Least
    BY <1>2, <1>3, <1>9
  <2>2. findOracle <= 1 /\ findOracle \in 1 .. n
    BY <1>2, <1>8, <2>1
  <2>3. QED
    BY <1>1, <2>2
<1>10. QED
  BY <1>1, <1>2, <1>3, <1>5, <1>6, <1>8, <1>9

LEMMA RootPositive ==
  ASSUME NEW n \in Nat, NEW over \in Nat \ {0}
  PROVE  Root(n, over) \in Nat /\ (n = 0 => Root(n, over) = 0) /\ (n > 0 => Root(n, over) > 0)
<1> DEFINE S == { r \in 0 .. n : r * r * over >= n }
<1>1. n \in S
  <2>1. n * n >= n
    <3>1. n = 0 \/ n >= 1
      OBVIOUS
    <3>2. n >= 1 => n * n >= n * 1
      OBVIOUS
    <3>3. QED
      BY <3>1, <3>2
  <2>2. PICK k : k = n * n /\ k \in Nat
    OBVIOUS
  <2>3. k * over >= k
    <3>1. PICK d \in Nat : over = 1 + d
      <4>1. over - 1 \in Nat /\ over = 1 + (over - 1)
        OBVIOUS
      <4>2. QED
        BY <4>1
    <3>2. k * over = k + k * d /\ k * d >= 0
      BY <2>2, <3>1
    <3>3. QED
      BY <2>2, <3>2
  <2>4. n * n * over >= n
    BY <2>1, <2>2, <2>3
  <2>5. QED
    BY <2>4
<1>2. S \subseteq Nat
  OBVIOUS
<1>3. n > 0 => 0 \notin S
  <2>1. 0 * 0 * over = 0
    OBVIOUS
  <2>2. QED
    BY <2>1
<1>4. n = 0 => S \subseteq {0}
  OBVIOUS
<1> HIDE DEF S
<1>5. Min(S) \in S
  BY <1>1, <1>2, MinIn
<1>6. PICK m : m = Root(n, over) /\ m \in S
  <2>1. Root(n, over) = Min(S)
    BY DEF Root, S
  <2>2. QED
    BY <1>5, <2>1
<1>7. m \in Nat /\ (n > 0 => m # 0) /\ (n = 0 => m = 0)
  <2>1. n > 0 => m # 0
    BY <1>3, <1>6
  <2>2. n = 0 => m = 0
    BY <1>4, <1>6
  <2>3. m \in Nat
    BY <1>2, <1>6
  <2>4. QED
    BY <2>1, <2>2, <2>3
<1>8. QED
  BY <1>6, <1>7

(* What the oracle has and the prediction has not. *)
Gap == Lead(weights, findOracle, 1)

Preferred == \A j \in DOMAIN cost : cost[1] <= cost[j]

LEMMA DifferenceFacts ==
  ASSUME IInv, Learning
  PROVE  /\ Difference \in Vectors
         /\ \A v \in Vectors :
              InnerProduct(v, Difference)
                = InnerProduct(v, nBestList[findOracle].features)
                    - InnerProduct(v, nBestList[1].features)
         /\ \/ nBestList[findOracle].features = nBestList[1].features
            \/ \E i \in Coordinates : Difference[i] # 0
         /\ findOracle = 1 => \A i \in Coordinates : Difference[i] = 0
<1>1. PICK o : o = findOracle /\ o \in 1 .. Len(nBestList) /\ 1 \in 1 .. Len(nBestList)
  BY OracleAndPrediction
<1>2. PICK x : x = nBestList[o].features /\ x \in Vectors
  BY <1>1, ListedFacts
<1>3. PICK y : y = nBestList[1].features /\ y \in Vectors
  BY <1>1, ListedFacts
<1>4. Difference = Minus(x, y)
  BY <1>1, <1>2, <1>3, OracleAndPrediction DEF Difference
<1>5. Difference \in Vectors /\ Mixes(Difference, 1, x, -1, y)
  BY <1>2, <1>3, <1>4, CombinedFacts, 1 \in Int
<1>6. ASSUME NEW v \in Vectors
      PROVE  InnerProduct(v, Difference) = InnerProduct(v, x) - InnerProduct(v, y)
  <2>1. InnerProduct(v, Difference) = 1 * InnerProduct(v, x) + (-1) * InnerProduct(v, y)
    <3>1. 1 \in Int /\ -1 \in Int
      OBVIOUS
    <3>2. QED
      BY <1>2, <1>3, <1>5, <3>1, ProductLinear
  <2>2. InnerProduct(v, x) \in Int /\ InnerProduct(v, y) \in Int
    BY <1>2, <1>3, ProductType
  <2>3. QED
    BY <2>1, <2>2
<1>7. \A i \in Coordinates : Difference[i] = x[i] - y[i] /\ x[i] \in Int /\ y[i] \in Int
  BY <1>2, <1>3, <1>4 DEF Minus, Vectors
<1>8. x = y \/ \E i \in Coordinates : Difference[i] # 0
  <2>1. SUFFICES ASSUME \A i \in Coordinates : Difference[i] = 0 PROVE x = y
    OBVIOUS
  <2>2. \A i \in Coordinates : x[i] = y[i]
    BY <1>7, <2>1
  <2>3. QED
    BY <1>2, <1>3, <2>2 DEF Vectors
<1>9. o = 1 => \A i \in Coordinates : Difference[i] = 0
  BY <1>2, <1>3, <1>7
<1>10. QED
  BY <1>1, <1>2, <1>3, <1>5, <1>6, <1>8, <1>9

(* The numbers the rules work with. *)
LEMMA RuleNumbers ==
  ASSUME IInv, Learning
  PROVE  /\ weights.num \in Vectors /\ weights.den \in Nat \ {0} /\ Whole \in Nat \ {0}
         /\ Gap \in Int /\ Gap <= 0 /\ InnerProduct(weights.num, Difference) = Gap
         /\ Lag = - Gap
         /\ Saved \in Nat /\ (Preferred => Saved = 0 /\ Gap = 0) /\ (~Preferred => Saved > 0)
<1>1. weights.num \in Vectors /\ weights.den \in Nat \ {0}
  BY DEF IInv
<1>2. Whole \in Nat \ {0}
  <2>1. ref \in Texts
    BY DEF IInv, Learning
  <2>2. /\ Len(ref) \in Nat /\ Len(ref) > 0
        /\ Filled(ref) = Words(ref) /\ Len(Words(ref)) > 0
    BY <2>1, TextHasLength, FilledText
  <2>3. Len(Words(ref)) \in Nat
    <3>1. PICK C : ref \in Seq(C)
      BY <2>1, FilledText
    <3>2. QED
      BY <3>1, CutsFacts, WordsFacts
  <2>4. QED
    BY <2>2, <2>3 DEF Whole
<1>3. PICK o : o = findOracle /\ o \in 1 .. Len(nBestList) /\ 1 \in 1 .. Len(nBestList)
  BY OracleAndPrediction
<1>4. PICK a : a = Score(weights, nBestList[o]) /\ a \in Int
  BY <1>3, ListedFacts
<1>5. PICK b : b = Score(weights, nBestList[1]) /\ b \in Int
  BY <1>3, ListedFacts
<1>6. Gap = a - b
  BY <1>3, <1>4, <1>5 DEF Gap, Lead
<1>7. a <= b
  <2>1. Ranked(nBestList, weights)
    BY DEF IInv, Learning
  <2>2. Score(weights, nBestList[1]) >= Score(weights, nBestList[o])
    BY <1>3, <2>1 DEF Ranked
  <2>3. QED
    BY <1>4, <1>5, <2>2
<1>8. InnerProduct(weights.num, Difference) = Gap
  BY <1>1, <1>3, <1>4, <1>5, <1>6, DifferenceFacts DEF Score
<1>9. Gap \in Int /\ Gap <= 0
  BY <1>4, <1>5, <1>6, <1>7
<1>10. Lag = - Gap
  BY <1>8 DEF Lag
<1>11. PICK p : p = cost[1] /\ p \in Int
  BY OracleAndPrediction
<1>12. PICK c : c = cost[o] /\ c \in Int /\ c <= p
  BY <1>3, <1>11, OracleAndPrediction
<1>13. Saved = p - c
  BY <1>3, <1>11, <1>12, OracleAndPrediction DEF Saved
<1>14. ASSUME Preferred PROVE Saved = 0 /\ Gap = 0
  <2>1. o = 1
    BY <1>3, <1>14, OracleAndPrediction DEF Preferred
  <2>2. QED
    BY <1>4, <1>5, <1>6, <1>11, <1>12, <1>13, <2>1
<1>15. ASSUME ~Preferred PROVE Saved > 0
  <2>1. PICK j \in DOMAIN cost : ~(cost[1] <= cost[j])
    BY <1>15 DEF Preferred
  <2>2. cost[j] \in Int /\ c <= cost[j]
    BY <1>3, <1>12, OracleAndPrediction
  <2>3. ~(p <= cost[j])
    BY <1>11, <2>1
  <2>4. QED
    BY <1>11, <1>12, <1>13, <2>2, <2>3
<1>16. QED
  BY <1>1, <1>2, <1>8, <1>9, <1>10, <1>11, <1>12, <1>13, <1>14, <1>15

(* How new weights change what one translation leads another by. *)
Turned(w, keep, step, dir, i, j) ==
  Lead(w, i, j) = keep * Lead(weights, i, j)
                    + step * (InnerProduct(dir, nBestList[i].features)
                                - InnerProduct(dir, nBestList[j].features))

LEMMA NewLead ==
  ASSUME IInv, NEW i \in 1 .. Len(nBestList), NEW j \in 1 .. Len(nBestList),
         NEW keep \in Int, NEW step \in Int, NEW dir \in Vectors, NEW w,
         w.num = Combined(keep, weights.num, step, dir)
  PROVE  /\ Lead(weights, i, j) \in Int
         /\ InnerProduct(dir, nBestList[i].features) \in Int
         /\ InnerProduct(dir, nBestList[j].features) \in Int
         /\ Turned(w, keep, step, dir, i, j)
<1>1. PICK x : x = nBestList[i].features /\ x \in Vectors
  BY ListedFacts
<1>2. PICK y : y = nBestList[j].features /\ y \in Vectors
  BY ListedFacts
<1>3. PICK n : n = weights.num /\ n \in Vectors
  BY DEF IInv
<1>4. PICK m : m = w.num /\ m \in Vectors /\ Mixes(m, keep, n, step, dir)
  BY <1>3, CombinedFacts
<1>5. /\ InnerProduct(m, x) = keep * InnerProduct(n, x) + step * InnerProduct(dir, x)
      /\ InnerProduct(m, y) = keep * InnerProduct(n, y) + step * InnerProduct(dir, y)
  BY <1>1, <1>2, <1>3, <1>4, ProductLinear
<1>6. /\ InnerProduct(n, x) \in Int /\ InnerProduct(n, y) \in Int
      /\ InnerProduct(dir, x) \in Int /\ InnerProduct(dir, y) \in Int
  BY <1>1, <1>2, <1>3, ProductType
<1>7. PICK a, b, c, d : /\ a = InnerProduct(n, x) /\ b = InnerProduct(n, y)
                        /\ c = InnerProduct(dir, x) /\ d = InnerProduct(dir, y)
  OBVIOUS
<1>8. a \in Int /\ b \in Int /\ c \in Int /\ d \in Int
  BY <1>6, <1>7
<1>9. (keep * a + step * c) - (keep * b + step * d) = keep * (a - b) + step * (c - d)
  BY <1>8
<1>10. Lead(weights, i, j) = a - b
  BY <1>1, <1>2, <1>3, <1>7 DEF Lead, Score
<1>11. Lead(w, i, j) = (keep * a + step * c) - (keep * b + step * d)
  BY <1>1, <1>2, <1>4, <1>5, <1>7 DEF Lead, Score
<1>12. Turned(w, keep, step, dir, i, j)
  BY <1>1, <1>2, <1>7, <1>9, <1>10, <1>11 DEF Turned
<1>13. QED
  BY <1>1, <1>2, <1>7, <1>8, <1>10, <1>12

(* What each rule does to the weights. *)
LEMMA MIRAMoves ==
  ASSUME IInv, RunMIRA
  PROVE  \/ Preferred /\ weights' = weights
         \/ ~Preferred /\ \E keep, step \in Nat \ {0} : weights' = Moved(keep, step, keep)
<1> DEFINE loss0   == Lag * Whole + 100 * Saved * weights.den
           square0 == InnerProduct(Difference, Difference)
           step0   == IF loss0 * Clip >= square0 * Whole * weights.den
                        THEN << weights.den, Clip * Rate >>
                        ELSE << loss0, square0 * Whole * Rate >>
<1>1. /\ Learning
      /\ weights' = IF loss0 > 0 THEN Moved(step0[2], step0[1], step0[2]) ELSE weights
  BY DEF RunMIRA
<1>2. PICK den : den = weights.den /\ den \in Nat \ {0}
  BY <1>1, RuleNumbers
<1>3. PICK W : W = Whole /\ W \in Nat \ {0}
  BY <1>1, RuleNumbers
<1>4. PICK g : g = Lag /\ g \in Nat /\ (Preferred => g = 0)
  BY <1>1, RuleNumbers
<1>5. PICK s : s = Saved /\ s \in Nat /\ (Preferred => s = 0) /\ (~Preferred => s > 0)
  BY <1>1, RuleNumbers
<1>6. PICK q : q = square0 /\ q \in Int /\ q >= 0
  BY <1>1, DifferenceFacts, Squares
<1>7. PICK loss : loss = loss0 /\ loss = g * W + 100 * s * den
  BY <1>2, <1>3, <1>4, <1>5
<1>8. /\ loss \in Int /\ (Preferred => loss = 0) /\ (~Preferred => loss > 0)
  <2>1. g * W \in Nat
    BY <1>3, <1>4
  <2>2. s * den \in Nat /\ (s > 0 => s * den > 0)
    BY <1>2, <1>5
  <2>3. 100 * s * den = 100 * (s * den)
    BY <1>2, <1>5
  <2>4. PICK u, v : u = g * W /\ v = s * den
    OBVIOUS
  <2>5. loss = u + 100 * v /\ u \in Nat /\ v \in Nat
    BY <1>7, <2>1, <2>2, <2>3, <2>4
  <2>6. loss \in Int /\ (s > 0 => loss > 0)
    BY <2>2, <2>4, <2>5
  <2>7. Preferred => loss = 0
    <3>1. Preferred => u = 0 /\ v = 0
      BY <1>2, <1>3, <1>4, <1>5, <2>4
    <3>2. QED
      BY <2>5, <3>1
  <2>8. QED
    BY <1>5, <2>6, <2>7
<1>9. Clip \in Nat \ {0} /\ Rate \in Nat \ {0}
  BY NumbersAssumption
<1>10. CASE Preferred
  <2>1. ~(loss0 > 0)
    BY <1>7, <1>8, <1>10
  <2>2. QED
    BY <1>1, <1>10, <2>1
<1>11. CASE ~Preferred
  <2>1. loss > 0
    BY <1>8, <1>11
  <2>2. weights' = Moved(step0[2], step0[1], step0[2])
    BY <1>1, <1>7, <2>1
  <2>3. CASE loss * Clip >= q * W * den
    <3>1. step0[1] = den /\ step0[2] = Clip * Rate
      BY <1>2, <1>3, <1>6, <1>7, <2>3
    <3>2. PICK k : k = Clip * Rate /\ k \in Nat \ {0}
      <4>1. Clip * Rate \in Nat /\ Clip * Rate > 0
        BY <1>9
      <4>2. QED
        BY <4>1
    <3> HIDE DEF step0
    <3>3. weights' = Moved(k, den, k)
      BY <2>2, <3>1, <3>2
    <3>4. QED
      BY <1>2, <1>11, <3>2, <3>3
  <2>4. CASE ~(loss * Clip >= q * W * den)
    <3>1. step0[1] = loss /\ step0[2] = q * W * Rate
      BY <1>2, <1>3, <1>6, <1>7, <2>4
    <3>2. q > 0
      <4>1. q = 0 => q * W * den = 0
        BY <1>2, <1>3
      <4>2. loss * Clip \in Nat
        BY <1>8, <1>9, <2>1
      <4>3. QED
        BY <1>6, <2>4, <4>1, <4>2
    <3>3. PICK k : k = q * W * Rate /\ k \in Nat \ {0}
      <4>1. PICK u : u = q * W /\ u \in Nat /\ u > 0
        <5>1. q * W \in Nat /\ q * W > 0
          BY <1>3, <1>6, <3>2
        <5>2. QED
          BY <5>1
      <4>2. u * Rate \in Nat /\ u * Rate > 0
        BY <1>9, <4>1
      <4>3. QED
        BY <4>1, <4>2
    <3> HIDE DEF step0
    <3>4. weights' = Moved(k, loss, k)
      BY <2>2, <3>1, <3>3
    <3>5. loss \in Nat \ {0}
      BY <1>8, <2>1
    <3>6. QED
      BY <1>11, <3>3, <3>4, <3>5
  <2>5. QED
    BY <2>3, <2>4
<1>12. QED
  BY <1>10, <1>11

LEMMA PA2Moves ==
  ASSUME IInv, RunPA2
  PROVE  \/ Preferred /\ weights' = weights
         \/ ~Preferred /\ \E damped, loss \in Nat \ {0} :
                            weights' = Moved((Rate - 1) * damped, loss, Rate * damped)
<1> DEFINE loss0   == Root(100 * Saved, Whole) * weights.den + Lag
           damped0 == InnerProduct(Difference, Difference) + Damping
<1>1. /\ Learning
      /\ weights' = IF loss0 > 0 THEN Moved((Rate - 1) * damped0, loss0, Rate * damped0)
                    ELSE weights
  BY DEF RunPA2
<1>2. PICK den : den = weights.den /\ den \in Nat \ {0}
  BY <1>1, RuleNumbers
<1>3. PICK g : g = Lag /\ g \in Nat /\ (Preferred => g = 0)
  BY <1>1, RuleNumbers
<1>4. PICK s : s = Saved /\ s \in Nat /\ (Preferred => s = 0) /\ (~Preferred => s > 0)
  BY <1>1, RuleNumbers
<1>5. PICK r : r = Root(100 * Saved, Whole) /\ r \in Nat
               /\ (Preferred => r = 0) /\ (~Preferred => r > 0)
  <2>1. Whole \in Nat \ {0}
    BY <1>1, RuleNumbers
  <2>2. PICK n : n = 100 * Saved /\ n \in Nat /\ (s = 0 => n = 0) /\ (s > 0 => n > 0)
    BY <1>4
  <2>3. /\ Root(n, Whole) \in Nat /\ (n = 0 => Root(n, Whole) = 0)
        /\ (n > 0 => Root(n, Whole) > 0)
    BY <2>1, <2>2, RootPositive
  <2>4. QED
    BY <1>4, <2>2, <2>3
<1>6. PICK loss : loss = loss0 /\ loss = r * den + g
  BY <1>2, <1>3, <1>5
<1>7. loss \in Nat /\ (Preferred => loss = 0) /\ (~Preferred => loss > 0)
  <2>1. r * den \in Nat /\ (r = 0 => r * den = 0) /\ (r > 0 => r * den > 0)
    BY <1>2, <1>5
  <2>2. PICK u : u = r * den
    OBVIOUS
  <2>3. QED
    BY <1>3, <1>5, <1>6, <2>1, <2>2
<1>8. PICK d : d = damped0 /\ d \in Nat \ {0}
  <2>1. PICK q : q = InnerProduct(Difference, Difference) /\ q \in Int /\ q >= 0
    BY <1>1, DifferenceFacts, Squares
  <2>2. Damping \in Nat \ {0}
    BY NumbersAssumption
  <2>3. QED
    BY <2>1, <2>2
<1> HIDE DEF loss0, damped0
<1>9. QED
  BY <1>1, <1>6, <1>7, <1>8

(* Whatever the rule, the oracle gains on the prediction, the weights stay *)
(* fractions and nothing moves when there is nothing to gain.              *)
Gains(keep, step, scale, dir) ==
  keep * Gap + step * InnerProduct(dir, Difference) > Gap * scale

LEMMA Moving ==
  ASSUME IInv, Learning, NEW keep \in Int, NEW step \in Int, NEW scale \in Nat \ {0},
         NEW dir \in Vectors, Gains(keep, step, scale, dir),
         weights' = [num |-> Combined(keep, weights.num, step, dir), den |-> scale * weights.den]
  PROVE  Lead(weights', findOracle, 1)
           > Lead(weights, findOracle, 1) * (weights'.den \div weights.den)
<1>1. PICK o : o = findOracle /\ o \in 1 .. Len(nBestList) /\ 1 \in 1 .. Len(nBestList)
  BY OracleAndPrediction
<1>2. PICK w : w = weights'
  OBVIOUS
<1>3. w.num = Combined(keep, weights.num, step, dir) /\ w.den = scale * weights.den
  BY <1>2
<1>4. Lead(w, o, 1) = keep * Lead(weights, o, 1)
                        + step * (InnerProduct(dir, nBestList[o].features)
                                    - InnerProduct(dir, nBestList[1].features))
  <2>1. Turned(w, keep, step, dir, o, 1)
    BY <1>1, <1>3, NewLead
  <2>2. QED
    BY <2>1 DEF Turned
<1>5. InnerProduct(dir, Difference) = InnerProduct(dir, nBestList[o].features)
                                        - InnerProduct(dir, nBestList[1].features)
  BY <1>1, DifferenceFacts
<1>6. Lead(w, o, 1) = keep * Gap + step * InnerProduct(dir, Difference)
  BY <1>1, <1>4, <1>5 DEF Gap
<1>7. w.den \div weights.den = scale
  <2>1. PICK d : d = weights.den /\ d \in Nat \ {0}
    BY RuleNumbers
  <2>2. (scale * d) \div d = scale
    BY <2>1
  <2>3. QED
    BY <1>3, <2>1, <2>2
<1>8. QED
  BY <1>1, <1>2, <1>6, <1>7 DEF Gains, Gap

OracleGains ==
  \/ nBestList[findOracle].features = nBestList[1].features
  \/ Lead(weights', findOracle, 1)
       > Lead(weights, findOracle, 1) * (weights'.den \div weights.den)

LEMMA NewWeights ==
  ASSUME IInv, NEW keep \in Int, NEW step \in Int, NEW scale \in Nat \ {0}, NEW dir \in Vectors
  PROVE  [num |-> Combined(keep, weights.num, step, dir), den |-> scale * weights.den]
           \in [num : Vectors, den : Nat \ {0}]
<1>1. PICK d : d = weights.den /\ d \in Nat \ {0}
  BY DEF IInv
<1>2. weights.num \in Vectors
  BY DEF IInv
<1>3. Combined(keep, weights.num, step, dir) \in Vectors
  BY <1>2, CombinedFacts
<1>4. scale * d \in Nat \ {0}
  <2>1. scale * d \in Nat /\ scale * d > 0
    BY <1>1
  <2>2. QED
    BY <2>1
<1>5. QED
  BY <1>1, <1>3, <1>4

LEMMA SameWeights == ASSUME weights' = weights PROVE SameOrder
<1>1. \A i, j : Lead(weights', i, j) = Lead(weights, i, j)
  BY DEF Lead, Score
<1>2. QED
  BY <1>1 DEF SameOrder

LEMMA MIRALearns ==
  ASSUME IInv, RunMIRA
  PROVE  /\ weights' \in [num : Vectors, den : Nat \ {0}]
         /\ Preferred => SameOrder
         /\ ~Preferred => OracleGains
<1>1. CASE Preferred /\ weights' = weights
  BY <1>1, SameWeights DEF IInv
<1>2. CASE ~Preferred /\ \E keep, step \in Nat \ {0} : weights' = Moved(keep, step, keep)
  <2>1. PICK keep \in Nat \ {0}, step \in Nat \ {0} : weights' = Moved(keep, step, keep)
    BY <1>2
  <2>2. weights' = [num |-> Combined(keep, weights.num, step, Difference),
                    den |-> keep * weights.den]
    BY <2>1 DEF Moved
  <2>3. Learning
    BY DEF RunMIRA
  <2>4. Difference \in Vectors /\ keep \in Int /\ step \in Int
    BY <2>3, DifferenceFacts
  <2>5. weights' \in [num : Vectors, den : Nat \ {0}]
    BY <2>2, <2>4, NewWeights
  <2>6. OracleGains
    <3>1. CASE nBestList[findOracle].features = nBestList[1].features
      BY <3>1 DEF OracleGains
    <3>2. CASE \E i \in Coordinates : Difference[i] # 0
      <4>1. PICK q : q = InnerProduct(Difference, Difference) /\ q \in Int /\ q > 0
        BY <2>4, <3>2, Squares
      <4>2. PICK g : g = Gap /\ g \in Int
        BY <2>3, RuleNumbers
      <4>3. step * q > 0 /\ keep * g = g * keep /\ step * q \in Int /\ g * keep \in Int
        BY <4>1, <4>2
      <4>4. keep * g + step * q > g * keep
        BY <4>3
      <4>5. Gains(keep, step, keep, Difference)
        BY <4>1, <4>2, <4>4 DEF Gains
      <4>6. QED
        BY <2>2, <2>3, <2>4, <4>5, Moving DEF OracleGains
    <3>3. QED
      BY <2>3, <3>1, <3>2, DifferenceFacts
  <2>7. QED
    BY <1>2, <2>5, <2>6
<1>3. QED
  BY <1>1, <1>2, MIRAMoves

LEMMA PA2Learns ==
  ASSUME IInv, RunPA2
  PROVE  /\ weights' \in [num : Vectors, den : Nat \ {0}]
         /\ Preferred => SameOrder
         /\ ~Preferred => OracleGains
<1>1. CASE Preferred /\ weights' = weights
  BY <1>1, SameWeights DEF IInv
<1>2. CASE ~Preferred /\ \E damped, loss \in Nat \ {0} :
                           weights' = Moved((Rate - 1) * damped, loss, Rate * damped)
  <2>1. PICK damped \in Nat \ {0}, loss \in Nat \ {0} :
          weights' = Moved((Rate - 1) * damped, loss, Rate * damped)
    BY <1>2
  <2>2. PICK keep : keep = (Rate - 1) * damped
    OBVIOUS
  <2>3. PICK scale : scale = Rate * damped
    OBVIOUS
  <2>4. Rate \in Nat \ {0}
    BY NumbersAssumption
  <2>5. scale \in Nat \ {0} /\ keep \in Int /\ scale = keep + damped
    <3>1. Rate * damped \in Nat /\ Rate * damped > 0 /\ (Rate - 1) * damped \in Int
      BY <2>4
    <3>2. Rate * damped = (Rate - 1) * damped + damped
      BY <2>4
    <3>3. QED
      BY <2>2, <2>3, <3>1, <3>2
  <2>6. weights' = [num |-> Combined(keep, weights.num, loss, Difference),
                    den |-> scale * weights.den]
    BY <2>1, <2>2, <2>3 DEF Moved
  <2>7. Learning
    BY DEF RunPA2
  <2>8. Difference \in Vectors /\ loss \in Int
    BY <2>7, DifferenceFacts
  <2>9. weights' \in [num : Vectors, den : Nat \ {0}]
    BY <2>5, <2>6, <2>8, NewWeights
  <2>10. OracleGains
    <3>1. CASE nBestList[findOracle].features = nBestList[1].features
      BY <3>1 DEF OracleGains
    <3>2. CASE \E i \in Coordinates : Difference[i] # 0
      <4>1. PICK q : q = InnerProduct(Difference, Difference) /\ q \in Int /\ q > 0
        BY <2>8, <3>2, Squares
      <4>2. PICK g : g = Gap /\ g \in Int /\ g <= 0
        BY <2>7, RuleNumbers
      <4>3. loss * q > 0 /\ loss * q \in Int
        BY <4>1
      <4>4. g * damped <= 0 /\ g * damped \in Int
        BY <4>2
      <4>5. g * scale = keep * g + g * damped /\ keep * g \in Int
        <5>1. g * (keep + damped) = keep * g + g * damped
          BY <2>5, <4>2
        <5>2. QED
          BY <2>5, <4>2, <5>1
      <4>6. PICK a, b, c : a = keep * g /\ b = loss * q /\ c = g * damped
        OBVIOUS
      <4>7. a + b > a + c
        BY <4>3, <4>4, <4>5, <4>6
      <4>8. keep * g + loss * q > g * scale
        BY <4>5, <4>6, <4>7
      <4>9. Gains(keep, loss, scale, Difference)
        BY <4>1, <4>2, <4>8 DEF Gains
      <4>10. QED
        BY <2>5, <2>6, <2>7, <2>8, <4>9, Moving DEF OracleGains
    <3>3. QED
      BY <2>7, <3>1, <3>2, DifferenceFacts
  <2>11. QED
    BY <1>2, <2>9, <2>10
<1>3. QED
  BY <1>1, <1>2, PA2Moves

(* The perceptron moves even when there is nothing to gain: it shrinks the *)
(* weights, and unless it forgets them altogether their order stays.       *)
LEMMA PerceptronLearns ==
  ASSUME IInv, RunPerceptron
  PROVE  /\ weights' \in [num : Vectors, den : Nat \ {0}]
         /\ Preferred /\ Rate > 1 => SameOrder
         /\ ~Preferred => OracleGains
<1>1. Learning
  BY DEF RunPerceptron
<1>2. PICK d : d = weights.den /\ d \in Nat \ {0}
  BY <1>1, RuleNumbers
<1>3. Difference \in Vectors
  BY <1>1, DifferenceFacts
<1>4. PICK dir : dir = Signs(Difference) /\ dir \in Vectors
  BY <1>3, CombinedFacts, 1 \in Int
<1>5. Rate \in Nat \ {0}
  BY NumbersAssumption
<1>6. PICK keep : keep = Rate - 1 /\ keep \in Nat
  BY <1>5
<1>7. weights' = [num |-> Combined(keep, weights.num, d, dir), den |-> Rate * weights.den]
  BY <1>2, <1>4, <1>6 DEF RunPerceptron
<1>8. weights' \in [num : Vectors, den : Nat \ {0}]
  BY <1>2, <1>4, <1>5, <1>6, <1>7, NewWeights
<1>9. ASSUME Preferred, Rate > 1 PROVE SameOrder
  <2>1. \A i \in Coordinates : Difference[i] = 0
    BY <1>1, <1>9, DifferenceFacts, OracleAndPrediction DEF Preferred
  <2>2. DOMAIN Difference = Coordinates
    BY <1>3 DEF Vectors
  <2>3. \A i \in Coordinates : dir[i] = 0
    BY <1>4, <2>1, <2>2 DEF Signs
  <2>4. Mixes(dir, 0, dir, 0, dir)
    BY <2>3 DEF Mixes
  <2>5. ASSUME NEW v \in Vectors PROVE InnerProduct(dir, v) = 0
    <3>1. InnerProduct(dir, v) \in Int
      BY <1>4, ProductType
    <3>2. InnerProduct(dir, v) = 0 * InnerProduct(dir, v) + 0 * InnerProduct(dir, v)
      <4>1. 0 \in Int
        OBVIOUS
      <4>2. QED
        BY <1>4, <2>4, <4>1, ProductLinear
    <3>3. QED
      BY <3>1, <3>2
  <2>6. ASSUME NEW i \in DOMAIN cost, NEW j \in DOMAIN cost
        PROVE  Lead(weights, i, j) >= 0 <=> Lead(weights', i, j) >= 0
    <3>1. i \in 1 .. Len(nBestList) /\ j \in 1 .. Len(nBestList)
      BY <1>1, OracleAndPrediction
    <3>2. PICK w : w = weights' /\ w.num = Combined(keep, weights.num, d, dir)
      BY <1>7
    <3>3. PICK a : a = Lead(weights, i, j) /\ a \in Int
      BY <1>2, <1>4, <1>6, <3>1, <3>2, NewLead
    <3>4. Lead(w, i, j) = keep * a + d * (InnerProduct(dir, nBestList[i].features)
                                            - InnerProduct(dir, nBestList[j].features))
      <4>1. keep \in Int /\ d \in Int
        BY <1>2, <1>6
      <4>2. w.num = Combined(keep, weights.num, d, dir)
        BY <3>2
      <4>3. dir \in Vectors
        BY <1>4
      <4>4. Turned(w, keep, d, dir, i, j)
        BY <3>1, <4>1, <4>2, <4>3, NewLead
      <4>5. QED
        BY <3>3, <4>4 DEF Turned
    <3>5. /\ InnerProduct(dir, nBestList[i].features) = 0
          /\ InnerProduct(dir, nBestList[j].features) = 0
      BY <2>5, <3>1, ListedFacts
    <3>6. Lead(w, i, j) = keep * a
      <4>1. keep * a \in Int /\ d * (0 - 0) = 0
        BY <1>2, <1>6, <3>3
      <4>2. QED
        BY <3>4, <3>5, <4>1
    <3>7. keep > 0
      BY <1>5, <1>6, <1>9
    <3>8. a >= 0 <=> keep * a >= 0
      <4>1. a >= 0 => keep * a >= 0
        BY <1>6, <3>3
      <4>2. a < 0 => keep * a < 0
        BY <1>6, <3>3, <3>7
      <4>3. keep * a \in Int
        BY <1>6, <3>3
      <4>4. QED
        BY <3>3, <4>1, <4>2, <4>3
    <3>9. QED
      BY <3>2, <3>3, <3>6, <3>8
  <2>7. QED
    BY <2>6 DEF SameOrder
<1>10. OracleGains
  <2>1. CASE nBestList[findOracle].features = nBestList[1].features
    BY <2>1 DEF OracleGains
  <2>2. CASE \E i \in Coordinates : Difference[i] # 0
    <3>1. PICK q : q = InnerProduct(dir, Difference) /\ q \in Int /\ q > 0
      BY <1>3, <1>4, <2>2, Squares
    <3>2. PICK g : g = Gap /\ g \in Int /\ g <= 0
      BY <1>1, RuleNumbers
    <3>3. d * q > 0 /\ d * q \in Int
      BY <1>2, <3>1
    <3>4. g * Rate = keep * g + g /\ keep * g \in Int
      <4>1. (keep + 1) * g = keep * g + g
        BY <1>6, <3>2
      <4>2. Rate = keep + 1
        BY <1>5, <1>6
      <4>3. QED
        BY <1>6, <3>2, <4>1, <4>2
    <3>5. keep * g + d * q > g * Rate
      <4>1. PICK a, b : a = keep * g /\ b = d * q
        OBVIOUS
      <4>2. a + b > a + g
        BY <3>2, <3>3, <3>4, <4>1
      <4>3. QED
        BY <3>4, <4>1, <4>2
    <3>6. Gains(keep, d, Rate, dir)
      BY <3>1, <3>2, <3>5 DEF Gains
    <3>7. QED
      BY <1>1, <1>2, <1>4, <1>5, <1>6, <1>7, <3>6, Moving DEF OracleGains
  <2>3. QED
    BY <1>1, <2>1, <2>2, DifferenceFacts
<1>11. QED
  BY <1>8, <1>9, <1>10

LEMMA LearningKeeps == ASSUME IInv, RunOnlineLearning PROVE IInv'
<1>1. weights' \in [num : Vectors, den : Nat \ {0}]
  BY MIRALearns, PA2Learns, PerceptronLearns DEF RunOnlineLearning
<1>2. /\ pc' = "idle" /\ lessons' = lessons /\ m_method' = m_method /\ m_metric' = m_metric
      /\ nBestList' = nBestList /\ cost' = cost /\ ref' = ref
  BY DEF RunOnlineLearning, RunMIRA, RunPA2, RunPerceptron, userVars
<1>3. lessons \in Seq(Lesson) /\ m_method \in Methods /\ Judged
  BY DEF IInv
<1>4. Judged'
  BY <1>2, <1>3 DEF Judged
<1>5. QED
  BY <1>1, <1>2, <1>3, <1>4 DEF IInv

LEMMA AlwaysKept == Spec => []IInv
<1>1. Init => IInv
  <2> SUFFICES ASSUME Init PROVE IInv
    OBVIOUS
  <2>1. lessons \in Seq(Lesson)
    <3>1. lessons \in Lessons
      BY DEF Init
    <3>2. lessons \in Seq([paths : SUBSET Listed, ref : Texts])
      BY <3>1, LessonsAssumption DEF Listed, Vectors, Coordinates
    <3>3. \A k \in 1 .. Len(lessons) : lessons[k] \in Lesson
      <4>1. \A k \in DOMAIN lessons : IsFiniteSet(lessons[k].paths) /\ lessons[k].paths # {}
        BY <3>1, LessonsAssumption
      <4>2. ASSUME NEW k \in 1 .. Len(lessons) PROVE lessons[k] \in Lesson
        <5>1. lessons[k] \in [paths : SUBSET Listed, ref : Texts]
          BY <3>2, ElementOf
        <5>2. k \in DOMAIN lessons
          BY <3>2
        <5>3. QED
          BY <4>1, <5>1, <5>2 DEF Lesson
      <4>3. QED
        BY <4>2
    <3>4. PICK n : n = Len(lessons) /\ n \in Nat
      BY <3>2
    <3>5. lessons \in [1 .. n -> Lesson]
      BY <3>2, <3>3, <3>4
    <3>6. QED
      BY <3>4, <3>5, FunctionIsSeq
  <2>2. InitialWeights \in Vectors
    <3>1. PICK n \in Nat : InitialWeights \in [1 .. n -> Int]
      BY WeightsAssumption
    <3>2. QED
      BY <3>1 DEF Vectors, Coordinates
  <2>3. Judged
    BY DEF Init, Judged
  <2>4. QED
    BY <2>1, <2>2, <2>3 DEF Init, IInv
<1>2. IInv /\ [Next]_vars => IInv'
  <2> SUFFICES ASSUME IInv, [Next]_vars PROVE IInv'
    OBVIOUS
  <2>1. CASE UNCHANGED vars
    <3>1. UNCHANGED << lessons, m_method, m_metric, weights, nBestList, cost, ref >>
          /\ UNCHANGED << hyp, idx, ks, ma, pc >>
      BY <2>1 DEF vars, userVars, learnerVars
    <3>2. (Counted => Counted') /\ (Trying => Trying')
      BY <3>1 DEF Counted, Trying
    <3>3. QED
      BY <3>1, <3>2, Undisturbed DEF IInv
  <2>2. QED
    BY <2>1, StartLearningKeeps, StartTypingKeeps, TypingKeeps, EndTypingKeeps, GetWERKeeps,
       LearningKeeps DEF Next
<1>3. QED
  BY <1>1, <1>2, PTL DEF Spec

(* NoWorseThanTyping, for all hypotheses and references: with the system's *)
(* help a user needs at most one action more than letters or, when some    *)
(* letters take several bytes, as many as there are bytes.                 *)
THEOREM HelpNeverHarms == Spec => []NoWorseThanTyping
<1>1. IInv => NoWorseThanTyping
  <2> DEFINE most == Max({Len(ref) + 1, Bytes(ref)})
  <2> SUFFICES ASSUME IInv, pc = "done" PROVE ks + ma <= most
    BY DEF NoWorseThanTyping
  <2>1. Counted
    BY DEF IInv
  <2>2. Len(ref) \in Nat /\ Bytes(ref) \in Nat
    BY <2>1, TextHasLength, BytesAssumption DEF Counted
  <2>3. most \in Nat /\ most >= Len(ref) + 1 /\ most >= Bytes(ref)
    BY <2>2 DEF Max
  <2>4. QED
    BY <2>1, <2>2, <2>3 DEF Counted
<1>2. QED
  BY <1>1, AlwaysKept, PTL

(* CostsRight, for all translations and references: the table over words   *)
(* that offers the user help holds the distances of the prefix, its last   *)
(* word finished in the best way, and what WER charges is the distance.    *)
THEOREM CostsAreDistances == Spec => []CostsRight
<1>1. IInv => CostsRight
  <2> SUFFICES ASSUME IInv PROVE CostsRight
    OBVIOUS
  <2>1. m_metric = "WER" =>
          \A i \in DOMAIN cost : cost[i] = Distance(Words(nBestList[i].text), Words(ref))
    <3>1. Judged /\ DOMAIN cost = 1 .. Len(cost)
      BY DEF IInv, Judged
    <3>2. QED
      BY <3>1 DEF Judged
  <2>2. CostsTrue
    <3>1. SUFFICES ASSUME pc = "typing", Prefix # << >>,
                          NEW n \in 0 .. Len(Words(hyp))
                   PROVE  Costs(Prefix)[n + 1]
                            = Min({ Distance(SubSeq(Words(hyp), 1, n), Ended(Typed(Prefix), w)) :
                                      w \in Finished(Words(hyp), Typed(Prefix), HasPartial(Prefix)) })
      BY DEF CostsTrue, Ended, Finished
    <3>2. Trying /\ Counted
      BY <3>1 DEF IInv
    <3>3. PICK C : Words(hyp) \in Seq(Seq(C))
      <4>1. PICK t \in Texts : hyp = Append(t, Space)
        BY <3>2 DEF Trying
      <4>2. PICK C : hyp \in Seq(C)
        BY <4>1, FilledText
      <4>3. QED
        BY <4>2, WordsFacts
    <3>4. PICK D : Typed(Prefix) \in Seq(Seq(D))
      <4>1. PICK D : ref \in Seq(D)
        BY <3>2, FilledText DEF Counted
      <4>2. Prefix \in Seq(D)
        <5>1. idx \in Nat /\ Len(ref) \in Nat
          BY <3>2, <4>1 DEF Counted
        <5>2. PICK m : m = Min({idx, Len(ref)})
          OBVIOUS
        <5>3. m \in Nat /\ m <= Len(ref)
          <6>1. {idx, Len(ref)} \subseteq Nat /\ {idx, Len(ref)} # {}
            BY <5>1
          <6>2. m \in {idx, Len(ref)} /\ \A x \in {idx, Len(ref)} : m <= x
            BY <5>2, <6>1, MinIn
          <6>3. QED
            BY <5>1, <6>2
        <5>4. SubSeq(ref, 1, m) \in Seq(D)
          BY <4>1, <5>3
        <5>5. QED
          BY <5>2, <5>4 DEF Prefix
      <4>3. PICK p : p = Words(Prefix) /\ p \in Seq(Seq(D)) /\ Len(p) > 0
        <5>1. Len(Words(Prefix)) = Len(Spaces(Prefix)) + 1 /\ Len(Spaces(Prefix)) \in Nat
              /\ Words(Prefix) \in Seq(Seq(D))
          BY <4>2, CutsFacts, WordsFacts
        <5>2. QED
          BY <5>1
      <4>4. Typed(Prefix) = p \/ Typed(Prefix) = SubSeq(p, 1, Len(p) - 1)
        BY <4>3 DEF Typed, Front
      <4>5. SubSeq(p, 1, Len(p) - 1) \in Seq(Seq(D))
        BY <4>3
      <4>6. QED
        BY <4>3, <4>4, <4>5
    <3>5. PICK h, p, hp : h = Words(hyp) /\ p = Typed(Prefix) /\ hp = HasPartial(Prefix)
      OBVIOUS
    <3>6. HelpCosts(h, p, hp, n)
      <4>1. n \in 0 .. Len(h)
        BY <3>1, <3>5
      <4>2. h \in Seq(Seq(C))
        BY <3>3, <3>5
      <4>3. p \in Seq(Seq(D))
        BY <3>4, <3>5
      <4>4. QED
        BY ONLY <4>1, <4>2, <4>3, HelpRight
    <3>7. QED
      BY ONLY <3>5, <3>6 DEF Costs, HelpCosts
  <2>3. QED
    BY <2>1, <2>2 DEF CostsRight
<1>2. QED
  BY <1>1, AlwaysKept, PTL

(* LearnsTheOracle, for all lessons, metrics and weights: every update     *)
(* brings one of the translations that cost least nearer to what the       *)
(* decoder put first, or leaves the order of all of them as it was.  With  *)
(* a learning rate of 1 the perceptron forgets the weights and with them   *)
(* the order; so it has to be less, unless another rule is used.           *)
THEOREM UpdatesLearn ==
  ASSUME Rate > 1 \/ "Perceptron" \notin Methods
  PROVE  Spec => LearnsTheOracle
<1>1. ASSUME IInv, RunOnlineLearning
      PROVE  LET least == { i \in DOMAIN cost : \A j \in DOMAIN cost : cost[i] <= cost[j] }
             IN  IF 1 \in least
                 THEN SameOrder
                 ELSE \E i \in least :
                        \/ nBestList[i].features = nBestList[1].features
                        \/ Lead(weights', i, 1)
                             > Lead(weights, i, 1) * (weights'.den \div weights.den)
  <2> DEFINE least == { i \in DOMAIN cost : \A j \in DOMAIN cost : cost[i] <= cost[j] }
  <2>1. Learning
    BY <1>1 DEF RunOnlineLearning, RunMIRA, RunPA2, RunPerceptron
  <2>2. 1 \in least <=> Preferred
    BY <1>1, <2>1, OracleAndPrediction DEF Preferred
  <2>3. findOracle \in least
    BY <1>1, <2>1, OracleAndPrediction
  <2>4. (Preferred => SameOrder) /\ (~Preferred => OracleGains)
    <3>1. CASE RunMIRA
      BY <1>1, <3>1, MIRALearns
    <3>2. CASE RunPA2
      BY <1>1, <3>2, PA2Learns
    <3>3. CASE RunPerceptron
      <4>1. "Perceptron" \in Methods
        BY <1>1, <3>3 DEF RunPerceptron, IInv
      <4>2. QED
        BY <1>1, <3>3, <4>1, PerceptronLearns
    <3>4. QED
      BY <1>1, <3>1, <3>2, <3>3 DEF RunOnlineLearning
  <2> HIDE DEF least
  <2>5. QED
    BY <2>2, <2>3, <2>4 DEF OracleGains, least
<1>2. IInv /\ [Next]_vars =>
        [RunOnlineLearning =>
           LET least == { i \in DOMAIN cost : \A j \in DOMAIN cost : cost[i] <= cost[j] }
           IN  IF 1 \in least
               THEN SameOrder
               ELSE \E i \in least :
                      \/ nBestList[i].features = nBestList[1].features
                      \/ Lead(weights', i, 1)
                           > Lead(weights, i, 1) * (weights'.den \div weights.den)]_vars
  BY <1>1
<1>3. QED
  BY <1>2, AlwaysKept, PTL DEF Spec, LearnsTheOracle
=========================================================================
