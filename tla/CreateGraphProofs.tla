----------------------- MODULE CreateGraphProofs -----------------------
(***************************************************************************)
(* Proofs about CreateGraph: the graph that createGraph builds from what   *)
(* the decoder leaves is what the prefix searches take for granted.        *)
(***************************************************************************)
EXTENDS CreateGraph, Extremes

(* The hypotheses that are made from h by one phrase. *)
Made(l, h) == { k \in Hyps(l) \ {0} : l.prev[k] = h }

(* The way forward covers more and more words and stays in the lattice. *)
LEMMA LatticeFacts ==
  ASSUME NEW l, LatticeType(l), LatticeOK(l)
  PROVE  /\ Length(l) \in Nat
         /\ \A h \in Hyps(l) : l.cover[h] \in 0 .. Length(l)
         /\ 0 \in Winners(l) /\ l.cover[0] = 0
         /\ \A h \in Hyps(l) \ {0} :
              /\ l.prev[h] \in Winners(l) /\ l.win[h] \in Winners(l)
              /\ l.cover[l.prev[h]] < l.cover[h] /\ l.cover[l.win[h]] = l.cover[h]
<1>1. IsFiniteSet(Hyps(l)) /\ Hyps(l) # {} /\ l.cover \in [Hyps(l) -> Int]
  BY DEF LatticeType
<1>2. /\ \E m \in Hyps(l) : Length(l) = l.cover[m]
      /\ \A h \in Hyps(l) : l.cover[h] <= Length(l)
  BY <1>1, MaxOfValues DEF Length
<1>3. \A h \in Hyps(l) : l.cover[h] \in Nat
  BY DEF LatticeType
<1>4. Length(l) \in Nat /\ \A h \in Hyps(l) : l.cover[h] \in 0 .. Length(l)
  BY <1>2, <1>3
<1>5. QED
  BY <1>4 DEF LatticeOK, LatticeType, Winners

(* What is not complete goes on. *)
LEMMA Continues ==
  ASSUME NEW l, LatticeType(l), LatticeOK(l), NEW h \in Winners(l), l.cover[h] # Length(l)
  PROVE  Made(l, h) # {} /\ IsFiniteSet(Made(l, h))
<1>1. IsFiniteSet(Made(l, h))
  BY FS_Subset DEF Made, LatticeType
<1>2. CASE h = 0
  <2>1. PICK m \in Hyps(l) : Length(l) = l.cover[m]
    <3>1. IsFiniteSet(Hyps(l)) /\ Hyps(l) # {} /\ l.cover \in [Hyps(l) -> Int]
      BY DEF LatticeType
    <3>2. QED
      BY <3>1, MaxOfValues DEF Length
  <2> DEFINE S == Hyps(l) \ {0}
  <2>2. S # {} /\ S \subseteq Nat
    BY <1>2, <2>1 DEF LatticeType
  <2>3. Min(S) \in S /\ \A x \in S : Min(S) <= x
    BY <2>2, MinIn
  <2>4. l.prev[Min(S)] = 0
    <3>1. l.prev[Min(S)] < Min(S) /\ l.prev[Min(S)] \in Hyps(l)
      BY <2>3 DEF LatticeOK, LatticeType
    <3>2. l.prev[Min(S)] \notin S
      BY <2>2, <2>3, <3>1
    <3>3. QED
      BY <3>1, <3>2
  <2>5. QED
    BY <1>1, <1>2, <2>3, <2>4 DEF Made
<1>3. CASE h # 0
  <2>1. h \in Hyps(l) \ {0} /\ l.win[h] = h /\ l.cover[h] < Length(l)
    BY <1>3, LatticeFacts DEF Winners
  <2>2. \E k \in Hyps(l) \ {0} : l.prev[k] = h
    BY <2>1 DEF LatticeOK
  <2>3. QED
    BY <1>1, <2>2 DEF Made
<1>4. QED
  BY <1>2, <1>3

-------------------------------------------------------------------------
(* The recursion of ForwardScore has a solution, and its values are        *)
(* numbers.                                                                *)
ScoreHere(l, f, h) ==
  IF l.cover[h] = Length(l) THEN 0
  ELSE Max({ f[l.win[k]] + l.gain[k] : k \in Made(l, h) })

LEMMA ScoreHereFacts ==
  ASSUME NEW l, LatticeType(l), LatticeOK(l), NEW h \in Winners(l), NEW f,
         \A k \in Made(l, h) : f[l.win[k]] \in Int
  PROVE  /\ ScoreHere(l, f, h) \in Int
         /\ l.cover[h] = Length(l) => ScoreHere(l, f, h) = 0
         /\ l.cover[h] # Length(l) =>
              \E k \in Made(l, h) : ScoreHere(l, f, h) = f[l.win[k]] + l.gain[k]
         /\ l.cover[h] # Length(l) =>
              \A k \in Made(l, h) : f[l.win[k]] + l.gain[k] <= ScoreHere(l, f, h)
<1>1. CASE l.cover[h] = Length(l)
  BY <1>1 DEF ScoreHere
<1>2. CASE l.cover[h] # Length(l)
  <2> DEFINE v == [k \in Made(l, h) |-> f[l.win[k]] + l.gain[k]]
  <2>1. v \in [Made(l, h) -> Int]
    BY DEF LatticeType, Made
  <2>2. Made(l, h) # {} /\ IsFiniteSet(Made(l, h))
    BY <1>2, Continues
  <2>3. { v[k] : k \in Made(l, h) } = { f[l.win[k]] + l.gain[k] : k \in Made(l, h) }
    OBVIOUS
  <2> HIDE DEF v
  <2>4. /\ \E m \in Made(l, h) : Max({ v[x] : x \in Made(l, h) }) = v[m]
        /\ \A x \in Made(l, h) : v[x] <= Max({ v[y] : y \in Made(l, h) })
    BY <2>1, <2>2, MaxOfValues
  <2>5. ScoreHere(l, f, h) = Max({ v[x] : x \in Made(l, h) })
    BY <1>2, <2>3 DEF ScoreHere
  <2>6. QED
    BY <1>2, <2>1, <2>4, <2>5 DEF v
<1>3. QED
  BY <1>1, <1>2

LEMMA ForwardScoreEquation ==
  ASSUME NEW l, LatticeType(l), LatticeOK(l)
  PROVE  ForwardScore(l) = [h \in Winners(l) |-> ScoreHere(l, ForwardScore(l), h)]
<1> DEFINE W == Winners(l)
           L == Length(l)
           rank == [h \in W |-> L - l.cover[h]]
           G == [f \in [W -> Int] |-> [h \in W |-> ScoreHere(l, f, h)]]
<1>1. L \in Nat /\ rank \in [W -> 0 .. L]
  BY LatticeFacts DEF Winners
<1>2. ASSUME NEW h \in W, NEW k \in Made(l, h)
      PROVE  l.win[k] \in W /\ rank[l.win[k]] < rank[h] /\ l.gain[k] \in Int
  <2>1. k \in Hyps(l) \ {0} /\ l.prev[k] = h /\ h \in Hyps(l)
    BY DEF Made, Winners
  <2>2. /\ l.win[k] \in W /\ l.cover[l.win[k]] = l.cover[k]
        /\ l.cover[h] < l.cover[k] /\ l.gain[k] \in Int
        /\ l.cover[h] \in 0 .. L /\ l.cover[k] \in 0 .. L
    BY <2>1, LatticeFacts DEF LatticeType
  <2>3. QED
    BY <1>1, <2>2
<1>3. ASSUME NEW f \in [W -> Int], NEW h \in W
      PROVE  G[f][h] = ScoreHere(l, f, h) /\ G[f][h] \in Int
  <2>1. \A k \in Made(l, h) : f[l.win[k]] \in Int
    BY <1>2
  <2>2. ScoreHere(l, f, h) \in Int
    BY <2>1, ScoreHereFacts
  <2>3. QED
    BY <2>2
<1>4. ASSUME NEW f \in [W -> Int], NEW g \in [W -> Int], NEW h \in W,
             \A y \in W : rank[y] < rank[h] => f[y] = g[y]
      PROVE  G[f][h] = G[g][h]
  <2>1. \A k \in Made(l, h) : f[l.win[k]] = g[l.win[k]]
    BY <1>2, <1>4
  <2>2. { f[l.win[k]] + l.gain[k] : k \in Made(l, h) }
          = { g[l.win[k]] + l.gain[k] : k \in Made(l, h) }
    BY <2>1
  <2>3. ScoreHere(l, f, h) = ScoreHere(l, g, h)
    BY <2>2 DEF ScoreHere
  <2>4. QED
    BY <1>3, <2>3
<1>5. PICK f \in [W -> Int] : \A h \in W : f[h] = G[f][h]
  <2> HIDE DEF G, rank, W, L
  <2>1. KeepsType(G, W, Int)
    BY <1>3 DEF KeepsType
  <2>2. LooksBelow(G, W, Int, rank)
    BY <1>4 DEF LooksBelow
  <2>3. \E f \in [W -> Int] : Solution(f, G, W)
    BY <1>1, <2>1, <2>2, Recursion
  <2>4. QED
    BY <2>3 DEF Solution
<1>6. f = [h \in W |-> ScoreHere(l, f, h)]
  BY <1>3, <1>5
<1>7. ForwardScore(l) = CHOOSE g : g = [h \in W |-> ScoreHere(l, g, h)]
  BY DEF ForwardScore, ScoreHere, Made
<1>8. QED
  BY <1>6, <1>7

LEMMA ForwardScoreFacts ==
  ASSUME NEW l, LatticeType(l), LatticeOK(l), NEW h \in Winners(l)
  PROVE  /\ ForwardScore(l)[h] \in Int
         /\ l.cover[h] = Length(l) => ForwardScore(l)[h] = 0
         /\ l.cover[h] # Length(l) =>
              \E k \in Made(l, h) : ForwardScore(l)[h] = ForwardScore(l)[l.win[k]] + l.gain[k]
         /\ l.cover[h] # Length(l) =>
              \A k \in Made(l, h) : ForwardScore(l)[l.win[k]] + l.gain[k] <= ForwardScore(l)[h]
<1> DEFINE F == ForwardScore(l)
           S == { n \in Nat : \A x \in Winners(l) : Length(l) - l.cover[x] = n => F[x] \in Int }
<1>1. \A x \in Winners(l) : F[x] = ScoreHere(l, F, x)
  BY ForwardScoreEquation
<1>2. \A x \in Winners(l) : \A k \in Made(l, x) :
        /\ l.win[k] \in Winners(l) /\ l.cover[x] < l.cover[l.win[k]]
        /\ l.cover[x] \in 0 .. Length(l) /\ l.cover[l.win[k]] \in 0 .. Length(l)
  BY LatticeFacts DEF Made, Winners
<1> HIDE DEF F
<1>3. Length(l) \in Nat
  BY LatticeFacts
<1>4. ASSUME NEW n \in Nat, \A j \in 0 .. n - 1 : j \in S PROVE n \in S
  <2>1. ASSUME NEW x \in Winners(l), Length(l) - l.cover[x] = n PROVE F[x] \in Int
    <3>1. \A k \in Made(l, x) : F[l.win[k]] \in Int
      <4>1. ASSUME NEW k \in Made(l, x) PROVE F[l.win[k]] \in Int
        <5>1. Length(l) - l.cover[l.win[k]] \in 0 .. n - 1
          BY <1>2, <1>3, <2>1
        <5>2. QED
          BY <1>2, <1>4, <5>1
      <4>2. QED
        BY <4>1
    <3>2. QED
      BY <1>1, <3>1, ScoreHereFacts
  <2>2. QED
    BY <2>1
<1>5. \A n \in Nat : n \in S
  <2> HIDE DEF S
  <2>1. QED
    BY <1>4, StrongInduction
<1>6. \A x \in Winners(l) : F[x] \in Int
  <2>1. \A x \in Winners(l) : Length(l) - l.cover[x] \in Nat
    BY LatticeFacts DEF Winners
  <2>2. QED
    BY <1>5, <2>1
<1>7. \A k \in Made(l, h) : F[l.win[k]] \in Int
  BY <1>2, <1>6
<1>8. F[h] = ScoreHere(l, F, h)
  BY <1>1
<1>9. QED
  BY <1>7, <1>8, ScoreHereFacts DEF F

-------------------------------------------------------------------------
(* The inductive invariant.  Idx is the number of the state of a winner    *)
(* (0 for the empty hypothesis, which has no entry in the map); stacks are *)
(* listed in order, so numbers grow with the words covered.                *)
ListedWinners == listed \cap Winners(lattice)
Idx(h) == At(hypId2stateId, h)

TransType == [to : Int, score : Int, output : Seq(Hyps(lattice))]
StateType == [forward : Int, fscore : Int, trans : Seq(TransType)]

Typed ==
  /\ lattice \in Lattices /\ listed \subseteq Hyps(lattice)
  /\ states \in Seq(StateType)
  /\ fixed \in -1 .. Len(states)
  /\ fixed # -1 => listed = Hyps(lattice) /\ hypId2stateId[-1] = -1
  /\ DOMAIN hypId2stateId =
       (ListedWinners \ {0}) \cup (IF fixed = -1 THEN {} ELSE {-1})
  /\ DOMAIN recombination = listed \ Winners(lattice)
  /\ \A k \in listed \ Winners(lattice) : recombination[k] = lattice.win[k]

StackByStack ==
  \A h \in listed : \A k \in Winners(lattice) :
    lattice.cover[k] < lattice.cover[h] => {k} \cup Losers(lattice, k) \subseteq listed

Numbered ==
  /\ \A h \in ListedWinners : Idx(h) \in 0 .. Len(states) - 1
  /\ \A i \in 0 .. Len(states) - 1 : \E h \in ListedWinners : Idx(h) = i
  /\ \A h, k \in ListedWinners : Idx(h) = Idx(k) => h = k
  /\ \A h, k \in ListedWinners : lattice.cover[h] < lattice.cover[k] => Idx(h) < Idx(k)

(* What a number of a hypothesis becomes. *)
StateOf(l, map, f) == IF f = -1 THEN -1 ELSE At(map, l.win[f])

TransFor(l, map, k, resolved) ==
  [to |-> IF resolved THEN StateOf(l, map, k) ELSE l.win[k],
   score |-> l.gain[k], output |-> << k >>]

StateRight(l, done, map, s, h, resolved) ==
  /\ s.fscore = ForwardScore(l)[h]
  /\ \E f \in Forwards(l, h) : s.forward = IF resolved THEN StateOf(l, map, f) ELSE f
  /\ \A j \in DOMAIN s.trans :
       \E k \in done \cap Made(l, h) : s.trans[j] = TransFor(l, map, k, resolved)
  /\ \A k \in done \cap Made(l, h) :
       \E j \in DOMAIN s.trans : s.trans[j] = TransFor(l, map, k, resolved)

StatesRight ==
  \A h \in ListedWinners : StateRight(lattice, listed, hypId2stateId, states[Idx(h) + 1], h, Idx(h) < fixed)

IInv == Typed /\ StackByStack /\ Numbered /\ StatesRight

-------------------------------------------------------------------------
(* Every state of the finished list is one of the graph the searches       *)
(* assume.                                                                 *)
LEMMA ForwardsFacts ==
  ASSUME NEW l, LatticeType(l), LatticeOK(l), NEW h \in Winners(l), NEW f \in Forwards(l, h)
  PROVE  \/ f = -1 /\ l.cover[h] = Length(l)
         \/ /\ f \in Made(l, h) /\ l.cover[h] # Length(l)
            /\ ForwardScore(l)[l.win[f]] + l.gain[f] = ForwardScore(l)[h]
BY DEF Forwards, Made

LEMMA MadeFacts ==
  ASSUME NEW l, LatticeType(l), LatticeOK(l), NEW h \in Winners(l), NEW k \in Made(l, h)
  PROVE  /\ k \in Hyps(l) \ {0} /\ k \in Nat /\ l.prev[k] = h
         /\ l.win[k] \in Winners(l) /\ l.win[k] \in Hyps(l) \ {0} /\ l.win[k] \in Nat
         /\ l.cover[h] < l.cover[l.win[k]] /\ l.gain[k] \in Int
         /\ l.cover[h] # Length(l)
<1>1. /\ k \in Hyps(l) \ {0} /\ l.prev[k] = h /\ l.cover[h] < l.cover[k]
      /\ l.win[k] \in Winners(l) /\ l.cover[l.win[k]] = l.cover[k]
  BY LatticeFacts DEF Made
<1>2. l.cover[0] = 0 /\ l.cover[h] \in Nat /\ l.cover[k] \in 0 .. Length(l) /\ Length(l) \in Nat
  BY <1>1, LatticeFacts DEF LatticeType, Winners
<1>3. l.win[k] # 0
  BY <1>1, <1>2
<1>4. QED
  BY <1>1, <1>2, <1>3 DEF LatticeType, Winners

LEMMA Sound ==
  ASSUME IInv, Done
  PROVE  GraphAsAssumed
<1> DEFINE n == Len(states)
<1>1. /\ lattice \in Lattices /\ LatticeType(lattice) /\ LatticeOK(lattice)
      /\ states \in Seq(StateType) /\ n \in Nat /\ fixed = n /\ n # -1
  BY LatticesAssumption DEF IInv, Typed, Done
<1>2. listed = Hyps(lattice) /\ ListedWinners = Winners(lattice) /\ 0 \in Winners(lattice)
  BY <1>1, LatticeFacts DEF IInv, Typed, ListedWinners, Winners
<1>3. n \in Nat \ {0}
  BY <1>1, <1>2 DEF IInv, Numbered
<1>4. ASSUME NEW i \in 0 .. n - 1
      PROVE  /\ states[i + 1] \in StateType
             /\ \E h \in Winners(lattice) : Idx(h) = i /\ StateRight(lattice, listed, hypId2stateId, states[i + 1], h, TRUE)
  <2>1. PICK h \in Winners(lattice) : Idx(h) = i
    BY <1>2 DEF IInv, Numbered
  <2>2. StateRight(lattice, listed, hypId2stateId, states[i + 1], h, Idx(h) < fixed)
    BY <1>2, <2>1 DEF IInv, StatesRight
  <2>3. (Idx(h) < fixed) = TRUE
    BY <1>1, <2>1
  <2>4. states[i + 1] \in StateType
    BY <1>1
  <2>5. QED
    BY <2>1, <2>2, <2>3, <2>4
<1>5. ASSUME NEW h \in Winners(lattice), NEW k \in Made(lattice, h)
      PROVE  /\ k \in Nat /\ StateOf(lattice, hypId2stateId, k) = Idx(lattice.win[k])
             /\ Idx(lattice.win[k]) \in Idx(h) + 1 .. n - 1
             /\ states[Idx(lattice.win[k]) + 1].fscore = ForwardScore(lattice)[lattice.win[k]]
             /\ TransFor(lattice, hypId2stateId, k, TRUE) \in D!TransitionType
             /\ TransFor(lattice, hypId2stateId, k, TRUE).to = StateOf(lattice, hypId2stateId, k) /\ TransFor(lattice, hypId2stateId, k, TRUE).score = lattice.gain[k]
  <2>1. /\ k \in Nat /\ k \in Hyps(lattice) /\ lattice.win[k] \in Winners(lattice)
        /\ lattice.cover[h] < lattice.cover[lattice.win[k]] /\ lattice.gain[k] \in Int
    BY <1>1, MadeFacts
  <2>2. StateOf(lattice, hypId2stateId, k) = Idx(lattice.win[k])
    BY <2>1 DEF StateOf, Idx
  <2>3. /\ Idx(lattice.win[k]) \in 0 .. n - 1 /\ Idx(h) \in 0 .. n - 1
        /\ Idx(h) < Idx(lattice.win[k])
    BY <1>2, <2>1 DEF IInv, Numbered
  <2>4. states[Idx(lattice.win[k]) + 1].fscore = ForwardScore(lattice)[lattice.win[k]]
    BY <1>2, <2>1 DEF IInv, StatesRight, StateRight
  <2>5. QED
    BY <1>1, <2>1, <2>2, <2>3, <2>4 DEF TransFor, D!TransitionType
<1>6. ASSUME NEW i \in 0 .. n - 1, NEW j \in DOMAIN states[i + 1].trans
      PROVE  /\ states[i + 1].trans[j] \in D!TransitionType
             /\ states[i + 1].trans[j].to \in i + 1 .. n - 1
             /\ states[i + 1].trans[j].score + states[states[i + 1].trans[j].to + 1].fscore
                  <= states[i + 1].fscore
  <2>1. PICK h \in Winners(lattice) : Idx(h) = i /\ StateRight(lattice, listed, hypId2stateId, states[i + 1], h, TRUE)
    BY <1>4
  <2>2. PICK k \in Made(lattice, h) : states[i + 1].trans[j] = TransFor(lattice, hypId2stateId, k, TRUE)
    BY <2>1 DEF StateRight
  <2>3. lattice.cover[h] # Length(lattice)
    BY <1>1, <2>2, MadeFacts
  <2>4. lattice.gain[k] + ForwardScore(lattice)[lattice.win[k]] <= ForwardScore(lattice)[h]
    <3>1. ForwardScore(lattice)[lattice.win[k]] + lattice.gain[k] <= ForwardScore(lattice)[h]
      BY <1>1, <2>3, ForwardScoreFacts
    <3>2. ForwardScore(lattice)[lattice.win[k]] \in Int /\ lattice.gain[k] \in Int
      BY <1>1, ForwardScoreFacts, MadeFacts
    <3>3. QED
      BY <3>1, <3>2
  <2>5. /\ TransFor(lattice, hypId2stateId, k, TRUE) \in D!TransitionType
        /\ TransFor(lattice, hypId2stateId, k, TRUE).to = Idx(lattice.win[k]) /\ TransFor(lattice, hypId2stateId, k, TRUE).score = lattice.gain[k]
        /\ Idx(lattice.win[k]) \in i + 1 .. n - 1
        /\ states[Idx(lattice.win[k]) + 1].fscore = ForwardScore(lattice)[lattice.win[k]]
    BY <1>5, <2>1
  <2>6. states[i + 1].fscore = ForwardScore(lattice)[h]
    BY <2>1 DEF StateRight
  <2>7. QED
    BY <2>2, <2>4, <2>5, <2>6
<1>7. ASSUME NEW i \in 0 .. n - 1
      PROVE  /\ states[i + 1].forward \in -1 .. n - 1
             /\ states[i + 1].trans \in Seq(D!TransitionType)
             /\ states[i + 1].fscore \in Int
             /\ states[i + 1].forward = -1 =>
                  states[i + 1].fscore = 0 /\ states[i + 1].trans = << >>
             /\ states[i + 1].forward # -1 =>
                  \E j \in DOMAIN states[i + 1].trans :
                    /\ states[i + 1].trans[j].to = states[i + 1].forward
                    /\ states[i + 1].trans[j].score + states[states[i + 1].forward + 1].fscore
                         = states[i + 1].fscore
  <2> DEFINE s == states[i + 1]
  <2>1. PICK h \in Winners(lattice) : Idx(h) = i /\ StateRight(lattice, listed, hypId2stateId, s, h, TRUE)
    BY <1>4
  <2>2. s \in StateType
    BY <1>4
  <2>3. s.trans \in Seq(D!TransitionType)
    <3>1. \A j \in 1 .. Len(s.trans) : s.trans[j] \in D!TransitionType
      BY <1>6, <2>2 DEF StateType
    <3>2. QED
      BY <2>2, <3>1 DEF StateType
  <2>4. PICK f \in Forwards(lattice, h) : s.forward = StateOf(lattice, hypId2stateId, f)
    BY <2>1 DEF StateRight
  <2>5. CASE f = -1 /\ lattice.cover[h] = Length(lattice)
    <3>1. s.forward = -1
      BY <2>4, <2>5 DEF StateOf
    <3>2. s.fscore = 0
      BY <1>1, <2>1, <2>5, ForwardScoreFacts DEF StateRight
    <3>3. s.trans = << >>
      <4>1. Made(lattice, h) = {}
        BY <1>1, <2>5, MadeFacts
      <4>2. DOMAIN s.trans = {}
        BY <2>1, <4>1 DEF StateRight
      <4> HIDE DEF s
      <4>3. s.trans \in Seq(TransType)
        BY <2>2 DEF StateType
      <4>4. Len(s.trans) = 0
        <5>1. Len(s.trans) \in Nat /\ DOMAIN s.trans = 1 .. Len(s.trans)
          BY <4>3
        <5>2. 1 \notin 1 .. Len(s.trans)
          BY <4>2, <5>1
        <5>3. QED
          BY <5>1, <5>2
      <4>5. QED
        BY <4>3, <4>4
    <3>4. QED
      BY <2>2, <2>3, <3>1, <3>2, <3>3
  <2>6. CASE /\ f \in Made(lattice, h) /\ lattice.cover[h] # Length(lattice)
             /\ ForwardScore(lattice)[lattice.win[f]] + lattice.gain[f] = ForwardScore(lattice)[h]
    <3>1. PICK j \in DOMAIN s.trans : s.trans[j] = TransFor(lattice, hypId2stateId, f, TRUE)
      BY <1>2, <1>1, <2>1, <2>6, MadeFacts DEF StateRight
    <3>2. /\ s.trans[j].to = s.forward /\ s.forward \in i + 1 .. n - 1
          /\ s.trans[j].score + states[s.forward + 1].fscore = s.fscore
      <4>1. /\ s.trans[j].to = s.forward /\ s.trans[j].score = lattice.gain[f]
            /\ s.forward \in i + 1 .. n - 1
            /\ states[s.forward + 1].fscore = ForwardScore(lattice)[lattice.win[f]]
        <5>1. /\ TransFor(lattice, hypId2stateId, f, TRUE).to = StateOf(lattice, hypId2stateId, f) /\ TransFor(lattice, hypId2stateId, f, TRUE).score = lattice.gain[f]
              /\ StateOf(lattice, hypId2stateId, f) = Idx(lattice.win[f]) /\ Idx(lattice.win[f]) \in i + 1 .. n - 1
              /\ states[Idx(lattice.win[f]) + 1].fscore = ForwardScore(lattice)[lattice.win[f]]
          BY <1>5, <2>1, <2>6
        <5> HIDE DEF s
        <5>2. QED
          BY <2>4, <3>1, <5>1
      <4>2. /\ lattice.gain[f] \in Int /\ ForwardScore(lattice)[lattice.win[f]] \in Int
        BY <1>1, <2>6, MadeFacts, ForwardScoreFacts
      <4>3. QED
        BY <2>1, <2>6, <4>1, <4>2 DEF StateRight
    <3>3. s.forward \in -1 .. n - 1 /\ s.forward # -1 /\ s.fscore \in Int
      <4> HIDE DEF s
      <4>1. s.fscore \in Int
        BY <2>2 DEF StateType
      <4>2. QED
        BY <1>3, <3>2, <4>1
    <3>4. QED
      BY <2>3, <3>2, <3>3
  <2>7. QED
    BY <1>1, <2>4, <2>5, <2>6, ForwardsFacts
<1>8. /\ Graph.n = n /\ Graph.trans = [i \in 0 .. n - 1 |-> states[i + 1].trans]
      /\ Graph.forward = [i \in 0 .. n - 1 |-> states[i + 1].forward]
      /\ Graph.fscore = [i \in 0 .. n - 1 |-> states[i + 1].fscore]
      /\ D!States(Graph) = 0 .. n - 1
  BY DEF Graph, D!States
<1> HIDE DEF n
<1>9. D!GraphType(Graph)
  BY <1>3, <1>7, <1>8 DEF D!GraphType
<1>10. D!Ordered(Graph)
  BY <1>6, <1>8 DEF D!Ordered
<1>11. D!ForwardBest(Graph)
  <2>1. ASSUME NEW i \in 0 .. n - 1, NEW j \in DOMAIN states[i + 1].trans
        PROVE  Graph.fscore[states[i + 1].trans[j].to]
                 = states[states[i + 1].trans[j].to + 1].fscore
    <3>1. states[i + 1].trans[j].to \in 0 .. n - 1
      BY <1>3, <1>6
    <3>2. QED
      BY <1>8, <3>1
  <2>2. ASSUME NEW i \in 0 .. n - 1, states[i + 1].forward # -1
        PROVE  Graph.fscore[states[i + 1].forward] = states[states[i + 1].forward + 1].fscore
    BY <1>3, <1>7, <1>8, <2>2
  <2>3. ASSUME NEW i \in 0 .. n - 1
        PROVE /\ \A k \in DOMAIN Graph.trans[i] :
                   Graph.trans[i][k].score + Graph.fscore[Graph.trans[i][k].to] <= Graph.fscore[i]
              /\ IF Graph.forward[i] = -1
                   THEN Graph.fscore[i] = 0 /\ Graph.trans[i] = << >>
                   ELSE \E k \in DOMAIN Graph.trans[i] :
                          /\ Graph.trans[i][k].to = Graph.forward[i]
                          /\ Graph.trans[i][k].score + Graph.fscore[Graph.forward[i]] = Graph.fscore[i]
    <3>1. /\ Graph.trans[i] = states[i + 1].trans /\ Graph.forward[i] = states[i + 1].forward
          /\ Graph.fscore[i] = states[i + 1].fscore
      BY <1>8
    <3>2. \A k \in DOMAIN Graph.trans[i] :
            Graph.trans[i][k].score + Graph.fscore[Graph.trans[i][k].to] <= Graph.fscore[i]
      BY <1>6, <2>1, <3>1
    <3>3. CASE Graph.forward[i] = -1
      BY <1>7, <3>1, <3>2, <3>3
    <3>4. CASE Graph.forward[i] # -1
      BY <1>7, <2>2, <3>1, <3>2, <3>4
    <3>5. QED
      BY <3>3, <3>4
  <2>4. QED
    BY <1>8, <2>3 DEF D!ForwardBest
<1>12. QED
  BY <1>9, <1>10, <1>11 DEF GraphAsAssumed

-------------------------------------------------------------------------
LEMMA InitStep == Init => IInv
<1> SUFFICES ASSUME Init PROVE IInv
  OBVIOUS
<1>1. /\ lattice \in Lattices /\ listed = {} /\ states = << >> /\ fixed = -1
      /\ DOMAIN hypId2stateId = {} /\ DOMAIN recombination = {} /\ ListedWinners = {}
  BY DEF Init, ListedWinners
<1>2. states \in Seq(StateType) /\ Len(states) = 0
  BY <1>1
<1>3. QED
  BY <1>1, <1>2 DEF IInv, Typed, StackByStack, Numbered, StatesRight

(* While nodes are turned into states no reference is resolved, the empty  *)
(* hypothesis comes first, and the state to add a transition to is there.  *)
LEMMA Building ==
  ASSUME IInv, NEW h \in Hyps(lattice), NextInList(h)
  PROVE  /\ lattice \in Lattices /\ LatticeType(lattice) /\ LatticeOK(lattice)
         /\ fixed = -1 /\ h \notin listed /\ states \in Seq(StateType) /\ Len(states) \in Nat
         /\ \A k \in ListedWinners : k \in Nat /\ k # -1
         /\ h = 0 => listed = {}
         /\ h # 0 => /\ lattice.prev[h] \in ListedWinners
                     /\ h \in Made(lattice, lattice.prev[h])
         /\ \A k \in listed : ~ (lattice.cover[h] < lattice.cover[k]) \/ h \notin Winners(lattice)
<1>1. /\ lattice \in Lattices /\ LatticeType(lattice) /\ LatticeOK(lattice)
      /\ h \notin listed /\ states \in Seq(StateType) /\ Len(states) \in Nat
      /\ listed \subseteq Hyps(lattice)
  BY LatticesAssumption DEF NextInList, IInv, Typed
<1>2. fixed = -1
  BY <1>1 DEF IInv, Typed
<1>3. \A k \in ListedWinners : k \in Nat /\ k # -1
  BY <1>1 DEF ListedWinners, LatticeType
<1>4. \A k \in listed : ~ (lattice.cover[h] < lattice.cover[k]) \/ h \notin Winners(lattice)
  BY <1>1 DEF IInv, StackByStack
<1>5. ASSUME h = 0, listed # {} PROVE FALSE
  <2>1. PICK k \in listed : TRUE
    BY <1>5
  <2>2. k \in Hyps(lattice) \ {0}
    BY <1>1, <1>5, <2>1
  <2>3. lattice.cover[0] < lattice.cover[k] /\ 0 \in Winners(lattice)
    <3>1. lattice.cover[0] = 0 /\ lattice.prev[k] \in Hyps(lattice)
          /\ lattice.cover[lattice.prev[k]] < lattice.cover[k]
      BY <1>1, <2>2, LatticeFacts DEF Winners
    <3>2. lattice.cover[k] \in Nat /\ lattice.cover[lattice.prev[k]] \in Nat
      BY <1>1, <2>2, <3>1 DEF LatticeType
    <3>3. 0 \in Winners(lattice)
      BY <1>1, LatticeFacts
    <3>4. QED
      BY <3>1, <3>2, <3>3
  <2>4. 0 \in listed
    BY <2>1, <2>3 DEF IInv, StackByStack
  <2>5. QED
    BY <1>1, <1>5, <2>4
<1>6. ASSUME h # 0
      PROVE  lattice.prev[h] \in ListedWinners /\ h \in Made(lattice, lattice.prev[h])
  <2>1. lattice.prev[h] \in Winners(lattice) /\ lattice.cover[lattice.prev[h]] < lattice.cover[h]
    BY <1>1, <1>6, LatticeFacts
  <2>2. lattice.prev[h] \in listed
    BY <2>1 DEF NextInList
  <2>3. QED
    BY <1>6, <2>1, <2>2 DEF ListedWinners, Made
<1>7. QED
  BY <1>1, <1>2, <1>3, <1>4, <1>5, <1>6

LEMMA Appended ==
  ASSUME NEW T, NEW q \in Seq(T), NEW e \in T
  PROVE  /\ Append(q, e) \in Seq(T) /\ Len(q) \in Nat /\ Len(Append(q, e)) = Len(q) + 1
         /\ DOMAIN Append(q, e) = DOMAIN q \cup {Len(q) + 1}
         /\ Append(q, e)[Len(q) + 1] = e
         /\ \A j \in DOMAIN q : Append(q, e)[j] = q[j]
OBVIOUS

(* A state as it stands, or with one more transition, while h is listed. *)
LEMMA OtherState ==
  ASSUME NEW l, NEW done, NEW map, NEW map2, NEW h, NEW g, NEW s,
         StateRight(l, done, map, s, g, FALSE), h \notin Made(l, g)
  PROVE  StateRight(l, done \cup {h}, map2, s, g, FALSE)
<1>1. (done \cup {h}) \cap Made(l, g) = done \cap Made(l, g)
  OBVIOUS
<1>2. \A k : TransFor(l, map, k, FALSE) = TransFor(l, map2, k, FALSE)
  BY DEF TransFor
<1>3. QED
  BY <1>1, <1>2 DEF StateRight

LEMMA ExtendedState ==
  ASSUME NEW l, NEW done, NEW map, NEW map2, NEW h, NEW g, NEW s, NEW T, s.trans \in Seq(T),
         TransFor(l, map, h, FALSE) \in T,
         StateRight(l, done, map, s, g, FALSE), h \in Made(l, g),
         NEW r, r.fscore = s.fscore, r.forward = s.forward,
         r.trans = Append(s.trans, TransFor(l, map, h, FALSE))
  PROVE  StateRight(l, done \cup {h}, map2, r, g, FALSE)
<1> DEFINE t == TransFor(l, map, h, FALSE)
           n == Len(s.trans)
<1>1. (done \cup {h}) \cap Made(l, g) = (done \cap Made(l, g)) \cup {h}
  OBVIOUS
<1>2. \A k : TransFor(l, map, k, FALSE) = TransFor(l, map2, k, FALSE)
  BY DEF TransFor
<1>3. /\ DOMAIN r.trans = DOMAIN s.trans \cup {n + 1} /\ r.trans[n + 1] = t
      /\ \A j \in DOMAIN s.trans : r.trans[j] = s.trans[j]
  <2>1. r.trans = Append(s.trans, t) /\ t \in T
    OBVIOUS
  <2> HIDE DEF t
  <2>2. /\ DOMAIN Append(s.trans, t) = DOMAIN s.trans \cup {n + 1}
        /\ Append(s.trans, t)[n + 1] = t
        /\ \A j \in DOMAIN s.trans : Append(s.trans, t)[j] = s.trans[j]
    BY <2>1, Appended
  <2>3. QED
    BY <2>1, <2>2, Zenon
<1>4. ASSUME NEW j \in DOMAIN r.trans
      PROVE  \E k \in (done \cup {h}) \cap Made(l, g) : r.trans[j] = TransFor(l, map2, k, FALSE)
  <2>1. CASE j \in DOMAIN s.trans
    <3>1. PICK k \in done \cap Made(l, g) : s.trans[j] = TransFor(l, map, k, FALSE)
      BY <2>1 DEF StateRight
    <3>2. QED
      BY <1>1, <1>2, <1>3, <2>1, <3>1
  <2>2. CASE j = n + 1
    BY <1>1, <1>2, <1>3, <2>2
  <2>3. QED
    BY <1>3, <2>1, <2>2
<1>5. ASSUME NEW k \in (done \cup {h}) \cap Made(l, g)
      PROVE  \E j \in DOMAIN r.trans : r.trans[j] = TransFor(l, map2, k, FALSE)
  <2>1. CASE k \in done \cap Made(l, g)
    <3>1. PICK j \in DOMAIN s.trans : s.trans[j] = TransFor(l, map, k, FALSE)
      BY <2>1 DEF StateRight
    <3>2. QED
      BY <1>2, <1>3, <3>1
  <2>2. CASE k = h
    BY <1>2, <1>3, <2>2
  <2>3. QED
    BY <1>1, <2>1, <2>2
<1>6. QED
  BY <1>4, <1>5 DEF StateRight

(* One more transition in the list of states. *)
LEMMA Adding ==
  ASSUME IInv, NEW h \in Hyps(lattice) \ {0}, NextInList(h), NEW map
  PROVE  LET st == AddTransition(h, lattice.win[h])
         IN  /\ st \in Seq(StateType) /\ Len(st) = Len(states)
             /\ \A g \in ListedWinners :
                  StateRight(lattice, listed \cup {h}, map, st[Idx(g) + 1], g, FALSE)
<1> DEFINE st == AddTransition(h, lattice.win[h])
           p  == lattice.prev[h]
           i  == Idx(p) + 1
           t  == TransFor(lattice, hypId2stateId, h, FALSE)
           s  == states[i]
           r  == [s EXCEPT !.trans = Append(@, t)]
<1>1. /\ lattice \in Lattices /\ LatticeType(lattice) /\ LatticeOK(lattice)
      /\ fixed = -1 /\ states \in Seq(StateType) /\ Len(states) \in Nat
      /\ p \in ListedWinners /\ h \in Made(lattice, p)
  BY Building
<1>2. t = [to |-> lattice.win[h], score |-> lattice.gain[h], output |-> << h >>] /\ t \in TransType
  <2>1. lattice.win[h] \in Int /\ lattice.gain[h] \in Int /\ h \in Hyps(lattice)
    BY <1>1, MadeFacts DEF ListedWinners
  <2>2. QED
    BY <2>1 DEF TransFor, TransType
<1>3. i \in 1 .. Len(states) /\ i \in DOMAIN states /\ s \in StateType
  BY <1>1 DEF IInv, Numbered
<1>4. st = [states EXCEPT ![i] = r]
  BY <1>2 DEF AddTransition, Idx
<1>5. r \in StateType /\ r.fscore = s.fscore /\ r.forward = s.forward
      /\ r.trans = Append(s.trans, t) /\ s.trans \in Seq(TransType)
  <2> HIDE DEF s, t
  <2>1. s.trans \in Seq(TransType) /\ Append(s.trans, t) \in Seq(TransType)
    BY <1>2, <1>3, Appended DEF StateType
  <2>2. QED
    BY <1>3, <2>1 DEF StateType
<1> HIDE DEF r, s, t
<1>6. st \in Seq(StateType) /\ Len(st) = Len(states)
  BY <1>1, <1>3, <1>4, <1>5
<1>7. ASSUME NEW g \in ListedWinners
      PROVE  StateRight(lattice, listed \cup {h}, map, st[Idx(g) + 1], g, FALSE)
  <2>1. StateRight(lattice, listed, hypId2stateId, states[Idx(g) + 1], g, FALSE)
    <3>1. Idx(g) \in 0 .. Len(states) - 1
      BY DEF IInv, Numbered
    <3>2. (Idx(g) < fixed) = FALSE
      BY <1>1, <3>1
    <3>3. QED
      BY <3>2 DEF IInv, StatesRight
  <2>2. CASE g = p
    <3>1. st[Idx(g) + 1] = r
      BY <1>1, <1>3, <1>4, <2>2
    <3>2. StateRight(lattice, listed, hypId2stateId, s, p, FALSE)
      BY <2>1, <2>2 DEF s
    <3>3. StateRight(lattice, listed \cup {h}, map, r, p, FALSE)
      BY <1>1, <1>2, <1>5, <3>2, ExtendedState DEF t
    <3>4. QED
      BY <2>2, <3>1, <3>3
  <2>3. CASE g # p
    <3>1. /\ Idx(g) \in 0 .. Len(states) - 1 /\ Idx(p) \in 0 .. Len(states) - 1
          /\ Idx(g) # Idx(p)
      BY <1>1, <2>3 DEF IInv, Numbered
    <3>2. st[Idx(g) + 1] = states[Idx(g) + 1]
      BY <1>1, <1>3, <1>4, <3>1
    <3>3. h \notin Made(lattice, g)
      BY <2>3 DEF Made
    <3>4. QED
      BY <2>1, <3>2, <3>3, OtherState
  <2>4. QED
    BY <2>2, <2>3
<1>8. QED
  BY <1>6, <1>7

LEMMA LoserStep ==
  ASSUME IInv, NEW h \in Hyps(lattice), Loser(h)
  PROVE  IInv'
<1>1. /\ h \notin Winners(lattice) /\ NextInList(h)
      /\ states' = AddTransition(h, lattice.win[h])
      /\ recombination' = Put(recombination, h, lattice.win[h])
      /\ listed' = listed \cup {h}
      /\ lattice' = lattice /\ hypId2stateId' = hypId2stateId /\ fixed' = fixed
  BY DEF Loser
<1>2. /\ lattice \in Lattices /\ LatticeType(lattice) /\ LatticeOK(lattice)
      /\ fixed = -1 /\ states \in Seq(StateType) /\ h \notin listed
  BY <1>1, Building
<1>3. h # 0
  BY <1>1, <1>2, LatticeFacts
<1>4. /\ states' \in Seq(StateType) /\ Len(states') = Len(states)
      /\ \A g \in ListedWinners :
           StateRight(lattice, listed \cup {h}, hypId2stateId, states'[Idx(g) + 1], g, FALSE)
  BY <1>1, <1>3, Adding
<1>5. ListedWinners' = ListedWinners
  BY <1>1 DEF ListedWinners
<1>6. \A g : Idx(g)' = Idx(g)
  BY <1>1 DEF Idx
<1>7. Typed'
  <2>1. DOMAIN recombination' = listed' \ Winners(lattice')
    BY <1>1 DEF Put, IInv, Typed
  <2>2. \A k \in listed' \ Winners(lattice') : recombination'[k] = lattice'.win[k]
    BY <1>1, <1>2 DEF Put, IInv, Typed
  <2>3. fixed' \in -1 .. Len(states')
    BY <1>1, <1>4 DEF IInv, Typed
  <2>4. StateType' = StateType
    BY <1>1 DEF StateType, TransType
  <2>5. /\ DOMAIN hypId2stateId' =
             (ListedWinners' \ {0}) \cup (IF fixed' = -1 THEN {} ELSE {-1})
        /\ lattice' \in Lattices /\ listed' \subseteq Hyps(lattice')
        /\ fixed' # -1 => listed' = Hyps(lattice') /\ hypId2stateId'[-1] = -1
    BY <1>1, <1>2, <1>5 DEF IInv, Typed
  <2>6. QED
    BY <1>4, <2>1, <2>2, <2>3, <2>4, <2>5 DEF Typed
<1>8. StackByStack'
  BY <1>1 DEF IInv, StackByStack, NextInList
<1>9. Numbered'
  BY <1>1, <1>4, <1>5, <1>6 DEF IInv, Numbered
<1>10. StatesRight'
  <2>1. \A g \in ListedWinners : (Idx(g) < fixed) = FALSE
    BY <1>2 DEF IInv, Numbered, Typed
  <2>2. QED
    BY <1>1, <1>4, <1>5, <1>6, <2>1 DEF StatesRight
<1>11. QED
  BY <1>7, <1>8, <1>9, <1>10 DEF IInv

(* A new state has no transitions, and none of the hypotheses it is to     *)
(* have transitions for has been listed.                                   *)
LEMMA New ==
  ASSUME IInv, NEW h \in Winners(lattice), NextInList(h), NEW s \in NewStates(h), NEW map
  PROVE  s \in StateType /\ StateRight(lattice, listed \cup {h}, map, s, h, FALSE)
<1>1. h \in Hyps(lattice) /\ LatticeType(lattice) /\ LatticeOK(lattice) /\ h \notin listed
  BY Building DEF Winners
<1>2. /\ s.forward \in Forwards(lattice, h) /\ s.fscore = ForwardScore(lattice)[h]
      /\ s.trans = << >>
      /\ s = [forward |-> s.forward, fscore |-> s.fscore, trans |-> s.trans]
  BY DEF NewStates
<1>3. s.forward \in Int
  <2>1. \A k \in Made(lattice, h) : k \in Int
    BY <1>1, MadeFacts
  <2>2. QED
    BY <1>1, <1>2, <2>1, ForwardsFacts
<1>4. s.fscore \in Int
  BY <1>1, <1>2, ForwardScoreFacts
<1>5. s.trans \in Seq(TransType)
  BY <1>2
<1>6. (listed \cup {h}) \cap Made(lattice, h) = {}
  <2>1. ASSUME NEW k \in Made(lattice, h), k \in listed PROVE FALSE
    <3>1. lattice.cover[h] < lattice.cover[k]
      BY <1>1, LatticeFacts DEF Made
    <3>2. h \in listed
      BY <2>1, <3>1 DEF IInv, StackByStack
    <3>3. QED
      BY <1>1, <3>2
  <2>2. h \notin Made(lattice, h)
    <3>1. ASSUME h \in Made(lattice, h) PROVE FALSE
      <4>1. lattice.cover[h] < lattice.cover[h] /\ lattice.cover[h] \in Nat
        BY <1>1, <3>1, LatticeFacts DEF Made, LatticeType
      <4>2. QED
        BY <4>1
    <3>2. QED
      BY <3>1
  <2>3. QED
    BY <2>1, <2>2
<1>7. s \in StateType
  BY <1>2, <1>3, <1>4, <1>5 DEF StateType
<1>8. StateRight(lattice, listed \cup {h}, map, s, h, FALSE)
  BY <1>2, <1>6 DEF StateRight
<1>9. QED
  BY <1>7, <1>8

LEMMA EmptyStep ==
  ASSUME IInv, EmptyHypothesis
  PROVE  IInv'
<1>1. PICK s \in NewStates(0) : states' = Append(states, s)
  BY DEF EmptyHypothesis
<1>2. /\ NextInList(0) /\ listed' = {0} /\ lattice' = lattice /\ hypId2stateId' = hypId2stateId
      /\ recombination' = recombination /\ fixed' = fixed
  BY DEF EmptyHypothesis
<1>3. /\ lattice \in Lattices /\ LatticeType(lattice) /\ LatticeOK(lattice)
      /\ fixed = -1 /\ listed = {} /\ 0 \in Hyps(lattice) /\ 0 \in Winners(lattice)
      /\ states \in Seq(StateType)
  <2>1. 0 \in Hyps(lattice)
    BY <1>2 DEF NextInList
  <2>2. QED
    BY <1>2, <2>1, Building, LatticeFacts
<1>4. s \in StateType /\ StateRight(lattice, {0}, hypId2stateId, s, 0, FALSE)
  <2>1. StateRight(lattice, listed \cup {0}, hypId2stateId, s, 0, FALSE) /\ s \in StateType
    BY <1>2, <1>3, New
  <2>2. listed \cup {0} = {0}
    BY <1>3
  <2>3. QED
    BY <2>1, <2>2
<1>5. Len(states) = 0 /\ DOMAIN hypId2stateId = {} /\ DOMAIN recombination = {}
  <2>1. ListedWinners = {}
    BY <1>3 DEF ListedWinners
  <2>2. Len(states) = 0
    <3>1. Len(states) \in Nat /\ ~ (0 \in 0 .. Len(states) - 1)
      BY <1>3, <2>1 DEF IInv, Numbered
    <3>2. QED
      BY <3>1
  <2>3. QED
    BY <1>3, <2>1, <2>2 DEF IInv, Typed
<1>6. states' \in Seq(StateType) /\ Len(states') = 1 /\ states'[1] = s
  BY <1>1, <1>3, <1>4, <1>5
<1>7. ListedWinners' = {0} /\ Idx(0)' = 0
  BY <1>2, <1>3, <1>5 DEF ListedWinners, Idx, At
<1>8. StateType' = StateType
  BY <1>2 DEF StateType, TransType
<1>9. Typed'
  BY <1>2, <1>3, <1>5, <1>6, <1>7, <1>8 DEF Typed
<1>10. StackByStack'
  <2>1. ASSUME NEW k \in Winners(lattice) PROVE ~ (lattice.cover[k] < lattice.cover[0])
    <3>1. lattice.cover[0] = 0 /\ lattice.cover[k] \in Nat
      BY <1>3, LatticeFacts DEF LatticeType, Winners
    <3>2. QED
      BY <3>1
  <2>2. QED
    BY <1>2, <2>1 DEF StackByStack
<1>11. Numbered'
  <2>1. lattice.cover[0] = 0
    BY <1>3, LatticeFacts
  <2>2. QED
    BY <1>2, <1>6, <1>7, <2>1 DEF Numbered
<1>12. StatesRight'
  <2>1. states'[Idx(0)' + 1] = s /\ (Idx(0)' < fixed') = FALSE
    BY <1>2, <1>3, <1>6, <1>7
  <2>2. StateRight(lattice', listed', hypId2stateId', states'[Idx(0)' + 1], 0, Idx(0)' < fixed')
    BY <1>2, <1>4, <2>1
  <2>3. QED
    BY <1>7, <2>2 DEF StatesRight
<1>13. QED
  BY <1>9, <1>10, <1>11, <1>12 DEF IInv

LEMMA PutThere ==
  ASSUME NEW map, NEW k, NEW v, NEW x
  PROVE  At(Put(map, k, v), x) = IF x = k THEN v ELSE At(map, x)
<1>1. DOMAIN Put(map, k, v) = DOMAIN map \cup {k}
  BY DEF Put
<1>2. CASE x = k
  BY <1>1, <1>2 DEF At, Put
<1>3. CASE x # k /\ x \in DOMAIN map
  BY <1>1, <1>3 DEF At, Put
<1>4. CASE x # k /\ x \notin DOMAIN map
  BY <1>1, <1>4 DEF At
<1>5. QED
  BY <1>2, <1>3, <1>4

LEMMA WinnerStep ==
  ASSUME IInv, NEW h \in Hyps(lattice), Winner(h)
  PROVE  IInv'
<1> DEFINE st == AddTransition(h, h)
           n  == Len(states)
<1>1. PICK s \in NewStates(h) : states' = Append(st, s)
  BY DEF Winner
<1>2. /\ h # 0 /\ h \in Winners(lattice) /\ NextInList(h)
      /\ hypId2stateId' = Put(hypId2stateId, h, n)
      /\ listed' = listed \cup {h}
      /\ lattice' = lattice /\ recombination' = recombination /\ fixed' = fixed
  BY DEF Winner
<1>3. /\ lattice \in Lattices /\ LatticeType(lattice) /\ LatticeOK(lattice)
      /\ fixed = -1 /\ states \in Seq(StateType) /\ n \in Nat /\ h \notin listed
      /\ lattice.win[h] = h /\ h \in Nat
      /\ \A k \in listed : ~ (lattice.cover[h] < lattice.cover[k])
  BY <1>2, Building DEF Winners, LatticeType
<1>4. /\ st \in Seq(StateType) /\ Len(st) = n
      /\ \A g \in ListedWinners :
           StateRight(lattice, listed \cup {h}, hypId2stateId', st[Idx(g) + 1], g, FALSE)
  <2>1. h \in Hyps(lattice) \ {0} /\ st = AddTransition(h, lattice.win[h])
    BY <1>2, <1>3
  <2> HIDE DEF st
  <2>2. QED
    BY <1>2, <2>1, Adding
<1>5. s \in StateType /\ StateRight(lattice, listed \cup {h}, hypId2stateId', s, h, FALSE)
  BY <1>2, New
<1> HIDE DEF st
<1>6. /\ states' \in Seq(StateType) /\ Len(states') = n + 1 /\ states'[n + 1] = s
      /\ \A i \in 1 .. n : states'[i] = st[i]
  BY <1>1, <1>3, <1>4, <1>5
<1>7. ListedWinners' = ListedWinners \cup {h} /\ h \notin ListedWinners
  BY <1>2, <1>3 DEF ListedWinners
<1>8. Idx(h)' = n /\ \A g \in ListedWinners : Idx(g)' = Idx(g)
  <2>1. \A x : At(hypId2stateId', x) = IF x = h THEN n ELSE At(hypId2stateId, x)
    BY <1>2, PutThere
  <2>2. QED
    BY <1>7, <2>1 DEF Idx
<1>9. StateType' = StateType
  BY <1>2 DEF StateType, TransType
<1>10. Typed'
  <2>1. DOMAIN hypId2stateId' =
           (ListedWinners' \ {0}) \cup (IF fixed' = -1 THEN {} ELSE {-1})
    BY <1>2, <1>3, <1>7 DEF IInv, Typed, Put
  <2>2. /\ DOMAIN recombination' = listed' \ Winners(lattice')
        /\ \A k \in listed' \ Winners(lattice') : recombination'[k] = lattice'.win[k]
    BY <1>2 DEF IInv, Typed
  <2>3. /\ fixed' \in -1 .. Len(states') /\ lattice' \in Lattices /\ listed' \subseteq Hyps(lattice')
        /\ fixed' # -1 => listed' = Hyps(lattice') /\ hypId2stateId'[-1] = -1
    BY <1>2, <1>3, <1>6 DEF IInv, Typed
  <2>4. QED
    BY <1>6, <1>9, <2>1, <2>2, <2>3 DEF Typed
<1>11. StackByStack'
  BY <1>2 DEF IInv, StackByStack, NextInList
<1>12. Numbered'
  <2>1. \A g \in ListedWinners : Idx(g) \in 0 .. n - 1 /\ Idx(g)' \in 0 .. n - 1
    BY <1>8 DEF IInv, Numbered
  <2>2. \A g \in ListedWinners' : Idx(g)' \in 0 .. Len(states') - 1
    BY <1>3, <1>6, <1>7, <1>8, <2>1
  <2>3. \A i \in 0 .. Len(states') - 1 : \E g \in ListedWinners' : Idx(g)' = i
    <3>1. ASSUME NEW i \in 0 .. Len(states') - 1 PROVE \E g \in ListedWinners' : Idx(g)' = i
      <4>1. CASE i = n
        BY <1>7, <1>8, <4>1
      <4>2. CASE i # n
        <5>1. i \in 0 .. n - 1
          BY <1>3, <1>6, <3>1, <4>2
        <5>2. PICK g \in ListedWinners : Idx(g) = i
          BY <5>1 DEF IInv, Numbered
        <5>3. QED
          BY <1>7, <1>8, <5>2
      <4>3. QED
        BY <4>1, <4>2
    <3>2. QED
      BY <3>1
  <2>4. \A g, k \in ListedWinners' : Idx(g)' = Idx(k)' => g = k
    <3>1. \A g, k \in ListedWinners : Idx(g)' = Idx(k)' => g = k
      BY <1>8 DEF IInv, Numbered
    <3>2. \A g \in ListedWinners : Idx(g)' # n
      BY <1>3, <2>1
    <3>3. QED
      BY <1>7, <1>8, <3>1, <3>2
  <2>5. \A g, k \in ListedWinners' : lattice.cover[g] < lattice.cover[k] => Idx(g)' < Idx(k)'
    <3>1. \A g, k \in ListedWinners : lattice.cover[g] < lattice.cover[k] => Idx(g)' < Idx(k)'
      BY <1>8 DEF IInv, Numbered
    <3>2. \A g \in ListedWinners : Idx(g)' < n
      BY <1>3, <2>1
    <3>3. \A k \in ListedWinners : ~ (lattice.cover[h] < lattice.cover[k])
      BY <1>3 DEF ListedWinners
    <3>4. ~ (lattice.cover[h] < lattice.cover[h])
      BY <1>3 DEF LatticeType
    <3>5. QED
      BY <1>7, <1>8, <3>1, <3>2, <3>3, <3>4
  <2>6. QED
    BY <1>2, <2>2, <2>3, <2>4, <2>5 DEF Numbered
<1>13. StatesRight'
  <2>1. ASSUME NEW g \in ListedWinners'
        PROVE  StateRight(lattice', listed', hypId2stateId', states'[Idx(g)' + 1], g, Idx(g)' < fixed')
    <3>1. (Idx(g)' < fixed') = FALSE
      BY <1>2, <1>3, <1>12, <2>1 DEF Numbered
    <3>2. StateRight(lattice, listed \cup {h}, hypId2stateId', states'[Idx(g)' + 1], g, FALSE)
      <4>1. CASE g = h
        BY <1>5, <1>6, <1>8, <4>1
      <4>2. CASE g # h
        <5>1. g \in ListedWinners /\ Idx(g)' = Idx(g) /\ Idx(g) \in 0 .. n - 1
          BY <1>7, <1>8, <2>1, <4>2 DEF IInv, Numbered
        <5>2. states'[Idx(g)' + 1] = st[Idx(g) + 1]
          BY <1>3, <1>6, <5>1
        <5>3. QED
          BY <1>4, <5>1, <5>2
      <4>3. QED
        BY <4>1, <4>2
    <3>3. QED
      BY <1>2, <3>1, <3>2
  <2>2. QED
    BY <2>1 DEF StatesRight
<1>14. QED
  BY <1>10, <1>11, <1>12, <1>13 DEF IInv

LEMMA NoMoreStep ==
  ASSUME IInv, NoMoreNodes
  PROVE  IInv'
<1>1. /\ fixed = -1 /\ listed = Hyps(lattice) /\ fixed' = 0
      /\ hypId2stateId' = Put(hypId2stateId, -1, -1)
      /\ lattice' = lattice /\ listed' = listed /\ states' = states
      /\ recombination' = recombination
  BY DEF NoMoreNodes
<1>2. ListedWinners' = ListedWinners /\ \A g \in ListedWinners : g # -1
  BY <1>1, LatticesAssumption DEF ListedWinners, IInv, Typed, LatticeType
<1>3. \A g \in ListedWinners : Idx(g)' = Idx(g)
  BY <1>1, <1>2, PutThere DEF Idx
<1>4. StateType' = StateType
  BY <1>1 DEF StateType, TransType
<1>5. Typed'
  <2>1. DOMAIN hypId2stateId' = DOMAIN hypId2stateId \cup {-1} /\ hypId2stateId'[-1] = -1
    BY <1>1 DEF Put
  <2>2. DOMAIN hypId2stateId' =
           (ListedWinners' \ {0}) \cup (IF fixed' = -1 THEN {} ELSE {-1})
    BY <1>1, <1>2, <2>1 DEF IInv, Typed
  <2>3. fixed' \in -1 .. Len(states')
    BY <1>1 DEF IInv, Typed
  <2>4. QED
    BY <1>1, <1>4, <2>1, <2>2, <2>3 DEF IInv, Typed
<1>6. StackByStack'
  BY <1>1 DEF IInv, StackByStack
<1>7. Numbered'
  BY <1>1, <1>2, <1>3 DEF IInv, Numbered
<1>8. StatesRight'
  <2>1. ASSUME NEW g \in ListedWinners
        PROVE  StateRight(lattice, listed, hypId2stateId', states[Idx(g) + 1], g, FALSE)
    <3>1. (Idx(g) < fixed) = FALSE
      BY <1>1 DEF IInv, Numbered
    <3>2. StateRight(lattice, listed, hypId2stateId, states[Idx(g) + 1], g, FALSE)
      BY <3>1 DEF IInv, StatesRight
    <3>3. QED
      BY <3>2 DEF StateRight, TransFor
  <2>2. \A g \in ListedWinners : (Idx(g) < 0) = FALSE
    BY DEF IInv, Numbered
  <2>3. QED
    BY <1>1, <1>2, <1>3, <2>1, <2>2 DEF StatesRight
<1>9. QED
  BY <1>5, <1>6, <1>7, <1>8 DEF IInv

(* What Resolve makes of a reference: of a recombined hypothesis, the      *)
(* state of the one that took its place.                                   *)
LEMMA Resolved ==
  ASSUME IInv, fixed # -1, NEW h \in Winners(lattice), NEW s \in StateType,
         StateRight(lattice, listed, hypId2stateId, s, h, FALSE)
  PROVE  /\ Resolve(s) \in StateType
         /\ StateRight(lattice, listed, hypId2stateId, Resolve(s), h, TRUE)
<1> DEFINE f == IF s.forward \in DOMAIN recombination THEN recombination[s.forward]
                                                      ELSE s.forward
           r == Resolve(s)
<1>1. /\ LatticeType(lattice) /\ LatticeOK(lattice) /\ listed = Hyps(lattice)
      /\ DOMAIN hypId2stateId = (Winners(lattice) \ {0}) \cup {-1} /\ hypId2stateId[-1] = -1
      /\ DOMAIN recombination = Hyps(lattice) \ Winners(lattice)
      /\ \A k \in Hyps(lattice) \ Winners(lattice) : recombination[k] = lattice.win[k]
  BY LatticesAssumption DEF IInv, Typed, ListedWinners, Winners
<1>2. ASSUME NEW w \in Winners(lattice) PROVE At(hypId2stateId, w) \in Int
  BY <1>1, <1>2 DEF IInv, Numbered, ListedWinners, Idx, Winners
<1>3. At(hypId2stateId, -1) = -1
  BY <1>1 DEF At
<1>4. s.forward \in Forwards(lattice, h)
  BY DEF StateRight
<1>5. At(hypId2stateId, f) = StateOf(lattice, hypId2stateId, s.forward)
      /\ At(hypId2stateId, f) \in Int
  <2>1. CASE s.forward = -1
    <3>1. -1 \notin Hyps(lattice)
      BY <1>1 DEF LatticeType
    <3>2. QED
      BY <1>1, <1>3, <2>1, <3>1 DEF StateOf
  <2>2. CASE s.forward \in Made(lattice, h)
    <3>1. /\ s.forward \in Nat /\ s.forward \in Hyps(lattice)
          /\ lattice.win[s.forward] \in Winners(lattice)
      BY <1>1, <2>2, MadeFacts
    <3>2. f = lattice.win[s.forward]
      BY <1>1, <3>1 DEF Winners
    <3>3. QED
      BY <1>2, <3>1, <3>2 DEF StateOf
  <2>3. QED
    BY <1>1, <1>4, <2>1, <2>2, ForwardsFacts
<1>6. /\ r.forward = At(hypId2stateId, f) /\ r.fscore = s.fscore
      /\ r.trans = [k \in DOMAIN s.trans |-> [s.trans[k] EXCEPT !.to = At(hypId2stateId, @)]]
  BY DEF Resolve, StateType
<1>7. ASSUME NEW k \in Made(lattice, h)
      PROVE  /\ [TransFor(lattice, hypId2stateId, k, FALSE) EXCEPT !.to = At(hypId2stateId, @)]
                  = TransFor(lattice, hypId2stateId, k, TRUE)
             /\ TransFor(lattice, hypId2stateId, k, TRUE) \in TransType
  <2>1. /\ k \in Nat /\ k \in Hyps(lattice) /\ lattice.win[k] \in Winners(lattice)
        /\ lattice.gain[k] \in Int
    BY <1>1, MadeFacts
  <2>2. StateOf(lattice, hypId2stateId, k) = At(hypId2stateId, lattice.win[k])
    BY <2>1 DEF StateOf
  <2>3. At(hypId2stateId, lattice.win[k]) \in Int
    BY <1>2, <2>1
  <2>4. QED
    BY <2>1, <2>2, <2>3 DEF TransFor, TransType
<1>8. ASSUME NEW j \in DOMAIN s.trans
      PROVE  \E k \in listed \cap Made(lattice, h) :
               /\ s.trans[j] = TransFor(lattice, hypId2stateId, k, FALSE)
               /\ r.trans[j] = TransFor(lattice, hypId2stateId, k, TRUE)
  <2>1. PICK k \in listed \cap Made(lattice, h) :
               s.trans[j] = TransFor(lattice, hypId2stateId, k, FALSE)
    BY DEF StateRight
  <2>2. r.trans[j] = [s.trans[j] EXCEPT !.to = At(hypId2stateId, @)]
    BY <1>6
  <2>3. QED
    BY <1>7, <2>1, <2>2
<1>9. r.trans \in Seq(TransType) /\ DOMAIN r.trans = DOMAIN s.trans
  <2>1. DOMAIN r.trans = DOMAIN s.trans
    BY <1>6
  <2>2. s.trans \in Seq(TransType)
    BY DEF StateType
  <2>3. DOMAIN s.trans = 1 .. Len(s.trans) /\ Len(s.trans) \in Nat
    BY <2>2
  <2>4. ASSUME NEW j \in 1 .. Len(s.trans) PROVE r.trans[j] \in TransType
    <3>1. j \in DOMAIN s.trans
      BY <2>3, <2>4
    <3> HIDE DEF r, f
    <3>2. PICK k \in listed \cap Made(lattice, h) :
                 r.trans[j] = TransFor(lattice, hypId2stateId, k, TRUE)
      BY <1>8, <3>1
    <3>3. TransFor(lattice, hypId2stateId, k, TRUE) \in TransType
      BY <1>7, <3>2
    <3>4. QED
      BY <3>2, <3>3
  <2>5. r.trans = [j \in 1 .. Len(s.trans) |-> r.trans[j]]
    BY <1>6, <2>3
  <2>6. QED
    BY <2>1, <2>3, <2>4, <2>5
<1>10. r \in StateType
  <2> DEFINE a == At(hypId2stateId, f)
             q == [k \in DOMAIN s.trans |-> [s.trans[k] EXCEPT !.to = At(hypId2stateId, @)]]
  <2>1. r = [s EXCEPT !.forward = a, !.trans = q]
    BY DEF Resolve
  <2>2. a \in Int /\ q \in Seq(TransType)
    BY <1>5, <1>6, <1>9
  <2> HIDE DEF a, q, r, f
  <2>3. QED
    BY <2>1, <2>2 DEF StateType
<1> HIDE DEF r, f
<1>11. StateRight(lattice, listed, hypId2stateId, r, h, TRUE)
  <2>1. r.fscore = ForwardScore(lattice)[h]
    BY <1>6 DEF StateRight
  <2>2. \E g \in Forwards(lattice, h) : r.forward = StateOf(lattice, hypId2stateId, g)
    BY <1>4, <1>5, <1>6
  <2>3. \A j \in DOMAIN r.trans : \E k \in listed \cap Made(lattice, h) :
          r.trans[j] = TransFor(lattice, hypId2stateId, k, TRUE)
    BY <1>8, <1>9
  <2>4. ASSUME NEW k \in listed \cap Made(lattice, h)
        PROVE  \E j \in DOMAIN r.trans : r.trans[j] = TransFor(lattice, hypId2stateId, k, TRUE)
    <3>1. PICK j \in DOMAIN s.trans : s.trans[j] = TransFor(lattice, hypId2stateId, k, FALSE)
      BY DEF StateRight
    <3>2. r.trans[j] = [s.trans[j] EXCEPT !.to = At(hypId2stateId, @)]
      BY <1>6, <3>1
    <3>3. QED
      BY <1>7, <1>9, <3>1, <3>2
  <2>5. QED
    BY <2>1, <2>2, <2>3, <2>4 DEF StateRight
<1>12. QED
  BY <1>10, <1>11 DEF r

LEMMA FixStep ==
  ASSUME IInv, FixState
  PROVE  IInv'
<1>1. /\ fixed \in 0 .. Len(states) - 1 /\ fixed' = fixed + 1
      /\ states' = [states EXCEPT ![fixed + 1] = Resolve(@)]
      /\ lattice' = lattice /\ listed' = listed /\ hypId2stateId' = hypId2stateId
      /\ recombination' = recombination
  BY DEF FixState
<1>2. /\ states \in Seq(StateType) /\ Len(states) \in Nat /\ listed = Hyps(lattice)
      /\ ListedWinners = Winners(lattice)
  BY <1>1 DEF IInv, Typed, ListedWinners, Winners
<1>3. ListedWinners' = ListedWinners /\ \A g : Idx(g)' = Idx(g)
  BY <1>1 DEF ListedWinners, Idx
<1>4. StateType' = StateType
  BY <1>1 DEF StateType, TransType
<1>5. PICK h \in ListedWinners : Idx(h) = fixed
  BY <1>1 DEF IInv, Numbered
<1>6. /\ Resolve(states[fixed + 1]) \in StateType
      /\ StateRight(lattice, listed, hypId2stateId, Resolve(states[fixed + 1]), h, TRUE)
  <2>1. (Idx(h) < fixed) = FALSE
    BY <1>1, <1>5
  <2>2. StateRight(lattice, listed, hypId2stateId, states[fixed + 1], h, FALSE)
    BY <1>5, <2>1 DEF IInv, StatesRight
  <2>3. states[fixed + 1] \in StateType /\ fixed # -1
    BY <1>1, <1>2
  <2>4. QED
    BY <1>2, <1>5, <2>2, <2>3, Resolved
<1>7. /\ states' \in Seq(StateType) /\ Len(states') = Len(states)
      /\ states'[fixed + 1] = Resolve(states[fixed + 1])
      /\ \A i \in 1 .. Len(states) : i # fixed + 1 => states'[i] = states[i]
  BY <1>1, <1>2, <1>6
<1>8. Typed'
  BY <1>1, <1>3, <1>4, <1>7 DEF IInv, Typed
<1>9. StackByStack'
  BY <1>1 DEF IInv, StackByStack
<1>10. Numbered'
  BY <1>1, <1>3, <1>7 DEF IInv, Numbered
<1>11. StatesRight'
  <2>1. ASSUME NEW g \in ListedWinners
        PROVE  StateRight(lattice, listed, hypId2stateId, states'[Idx(g) + 1], g, Idx(g) < fixed + 1)
    <3>1. Idx(g) \in 0 .. Len(states) - 1
      BY DEF IInv, Numbered
    <3>2. CASE g = h
      <4>1. (Idx(g) < fixed + 1) = TRUE
        BY <1>1, <1>5, <3>2
      <4>2. QED
        BY <1>5, <1>6, <1>7, <3>2, <4>1
    <3>3. CASE g # h
      <4>1. Idx(g) # fixed
        BY <1>5, <3>3 DEF IInv, Numbered
      <4>2. (Idx(g) < fixed + 1) = (Idx(g) < fixed)
        BY <1>1, <3>1, <4>1
      <4>3. states'[Idx(g) + 1] = states[Idx(g) + 1]
        BY <1>1, <1>2, <1>7, <3>1, <4>1
      <4>4. QED
        BY <4>2, <4>3 DEF IInv, StatesRight
    <3>4. QED
      BY <3>2, <3>3
  <2>2. QED
    BY <1>1, <1>3, <2>1 DEF StatesRight
<1>12. QED
  BY <1>8, <1>9, <1>10, <1>11 DEF IInv

-------------------------------------------------------------------------
THEOREM Invariance == Spec => []IInv
<1>1. IInv /\ [Next]_vars => IInv'
  <2> SUFFICES ASSUME IInv, [Next]_vars PROVE IInv'
    OBVIOUS
  <2>1. CASE EmptyHypothesis
    BY <2>1, EmptyStep
  <2>2. CASE \E h \in Hyps(lattice) : Winner(h) \/ Loser(h)
    BY <2>2, WinnerStep, LoserStep
  <2>3. CASE NoMoreNodes
    BY <2>3, NoMoreStep
  <2>4. CASE FixState
    BY <2>4, FixStep
  <2>5. CASE UNCHANGED vars
    BY <2>5 DEF vars, IInv, Typed, StackByStack, Numbered, StatesRight, ListedWinners, Idx,
                StateType, TransType
  <2>6. QED
    BY <2>1, <2>2, <2>3, <2>4, <2>5 DEF Next
<1>2. QED
  BY <1>1, InitStep, PTL DEF Spec

(* Whatever the decoder leaves, of any size and scores, and in whatever    *)
(* order its stacks are gone through: the graph that createGraph builds    *)
(* meets all that the prefix searches take for granted (the assumption     *)
(* GraphsAssumption under which they are specified and proved).            *)
THEOREM GraphAlwaysAsAssumed == Spec => []GraphAsAssumed
<1>1. IInv => GraphAsAssumed
  <2>1. CASE Done
    BY <2>1, Sound
  <2>2. CASE ~ Done
    BY <2>2 DEF GraphAsAssumed
  <2>3. QED
    BY <2>1, <2>2
<1>2. QED
  BY <1>1, Invariance, PTL

-------------------------------------------------------------------------
(* What the proofs below need of the finished list of states: each is that *)
(* of a winner, and has one transition for everything made from it.        *)
IsTransOf(t, k, to) == t.to = to /\ t.score = lattice.gain[k] /\ t.output = << k >>

LEMMA Finished ==
  ASSUME IInv, Done
  PROVE  /\ lattice \in Lattices /\ LatticeType(lattice) /\ LatticeOK(lattice)
         /\ Len(states) \in Nat \ {0} /\ 0 \in Winners(lattice) /\ Idx(0) = 0
         /\ \A i \in 0 .. Len(states) - 1 : \E h \in Winners(lattice) : Idx(h) = i
         /\ \A h, k \in Winners(lattice) : Idx(h) = Idx(k) => h = k
         /\ \A h \in Winners(lattice) :
              /\ Idx(h) \in 0 .. Len(states) - 1
              /\ Graph.trans[Idx(h)] \in Seq(TransType)
              /\ \A j \in DOMAIN Graph.trans[Idx(h)] : \E k \in Made(lattice, h) :
                   IsTransOf(Graph.trans[Idx(h)][j], k, Idx(lattice.win[k]))
              /\ \A k \in Made(lattice, h) : \E j \in DOMAIN Graph.trans[Idx(h)] :
                   IsTransOf(Graph.trans[Idx(h)][j], k, Idx(lattice.win[k]))
              /\ \A k \in Made(lattice, h) :
                   lattice.win[k] \in Winners(lattice) /\ Idx(lattice.win[k]) > Idx(h)
<1>1. /\ lattice \in Lattices /\ LatticeType(lattice) /\ LatticeOK(lattice)
      /\ states \in Seq(StateType) /\ Len(states) \in Nat /\ fixed = Len(states)
      /\ Len(states) # -1
  BY LatticesAssumption DEF IInv, Typed, Done
<1>2. listed = Hyps(lattice) /\ ListedWinners = Winners(lattice) /\ 0 \in Winners(lattice)
  BY <1>1, LatticeFacts DEF IInv, Typed, ListedWinners, Winners
<1>3. /\ \A i \in 0 .. Len(states) - 1 : \E h \in Winners(lattice) : Idx(h) = i
      /\ \A h \in Winners(lattice) : Idx(h) \in 0 .. Len(states) - 1
      /\ \A h, k \in Winners(lattice) : Idx(h) = Idx(k) => h = k
      /\ \A h, k \in Winners(lattice) : lattice.cover[h] < lattice.cover[k] => Idx(h) < Idx(k)
  BY <1>2 DEF IInv, Numbered
<1>4. Idx(0) = 0
  <2>1. 0 \notin DOMAIN hypId2stateId
    BY <1>1 DEF IInv, Typed
  <2>2. QED
    BY <2>1 DEF Idx, At
<1>5. ASSUME NEW h \in Winners(lattice), NEW k \in Made(lattice, h)
      PROVE  /\ lattice.win[k] \in Winners(lattice) /\ Idx(lattice.win[k]) > Idx(h)
             /\ IsTransOf(TransFor(lattice, hypId2stateId, k, TRUE), k, Idx(lattice.win[k]))
  <2>1. /\ k \in Nat /\ lattice.win[k] \in Winners(lattice)
        /\ lattice.cover[h] < lattice.cover[lattice.win[k]]
    BY <1>1, MadeFacts
  <2>2. Idx(lattice.win[k]) > Idx(h)
    BY <1>3, <2>1
  <2>3. StateOf(lattice, hypId2stateId, k) = Idx(lattice.win[k])
    BY <2>1 DEF StateOf, Idx
  <2>4. QED
    BY <2>1, <2>2, <2>3 DEF TransFor, IsTransOf
<1>6. ASSUME NEW h \in Winners(lattice)
      PROVE  /\ Graph.trans[Idx(h)] \in Seq(TransType)
             /\ \A j \in DOMAIN Graph.trans[Idx(h)] : \E k \in Made(lattice, h) :
                  IsTransOf(Graph.trans[Idx(h)][j], k, Idx(lattice.win[k]))
             /\ \A k \in Made(lattice, h) : \E j \in DOMAIN Graph.trans[Idx(h)] :
                  IsTransOf(Graph.trans[Idx(h)][j], k, Idx(lattice.win[k]))
  <2> DEFINE s == states[Idx(h) + 1]
  <2>1. Graph.trans[Idx(h)] = s.trans
    BY <1>3 DEF Graph
  <2>2. s \in StateType
    BY <1>1, <1>3
  <2>3. (Idx(h) < fixed) = TRUE
    BY <1>1, <1>3
  <2>4. StateRight(lattice, listed, hypId2stateId, s, h, TRUE)
    BY <1>2, <2>3 DEF IInv, StatesRight
  <2>5. listed \cap Made(lattice, h) = Made(lattice, h)
    BY <1>2 DEF Made
  <2>6. /\ \A j \in DOMAIN s.trans :
             \E k \in Made(lattice, h) : s.trans[j] = TransFor(lattice, hypId2stateId, k, TRUE)
        /\ \A k \in Made(lattice, h) :
             \E j \in DOMAIN s.trans : s.trans[j] = TransFor(lattice, hypId2stateId, k, TRUE)
    BY <2>4, <2>5 DEF StateRight
  <2> HIDE DEF s
  <2>7. s.trans \in Seq(TransType)
    BY <2>2 DEF StateType
  <2>8. \A k \in Made(lattice, h) :
          IsTransOf(TransFor(lattice, hypId2stateId, k, TRUE), k, Idx(lattice.win[k]))
    BY <1>5
  <2>9. ASSUME NEW j \in DOMAIN s.trans
        PROVE  \E k \in Made(lattice, h) : IsTransOf(s.trans[j], k, Idx(lattice.win[k]))
    BY <2>6, <2>8
  <2>10. ASSUME NEW k \in Made(lattice, h)
         PROVE  \E j \in DOMAIN s.trans : IsTransOf(s.trans[j], k, Idx(lattice.win[k]))
    BY <2>6, <2>8
  <2>11. QED
    BY <2>1, <2>7, <2>9, <2>10
<1>7. Len(states) \in Nat \ {0}
  BY <1>1, <1>2, <1>3
<1>8. \A h \in Winners(lattice) : \A k \in Made(lattice, h) :
        lattice.win[k] \in Winners(lattice) /\ Idx(lattice.win[k]) > Idx(h)
  BY <1>5
<1>9. QED
  BY <1>1, <1>2, <1>3, <1>4, <1>6, <1>7, <1>8

-------------------------------------------------------------------------
(* Derivations, without a bound on their length.                           *)
Leads(l, h, p) ==
  /\ \A i \in 1 .. Len(p) : l.prev[p[i]] = IF i = 1 THEN h ELSE l.win[p[i - 1]]
  /\ l.cover[IF Len(p) = 0 THEN h ELSE l.win[p[Len(p)]]] = Length(l)

Chains(l, h) == { p \in Seq(Hyps(l) \ {0}) : Leads(l, h, p) }

(* Every hypothesis on the way covers a word more at least.                *)
LEMMA ChainLength ==
  ASSUME NEW l, LatticeType(l), LatticeOK(l), NEW h \in Winners(l), NEW p \in Chains(l, h)
  PROVE  Len(p) \in 0 .. Length(l)
<1> DEFINE S == { n \in Nat : n \in 1 .. Len(p) => l.cover[p[n]] >= n }
<1>1. p \in Seq(Hyps(l) \ {0}) /\ Leads(l, h, p) /\ Len(p) \in Nat
      /\ \A i \in 1 .. Len(p) : p[i] \in Hyps(l) \ {0}
  BY DEF Chains
<1>2. /\ Length(l) \in Nat
      /\ \A k \in Hyps(l) : l.cover[k] \in 0 .. Length(l)
      /\ \A k \in Hyps(l) \ {0} : /\ l.win[k] \in Hyps(l) /\ l.prev[k] \in Hyps(l)
                                  /\ l.cover[l.prev[k]] < l.cover[k]
                                  /\ l.cover[l.win[k]] = l.cover[k]
  BY LatticeFacts DEF LatticeType
<1>3. 0 \in S
  OBVIOUS
<1>4. ASSUME NEW n \in Nat, n \in S PROVE n + 1 \in S
  <2>1. SUFFICES ASSUME n + 1 \in 1 .. Len(p) PROVE l.cover[p[n + 1]] >= n + 1
    OBVIOUS
  <2>2. p[n + 1] \in Hyps(l) \ {0}
    BY <1>1, <2>1
  <2>3. CASE n = 0
    <3>1. l.cover[l.prev[p[1]]] \in Nat /\ l.cover[p[1]] \in Nat
          /\ l.cover[l.prev[p[1]]] < l.cover[p[1]]
      BY <1>2, <2>2, <2>3
    <3>2. QED
      BY <2>3, <3>1
  <2>4. CASE n # 0
    <3>1. n \in 1 .. Len(p)
      BY <1>1, <2>1, <2>4
    <3>2. l.prev[p[n + 1]] = l.win[p[n]]
      BY <1>1, <2>1, <2>4 DEF Leads
    <3>3. p[n] \in Hyps(l) \ {0} /\ l.cover[p[n]] >= n
      BY <1>1, <1>4, <3>1
    <3>4. /\ l.cover[p[n]] \in Nat /\ l.cover[p[n + 1]] \in Nat
          /\ l.cover[l.win[p[n]]] = l.cover[p[n]]
          /\ l.cover[l.win[p[n]]] < l.cover[p[n + 1]]
      BY <1>2, <2>2, <3>2, <3>3
    <3>5. QED
      BY <3>3, <3>4
  <2>5. QED
    BY <2>3, <2>4
<1>5. Len(p) \in S
  <2> HIDE DEF S
  <2>1. QED
    BY <1>1, <1>3, <1>4, Induction
<1>6. CASE Len(p) = 0
  BY <1>2, <1>6
<1>7. CASE Len(p) # 0
  <2>1. Len(p) \in 1 .. Len(p)
    BY <1>1, <1>7
  <2>2. l.cover[p[Len(p)]] >= Len(p) /\ p[Len(p)] \in Hyps(l)
    BY <1>1, <1>5, <2>1
  <2>3. QED
    BY <1>1, <1>2, <2>2
<1>8. QED
  BY <1>6, <1>7

LEMMA ChainsAreDerivations ==
  ASSUME NEW l, LatticeType(l), LatticeOK(l), NEW h \in Winners(l)
  PROVE  DerivationsFrom(l, h) = Chains(l, h)
<1> DEFINE H == Hyps(l) \ {0}
           Good(n, p) ==
              LET Place(i) == IF i = 0 THEN h ELSE l.win[p[i]]
              IN  /\ \A i \in 1 .. n : l.prev[p[i]] = Place(i - 1)
                  /\ l.cover[Place(n)] = Length(l)
<1>1. DerivationsFrom(l, h) = UNION { { p \in [1 .. n -> H] : Good(n, p) } : n \in 0 .. Length(l) }
  BY DEF DerivationsFrom
<1>2. ASSUME NEW n \in Nat, NEW p \in [1 .. n -> H] PROVE p \in Seq(H) /\ Len(p) = n
  BY <1>2
<1>3. ASSUME NEW p \in Seq(H) PROVE Good(Len(p), p) <=> Leads(l, h, p)
  <2>1. Len(p) \in Nat
    BY <1>3
  <2>2. \A i \in 1 .. Len(p) : (i - 1 = 0) <=> (i = 1)
    BY <2>1
  <2>3. (\A i \in 1 .. Len(p) : l.prev[p[i]] = IF i - 1 = 0 THEN h ELSE l.win[p[i - 1]])
           <=> (\A i \in 1 .. Len(p) : l.prev[p[i]] = IF i = 1 THEN h ELSE l.win[p[i - 1]])
    BY <2>2
  <2>4. QED
    BY <2>3 DEF Leads
<1>4. Length(l) \in Nat
  BY LatticeFacts
<1> HIDE DEF Good
<1>5. ASSUME NEW p \in DerivationsFrom(l, h) PROVE p \in Chains(l, h)
  <2>1. PICK n \in 0 .. Length(l) : p \in [1 .. n -> H] /\ Good(n, p)
    BY <1>1, <1>5
  <2>2. p \in Seq(H) /\ Len(p) = n
    BY <1>2, <1>4, <2>1
  <2>3. QED
    BY <1>3, <2>1, <2>2 DEF Chains
<1>6. ASSUME NEW p \in Chains(l, h) PROVE p \in DerivationsFrom(l, h)
  <2>1. p \in Seq(H) /\ Leads(l, h, p)
    BY <1>6 DEF Chains
  <2>2. p \in [1 .. Len(p) -> H] /\ Good(Len(p), p)
    BY <1>3, <2>1
  <2>3. Len(p) \in 0 .. Length(l)
    BY <1>6, ChainLength
  <2>4. QED
    BY <1>1, <2>2, <2>3
<1>7. QED
  BY <1>5, <1>6

(* One hypothesis more at the front. *)
LEMMA Longer ==
  ASSUME NEW l, LatticeType(l), LatticeOK(l), NEW h \in Winners(l), NEW k \in Made(l, h),
         NEW q \in Seq(Hyps(l) \ {0})
  PROVE  << k >> \o q \in Chains(l, h) <=> q \in Chains(l, l.win[k])
<1> DEFINE H == Hyps(l) \ {0}
           p == << k >> \o q
           n == Len(q)
<1>1. k \in H /\ l.prev[k] = h
  BY MadeFacts
<1>2. p \in Seq(H) /\ n \in Nat /\ Len(p) = n + 1 /\ p[1] = k
  BY <1>1
<1>3. \A i \in 1 .. n : p[i + 1] = q[i]
  BY <1>1
<1> HIDE DEF p, n
<1>4. ASSUME \A i \in 1 .. n : l.prev[q[i]] = IF i = 1 THEN l.win[k] ELSE l.win[q[i - 1]]
      PROVE  \A i \in 1 .. n + 1 : l.prev[p[i]] = IF i = 1 THEN h ELSE l.win[p[i - 1]]
  <2>1. ASSUME NEW i \in 1 .. n + 1, i # 1 PROVE l.prev[p[i]] = l.win[p[i - 1]]
    <3>1. i - 1 \in 1 .. n /\ p[i] = q[i - 1]
      BY <1>2, <1>3, <2>1
    <3>2. CASE i - 1 = 1
      BY <1>2, <1>4, <3>1, <3>2
    <3>3. CASE i - 1 # 1
      <4>1. i - 2 \in 1 .. n /\ (i - 2) + 1 = i - 1 /\ (i - 1) - 1 = i - 2
        BY <1>2, <3>1, <3>3
      <4>2. p[i - 1] = q[i - 2]
        BY <1>3, <4>1
      <4>3. l.prev[q[i - 1]] = l.win[q[(i - 1) - 1]]
        BY <1>4, <3>1, <3>3
      <4>4. QED
        BY <3>1, <4>1, <4>2, <4>3
    <3>4. QED
      BY <3>2, <3>3
  <2>2. QED
    BY <1>1, <1>2, <2>1
<1>5. ASSUME \A i \in 1 .. n + 1 : l.prev[p[i]] = IF i = 1 THEN h ELSE l.win[p[i - 1]]
      PROVE  \A i \in 1 .. n : l.prev[q[i]] = IF i = 1 THEN l.win[k] ELSE l.win[q[i - 1]]
  <2>1. ASSUME NEW i \in 1 .. n
        PROVE  l.prev[q[i]] = IF i = 1 THEN l.win[k] ELSE l.win[q[i - 1]]
    <3>1. i + 1 \in 1 .. n + 1 /\ i + 1 # 1 /\ (i + 1) - 1 = i
      BY <1>2
    <3>2. l.prev[p[i + 1]] = l.win[p[i]]
      BY <1>5, <3>1
    <3>3. CASE i = 1
      BY <1>2, <1>3, <3>2, <3>3
    <3>4. CASE i # 1
      <4>1. i - 1 \in 1 .. n /\ (i - 1) + 1 = i
        BY <1>2, <3>4
      <4>2. p[i] = q[i - 1]
        BY <1>3, <4>1
      <4>3. QED
        BY <1>3, <3>2, <3>4, <4>2
    <3>5. QED
      BY <3>3, <3>4
  <2>2. QED
    BY <2>1
<1>6. (IF n + 1 = 0 THEN h ELSE l.win[p[n + 1]]) = (IF n = 0 THEN l.win[k] ELSE l.win[q[n]])
  <2>1. n + 1 # 0
    BY <1>2
  <2>2. CASE n = 0
    BY <1>2, <2>1, <2>2
  <2>3. CASE n # 0
    <3>1. n \in 1 .. n
      BY <1>2, <2>3
    <3>2. p[n + 1] = q[n]
      BY <1>3, <3>1
    <3>3. QED
      BY <2>1, <2>3, <3>2
  <2>4. QED
    BY <2>2, <2>3
<1>7. Leads(l, h, p) <=> Leads(l, l.win[k], q)
  BY <1>2, <1>4, <1>5, <1>6 DEF Leads, n
<1>8. QED
  BY <1>2, <1>7 DEF Chains, p

(* A chain is empty, or begins with something made from h. *)
LEMMA ChainsFrom ==
  ASSUME NEW l, LatticeType(l), LatticeOK(l), NEW h \in Winners(l)
  PROVE  Chains(l, h) = IF Made(l, h) = {} THEN { << >> }
                        ELSE UNION { { << k >> \o q : q \in Chains(l, l.win[k]) } : k \in Made(l, h) }
<1> DEFINE H == Hyps(l) \ {0}
           U == UNION { { << k >> \o q : q \in Chains(l, l.win[k]) } : k \in Made(l, h) }
<1>1. Made(l, h) = {} <=> l.cover[h] = Length(l)
  BY MadeFacts, Continues
<1>2. << >> \in Seq(H) /\ Len(<< >>) = 0
  OBVIOUS
<1>3. << >> \in Chains(l, h) <=> l.cover[h] = Length(l)
  BY <1>2 DEF Chains, Leads
<1>4. ASSUME NEW p \in Chains(l, h), p # << >> PROVE p \in U
  <2>1. p \in Seq(H) /\ Leads(l, h, p)
    BY <1>4 DEF Chains
  <2>2. Len(p) \in Nat \ {0} /\ 1 \in 1 .. Len(p)
    BY <1>4, <2>1
  <2>3. p[1] \in H /\ Tail(p) \in Seq(H) /\ p = << p[1] >> \o Tail(p)
    BY <1>4, <2>1, <2>2
  <2>4. p[1] \in Made(l, h)
    BY <2>1, <2>2, <2>3 DEF Leads, Made
  <2> DEFINE k == p[1]
             q == Tail(p)
  <2>5. k \in Made(l, h) /\ q \in Seq(H) /\ p = << k >> \o q
    BY <2>3, <2>4
  <2> HIDE DEF k, q
  <2>6. q \in Chains(l, l.win[k])
    BY <1>4, <2>5, Longer
  <2>7. p \in { << k >> \o r : r \in Chains(l, l.win[k]) }
    BY <2>5, <2>6
  <2>8. QED
    BY <2>5, <2>7
<1>5. ASSUME NEW p \in U PROVE p \in Chains(l, h)
  <2>1. PICK k \in Made(l, h) : p \in { << k >> \o q : q \in Chains(l, l.win[k]) }
    BY <1>5
  <2>2. PICK q \in Chains(l, l.win[k]) : p = << k >> \o q
    BY <2>1
  <2>3. q \in Seq(H)
    BY <2>2 DEF Chains
  <2>4. QED
    BY <2>2, <2>3, Longer
<1>6. CASE Made(l, h) = {}
  <2>1. U = {}
    BY <1>6
  <2> HIDE DEF U
  <2>2. QED
    BY <1>1, <1>3, <1>4, <1>6, <2>1
<1>7. CASE Made(l, h) # {}
  <2> HIDE DEF U
  <2>1. << >> \notin Chains(l, h)
    BY <1>1, <1>3, <1>7
  <2>2. Chains(l, h) = U
    BY <1>4, <1>5, <2>1
  <2>3. QED
    BY <1>7, <2>2 DEF U
<1>8. QED
  BY <1>6, <1>7

-------------------------------------------------------------------------
(* The ways through the graph solve the same equation. *)
PathsHere(f, s) ==
  IF Graph.trans[s] = << >> THEN { << >> }
  ELSE UNION { { Graph.trans[s][k].output \o p : p \in f[Graph.trans[s][k].to] }
               : k \in DOMAIN Graph.trans[s] }

LEMMA HereAreChains ==
  ASSUME IInv, Done, NEW h \in Winners(lattice), NEW f,
         \A k \in Made(lattice, h) : f[Idx(lattice.win[k])] = Chains(lattice, lattice.win[k])
  PROVE  PathsHere(f, Idx(h)) = Chains(lattice, h)
<1> DEFINE T == Graph.trans[Idx(h)]
           M == Made(lattice, h)
           C(k) == Chains(lattice, lattice.win[k])
           Of(k) == { << k >> \o q : q \in C(k) }
           Over(j) == { T[j].output \o p : p \in f[T[j].to] }
           U == UNION { Of(k) : k \in M }
           V == UNION { Over(j) : j \in DOMAIN T }
<1>1. /\ LatticeType(lattice) /\ LatticeOK(lattice)
      /\ T \in Seq(TransType)
      /\ \A j \in DOMAIN T : \E k \in M : IsTransOf(T[j], k, Idx(lattice.win[k]))
      /\ \A k \in M : \E j \in DOMAIN T : IsTransOf(T[j], k, Idx(lattice.win[k]))
  BY Finished
<1>2. PathsHere(f, Idx(h)) = IF T = << >> THEN { << >> } ELSE V
  BY DEF PathsHere
<1>3. Chains(lattice, h) = IF M = {} THEN { << >> } ELSE U
  BY <1>1, ChainsFrom
<1>4. ASSUME NEW j \in DOMAIN T, NEW k \in M, IsTransOf(T[j], k, Idx(lattice.win[k]))
      PROVE  Over(j) = Of(k)
  BY <1>4 DEF IsTransOf
<1> HIDE DEF T, M, C, Of, Over
<1>5. V = U
  <2>1. ASSUME NEW x \in V PROVE x \in U
    <3>1. PICK j \in DOMAIN T : x \in Over(j)
      BY <2>1
    <3>2. PICK k \in M : IsTransOf(T[j], k, Idx(lattice.win[k]))
      BY <1>1
    <3>3. QED
      BY <1>4, <3>1, <3>2
  <2>2. ASSUME NEW x \in U PROVE x \in V
    <3>1. PICK k \in M : x \in Of(k)
      BY <2>2
    <3>2. PICK j \in DOMAIN T : IsTransOf(T[j], k, Idx(lattice.win[k]))
      BY <1>1
    <3>3. QED
      BY <1>4, <3>1, <3>2
  <2> HIDE DEF U, V
  <2>3. QED
    BY <2>1, <2>2
<1>6. T = << >> <=> M = {}
  <2>1. T = << >> <=> DOMAIN T = {}
    <3>1. DOMAIN T = 1 .. Len(T) /\ Len(T) \in Nat
      BY <1>1
    <3>2. DOMAIN T = {} => Len(T) = 0
      <4>1. Len(T) # 0 => 1 \in 1 .. Len(T)
        BY <3>1
      <4>2. QED
        BY <3>1, <4>1
    <3>3. QED
      BY <1>1, <3>1, <3>2
  <2>2. QED
    BY <1>1, <2>1
<1> HIDE DEF U, V
<1>7. QED
  BY <1>2, <1>3, <1>5, <1>6

LEMMA PathsEquation ==
  ASSUME IInv, Done
  PROVE  Paths = [s \in 0 .. Len(states) - 1 |-> PathsHere(Paths, s)]
<1> DEFINE S == 0 .. Len(states) - 1
           W == Winners(lattice)
           Of(s) == CHOOSE h \in W : Idx(h) = s
           f == [s \in S |-> Chains(lattice, Of(s))]
<1>1. /\ \A s \in S : \E h \in W : Idx(h) = s
      /\ \A h, k \in W : Idx(h) = Idx(k) => h = k
      /\ \A h \in W : Idx(h) \in S
      /\ \A h \in W : \A k \in Made(lattice, h) : lattice.win[k] \in W
  BY Finished
<1>2. ASSUME NEW s \in S PROVE Of(s) \in W /\ Idx(Of(s)) = s
  BY <1>1
<1> HIDE DEF Of, W
<1>3. ASSUME NEW h \in W PROVE f[Idx(h)] = Chains(lattice, h)
  <2>1. Of(Idx(h)) = h
    BY <1>1, <1>2
  <2>2. QED
    BY <1>1, <2>1
<1>4. ASSUME NEW s \in S PROVE f[s] = PathsHere(f, s)
  <2> DEFINE h == Of(s)
  <2>1. h \in W /\ Idx(h) = s
    BY <1>2
  <2>2. \A k \in Made(lattice, h) : f[Idx(lattice.win[k])] = Chains(lattice, lattice.win[k])
    BY <1>1, <1>3, <2>1
  <2> HIDE DEF f, h
  <2>3. PathsHere(f, Idx(h)) = Chains(lattice, h)
    BY <2>1, <2>2, HereAreChains DEF W
  <2>4. QED
    BY <1>3, <2>1, <2>3
<1>5. f = [s \in S |-> PathsHere(f, s)]
  BY <1>4
<1>6. Paths = CHOOSE g : g = [s \in S |-> PathsHere(g, s)]
  BY DEF Paths, PathsHere
<1> HIDE DEF f
<1>7. QED
  BY <1>5, <1>6

LEMMA PathsAreChains ==
  ASSUME IInv, Done
  PROVE  \A h \in Winners(lattice) : Paths[Idx(h)] = Chains(lattice, h)
<1> DEFINE N == Len(states)
           W == Winners(lattice)
           S == { n \in Nat : \A h \in W : N - 1 - Idx(h) = n => Paths[Idx(h)] = Chains(lattice, h) }
<1>1. /\ N \in Nat \ {0}
      /\ \A h \in W : Idx(h) \in 0 .. N - 1
      /\ \A h \in W : \A k \in Made(lattice, h) : lattice.win[k] \in W /\ Idx(lattice.win[k]) > Idx(h)
  BY Finished
<1>2. ASSUME NEW n \in Nat, \A j \in 0 .. n - 1 : j \in S PROVE n \in S
  <2>1. ASSUME NEW h \in W, N - 1 - Idx(h) = n PROVE Paths[Idx(h)] = Chains(lattice, h)
    <3>1. ASSUME NEW k \in Made(lattice, h)
          PROVE  Paths[Idx(lattice.win[k])] = Chains(lattice, lattice.win[k])
      <4>1. /\ lattice.win[k] \in W /\ Idx(lattice.win[k]) \in 0 .. N - 1
            /\ Idx(lattice.win[k]) > Idx(h) /\ Idx(h) \in 0 .. N - 1
        BY <1>1
      <4>2. N - 1 - Idx(lattice.win[k]) \in 0 .. n - 1
        BY <1>1, <2>1, <4>1
      <4>3. QED
        BY <1>2, <4>1, <4>2
    <3>2. Paths[Idx(h)] = PathsHere(Paths, Idx(h))
      <4>1. Paths = [s \in 0 .. N - 1 |-> PathsHere(Paths, s)]
        BY PathsEquation
      <4>2. Idx(h) \in 0 .. N - 1
        BY <1>1
      <4>3. QED
        BY <4>1, <4>2
    <3>3. QED
      BY <3>1, <3>2, HereAreChains
  <2>2. QED
    BY <2>1
<1>3. \A n \in Nat : n \in S
  <2> HIDE DEF S
  <2>1. QED
    BY <1>2, StrongInduction
<1>4. ASSUME NEW h \in W PROVE Paths[Idx(h)] = Chains(lattice, h)
  <2>1. N - 1 - Idx(h) \in Nat
    BY <1>1
  <2>2. QED
    BY <1>3, <2>1
<1>5. QED
  BY <1>4

(* The finished graph has the derivations of the decoder and no others,    *)
(* whatever hypotheses were recombined and in whatever order they came.    *)
THEOREM TranslationsAlwaysSame == Spec => []SameTranslations
<1>1. IInv => SameTranslations
  <2>1. SUFFICES ASSUME IInv, Done PROVE Paths[0] = DerivationsFrom(lattice, 0)
    BY DEF SameTranslations
  <2>2. LatticeType(lattice) /\ LatticeOK(lattice) /\ 0 \in Winners(lattice) /\ Idx(0) = 0
    BY <2>1, Finished
  <2>3. Paths[0] = Chains(lattice, 0)
    BY <2>1, <2>2, PathsAreChains
  <2>4. QED
    BY <2>2, <2>3, ChainsAreDerivations
<1>2. QED
  BY <1>1, Invariance, PTL

-------------------------------------------------------------------------
(* What a sequence of hypotheses is worth, one by one.                     *)
Sum(l, q) ==
  LET sum[i \in 0 .. Len(q)] == IF i = 0 THEN 0 ELSE sum[i - 1] + l.gain[q[i]]
  IN  sum

SumHere(l, q, f, i) == IF i = 0 THEN 0 ELSE f[i - 1] + l.gain[q[i]]

LEMMA SumEquation ==
  ASSUME NEW l, LatticeType(l), NEW q \in Seq(Hyps(l))
  PROVE  /\ Sum(l, q) \in [0 .. Len(q) -> Int]
         /\ \A i \in 0 .. Len(q) : Sum(l, q)[i] = SumHere(l, q, Sum(l, q), i)
<1> DEFINE n == Len(q)
           I == 0 .. n
           G == [f \in [I -> Int] |-> [i \in I |-> SumHere(l, q, f, i)]]
           rank == [i \in I |-> i]
<1>1. n \in Nat /\ \A i \in 1 .. n : l.gain[q[i]] \in Int
  BY DEF LatticeType
<1>2. ASSUME NEW f \in [I -> Int], NEW i \in I
      PROVE  G[f][i] = SumHere(l, q, f, i) /\ G[f][i] \in Int
  <2>1. G[f][i] = SumHere(l, q, f, i)
    OBVIOUS
  <2>2. CASE i = 0
    BY <2>1, <2>2 DEF SumHere
  <2>3. CASE i # 0
    <3>1. i \in 1 .. n /\ i - 1 \in I
      BY <1>1, <2>3
    <3>2. f[i - 1] \in Int /\ l.gain[q[i]] \in Int
      BY <1>1, <3>1
    <3>3. QED
      BY <2>1, <2>3, <3>2 DEF SumHere
  <2>4. QED
    BY <2>2, <2>3
<1>3. ASSUME NEW f \in [I -> Int], NEW g \in [I -> Int], NEW i \in I,
             \A j \in I : rank[j] < rank[i] => f[j] = g[j]
      PROVE  G[f][i] = G[g][i]
  <2>1. i # 0 => i - 1 \in I /\ i - 1 < i
    BY <1>1
  <2>2. i # 0 => f[i - 1] = g[i - 1]
    BY <1>3, <2>1
  <2>3. SumHere(l, q, f, i) = SumHere(l, q, g, i)
    BY <2>2 DEF SumHere
  <2>4. QED
    BY <1>2, <2>3
<1>4. rank \in [I -> 0 .. n]
  OBVIOUS
<1>5. PICK f \in [I -> Int] : \A i \in I : f[i] = SumHere(l, q, f, i)
  <2> HIDE DEF G, rank, I, n
  <2>1. KeepsType(G, I, Int)
    BY <1>2 DEF KeepsType
  <2>2. LooksBelow(G, I, Int, rank)
    BY <1>3 DEF LooksBelow
  <2>3. \E f \in [I -> Int] : Solution(f, G, I)
    BY <1>1, <1>4, <2>1, <2>2, Recursion
  <2>4. QED
    BY <1>2, <2>3 DEF Solution
<1>6. Sum(l, q) = CHOOSE g : g = [i \in I |-> SumHere(l, q, g, i)]
  BY DEF Sum, SumHere
<1>7. f = [i \in I |-> SumHere(l, q, f, i)]
  BY <1>5
<1>8. Sum(l, q) = [i \in I |-> SumHere(l, q, Sum(l, q), i)]
  BY <1>6, <1>7
<1>9. ASSUME NEW i \in I PROVE Sum(l, q)[i] = SumHere(l, q, Sum(l, q), i)
  BY <1>8
<1>10. DOMAIN Sum(l, q) = I
  BY <1>8
<1> DEFINE S == { i \in Nat : i \in I => Sum(l, q)[i] \in Int }
<1>11. 0 \in S
  BY <1>9 DEF SumHere
<1>12. ASSUME NEW i \in Nat, i \in S PROVE i + 1 \in S
  <2>1. SUFFICES ASSUME i + 1 \in I PROVE Sum(l, q)[i + 1] \in Int
    OBVIOUS
  <2>2. i \in I /\ i + 1 \in 1 .. n /\ i + 1 # 0 /\ (i + 1) - 1 = i
    BY <1>1, <2>1
  <2>3. Sum(l, q)[i + 1] = Sum(l, q)[i] + l.gain[q[i + 1]]
    BY <1>9, <2>1, <2>2 DEF SumHere
  <2>4. Sum(l, q)[i] \in Int /\ l.gain[q[i + 1]] \in Int
    BY <1>1, <1>12, <2>2
  <2>5. QED
    BY <2>3, <2>4
<1>13. \A i \in Nat : i \in S
  <2> HIDE DEF S
  <2>1. QED
    BY <1>11, <1>12, Induction
<1>14. \A i \in I : Sum(l, q)[i] \in Int
  BY <1>1, <1>13
<1> HIDE DEF S
<1>15. QED
  BY <1>8, <1>9, <1>10, <1>14

LEMMA WorthIsSum ==
  ASSUME NEW l, NEW q
  PROVE  Worth(l, q) = Sum(l, q)[Len(q)]
BY DEF Worth, Sum

LEMMA WorthOfLonger ==
  ASSUME NEW l, LatticeType(l), NEW k \in Hyps(l), NEW q \in Seq(Hyps(l))
  PROVE  /\ Worth(l, << >>) = 0
         /\ Worth(l, q) \in Int
         /\ Worth(l, << k >> \o q) = l.gain[k] + Worth(l, q)
<1> DEFINE p == << k >> \o q
           n == Len(q)
<1>1. /\ p \in Seq(Hyps(l)) /\ n \in Nat /\ Len(p) = n + 1 /\ p[1] = k
      /\ l.gain[k] \in Int /\ << >> \in Seq(Hyps(l)) /\ Len(<< >>) = 0
  BY DEF LatticeType
<1>2. \A i \in 1 .. n : p[i + 1] = q[i] /\ l.gain[q[i]] \in Int
  BY SMTT(30) DEF LatticeType
<1> HIDE DEF p, n
<1> DEFINE P == Sum(l, p)
           Q == Sum(l, q)
<1>3. /\ \A i \in 0 .. n : Q[i] \in Int /\ Q[i] = SumHere(l, q, Q, i)
      /\ \A i \in 0 .. n + 1 : P[i] = SumHere(l, p, P, i)
  BY <1>1, SumEquation DEF n
<1>4. Worth(l, << >>) = 0
  <2>1. Sum(l, << >>)[0] = SumHere(l, << >>, Sum(l, << >>), 0)
    BY <1>1, SumEquation
  <2>2. QED
    BY <1>1, <2>1, WorthIsSum DEF SumHere
<1> HIDE DEF P, Q
<1> DEFINE S == { i \in Nat : i \in 0 .. n => P[i + 1] = l.gain[k] + Q[i] }
<1>5. 0 \in S
  <2>1. P[0] = 0 /\ Q[0] = 0
    BY <1>1, <1>3 DEF SumHere
  <2>2. P[1] = P[0] + l.gain[p[1]]
    <3>1. 1 \in 0 .. n + 1 /\ 1 # 0 /\ 1 - 1 = 0
      BY <1>1
    <3>2. QED
      BY <1>3, <3>1 DEF SumHere
  <2>3. QED
    BY <1>1, <2>1, <2>2
<1>6. ASSUME NEW i \in Nat, i \in S PROVE i + 1 \in S
  <2>1. SUFFICES ASSUME i + 1 \in 0 .. n PROVE P[(i + 1) + 1] = l.gain[k] + Q[i + 1]
    OBVIOUS
  <2>2. /\ i \in 0 .. n /\ i + 1 \in 1 .. n /\ i + 1 # 0 /\ (i + 1) - 1 = i
        /\ (i + 1) + 1 \in 0 .. n + 1 /\ (i + 1) + 1 # 0 /\ ((i + 1) + 1) - 1 = i + 1
    BY <1>1, <2>1
  <2>3. Q[i + 1] = Q[i] + l.gain[q[i + 1]]
    BY <1>3, <2>1, <2>2 DEF SumHere
  <2>4. P[(i + 1) + 1] = P[i + 1] + l.gain[p[(i + 1) + 1]]
    BY <1>3, <2>2 DEF SumHere
  <2>5. /\ p[(i + 1) + 1] = q[i + 1] /\ l.gain[q[i + 1]] \in Int /\ Q[i] \in Int
        /\ P[i + 1] = l.gain[k] + Q[i]
    BY <1>2, <1>3, <1>6, <2>2
  <2>6. QED
    BY <1>1, <2>3, <2>4, <2>5
<1>7. n \in S
  <2> HIDE DEF S
  <2>1. QED
    BY <1>1, <1>5, <1>6, Induction
<1>8. P[n + 1] = l.gain[k] + Q[n] /\ Q[n] \in Int
  BY <1>1, <1>3, <1>7
<1>9. QED
  BY <1>1, <1>4, <1>8, WorthIsSum DEF P, Q, p, n

-------------------------------------------------------------------------
(* The transition that is taken forward has the score the forward score    *)
(* promises.                                                               *)
LEMMA BestForwardFacts ==
  ASSUME NEW g, D!GraphType(g), D!Ordered(g), D!ForwardBest(g), NEW s \in D!States(g)
  PROVE  /\ g.forward[s] <= 0 => g.fscore[s] = 0
         /\ g.forward[s] > 0 =>
              /\ g.forward[s] \in D!States(g) /\ g.forward[s] > s
              /\ \E k \in DOMAIN g.trans[s] :
                   /\ D!BestForward(g, s) = g.trans[s][k]
                   /\ g.trans[s][k].to = g.forward[s]
                   /\ g.trans[s][k].score + g.fscore[g.forward[s]] = g.fscore[s]
<1> DEFINE T == g.trans[s]
           F == g.forward[s]
<1>1. /\ g.n \in Nat \ {0} /\ D!States(g) = 0 .. g.n - 1 /\ s \in 0 .. g.n - 1
      /\ T \in Seq(D!TransitionType) /\ F \in -1 .. g.n - 1
      /\ \A i \in 0 .. g.n - 1 : g.fscore[i] \in Int
  BY DEF D!GraphType, D!States
<1>2. ASSUME NEW k \in DOMAIN T
      PROVE  T[k].score \in Int /\ T[k].to \in s + 1 .. g.n - 1
             /\ T[k].score + g.fscore[T[k].to] <= g.fscore[s]
  <2>1. T[k] \in D!TransitionType
    BY <1>1
  <2>2. T[k].score \in Int
    BY <2>1 DEF D!TransitionType
  <2>3. QED
    BY <2>2 DEF D!Ordered, D!ForwardBest
<1>3. IF F = -1 THEN g.fscore[s] = 0
      ELSE \E k \in DOMAIN T : T[k].to = F /\ T[k].score + g.fscore[F] = g.fscore[s]
  BY DEF D!ForwardBest
<1>4. DOMAIN T = 1 .. Len(T) /\ Len(T) \in Nat
  BY <1>1
<1>5. F # -1 => F \in s + 1 .. g.n - 1
  BY <1>2, <1>3
<1>6. ASSUME F > 0
      PROVE  \E k \in DOMAIN T : /\ D!BestForward(g, s) = T[k] /\ T[k].to = F
                                 /\ T[k].score + g.fscore[F] = g.fscore[s]
  <2> DEFINE to == { k \in DOMAIN T : T[k].to = F }
             best == { k \in to : \A j \in to : T[j].score <= T[k].score }
             score == [k \in to |-> T[k].score]
  <2>1. PICK m \in DOMAIN T : T[m].to = F /\ T[m].score + g.fscore[F] = g.fscore[s]
    BY <1>1, <1>3, <1>6
  <2>2. IsFiniteSet(to) /\ to # {} /\ score \in [to -> Int]
    <3>1. IsFiniteSet(DOMAIN T)
      BY <1>4, FS_Interval
    <3>2. IsFiniteSet(to)
      BY <3>1, FS_Subset
    <3>3. QED
      BY <1>2, <2>1, <3>2
  <2>3. best # {}
    <3>1. PICK k \in to : \A j \in to : score[j] <= score[k]
      <4> HIDE DEF to, score
      <4>1. QED
        BY <2>2, GreatestValue
    <3>2. QED
      BY <3>1
  <2>4. best \subseteq Nat
    BY <1>4
  <2> DEFINE b == CHOOSE k \in best : \A j \in best : k <= j
  <2>5. b \in best
    <3> HIDE DEF best
    <3>1. \E k \in best : \A j \in best : k <= j
      BY <2>3, <2>4, MinIn
    <3>2. QED
      BY <3>1
  <2>6. D!BestForward(g, s) = T[b]
    BY DEF D!BestForward
  <2>7. b \in DOMAIN T /\ T[b].to = F /\ T[m].score <= T[b].score
    BY <2>1, <2>5
  <2> HIDE DEF b, T, F
  <2>8. T[b].score + g.fscore[F] = g.fscore[s]
    <3>1. /\ T[b].score \in Int /\ T[m].score \in Int
          /\ T[b].score + g.fscore[F] <= g.fscore[s]
      BY <1>2, <2>1, <2>7
    <3>2. g.fscore[F] \in Int /\ g.fscore[s] \in Int
      BY <1>1, <1>5, <1>6
    <3>3. QED
      BY <2>1, <2>7, <3>1, <3>2
  <2>9. QED
    BY <2>6, <2>7, <2>8
<1>7. F <= 0 => g.fscore[s] = 0
  BY <1>1, <1>3, <1>5
<1>8. F > 0 => F \in D!States(g) /\ F > s
  BY <1>1, <1>5
<1>9. QED
  BY <1>6, <1>7, <1>8

-------------------------------------------------------------------------
(* The words along the best way forward: the recursion has a solution.     *)
WordsHere(g, f, s) ==
  IF g.forward[s] <= 0 THEN << >> ELSE D!BestForward(g, s).output \o f[g.forward[s]]

LEMMA ForwardWordsEquation ==
  ASSUME NEW g, D!GraphType(g), D!Ordered(g), D!ForwardBest(g)
  PROVE  \A s \in D!States(g) : D!ForwardWords(g)[s] = WordsHere(g, D!ForwardWords(g), s)
<1> DEFINE S == D!States(g)
           V == Seq(Hyps(lattice))
           G == [f \in [S -> V] |-> [s \in S |-> WordsHere(g, f, s)]]
           rank == [s \in S |-> g.n - 1 - s]
<1>1. g.n \in Nat \ {0} /\ S = 0 .. g.n - 1
  BY DEF D!GraphType, D!States
<1>2. rank \in [S -> 0 .. g.n]
  BY <1>1
<1>3. ASSUME NEW s \in S, ~ (g.forward[s] <= 0)
      PROVE  /\ g.forward[s] \in S /\ rank[g.forward[s]] < rank[s]
             /\ D!BestForward(g, s).output \in V
  <2>1. g.forward[s] \in -1 .. g.n - 1
    BY DEF D!GraphType
  <2>2. g.forward[s] > 0
    BY <1>1, <1>3, <2>1
  <2>3. g.forward[s] \in S /\ g.forward[s] > s
    BY <2>2, BestForwardFacts
  <2>4. PICK k \in DOMAIN g.trans[s] : D!BestForward(g, s) = g.trans[s][k]
    BY <2>2, BestForwardFacts
  <2>5. g.trans[s][k] \in D!TransitionType
    BY <2>4 DEF D!GraphType
  <2>6. QED
    BY <1>1, <2>3, <2>4, <2>5 DEF D!TransitionType
<1>4. ASSUME NEW f \in [S -> V], NEW s \in S
      PROVE  G[f][s] = WordsHere(g, f, s) /\ G[f][s] \in V
  <2>1. G[f][s] = WordsHere(g, f, s)
    OBVIOUS
  <2>2. CASE g.forward[s] <= 0
    <3>1. << >> \in V
      OBVIOUS
    <3>2. QED
      BY <2>1, <2>2, <3>1 DEF WordsHere
  <2>3. CASE ~ (g.forward[s] <= 0)
    <3>1. f[g.forward[s]] \in V /\ D!BestForward(g, s).output \in V
      BY <1>3, <2>3
    <3>2. D!BestForward(g, s).output \o f[g.forward[s]] \in V
      BY <3>1
    <3>3. QED
      BY <2>1, <2>3, <3>2 DEF WordsHere
  <2>4. QED
    BY <2>2, <2>3
<1>5. ASSUME NEW f \in [S -> V], NEW e \in [S -> V], NEW s \in S,
             \A y \in S : rank[y] < rank[s] => f[y] = e[y]
      PROVE  G[f][s] = G[e][s]
  <2>1. ~ (g.forward[s] <= 0) => f[g.forward[s]] = e[g.forward[s]]
    BY <1>3, <1>5
  <2>2. WordsHere(g, f, s) = WordsHere(g, e, s)
    BY <2>1 DEF WordsHere
  <2>3. QED
    BY <1>4, <2>2
<1>6. << >> \in V
  OBVIOUS
<1>7. PICK f \in [S -> V] : \A s \in S : f[s] = WordsHere(g, f, s)
  <2> HIDE DEF G, rank, S, V
  <2>1. KeepsType(G, S, V)
    BY <1>4 DEF KeepsType
  <2>2. LooksBelow(G, S, V, rank)
    BY <1>5 DEF LooksBelow
  <2>3. V # {} /\ g.n \in Nat
    BY <1>1, <1>6
  <2>4. \E f \in [S -> V] : Solution(f, G, S)
    BY <1>2, <2>1, <2>2, <2>3, Recursion
  <2>5. QED
    BY <1>4, <2>4 DEF Solution
<1>8. D!ForwardWords(g) = CHOOSE x : x = [s \in S |-> WordsHere(g, x, s)]
  BY DEF D!ForwardWords, WordsHere
<1>9. f = [s \in S |-> WordsHere(g, f, s)]
  BY <1>7
<1>10. D!ForwardWords(g) = [s \in S |-> WordsHere(g, D!ForwardWords(g), s)]
  BY <1>8, <1>9
<1>11. ASSUME NEW s \in S PROVE D!ForwardWords(g)[s] = WordsHere(g, D!ForwardWords(g), s)
  BY <1>10
<1>12. QED
  BY <1>11

(* From each state of the finished graph they are worth its forward score. *)
LEMMA ForwardWorth ==
  ASSUME IInv, Done
  PROVE  \A s \in 0 .. Len(states) - 1 :
           Worth(lattice, D!ForwardWords(Graph)[s]) = Graph.fscore[s]
<1> DEFINE g == Graph
           F == D!ForwardWords(g)
           N == Len(states)
           S == { n \in Nat : \A s \in 0 .. N - 1 : N - 1 - s = n =>
                    F[s] \in Seq(Hyps(lattice)) /\ Worth(lattice, F[s]) = g.fscore[s] }
<1>1. D!GraphType(g) /\ D!Ordered(g) /\ D!ForwardBest(g)
  BY Sound DEF GraphAsAssumed
<1>2. g.n = N /\ D!States(g) = 0 .. N - 1
  BY DEF Graph, D!States
<1>3. /\ LatticeType(lattice) /\ N \in Nat \ {0}
      /\ \A s \in 0 .. N - 1 : \E h \in Winners(lattice) : Idx(h) = s
      /\ \A h \in Winners(lattice) : \A j \in DOMAIN g.trans[Idx(h)] :
           \E k \in Made(lattice, h) : IsTransOf(g.trans[Idx(h)][j], k, Idx(lattice.win[k]))
  BY Finished
<1>4. \A s \in 0 .. N - 1 : g.fscore[s] \in Int /\ g.forward[s] \in -1 .. N - 1
  BY <1>1, <1>2 DEF D!GraphType
<1>5. << >> \in Seq(Hyps(lattice)) /\ Worth(lattice, << >>) = 0
  <2>1. 0 \in Hyps(lattice) /\ << >> \in Seq(Hyps(lattice))
    BY <1>3 DEF LatticeType
  <2>2. QED
    BY <1>3, <2>1, WorthOfLonger
<1> HIDE DEF g, F, N
<1>6. ASSUME NEW n \in Nat, \A j \in 0 .. n - 1 : j \in S PROVE n \in S
  <2>1. ASSUME NEW s \in 0 .. N - 1, N - 1 - s = n
        PROVE  F[s] \in Seq(Hyps(lattice)) /\ Worth(lattice, F[s]) = g.fscore[s]
    <3>1. F[s] = WordsHere(g, F, s)
      BY <1>1, <1>2, ForwardWordsEquation DEF F
    <3>2. CASE g.forward[s] <= 0
      <4>1. g.fscore[s] = 0
        BY <1>1, <1>2, <3>2, BestForwardFacts
      <4>2. F[s] = << >>
        BY <3>1, <3>2 DEF WordsHere
      <4>3. QED
        BY <1>5, <4>1, <4>2
    <3>3. CASE g.forward[s] > 0
      <4> DEFINE to == g.forward[s]
      <4>1. to \in 0 .. N - 1 /\ to > s
        BY <1>1, <1>2, <3>3, BestForwardFacts
      <4>2. PICK j \in DOMAIN g.trans[s] :
              /\ D!BestForward(g, s) = g.trans[s][j]
              /\ g.trans[s][j].score + g.fscore[to] = g.fscore[s]
        BY <1>1, <1>2, <3>3, BestForwardFacts
      <4>3. PICK h \in Winners(lattice) : Idx(h) = s
        BY <1>3
      <4>4. PICK k \in Made(lattice, h) : IsTransOf(g.trans[s][j], k, Idx(lattice.win[k]))
        BY <1>3, <4>2, <4>3
      <4>5. /\ D!BestForward(g, s).output = << k >> /\ g.trans[s][j].score = lattice.gain[k]
            /\ k \in Hyps(lattice) /\ lattice.gain[k] \in Int
        BY <1>3, <4>2, <4>4 DEF IsTransOf, Made, LatticeType
      <4>6. F[s] = << k >> \o F[to]
        <5>1. ~ (g.forward[s] <= 0)
          BY <1>4, <3>3
        <5>2. QED
          BY <3>1, <4>5, <5>1 DEF WordsHere
      <4> HIDE DEF to
      <4>7. N - 1 - to \in 0 .. n - 1 /\ N - 1 - to \in Nat
        BY <1>3, <2>1, <4>1
      <4>8. F[to] \in Seq(Hyps(lattice)) /\ Worth(lattice, F[to]) = g.fscore[to]
        BY <1>6, <4>1, <4>7
      <4>9. F[s] \in Seq(Hyps(lattice))
        BY <4>5, <4>6, <4>8
      <4>10. Worth(lattice, F[s]) = lattice.gain[k] + g.fscore[to]
        BY <1>3, <4>5, <4>6, <4>8, WorthOfLonger
      <4>11. QED
        BY <4>2, <4>5, <4>9, <4>10
    <3>4. QED
      BY <1>4, <3>2, <3>3
  <2>2. QED
    BY <2>1
<1>7. \A n \in Nat : n \in S
  <2> HIDE DEF S
  <2>1. QED
    BY <1>6, StrongInduction
<1>8. ASSUME NEW s \in 0 .. N - 1 PROVE Worth(lattice, F[s]) = g.fscore[s]
  <2>1. N - 1 - s \in Nat
    BY <1>3
  <2>2. QED
    BY <1>7, <2>1
<1>9. QED
  BY <1>8 DEF g, F, N

(* The best way forward is worth what the forward score says.              *)
THEOREM ForwardAlwaysBest == Spec => []ForwardIsBest
<1>1. IInv => ForwardIsBest
  BY ForwardWorth DEF ForwardIsBest
<1>2. QED
  BY <1>1, Invariance, PTL
=========================================================================
